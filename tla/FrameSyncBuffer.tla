-------------------------- MODULE FrameSyncBuffer --------------------------
(***************************************************************************)
(* The shifting buffer of the frame synchroniser (lib/frame_sync_buffer).  *)
(*                                                                         *)
(* The buffer has four consecutive areas: head, previous blocks, current   *)
(* block, overlap.  Symbols enter at the right end; when the buffer is     *)
(* full it is rotated to the left by one block.                            *)
(*                                                                         *)
(* A symbol is abstracted to its absolute position in the input stream,    *)
(* and the complex zero (initial contents, fill at the end of the stream)  *)
(* to Zero.  A correlation value is abstracted to the symbols it was       *)
(* computed from, which makes a stale value visible.  The energy           *)
(* corrections are computed symbol by symbol and rotated with the signal:  *)
(* they carry no state of their own.  An SNR estimate is abstracted to the *)
(* number of symbols it was taken from.                                    *)
(***************************************************************************)
EXTENDS Integers, Sequences

CONSTANTS
  BlockLen,          \* d_BLOCK_LEN: symbols per block (ASM and payload)
  AsmLen,            \* d_ASM_CONJ.size(): symbols of the sync marker
  NumHistoryFrames,  \* d_NUM_HISTORY_FRAMES: previous blocks that are kept
  HeadSymbols,       \* head_num_symbols(): copied before the payload, may be < 0
  MaxSymbols,        \* bound: length of the input stream
  MaxRead            \* bound: symbols offered by one call

ASSUME BufferAssumption ==
  /\ AsmLen \in Nat \ {0}
  /\ BlockLen \in Nat /\ BlockLen > AsmLen
  /\ NumHistoryFrames \in Nat
  /\ HeadSymbols \in Int

ASSUME BufferBounds ==
  /\ MaxSymbols \in Nat
  /\ MaxRead \in Nat

VARIABLES
  buf,          \* the frame_sync_buffer object
  nitems_read   \* symbols of the input stream consumed so far

bufferVars == <<buf, nitems_read>>

-----------------------------------------------------------------------------
(* Geometry *)

\* utils::minus_cap_zero: subtraction of unsigned integers that stops at zero
MinusCapZero(a, b) == IF a >= b THEN a - b ELSE 0

\* utils::pick_smaller
PickSmaller(a, b) == IF a < b THEN a ELSE b

\* num_head, the head area: a negative head needs no symbols before the ASM
HeadLen    == IF HeadSymbols > 0 THEN HeadSymbols ELSE 0
OverlapLen == AsmLen - 1
HistoryLen == NumHistoryFrames * BlockLen + HeadLen
BufferLen  == HistoryLen + BlockLen + OverlapLen

SignalIndex == 0 .. BufferLen - 1
CorrIndex   == 0 .. BufferLen - OverlapLen - 1
TagIndex    == 0 .. NumHistoryFrames + 1

Zero    == -1          \* d_ZERO
INVALID == -1          \* snr::INVALID
Symbol  == Nat \cup {Zero}

\* The symbols under the sync marker when it is laid over index i
Window(signal, i) == [k \in 0 .. OverlapLen |-> signal[i + k]]

-----------------------------------------------------------------------------
(* Buffer state *)

full(b)                 == b.items = BufferLen
buffer_current_empty(b) == b.items <= HistoryLen
num_symbols_in_window(b) == MinusCapZero(b.items, HistoryLen)
num_symbols_missing(b)  == BufferLen - b.items

\* (offset_last_symbol_End is a mutant of offset_last_symbol: the end of the
\* buffer, whatever it holds)
offset(b)             == b.offset_counter
offset_start(b)       == MinusCapZero(b.offset_counter, HistoryLen)
offset_last_symbol_End(b) == b.offset_counter + BlockLen + OverlapLen - 1
offset_last_symbol(b) == b.offset_counter + MinusCapZero(b.items, HistoryLen + 1)
offset_end(b)         == MinusCapZero(b.offset_counter + BlockLen + OverlapLen, 1)

\* Mutant of localOffset: the cap at zero is taken before the history is added
localOffset_CapFirst(b, abs_offset) ==
  MinusCapZero(abs_offset, b.offset_counter) + HistoryLen

localOffset(b, abs_offset) == MinusCapZero(abs_offset + HistoryLen, b.offset_counter)

signal(b, abs_pos)      == b.signal[localOffset(b, abs_pos)]
correlation(b, abs_pos) == b.correlation[localOffset(b, abs_pos)]
correlation_window(b, local_pos) == b.correlation[HistoryLen + local_pos]

(* snr(): the two tags that the SNR at abs_pos is interpolated from.  Below *)
(* the head area the unsigned difference wraps round, which selects the    *)
(* last pair of tags.                                                      *)
snr(b, abs_pos) ==
  LET local_pos   == localOffset(b, abs_pos)
      local_block == (local_pos - HeadLen) \div BlockLen
      start == IF local_pos >= HeadLen /\ local_block <= NumHistoryFrames
               THEN local_block ELSE NumHistoryFrames
  IN <<b.snr_tags[start], b.snr_tags[start + 1]>>

-----------------------------------------------------------------------------
(* Operations *)

\* The constructor: a history of zeros, which counts as being in the buffer
NewBuffer ==
  [items          |-> HistoryLen,
   offset_counter |-> 0,
   signal         |-> [i \in SignalIndex |-> Zero],
   correlation    |-> [i \in CorrIndex |-> [k \in 0 .. OverlapLen |-> Zero]],
   snr_tags       |-> [j \in TagIndex |-> INVALID]]

\* Mutant of read_signal: the correlation is only computed from the first new
\* symbol on
read_signal_NewOnly(b, in, snr_end) ==
  LET num_copy   == PickSmaller(Len(in), num_symbols_missing(b))
      new_signal == [i \in SignalIndex |->
                       IF b.items <= i /\ i < b.items + num_copy
                       THEN in[i - b.items + 1] ELSE b.signal[i]]
  IN [b EXCEPT !.items = @ + num_copy, !.signal = new_signal,
               !.correlation = [i \in CorrIndex |->
                  IF b.items <= i /\ i + AsmLen < b.items + num_copy
                  THEN Window(new_signal, i) ELSE b.correlation[i]],
               !.snr_tags[NumHistoryFrames + 1] = snr_end]

(* read_signal: append the symbols of in that fit, compute the correlation *)
(* at the positions that have become computable and note the SNR.          *)
read_signal(b, in, snr_end) ==
  LET num_copy   == PickSmaller(Len(in), num_symbols_missing(b))
      indx_start == b.items
      indx_stop  == b.items + num_copy
      new_signal == [i \in SignalIndex |->
                       IF indx_start <= i /\ i < indx_stop
                       THEN in[i - indx_start + 1] ELSE b.signal[i]]
  IN [items          |-> indx_stop,
      offset_counter |-> b.offset_counter,
      signal         |-> new_signal,
      correlation    |-> [i \in CorrIndex |->
                            IF /\ MinusCapZero(indx_start, AsmLen) <= i
                               /\ i < MinusCapZero(indx_stop, AsmLen)
                            THEN Window(new_signal, i) ELSE b.correlation[i]],
      snr_tags       |-> [b.snr_tags EXCEPT ![NumHistoryFrames + 1] = snr_end]]

\* std::rotate of a vector of length len to the left by n
Rotate(f, len, n) ==
  [i \in 0 .. len - 1 |-> IF i + n < len THEN f[i + n] ELSE f[i + n - len]]

\* Mutants of advance: the last SNR tag is not reset; the overlap is dropped
advance_KeepTag(b) ==
  [items          |-> b.items - BlockLen,
   offset_counter |-> b.offset_counter + BlockLen,
   signal         |-> Rotate(b.signal, BufferLen, BlockLen),
   correlation    |-> Rotate(b.correlation, BufferLen - OverlapLen, BlockLen),
   snr_tags       |-> Rotate(b.snr_tags, NumHistoryFrames + 2, 1)]

advance_DropItems(b) ==
  [items          |-> HistoryLen,
   offset_counter |-> b.offset_counter + BlockLen,
   signal         |-> Rotate(b.signal, BufferLen, BlockLen),
   correlation    |-> Rotate(b.correlation, BufferLen - OverlapLen, BlockLen),
   snr_tags       |-> [Rotate(b.snr_tags, NumHistoryFrames + 2, 1)
                         EXCEPT ![NumHistoryFrames + 1] = INVALID]]

\* advance(): only for a full buffer, otherwise BufferAdvancedBeforeFull is thrown
advance(b) ==
  [items          |-> b.items - BlockLen,
   offset_counter |-> b.offset_counter + BlockLen,
   signal         |-> Rotate(b.signal, BufferLen, BlockLen),
   correlation    |-> Rotate(b.correlation, BufferLen - OverlapLen, BlockLen),
   snr_tags       |-> [Rotate(b.snr_tags, NumHistoryFrames + 2, 1)
                         EXCEPT ![NumHistoryFrames + 1] = INVALID]]

\* The next n symbols of the input stream
Input(n) == [k \in 1 .. n |-> nitems_read + k - 1]

-----------------------------------------------------------------------------
(* The buffer driven by a client that reads and advances in any legal order *)

ReadSignal(n) ==
  LET taken == PickSmaller(n, num_symbols_missing(buf))
  IN /\ nitems_read + taken <= MaxSymbols
     /\ taken > 0
     /\ buf' = read_signal(buf, Input(n), nitems_read + taken)
     /\ nitems_read' = nitems_read + taken

Advance ==
  /\ full(buf)
  /\ buf' = advance(buf)
  /\ UNCHANGED nitems_read

BufferInit == buf = NewBuffer /\ nitems_read = 0

BufferNext == Advance \/ \E n \in 1 .. MaxRead : ReadSignal(n)

BufferSpec == BufferInit /\ [][BufferNext]_bufferVars

-----------------------------------------------------------------------------
(* Properties *)

BufferObject ==
  [items : HistoryLen .. BufferLen,
   offset_counter : Nat,
   signal : [SignalIndex -> Symbol],
   correlation : [CorrIndex -> [0 .. OverlapLen -> Symbol]],
   snr_tags : [TagIndex -> Nat \cup {INVALID}]]

\* The buffer object has the shape its member declarations give it, and the
\* number of items stays between the history and the buffer length.
BufferTypeOK == nitems_read \in Nat /\ buf \in BufferObject

\* The stream position that belongs at index i of the buffer: symbols from
\* before the start of the stream are zeros.
SymbolAt(b, i) ==
  IF b.offset_counter + i >= HistoryLen THEN b.offset_counter + i - HistoryLen ELSE Zero

\* What belongs at stream position p: a received symbol, or a zero: the history
\* at the start, the fill of stop() at the end
Expected(p) == IF p < nitems_read THEN p ELSE Zero

\* Every correlation value left of the last AsmLen filled positions belongs to
\* the symbols that are over it.
CorrelationPlaced(b) ==
  \A i \in CorrIndex :
    i + AsmLen < b.items => b.correlation[i] = Window(b.signal, i)

\* Whatever sequence of reads and rotations led here, every filled index of
\* the signal buffer holds exactly the stream symbol that the offset
\* arithmetic of offset() and localOffset() assigns to it, and no symbol that
\* was consumed is missing at the end (read_signal, advance).
SignalInPlace ==
  /\ \A i \in SignalIndex : i < buf.items => buf.signal[i] = Expected(SymbolAt(buf, i))
  /\ nitems_read <= buf.offset_counter + buf.items - HistoryLen

\* Of the positions that the loop of read_signal has come to, none is stale:
\* neither a read in small pieces nor a rotation leaves a value of another
\* position behind (read_signal, advance).  The loop stops AsmLen symbols
\* before the last one; CorrelationAvailable is about the position after that.
CorrelationInPlace == CorrelationPlaced(buf)

\* "The correlation is not available for the overlap" (frame_sync_buffer.h:73),
\* only "the last len(asm)-1 samples of the buffer are not available" (:127): in
\* a full buffer, which findMaximumInBuffer searches, every position before the
\* overlap has the correlation of the symbols that are over it.
CorrelationAvailable ==
  full(buf) => \A i \in CorrIndex : buf.correlation[i] = Window(buf.signal, i)

\* Each SNR tag still in the buffer was estimated when the block it opens had
\* its overlap filled, and the last tag is either invalid, directly after a
\* rotation, or the estimate at the last symbol (set_snr_current_end, advance).
SnrTagsInStep ==
  /\ \A j \in 0 .. NumHistoryFrames :
       LET start == buf.offset_counter + (j - NumHistoryFrames) * BlockLen
       IN buf.snr_tags[j] = IF start <= 0 THEN INVALID ELSE start + OverlapLen
  /\ IF buf.snr_tags[NumHistoryFrames + 1] = INVALID
     THEN buf.items = HistoryLen + (IF buf.offset_counter = 0 THEN 0 ELSE OverlapLen)
     ELSE buf.snr_tags[NumHistoryFrames + 1] = nitems_read

\* Read by absolute position, every position from offset_start() to
\* offset_last_symbol() returns its own symbol.  (An ASM of one symbol leaves
\* no overlap: after a rotation offset_last_symbol() is then one too large.)
AbsoluteReads ==
  \A p \in offset_start(buf) .. offset_last_symbol(buf) :
    nitems_read > 0 => signal(buf, p) = Expected(p)
=============================================================================
