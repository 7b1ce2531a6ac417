----------------------------- MODULE FrameSync -----------------------------
(***************************************************************************)
(* The frame synchroniser (lib/frame_sync_impl): work() and stop() over    *)
(* the shifting buffer and the queue of frames that are being copied.      *)
(*                                                                         *)
(* The position of the correlation maximum and its ambiguity depend on the *)
(* signal: any position of the searched window may win.  A task of         *)
(* d_frame_queue is a record; its message buffer is the sequence of the    *)
(* symbols copied so far, its header the symbols its score was computed    *)
(* from.  No two tasks of the list match, and the order of the list only   *)
(* decides the order of the messages of one call: the list is a set, and   *)
(* the messages published by one call of processFrameQueue are one batch.  *)
(*                                                                         *)
(* The release build compiles the assertions out.  Those that a call may   *)
(* break are recorded in violated, so that they can be stated as           *)
(* invariants.                                                             *)
(***************************************************************************)
EXTENDS FrameSyncBuffer

CONSTANTS
  FramesAfter,     \* frames_after(); frames_before() is NumHistoryFrames
  TailSymbols,     \* tail_num_symbols(): copied after the payload, may be < 0
  Ambiguities,     \* phase ambiguities of the constellation
  AdditionalAsm    \* additional_asm: positions known in advance

FramesBefore == NumHistoryFrames

\* compute_output_len: symbols of an output frame
OutputLen == (BlockLen - AsmLen) + HeadSymbols + TailSymbols

Position == [offset : Nat, ambiguity : Ambiguities]

ASSUME FrameSyncAssumption ==
  /\ FramesAfter \in Nat
  /\ TailSymbols \in Int
  /\ OutputLen \in Nat
  /\ AdditionalAsm \in SUBSET Position
  /\ \A pos \in AdditionalAsm : pos.offset >= HeadLen

VARIABLES
  status,     \* "idle", in "work", "stopped", or "failed" by an exception
  todo,       \* num_out - processed of the current call of work()
  queue,      \* d_frame_queue
  sequence,   \* d_sequence_number
  out,        \* batches of messages published on the port out
  found,      \* history: positions of all primary frames
  violated    \* history: assertions that have failed

syncVars == <<status, todo, queue, sequence, out, found, violated>>
vars == <<bufferVars, syncVars>>

-----------------------------------------------------------------------------
(* Tasks *)

NoHeader == <<>>
SEQUENCE_UNUSED == 0

\* asm_position::matches
Matches(s, t) == s.offset = t.offset /\ s.ambiguity = t.ambiguity

\* frame_copy_task_t, with copy_from computed as in queueFrameOutput
NewTask(pos, seq, prim) ==
  [offset    |-> pos.offset,
   ambiguity |-> pos.ambiguity,
   sequence  |-> seq,
   primary   |-> prim,
   copy_from |-> pos.offset + AsmLen - HeadSymbols,
   data      |-> <<>>,
   header    |-> NoHeader]

data_complete(t)   == Len(t.data) = OutputLen
num_remaining(t)   == OutputLen - Len(t.data)
header_computed(t) == t.header # NoHeader

\* A task queued by queueFrameOutput as secondary frame: ignored if it is queued already
QueueSecondary(q, tasks) ==
  q \cup {t \in tasks : ~ \E s \in q : Matches(s, t)}

\* Mutant of QueuePrimary: a primary frame is ignored if the position is queued
QueuePrimary_Ignored(q, t) ==
  q \cup {u \in {t} : ~ \E s \in q : Matches(s, u)}

\* A task queued by queueFrameOutput as primary frame: replaces the queued one
QueuePrimary(q, t) == {s \in q : ~ Matches(s, t)} \cup {t}

\* queueFrameOutput throws InvalidParameter for an ASM within the first head symbols
Throws(pos) == pos.offset < HeadLen

(* processBuffer: the positions of the secondary frames, spaced by block   *)
(* lengths before and after the ASM that was found                         *)
Before(pos) ==
  {[pos EXCEPT !.offset = pos.offset - i * BlockLen] :
     i \in {j \in 1 .. FramesBefore : pos.offset >= j * BlockLen}}

After(pos) ==
  {[pos EXCEPT !.offset = pos.offset + i * BlockLen] : i \in 1 .. FramesAfter}

\* queueFrameOutput throws for one of the positions: no later one is queued
Stops(pos) == \E p \in {pos} \cup Before(pos) : Throws(p)

Secondary(pos) ==
  {p \in Before(pos) : ~ Throws(p)} \cup {p \in After(pos) : ~ Stops(pos)}

processBuffer(q, pos, seq) ==
  IF Throws(pos) THEN q
  ELSE QueueSecondary(QueuePrimary(q, NewTask(pos, seq, TRUE)),
                      {NewTask(p, seq, FALSE) : p \in Secondary(pos)})

-----------------------------------------------------------------------------
(* processFrameQueue *)

\* The task can be served from the buffer
Reachable(b, t) ==
  LET first == IF header_computed(t) THEN t.copy_from
               ELSE PickSmaller(t.offset, t.copy_from)
  IN offset_start(b) <= first /\ first <= offset_last_symbol(b)

\* Mutant of asm_available: the whole frame is waited for
asm_available_Frame(b, t) ==
  /\ offset_start(b) <= t.offset
  /\ offset_last_symbol(b) >= t.offset + AsmLen + OutputLen

asm_available(b, t) ==
  /\ offset_start(b) <= t.offset
  /\ offset_last_symbol(b) >= t.offset + AsmLen

to_copy(b, t) ==
  PickSmaller(num_remaining(t), MinusCapZero(offset_last_symbol(b) + 1, t.copy_from))

\* One pass over a task: compute the header, copy what is available
CopyTask(b, t) ==
  IF data_complete(t) \/ ~ Reachable(b, t) THEN t
  ELSE LET n == to_copy(b, t)
       IN [t EXCEPT
             !.header = IF ~ header_computed(t) /\ asm_available(b, t)
                        THEN correlation(b, t.offset) ELSE @,
             !.data = @ \o [i \in 1 .. n |-> signal(b, t.copy_from + i - 1)],
             !.copy_from = @ + n]

\* Mutants of indx_threshold: the frames before are forgotten, or counted once too often
indx_threshold_NoBefore(b) == offset(b)
indx_threshold_Late(b) == MinusCapZero(offset(b), (FramesBefore + 1) * BlockLen)

\* Frames before this offset can no longer be generated
indx_threshold(b) == MinusCapZero(offset(b), FramesBefore * BlockLen)

Sendable(b, t) == data_complete(t) /\ t.offset < indx_threshold(b)

Copied(b, q) == {CopyTask(b, t) : t \in q}

\* The batch that is sent and the tasks that remain
Sent(b, q)      == {t \in Copied(b, q) : Sendable(b, t)}
Remaining(b, q) == {t \in Copied(b, q) : ~ Sendable(b, t)}

\* The positions for which a task looks up the SNR: its ASM for the header
\* (computeSingleScore), its first symbol for the soft decision
SnrLookups(b, t) ==
  IF data_complete(t) \/ ~ Reachable(b, t) THEN {}
  ELSE {p \in {t.offset} : ~ header_computed(t) /\ asm_available(b, t)}
       \cup {p \in {t.copy_from} : to_copy(b, t) > 0}

\* Assertions of frame_sync_buffer::snr and generate_pmt_to_send on the way
Broken(b, q) ==
  {a \in {"local_pos >= d_HEAD_LEN"} :
     \E t \in q : \E p \in SnrLookups(b, t) : localOffset(b, p) < HeadLen}
  \cup
  {a \in {"header_computed"} : \E t \in Sent(b, q) : ~ header_computed(t)}

Publish(batch) == IF batch = {} THEN out ELSE Append(out, batch)

-----------------------------------------------------------------------------
(* Actions *)

\* The scheduler calls work() with n new symbols
Work(n) ==
  /\ status = "idle"
  /\ nitems_read + n <= MaxSymbols
  /\ status' = "work"
  /\ todo' = n
  /\ UNCHANGED <<bufferVars, queue, sequence, out, found, violated>>

\* An iteration of the loop of work() that does not fill the buffer
WorkPartial ==
  /\ status = "work" /\ todo > 0
  /\ todo < num_symbols_missing(buf)
  /\ buf' = read_signal(buf, Input(todo), nitems_read + todo)
  /\ nitems_read' = nitems_read + todo
  /\ todo' = 0
  /\ UNCHANGED <<status, queue, sequence, out, found, violated>>

(* An iteration that fills the buffer: search the block, queue the frames,  *)
(* copy, send, and shift the buffer.                                       *)
WorkBlock(index, amb) ==
  LET num_copy == num_symbols_missing(buf)
      b   == read_signal(buf, Input(num_copy), nitems_read + num_copy)
      pos == [offset |-> offset(b) + index, ambiguity |-> amb]
      q   == processBuffer(queue, pos, sequence + 1)
  IN /\ status = "work" /\ todo >= num_copy
     /\ nitems_read' = nitems_read + num_copy
     /\ todo' = todo - num_copy
     /\ sequence' = sequence + 1
     /\ IF Stops(pos)
        THEN /\ status' = "failed"
             /\ buf' = b
             /\ queue' = q
             /\ UNCHANGED <<out, found, violated>>
        ELSE /\ found' = found \cup {pos}
             /\ out' = Publish(Sent(b, q))
             /\ queue' = Remaining(b, q)
             /\ violated' = violated \cup Broken(b, q)
             /\ buf' = advance(b)
             /\ UNCHANGED status

\* work() returns after a last pass over the queue
WorkReturn ==
  /\ status = "work" /\ todo = 0
  /\ out' = Publish(Sent(buf, queue))
  /\ queue' = Remaining(buf, queue)
  /\ violated' = violated \cup Broken(buf, queue)
  /\ status' = "idle"
  /\ UNCHANGED <<bufferVars, todo, sequence, found>>

\* stop() on a buffer b: flush every frame that holds a symbol, then EOF
Flush(b, q) ==
  LET flushed == {t \in Remaining(b, q) : t.data # <<>>}
      first   == Publish(Sent(b, q))
  IN /\ out' = IF flushed = {} THEN first ELSE Append(first, flushed)
     /\ queue' = Remaining(b, q) \ flushed
     /\ violated' = violated \cup Broken(b, q)
          \cup {a \in {"header_computed"} : \E t \in flushed : ~ header_computed(t)}
     /\ buf' = b
     /\ status' = "stopped"
     /\ UNCHANGED <<nitems_read, todo>>

\* stop() without symbols in the current block
StopEmpty ==
  /\ status = "idle"
  /\ buffer_current_empty(buf)
  /\ Flush(buf, queue)
  /\ UNCHANGED <<sequence, found>>

\* stop() with symbols left: zeros fill the overlap, the rest is searched
StopSearch(index, amb) ==
  LET fill == [k \in 1 .. OverlapLen |-> Zero]
      b    == read_signal(buf, fill, nitems_read)
      pos  == [offset |-> offset(b) + index, ambiguity |-> amb]
      q    == processBuffer(queue, pos, sequence + 1)
  IN /\ status = "idle"
     /\ ~ buffer_current_empty(buf)
     /\ index < PickSmaller(num_symbols_in_window(buf), BlockLen)
     /\ sequence' = sequence + 1
     /\ IF Stops(pos)
        THEN /\ status' = "failed"
             /\ buf' = b
             /\ queue' = q
             /\ UNCHANGED <<nitems_read, todo, out, found, violated>>
        ELSE /\ found' = found \cup {pos}
             /\ Flush(b, q)

Init ==
  /\ BufferInit
  /\ status = "idle"
  /\ todo = 0
  /\ queue = {NewTask(pos, SEQUENCE_UNUSED, FALSE) : pos \in AdditionalAsm}
  /\ sequence = 0
  /\ out = <<>>
  /\ found = {}
  /\ violated = {}

Next ==
  \/ \E n \in 1 .. MaxRead : Work(n)
  \/ WorkPartial
  \/ \E index \in 0 .. BlockLen - 1, amb \in Ambiguities : WorkBlock(index, amb)
  \/ WorkReturn
  \/ StopEmpty
  \/ \E index \in 0 .. BlockLen - 1, amb \in Ambiguities : StopSearch(index, amb)

Spec == Init /\ [][Next]_vars

-----------------------------------------------------------------------------
(* Properties *)

Task ==
  [offset : Nat, ambiguity : Ambiguities, sequence : Nat, primary : BOOLEAN,
   copy_from : Int, data : Seq(Symbol),
   header : [0 .. OverlapLen -> Symbol] \cup {NoHeader}]

\* Shape of the state of frame_sync_impl.
TypeOK ==
  /\ BufferTypeOK
  /\ status \in {"idle", "work", "stopped", "failed"}
  /\ todo \in Nat
  /\ queue \in SUBSET Task
  /\ sequence \in Nat
  /\ out \in Seq(SUBSET Task)
  /\ found \in SUBSET Position
  /\ violated \in SUBSET {"local_pos >= d_HEAD_LEN", "header_computed"}

\* No frame leaves twice: two different messages never have the same ASM
\* position and ambiguity, although every position is generated again by up
\* to FramesBefore + FramesAfter + 1 blocks (queueFrameOutput, indx_threshold).
NoFrameTwice ==
  /\ \A i, j \in 1 .. Len(out) :
       \A s \in out[i], t \in out[j] : Matches(s, t) => i = j /\ s = t
  /\ \A s, t \in queue : Matches(s, t) => s = t

HoldsItsSymbols(t) ==
  /\ t.offset >= 0
  /\ Len(t.data) <= OutputLen
  /\ \A k \in 1 .. Len(t.data) :
       t.data[k] = Expected(t.offset + AsmLen - HeadSymbols + k - 1)

ScoredOnOwnAsm(t) ==
  header_computed(t) => t.header = [k \in 0 .. OverlapLen |-> Expected(t.offset + k)]

\* A frame that is being copied, or has been sent, holds the consecutive
\* symbols from its first one on, without a gap, a repetition or a symbol of
\* another rotation of the buffer, however work() was called (processFrameQueue).
\* The score of its header is computed from the correlation of its own ASM,
\* never from a value that read_signal has not reached yet (asm_available,
\* computeSingleScore).
FrameContents ==
  \A t \in queue \cup UNION {out[i] : i \in 1 .. Len(out)} :
    HoldsItsSymbols(t) /\ ScoredOnOwnAsm(t)

\* Between two calls of work() the queue holds no frame that is overdue: one
\* that no later block can generate again and whose symbols are all there.
NothingOverdue ==
  status = "idle" =>
    \A t \in queue :
      \/ t.offset + FramesBefore * BlockLen >= offset(buf)
      \/ t.offset + AsmLen - HeadSymbols + OutputLen > nitems_read

\* Symbols of the frame at pos that were received
Received(pos) ==
  PickSmaller(OutputLen, MinusCapZero(nitems_read, pos.offset + AsmLen - HeadSymbols))

SentTasks == UNION {out[i] : i \in 1 .. Len(out)}

\* When EOF is sent, the frame of every ASM that was found has been sent as
\* primary frame with every symbol received for it, also if it was first
\* queued as secondary frame or was still incomplete at stop(); and so has that
\* of every position provided in advance (additional_asm in frame_sync.h).
FramesDelivered ==
  status = "stopped" =>
    /\ \A pos \in found : Received(pos) > 0 =>
         \E t \in SentTasks : Matches(t, pos) /\ t.primary /\ Len(t.data) >= Received(pos)
    /\ \A pos \in AdditionalAsm : Received(pos) > 0 => \E t \in SentTasks : Matches(t, pos)

\* Until stop() flushes what is there, every frame that is sent has its header,
\* and no SNR is asked for in the head area, which has no tags: the assertions of
\* generate_pmt_to_send and of frame_sync_buffer::snr hold, in whichever blocks
\* the ASM, the first symbol and the last symbol of a frame are seen.
AssertionsUntilStop == status # "stopped" => violated = {}
=============================================================================
