-------------------------- MODULE FrameSyncProofs --------------------------
(***************************************************************************)
(* The buffer and the frame synchroniser, for every geometry of the frames *)
(* and every stream.                                                       *)
(*                                                                         *)
(* BufferInv: read_signal and advance preserve the shape of the buffer     *)
(* object and keep signal, correlation and SNR tags in place.  The facts   *)
(* about the two operations are lemmas of their own, so that they serve    *)
(* both the buffer on its own and the frame synchroniser.                  *)
(*                                                                         *)
(* SyncInv: the state keeps its shape, and no frame leaves twice.          *)
(* TasksInv: every frame holds its own symbols, none is overdue between    *)
(* two calls, none is lost at EOF, and no assertion fails before stop().   *)
(***************************************************************************)
EXTENDS FrameSync, TLAPS

-----------------------------------------------------------------------------
(* The buffer *)

\* The stream position that belongs at each filled index is there, and n symbols
\* of the stream have gone through the buffer
SignalPlaced(b, n) ==
  /\ \A i \in SignalIndex : i < b.items => b.signal[i] = SymbolAt(b, i)
  /\ n = b.offset_counter + b.items - HistoryLen

\* SignalInPlace before stop() fills the buffer up with zeros
Placed == SignalPlaced(buf, nitems_read)

\* The lengths of the areas are natural numbers and add up (constructor).
LEMMA Geometry ==
  /\ AsmLen \in Nat /\ BlockLen \in Nat /\ NumHistoryFrames \in Nat
  /\ BlockLen > 0 /\ AsmLen > 0
  /\ HeadLen \in Nat /\ OverlapLen \in Nat /\ HistoryLen \in Nat /\ BufferLen \in Nat
  /\ NumHistoryFrames * BlockLen \in Nat
  /\ OverlapLen = AsmLen - 1
  /\ BufferLen = HistoryLen + BlockLen + OverlapLen
  /\ HistoryLen = NumHistoryFrames * BlockLen + HeadLen
<1>1. AsmLen \in Nat /\ BlockLen \in Nat /\ NumHistoryFrames \in Nat /\ HeadSymbols \in Int
      /\ BlockLen > 0 /\ AsmLen > 0
  BY BufferAssumption
<1>2. NumHistoryFrames * BlockLen \in Nat
  BY <1>1
<1>3. HeadLen \in Nat
  BY <1>1 DEF HeadLen
<1> QED
  BY <1>1, <1>2, <1>3 DEF OverlapLen, HistoryLen, BufferLen

\* A read takes what fits and no more (read_signal).
LEMMA ReadCount ==
  ASSUME NEW b \in BufferObject, NEW n \in Nat
  PROVE  /\ PickSmaller(n, num_symbols_missing(b)) \in Nat
         /\ PickSmaller(n, num_symbols_missing(b)) <= n
         /\ b.items + PickSmaller(n, num_symbols_missing(b)) \in HistoryLen .. BufferLen
  BY Geometry DEF BufferObject, PickSmaller, num_symbols_missing

\* The shape of the buffer object survives a read of symbols.
LEMMA ReadType ==
  ASSUME NEW b \in BufferObject, NEW in \in Seq(Symbol), NEW e \in Nat
  PROVE  read_signal(b, in, e) \in BufferObject
<1> DEFINE num    == PickSmaller(Len(in), num_symbols_missing(b))
           sig    == [i \in SignalIndex |->
                        IF b.items <= i /\ i < b.items + num
                        THEN in[i - b.items + 1] ELSE b.signal[i]]
           corr   == [i \in CorrIndex |->
                        IF /\ MinusCapZero(b.items, AsmLen) <= i
                           /\ i < MinusCapZero(b.items + num, AsmLen)
                        THEN Window(sig, i) ELSE b.correlation[i]]
           tags   == [b.snr_tags EXCEPT ![NumHistoryFrames + 1] = e]
<1>1. num \in Nat /\ num <= Len(in) /\ b.items + num \in HistoryLen .. BufferLen
  BY ReadCount
<1>2. b.items \in Nat
  BY Geometry DEF BufferObject
<1> HIDE DEF num
<1>3. sig \in [SignalIndex -> Symbol]
  <2> SUFFICES ASSUME NEW i \in SignalIndex
               PROVE  sig[i] \in Symbol
    OBVIOUS
  <2>1. CASE b.items <= i /\ i < b.items + num
    <3>1. i - b.items + 1 \in 1 .. Len(in)
      BY <1>1, <1>2, <2>1, Geometry DEF SignalIndex
    <3> QED
      BY <2>1, <3>1
  <2>2. CASE ~ (b.items <= i /\ i < b.items + num)
    BY <2>2 DEF BufferObject
  <2> QED
    BY <2>1, <2>2
<1> HIDE DEF sig
<1>4. corr \in [CorrIndex -> [0 .. OverlapLen -> Symbol]]
  <2> SUFFICES ASSUME NEW i \in CorrIndex
               PROVE  corr[i] \in [0 .. OverlapLen -> Symbol]
    OBVIOUS
  <2>1. \A k \in 0 .. OverlapLen : i + k \in SignalIndex
    BY Geometry DEF CorrIndex, SignalIndex
  <2>2. Window(sig, i) \in [0 .. OverlapLen -> Symbol]
    BY <1>3, <2>1 DEF Window
  <2>3. b.correlation[i] \in [0 .. OverlapLen -> Symbol]
    BY DEF BufferObject
  <2> QED
    BY <2>2, <2>3
<1>5. tags \in [TagIndex -> Nat \cup {INVALID}]
  BY DEF BufferObject
<1>6. b.offset_counter \in Nat
  BY DEF BufferObject
<1> HIDE DEF corr, tags
<1>7. read_signal(b, in, e) = [items |-> b.items + num, offset_counter |-> b.offset_counter,
                              signal |-> sig, correlation |-> corr, snr_tags |-> tags]
  BY DEF read_signal, num, sig, corr, tags
<1> QED
  BY <1>1, <1>3, <1>4, <1>5, <1>6, <1>7 DEF BufferObject

\* A read puts the next symbols of the stream where they belong.
LEMMA ReadPlaced ==
  ASSUME NEW b \in BufferObject, NEW n \in Nat, NEW in \in Seq(Symbol), NEW e \in Nat,
         SignalPlaced(b, n),
         \A k \in 1 .. Len(in) : in[k] = n + k - 1
  PROVE  SignalPlaced(read_signal(b, in, e), n + PickSmaller(Len(in), num_symbols_missing(b)))
<1> DEFINE num == PickSmaller(Len(in), num_symbols_missing(b))
           r   == read_signal(b, in, e)
<1>1. num \in Nat /\ num <= Len(in) /\ b.items + num \in HistoryLen .. BufferLen
  BY ReadCount
<1>2. /\ b.items \in HistoryLen .. BufferLen /\ b.offset_counter \in Nat
      /\ HistoryLen \in Nat /\ BufferLen \in Nat
  BY Geometry DEF BufferObject
<1>3. /\ r.items = b.items + num
      /\ r.offset_counter = b.offset_counter
      /\ \A i \in SignalIndex :
           r.signal[i] = IF b.items <= i /\ i < b.items + num
                         THEN in[i - b.items + 1] ELSE b.signal[i]
  BY DEF read_signal
<1> HIDE DEF num, r
<1>4. ASSUME NEW i \in SignalIndex, i < r.items
      PROVE  r.signal[i] = SymbolAt(r, i)
  <2>0. i \in Nat
    BY Geometry DEF SignalIndex
  <2>1. CASE i < b.items
    <3>1. r.signal[i] = b.signal[i]
      BY <1>2, <1>3, <2>0, <2>1
    <3>2. b.signal[i] = SymbolAt(b, i)
      BY <2>1 DEF SignalPlaced
    <3> QED
      BY <3>1, <3>2, <1>3 DEF SymbolAt
  <2>2. CASE b.items <= i
    <3>1. i - b.items + 1 \in 1 .. Len(in)
      BY <1>1, <1>2, <1>3, <1>4, <2>0, <2>2
    <3>2. r.signal[i] = in[i - b.items + 1]
      BY <1>3, <1>4, <2>2
    <3>3. in[i - b.items + 1] = n + (i - b.items + 1) - 1
      BY <3>1
    <3>4. n = b.offset_counter + b.items - HistoryLen
      BY DEF SignalPlaced
    <3>5. r.signal[i] = b.offset_counter + i - HistoryLen
      BY <3>2, <3>3, <3>4, <1>2, <2>0
    <3>6. SymbolAt(r, i) = b.offset_counter + i - HistoryLen
      <4>1. b.offset_counter + i >= HistoryLen
        BY <1>2, <2>0, <2>2
      <4> QED
        BY <4>1, <1>3 DEF SymbolAt
    <3> QED
      BY <3>5, <3>6
  <2> QED
    BY <1>2, <2>0, <2>1, <2>2
<1>5. n + num = r.offset_counter + r.items - HistoryLen
  BY <1>1, <1>2, <1>3 DEF SignalPlaced
<1> QED
  BY <1>4, <1>5 DEF SignalPlaced, num, r

\* A read leaves no stale correlation value behind the last AsmLen symbols.
LEMMA ReadCorrelation ==
  ASSUME NEW b \in BufferObject, NEW in \in Seq(Symbol), NEW e \in Nat,
         CorrelationPlaced(b)
  PROVE  CorrelationPlaced(read_signal(b, in, e))
<1> DEFINE num == PickSmaller(Len(in), num_symbols_missing(b))
           r   == read_signal(b, in, e)
<1>1. num \in Nat /\ num <= Len(in) /\ b.items + num \in HistoryLen .. BufferLen
  BY ReadCount
<1>2. /\ b.items \in Nat /\ HistoryLen \in Nat /\ BufferLen \in Nat /\ AsmLen \in Nat
      /\ OverlapLen = AsmLen - 1 /\ AsmLen > 0 /\ BlockLen \in Nat
      /\ BufferLen = HistoryLen + BlockLen + OverlapLen
  BY Geometry DEF BufferObject
<1>3. /\ r.items = b.items + num
      /\ \A i \in SignalIndex :
           r.signal[i] = IF b.items <= i /\ i < b.items + num
                         THEN in[i - b.items + 1] ELSE b.signal[i]
      /\ \A i \in CorrIndex :
           r.correlation[i] = IF /\ MinusCapZero(b.items, AsmLen) <= i
                                 /\ i < MinusCapZero(b.items + num, AsmLen)
                              THEN Window(r.signal, i) ELSE b.correlation[i]
  BY DEF read_signal
<1> HIDE DEF num, r
<1> SUFFICES ASSUME NEW i \in CorrIndex, i + AsmLen < r.items
             PROVE  r.correlation[i] = Window(r.signal, i)
  BY DEF CorrelationPlaced, r
<1>4. i \in Nat
  BY <1>2 DEF CorrIndex
<1>5. CASE i + AsmLen < b.items
  <2>1. r.correlation[i] = b.correlation[i]
    BY <1>2, <1>3, <1>4, <1>5 DEF MinusCapZero
  <2>2. b.correlation[i] = Window(b.signal, i)
    BY <1>5 DEF CorrelationPlaced
  <2>3. ASSUME NEW k \in 0 .. OverlapLen
        PROVE  r.signal[i + k] = b.signal[i + k]
    <3>1. i + k \in SignalIndex /\ i + k < b.items
      BY <1>2, <1>4, <1>5 DEF CorrIndex, SignalIndex
    <3> QED
      BY <3>1, <1>2, <1>3, <1>4
  <2>4. Window(r.signal, i) = Window(b.signal, i)
    BY <2>3 DEF Window
  <2> QED
    BY <2>1, <2>2, <2>4
<1>6. CASE i + AsmLen >= b.items
  <2>1. b.items \in Nat /\ r.items \in Nat /\ AsmLen \in Nat
    BY <1>1, <1>2, <1>3, Geometry
  <2>2. MinusCapZero(b.items, AsmLen) <= i
    BY <1>4, <1>6, <2>1 DEF MinusCapZero
  <2>3. i < MinusCapZero(r.items, AsmLen)
    BY <1>4, <2>1 DEF MinusCapZero
  <2>4. r.items = b.items + num
    BY <1>3
  <2> QED
    BY <1>3, <2>2, <2>3, <2>4
<1> QED
  BY <1>2, <1>4, <1>5, <1>6

-----------------------------------------------------------------------------

\* The shape of the buffer object survives the rotation of a full buffer.
LEMMA AdvanceType ==
  ASSUME NEW b \in BufferObject, full(b)
  PROVE  advance(b) \in BufferObject
<1> DEFINE sig  == Rotate(b.signal, BufferLen, BlockLen)
           corr == Rotate(b.correlation, BufferLen - OverlapLen, BlockLen)
           tags == [Rotate(b.snr_tags, NumHistoryFrames + 2, 1)
                      EXCEPT ![NumHistoryFrames + 1] = INVALID]
<1>1. b.items - BlockLen \in HistoryLen .. BufferLen
  BY Geometry DEF BufferObject, full
<1>2. b.offset_counter + BlockLen \in Nat
  BY Geometry DEF BufferObject
<1>3. sig \in [SignalIndex -> Symbol]
  <2> SUFFICES ASSUME NEW i \in SignalIndex
               PROVE  (IF i + BlockLen < BufferLen THEN b.signal[i + BlockLen]
                       ELSE b.signal[i + BlockLen - BufferLen]) \in Symbol
    BY DEF Rotate, SignalIndex
  <2>1. \A j \in SignalIndex : b.signal[j] \in Symbol
    BY DEF BufferObject
  <2>2. CASE i + BlockLen < BufferLen
    BY <2>1, <2>2, Geometry DEF SignalIndex
  <2>3. CASE ~ (i + BlockLen < BufferLen)
    <3>1. i + BlockLen - BufferLen \in SignalIndex
      BY <2>3, Geometry DEF SignalIndex
    <3> QED
      BY <2>1, <2>3, <3>1
  <2> QED
    BY <2>2, <2>3
<1>4. corr \in [CorrIndex -> [0 .. OverlapLen -> Symbol]]
  <2> DEFINE len == BufferLen - OverlapLen
  <2>0. len \in Nat /\ len >= BlockLen /\ CorrIndex = 0 .. len - 1
    BY Geometry DEF CorrIndex
  <2>1. \A j \in CorrIndex : b.correlation[j] \in [0 .. OverlapLen -> Symbol]
    BY DEF BufferObject
  <2> HIDE DEF len
  <2> SUFFICES ASSUME NEW i \in CorrIndex
               PROVE  (IF i + BlockLen < len THEN b.correlation[i + BlockLen]
                       ELSE b.correlation[i + BlockLen - len]) \in [0 .. OverlapLen -> Symbol]
    BY <2>0 DEF Rotate, len
  <2>2. CASE i + BlockLen < len
    <3>1. i + BlockLen \in CorrIndex
      BY <2>0, <2>2, Geometry
    <3> QED
      BY <2>1, <2>2, <3>1
  <2>3. CASE ~ (i + BlockLen < len)
    <3>1. i + BlockLen - len \in CorrIndex
      BY <2>0, <2>3, Geometry
    <3> QED
      BY <2>1, <2>3, <3>1
  <2> QED
    BY <2>2, <2>3
<1>5. tags \in [TagIndex -> Nat \cup {INVALID}]
  <2>1. \A j \in TagIndex : b.snr_tags[j] \in Nat \cup {INVALID}
    BY DEF BufferObject
  <2>2. Rotate(b.snr_tags, NumHistoryFrames + 2, 1) \in [TagIndex -> Nat \cup {INVALID}]
    <3> SUFFICES ASSUME NEW i \in TagIndex
                 PROVE  (IF i + 1 < NumHistoryFrames + 2 THEN b.snr_tags[i + 1]
                         ELSE b.snr_tags[i + 1 - (NumHistoryFrames + 2)]) \in Nat \cup {INVALID}
      BY Geometry DEF Rotate, TagIndex
    <3>1. CASE i + 1 < NumHistoryFrames + 2
      BY <2>1, <3>1, Geometry DEF TagIndex
    <3>2. CASE ~ (i + 1 < NumHistoryFrames + 2)
      <4>1. i + 1 - (NumHistoryFrames + 2) \in TagIndex
        BY <3>2, Geometry DEF TagIndex
      <4> QED
        BY <2>1, <3>2, <4>1
    <3> QED
      BY <3>1, <3>2
  <2> QED
    BY <2>2
<1> HIDE DEF sig, corr, tags
<1>6. advance(b) = [items |-> b.items - BlockLen,
                    offset_counter |-> b.offset_counter + BlockLen,
                    signal |-> sig, correlation |-> corr, snr_tags |-> tags]
  BY DEF advance, sig, corr, tags
<1> QED
  BY <1>1, <1>2, <1>3, <1>4, <1>5, <1>6 DEF BufferObject

\* The rotation keeps every symbol at the index that belongs to it.
LEMMA AdvancePlaced ==
  ASSUME NEW b \in BufferObject, NEW n \in Nat, full(b), SignalPlaced(b, n)
  PROVE  SignalPlaced(advance(b), n)
<1> DEFINE r == advance(b)
<1>1. /\ b.items = BufferLen /\ b.offset_counter \in Nat
      /\ HistoryLen \in Nat /\ BufferLen \in Nat /\ BlockLen \in Nat
  BY Geometry DEF BufferObject, full
<1>2. /\ r.items = b.items - BlockLen
      /\ r.offset_counter = b.offset_counter + BlockLen
      /\ r.signal = Rotate(b.signal, BufferLen, BlockLen)
  BY DEF advance
<1> HIDE DEF r
<1>3. ASSUME NEW i \in SignalIndex, i < r.items
      PROVE  r.signal[i] = SymbolAt(r, i)
  <2>1. i \in Nat /\ i + BlockLen \in SignalIndex /\ i + BlockLen < b.items
    BY <1>1, <1>2, <1>3 DEF SignalIndex
  <2>2. r.signal[i] = b.signal[i + BlockLen]
    BY <2>1, <1>1, <1>2 DEF Rotate, SignalIndex
  <2>3. b.signal[i + BlockLen] = SymbolAt(b, i + BlockLen)
    BY <2>1 DEF SignalPlaced
  <2>4. b.offset_counter + (i + BlockLen) = r.offset_counter + i
    BY <2>1, <1>1, <1>2
  <2> QED
    BY <2>1, <2>2, <2>3, <2>4, <1>1, <1>2 DEF SymbolAt
<1>4. n = r.offset_counter + r.items - HistoryLen
  BY <1>1, <1>2 DEF SignalPlaced
<1> QED
  BY <1>3, <1>4 DEF SignalPlaced, r

\* The rotation moves correlation values and symbols together.
LEMMA AdvanceCorrelation ==
  ASSUME NEW b \in BufferObject, full(b), CorrelationPlaced(b)
  PROVE  CorrelationPlaced(advance(b))
<1> DEFINE r   == advance(b)
           len == BufferLen - OverlapLen
<1>1. /\ b.items = BufferLen
      /\ AsmLen \in Nat /\ AsmLen > 0 /\ OverlapLen = AsmLen - 1
      /\ HistoryLen \in Nat /\ BufferLen \in Nat /\ BlockLen \in Nat
      /\ BufferLen = HistoryLen + BlockLen + OverlapLen
  BY Geometry DEF BufferObject, full
<1>2. /\ r.items = b.items - BlockLen
      /\ r.signal = Rotate(b.signal, BufferLen, BlockLen)
      /\ r.correlation = Rotate(b.correlation, len, BlockLen)
  BY DEF advance
<1>3. len \in Nat /\ CorrIndex = 0 .. len - 1 /\ len = BufferLen - AsmLen + 1
  BY <1>1 DEF CorrIndex
<1> HIDE DEF r, len
<1> SUFFICES ASSUME NEW i \in CorrIndex, i + AsmLen < r.items
             PROVE  r.correlation[i] = Window(r.signal, i)
  BY DEF CorrelationPlaced, r
<1>4. /\ i \in Nat
      /\ i + BlockLen < len
      /\ i + BlockLen \in CorrIndex
      /\ (i + BlockLen) + AsmLen < b.items
  <2>1. i \in Nat
    BY <1>3
  <2>2. (i + BlockLen) + AsmLen < b.items
    BY <2>1, <1>1, <1>2
  <2>3. i + BlockLen < len
    BY <2>1, <2>2, <1>1, <1>3
  <2> QED
    BY <2>1, <2>2, <2>3, <1>1, <1>3
<1>5. r.correlation[i] = b.correlation[i + BlockLen]
  BY <1>2, <1>3, <1>4 DEF Rotate
<1>6. b.correlation[i + BlockLen] = Window(b.signal, i + BlockLen)
  BY <1>4 DEF CorrelationPlaced
<1>7. ASSUME NEW k \in 0 .. OverlapLen
      PROVE  r.signal[i + k] = b.signal[(i + BlockLen) + k]
  <2>1. /\ i + k \in 0 .. BufferLen - 1
        /\ (i + k) + BlockLen < BufferLen
        /\ (i + k) + BlockLen = (i + BlockLen) + k
    BY <1>1, <1>4
  <2> QED
    BY <2>1, <1>2 DEF Rotate
<1>8. Window(r.signal, i) = Window(b.signal, i + BlockLen)
  BY <1>7 DEF Window
<1> QED
  BY <1>5, <1>6, <1>8

-----------------------------------------------------------------------------

\* The empty buffer holds the zeros of the time before the stream.
LEMMA NewBufferInPlace ==
  /\ NewBuffer \in BufferObject
  /\ SignalPlaced(NewBuffer, 0)
  /\ CorrelationPlaced(NewBuffer)
<1>1. NewBuffer \in BufferObject
  BY Geometry DEF NewBuffer, BufferObject, Symbol, Zero, INVALID
<1>2. SignalPlaced(NewBuffer, 0)
  <2>1. \A i \in SignalIndex : i < HistoryLen => SymbolAt(NewBuffer, i) = Zero
    BY Geometry DEF NewBuffer, SymbolAt, SignalIndex
  <2> QED
    BY <2>1, Geometry DEF NewBuffer, SignalPlaced
<1>3. CorrelationPlaced(NewBuffer)
  <2> SUFFICES ASSUME NEW i \in CorrIndex, i + AsmLen < HistoryLen
               PROVE  NewBuffer.correlation[i] = Window(NewBuffer.signal, i)
    BY DEF CorrelationPlaced, NewBuffer
  <2>1. \A k \in 0 .. OverlapLen : NewBuffer.signal[i + k] = Zero
    BY Geometry DEF NewBuffer, CorrIndex, SignalIndex
  <2>2. NewBuffer.correlation[i] = [k \in 0 .. OverlapLen |-> Zero]
    BY DEF NewBuffer
  <2> QED
    BY <2>1, <2>2 DEF Window
<1> QED
  BY <1>1, <1>2, <1>3

\* The symbols offered to a call are symbols of the stream, in its order.
LEMMA InputSymbols ==
  ASSUME nitems_read \in Nat, NEW n \in Nat
  PROVE  /\ Input(n) \in Seq(Symbol)
         /\ Len(Input(n)) = n
         /\ \A k \in 1 .. n : Input(n)[k] = nitems_read + k - 1
<1>1. \A k \in 1 .. n : nitems_read + k - 1 \in Symbol
  BY DEF Symbol
<1> QED
  BY <1>1 DEF Input

\* The position at which the block of tag j begins, when blocks are counted
\* from the offset o.
TagStart(o, j) == o + (j - NumHistoryFrames) * BlockLen

\* One block later, a tag has moved one place to the left.
LEMMA TagShift ==
  ASSUME NEW o \in Nat, NEW j \in Int
  PROVE  /\ TagStart(o, j) \in Int
         /\ TagStart(o + BlockLen, j) = TagStart(o, j + 1)
         /\ TagStart(o, NumHistoryFrames) = o
<1>1. j - NumHistoryFrames \in Int /\ BlockLen \in Nat /\ NumHistoryFrames \in Nat
  BY Geometry
<1>2. /\ (j - NumHistoryFrames) * BlockLen \in Int
      /\ ((j - NumHistoryFrames) + 1) * BlockLen = (j - NumHistoryFrames) * BlockLen + BlockLen
  BY <1>1
<1>3. (j + 1) - NumHistoryFrames = (j - NumHistoryFrames) + 1
  BY <1>1
<1>4. (NumHistoryFrames - NumHistoryFrames) * BlockLen = 0
  BY <1>1
<1> QED
  BY <1>1, <1>2, <1>3, <1>4 DEF TagStart

\* A block whose overlap is full ends with the symbol its last SNR tag is for.
LEMMA FullBuffer ==
  ASSUME BufferTypeOK, Placed, SnrTagsInStep, full(buf)
  PROVE  /\ nitems_read = buf.offset_counter + BlockLen + OverlapLen
         /\ buf.snr_tags[NumHistoryFrames + 1] = nitems_read
<1>1. /\ buf.items = BufferLen /\ buf.offset_counter \in Nat
      /\ nitems_read = buf.offset_counter + buf.items - HistoryLen
  BY DEF BufferTypeOK, BufferObject, Placed, SignalPlaced, full
<1>2. buf.items # HistoryLen + (IF buf.offset_counter = 0 THEN 0 ELSE OverlapLen)
  BY <1>1, Geometry
<1> QED
  BY <1>1, <1>2, Geometry DEF SnrTagsInStep

\* The rotation moves every SNR tag along with its block, the last one too.
LEMMA AdvanceTags ==
  ASSUME BufferTypeOK, Placed, SnrTagsInStep, Advance
  PROVE  SnrTagsInStep'
<1> DEFINE NH == NumHistoryFrames
           oc == buf.offset_counter
<1>1. /\ full(buf) /\ oc \in Nat /\ NH \in Nat
      /\ buf.items = BufferLen
      /\ buf'.items = buf.items - BlockLen
      /\ buf'.offset_counter = oc + BlockLen
      /\ buf'.snr_tags = [Rotate(buf.snr_tags, NH + 2, 1) EXCEPT ![NH + 1] = INVALID]
  BY Geometry DEF Advance, advance, full, BufferTypeOK, BufferObject
<1>2. /\ \A j \in 0 .. NH : buf'.snr_tags[j] = buf.snr_tags[j + 1]
      /\ buf'.snr_tags[NH + 1] = INVALID
  BY <1>1 DEF Rotate
<1>3. ASSUME NEW j \in 0 .. NH
      PROVE  buf'.snr_tags[j] = IF TagStart(buf'.offset_counter, j) <= 0
                                THEN INVALID ELSE TagStart(buf'.offset_counter, j) + OverlapLen
  <2>0. j \in Int /\ oc \in Nat /\ buf'.offset_counter = oc + BlockLen
    BY <1>1
  <2> HIDE DEF oc
  <2>1. TagStart(buf'.offset_counter, j) = TagStart(oc, j + 1)
    BY <2>0, TagShift
  <2>2. CASE j = NH
    <3>1. buf'.snr_tags[j] = oc + BlockLen + OverlapLen
      BY <1>1, <1>2, <2>2, FullBuffer DEF oc
    <3>2. TagStart(buf'.offset_counter, j) = oc + BlockLen
      <4>1. buf'.offset_counter \in Nat
        BY <2>0, Geometry
      <4> QED
        BY <2>0, <2>2, <4>1, TagShift
    <3> QED
      BY <2>0, <3>1, <3>2, Geometry
  <2>3. CASE j # NH
    <3>1. j + 1 \in 0 .. NH
      BY <1>1, <2>3
    <3>2. buf.snr_tags[j + 1] = IF TagStart(oc, j + 1) <= 0
                                THEN INVALID ELSE TagStart(oc, j + 1) + OverlapLen
      BY <3>1 DEF SnrTagsInStep, TagStart, oc
    <3> QED
      BY <1>2, <2>1, <3>2
  <2> QED
    BY <2>2, <2>3
<1>4. buf'.items = HistoryLen + (IF buf'.offset_counter = 0 THEN 0 ELSE OverlapLen)
  BY <1>1, Geometry
<1> QED
  BY <1>2, <1>3, <1>4 DEF SnrTagsInStep, TagStart

\* A read only sets the last SNR tag, to the symbol it ends with.
LEMMA ReadTags ==
  ASSUME BufferTypeOK, SnrTagsInStep, NEW n \in Nat, NEW taken \in Nat,
         buf' = read_signal(buf, Input(n), nitems_read + taken),
         nitems_read' = nitems_read + taken
  PROVE  SnrTagsInStep'
<1>1. /\ nitems_read' \in Nat /\ NumHistoryFrames \in Nat
      /\ buf'.offset_counter = buf.offset_counter
      /\ buf'.snr_tags = [buf.snr_tags EXCEPT ![NumHistoryFrames + 1] = nitems_read']
      /\ buf.snr_tags \in [TagIndex -> Nat \cup {INVALID}]
  BY Geometry DEF read_signal, BufferTypeOK, BufferObject
<1>2. /\ \A j \in 0 .. NumHistoryFrames : buf'.snr_tags[j] = buf.snr_tags[j]
      /\ buf'.snr_tags[NumHistoryFrames + 1] = nitems_read'
  BY <1>1 DEF TagIndex
<1>3. nitems_read' # INVALID
  BY <1>1 DEF INVALID
<1> QED
  BY <1>1, <1>2, <1>3 DEF SnrTagsInStep

\* After the first rotation, the overlap of the block before is never given up.
OverlapKept == buf.offset_counter > 0 => buf.items >= HistoryLen + OverlapLen

(* What holds in every reachable state.  The place of a symbol and of a     *)
(* correlation value after a step depends on its place before and on the   *)
(* counters only; the tags also take that a full buffer has its last tag.  *)
BufferInv ==
  BufferTypeOK /\ Placed /\ CorrelationInPlace /\ SnrTagsInStep /\ OverlapKept

LEMMA BufferInitInv == BufferInit => BufferInv
<1> SUFFICES ASSUME BufferInit
             PROVE  BufferInv
  OBVIOUS
<1>1. BufferTypeOK /\ Placed /\ CorrelationInPlace
  BY NewBufferInPlace DEF BufferInit, BufferTypeOK, Placed, CorrelationInPlace
<1>2. SnrTagsInStep /\ OverlapKept
  <2>1. /\ buf.offset_counter = 0 /\ buf.items = HistoryLen
        /\ \A j \in TagIndex : buf.snr_tags[j] = INVALID
    BY DEF BufferInit, NewBuffer
  <2>2. \A j \in 0 .. NumHistoryFrames : TagStart(0, j) <= 0
    <3> TAKE j \in 0 .. NumHistoryFrames
    <3>1. (NumHistoryFrames - j) * BlockLen \in Nat
      BY Geometry
    <3>2. (j - NumHistoryFrames) * BlockLen = - ((NumHistoryFrames - j) * BlockLen)
      BY Geometry
    <3> QED
      BY <3>1, <3>2 DEF TagStart
  <2> QED
    BY <2>1, <2>2, Geometry DEF SnrTagsInStep, OverlapKept, TagIndex, TagStart
<1> QED
  BY <1>1, <1>2 DEF BufferInv

LEMMA BufferStepInv == BufferInv /\ [BufferNext]_bufferVars => BufferInv'
<1> SUFFICES ASSUME BufferInv, [BufferNext]_bufferVars
             PROVE  BufferInv'
  OBVIOUS
<1> USE DEF BufferInv
<1>1. CASE Advance
  <2>1. SnrTagsInStep'
    BY <1>1, AdvanceTags
  <2>2. OverlapKept'
    BY <1>1, Geometry DEF Advance, advance, full, OverlapKept
  <2>3. BufferTypeOK' /\ Placed' /\ CorrelationInPlace'
    BY <1>1, AdvanceType, AdvancePlaced, AdvanceCorrelation
       DEF Advance, BufferTypeOK, Placed, CorrelationInPlace
  <2> QED
    BY <2>1, <2>2, <2>3
<1>2. ASSUME NEW n \in 1 .. MaxRead, ReadSignal(n)
      PROVE  BufferInv'
  <2> DEFINE taken == PickSmaller(n, num_symbols_missing(buf))
  <2>0. n \in Nat /\ buf \in BufferObject /\ nitems_read \in Nat
    BY BufferBounds DEF BufferTypeOK
  <2>1. taken \in Nat
    BY <2>0, ReadCount
  <2>2. /\ Input(n) \in Seq(Symbol) /\ Len(Input(n)) = n
        /\ \A k \in 1 .. Len(Input(n)) : Input(n)[k] = nitems_read + k - 1
    BY <2>0, InputSymbols
  <2>3. /\ buf' = read_signal(buf, Input(n), nitems_read + taken)
        /\ nitems_read' = nitems_read + taken
    BY <1>2 DEF ReadSignal
  <2>4. nitems_read' \in Nat
    BY <2>0, <2>1, <2>3
  <2>5. buf' \in BufferObject
    BY <2>0, <2>2, <2>3, <2>4, ReadType
  <2>6. SignalPlaced(buf', nitems_read')
    BY <2>0, <2>2, <2>3, <2>4, ReadPlaced DEF Placed
  <2>7. CorrelationPlaced(buf')
    BY <2>0, <2>2, <2>3, <2>4, ReadCorrelation DEF CorrelationInPlace
  <2>8. SnrTagsInStep'
    BY <2>0, <2>1, <2>3, ReadTags
  <2>9. OverlapKept'
    <3>1. buf'.offset_counter = buf.offset_counter /\ buf'.items = buf.items + taken
      BY <2>2, <2>3 DEF read_signal
    <3>2. buf.items \in Nat
      BY <2>0, Geometry DEF BufferObject
    <3> HIDE DEF taken
    <3> QED
      BY <2>1, <3>1, <3>2, Geometry DEF OverlapKept
  <2> QED
    BY <2>4, <2>5, <2>6, <2>7, <2>8, <2>9 DEF BufferTypeOK, Placed, CorrelationInPlace
<1>3. CASE UNCHANGED bufferVars
  BY <1>3 DEF bufferVars, BufferTypeOK, Placed, CorrelationInPlace, SnrTagsInStep, OverlapKept
<1> QED
  BY <1>1, <1>2, <1>3 DEF BufferNext

LEMMA BufferInvariant == BufferSpec => []BufferInv
  BY BufferInitInv, BufferStepInv, PTL DEF BufferSpec

\* The buffer object keeps its shape, and its number of items stays between
\* the history and the buffer length, whatever is read and whenever it is rotated.
THEOREM BufferTypeCorrect == BufferSpec => []BufferTypeOK
  BY BufferInvariant, PTL DEF BufferInv

\* The offset arithmetic of offset() and localOffset() is right after every
\* sequence of read_signal and advance: each filled index holds its symbol.
THEOREM BufferSignalInPlace == BufferSpec => []SignalInPlace
<1>1. BufferInv => SignalInPlace
  <2> SUFFICES ASSUME BufferInv PROVE SignalInPlace
    OBVIOUS
  <2>1. /\ buf.items \in HistoryLen .. BufferLen /\ buf.offset_counter \in Nat
        /\ nitems_read = buf.offset_counter + buf.items - HistoryLen
    BY DEF BufferInv, BufferTypeOK, BufferObject, Placed, SignalPlaced
  <2>2. ASSUME NEW i \in SignalIndex, i < buf.items
        PROVE  buf.signal[i] = Expected(SymbolAt(buf, i))
    BY <2>1, <2>2, Geometry
       DEF BufferInv, Placed, SignalPlaced, SignalIndex, SymbolAt, Expected, Zero
  <2> QED
    BY <2>1, <2>2, Geometry DEF SignalInPlace
<1> QED
  BY <1>1, BufferInvariant, PTL

\* No read in pieces and no rotation leaves a stale correlation value.
THEOREM BufferCorrelationInPlace == BufferSpec => []CorrelationInPlace
  BY BufferInvariant, PTL DEF BufferInv

\* The SNR tags stay with the blocks they open, for any number of them: none is
\* lost or kept too long by a rotation (set_snr_current_end, advance).
THEOREM BufferSnrTagsInStep == BufferSpec => []SnrTagsInStep
  BY BufferInvariant, PTL DEF BufferInv

\* signal() by absolute position returns the symbol of that position, from
\* offset_start() to offset_last_symbol(), for every ASM of more than one symbol;
\* with one symbol offset_last_symbol() is one too large after a rotation.
THEOREM BufferAbsoluteReads ==
  ASSUME AsmLen > 1
  PROVE  BufferSpec => []AbsoluteReads
<1>1. BufferInv => AbsoluteReads
  <2> SUFFICES ASSUME BufferInv, nitems_read > 0,
                      NEW p \in offset_start(buf) .. offset_last_symbol(buf)
               PROVE  signal(buf, p) = Expected(p)
    BY DEF AbsoluteReads
  <2>1. /\ buf.items \in HistoryLen .. BufferLen /\ buf.offset_counter \in Nat
        /\ nitems_read = buf.offset_counter + buf.items - HistoryLen
    BY DEF BufferInv, BufferTypeOK, BufferObject, Placed, SignalPlaced
  <2>2. buf.items > HistoryLen
    BY <2>1, Geometry DEF BufferInv, OverlapKept
  <2>3. /\ p \in Nat
        /\ p + HistoryLen >= buf.offset_counter
        /\ p + HistoryLen - buf.offset_counter < buf.items
    BY <2>1, <2>2, Geometry DEF offset_start, offset_last_symbol, MinusCapZero
  <2>4. localOffset(buf, p) = p + HistoryLen - buf.offset_counter
    BY <2>1, <2>3, Geometry DEF localOffset, MinusCapZero
  <2>5. localOffset(buf, p) \in SignalIndex
    BY <2>1, <2>3, <2>4, Geometry DEF SignalIndex
  <2>6. signal(buf, p) = SymbolAt(buf, p + HistoryLen - buf.offset_counter)
    BY <2>3, <2>4, <2>5 DEF signal, BufferInv, Placed, SignalPlaced
  <2> QED
    BY <2>1, <2>3, <2>6, Geometry DEF SymbolAt, Expected
<1> QED
  BY <1>1, BufferInvariant, PTL

-----------------------------------------------------------------------------
(* The synchroniser *)

\* The constants of the synchroniser are numbers.
LEMMA SyncGeometry ==
  /\ OutputLen \in Nat /\ TailSymbols \in Int /\ HeadSymbols \in Int
  /\ FramesAfter \in Nat /\ FramesBefore \in Nat
  /\ FramesBefore = NumHistoryFrames
  /\ FramesBefore * BlockLen \in Nat
  /\ \A pos \in AdditionalAsm : pos \in Position
BY Geometry, FrameSyncAssumption, BufferAssumption DEF FramesBefore

-----------------------------------------------------------------------------
(* Tasks *)

\* A task never holds more symbols than its frame has.
Short(t) == Len(t.data) <= OutputLen

\* A new task is a task, at its own position.
LEMMA NewTaskType ==
  ASSUME NEW pos \in Position, NEW seq \in Nat, NEW prim \in BOOLEAN
  PROVE  /\ NewTask(pos, seq, prim) \in Task
         /\ NewTask(pos, seq, prim).offset = pos.offset
         /\ NewTask(pos, seq, prim).ambiguity = pos.ambiguity
         /\ Short(NewTask(pos, seq, prim))
<1>1. pos.offset \in Nat /\ pos.ambiguity \in Ambiguities
  BY DEF Position
<1>2. pos.offset + AsmLen - HeadSymbols \in Int
  BY <1>1, Geometry, SyncGeometry
<1>3. Len(<<>>) <= OutputLen /\ <<>> \in Seq(Symbol)
  BY SyncGeometry
<1> QED
  BY <1>1, <1>2, <1>3 DEF NewTask, Task, Short

\* What a task can still take is a number of symbols, and no more than remain.
LEMMA ToCopy ==
  ASSUME NEW b \in BufferObject, NEW t \in Task, Short(t)
  PROVE  to_copy(b, t) \in Nat /\ Len(t.data) + to_copy(b, t) <= OutputLen
<1>1. Len(t.data) \in Nat /\ t.copy_from \in Int
  BY DEF Task
<1>2. num_remaining(t) \in Nat
  BY <1>1, SyncGeometry DEF Short, num_remaining
<1>3. b.items \in Nat /\ b.offset_counter \in Nat
  BY Geometry DEF BufferObject
<1>4. offset_last_symbol(b) \in Nat
  BY <1>3, Geometry DEF offset_last_symbol, MinusCapZero
<1>5. MinusCapZero(offset_last_symbol(b) + 1, t.copy_from) \in Nat
  BY <1>1, <1>4 DEF MinusCapZero
<1>6. PickSmaller(num_remaining(t), MinusCapZero(offset_last_symbol(b) + 1, t.copy_from))
        \in 0 .. num_remaining(t)
  BY <1>2, <1>5 DEF PickSmaller
<1> QED
  BY <1>1, <1>6, SyncGeometry DEF to_copy, num_remaining

\* Between offset_start() and offset_last_symbol(), reads stay inside the buffer.
LEMMA ReadInside ==
  ASSUME NEW b \in BufferObject, NEW p \in Int,
         offset_start(b) <= p, p <= offset_last_symbol(b)
  PROVE  localOffset(b, p) \in SignalIndex /\ localOffset(b, p) = p + HistoryLen - b.offset_counter
<1>1. b.items \in HistoryLen .. BufferLen /\ b.offset_counter \in Nat
  BY DEF BufferObject
<1>2. p \in Nat /\ p + HistoryLen >= b.offset_counter
  BY <1>1, Geometry DEF offset_start, MinusCapZero
<1>3. p + HistoryLen - b.offset_counter < BufferLen
  BY <1>1, <1>2, Geometry DEF offset_last_symbol, MinusCapZero
<1>4. localOffset(b, p) = p + HistoryLen - b.offset_counter
  BY <1>2, <1>1, Geometry DEF localOffset, MinusCapZero
<1> QED
  BY <1>1, <1>2, <1>3, <1>4, Geometry DEF SignalIndex

\* A correlation value that is read for a header is one, and not no header.
LEMMA HeaderRead ==
  ASSUME NEW b \in BufferObject, NEW t \in Task, asm_available(b, t)
  PROVE  /\ correlation(b, t.offset) \in [0 .. OverlapLen -> Symbol]
         /\ correlation(b, t.offset) # NoHeader
<1>1. /\ t.offset \in Nat /\ b.offset_counter \in Nat
      /\ b.items \in Nat /\ b.items <= BufferLen /\ b.items >= HistoryLen
  BY Geometry DEF Task, BufferObject
<1>2. offset_last_symbol(b) + HistoryLen - b.offset_counter < BufferLen
      /\ offset_last_symbol(b) \in Nat
  BY <1>1, Geometry DEF offset_last_symbol, MinusCapZero
<1>3. t.offset + AsmLen <= offset_last_symbol(b) /\ offset_start(b) <= t.offset
  BY DEF asm_available
<1>4. localOffset(b, t.offset) \in SignalIndex
      /\ localOffset(b, t.offset) = t.offset + HistoryLen - b.offset_counter
  <2>1. t.offset <= offset_last_symbol(b)
    BY <1>1, <1>2, <1>3, Geometry
  <2> QED
    BY <1>1, <1>3, <2>1, ReadInside
<1>5. localOffset(b, t.offset) \in Nat
  BY <1>4, Geometry DEF SignalIndex
<1>6. localOffset(b, t.offset) < BufferLen - OverlapLen
  BY <1>1, <1>2, <1>3, <1>4, Geometry
<1>7. localOffset(b, t.offset) \in CorrIndex
  BY <1>5, <1>6, Geometry DEF CorrIndex
<1>8. correlation(b, t.offset) \in [0 .. OverlapLen -> Symbol]
  BY <1>7 DEF correlation, BufferObject
<1>9. 0 \in 0 .. OverlapLen /\ DOMAIN NoHeader = {}
  BY Geometry DEF NoHeader
<1> QED
  BY <1>8, <1>9

\* One pass over a task keeps its identity, never overfills it, and stays a task.
LEMMA CopyTaskType ==
  ASSUME NEW b \in BufferObject, NEW t \in Task, Short(t)
  PROVE  /\ CopyTask(b, t) \in Task
         /\ CopyTask(b, t).offset = t.offset
         /\ CopyTask(b, t).ambiguity = t.ambiguity
         /\ Short(CopyTask(b, t))
<1>1. CASE data_complete(t) \/ ~ Reachable(b, t)
  BY <1>1 DEF CopyTask
<1>2. CASE ~ (data_complete(t) \/ ~ Reachable(b, t))
  <2> DEFINE n    == to_copy(b, t)
             more == [i \in 1 .. n |-> signal(b, t.copy_from + i - 1)]
             head == IF ~ header_computed(t) /\ asm_available(b, t)
                     THEN correlation(b, t.offset) ELSE t.header
  <2>1. /\ t.offset \in Nat /\ t.copy_from \in Int /\ t.data \in Seq(Symbol)
        /\ t.header \in [0 .. OverlapLen -> Symbol] \cup {NoHeader}
        /\ AsmLen \in Nat /\ AsmLen > 0
    BY Geometry DEF Task
  <2>2. n \in Nat /\ Len(t.data) + n <= OutputLen
    BY ToCopy
  <2>3. b.items \in Nat /\ b.offset_counter \in Nat /\ offset_last_symbol(b) \in Nat
        /\ offset_start(b) \in Nat
    BY Geometry DEF BufferObject, offset_last_symbol, offset_start, MinusCapZero
  <2>4. ASSUME NEW i \in 1 .. n
        PROVE  signal(b, t.copy_from + i - 1) \in Symbol
    <3>1. n <= MinusCapZero(offset_last_symbol(b) + 1, t.copy_from)
      <4>1. num_remaining(t) \in Int
        BY <2>1, SyncGeometry DEF num_remaining
      <4>2. MinusCapZero(offset_last_symbol(b) + 1, t.copy_from) \in Nat
        BY <2>1, <2>3 DEF MinusCapZero
      <4> QED
        BY <4>1, <4>2 DEF to_copy, PickSmaller
    <3>2. offset_start(b) <= t.copy_from
      BY <1>2, <2>1, <2>3 DEF Reachable, PickSmaller
    <3>3. t.copy_from + i - 1 <= offset_last_symbol(b)
      BY <2>1, <2>2, <2>3, <3>1 DEF MinusCapZero
    <3>4. offset_start(b) <= t.copy_from + i - 1
      BY <2>1, <2>2, <2>3, <3>2
    <3>5. localOffset(b, t.copy_from + i - 1) \in SignalIndex
      BY <2>1, <2>2, <3>3, <3>4, ReadInside
    <3> QED
      BY <3>5 DEF signal, BufferObject
  <2>5. more \in Seq(Symbol) /\ Len(more) = n
    BY <2>2, <2>4
  <2>6. head \in [0 .. OverlapLen -> Symbol] \cup {NoHeader}
    BY <2>1, HeaderRead
  <2> HIDE DEF n, more, head
  <2>7. CopyTask(b, t) = [t EXCEPT !.header = head, !.data = @ \o more, !.copy_from = @ + n]
    BY <1>2 DEF CopyTask, n, more, head
  <2>8. t.data \o more \in Seq(Symbol) /\ Len(t.data \o more) = Len(t.data) + n
    BY <2>1, <2>5
  <2>9. t.copy_from + n \in Int
    BY <2>1, <2>2
  <2> QED
    BY <2>2, <2>6, <2>7, <2>8, <2>9 DEF Task, Short
<1> QED
  BY <1>1, <1>2

-----------------------------------------------------------------------------
(* The queue: every frame is in it at most once *)

\* No two tasks of S are of the same frame.
Unique(S) == \A s, t \in S : Matches(s, t) => s = t

\* No frame of S is a frame of T.
Apart(S, T) == \A s \in S, t \in T : ~ Matches(s, t)

\* Every task of the queue is well formed, and no two are of the same frame.
GoodQueue(q) == q \in SUBSET Task /\ (\A t \in q : Short(t)) /\ Unique(q)

\* A pass over the queue changes no identity.
LEMMA CopiedQueue ==
  ASSUME NEW b \in BufferObject, NEW q, GoodQueue(q)
  PROVE  GoodQueue(Copied(b, q))
<1>1. \A t \in q : /\ CopyTask(b, t) \in Task /\ Short(CopyTask(b, t))
                   /\ CopyTask(b, t).offset = t.offset
                   /\ CopyTask(b, t).ambiguity = t.ambiguity
  BY CopyTaskType DEF GoodQueue
<1>2. \A c \in Copied(b, q) : c \in Task /\ Short(c)
  BY <1>1 DEF Copied
<1>3. ASSUME NEW c \in Copied(b, q), NEW d \in Copied(b, q), Matches(c, d)
      PROVE  c = d
  <2>1. PICK s \in q : c = CopyTask(b, s)
    BY DEF Copied
  <2>2. PICK t \in q : d = CopyTask(b, t)
    BY DEF Copied
  <2>3. Matches(s, t)
    BY <1>1, <1>3, <2>1, <2>2 DEF Matches
  <2> QED
    BY <2>1, <2>2, <2>3 DEF GoodQueue, Unique
<1> QED
  BY <1>2, <1>3 DEF GoodQueue, Unique

\* A primary frame takes the place of the frame that is queued for its position.
LEMMA QueuePrimaryQueue ==
  ASSUME NEW q, GoodQueue(q), NEW t \in Task, Short(t)
  PROVE  GoodQueue(QueuePrimary(q, t))
<1>1. \A s \in QueuePrimary(q, t) : s \in Task /\ Short(s)
  BY DEF QueuePrimary, GoodQueue
<1>2. Unique(QueuePrimary(q, t))
  BY DEF QueuePrimary, GoodQueue, Unique, Matches
<1> QED
  BY <1>1, <1>2 DEF GoodQueue

\* Secondary frames are only queued for positions that no frame is queued for.
LEMMA QueueSecondaryQueue ==
  ASSUME NEW q, GoodQueue(q), NEW T, GoodQueue(T)
  PROVE  GoodQueue(QueueSecondary(q, T))
<1>1. \A s \in QueueSecondary(q, T) : s \in Task /\ Short(s)
  BY DEF QueueSecondary, GoodQueue
<1>2. ASSUME NEW s \in QueueSecondary(q, T), NEW t \in QueueSecondary(q, T), Matches(s, t)
      PROVE  s = t
  <2>1. Matches(t, s)
    BY <1>2 DEF Matches
  <2> QED
    BY <1>2, <2>1 DEF QueueSecondary, GoodQueue, Unique
<1> QED
  BY <1>1, <1>2 DEF GoodQueue, Unique

\* Multiplication is monotonic.
LEMMA TimesMonotone ==
  ASSUME NEW i \in Nat, NEW j \in Nat, NEW k \in Nat, i <= j
  PROVE  i * k \in Nat /\ i * k <= j * k
<1>1. (j - i) * k \in Nat /\ i * k \in Nat /\ j * k \in Nat
  BY SMT
<1>2. (j - i) * k = j * k - i * k
  BY SMT
<1> QED
  BY <1>1, <1>2

\* The frames that are assumed around an ASM are at most FramesBefore blocks older.
LEMMA AroundPositions ==
  ASSUME NEW pos \in Position, NEW p \in Before(pos) \cup After(pos)
  PROVE  p \in Position /\ p.offset + FramesBefore * BlockLen >= pos.offset
<1>1. pos.offset \in Nat /\ pos.ambiguity \in Ambiguities
  BY DEF Position
<1>2. CASE p \in Before(pos)
  <2>1. PICK i \in 1 .. FramesBefore :
          pos.offset >= i * BlockLen /\ p = [pos EXCEPT !.offset = pos.offset - i * BlockLen]
    BY <1>2 DEF Before
  <2>2. i * BlockLen \in Nat /\ i * BlockLen <= FramesBefore * BlockLen
    BY TimesMonotone, Geometry, SyncGeometry
  <2>3. p.offset = pos.offset - i * BlockLen /\ p \in Position
    BY <1>1, <2>1, <2>2 DEF Position
  <2> QED
    BY <1>1, <2>2, <2>3, SyncGeometry
<1>3. CASE p \in After(pos)
  <2>1. PICK i \in 1 .. FramesAfter : p = [pos EXCEPT !.offset = pos.offset + i * BlockLen]
    BY <1>3 DEF After
  <2>2. i * BlockLen \in Nat
    BY TimesMonotone, Geometry, SyncGeometry
  <2>3. p.offset = pos.offset + i * BlockLen /\ p \in Position
    BY <1>1, <2>1, <2>2 DEF Position
  <2> QED
    BY <1>1, <2>2, <2>3, SyncGeometry
<1> QED
  BY <1>2, <1>3

\* The tasks made from a set of positions.
LEMMA NewTasksQueue ==
  ASSUME NEW S \in SUBSET Position, NEW seq \in Nat
  PROVE  GoodQueue({NewTask(p, seq, FALSE) : p \in S})
<1> DEFINE T == {NewTask(p, seq, FALSE) : p \in S}
<1>1. \A p \in S : /\ NewTask(p, seq, FALSE) \in Task
                   /\ NewTask(p, seq, FALSE).offset = p.offset
                   /\ NewTask(p, seq, FALSE).ambiguity = p.ambiguity
                   /\ Short(NewTask(p, seq, FALSE))
  BY NewTaskType
<1>2. ASSUME NEW p \in S, NEW r \in S, Matches(NewTask(p, seq, FALSE), NewTask(r, seq, FALSE))
      PROVE  p = r
  <2>1. p.offset = r.offset /\ p.ambiguity = r.ambiguity
    BY <1>1, <1>2 DEF Matches
  <2>2. \A x \in Position : x = [offset |-> x.offset, ambiguity |-> x.ambiguity]
    BY DEF Position
  <2> QED
    BY <2>1, <2>2
<1>3. Unique(T)
  BY <1>2 DEF Unique
<1> QED
  BY <1>1, <1>3 DEF GoodQueue

\* The search result pos queues its own frame and frames around it, and no
\* queued frame is older than that or was queued before.
LEMMA ProcessBufferQueue ==
  ASSUME NEW q, GoodQueue(q), NEW pos \in Position, NEW seq \in Nat
  PROVE  /\ GoodQueue(processBuffer(q, pos, seq))
         /\ \A t \in processBuffer(q, pos, seq) :
              t \in q \/ t.offset + FramesBefore * BlockLen >= pos.offset
<1> DEFINE prim == NewTask(pos, seq, TRUE)
           S    == Secondary(pos)
           T    == {NewTask(p, seq, FALSE) : p \in S}
<1>1. prim \in Task /\ Short(prim) /\ prim.offset = pos.offset
  BY NewTaskType
<1>2. S \in SUBSET Position /\ \A p \in S : p.offset + FramesBefore * BlockLen >= pos.offset
  BY AroundPositions DEF Secondary
<1>3. GoodQueue(T)
  BY <1>2, NewTasksQueue
<1>4. \A t \in T : t.offset + FramesBefore * BlockLen >= pos.offset
  <2>1. \A p \in S : NewTask(p, seq, FALSE).offset = p.offset
    BY <1>2, NewTaskType
  <2> HIDE DEF S
  <2> QED
    BY <1>2, <2>1
<1>5. prim.offset + FramesBefore * BlockLen >= pos.offset
  <2>1. pos.offset \in Nat
    BY DEF Position
  <2>2. pos.offset + FramesBefore * BlockLen >= pos.offset
    BY <2>1, SyncGeometry
  <2> HIDE DEF prim
  <2> QED
    BY <1>1, <2>2
<1>6. processBuffer(q, pos, seq) = IF Throws(pos) THEN q ELSE QueueSecondary(QueuePrimary(q, prim), T)
  BY DEF processBuffer
<1> HIDE DEF prim, S, T
<1>7. GoodQueue(QueueSecondary(QueuePrimary(q, prim), T))
  BY <1>1, <1>3, QueuePrimaryQueue, QueueSecondaryQueue
<1>8. \A t \in QueueSecondary(QueuePrimary(q, prim), T) : t \in q \/ t = prim \/ t \in T
  BY DEF QueueSecondary, QueuePrimary
<1>9. CASE Throws(pos)
  BY <1>6, <1>9
<1>10. CASE ~ Throws(pos)
  BY <1>4, <1>5, <1>6, <1>7, <1>8, <1>10
<1> QED
  BY <1>9, <1>10

-----------------------------------------------------------------------------
(* The port out: no frame that is sent is sent or queued again *)

\* Batches of well-formed tasks, without two tasks of the same frame.
GoodOut(o) ==
  /\ o \in Seq(SUBSET Task)
  /\ \A i, j \in 1 .. Len(o) : \A s \in o[i], t \in o[j] : Matches(s, t) => i = j /\ s = t

\* No frame of the batches of o is a frame of S.
OutApart(o, S) == \A i \in 1 .. Len(o) : Apart(o[i], S)

\* Every frame of the batches of o lies before the position p.
OutBefore(o, p) == \A i \in 1 .. Len(o) : \A t \in o[i] : t.offset < p

\* Another batch of frames that have not been sent yet.
LEMMA AppendBatch ==
  ASSUME NEW o, GoodOut(o), NEW batch \in SUBSET Task, Unique(batch), OutApart(o, batch)
  PROVE  /\ GoodOut(Append(o, batch))
         /\ Append(o, batch) # <<>>
         /\ \A S : OutApart(o, S) /\ Apart(batch, S) => OutApart(Append(o, batch), S)
         /\ \A p : OutBefore(o, p) /\ (\A t \in batch : t.offset < p)
                     => OutBefore(Append(o, batch), p)
<1> DEFINE a == Append(o, batch)
<1>1. /\ a \in Seq(SUBSET Task) /\ Len(a) = Len(o) + 1 /\ Len(o) \in Nat
      /\ \A i \in 1 .. Len(o) : a[i] = o[i]
      /\ a[Len(o) + 1] = batch
  BY DEF GoodOut
<1>2. \A i \in 1 .. Len(a) : i \in 1 .. Len(o) \/ i = Len(o) + 1
  BY <1>1
<1> HIDE DEF a
<1>3. ASSUME NEW i \in 1 .. Len(a), NEW j \in 1 .. Len(a),
             NEW s \in a[i], NEW t \in a[j], Matches(s, t)
      PROVE  i = j /\ s = t
  <2>0. Matches(t, s)
    BY <1>3 DEF Matches
  <2>1. CASE i \in 1 .. Len(o) /\ j \in 1 .. Len(o)
    BY <2>1, <1>1, <1>3 DEF GoodOut
  <2>2. CASE i \in 1 .. Len(o) /\ j = Len(o) + 1
    BY <2>2, <1>1, <1>3 DEF OutApart, Apart
  <2>3. CASE i = Len(o) + 1 /\ j \in 1 .. Len(o)
    BY <2>0, <2>3, <1>1, <1>3 DEF OutApart, Apart
  <2>4. CASE i = Len(o) + 1 /\ j = Len(o) + 1
    BY <2>4, <1>1, <1>3 DEF Unique
  <2> QED
    BY <1>2, <2>1, <2>2, <2>3, <2>4
<1>4. GoodOut(a)
  BY <1>1, <1>3 DEF GoodOut
<1>5. a # <<>>
  BY <1>1
<1>6. \A S : OutApart(o, S) /\ Apart(batch, S) => OutApart(a, S)
  BY <1>1, <1>2 DEF OutApart
<1>7. \A p : OutBefore(o, p) /\ (\A t \in batch : t.offset < p) => OutBefore(a, p)
  BY <1>1, <1>2 DEF OutBefore
<1> QED
  BY <1>4, <1>5, <1>6, <1>7 DEF a

\* A pass over the queue and the frames it sends: what is sent was queued, is
\* not queued any more, and is too old to be generated again.
LEMMA SendQueue ==
  ASSUME NEW b \in BufferObject, NEW q, GoodQueue(q), GoodOut(out), OutApart(out, q)
  PROVE  /\ GoodQueue(Remaining(b, q))
         /\ GoodOut(Publish(Sent(b, q)))
         /\ OutApart(Publish(Sent(b, q)), Remaining(b, q))
         /\ OutBefore(out, b.offset_counter - FramesBefore * BlockLen)
              => OutBefore(Publish(Sent(b, q)), b.offset_counter - FramesBefore * BlockLen)
<1> DEFINE C == Copied(b, q)
           sent == Sent(b, q)
           rest == Remaining(b, q)
<1>1. GoodQueue(C)
  BY CopiedQueue
<1>2. sent \in SUBSET C /\ rest \in SUBSET C
  BY DEF Sent, Remaining
<1>3. GoodQueue(sent) /\ GoodQueue(rest)
  BY <1>1, <1>2 DEF GoodQueue, Unique
<1>4. Apart(sent, rest)
  BY <1>1 DEF Apart, GoodQueue, Unique, Sent, Remaining
<1>5. OutApart(out, C)
  <2>1. \A t \in q : CopyTask(b, t).offset = t.offset /\ CopyTask(b, t).ambiguity = t.ambiguity
    BY CopyTaskType DEF GoodQueue
  <2> QED
    BY <2>1 DEF OutApart, Apart, Matches, Copied
<1>6. OutApart(out, sent) /\ OutApart(out, rest)
  BY <1>2, <1>5 DEF OutApart, Apart
<1>7. \A t \in sent : t.offset < b.offset_counter - FramesBefore * BlockLen
  <2> SUFFICES ASSUME NEW t \in sent
               PROVE  t.offset < b.offset_counter - FramesBefore * BlockLen
    OBVIOUS
  <2>1. t.offset \in Nat /\ t.offset < indx_threshold(b)
    BY <1>3 DEF GoodQueue, Task, Sent, Sendable
  <2>2. b.offset_counter \in Nat
    BY DEF BufferObject
  <2> QED
    BY <2>1, <2>2, SyncGeometry DEF indx_threshold, offset, MinusCapZero
<1> HIDE DEF C, sent, rest
<1>8. CASE sent = {}
  BY <1>3, <1>6, <1>8 DEF Publish, sent, rest
<1>9. CASE sent # {}
  <2>1. Publish(sent) = Append(out, sent)
    BY <1>9 DEF Publish
  <2>2. sent \in SUBSET Task /\ Unique(sent)
    BY <1>3 DEF GoodQueue
  <2> QED
    BY <1>3, <1>4, <1>6, <1>7, <2>1, <2>2, AppendBatch DEF sent, rest
<1> QED
  BY <1>8, <1>9

\* What the block at b queues has not been sent: it is newer than what was sent.
LEMMA ProcessBufferApart ==
  ASSUME NEW oc \in Nat, NEW q, GoodQueue(q), GoodOut(out), OutApart(out, q),
         OutBefore(out, oc - FramesBefore * BlockLen),
         NEW pos \in Position, pos.offset >= oc, NEW seq \in Nat
  PROVE  OutApart(out, processBuffer(q, pos, seq))
<1> SUFFICES ASSUME NEW i \in 1 .. Len(out), NEW s \in out[i],
                    NEW t \in processBuffer(q, pos, seq), Matches(s, t)
             PROVE  FALSE
  BY DEF OutApart, Apart
<1>1. t \in q \/ t.offset + FramesBefore * BlockLen >= pos.offset
  BY ProcessBufferQueue
<1>2. t.offset \in Nat /\ pos.offset \in Nat
  BY ProcessBufferQueue DEF GoodQueue, Task, Position
<1>3. s.offset < oc - FramesBefore * BlockLen
  BY DEF OutBefore
<1>4. CASE t \in q
  BY <1>4 DEF OutApart, Apart
<1>5. CASE t.offset + FramesBefore * BlockLen >= pos.offset
  <2>1. s.offset = t.offset
    BY DEF Matches
  <2> QED
    BY <1>2, <1>3, <1>5, <2>1, SyncGeometry
<1> QED
  BY <1>1, <1>4, <1>5

-----------------------------------------------------------------------------
(* The steps *)

Assertions == {"local_pos >= d_HEAD_LEN", "header_computed"}

(* What holds in every reachable state.  NoFrameTwice alone is not          *)
(* inductive: it also takes that no queued frame has been sent, and, while  *)
(* blocks may still come, that what has been sent is too old for a later    *)
(* block to generate it again.                                             *)
SyncInv ==
  /\ BufferTypeOK
  /\ status \in {"idle", "work", "stopped", "failed"}
  /\ todo \in Nat
  /\ sequence \in Nat
  /\ found \in SUBSET Position
  /\ violated \in SUBSET Assertions
  /\ GoodQueue(queue)
  /\ GoodOut(out)
  /\ OutApart(out, queue)
  /\ status \in {"idle", "work"} =>
       OutBefore(out, buf.offset_counter - FramesBefore * BlockLen)

LEMMA BrokenAssertions ==
  ASSUME NEW b, NEW q
  PROVE  Broken(b, q) \in SUBSET Assertions
BY DEF Broken, Assertions

\* A read of the input keeps the buffer a buffer; a read that is as long as
\* what is missing fills it.
LEMMA SyncRead ==
  ASSUME BufferTypeOK, NEW in \in Seq(Symbol), NEW e \in Nat
  PROVE  /\ read_signal(buf, in, e) \in BufferObject
         /\ read_signal(buf, in, e).offset_counter = buf.offset_counter
         /\ Len(in) = num_symbols_missing(buf) => full(read_signal(buf, in, e))
<1>1. buf \in BufferObject
  BY DEF BufferTypeOK
<1>2. read_signal(buf, in, e) \in BufferObject
  BY <1>1, ReadType
<1>3. read_signal(buf, in, e).offset_counter = buf.offset_counter
  BY DEF read_signal
<1>4. ASSUME Len(in) = num_symbols_missing(buf)
      PROVE  full(read_signal(buf, in, e))
  <2>1. read_signal(buf, in, e).items = buf.items + num_symbols_missing(buf)
    BY <1>4 DEF read_signal, PickSmaller
  <2>2. buf.items \in Nat /\ BufferLen \in Nat
    BY <1>1, Geometry DEF BufferObject
  <2> QED
    BY <2>1, <2>2 DEF full, num_symbols_missing
<1> QED
  BY <1>2, <1>3, <1>4

\* The result of the search is a position.
LEMMA SearchPosition ==
  ASSUME NEW b, b.offset_counter \in Nat, NEW index \in 0 .. BlockLen - 1, NEW amb \in Ambiguities
  PROVE  /\ [offset |-> offset(b) + index, ambiguity |-> amb] \in Position
         /\ offset(b) + index >= b.offset_counter
BY Geometry DEF offset, Position

\* stop() sends what is left in at most two batches.
LEMMA FlushQueue ==
  ASSUME NEW b \in BufferObject, NEW q, GoodQueue(q), GoodOut(out), OutApart(out, q),
         violated \in SUBSET Assertions, nitems_read \in Nat, todo \in Nat,
         Flush(b, q)
  PROVE  /\ BufferTypeOK' /\ todo' \in Nat /\ status' = "stopped"
         /\ violated' \in SUBSET Assertions
         /\ GoodQueue(queue') /\ GoodOut(out') /\ OutApart(out', queue')
<1> DEFINE rest    == Remaining(b, q)
           first   == Publish(Sent(b, q))
           flushed == {t \in rest : t.data # <<>>}
<1>1. GoodQueue(rest) /\ GoodOut(first) /\ OutApart(first, rest)
  BY SendQueue
<1>2. /\ out' = IF flushed = {} THEN first ELSE Append(first, flushed)
      /\ queue' = rest \ flushed
      /\ buf' = b /\ nitems_read' = nitems_read /\ todo' = todo /\ status' = "stopped"
  BY DEF Flush
<1>3. violated' \in SUBSET Assertions
  BY BrokenAssertions DEF Flush, Assertions
<1> HIDE DEF rest, first
<1>4. /\ flushed \in SUBSET Task /\ Unique(flushed)
      /\ GoodQueue(rest \ flushed)
      /\ OutApart(first, flushed) /\ OutApart(first, rest \ flushed)
      /\ Apart(flushed, rest \ flushed)
  BY <1>1 DEF GoodQueue, Unique, OutApart, Apart
<1> HIDE DEF flushed
<1>5. GoodOut(out') /\ OutApart(out', queue')
  <2>1. CASE flushed = {}
    BY <1>1, <1>2, <1>4, <2>1
  <2>2. CASE flushed # {}
    BY <1>1, <1>2, <1>4, <2>2, AppendBatch
  <2> QED
    BY <2>1, <2>2
<1> QED
  BY <1>2, <1>3, <1>4, <1>5 DEF BufferTypeOK

LEMMA SyncInitInv == Init => SyncInv
<1> SUFFICES ASSUME Init
             PROVE  SyncInv
  OBVIOUS
<1>1. BufferTypeOK
  BY NewBufferInPlace DEF Init, BufferInit, BufferTypeOK
<1>2. GoodQueue(queue)
  <2>1. AdditionalAsm \in SUBSET Position /\ SEQUENCE_UNUSED \in Nat
    BY FrameSyncAssumption DEF SEQUENCE_UNUSED
  <2> QED
    BY <2>1, NewTasksQueue DEF Init
<1>3. out = <<>> /\ Len(out) = 0
  BY DEF Init
<1>4. GoodOut(out) /\ OutApart(out, queue)
      /\ OutBefore(out, buf.offset_counter - FramesBefore * BlockLen)
  BY <1>3 DEF GoodOut, OutApart, OutBefore
<1> QED
  BY <1>1, <1>2, <1>4 DEF Init, SyncInv

LEMMA SyncStepInv == SyncInv /\ [Next]_vars => SyncInv'
<1> SUFFICES ASSUME SyncInv, [Next]_vars
             PROVE  SyncInv'
  OBVIOUS
<1> USE DEF SyncInv
<1>0. /\ buf \in BufferObject /\ nitems_read \in Nat
      /\ buf.offset_counter \in Nat /\ num_symbols_missing(buf) \in Nat
  BY Geometry DEF BufferTypeOK, BufferObject, num_symbols_missing
<1>1. ASSUME NEW n \in 1 .. MaxRead, Work(n)
      PROVE  SyncInv'
  <2>1. n \in Nat
    BY BufferBounds
  <2> QED
    BY <1>1, <2>1 DEF Work, bufferVars, BufferTypeOK
<1>2. CASE WorkPartial
  <2>1. Input(todo) \in Seq(Symbol) /\ nitems_read + todo \in Nat
    BY <1>0, InputSymbols
  <2>2. buf' \in BufferObject /\ buf'.offset_counter = buf.offset_counter
    BY <1>2, <2>1, SyncRead DEF WorkPartial
  <2> QED
    BY <1>2, <2>1, <2>2 DEF WorkPartial, BufferTypeOK
<1>3. ASSUME NEW index \in 0 .. BlockLen - 1, NEW amb \in Ambiguities, WorkBlock(index, amb)
      PROVE  SyncInv'
  <2> DEFINE num == num_symbols_missing(buf)
             b   == read_signal(buf, Input(num), nitems_read + num)
             pos == [offset |-> offset(b) + index, ambiguity |-> amb]
             q   == processBuffer(queue, pos, sequence + 1)
  <2>1. /\ num \in Nat /\ Input(num) \in Seq(Symbol) /\ Len(Input(num)) = num
        /\ nitems_read + num \in Nat
    BY <1>0, InputSymbols
  <2>2. b \in BufferObject /\ b.offset_counter = buf.offset_counter /\ full(b)
    BY <2>1, SyncRead
  <2>3. pos \in Position /\ pos.offset >= buf.offset_counter
    BY <1>0, <2>2, SearchPosition
  <2>4. todo' \in Nat /\ sequence' \in Nat /\ nitems_read' \in Nat /\ status = "work"
    BY <1>3, <2>1 DEF WorkBlock
  <2>5. OutBefore(out, buf.offset_counter - FramesBefore * BlockLen)
    BY <2>4
  <2>6. GoodQueue(q) /\ OutApart(out, q)
    <3>1. sequence + 1 \in Nat /\ GoodQueue(queue) /\ GoodOut(out) /\ OutApart(out, queue)
      OBVIOUS
    <3> HIDE DEF pos, SyncInv
    <3>2. GoodQueue(q)
      BY <2>3, <3>1, ProcessBufferQueue
    <3>3. OutApart(out, q)
      BY <1>0, <2>3, <2>5, <3>1, ProcessBufferApart
    <3> QED
      BY <3>2, <3>3
  <2>7. CASE Stops(pos)
    <3>1. /\ status' = "failed" /\ buf' = b /\ queue' = q
          /\ UNCHANGED <<out, found, violated>>
      BY <1>3, <2>7 DEF WorkBlock
    <3> HIDE DEF b, q, pos
    <3> QED
      BY <2>2, <2>4, <2>6, <3>1 DEF BufferTypeOK
  <2>8. CASE ~ Stops(pos)
    <3>1. /\ status' = status /\ buf' = advance(b)
          /\ found' = found \cup {pos}
          /\ out' = Publish(Sent(b, q)) /\ queue' = Remaining(b, q)
          /\ violated' = violated \cup Broken(b, q)
      BY <1>3, <2>8 DEF WorkBlock
    <3>2. /\ buf' \in BufferObject
          /\ buf'.offset_counter = buf.offset_counter + BlockLen
      BY <2>2, <3>1, AdvanceType DEF advance
    <3> HIDE DEF b, q, pos
    <3>3. /\ GoodQueue(queue') /\ GoodOut(out') /\ OutApart(out', queue')
          /\ OutBefore(out', buf.offset_counter - FramesBefore * BlockLen)
      BY <2>2, <2>5, <2>6, <3>1, SendQueue
    <3>4. OutBefore(out', buf'.offset_counter - FramesBefore * BlockLen)
      <4>1. \A i \in 1 .. Len(out') : \A t \in out'[i] : t.offset \in Nat
        BY <3>3 DEF GoodOut, Task
      <4>2. /\ buf.offset_counter - FramesBefore * BlockLen \in Int
            /\ buf'.offset_counter - FramesBefore * BlockLen \in Int
            /\ buf.offset_counter - FramesBefore * BlockLen
                 <= buf'.offset_counter - FramesBefore * BlockLen
        BY <1>0, <3>2, Geometry, SyncGeometry
      <4> QED
        BY <3>3, <4>1, <4>2 DEF OutBefore
    <3>5. violated' \in SUBSET Assertions /\ found' \in SUBSET Position
      BY <2>3, <3>1, BrokenAssertions
    <3> QED
      BY <2>4, <3>1, <3>2, <3>3, <3>4, <3>5 DEF BufferTypeOK
  <2> QED
    BY <2>7, <2>8
<1>4. CASE WorkReturn
  <2>1. /\ GoodQueue(queue') /\ GoodOut(out') /\ OutApart(out', queue')
        /\ OutBefore(out', buf.offset_counter - FramesBefore * BlockLen)
    BY <1>0, <1>4, SendQueue DEF WorkReturn
  <2>2. violated' \in SUBSET Assertions
    BY <1>4, BrokenAssertions DEF WorkReturn
  <2> QED
    BY <1>4, <2>1, <2>2 DEF WorkReturn, bufferVars, BufferTypeOK
<1>5. CASE StopEmpty
  BY <1>0, <1>5, FlushQueue DEF StopEmpty
<1>6. ASSUME NEW index \in 0 .. BlockLen - 1, NEW amb \in Ambiguities, StopSearch(index, amb)
      PROVE  SyncInv'
  <2> DEFINE fill == [k \in 1 .. OverlapLen |-> Zero]
             b    == read_signal(buf, fill, nitems_read)
             pos  == [offset |-> offset(b) + index, ambiguity |-> amb]
             q    == processBuffer(queue, pos, sequence + 1)
  <2>1. fill \in Seq(Symbol)
    BY Geometry DEF Symbol
  <2>2. b \in BufferObject /\ b.offset_counter = buf.offset_counter
    BY <1>0, <2>1, SyncRead
  <2>3. pos \in Position /\ pos.offset >= buf.offset_counter
    BY <1>0, <2>2, SearchPosition
  <2>4. sequence' \in Nat /\ status = "idle"
    BY <1>6 DEF StopSearch
  <2>5. GoodQueue(q) /\ OutApart(out, q)
    BY <1>0, <2>3, <2>4, ProcessBufferQueue, ProcessBufferApart
  <2>6. CASE Stops(pos)
    <3>1. /\ status' = "failed" /\ buf' = b /\ queue' = q
          /\ UNCHANGED <<nitems_read, todo, out, found, violated>>
      BY <1>6, <2>6 DEF StopSearch
    <3> HIDE DEF b, q, pos
    <3> QED
      BY <1>0, <2>2, <2>4, <2>5, <3>1 DEF BufferTypeOK
  <2>7. CASE ~ Stops(pos)
    <3>1. found' = found \cup {pos} /\ Flush(b, q)
      BY <1>6, <2>7 DEF StopSearch
    <3> HIDE DEF b, q, pos
    <3> QED
      BY <1>0, <2>2, <2>3, <2>4, <2>5, <3>1, FlushQueue
  <2> QED
    BY <2>6, <2>7
<1>7. CASE UNCHANGED vars
  BY <1>7 DEF vars, bufferVars, syncVars, BufferTypeOK
<1> QED
  BY <1>1, <1>2, <1>3, <1>4, <1>5, <1>6, <1>7 DEF Next

LEMMA SyncInvariant == Spec => []SyncInv
BY SyncInitInv, SyncStepInv, PTL DEF Spec

\* The state keeps its shape for every geometry: in particular every symbol a
\* frame is copied from, and every correlation value its header is scored
\* from, is read inside the buffer.
THEOREM SyncTypeCorrect == Spec => []TypeOK
<1>1. SyncInv => TypeOK
  BY DEF SyncInv, TypeOK, GoodQueue, GoodOut, Assertions
<1> QED
  BY <1>1, SyncInvariant, PTL

\* No frame leaves the synchroniser twice, whatever the search finds and
\* however the input is cut into calls of work().
THEOREM SyncNoFrameTwice == Spec => []NoFrameTwice
<1>1. SyncInv => NoFrameTwice
  BY DEF SyncInv, NoFrameTwice, GoodQueue, GoodOut, Unique
<1> QED
  BY <1>1, SyncInvariant, PTL

-----------------------------------------------------------------------------
(* What a task holds: the symbols of its own frame, in order *)

\* The position of the first symbol of a frame.
First(t) == t.offset + AsmLen - HeadSymbols

\* The next symbol to be copied is the one after those that have been.
Aligned(t) == t.offset >= HeadLen /\ t.copy_from = First(t) + Len(t.data)

\* What belongs at position p when n symbols of the stream have been read.
ExpectedAt(n, p) == IF p < n THEN p ELSE Zero

\* Data and header of a task are those of its frame, when n symbols are read.
Contents(n, t) ==
  /\ \A k \in 1 .. Len(t.data) : t.data[k] = ExpectedAt(n, First(t) + k - 1)
  /\ header_computed(t) => t.header = [k \in 0 .. OverlapLen |-> ExpectedAt(n, t.offset + k)]

\* What a task holds came from the first n symbols of the stream.
Seen(n, t) ==
  /\ t.data # <<>> => t.copy_from <= n
  /\ header_computed(t) => t.offset + AsmLen <= n

\* Nothing that the task still needs lies before position f.
InReach(f, t) ==
  \/ data_complete(t)
  \/ t.copy_from >= f /\ (header_computed(t) \/ t.offset >= f)

\* A complete frame has its header.
Headed(t) == data_complete(t) => header_computed(t)

\* The head area holds no symbol whose SNR is asked for.
HeadCovered == NumHistoryFrames > 0 /\ HeadSymbols <= AsmLen

\* A task that has just been queued by a block at position p.
Fresh(p, t) ==
  /\ t \in Task /\ t.data = <<>> /\ t.header = NoHeader
  /\ Aligned(t)
  /\ t.offset + FramesBefore * BlockLen >= p

\* The numbers of an aligned task.
LEMMA TaskNumbers ==
  ASSUME NEW t \in Task, Aligned(t), Short(t)
  PROVE  /\ t.offset \in Nat /\ t.copy_from \in Nat /\ First(t) \in Nat
         /\ First(t) >= AsmLen /\ t.copy_from >= First(t)
         /\ First(t) = t.offset + AsmLen - HeadSymbols
         /\ t.copy_from = First(t) + Len(t.data)
         /\ Len(t.data) \in Nat /\ Len(t.data) <= OutputLen
         /\ data_complete(t) <=> Len(t.data) = OutputLen
<1>1. t.offset \in Nat /\ Len(t.data) \in Nat /\ t.offset >= HeadLen
  BY DEF Task, Aligned
<1>2. HeadLen >= HeadSymbols
  BY SyncGeometry DEF HeadLen
<1> QED
  BY <1>1, <1>2, Geometry, SyncGeometry DEF Aligned, First, Short, data_complete

\* offset_last_symbol() in terms of what the buffer holds.
LEMMA LastSymbol ==
  ASSUME NEW b \in BufferObject
  PROVE  /\ offset_last_symbol(b) \in Nat /\ b.offset_counter \in Nat /\ b.items \in Nat
         /\ b.items >= HistoryLen
         /\ offset_last_symbol(b) + 1 >= b.offset_counter + b.items - HistoryLen
         /\ b.items > HistoryLen
              => offset_last_symbol(b) + 1 = b.offset_counter + b.items - HistoryLen
         /\ b.items = HistoryLen => offset_last_symbol(b) = b.offset_counter
         /\ offset_start(b) \in Nat
         /\ offset_start(b) >= b.offset_counter - HistoryLen
         /\ \A p \in Nat : p >= b.offset_counter - HistoryLen => p >= offset_start(b)
<1>1. b.items \in HistoryLen .. BufferLen /\ b.offset_counter \in Nat
  BY DEF BufferObject
<1> QED
  BY <1>1, Geometry DEF offset_last_symbol, offset_start, MinusCapZero

\* A function from 1 .. n is a sequence, and appended to another one it comes after it.
LEMMA ConcatFunction ==
  ASSUME NEW S, NEW T, NEW s \in Seq(S), NEW n \in Nat, NEW m \in [1 .. n -> T]
  PROVE  /\ Len(m) = n
         /\ s \o m \in Seq(S \cup T)
         /\ Len(s \o m) = Len(s) + n
         /\ \A k \in 1 .. Len(s) : (s \o m)[k] = s[k]
         /\ \A k \in 1 .. n : (s \o m)[Len(s) + k] = m[k]
<1>1. m \in Seq(T) /\ Len(m) = n
  OBVIOUS
<1>2. s \in Seq(S \cup T) /\ m \in Seq(S \cup T)
  BY <1>1
<1> QED
  BY <1>1, <1>2

\* A pass over a task that can be served: what it copies, and its header.
LEMMA ServedTask ==
  ASSUME NEW b \in BufferObject, NEW t \in Task, Short(t), Aligned(t),
         ~ data_complete(t), Reachable(b, t)
  PROVE  \E n \in Nat :
           /\ n = to_copy(b, t)
           /\ Len(t.data) + n <= OutputLen
           /\ t.copy_from <= offset_last_symbol(b) + 1 => t.copy_from + n <= offset_last_symbol(b) + 1
           /\ t.copy_from > offset_last_symbol(b) => n = 0
           /\ Len(t.data) + n = OutputLen \/ t.copy_from + n > offset_last_symbol(b)
           /\ offset_start(b) <= t.copy_from
           /\ Len(CopyTask(b, t).data) = Len(t.data) + n
           /\ CopyTask(b, t).copy_from = t.copy_from + n
           /\ CopyTask(b, t).primary = t.primary
           /\ \A k \in 1 .. Len(t.data) : CopyTask(b, t).data[k] = t.data[k]
           /\ \A k \in 1 .. n : CopyTask(b, t).data[Len(t.data) + k] = signal(b, t.copy_from + k - 1)
           /\ CopyTask(b, t).header = IF ~ header_computed(t) /\ asm_available(b, t)
                                      THEN correlation(b, t.offset) ELSE t.header
<1> DEFINE n    == to_copy(b, t)
           more == [i \in 1 .. n |-> signal(b, t.copy_from + i - 1)]
           head == IF ~ header_computed(t) /\ asm_available(b, t)
                   THEN correlation(b, t.offset) ELSE t.header
<1>1. n \in Nat /\ Len(t.data) + n <= OutputLen
  BY ToCopy
<1>2. /\ t.copy_from \in Nat /\ t.offset \in Nat /\ Len(t.data) \in Nat
      /\ offset_last_symbol(b) \in Nat /\ offset_start(b) \in Nat /\ OutputLen \in Nat
  BY TaskNumbers, LastSymbol, SyncGeometry
<1>3. n = PickSmaller(OutputLen - Len(t.data), MinusCapZero(offset_last_symbol(b) + 1, t.copy_from))
  BY DEF to_copy, num_remaining
<1>4. /\ t.copy_from <= offset_last_symbol(b) + 1 => t.copy_from + n <= offset_last_symbol(b) + 1
      /\ t.copy_from > offset_last_symbol(b) => n = 0
      /\ Len(t.data) + n = OutputLen \/ t.copy_from + n > offset_last_symbol(b)
  <2> HIDE DEF n
  <2> QED
    BY <1>1, <1>2, <1>3 DEF PickSmaller, MinusCapZero
<1>5. offset_start(b) <= t.copy_from
  BY <1>2 DEF Reachable, PickSmaller
<1> HIDE DEF n, head
<1>6. CopyTask(b, t) = [t EXCEPT !.header = head, !.data = @ \o more, !.copy_from = @ + n]
  BY DEF CopyTask, n, head
<1>7. Len(more) = n /\ \A k \in 1 .. n : more[k] = signal(b, t.copy_from + k - 1)
  BY <1>1
<1>8. /\ Len(t.data \o more) = Len(t.data) + n
      /\ \A k \in 1 .. Len(t.data) : (t.data \o more)[k] = t.data[k]
      /\ \A k \in 1 .. n : (t.data \o more)[Len(t.data) + k] = more[k]
  <2> DEFINE T == {signal(b, t.copy_from + i - 1) : i \in 1 .. n}
  <2>1. t.data \in Seq(Symbol)
    BY DEF Task
  <2>2. more \in [1 .. n -> T]
    OBVIOUS
  <2> HIDE DEF more, T
  <2> QED
    BY <1>1, <2>1, <2>2, ConcatFunction
<1> HIDE DEF more
<1>9. /\ CopyTask(b, t).data = t.data \o more
      /\ CopyTask(b, t).copy_from = t.copy_from + n
      /\ CopyTask(b, t).primary = t.primary
      /\ CopyTask(b, t).header = head
  BY <1>6 DEF Task
<1> QED
  BY <1>1, <1>4, <1>5, <1>7, <1>8, <1>9 DEF n, head

\* A task that cannot be served is left alone.
LEMMA UnservedTask ==
  ASSUME NEW b, NEW t, data_complete(t) \/ ~ Reachable(b, t)
  PROVE  CopyTask(b, t) = t
BY DEF CopyTask

\* A pass keeps a task aligned, and does not change what kind of frame it is.
LEMMA CopyAligned ==
  ASSUME NEW b \in BufferObject, NEW t \in Task, Short(t), Aligned(t)
  PROVE  /\ Aligned(CopyTask(b, t))
         /\ CopyTask(b, t).primary = t.primary
         /\ First(CopyTask(b, t)) = First(t)
         /\ data_complete(t) => data_complete(CopyTask(b, t))
<1>1. CASE data_complete(t) \/ ~ Reachable(b, t)
  BY <1>1, UnservedTask
<1>2. CASE ~ (data_complete(t) \/ ~ Reachable(b, t))
  <2>1. PICK n \in Nat : /\ Len(CopyTask(b, t).data) = Len(t.data) + n
                         /\ CopyTask(b, t).copy_from = t.copy_from + n
                         /\ CopyTask(b, t).primary = t.primary
    BY <1>2, ServedTask
  <2>2. CopyTask(b, t).offset = t.offset
    BY CopyTaskType
  <2>3. First(CopyTask(b, t)) = First(t)
    BY <2>2 DEF First
  <2> QED
    BY <1>2, <2>1, <2>2, <2>3, TaskNumbers DEF Aligned
<1> QED
  BY <1>1, <1>2

\* The buffer can serve the queue: every filled index has its symbol, or the
\* fill of stop(), no correlation is stale, and something has been read since
\* the last rotation or is left of the block before.
Served(b, n) ==
  /\ \A i \in SignalIndex : i < b.items => b.signal[i] = ExpectedAt(n, SymbolAt(b, i))
  /\ CorrelationPlaced(b)
  /\ b.offset_counter > 0 => b.items > HistoryLen

\* What is read by absolute position is the symbol of that position.
LEMMA ServedReads ==
  ASSUME NEW b \in BufferObject, NEW n \in Nat, Served(b, n),
         NEW p \in Nat, p > 0, offset_start(b) <= p, p <= offset_last_symbol(b)
  PROVE  signal(b, p) = ExpectedAt(n, p)
<1>1. localOffset(b, p) \in SignalIndex /\ localOffset(b, p) = p + HistoryLen - b.offset_counter
  BY ReadInside
<1>2. b.items > HistoryLen
  BY LastSymbol, Geometry DEF Served
<1>3. localOffset(b, p) < b.items
  BY <1>1, <1>2, LastSymbol, Geometry
<1>4. SymbolAt(b, localOffset(b, p)) = p
  BY <1>1, LastSymbol, Geometry DEF SymbolAt
<1> QED
  BY <1>1, <1>3, <1>4 DEF signal, Served

\* A correlation value whose sync marker is in the buffer is that of its position.
LEMMA ServedCorrelation ==
  ASSUME NEW b \in BufferObject, NEW n \in Nat, Served(b, n),
         NEW t \in Task, asm_available(b, t)
  PROVE  correlation(b, t.offset) = [k \in 0 .. OverlapLen |-> ExpectedAt(n, t.offset + k)]
<1> DEFINE i == localOffset(b, t.offset)
<1>1. /\ t.offset \in Nat /\ offset_start(b) <= t.offset
      /\ t.offset + AsmLen <= offset_last_symbol(b)
  BY DEF asm_available, Task
<1>2. t.offset <= offset_last_symbol(b)
  BY <1>1, LastSymbol, Geometry
<1>3. i \in SignalIndex /\ i = t.offset + HistoryLen - b.offset_counter
  BY <1>1, <1>2, ReadInside
<1>4. b.items > HistoryLen
  BY <1>1, LastSymbol, Geometry DEF Served
<1>5. i \in Nat /\ i + AsmLen < b.items
  BY <1>1, <1>3, <1>4, LastSymbol, Geometry DEF SignalIndex
<1>6. b.items <= BufferLen /\ b.items \in Nat
  BY Geometry DEF BufferObject
<1> HIDE DEF i
<1>7. i \in CorrIndex
  BY <1>5, <1>6, Geometry DEF CorrIndex
<1>8. b.correlation[i] = Window(b.signal, i)
  BY <1>5, <1>7 DEF Served, CorrelationPlaced
<1>9. ASSUME NEW k \in 0 .. OverlapLen
      PROVE  b.signal[i + k] = ExpectedAt(n, t.offset + k)
  <2>1. i + k \in SignalIndex /\ i + k < b.items
    BY <1>5, <1>6, Geometry DEF SignalIndex
  <2>2. SymbolAt(b, i + k) = t.offset + k
    BY <1>1, <1>3, <2>1, LastSymbol, Geometry DEF SymbolAt
  <2> QED
    BY <2>1, <2>2 DEF Served
<1> QED
  BY <1>8, <1>9 DEF correlation, Window, i

\* A pass adds the symbols of the frame, and the header of its own ASM.
LEMMA CopyContents ==
  ASSUME NEW b \in BufferObject, NEW n \in Nat, Served(b, n),
         NEW t \in Task, Short(t), Aligned(t), Contents(n, t)
  PROVE  Contents(n, CopyTask(b, t))
<1> DEFINE c == CopyTask(b, t)
<1>1. CASE data_complete(t) \/ ~ Reachable(b, t)
  BY <1>1, UnservedTask
<1>2. CASE ~ (data_complete(t) \/ ~ Reachable(b, t))
  <2>1. PICK m \in Nat :
          /\ m = to_copy(b, t)
          /\ t.copy_from <= offset_last_symbol(b) + 1 => t.copy_from + m <= offset_last_symbol(b) + 1
          /\ t.copy_from > offset_last_symbol(b) => m = 0
          /\ offset_start(b) <= t.copy_from
          /\ Len(c.data) = Len(t.data) + m
          /\ \A k \in 1 .. Len(t.data) : c.data[k] = t.data[k]
          /\ \A k \in 1 .. m : c.data[Len(t.data) + k] = signal(b, t.copy_from + k - 1)
          /\ c.header = IF ~ header_computed(t) /\ asm_available(b, t)
                        THEN correlation(b, t.offset) ELSE t.header
    BY <1>2, ServedTask
  <2>2. /\ t.offset \in Nat /\ t.copy_from \in Nat /\ First(t) \in Nat /\ First(t) >= AsmLen
        /\ t.copy_from = First(t) + Len(t.data) /\ Len(t.data) \in Nat /\ AsmLen > 0 /\ AsmLen \in Nat
    BY TaskNumbers, Geometry
  <2>3. offset_last_symbol(b) \in Nat /\ offset_start(b) \in Nat
    BY LastSymbol
  <2>4. c.offset = t.offset /\ First(c) = First(t)
    BY CopyTaskType, CopyAligned
  <2> HIDE DEF c
  <2>5. ASSUME NEW k \in 1 .. Len(c.data)
        PROVE  c.data[k] = ExpectedAt(n, First(c) + k - 1)
    <3>1. CASE k <= Len(t.data)
      <4>1. k \in 1 .. Len(t.data)
        BY <2>1, <2>2, <3>1
      <4> QED
        BY <2>1, <2>4, <4>1 DEF Contents
    <3>2. CASE k > Len(t.data)
      <4> DEFINE j == k - Len(t.data)
      <4>1. j \in 1 .. m /\ k = Len(t.data) + j
        BY <2>1, <2>2, <3>2
      <4> HIDE DEF j
      <4> DEFINE p == t.copy_from + j - 1
      <4>2. p \in Nat /\ p > 0 /\ offset_start(b) <= p /\ p <= offset_last_symbol(b)
        <5>1. m \in Nat /\ m # 0 /\ j \in Nat /\ j > 0 /\ j <= m
          BY <2>1, <4>1
        <5>2. t.copy_from + m <= offset_last_symbol(b) + 1
          BY <2>1, <2>2, <2>3, <5>1
        <5>3. t.copy_from > 0
          BY <2>2
        <5>4. offset_start(b) <= t.copy_from
          BY <2>1
        <5>5. t.copy_from \in Nat /\ offset_last_symbol(b) \in Nat /\ offset_start(b) \in Nat
          BY <2>2, <2>3
        <5> QED
          BY <5>1, <5>2, <5>3, <5>4, <5>5
      <4>3. p = First(t) + k - 1
        BY <2>2, <4>1
      <4>4. c.data[k] = signal(b, p)
        BY <2>1, <4>1
      <4> HIDE DEF p
      <4> QED
        BY <2>4, <4>2, <4>3, <4>4, ServedReads
    <3> QED
      BY <2>1, <2>2, <3>1, <3>2
  <2>6. ASSUME header_computed(c)
        PROVE  c.header = [k \in 0 .. OverlapLen |-> ExpectedAt(n, c.offset + k)]
    <3>1. CASE ~ header_computed(t) /\ asm_available(b, t)
      BY <2>1, <2>4, <3>1, ServedCorrelation
    <3>2. CASE ~ (~ header_computed(t) /\ asm_available(b, t))
      <4>1. c.header = t.header
        BY <2>1, <3>2
      <4> QED
        BY <2>4, <2>6, <4>1 DEF Contents, header_computed
    <3> QED
      BY <3>1, <3>2
  <2> QED
    BY <2>5, <2>6 DEF Contents, c
<1> QED
  BY <1>1, <1>2

\* A pass takes nothing that has not been read.
LEMMA CopySeen ==
  ASSUME NEW b \in BufferObject, NEW n \in Nat, Served(b, n),
         n = b.offset_counter + b.items - HistoryLen,
         NEW t \in Task, Short(t), Aligned(t), Seen(n, t)
  PROVE  Seen(n, CopyTask(b, t))
<1> DEFINE c == CopyTask(b, t)
<1>1. CASE data_complete(t) \/ ~ Reachable(b, t)
  BY <1>1, UnservedTask
<1>2. CASE ~ (data_complete(t) \/ ~ Reachable(b, t))
  <2>1. PICK m \in Nat :
          /\ t.copy_from <= offset_last_symbol(b) + 1 => t.copy_from + m <= offset_last_symbol(b) + 1
          /\ t.copy_from > offset_last_symbol(b) => m = 0
          /\ Len(c.data) = Len(t.data) + m
          /\ c.copy_from = t.copy_from + m
          /\ c.header = IF ~ header_computed(t) /\ asm_available(b, t)
                        THEN correlation(b, t.offset) ELSE t.header
    BY <1>2, ServedTask
  <2>2. /\ t.copy_from \in Nat /\ t.copy_from >= AsmLen /\ t.offset \in Nat
        /\ Len(t.data) \in Nat /\ AsmLen \in Nat /\ AsmLen > 0
    BY TaskNumbers, Geometry
  <2>3. c.offset = t.offset
    BY CopyTaskType
  <2>4. ASSUME 0 < offset_last_symbol(b)
        PROVE  offset_last_symbol(b) + 1 = n
    BY <2>4, LastSymbol, Geometry DEF Served
  <2>5. t.data # <<>> <=> Len(t.data) > 0
    BY <2>2 DEF Task
  <2>6. c.data # <<>> <=> Len(c.data) > 0
    <3>1. c \in Task
      BY CopyTaskType
    <3> HIDE DEF c
    <3> QED
      BY <3>1 DEF Task
  <2>7. offset_last_symbol(b) \in Nat
    BY LastSymbol
  <2> HIDE DEF c
  <2>8. ASSUME c.data # <<>>
        PROVE  c.copy_from <= n
    <3>1. CASE m = 0
      BY <2>1, <2>2, <2>5, <2>6, <2>8, <3>1 DEF Seen
    <3>2. CASE m > 0
      <4>1. t.copy_from <= offset_last_symbol(b)
        BY <2>1, <2>2, <2>7, <3>2
      <4> QED
        BY <2>1, <2>2, <2>4, <2>7, <4>1
    <3> QED
      BY <2>1, <3>1, <3>2
  <2>9. ASSUME header_computed(c)
        PROVE  c.offset + AsmLen <= n
    <3>1. CASE ~ header_computed(t) /\ asm_available(b, t)
      <4>1. t.offset + AsmLen <= offset_last_symbol(b)
        BY <3>1 DEF asm_available
      <4> QED
        BY <2>2, <2>3, <2>4, <2>7, <4>1
    <3>2. CASE ~ (~ header_computed(t) /\ asm_available(b, t))
      <4>1. c.header = t.header
        BY <2>1, <3>2
      <4> QED
        BY <2>3, <2>9, <4>1 DEF Seen, header_computed
    <3> QED
      BY <3>1, <3>2
  <2> QED
    BY <2>8, <2>9 DEF Seen, c
<1> QED
  BY <1>1, <1>2

\* As more symbols are read, what a task holds stays what it should hold.
LEMMA SeenGrows ==
  ASSUME NEW t \in Task, Aligned(t), Short(t), NEW n \in Nat, NEW m \in Nat, n <= m,
         Contents(n, t), Seen(n, t)
  PROVE  Contents(m, t) /\ Seen(m, t)
<1>1. /\ t.offset \in Nat /\ First(t) \in Nat /\ Len(t.data) \in Nat
      /\ t.copy_from = First(t) + Len(t.data) /\ t.copy_from \in Nat
  BY TaskNumbers
<1>2. ASSUME NEW k \in 1 .. Len(t.data)
      PROVE  t.data[k] = ExpectedAt(m, First(t) + k - 1)
  <2>1. t.data # <<>>
    BY <1>1
  <2>2. First(t) + k - 1 < n
    BY <1>1, <2>1 DEF Seen
  <2>3. t.data[k] = ExpectedAt(n, First(t) + k - 1)
    BY DEF Contents
  <2> QED
    BY <1>1, <2>2, <2>3 DEF ExpectedAt
<1>3. ASSUME header_computed(t)
      PROVE  t.header = [k \in 0 .. OverlapLen |-> ExpectedAt(m, t.offset + k)]
  <2>1. t.header = [k \in 0 .. OverlapLen |-> ExpectedAt(n, t.offset + k)]
    BY <1>3 DEF Contents
  <2>2. t.offset + AsmLen <= n
    BY <1>3 DEF Seen
  <2>3. \A k \in 0 .. OverlapLen : ExpectedAt(n, t.offset + k) = ExpectedAt(m, t.offset + k)
    BY <1>1, <2>2, Geometry DEF ExpectedAt
  <2> QED
    BY <2>1, <2>3
<1>4. Seen(m, t)
  <2>1. ASSUME t.data # <<>>
        PROVE  t.copy_from <= m
    BY <1>1, <2>1 DEF Seen
  <2>2. ASSUME header_computed(t)
        PROVE  t.offset + AsmLen <= m
    BY <1>1, <2>2, Geometry DEF Seen
  <2> QED
    BY <2>1, <2>2 DEF Seen
<1> QED
  BY <1>2, <1>3, <1>4 DEF Contents

\* A pass takes all that is there: afterwards a frame is complete, or what it
\* needs next is not in the buffer yet; the same for its header.
LEMMA CopyReach ==
  ASSUME NEW b \in BufferObject, NEW t \in Task, Short(t), Aligned(t),
         InReach(b.offset_counter - HistoryLen, t), NEW f \in Int, InReach(f, t)
  PROVE  /\ InReach(f, CopyTask(b, t))
         /\ \/ data_complete(CopyTask(b, t))
            \/ CopyTask(b, t).copy_from > offset_last_symbol(b)
         /\ \/ data_complete(CopyTask(b, t))
            \/ header_computed(CopyTask(b, t))
            \/ t.offset + AsmLen > offset_last_symbol(b)
<1> DEFINE c == CopyTask(b, t)
<1>1. CASE data_complete(t)
  <2>1. c = t
    BY <1>1, UnservedTask
  <2> QED
    BY <1>1, <2>1 DEF InReach
<1>2. /\ t.copy_from \in Nat /\ t.offset \in Nat /\ AsmLen \in Nat /\ HistoryLen \in Nat
      /\ offset_last_symbol(b) \in Nat /\ offset_start(b) \in Nat /\ b.offset_counter \in Nat
  BY TaskNumbers, LastSymbol, Geometry
<1>3. CASE ~ data_complete(t) /\ ~ Reachable(b, t)
  <2>1. c = t
    BY <1>3, UnservedTask
  <2>2. /\ t.copy_from >= b.offset_counter - HistoryLen
        /\ header_computed(t) \/ t.offset >= b.offset_counter - HistoryLen
    BY <1>3 DEF InReach
  <2>3. t.copy_from >= offset_start(b)
    BY <1>2, <2>2, LastSymbol
  <2>4. CASE header_computed(t)
    <3>1. t.copy_from > offset_last_symbol(b)
      BY <1>2, <1>3, <2>3, <2>4 DEF Reachable
    <3> QED
      BY <2>1, <2>4, <3>1
  <2>5. CASE ~ header_computed(t)
    <3>1. t.offset >= offset_start(b)
      BY <1>2, <2>2, <2>5, LastSymbol
    <3>2. t.offset > offset_last_symbol(b) /\ t.copy_from > offset_last_symbol(b)
      BY <1>2, <1>3, <2>3, <2>5, <3>1 DEF Reachable, PickSmaller
    <3>3. t.offset + AsmLen > offset_last_symbol(b)
      BY <1>2, <3>2
    <3> QED
      BY <2>1, <3>2, <3>3
  <2> QED
    BY <2>4, <2>5
<1>4. CASE ~ data_complete(t) /\ Reachable(b, t)
  <2>1. PICK n \in Nat :
          /\ Len(t.data) + n = OutputLen \/ t.copy_from + n > offset_last_symbol(b)
          /\ Len(c.data) = Len(t.data) + n
          /\ c.copy_from = t.copy_from + n
          /\ c.header = IF ~ header_computed(t) /\ asm_available(b, t)
                        THEN correlation(b, t.offset) ELSE t.header
    BY <1>4, ServedTask
  <2>2. c.offset = t.offset
    BY CopyTaskType
  <2> HIDE DEF c
  <2>3. data_complete(c) \/ c.copy_from > offset_last_symbol(b)
    BY <2>1 DEF data_complete
  <2>4. header_computed(t) => header_computed(c)
    BY <2>1 DEF header_computed
  <2>5. data_complete(c) \/ header_computed(c) \/ t.offset + AsmLen > offset_last_symbol(b)
    <3> SUFFICES ASSUME ~ header_computed(t), ~ (t.offset + AsmLen > offset_last_symbol(b))
                 PROVE  header_computed(c)
      BY <2>4
    <3>1. t.offset >= offset_start(b)
      BY <1>2, <1>4 DEF Reachable, PickSmaller
    <3>2. asm_available(b, t)
      BY <1>2, <3>1 DEF asm_available
    <3>3. c.header = correlation(b, t.offset)
      BY <2>1, <3>2
    <3> QED
      BY <3>2, <3>3, HeaderRead DEF header_computed
  <2>6. InReach(f, c)
    <3>1. t.copy_from >= f /\ (header_computed(t) \/ t.offset >= f)
      BY <1>4 DEF InReach
    <3>2. c.copy_from >= f
      BY <1>2, <2>1, <3>1
    <3> QED
      BY <2>2, <2>4, <3>1, <3>2 DEF InReach
  <2> QED
    BY <2>3, <2>5, <2>6 DEF c
<1> QED
  BY <1>1, <1>3, <1>4

\* A frame longer than its head is not complete before its ASM can be scored.
LEMMA CopyHeaded ==
  ASSUME NEW b \in BufferObject, NEW t \in Task, Short(t), Aligned(t), Headed(t),
         OutputLen > HeadLen
  PROVE  Headed(CopyTask(b, t))
<1> DEFINE c == CopyTask(b, t)
<1>1. CASE data_complete(t) \/ ~ Reachable(b, t)
  BY <1>1, UnservedTask
<1>2. CASE ~ (data_complete(t) \/ ~ Reachable(b, t))
  <2>1. PICK n \in Nat :
          /\ t.copy_from <= offset_last_symbol(b) + 1 => t.copy_from + n <= offset_last_symbol(b) + 1
          /\ t.copy_from > offset_last_symbol(b) => n = 0
          /\ Len(c.data) = Len(t.data) + n
          /\ c.header = IF ~ header_computed(t) /\ asm_available(b, t)
                        THEN correlation(b, t.offset) ELSE t.header
    BY <1>2, ServedTask
  <2> HIDE DEF c
  <2> SUFFICES ASSUME data_complete(c), ~ header_computed(t)
               PROVE  header_computed(c)
    BY <2>1 DEF Headed, header_computed, c
  <2>2. /\ t.copy_from \in Nat /\ t.offset \in Nat /\ AsmLen \in Nat /\ OutputLen \in Nat
        /\ offset_last_symbol(b) \in Nat /\ offset_start(b) \in Nat /\ Len(t.data) \in Nat
    BY TaskNumbers, LastSymbol, Geometry, SyncGeometry
  <2>3. Len(t.data) + n = OutputLen /\ Len(t.data) # OutputLen
    BY <1>2, <2>1 DEF data_complete
  <2>4. t.copy_from + n <= offset_last_symbol(b) + 1
    BY <2>1, <2>2, <2>3
  <2>5. t.copy_from = t.offset + AsmLen - HeadSymbols + Len(t.data)
    BY DEF Aligned, First
  <2>6. HeadSymbols \in Int /\ HeadLen \in Nat /\ HeadSymbols <= HeadLen
    BY SyncGeometry, Geometry DEF HeadLen
  <2>7. t.offset + AsmLen <= offset_last_symbol(b)
    <3>1. t.offset + AsmLen - HeadSymbols + OutputLen <= offset_last_symbol(b) + 1
      BY <2>2, <2>3, <2>4, <2>5, <2>6
    <3>2. OutputLen - HeadSymbols >= 1
      BY <2>2, <2>6
    <3> QED
      BY <2>2, <2>6, <3>1, <3>2
  <2>8. t.offset >= offset_start(b)
    BY <1>2, <2>2 DEF Reachable, PickSmaller
  <2>9. asm_available(b, t)
    BY <2>7, <2>8 DEF asm_available
  <2> QED
    BY <2>1, <2>9, HeaderRead DEF header_computed
<1> QED
  BY <1>1, <1>2

-----------------------------------------------------------------------------
(* A queued task, through reads, passes and rotations *)

\* What holds of a queued task while the buffer starts at oc and n symbols have
\* been read.  Each part but the first needs a condition on the configuration.
Good(oc, n, t) ==
  /\ Aligned(t)
  /\ AsmLen > 1 => Contents(n, t) /\ Seen(n, t)
  /\ HistoryLen > 0 => InReach(oc - HistoryLen, t)
  /\ OutputLen > HeadLen => Headed(t)
  /\ HeadCovered => InReach(oc - FramesBefore * BlockLen, t)

\* With frames before, there is a history.
LEMMA CoveredHistory == HeadCovered => HistoryLen > 0
<1> SUFFICES ASSUME HeadCovered
             PROVE  HistoryLen > 0
  OBVIOUS
<1>1. NumHistoryFrames \in Nat /\ NumHistoryFrames >= 1
  BY Geometry DEF HeadCovered
<1>2. 1 * BlockLen <= NumHistoryFrames * BlockLen
  BY <1>1, TimesMonotone, Geometry
<1> QED
  BY <1>2, Geometry

\* A new task is good in the buffer whose block it comes from.
LEMMA FreshGood ==
  ASSUME NEW p \in Nat, NEW t, Fresh(p, t), NEW oc \in Nat, oc <= p, NEW n \in Nat
  PROVE  Good(oc, n, t)
<1>1. /\ t \in Task /\ t.data = <<>> /\ ~ header_computed(t) /\ Aligned(t)
      /\ t.offset + FramesBefore * BlockLen >= p
  BY DEF Fresh, header_computed
<1>2. Len(t.data) = 0 /\ t.offset \in Nat
  BY <1>1 DEF Task
<1>3. t.copy_from = t.offset + AsmLen - HeadSymbols
  BY <1>1, <1>2, Geometry, SyncGeometry DEF Aligned, First
<1>4. Contents(n, t) /\ Seen(n, t)
  BY <1>1, <1>2 DEF Contents, Seen
<1>5. OutputLen > HeadLen => Headed(t)
  BY <1>2, Geometry, SyncGeometry DEF Headed, data_complete
<1>6. t.offset >= oc - FramesBefore * BlockLen
  BY <1>1, <1>2, SyncGeometry
<1>7. InReach(oc - HistoryLen, t)
  <2>1. HeadSymbols <= HeadLen
    BY SyncGeometry DEF HeadLen
  <2>2. FramesBefore * BlockLen \in Nat /\ HistoryLen = FramesBefore * BlockLen + HeadLen
    BY Geometry, SyncGeometry
  <2>3. t.copy_from >= oc - HistoryLen /\ t.offset >= oc - HistoryLen
    BY <1>2, <1>3, <1>6, <2>1, <2>2, Geometry, SyncGeometry
  <2> QED
    BY <2>3 DEF InReach
<1>8. HeadCovered => InReach(oc - FramesBefore * BlockLen, t)
  <2> SUFFICES ASSUME HeadSymbols <= AsmLen
               PROVE  InReach(oc - FramesBefore * BlockLen, t)
    BY DEF HeadCovered
  <2>1. t.copy_from >= oc - FramesBefore * BlockLen
    BY <1>2, <1>3, <1>6, Geometry, SyncGeometry
  <2> QED
    BY <1>6, <2>1 DEF InReach
<1> QED
  BY <1>1, <1>4, <1>5, <1>7, <1>8 DEF Good

\* A task stays good as symbols are read.
LEMMA ReadGood ==
  ASSUME NEW t \in Task, Short(t), NEW oc \in Nat, NEW n \in Nat, NEW m \in Nat, n <= m,
         Good(oc, n, t)
  PROVE  Good(oc, m, t)
<1>1. AsmLen > 1 => Contents(m, t) /\ Seen(m, t)
  BY SeenGrows DEF Good
<1> QED
  BY <1>1 DEF Good

\* A task stays good in a pass over the queue.
LEMMA CopyGood ==
  ASSUME NEW b \in BufferObject, NEW n \in Nat, AsmLen > 1 => Served(b, n),
         n = b.offset_counter + b.items - HistoryLen,
         NEW t \in Task, Short(t), Good(b.offset_counter, n, t)
  PROVE  Good(b.offset_counter, n, CopyTask(b, t))
<1> DEFINE c == CopyTask(b, t)
<1> USE DEF Good
<1>1. Aligned(c)
  BY CopyAligned
<1>2. AsmLen > 1 => Contents(n, c) /\ Seen(n, c)
  BY CopyContents, CopySeen
<1>3. /\ b.offset_counter - HistoryLen \in Int
      /\ b.offset_counter - FramesBefore * BlockLen \in Int
  BY LastSymbol, Geometry, SyncGeometry
<1>4. HistoryLen > 0 => InReach(b.offset_counter - HistoryLen, c)
  BY <1>3, CopyReach
<1>5. HeadCovered => InReach(b.offset_counter - FramesBefore * BlockLen, c)
  BY <1>3, CopyReach, CoveredHistory
<1>6. OutputLen > HeadLen => Headed(c)
  BY CopyHeaded
<1> HIDE DEF c
<1> QED
  BY <1>1, <1>2, <1>4, <1>5, <1>6 DEF c

\* A task stays good when the buffer is rotated after a pass over a full one:
\* what it still needs has not left the buffer.
LEMMA AdvanceGood ==
  ASSUME NEW b \in BufferObject, full(b), NEW n \in Nat, AsmLen > 1 => Served(b, n),
         n = b.offset_counter + b.items - HistoryLen,
         NEW t \in Task, Short(t), Good(b.offset_counter, n, t)
  PROVE  Good(b.offset_counter + BlockLen, n, CopyTask(b, t))
<1> DEFINE c  == CopyTask(b, t)
           oc == b.offset_counter
<1>1. Good(oc, n, c)
  BY CopyGood
<1>2. oc \in Nat /\ offset_last_symbol(b) = oc + BlockLen + OverlapLen - 1
  BY LastSymbol, Geometry DEF full
<1>3. c \in Task /\ Short(c) /\ c.offset = t.offset /\ c.offset \in Nat
  BY CopyTaskType DEF Task
<1>4. c.copy_from \in Nat
  BY <1>3, CopyAligned, TaskNumbers DEF Good
<1>5. ASSUME HistoryLen > 0
      PROVE  /\ data_complete(c) \/ c.copy_from >= oc + BlockLen
             /\ data_complete(c) \/ header_computed(c) \/ c.offset + 1 >= oc + BlockLen
  <2>1. /\ data_complete(c) \/ c.copy_from > offset_last_symbol(b)
        /\ data_complete(c) \/ header_computed(c) \/ t.offset + AsmLen > offset_last_symbol(b)
    <3>1. InReach(oc - HistoryLen, t) /\ oc - HistoryLen \in Int
      BY <1>2, <1>5, Geometry DEF Good
    <3>2. Aligned(t)
      BY DEF Good
    <3> QED
      BY <3>1, <3>2, CopyReach
  <2> HIDE DEF c, oc
  <2>2. c.copy_from > offset_last_symbol(b) => c.copy_from >= oc + BlockLen
    BY <1>2, <1>4, Geometry
  <2>3. t.offset + AsmLen > offset_last_symbol(b) => c.offset + 1 >= oc + BlockLen
    BY <1>2, <1>3, Geometry
  <2> QED
    BY <2>1, <2>2, <2>3
<1> HIDE DEF c, oc
<1>6. ASSUME HistoryLen > 0, NEW f \in Nat, f > 0
      PROVE  InReach((oc + BlockLen) - f, c)
  <2>1. c.copy_from >= oc + BlockLen => c.copy_from >= (oc + BlockLen) - f
    BY <1>2, <1>4, <1>6, Geometry
  <2>2. c.offset + 1 >= oc + BlockLen => c.offset >= (oc + BlockLen) - f
    BY <1>2, <1>3, <1>6, Geometry
  <2> QED
    BY <1>5, <1>6, <2>1, <2>2 DEF InReach
<1>7. HistoryLen > 0 => InReach((oc + BlockLen) - HistoryLen, c)
  BY <1>6, Geometry
<1>8. HeadCovered => InReach((oc + BlockLen) - FramesBefore * BlockLen, c)
  <2> SUFFICES ASSUME HeadCovered
               PROVE  InReach((oc + BlockLen) - FramesBefore * BlockLen, c)
    OBVIOUS
  <2>1. FramesBefore \in Nat /\ FramesBefore >= 1
    BY Geometry DEF HeadCovered, FramesBefore
  <2>2. 1 * BlockLen <= FramesBefore * BlockLen /\ FramesBefore * BlockLen \in Nat
    BY <2>1, TimesMonotone, Geometry, SyncGeometry
  <2>3. FramesBefore * BlockLen > 0
    BY <2>2, Geometry
  <2> QED
    BY <1>6, <2>2, <2>3, CoveredHistory
<1> QED
  <2>1. Good(oc + BlockLen, n, c)
    <3>1. Aligned(c) /\ (AsmLen > 1 => Contents(n, c) /\ Seen(n, c))
      BY <1>1 DEF Good
    <3>2. OutputLen > HeadLen => Headed(c)
      BY <1>1 DEF Good
    <3> QED
      BY <1>7, <1>8, <3>1, <3>2, Zenon DEF Good
  <2> QED
    BY <2>1 DEF c, oc

\* What a block queues is what was queued before, or fresh.
LEMMA BlockTasks ==
  ASSUME NEW q, NEW pos \in Position, NEW seq \in Nat,
         NEW t \in processBuffer(q, pos, seq)
  PROVE  t \in q \/ Fresh(pos.offset, t)
<1>1. pos.offset \in Nat
  BY DEF Position
<1>2. ASSUME NEW p \in Position, NEW prim \in BOOLEAN, ~ Throws(p),
             p.offset + FramesBefore * BlockLen >= pos.offset
      PROVE  Fresh(pos.offset, NewTask(p, seq, prim))
  <2>1. p.offset \in Nat /\ p.offset >= HeadLen
    BY <1>2, Geometry DEF Position, Throws
  <2>2. Len(<<>>) = 0
    OBVIOUS
  <2> DEFINE u == NewTask(p, seq, prim)
  <2>3. /\ u \in Task /\ u.offset = p.offset /\ u.data = <<>> /\ u.header = NoHeader
        /\ u.copy_from = p.offset + AsmLen - HeadSymbols
    BY NewTaskType DEF NewTask
  <2> HIDE DEF u
  <2>4. Aligned(u)
    BY <2>1, <2>2, <2>3, Geometry, SyncGeometry DEF Aligned, First
  <2> QED
    BY <1>2, <2>3, <2>4 DEF Fresh, u
<1>3. CASE Throws(pos)
  BY <1>3 DEF processBuffer
<1>4. CASE ~ Throws(pos)
  <2>1. \/ t \in q
        \/ t = NewTask(pos, seq, TRUE)
        \/ \E p \in Secondary(pos) : t = NewTask(p, seq, FALSE)
    BY <1>4 DEF processBuffer, QueueSecondary, QueuePrimary
  <2>2. Fresh(pos.offset, NewTask(pos, seq, TRUE))
    <3>1. pos.offset + FramesBefore * BlockLen >= pos.offset
      BY <1>1, SyncGeometry
    <3> QED
      BY <1>2, <1>4, <3>1
  <2>3. ASSUME NEW p \in Secondary(pos)
        PROVE  Fresh(pos.offset, NewTask(p, seq, FALSE))
    <3>1. p \in Position /\ p.offset + FramesBefore * BlockLen >= pos.offset
      BY AroundPositions DEF Secondary
    <3>2. ~ Throws(p)
      <4>1. CASE p \in Before(pos) /\ ~ Throws(p)
        BY <4>1
      <4>2. CASE p \in After(pos)
        <5>1. PICK i \in 1 .. FramesAfter : p = [pos EXCEPT !.offset = pos.offset + i * BlockLen]
          BY <4>2 DEF After
        <5>2. i * BlockLen \in Nat
          BY TimesMonotone, Geometry, SyncGeometry
        <5>3. p.offset = pos.offset + i * BlockLen
          BY <5>1 DEF Position
        <5> QED
          BY <1>1, <1>4, <5>2, <5>3, Geometry DEF Throws
      <4> QED
        BY <4>1, <4>2 DEF Secondary
    <3> QED
      BY <1>2, <3>1, <3>2
  <2> QED
    BY <2>1, <2>2, <2>3
<1> QED
  BY <1>3, <1>4

\* No assertion fails in a pass over good tasks.
LEMMA NothingBroken ==
  ASSUME NEW b \in BufferObject, NEW n \in Nat, NEW q \in SUBSET Task,
         OutputLen > HeadLen, HeadCovered \/ HeadLen = 0,
         \A t \in q : Short(t) /\ Good(b.offset_counter, n, t)
  PROVE  /\ Broken(b, q) = {}
         /\ \A t \in Copied(b, q) : Headed(t)
<1>1. \A t \in Copied(b, q) : Headed(t)
  BY CopyHeaded DEF Good, Copied
<1>2. \A t \in Sent(b, q) : header_computed(t)
  BY <1>1 DEF Sent, Sendable, Headed
<1>3. ASSUME NEW t \in q, NEW p \in SnrLookups(b, t)
      PROVE  localOffset(b, p) >= HeadLen
  <2>1. Aligned(t) /\ Short(t)
    BY DEF Good
  <2>2. /\ t.copy_from \in Nat /\ t.offset \in Nat /\ AsmLen \in Nat /\ HistoryLen \in Nat
        /\ offset_last_symbol(b) \in Nat /\ offset_start(b) \in Nat /\ b.offset_counter \in Nat
    BY <2>1, TaskNumbers, LastSymbol, Geometry
  <2>3. /\ ~ data_complete(t) /\ Reachable(b, t)
        /\ \/ p = t.offset /\ ~ header_computed(t) /\ asm_available(b, t)
           \/ p = t.copy_from /\ to_copy(b, t) > 0
    BY DEF SnrLookups
  <2>4. p \in Nat /\ offset_start(b) <= p /\ p <= offset_last_symbol(b)
    <3>1. CASE p = t.offset /\ ~ header_computed(t) /\ asm_available(b, t)
      BY <2>2, <3>1 DEF asm_available
    <3>2. CASE p = t.copy_from /\ to_copy(b, t) > 0
      <4>1. PICK m \in Nat : /\ m = to_copy(b, t)
                             /\ t.copy_from > offset_last_symbol(b) => m = 0
                             /\ offset_start(b) <= t.copy_from
        BY <2>1, <2>3, ServedTask
      <4> QED
        BY <2>2, <3>2, <4>1
    <3> QED
      BY <2>3, <3>1, <3>2
  <2>5. localOffset(b, p) \in SignalIndex /\ localOffset(b, p) = p + HistoryLen - b.offset_counter
    BY <2>4, ReadInside
  <2>6. CASE HeadLen = 0
    BY <2>5, <2>6, Geometry DEF SignalIndex
  <2>7. CASE HeadCovered
    <3>1. p >= b.offset_counter - FramesBefore * BlockLen
      <4>1. InReach(b.offset_counter - FramesBefore * BlockLen, t)
        BY <2>7 DEF Good
      <4> QED
        BY <2>3, <4>1 DEF InReach
    <3>2. HistoryLen = FramesBefore * BlockLen + HeadLen
      BY Geometry, SyncGeometry
    <3> QED
      BY <2>2, <2>4, <2>5, <3>1, <3>2, Geometry, SyncGeometry
  <2> QED
    BY <2>6, <2>7
<1>4. \A t \in q : \A p \in SnrLookups(b, t) : ~ (localOffset(b, p) < HeadLen)
  <2> TAKE t \in q
  <2> TAKE p \in SnrLookups(b, t)
  <2>1. localOffset(b, p) >= HeadLen
    BY <1>3
  <2>2. t.copy_from \in Int /\ t.offset \in Int
    BY DEF Task
  <2>3. p \in Int
    BY <2>2 DEF SnrLookups
  <2>4. localOffset(b, p) \in Int
    BY <2>3, LastSymbol, Geometry DEF localOffset, MinusCapZero
  <2> QED
    BY <2>1, <2>4, Geometry
<1> QED
  BY <1>1, <1>2, <1>4 DEF Broken

-----------------------------------------------------------------------------
(* The frames that have been sent *)

\* The tasks of the batches of o.
Tasks(o) == UNION {o[i] : i \in 1 .. Len(o)}

LEMMA TasksAppend ==
  ASSUME NEW o \in Seq(SUBSET Task), NEW S \in SUBSET Task
  PROVE  Append(o, S) \in Seq(SUBSET Task) /\ Tasks(Append(o, S)) = Tasks(o) \cup S
<1> DEFINE a == Append(o, S)
<1>1. /\ a \in Seq(SUBSET Task) /\ Len(a) = Len(o) + 1 /\ Len(o) \in Nat
      /\ \A i \in 1 .. Len(o) : a[i] = o[i]
      /\ a[Len(o) + 1] = S
  OBVIOUS
<1> HIDE DEF a
<1>2. 1 .. Len(a) = (1 .. Len(o)) \cup {Len(o) + 1}
  BY <1>1
<1>3. Tasks(a) = Tasks(o) \cup S
  BY <1>1, <1>2 DEF Tasks
<1> QED
  BY <1>1, <1>3 DEF a

LEMMA TasksPublish ==
  ASSUME out \in Seq(SUBSET Task), NEW S \in SUBSET Task
  PROVE  Publish(S) \in Seq(SUBSET Task) /\ Tasks(Publish(S)) = Tasks(out) \cup S
<1>1. CASE S = {}
  BY <1>1 DEF Publish
<1>2. CASE S # {}
  BY <1>2, TasksAppend DEF Publish
<1> QED
  BY <1>1, <1>2

\* What holds of a frame that has been sent while blocks may still come.
SentGood(n, t) ==
  /\ data_complete(t) /\ Aligned(t)
  /\ AsmLen > 1 => Contents(n, t) /\ Seen(n, t)

\* Every position of F has its primary frame in S, and every position
\* known in advance a frame.
AllIn(F, S) ==
  /\ \A pos \in F : \E t \in S : Matches(t, pos) /\ t.primary
  /\ \A pos \in AdditionalAsm : \E t \in S : Matches(t, pos)

\* A primary frame replaces another of its position, which it then stands for;
\* nothing else leaves the queue for a new frame.
LEMMA BlockKeeps ==
  ASSUME NEW q \in SUBSET Task, NEW pos \in Position, NEW seq \in Nat, ~ Throws(pos)
  PROVE  /\ \E t \in processBuffer(q, pos, seq) : Matches(t, pos) /\ t.primary
         /\ \A s \in q : \E t \in processBuffer(q, pos, seq) :
              t.offset = s.offset /\ t.ambiguity = s.ambiguity /\ (s.primary => t.primary)
<1> DEFINE prim == NewTask(pos, seq, TRUE)
<1>1. prim.offset = pos.offset /\ prim.ambiguity = pos.ambiguity /\ prim.primary
  BY DEF NewTask
<1>2. prim \in processBuffer(q, pos, seq)
  BY DEF processBuffer, QueueSecondary, QueuePrimary
<1>3. \A s \in q : ~ Matches(s, prim) => s \in processBuffer(q, pos, seq)
  BY DEF processBuffer, QueueSecondary, QueuePrimary
<1> HIDE DEF prim
<1> QED
  BY <1>1, <1>2, <1>3 DEF Matches

\* A pass keeps every frame, among those that are sent and those that remain.
LEMMA PassKeeps ==
  ASSUME NEW b \in BufferObject, NEW q \in SUBSET Task, NEW S, NEW F,
         \A t \in q : Short(t) /\ Aligned(t), AllIn(F, q \cup S)
  PROVE  /\ AllIn(F, Copied(b, q) \cup S)
         /\ Copied(b, q) = Sent(b, q) \cup Remaining(b, q)
<1>1. \A t \in q : /\ CopyTask(b, t) \in Copied(b, q)
                   /\ CopyTask(b, t).offset = t.offset
                   /\ CopyTask(b, t).ambiguity = t.ambiguity
                   /\ CopyTask(b, t).primary = t.primary
  BY CopyTaskType, CopyAligned DEF Copied
<1>2. \A pos : \A t \in q : Matches(t, pos) => Matches(CopyTask(b, t), pos)
  BY <1>1 DEF Matches
<1>3. AllIn(F, Copied(b, q) \cup S)
  BY <1>1, <1>2 DEF AllIn
<1>4. Copied(b, q) = Sent(b, q) \cup Remaining(b, q)
  BY DEF Sent, Remaining
<1> QED
  BY <1>3, <1>4

-----------------------------------------------------------------------------
(* The steps, for the contents of the frames *)

\* What the buffer and the tasks satisfy while blocks may still come.
Running ==
  /\ SignalPlaced(buf, nitems_read) /\ CorrelationPlaced(buf) /\ OverlapKept
  /\ \A t \in queue : Good(buf.offset_counter, nitems_read, t)
  /\ \A t \in Tasks(out) : SentGood(nitems_read, t)
  /\ AllIn(found, queue \cup Tasks(out))

(* What holds of the frames in every reachable state, added to SyncInv.  The *)
(* conditions say for which configurations the code keeps the property.     *)
TasksInv ==
  /\ status \in {"idle", "work"} => Running
  /\ status \in {"stopped", "failed"} /\ AsmLen > 1 => FrameContents
  /\ HistoryLen > 0 => NothingOverdue /\ FramesDelivered
  /\ OutputLen > HeadLen /\ (HeadCovered \/ HeadLen = 0) => AssertionsUntilStop

\* A buffer in which every symbol is in place can serve the queue.
LEMMA PlacedServed ==
  ASSUME NEW b \in BufferObject, NEW n \in Nat, SignalPlaced(b, n), CorrelationPlaced(b),
         b.offset_counter > 0 => b.items >= HistoryLen + OverlapLen
  PROVE  /\ n = b.offset_counter + b.items - HistoryLen
         /\ AsmLen > 1 => Served(b, n)
<1>1. n = b.offset_counter + b.items - HistoryLen
  BY DEF SignalPlaced
<1>2. ASSUME AsmLen > 1
      PROVE  Served(b, n)
  <2>1. b.offset_counter > 0 => b.items > HistoryLen
    BY <1>2, LastSymbol, Geometry
  <2>2. ASSUME NEW i \in SignalIndex, i < b.items
        PROVE  b.signal[i] = ExpectedAt(n, SymbolAt(b, i))
    <3>1. b.signal[i] = SymbolAt(b, i)
      BY <2>2 DEF SignalPlaced
    <3>2. i \in Nat
      BY Geometry DEF SignalIndex
    <3>3. SymbolAt(b, i) < n
      BY <1>1, <2>2, <3>2, LastSymbol, Geometry DEF SymbolAt, Zero
    <3> QED
      BY <3>1, <3>3 DEF ExpectedAt
  <2> QED
    BY <2>1, <2>2 DEF Served
<1> QED
  BY <1>1, <1>2

\* The fill of stop() leaves a buffer that can still serve the queue.
LEMMA FilledServed ==
  ASSUME NEW b \in BufferObject, NEW n \in Nat, SignalPlaced(b, n), CorrelationPlaced(b),
         b.items > HistoryLen,
         NEW fill \in Seq(Symbol), \A k \in 1 .. Len(fill) : fill[k] = Zero, NEW e \in Nat
  PROVE  /\ Served(read_signal(b, fill, e), n)
         /\ n <= read_signal(b, fill, e).offset_counter + read_signal(b, fill, e).items - HistoryLen
<1> DEFINE num == PickSmaller(Len(fill), num_symbols_missing(b))
           r   == read_signal(b, fill, e)
<1>1. num \in Nat /\ num <= Len(fill) /\ b.items + num \in HistoryLen .. BufferLen
  BY ReadCount
<1>2. /\ b.items \in Nat /\ b.offset_counter \in Nat /\ HistoryLen \in Nat
      /\ n = b.offset_counter + b.items - HistoryLen
  BY Geometry DEF BufferObject, SignalPlaced
<1>3. /\ r.items = b.items + num
      /\ r.offset_counter = b.offset_counter
      /\ \A i \in SignalIndex :
           r.signal[i] = IF b.items <= i /\ i < b.items + num
                         THEN fill[i - b.items + 1] ELSE b.signal[i]
  BY DEF read_signal
<1>4. CorrelationPlaced(r)
  BY ReadCorrelation
<1> HIDE DEF num, r
<1>5. ASSUME NEW i \in SignalIndex, i < r.items
      PROVE  r.signal[i] = ExpectedAt(n, SymbolAt(r, i))
  <2>0. i \in Nat
    BY Geometry DEF SignalIndex
  <2>1. SymbolAt(r, i) = SymbolAt(b, i)
    BY <1>3 DEF SymbolAt
  <2>2. CASE i < b.items
    <3>0. ~ (b.items <= i)
      BY <1>2, <2>0, <2>2
    <3>3. r.signal[i] = b.signal[i]
      BY <1>3, <3>0
    <3>4. b.signal[i] = SymbolAt(b, i)
      BY <2>2 DEF SignalPlaced
    <3>1. r.signal[i] = SymbolAt(b, i)
      BY <3>3, <3>4
    <3>2. SymbolAt(b, i) < n
      <4>1. CASE b.offset_counter + i >= HistoryLen
        BY <1>2, <2>0, <2>2, <4>1 DEF SymbolAt
      <4>2. CASE ~ (b.offset_counter + i >= HistoryLen)
        BY <4>2 DEF SymbolAt, Zero
      <4> QED
        BY <4>1, <4>2
    <3> QED
      BY <2>1, <3>1, <3>2 DEF ExpectedAt
  <2>3. CASE b.items <= i
    <3>1. i - b.items + 1 \in 1 .. Len(fill)
      BY <1>1, <1>2, <1>3, <1>5, <2>0, <2>3
    <3>2. r.signal[i] = Zero
      BY <1>3, <1>5, <2>3, <3>1
    <3>3. ~ (SymbolAt(b, i) < n)
      BY <1>2, <2>0, <2>3 DEF SymbolAt
    <3> QED
      BY <2>1, <3>2, <3>3 DEF ExpectedAt
  <2> QED
    BY <1>2, <2>0, <2>2, <2>3
<1>6. r.items > HistoryLen /\ n <= r.offset_counter + r.items - HistoryLen
  BY <1>1, <1>2, <1>3
<1> QED
  BY <1>4, <1>5, <1>6 DEF Served, r

\* One pass over a queue of good tasks.
LEMMA PassGood ==
  ASSUME NEW b \in BufferObject, NEW n \in Nat, AsmLen > 1 => Served(b, n),
         n = b.offset_counter + b.items - HistoryLen,
         NEW q, GoodQueue(q), \A t \in q : Good(b.offset_counter, n, t)
  PROVE  /\ \A t \in Copied(b, q) : t \in Task /\ Short(t) /\ Good(b.offset_counter, n, t)
         /\ \A t \in Sent(b, q) : SentGood(n, t)
         /\ full(b) => \A t \in Copied(b, q) : Good(b.offset_counter + BlockLen, n, t)
<1>1. \A t \in q : t \in Task /\ Short(t)
  BY DEF GoodQueue
<1>2. \A t \in Copied(b, q) : t \in Task /\ Short(t) /\ Good(b.offset_counter, n, t)
  <2> TAKE t \in Copied(b, q)
  <2>1. PICK u \in q : t = CopyTask(b, u)
    BY DEF Copied
  <2>2. u \in Task /\ Short(u) /\ Good(b.offset_counter, n, u)
    BY <1>1
  <2>3. Good(b.offset_counter, n, CopyTask(b, u))
    BY <2>2, CopyGood
  <2>4. CopyTask(b, u) \in Task /\ Short(CopyTask(b, u))
    BY <2>2, CopyTaskType
  <2> QED
    BY <2>1, <2>3, <2>4
<1>3. \A t \in Sent(b, q) : SentGood(n, t)
  BY <1>2 DEF Sent, Sendable, Good, SentGood
<1>4. ASSUME full(b), NEW t \in Copied(b, q)
      PROVE  Good(b.offset_counter + BlockLen, n, t)
  <2>1. PICK u \in q : t = CopyTask(b, u)
    BY DEF Copied
  <2>2. u \in Task /\ Short(u) /\ Good(b.offset_counter, n, u)
    BY <1>1
  <2>3. Good(b.offset_counter + BlockLen, n, CopyTask(b, u))
    BY <1>4, <2>2, AdvanceGood
  <2> QED
    BY <2>1, <2>3
<1> QED
  BY <1>2, <1>3, <1>4

\* Contents of all tasks make FrameContents, after a step.
LEMMA ContentsNext ==
  ASSUME \A t \in queue' \cup Tasks(out') :
           t.offset \in Nat /\ Short(t) /\ Contents(nitems_read', t)
  PROVE  FrameContents'
<1> SUFFICES ASSUME NEW t \in queue' \cup Tasks(out')
             PROVE  HoldsItsSymbols(t)' /\ ScoredOnOwnAsm(t)'
  BY DEF FrameContents, Tasks
<1>1. t.offset \in Nat /\ Short(t) /\ Contents(nitems_read', t)
  OBVIOUS
<1>2. t.offset >= 0
  BY <1>1
<1>3. HoldsItsSymbols(t)'
  BY <1>1, <1>2 DEF HoldsItsSymbols, Expected, Contents, ExpectedAt, First, Short
<1>4. ScoredOnOwnAsm(t)'
  BY <1>1 DEF ScoredOnOwnAsm, Expected, Contents, ExpectedAt
<1> QED
  BY <1>3, <1>4

\* When stop() flushes the queue, every frame holds what it should hold, and
\* every symbol received for a frame has been sent with it.
LEMMA FlushTasks ==
  ASSUME NEW b \in BufferObject, nitems_read \in Nat,
         nitems_read <= b.offset_counter + b.items - HistoryLen,
         AsmLen > 1 => Served(b, nitems_read),
         NEW q, GoodQueue(q), GoodOut(out),
         \A t \in q : Good(b.offset_counter, nitems_read, t),
         \A t \in Tasks(out) : SentGood(nitems_read, t),
         AllIn(found', q \cup Tasks(out)),
         Flush(b, q)
  PROVE  /\ AsmLen > 1 => FrameContents'
         /\ HistoryLen > 0 => FramesDelivered'
<1> DEFINE C       == Copied(b, q)
           rest    == Remaining(b, q)
           sent    == Sent(b, q)
           first   == Publish(sent)
           flushed == {t \in rest : t.data # <<>>}
<1>1. /\ out' = IF flushed = {} THEN first ELSE Append(first, flushed)
      /\ queue' = rest \ flushed
      /\ nitems_read' = nitems_read
  BY DEF Flush
<1>2. q \in SUBSET Task /\ \A t \in q : Short(t) /\ Aligned(t)
  BY DEF GoodQueue, Good
<1>3. out \in Seq(SUBSET Task)
  BY DEF GoodOut
<1>4. C = sent \cup rest /\ AllIn(found', C \cup Tasks(out))
  BY <1>2, PassKeeps
<1>5. ASSUME NEW c \in C
      PROVE  /\ c \in Task /\ Short(c) /\ Aligned(c)
             /\ AsmLen > 1 => Contents(nitems_read, c)
             /\ HistoryLen > 0 => data_complete(c) \/ c.copy_from > offset_last_symbol(b)
  <2>1. PICK t \in q : c = CopyTask(b, t)
    BY DEF Copied
  <2>2. t \in Task /\ Short(t) /\ Aligned(t) /\ Good(b.offset_counter, nitems_read, t)
    BY <1>2
  <2>3. c \in Task /\ Short(c) /\ Aligned(c)
    BY <2>1, <2>2, CopyTaskType, CopyAligned
  <2>4. AsmLen > 1 => Contents(nitems_read, c)
    BY <2>1, <2>2, CopyContents DEF Good
  <2>5. b.offset_counter - HistoryLen \in Int
    BY LastSymbol, Geometry
  <2>6. HistoryLen > 0 => data_complete(c) \/ c.copy_from > offset_last_symbol(b)
    BY <2>1, <2>2, <2>5, CopyReach DEF Good
  <2> QED
    BY <2>3, <2>4, <2>6
<1> HIDE DEF C, rest, sent
<1>6. flushed \in SUBSET Task /\ sent \in SUBSET Task /\ queue' \in SUBSET Task
  BY <1>1, <1>4, <1>5
<1>7. Tasks(out') = Tasks(out) \cup sent \cup flushed
  <2>1. first \in Seq(SUBSET Task) /\ Tasks(first) = Tasks(out) \cup sent
    BY <1>3, <1>6, TasksPublish
  <2> HIDE DEF first, flushed
  <2>2. CASE flushed = {}
    BY <1>1, <2>1, <2>2
  <2>3. CASE flushed # {}
    BY <1>1, <1>6, <2>1, <2>3, TasksAppend
  <2> QED
    BY <2>2, <2>3
<1>8. \A t \in Tasks(out) : t \in Task
  BY <1>3 DEF Tasks
<1>9. ASSUME AsmLen > 1
      PROVE  FrameContents'
  <2> SUFFICES ASSUME NEW t \in queue' \cup Tasks(out')
               PROVE  t.offset \in Nat /\ Short(t) /\ Contents(nitems_read', t)
    BY ContentsNext
  <2>1. CASE t \in C
    BY <1>1, <1>5, <1>9, <2>1 DEF Task
  <2>2. CASE t \in Tasks(out)
    BY <1>1, <1>8, <1>9, <2>2, SyncGeometry DEF SentGood, data_complete, Short, Task
  <2>3. t \in C \/ t \in Tasks(out)
    BY <1>1, <1>4, <1>7
  <2> QED
    BY <2>1, <2>2, <2>3
<1>10. ASSUME HistoryLen > 0
       PROVE  FramesDelivered'
  <2>1. ASSUME NEW t \in C \cup Tasks(out), NEW pos, Matches(t, pos), Received(pos)' > 0
        PROVE  t \in Tasks(out') /\ Len(t.data) >= Received(pos)'
    <3>1. Received(pos)' = PickSmaller(OutputLen, MinusCapZero(nitems_read, First(t)))
      BY <1>1, <2>1 DEF Received, First, Matches
    <3>2. t \in Task /\ Short(t) /\ Aligned(t)
      BY <1>5, <1>8, SyncGeometry DEF SentGood, data_complete, Short
    <3>3. /\ First(t) \in Nat /\ Len(t.data) \in Nat /\ t.copy_from = First(t) + Len(t.data)
          /\ data_complete(t) <=> Len(t.data) = OutputLen
      BY <3>2, TaskNumbers
    <3>4. Len(t.data) >= Received(pos)'
      <4>1. CASE data_complete(t)
        BY <3>1, <3>3, <4>1, SyncGeometry DEF PickSmaller, MinusCapZero
      <4>2. CASE ~ data_complete(t)
        <5>1. t.copy_from > offset_last_symbol(b)
          BY <1>5, <1>10, <4>2 DEF SentGood
        <5>2. First(t) + Len(t.data) >= nitems_read
          BY <3>3, <5>1, LastSymbol, Geometry
        <5> QED
          BY <3>1, <3>3, <5>2, SyncGeometry DEF PickSmaller, MinusCapZero
      <4> QED
        BY <4>1, <4>2
    <3>5. t.data # <<>>
      <4>1. Received(pos)' \in Nat
        BY <3>1, <3>3, SyncGeometry DEF PickSmaller, MinusCapZero
      <4>2. Len(t.data) # 0
        BY <2>1, <3>3, <3>4, <4>1
      <4> QED
        BY <4>2
    <3>6. t \in Tasks(out')
      BY <1>4, <1>7, <3>5
    <3> QED
      BY <3>4, <3>6
  <2>2. SentTasks' = Tasks(out')
    BY DEF SentTasks, Tasks
  <2>3. ASSUME NEW pos \in found', Received(pos)' > 0
        PROVE  \E t \in SentTasks' : Matches(t, pos) /\ t.primary /\ Len(t.data) >= Received(pos)'
    BY <1>4, <2>1, <2>2, <2>3 DEF AllIn
  <2>4. ASSUME NEW pos \in AdditionalAsm, Received(pos)' > 0
        PROVE  \E t \in SentTasks' : Matches(t, pos)
    BY <1>4, <2>1, <2>2, <2>4 DEF AllIn
  <2> QED
    BY <2>3, <2>4 DEF FramesDelivered
<1> QED
  BY <1>9, <1>10

\* A frame that has been sent stays what it should be as symbols are read.
LEMMA ReadSent ==
  ASSUME NEW t \in Task, NEW n \in Nat, NEW m \in Nat, n <= m, SentGood(n, t)
  PROVE  SentGood(m, t)
<1>1. Short(t)
  BY SyncGeometry DEF SentGood, data_complete, Short
<1> QED
  BY <1>1, SeenGrows DEF SentGood

\* After a search, every task is good, whether it was queued before or is new.
LEMMA BlockGood ==
  ASSUME NEW oc \in Nat, NEW n \in Nat, NEW m \in Nat, n <= m,
         NEW q, GoodQueue(q), \A t \in q : Good(oc, n, t),
         NEW pos \in Position, pos.offset >= oc, NEW seq \in Nat
  PROVE  \A t \in processBuffer(q, pos, seq) : Good(oc, m, t)
<1> SUFFICES ASSUME NEW t \in processBuffer(q, pos, seq)
             PROVE  Good(oc, m, t)
  OBVIOUS
<1>1. CASE t \in q
  BY <1>1, ReadGood DEF GoodQueue
<1>2. CASE Fresh(pos.offset, t)
  <2>1. pos.offset \in Nat
    BY DEF Position
  <2> QED
    BY <1>2, <2>1, FreshGood
<1> QED
  BY <1>1, <1>2, BlockTasks

\* After a search, the queue has the primary frame of the position found too.
LEMMA BlockFound ==
  ASSUME NEW q \in SUBSET Task, NEW S, NEW F, AllIn(F, q \cup S),
         NEW pos \in Position, NEW seq \in Nat, ~ Stops(pos)
  PROVE  AllIn(F \cup {pos}, processBuffer(q, pos, seq) \cup S)
<1> DEFINE r == processBuffer(q, pos, seq)
<1>1. ~ Throws(pos)
  BY DEF Stops
<1>2. \E t \in r : Matches(t, pos) /\ t.primary
  BY <1>1, BlockKeeps
<1>3. \A s \in q : \E t \in r :
        t.offset = s.offset /\ t.ambiguity = s.ambiguity /\ (s.primary => t.primary)
  BY <1>1, BlockKeeps
<1> HIDE DEF r
<1>4. ASSUME NEW p, NEW s \in q \cup S, Matches(s, p)
      PROVE  \E t \in r \cup S : Matches(t, p) /\ (s.primary => t.primary)
  BY <1>3, <1>4 DEF Matches
<1>5. \A p \in F : \E t \in r \cup S : Matches(t, p) /\ t.primary
  BY <1>4 DEF AllIn
<1>6. \A p \in AdditionalAsm : \E t \in r \cup S : Matches(t, p)
  BY <1>4 DEF AllIn
<1> QED
  BY <1>2, <1>5, <1>6 DEF AllIn, r

\* While blocks may still come, a queue of good tasks has the contents it should.
LEMMA RunningContents ==
  ASSUME SyncInv, Running, AsmLen > 1
  PROVE  FrameContents
<1>1. \A t \in queue \cup Tasks(out) :
        t.offset \in Nat /\ Short(t) /\ Contents(nitems_read, t)
  <2>1. \A t \in Tasks(out) : t \in Task
    BY DEF SyncInv, GoodOut, Tasks
  <2>2. ASSUME NEW t \in queue
        PROVE  t.offset \in Nat /\ Short(t) /\ Contents(nitems_read, t)
    BY DEF SyncInv, Running, GoodQueue, Good, Task
  <2>3. ASSUME NEW t \in Tasks(out)
        PROVE  t.offset \in Nat /\ Short(t) /\ Contents(nitems_read, t)
    BY <2>1, SyncGeometry DEF Running, SentGood, Task, data_complete, Short
  <2> QED
    BY <2>2, <2>3
<1> SUFFICES ASSUME NEW t \in queue \cup Tasks(out)
             PROVE  HoldsItsSymbols(t) /\ ScoredOnOwnAsm(t)
  BY DEF FrameContents, Tasks
<1>2. t.offset \in Nat /\ Short(t) /\ Contents(nitems_read, t) /\ t.offset >= 0
  BY <1>1
<1> QED
  BY <1>2 DEF HoldsItsSymbols, ScoredOnOwnAsm, Expected, Contents, ExpectedAt, First, Short

\* After a last pass over the queue, no frame is overdue.
LEMMA PassOverdue ==
  ASSUME SyncInv, Running, HistoryLen > 0, NEW t \in Remaining(buf, queue)
  PROVE  \/ t.offset + FramesBefore * BlockLen >= offset(buf)
         \/ t.offset + AsmLen - HeadSymbols + OutputLen > nitems_read
<1>1. PICK u \in queue : t = CopyTask(buf, u)
  BY DEF Remaining, Copied
<1>2. buf \in BufferObject /\ u \in Task /\ Short(u) /\ Good(buf.offset_counter, nitems_read, u)
  BY DEF SyncInv, BufferTypeOK, GoodQueue, Running
<1>3. t \in Task /\ Short(t) /\ Aligned(t)
  BY <1>1, <1>2, CopyTaskType, CopyAligned DEF Good
<1>4. /\ t.offset \in Nat /\ First(t) \in Nat /\ Len(t.data) \in Nat
      /\ t.copy_from = First(t) + Len(t.data) /\ Len(t.data) <= OutputLen
      /\ data_complete(t) <=> Len(t.data) = OutputLen
      /\ First(t) = t.offset + AsmLen - HeadSymbols
  BY <1>3, TaskNumbers
<1>5. buf.offset_counter \in Nat /\ offset_last_symbol(buf) \in Nat
      /\ buf.offset_counter - HistoryLen \in Int
  BY <1>2, LastSymbol, Geometry
<1>6. CASE data_complete(t)
  <2>1. ~ (t.offset < MinusCapZero(buf.offset_counter, FramesBefore * BlockLen))
    BY <1>6 DEF Remaining, Sendable, indx_threshold, offset
  <2> QED
    BY <1>4, <1>5, <2>1, SyncGeometry DEF MinusCapZero, offset
<1>7. CASE ~ data_complete(t)
  <2>1. t.copy_from > offset_last_symbol(buf)
    BY <1>1, <1>2, <1>5, <1>7, CopyReach DEF Good
  <2>2. nitems_read = buf.offset_counter + buf.items - HistoryLen
    BY DEF Running, SignalPlaced
  <2>3. First(t) + Len(t.data) >= nitems_read
    BY <1>2, <1>4, <2>1, <2>2, LastSymbol, Geometry
  <2>4. nitems_read \in Nat
    BY DEF SyncInv, BufferTypeOK
  <2>5. First(t) + OutputLen > nitems_read
    BY <1>4, <1>7, <2>3, <2>4, SyncGeometry
  <2> QED
    BY <1>4, <2>5
<1> QED
  BY <1>6, <1>7

LEMMA TasksInitInv == Init => TasksInv
<1> SUFFICES ASSUME Init
             PROVE  TasksInv
  OBVIOUS
<1>1. /\ buf = NewBuffer /\ nitems_read = 0 /\ status = "idle" /\ out = <<>> /\ found = {}
      /\ violated = {} /\ buf.offset_counter = 0
      /\ queue = {NewTask(pos, SEQUENCE_UNUSED, FALSE) : pos \in AdditionalAsm}
  BY DEF Init, BufferInit, NewBuffer
<1>2. ASSUME NEW t \in queue
      PROVE  Good(buf.offset_counter, nitems_read, t) /\ t.offset \in Nat
  <2>1. PICK pos \in AdditionalAsm : t = NewTask(pos, SEQUENCE_UNUSED, FALSE)
    BY <1>1
  <2>2. pos \in Position /\ pos.offset \in Nat /\ pos.offset >= HeadLen
    BY FrameSyncAssumption DEF Position
  <2>3. /\ t \in Task /\ t.offset = pos.offset /\ t.data = <<>> /\ t.header = NoHeader
        /\ t.copy_from = pos.offset + AsmLen - HeadSymbols
    BY <2>1, <2>2, NewTaskType DEF NewTask, SEQUENCE_UNUSED
  <2>4. Len(t.data) = 0
    BY <2>3
  <2>5. Aligned(t)
    BY <2>2, <2>3, <2>4, Geometry, SyncGeometry DEF Aligned, First
  <2>6. t.offset + FramesBefore * BlockLen >= 0
    BY <2>2, <2>3, SyncGeometry
  <2>7. Fresh(0, t)
    BY <2>3, <2>5, <2>6 DEF Fresh
  <2>8. Good(0, 0, t)
    BY <2>7, FreshGood
  <2>9. Good(buf.offset_counter, nitems_read, t)
    BY <1>1, <2>8, Zenon
  <2> QED
    BY <2>2, <2>3, <2>9
<1>3. Tasks(out) = {}
  BY <1>1 DEF Tasks
<1>4. AllIn(found, queue \cup Tasks(out))
  <2>1. ASSUME NEW pos \in AdditionalAsm
        PROVE  \E t \in queue : Matches(t, pos)
    <3>1. NewTask(pos, SEQUENCE_UNUSED, FALSE) \in queue
      BY <1>1
    <3>2. Matches(NewTask(pos, SEQUENCE_UNUSED, FALSE), pos)
      BY DEF Matches, NewTask
    <3> QED
      BY <3>1, <3>2
  <2> QED
    BY <1>1, <2>1 DEF AllIn
<1>5. Running
  <2>1. SignalPlaced(buf, nitems_read) /\ CorrelationPlaced(buf)
    BY <1>1, NewBufferInPlace, Zenon
  <2>2. OverlapKept
    BY <1>1 DEF OverlapKept
  <2> QED
    BY <1>2, <1>3, <1>4, <2>1, <2>2 DEF Running
<1>6. NothingOverdue
  <2>1. offset(buf) = 0
    BY <1>1 DEF offset
  <2>2. \A t \in queue : t.offset + FramesBefore * BlockLen >= offset(buf)
    BY <1>2, <2>1, SyncGeometry
  <2> QED
    BY <2>2 DEF NothingOverdue
<1> QED
  BY <1>1, <1>5, <1>6 DEF TasksInv, FramesDelivered, AssertionsUntilStop

\* A read of the input without a search.
LEMMA TasksPartial ==
  ASSUME SyncInv, TasksInv, WorkPartial
  PROVE  Running'
<1>1. /\ buf \in BufferObject /\ nitems_read \in Nat /\ todo \in Nat
      /\ GoodQueue(queue) /\ GoodOut(out) /\ Running
  BY DEF SyncInv, BufferTypeOK, TasksInv, WorkPartial
<1>2. /\ buf' = read_signal(buf, Input(todo), nitems_read + todo)
      /\ nitems_read' = nitems_read + todo
      /\ queue' = queue /\ out' = out /\ found' = found
      /\ todo < num_symbols_missing(buf)
  BY DEF WorkPartial
<1>3. /\ Input(todo) \in Seq(Symbol) /\ Len(Input(todo)) = todo
      /\ \A k \in 1 .. todo : Input(todo)[k] = nitems_read + k - 1
      /\ nitems_read + todo \in Nat
  BY <1>1, InputSymbols
<1>4. PickSmaller(Len(Input(todo)), num_symbols_missing(buf)) = todo
  BY <1>2, <1>3 DEF PickSmaller
<1>5. SignalPlaced(buf', nitems_read')
  BY <1>1, <1>2, <1>3, <1>4, ReadPlaced DEF Running
<1>6. CorrelationPlaced(buf')
  BY <1>1, <1>2, <1>3, ReadCorrelation DEF Running
<1>7. buf'.offset_counter = buf.offset_counter /\ buf'.items = buf.items + todo
  BY <1>2, <1>4 DEF read_signal
<1>8. OverlapKept'
  BY <1>1, <1>7, LastSymbol, Geometry DEF Running, OverlapKept
<1>9. \A t \in queue' : Good(buf'.offset_counter, nitems_read', t)
  <2>1. buf.offset_counter \in Nat
    BY <1>1, LastSymbol
  <2> QED
    BY <1>1, <1>2, <1>3, <1>7, <2>1, ReadGood DEF GoodQueue, Running
<1>10. \A t \in Tasks(out') : SentGood(nitems_read', t)
  <2>1. \A t \in Tasks(out) : t \in Task
    BY <1>1 DEF GoodOut, Tasks
  <2> QED
    BY <1>1, <1>2, <1>3, <2>1, ReadSent DEF Running
<1>11. AllIn(found', queue' \cup Tasks(out'))
  BY <1>1, <1>2 DEF Running
<1> QED
  BY <1>5, <1>6, <1>8, <1>9, <1>10, <1>11 DEF Running

\* The last pass over the queue of a call.
LEMMA TasksReturn ==
  ASSUME SyncInv, TasksInv, WorkReturn
  PROVE  Running' /\ (HistoryLen > 0 => NothingOverdue')
<1>1. /\ buf \in BufferObject /\ nitems_read \in Nat
      /\ GoodQueue(queue) /\ GoodOut(out) /\ Running
  BY DEF SyncInv, BufferTypeOK, TasksInv, WorkReturn
<1>2. /\ buf' = buf /\ nitems_read' = nitems_read /\ found' = found
      /\ out' = Publish(Sent(buf, queue)) /\ queue' = Remaining(buf, queue)
  BY DEF WorkReturn, bufferVars
<1>3. queue \in SUBSET Task /\ \A t \in queue : Short(t) /\ Aligned(t)
  BY <1>1 DEF GoodQueue, Running, Good
<1>4. /\ AsmLen > 1 => Served(buf, nitems_read)
      /\ nitems_read = buf.offset_counter + buf.items - HistoryLen
  BY <1>1, PlacedServed DEF Running, OverlapKept
<1>5. \A t \in queue : Good(buf.offset_counter, nitems_read, t)
  BY <1>1 DEF Running
<1>6. /\ \A t \in Copied(buf, queue) : t \in Task /\ Good(buf.offset_counter, nitems_read, t)
      /\ \A t \in Sent(buf, queue) : SentGood(nitems_read, t)
  BY <1>1, <1>4, <1>5, PassGood
<1>7. /\ Copied(buf, queue) = Sent(buf, queue) \cup Remaining(buf, queue)
      /\ AllIn(found, Copied(buf, queue) \cup Tasks(out))
  BY <1>1, <1>3, PassKeeps DEF Running
<1>8. Tasks(out') = Tasks(out) \cup Sent(buf, queue)
  <2>1. Sent(buf, queue) \in SUBSET Task /\ out \in Seq(SUBSET Task)
    BY <1>1, <1>6, <1>7 DEF GoodOut
  <2> QED
    BY <1>2, <2>1, TasksPublish
<1>9. Running'
  <2>1. \A t \in queue' : Good(buf'.offset_counter, nitems_read', t)
    BY <1>2, <1>6, <1>7
  <2>2. \A t \in Tasks(out') : SentGood(nitems_read', t)
    BY <1>1, <1>2, <1>6, <1>8 DEF Running
  <2>3. AllIn(found', queue' \cup Tasks(out'))
    <3>1. queue' \cup Tasks(out') = Copied(buf, queue) \cup Tasks(out)
      BY <1>2, <1>7, <1>8
    <3> QED
      BY <1>2, <1>7, <3>1
  <2>4. (SignalPlaced(buf, nitems_read) /\ CorrelationPlaced(buf) /\ OverlapKept)'
    BY <1>1, <1>2 DEF Running, OverlapKept, SignalPlaced, CorrelationPlaced
  <2> QED
    BY <2>1, <2>2, <2>3, <2>4 DEF Running
<1>10. ASSUME HistoryLen > 0
       PROVE  NothingOverdue'
  BY <1>1, <1>2, <1>10, PassOverdue DEF NothingOverdue, offset
<1> QED
  BY <1>9, <1>10

\* A search: a full block, or what is left at stop().  The queue that goes into
\* the pass is good, and has the position found.
LEMMA TasksSearch ==
  ASSUME SyncInv, Running, NEW m \in Nat, nitems_read <= m,
         NEW pos \in Position, pos.offset >= buf.offset_counter
  PROVE  /\ GoodQueue(processBuffer(queue, pos, sequence + 1))
         /\ \A t \in processBuffer(queue, pos, sequence + 1) : Good(buf.offset_counter, m, t)
         /\ \A t \in Tasks(out) : t \in Task /\ SentGood(m, t)
         /\ ~ Stops(pos) =>
              AllIn(found \cup {pos}, processBuffer(queue, pos, sequence + 1) \cup Tasks(out))
<1>1. /\ nitems_read \in Nat /\ buf \in BufferObject /\ sequence + 1 \in Nat
      /\ GoodQueue(queue) /\ GoodOut(out)
      /\ \A t \in queue : Good(buf.offset_counter, nitems_read, t)
      /\ \A t \in Tasks(out) : SentGood(nitems_read, t)
      /\ AllIn(found, queue \cup Tasks(out))
  BY DEF SyncInv, Running, BufferTypeOK
<1>2. buf.offset_counter \in Nat
  BY <1>1, LastSymbol
<1>3. GoodQueue(processBuffer(queue, pos, sequence + 1))
  BY <1>1, ProcessBufferQueue
<1>4. \A t \in processBuffer(queue, pos, sequence + 1) : Good(buf.offset_counter, m, t)
  BY <1>1, <1>2, BlockGood
<1>5. \A t \in Tasks(out) : t \in Task /\ SentGood(m, t)
  <2>1. \A t \in Tasks(out) : t \in Task
    BY <1>1 DEF GoodOut, Tasks
  <2> QED
    BY <1>1, <2>1, ReadSent
<1>6. queue \in SUBSET Task
  BY <1>1 DEF GoodQueue
<1>7. ~ Stops(pos) =>
        AllIn(found \cup {pos}, processBuffer(queue, pos, sequence + 1) \cup Tasks(out))
  BY <1>1, <1>6, BlockFound
<1> QED
  BY <1>3, <1>4, <1>5, <1>7

\* The contents of a queue after a search that was stopped by an exception.
LEMMA StoppedContents ==
  ASSUME NEW n \in Nat, NEW q, GoodQueue(q), NEW oc, \A t \in q : Good(oc, n, t),
         \A t \in Tasks(out) : t \in Task /\ SentGood(n, t), AsmLen > 1,
         queue' = q, out' = out, nitems_read' = n
  PROVE  FrameContents'
<1> SUFFICES ASSUME NEW t \in q \cup Tasks(out)
             PROVE  t.offset \in Nat /\ Short(t) /\ Contents(n, t)
  BY ContentsNext
<1>1. CASE t \in q
  BY <1>1 DEF GoodQueue, Good, Task
<1>2. CASE t \in Tasks(out)
  BY <1>2, SyncGeometry DEF SentGood, data_complete, Short, Task
<1> QED
  BY <1>1, <1>2

\* A block that is searched, copied from, and rotated out of the buffer.
LEMMA TasksBlock ==
  ASSUME SyncInv, TasksInv, NEW index \in 0 .. BlockLen - 1, NEW amb \in Ambiguities,
         WorkBlock(index, amb)
  PROVE  /\ status' = "work" => Running'
         /\ status' = "work" \/ (status' = "failed" /\ (AsmLen > 1 => FrameContents'))
         /\ OutputLen > HeadLen /\ (HeadCovered \/ HeadLen = 0) /\ violated = {}
              => violated' = {}
<1> DEFINE num == num_symbols_missing(buf)
           n   == nitems_read + num
           b   == read_signal(buf, Input(num), n)
           pos == [offset |-> offset(b) + index, ambiguity |-> amb]
           q   == processBuffer(queue, pos, sequence + 1)
<1>1. /\ buf \in BufferObject /\ nitems_read \in Nat /\ Running /\ BufferTypeOK
      /\ GoodOut(out) /\ status = "work" /\ nitems_read' = n
  BY DEF SyncInv, BufferTypeOK, TasksInv, WorkBlock
<1>2. num \in Nat /\ BufferLen - buf.items = num
  BY <1>1, LastSymbol, Geometry DEF num_symbols_missing, BufferObject
<1>3. /\ Input(num) \in Seq(Symbol) /\ Len(Input(num)) = num /\ n \in Nat /\ nitems_read <= n
      /\ \A k \in 1 .. num : Input(num)[k] = nitems_read + k - 1
      /\ PickSmaller(Len(Input(num)), num_symbols_missing(buf)) = num
  <2>1. num \in Nat /\ num_symbols_missing(buf) = num
    BY <1>2
  <2> HIDE DEF num
  <2>2. /\ Input(num) \in Seq(Symbol) /\ Len(Input(num)) = num
        /\ \A k \in 1 .. num : Input(num)[k] = nitems_read + k - 1
    BY <1>1, <2>1, InputSymbols
  <2>3. PickSmaller(Len(Input(num)), num_symbols_missing(buf)) = num
    BY <2>1, <2>2 DEF PickSmaller
  <2> QED
    BY <1>1, <2>1, <2>2, <2>3
<1>4. /\ b \in BufferObject /\ b.offset_counter = buf.offset_counter /\ full(b)
      /\ buf.offset_counter \in Nat
  BY <1>1, <1>3, SyncRead, LastSymbol
<1>5. SignalPlaced(b, n)
  BY <1>1, <1>3, ReadPlaced DEF Running
<1>6. CorrelationPlaced(b)
  BY <1>1, <1>3, ReadCorrelation DEF Running
<1>7. pos \in Position /\ pos.offset >= buf.offset_counter
  BY <1>4, SearchPosition
<1> HIDE DEF pos
<1>8. /\ GoodQueue(q) /\ \A t \in q : Good(b.offset_counter, n, t)
      /\ \A t \in Tasks(out) : t \in Task /\ SentGood(n, t)
      /\ ~ Stops(pos) => AllIn(found \cup {pos}, q \cup Tasks(out))
  BY <1>1, <1>3, <1>4, <1>7, TasksSearch
<1>9. CASE Stops(pos)
  <2>1. status' = "failed" /\ queue' = q /\ out' = out /\ violated' = violated
    BY <1>9 DEF WorkBlock, pos
  <2> HIDE DEF b, q, n, num
  <2> QED
    BY <1>1, <1>3, <1>8, <2>1, StoppedContents
<1>10. CASE ~ Stops(pos)
  <2>1. /\ status' = "work" /\ found' = found \cup {pos} /\ buf' = advance(b)
        /\ out' = Publish(Sent(b, q)) /\ queue' = Remaining(b, q)
        /\ violated' = violated \cup Broken(b, q)
    BY <1>1, <1>10 DEF WorkBlock, pos
  <2> HIDE DEF b, q, n, num
  <2>2. b.items = BufferLen
    BY <1>4 DEF full
  <2>3. /\ AsmLen > 1 => Served(b, n)
        /\ n = b.offset_counter + b.items - HistoryLen
    <3>1. b.items >= HistoryLen + OverlapLen
      BY <2>2, Geometry
    <3> QED
      BY <1>3, <1>4, <1>5, <1>6, <3>1, PlacedServed
  <2>4. /\ \A t \in Copied(b, q) : t \in Task /\ Good(b.offset_counter + BlockLen, n, t)
        /\ \A t \in Sent(b, q) : SentGood(n, t)
    BY <1>3, <1>4, <1>8, <2>3, PassGood
  <2>5. q \in SUBSET Task /\ \A t \in q : Short(t) /\ Aligned(t)
    BY <1>8 DEF GoodQueue, Good
  <2>6. /\ Copied(b, q) = Sent(b, q) \cup Remaining(b, q)
        /\ AllIn(found \cup {pos}, Copied(b, q) \cup Tasks(out))
    BY <1>4, <1>8, <1>10, <2>5, PassKeeps
  <2>7. Tasks(out') = Tasks(out) \cup Sent(b, q)
    <3>1. Sent(b, q) \in SUBSET Task /\ out \in Seq(SUBSET Task)
      BY <1>1, <2>4, <2>6 DEF GoodOut
    <3> QED
      BY <2>1, <3>1, TasksPublish
  <2>8. buf'.offset_counter = b.offset_counter + BlockLen /\ buf'.items = b.items - BlockLen
    BY <2>1 DEF advance
  <2>9. \A t \in queue' : Good(buf'.offset_counter, nitems_read', t)
    BY <1>1, <2>1, <2>4, <2>6, <2>8
  <2>10. \A t \in Tasks(out') : SentGood(nitems_read', t)
    BY <1>1, <1>8, <2>4, <2>7
  <2>11. AllIn(found', queue' \cup Tasks(out'))
    <3>1. queue' \cup Tasks(out') = Copied(b, q) \cup Tasks(out)
      BY <2>1, <2>6, <2>7
    <3> QED
      BY <2>1, <2>6, <3>1
  <2>12. SignalPlaced(buf', nitems_read')
    BY <1>1, <1>3, <1>4, <1>5, <2>1, AdvancePlaced
  <2>13. CorrelationPlaced(buf')
    BY <1>4, <1>6, <2>1, AdvanceCorrelation
  <2>14. OverlapKept'
    BY <2>2, <2>8, Geometry DEF OverlapKept
  <2>15. Running'
    BY <2>9, <2>10, <2>11, <2>12, <2>13, <2>14 DEF Running
  <2>16. ASSUME OutputLen > HeadLen, HeadCovered \/ HeadLen = 0
         PROVE  Broken(b, q) = {}
    <3>1. \A t \in q : Short(t) /\ Good(b.offset_counter, n, t)
      BY <1>8, <2>5
    <3> QED
      BY <1>3, <1>4, <2>5, <2>16, <3>1, NothingBroken
  <2> QED
    BY <2>1, <2>15, <2>16
<1> QED
  BY <1>9, <1>10

\* stop(), with or without symbols left in the current block.
LEMMA TasksStopEmpty ==
  ASSUME SyncInv, TasksInv, StopEmpty
  PROVE  /\ AsmLen > 1 => FrameContents'
         /\ HistoryLen > 0 => FramesDelivered'
<1>1. /\ buf \in BufferObject /\ nitems_read \in Nat /\ GoodQueue(queue) /\ GoodOut(out)
      /\ Running /\ Flush(buf, queue) /\ found' = found
  BY DEF SyncInv, BufferTypeOK, TasksInv, StopEmpty
<1>2. /\ AsmLen > 1 => Served(buf, nitems_read)
      /\ nitems_read = buf.offset_counter + buf.items - HistoryLen
  BY <1>1, PlacedServed DEF Running, OverlapKept
<1>3. nitems_read <= buf.offset_counter + buf.items - HistoryLen
  BY <1>1, <1>2
<1>4. /\ \A t \in queue : Good(buf.offset_counter, nitems_read, t)
      /\ \A t \in Tasks(out) : SentGood(nitems_read, t)
      /\ AllIn(found', queue \cup Tasks(out))
  BY <1>1 DEF Running
<1> QED
  BY <1>1, <1>2, <1>3, <1>4, FlushTasks

LEMMA TasksStopSearch ==
  ASSUME SyncInv, TasksInv, NEW index \in 0 .. BlockLen - 1, NEW amb \in Ambiguities,
         StopSearch(index, amb)
  PROVE  /\ AsmLen > 1 => FrameContents'
         /\ HistoryLen > 0 /\ status' = "stopped" => FramesDelivered'
         /\ status' = "stopped" \/ (status' = "failed" /\ violated' = violated)
<1> DEFINE fill == [k \in 1 .. OverlapLen |-> Zero]
           b    == read_signal(buf, fill, nitems_read)
           pos  == [offset |-> offset(b) + index, ambiguity |-> amb]
           q    == processBuffer(queue, pos, sequence + 1)
<1>1. /\ buf \in BufferObject /\ nitems_read \in Nat /\ Running /\ BufferTypeOK
      /\ GoodOut(out) /\ buf.items > HistoryLen
  <2>1. buf \in BufferObject /\ Running /\ ~ (buf.items <= HistoryLen)
    BY DEF SyncInv, BufferTypeOK, TasksInv, StopSearch, buffer_current_empty
  <2> QED
    BY <2>1, LastSymbol, Geometry DEF SyncInv, BufferTypeOK
<1>2. /\ fill \in Seq(Symbol)
      /\ \A k \in 1 .. Len(fill) : fill[k] = Zero
  BY Geometry DEF Symbol
<1>3. b \in BufferObject /\ b.offset_counter = buf.offset_counter /\ buf.offset_counter \in Nat
  BY <1>1, <1>2, SyncRead, LastSymbol
<1>4. Served(b, nitems_read) /\ nitems_read <= b.offset_counter + b.items - HistoryLen
  BY <1>1, <1>2, FilledServed DEF Running
<1>5. pos \in Position /\ pos.offset >= buf.offset_counter
  BY <1>3, SearchPosition
<1> HIDE DEF pos
<1>6. /\ GoodQueue(q) /\ \A t \in q : Good(b.offset_counter, nitems_read, t)
      /\ \A t \in Tasks(out) : t \in Task /\ SentGood(nitems_read, t)
      /\ ~ Stops(pos) => AllIn(found \cup {pos}, q \cup Tasks(out))
  <2>1. nitems_read <= nitems_read /\ SyncInv
    BY <1>1
  <2> HIDE DEF b
  <2> QED
    BY <1>1, <1>3, <1>5, <2>1, TasksSearch
<1>7. CASE Stops(pos)
  <2>1. /\ status' = "failed" /\ queue' = q /\ out' = out /\ violated' = violated
        /\ nitems_read' = nitems_read
    BY <1>7 DEF StopSearch, pos
  <2> HIDE DEF b, q
  <2> QED
    BY <1>1, <1>6, <2>1, StoppedContents
<1>8. CASE ~ Stops(pos)
  <2>1. found' = found \cup {pos} /\ Flush(b, q)
    BY <1>8 DEF StopSearch, pos
  <2> HIDE DEF b, q
  <2>2. AllIn(found', q \cup Tasks(out))
    BY <1>6, <1>8, <2>1
  <2>3. status' = "stopped"
    BY <2>1 DEF Flush
  <2> QED
    BY <1>1, <1>3, <1>4, <1>6, <2>1, <2>2, <2>3, FlushTasks
<1> QED
  BY <1>7, <1>8

LEMMA TasksStepInv == SyncInv /\ TasksInv /\ [Next]_vars => TasksInv'
<1> SUFFICES ASSUME SyncInv, TasksInv, [Next]_vars
             PROVE  TasksInv'
  OBVIOUS
<1> DEFINE Scored == OutputLen > HeadLen /\ (HeadCovered \/ HeadLen = 0)
<1>0. /\ status \in {"idle", "work"} => Running
      /\ status \in {"stopped", "failed"} /\ AsmLen > 1 => FrameContents
      /\ HistoryLen > 0 => NothingOverdue /\ FramesDelivered
      /\ Scored => (status # "stopped" => violated = {})
  BY DEF TasksInv, AssertionsUntilStop
<1>1. ASSUME NEW n \in 1 .. MaxRead, Work(n)
      PROVE  TasksInv'
  <2>1. /\ status = "idle" /\ status' = "work"
        /\ buf' = buf /\ nitems_read' = nitems_read /\ queue' = queue /\ out' = out
        /\ found' = found /\ violated' = violated
    BY <1>1 DEF Work, bufferVars
  <2>2. Running'
    BY <1>0, <2>1 DEF Running, OverlapKept
  <2> QED
    BY <1>0, <2>1, <2>2 DEF TasksInv, NothingOverdue, FramesDelivered, AssertionsUntilStop
<1>2. CASE WorkPartial
  <2>1. Running'
    BY <1>2, TasksPartial
  <2>2. status = "work" /\ status' = "work" /\ violated' = violated
    BY <1>2 DEF WorkPartial
  <2> QED
    BY <1>0, <2>1, <2>2 DEF TasksInv, NothingOverdue, FramesDelivered, AssertionsUntilStop
<1>3. ASSUME NEW index \in 0 .. BlockLen - 1, NEW amb \in Ambiguities, WorkBlock(index, amb)
      PROVE  TasksInv'
  <2>1. /\ status' = "work" => Running'
        /\ status' = "work" \/ (status' = "failed" /\ (AsmLen > 1 => FrameContents'))
        /\ Scored /\ violated = {} => violated' = {}
    BY <1>3, TasksBlock
  <2>2. status = "work"
    BY <1>3 DEF WorkBlock
  <2> QED
    BY <1>0, <2>1, <2>2 DEF TasksInv, NothingOverdue, FramesDelivered, AssertionsUntilStop
<1>4. CASE WorkReturn
  <2>1. Running' /\ (HistoryLen > 0 => NothingOverdue')
    BY <1>4, TasksReturn
  <2>2. /\ status = "work" /\ status' = "idle" /\ violated' = violated \cup Broken(buf, queue)
    BY <1>4 DEF WorkReturn
  <2>3. ASSUME Scored
        PROVE  Broken(buf, queue) = {}
    <3>1. /\ buf \in BufferObject /\ nitems_read \in Nat /\ queue \in SUBSET Task
          /\ \A t \in queue : Short(t) /\ Good(buf.offset_counter, nitems_read, t)
      BY <1>0, <2>2 DEF SyncInv, BufferTypeOK, GoodQueue, Running
    <3> QED
      BY <2>3, <3>1, NothingBroken
  <2> QED
    BY <1>0, <2>1, <2>2, <2>3 DEF TasksInv, FramesDelivered, AssertionsUntilStop
<1>5. CASE StopEmpty
  <2>1. /\ AsmLen > 1 => FrameContents'
        /\ HistoryLen > 0 => FramesDelivered'
    BY <1>5, TasksStopEmpty
  <2>2. status' = "stopped"
    BY <1>5 DEF StopEmpty, Flush
  <2> QED
    BY <2>1, <2>2 DEF TasksInv, NothingOverdue, AssertionsUntilStop
<1>6. ASSUME NEW index \in 0 .. BlockLen - 1, NEW amb \in Ambiguities, StopSearch(index, amb)
      PROVE  TasksInv'
  <2>1. /\ AsmLen > 1 => FrameContents'
        /\ HistoryLen > 0 /\ status' = "stopped" => FramesDelivered'
        /\ status' = "stopped" \/ (status' = "failed" /\ violated' = violated)
    BY <1>6, TasksStopSearch
  <2>2. status = "idle"
    BY <1>6 DEF StopSearch
  <2> QED
    BY <1>0, <2>1, <2>2 DEF TasksInv, NothingOverdue, FramesDelivered, AssertionsUntilStop
<1>7. CASE UNCHANGED vars
  <2>1. /\ buf' = buf /\ nitems_read' = nitems_read /\ queue' = queue /\ out' = out
        /\ status' = status /\ found' = found /\ violated' = violated
    BY <1>7 DEF vars, bufferVars, syncVars
  <2>2. Running' <=> Running
    BY <2>1 DEF Running, OverlapKept
  <2>3. FrameContents' <=> FrameContents
    BY <2>1 DEF FrameContents, HoldsItsSymbols, ScoredOnOwnAsm, Expected
  <2>4. NothingOverdue' <=> NothingOverdue
    BY <2>1 DEF NothingOverdue
  <2>5. FramesDelivered' <=> FramesDelivered
    BY <2>1 DEF FramesDelivered, SentTasks, Received
  <2> QED
    BY <1>0, <2>1, <2>2, <2>3, <2>4, <2>5 DEF TasksInv, AssertionsUntilStop
<1> QED
  BY <1>1, <1>2, <1>3, <1>4, <1>5, <1>6, <1>7 DEF Next

LEMMA TasksInvariant == Spec => [](SyncInv /\ TasksInv)
BY SyncInitInv, SyncStepInv, TasksInitInv, TasksStepInv, PTL DEF Spec

\* Every frame that is queued or sent holds its own consecutive symbols, and
\* its header is scored on its own ASM, for every geometry whose marker has
\* more than one symbol (with one, a rotation can leave a symbol of the block
\* before under offset_last_symbol()).
THEOREM SyncFrameContents ==
  ASSUME AsmLen > 1
  PROVE  Spec => []FrameContents
<1>1. SyncInv /\ TasksInv => FrameContents
  <2>1. SyncInv => status \in {"idle", "work", "stopped", "failed"}
    BY DEF SyncInv
  <2> QED
    BY <2>1, RunningContents DEF TasksInv
<1> QED
  BY <1>1, TasksInvariant, PTL

\* Between two calls no frame is overdue, whenever the buffer keeps a history:
\* with frames before, or with symbols copied from before the ASM.
THEOREM SyncNothingOverdue ==
  ASSUME HistoryLen > 0
  PROVE  Spec => []NothingOverdue
<1>1. SyncInv /\ TasksInv => NothingOverdue
  BY DEF TasksInv
<1> QED
  BY <1>1, TasksInvariant, PTL

\* Every frame that was found, and every frame known in advance, has been sent
\* at EOF with all that was received of it, whenever the buffer keeps a history.
THEOREM SyncFramesDelivered ==
  ASSUME HistoryLen > 0
  PROVE  Spec => []FramesDelivered
<1>1. SyncInv /\ TasksInv => FramesDelivered
  BY DEF TasksInv
<1> QED
  BY <1>1, TasksInvariant, PTL

\* The assertions hold until stop(): for frames that are longer than their head,
\* if there is no head or if there are frames before and the head is not longer
\* than the marker.
THEOREM SyncAssertionsUntilStop ==
  ASSUME OutputLen > HeadLen, HeadCovered \/ HeadLen = 0
  PROVE  Spec => []AssertionsUntilStop
<1>1. SyncInv /\ TasksInv => AssertionsUntilStop
  BY DEF TasksInv
<1> QED
  BY <1>1, TasksInvariant, PTL
=============================================================================
