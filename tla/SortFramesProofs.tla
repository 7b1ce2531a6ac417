--------------------------- MODULE SortFramesProofs ---------------------------
(***************************************************************************)
(* Proofs about the frame sorter, for every window, every configuration and *)
(* any number of frames: the ring holds what SlotOf says it does, nothing   *)
(* is sent twice, the right duplicates are kept, and a flush leaves nothing  *)
(* behind.                                                                 *)
(***************************************************************************)
EXTENDS SortFrames, SequenceTheorems, TLAPS

\* How many frames slot k lies behind the one of the current frame
Back(k) == IF k <= storage_offset THEN storage_offset - k ELSE Window + storage_offset - k

Frames(k) == storage[k].frames

\* The frames in a slot have the number of that slot
Numbered ==
  \A k \in Slots : \A i \in 1 .. Len(Frames(k)) : Frames(k)[i].number = current_frame - Back(k)

\* A frame that was taken in before the one that is being stored
Older(f) == f.id <= arrivals /\ (mode = "storing" => f.id < pending.id)

AllOlder ==
  /\ mode = "storing" => pending.id <= arrivals
  /\ \A k \in Slots : \A f \in offered[k] : Older(f)
  /\ \A k \in Slots : \A i \in 1 .. Len(Frames(k)) : Older(Frames(k)[i])
  /\ \A j \in 1 .. Len(out) : out[j] # EOF => Older(out[j])

\* No slot holds a frame twice
Distinct ==
  \A k \in Slots : \A i, j \in 1 .. Len(Frames(k)) : Frames(k)[i] = Frames(k)[j] => i = j

\* g is at least as good as f, by score or else by time of arrival
AtLeastAsGood(g, f) ==
  IF options.scored
  THEN ScoresAtLeast(g, f)
  ELSE IF options.highest THEN g.id >= f.id ELSE g.id <= f.id

\* The frames of a slot are sound: best_index and best_value are those of the best
SlotBest(slot, frames) ==
  /\ slot.frames = <<>> <=> frames = {}
  /\ frames # {} =>
       /\ slot.best_index + 1 \in 1 .. Len(slot.frames)
       /\ slot.frames[slot.best_index + 1] \in frames
       /\ slot.frames[slot.best_index + 1].score = slot.best_value
       /\ \A f \in frames : AtLeastAsGood(slot.frames[slot.best_index + 1], f)
       /\ IF options.duplicates
          THEN {slot.frames[i] : i \in 1 .. Len(slot.frames)} = frames
          ELSE Len(slot.frames) = 1

Best == \A k \in Slots : SlotBest(storage[k], offered[k])

\* A flush has emptied the slots of the numbers before its loop variable
Emptied ==
  mode = "flushing" =>
    /\ flush_next + Window > current_frame
    /\ \A k \in Slots : current_frame - Back(k) < flush_next => Frames(k) = <<>>

\* The inductive invariant
Inv == TypeOK /\ Numbered /\ AllOlder /\ Distinct /\ NothingTwice /\ Best /\ Emptied

-----------------------------------------------------------------------------
(* The ring *)

LEMMA WindowType == Window \in Nat /\ Window >= 1 /\ Slots = 0 .. Window - 1
  BY SortAssumption DEF Slots

\* The slot of a number in the window is the one that lies as far behind, and
\* the number just outside of it has the slot of the current frame
LEMMA SlotOfNumber ==
  ASSUME TypeOK, NEW n \in Int, n <= current_frame, n + Window >= current_frame
  PROVE  /\ SlotOf(n) \in Slots
         /\ n + Window > current_frame => Back(SlotOf(n)) = current_frame - n
         /\ n + Window = current_frame => SlotOf(n) = storage_offset
<1> DEFINE d == current_frame - n
           w == Window
           s == storage_offset
<1>1. w \in Nat /\ w >= 1 /\ s \in 0 .. w - 1 /\ d \in 0 .. w
  BY WindowType DEF TypeOK
<1>0. current_frame \in Int  BY DEF TypeOK
<1>2. SlotOf(n) = (w + s - d) % w
  BY <1>1 DEF SlotOf, MinusCapZero
<1> HIDE DEF d, w, s
<1>3. CASE d <= s /\ d < w
  <2>1. w + s - d = w * 1 + (s - d) /\ s - d \in 0 .. w - 1  BY <1>1, <1>3
  <2>2. (w + s - d) % w = s - d  BY <1>1, <2>1, SMT
  <2>3. SlotOf(n) = s - d  BY <1>2, <2>2
  <2>4. Back(SlotOf(n)) = d  BY <1>1, <1>3, <2>3 DEF Back, s
  <2> QED  BY <1>0, <1>1, <1>3, <2>1, <2>3, <2>4, WindowType DEF d, w, s
<1>4. CASE d > s
  <2>1. w + s - d \in 0 .. w - 1  BY <1>1, <1>4
  <2>2. (w + s - d) % w = w + s - d  BY <1>1, <2>1, SMT
  <2>3. SlotOf(n) = w + s - d  BY <1>2, <2>2
  <2>4. d < w => Back(SlotOf(n)) = d  BY <1>1, <1>4, <2>3 DEF Back, s, w
  <2> QED  BY <1>0, <1>1, <1>4, <2>1, <2>3, <2>4, WindowType DEF d, w, s
<1> QED  BY <1>1, <1>3, <1>4

\* When the window moves, every slot but the new one keeps its number
LEMMA Moved ==
  ASSUME TypeOK, storage_offset' = NewOffset, NEW k \in Slots
  PROVE  /\ NewOffset \in Slots
         /\ k # NewOffset => Back(k)' = Back(k) + 1
         /\ k = NewOffset => Back(k)' = 0
<1> DEFINE w == Window
           s == storage_offset
<1>1. w \in Nat /\ w >= 1 /\ s \in 0 .. w - 1 /\ k \in 0 .. w - 1
  BY WindowType DEF TypeOK
<1>2. (s + 1) % w = IF s + 1 = w THEN 0 ELSE s + 1
  <2> HIDE DEF w, s
  <2>1. CASE s + 1 = w  BY <1>1, <2>1, SMT
  <2>2. CASE s + 1 # w
    <3>1. s + 1 \in 0 .. w - 1  BY <1>1, <2>2
    <3> QED  BY <1>1, <2>2, <3>1, SMT
  <2> QED  BY <2>1, <2>2
<1>3. NewOffset = IF s + 1 = w THEN 0 ELSE s + 1  BY <1>2 DEF NewOffset
<1> QED  BY <1>1, <1>3, WindowType DEF Back

\* A slot lies less than a window behind
LEMMA BackRange ==
  ASSUME TypeOK, NEW k \in Slots
  PROVE  Back(k) \in 0 .. Window - 1
  BY WindowType DEF TypeOK, Back

\* Two slots do not have the same number
LEMMA BackInjective ==
  ASSUME TypeOK, NEW k \in Slots, NEW l \in Slots, Back(k) = Back(l)
  PROVE  k = l
  BY WindowType DEF TypeOK, Back

-----------------------------------------------------------------------------
(* Slots that are sent *)

\* send_frame on the slot of n empties it and leaves the other slots as they are
LEMMA ClearedSlot ==
  ASSUME TypeOK, NEW n, SlotOf(n) \in Slots
  PROVE  /\ Cleared(n) \in [Slots -> Slot]
         /\ Cleared(n)[SlotOf(n)].frames = <<>>
         /\ \A k \in Slots \ {SlotOf(n)} : Cleared(n)[k] = storage[k]
<1>1. storage \in [Slots -> Slot] /\ storage[SlotOf(n)] \in Slot  BY DEF TypeOK
<1>2. <<>> \in Seq(Frame)  BY EmptySeq
<1>3. [storage[SlotOf(n)] EXCEPT !.frames = <<>>] \in Slot  BY <1>1, <1>2 DEF Slot
<1> QED  BY <1>1, <1>3 DEF Cleared, Slot

\* A message of the port out that is not EOF, or a frame, is not the other
LEMMA FrameNotEof == \A f \in Frame : f # EOF
  BY DEF Frame, EOF

\* What the port out looks like when the frames of slot k have been sent
LEMMA SlotSent ==
  ASSUME TypeOK, Numbered, AllOlder, Distinct, NothingTwice, NEW k \in Slots,
         NEW o, o = out \o Frames(k)
  PROVE  /\ o \in Seq(Frame \cup {EOF})
         /\ \A i, j \in 1 .. Len(o) : o[i] = o[j] => i = j \/ o[i] = EOF
         /\ \A l \in Slots \ {k} : \A i \in 1 .. Len(Frames(l)), j \in 1 .. Len(o) :
              Frames(l)[i] # o[j]
         /\ \A j \in 1 .. Len(o) : o[j] # EOF => Older(o[j])
<1> DEFINE M == Frame \cup {EOF}
           n == Len(out)
<1>1. Frames(k) \in Seq(Frame) /\ out \in Seq(M)
  BY DEF TypeOK, Frames, Slot
<1>2. Frames(k) \in Seq(M)  BY <1>1, SeqMonotonic
<1>3. /\ o \in Seq(M) /\ Len(o) = n + Len(Frames(k))
      /\ n \in Nat /\ Len(Frames(k)) \in Nat
      /\ \A i \in 1 .. Len(o) : o[i] = IF i <= n THEN out[i] ELSE Frames(k)[i - n]
  BY <1>1, <1>2, ConcatProperties, LenProperties
<1>4. \A l \in Slots \ {k} : \A i \in 1 .. Len(Frames(l)), j \in 1 .. Len(Frames(k)) :
        Frames(l)[i] # Frames(k)[j]
  <2> SUFFICES ASSUME NEW l \in Slots \ {k}, NEW i \in 1 .. Len(Frames(l)),
                      NEW j \in 1 .. Len(Frames(k)), Frames(l)[i] = Frames(k)[j]
               PROVE  FALSE
    OBVIOUS
  <2>1. current_frame - Back(l) = current_frame - Back(k)  BY DEF Numbered
  <2>2. Back(l) = Back(k)  BY <2>1, BackRange, WindowType DEF TypeOK
  <2> QED  BY <2>2, BackInjective
<1>5. \A l \in Slots : \A i \in 1 .. Len(Frames(l)), j \in 1 .. n : Frames(l)[i] # out[j]
  BY DEF NothingTwice, Frames
<1>6. \A l \in Slots \ {k} : \A i \in 1 .. Len(Frames(l)), j \in 1 .. Len(o) :
        Frames(l)[i] # o[j]
  <2> SUFFICES ASSUME NEW l \in Slots \ {k}, NEW i \in 1 .. Len(Frames(l)),
                      NEW j \in 1 .. Len(o)
               PROVE  Frames(l)[i] # o[j]
    OBVIOUS
  <2>1. CASE j <= n  BY <1>3, <1>5, <2>1
  <2>2. CASE j > n
    <3>1. j - n \in 1 .. Len(Frames(k)) /\ o[j] = Frames(k)[j - n]  BY <1>3, <2>2
    <3> QED  BY <1>4, <3>1
  <2> QED  BY <1>3, <2>1, <2>2
<1>7. \A j \in 1 .. Len(o) : o[j] # EOF => Older(o[j])
  <2> SUFFICES ASSUME NEW j \in 1 .. Len(o), o[j] # EOF  PROVE Older(o[j])
    OBVIOUS
  <2>1. CASE j <= n  BY <1>3, <2>1 DEF AllOlder
  <2>2. CASE j > n
    <3>1. j - n \in 1 .. Len(Frames(k)) /\ o[j] = Frames(k)[j - n]  BY <1>3, <2>2
    <3> QED  BY <3>1 DEF AllOlder
  <2> QED  BY <1>3, <2>1, <2>2
<1>8. \A i, j \in 1 .. Len(o) : o[i] = o[j] => i = j \/ o[i] = EOF
  <2> SUFFICES ASSUME NEW i \in 1 .. Len(o), NEW j \in 1 .. Len(o), o[i] = o[j]
               PROVE  i = j \/ o[i] = EOF
    OBVIOUS
  <2>1. CASE i <= n /\ j <= n
    <3>1. i \in 1 .. n /\ j \in 1 .. n /\ o[i] = out[i] /\ o[j] = out[j]  BY <1>3, <2>1
    <3> QED  BY <3>1 DEF NothingTwice
  <2>2. CASE i <= n /\ j > n
    <3>1. /\ i \in 1 .. n /\ o[i] = out[i]
          /\ j - n \in 1 .. Len(Frames(k)) /\ o[j] = Frames(k)[j - n]
      BY <1>3, <2>2
    <3> QED  BY <1>5, <3>1
  <2>3. CASE i > n /\ j <= n
    <3>1. /\ j \in 1 .. n /\ o[j] = out[j]
          /\ i - n \in 1 .. Len(Frames(k)) /\ o[i] = Frames(k)[i - n]
      BY <1>3, <2>3
    <3> QED  BY <1>5, <3>1
  <2>4. CASE i > n /\ j > n
    <3>1. /\ i - n \in 1 .. Len(Frames(k)) /\ o[i] = Frames(k)[i - n]
          /\ j - n \in 1 .. Len(Frames(k)) /\ o[j] = Frames(k)[j - n]
      BY <1>3, <2>4
    <3>2. i - n = j - n  BY <3>1 DEF Distinct
    <3> QED  BY <1>3, <3>2
  <2> QED  BY <1>3, <2>1, <2>2, <2>3, <2>4
<1> QED  BY <1>3, <1>6, <1>7, <1>8

\* A step that empties some slots and leaves the others as they are
SomeEmptied ==
  /\ storage' \in [Slots -> Slot]
  /\ offered' \in [Slots -> SUBSET Frame]
  /\ \A k \in Slots :
       \/ storage'[k] = storage[k] /\ offered'[k] = offered[k]
       \/ storage'[k].frames = <<>> /\ offered'[k] = {}
  /\ UNCHANGED <<options, mode, pending, arrivals>>

LEMMA EmptiedInv ==
  ASSUME TypeOK, Distinct, Best, AllOlder, SomeEmptied
  PROVE  /\ Distinct' /\ Best'
         /\ \A k \in Slots : \A f \in offered'[k] : Older(f)'
         /\ \A k \in Slots : \A i \in 1 .. Len(Frames(k)') : Older(Frames(k)[i])'
<1>1. ASSUME NEW k \in Slots
      PROVE  \/ storage'[k] = storage[k] /\ offered'[k] = offered[k]
             \/ Frames(k)' = <<>> /\ offered'[k] = {} /\ Len(Frames(k)') = 0
  BY EmptySeq DEF SomeEmptied, Frames
<1>2. Distinct'
  <2> SUFFICES ASSUME NEW k \in Slots, NEW i \in 1 .. Len(Frames(k)'),
                      NEW j \in 1 .. Len(Frames(k)'), Frames(k)'[i] = Frames(k)'[j]
               PROVE  i = j
    BY DEF Distinct
  <2>1. CASE storage'[k] = storage[k]  BY <2>1 DEF Distinct, Frames
  <2>2. CASE Len(Frames(k)') = 0  BY <2>2
  <2> QED  BY <1>1, <2>1, <2>2
<1>3. ASSUME NEW f  PROVE Older(f)' <=> Older(f)
  BY DEF SomeEmptied, Older
<1>4. \A k \in Slots : \A f \in offered'[k] : Older(f)'
  BY <1>1, <1>3 DEF AllOlder
<1>5. \A k \in Slots : \A i \in 1 .. Len(Frames(k)') : Older(Frames(k)[i])'
  <2> SUFFICES ASSUME NEW k \in Slots, NEW i \in 1 .. Len(Frames(k)')
               PROVE  Older(Frames(k)[i])'
    OBVIOUS
  <2>1. CASE storage'[k] = storage[k]
    <3>1. Frames(k)' = Frames(k)  BY <2>1 DEF Frames
    <3>2. Older(Frames(k)[i])  BY <3>1 DEF AllOlder
    <3>3. Older(Frames(k)'[i])  BY <3>1, <3>2
    <3> QED  BY <3>3 DEF Older, SomeEmptied
  <2>2. CASE Len(Frames(k)') = 0  BY <2>2
  <2> QED  BY <1>1, <2>1, <2>2
<1>6. Best'
  <2> SUFFICES ASSUME NEW k \in Slots  PROVE SlotBest(storage[k], offered[k])'
    BY DEF Best
  <2>1. CASE storage'[k] = storage[k] /\ offered'[k] = offered[k]
    BY <2>1 DEF Best, SlotBest, AtLeastAsGood, ScoresAtLeast, SomeEmptied
  <2>2. CASE Frames(k)' = <<>> /\ offered'[k] = {}
    BY <2>2 DEF SlotBest, Frames
  <2> QED  BY <1>1, <2>1, <2>2
<1> QED  BY <1>2, <1>4, <1>5, <1>6

\* What was said of the output by SlotSent, as NothingTwice of the next state
LEMMA SentInv ==
  ASSUME TypeOK, Numbered, AllOlder, Distinct, NothingTwice, NEW k \in Slots,
         out' = out \o Frames(k), SomeEmptied, storage'[k].frames = <<>>
  PROVE  /\ NothingTwice'
         /\ out' \in Seq(Frame \cup {EOF})
         /\ \A j \in 1 .. Len(out') : out'[j] # EOF => Older(out[j])'
<1> DEFINE o == out \o Frames(k)
<1>1. /\ o \in Seq(Frame \cup {EOF})
      /\ \A i, j \in 1 .. Len(o) : o[i] = o[j] => i = j \/ o[i] = EOF
      /\ \A l \in Slots \ {k} : \A i \in 1 .. Len(Frames(l)), j \in 1 .. Len(o) :
              Frames(l)[i] # o[j]
      /\ \A j \in 1 .. Len(o) : o[j] # EOF => Older(o[j])
  BY SlotSent
<1>2. out' = o  OBVIOUS
<1> HIDE DEF o
<1>3. ASSUME NEW l \in Slots, NEW i \in 1 .. Len(storage'[l].frames), NEW j \in 1 .. Len(o)
      PROVE  storage'[l].frames[i] # o[j]
  <2>1. CASE storage'[l].frames = <<>>
    <3>1. Len(storage'[l].frames) = 0  BY <2>1, EmptySeq
    <3> QED  BY <3>1
  <2>2. CASE storage'[l] = storage[l] /\ l # k
    <3>1. storage'[l].frames = Frames(l)  BY <2>2 DEF Frames
    <3> QED  BY <1>1, <2>2, <3>1
  <2> QED  BY <2>1, <2>2 DEF SomeEmptied
<1>4. NothingTwice'  BY <1>1, <1>2, <1>3 DEF NothingTwice
<1>5. \A j \in 1 .. Len(out') : out'[j] # EOF => Older(out[j])'
  BY <1>1, <1>2 DEF Older, SomeEmptied
<1> QED  BY <1>1, <1>2, <1>4, <1>5

-----------------------------------------------------------------------------
(* The actions *)

\* A new block has an empty ring
LEMMA InitInv == Init => Inv
<1> SUFFICES ASSUME Init  PROVE Inv
  OBVIOUS
<1>1. /\ \A k \in Slots : storage[k] = EmptySlot /\ Frames(k) = <<>> /\ Len(Frames(k)) = 0
      /\ \A k \in Slots : offered[k] = {}
      /\ out = <<>> /\ Len(out) = 0 /\ mode = "idle"
  BY EmptySeq DEF Init, EmptySlot, Frames
<1>2. EmptySlot \in Slot  BY EmptySeq DEF EmptySlot, Slot
<1>3. TypeOK
  <2>1. storage_offset \in Slots  BY WindowType DEF Init
  <2>2. out \in Seq(Frame \cup {EOF})  BY <1>1, EmptySeq
  <2>3. options \in OptionRecord  BY SortAssumption DEF Init
  <2> QED  BY <1>2, <2>1, <2>2, <2>3 DEF Init, TypeOK
<1>4. Best  BY <1>1 DEF Best, SlotBest, EmptySlot
<1> QED
  BY <1>1, <1>3, <1>4 DEF Inv, Numbered, AllOlder, Distinct, NothingTwice, Emptied, Frames

\* Nothing about the ring changes, and the handler does not begin or end to store
LEMMA RingUnchanged ==
  ASSUME Inv, UNCHANGED <<options, current_frame, storage_offset, storage, offered>>
  PROVE  Numbered' /\ Distinct' /\ Best'
<1>1. \A k : Back(k)' = Back(k) /\ Frames(k)' = Frames(k)  BY DEF Back, Frames
<1>2. Numbered'  BY <1>1 DEF Inv, Numbered
<1>3. Distinct'  BY <1>1 DEF Inv, Distinct
<1>4. Best'  BY DEF Inv, Best, SlotBest, AtLeastAsGood, ScoresAtLeast
<1> QED  BY <1>2, <1>3, <1>4

\* A frame that is received is younger than all the others
LEMMA ReceiveInv ==
  ASSUME Inv, NEW n \in 0 .. MaxNumber, NEW s \in Scores, Receive(n, s)
  PROVE  Inv'
<1>1. /\ UNCHANGED <<options, current_frame, storage_offset, storage, offered, out>>
      /\ mode = "idle" /\ mode' = "storing" /\ arrivals' = arrivals + 1
      /\ pending'.id = arrivals + 1 /\ arrivals \in Nat
  BY DEF Receive, Inv, TypeOK
<1>2. pending' \in Frame  BY SortAssumption DEF Receive, Inv, TypeOK, Frame
<1>3. TypeOK'
  BY <1>1, <1>2 DEF Receive, Inv, TypeOK
<1>4. Numbered' /\ Distinct' /\ Best'  BY <1>1, RingUnchanged
<1>5. ASSUME NEW f \in Frame, Older(f)  PROVE Older(f)'
  BY <1>1, <1>5 DEF Older, Frame
<1>6. /\ \A k \in Slots : offered[k] \subseteq Frame
      /\ \A k \in Slots : \A i \in 1 .. Len(Frames(k)) : Frames(k)[i] \in Frame
      /\ \A j \in 1 .. Len(out) : out[j] # EOF => out[j] \in Frame
  BY ElementOfSeq DEF Inv, TypeOK, Frames, Slot
<1>7. AllOlder'
  <2>1. \A k \in Slots : \A f \in offered'[k] : Older(f)'
    BY <1>1, <1>5, <1>6 DEF Inv, AllOlder
  <2>2. \A k \in Slots : \A i \in 1 .. Len(Frames(k)') : Older(Frames(k)[i])'
    <3> SUFFICES ASSUME NEW k \in Slots, NEW i \in 1 .. Len(Frames(k)')
                 PROVE  Older(Frames(k)[i])'
      OBVIOUS
    <3>1. Frames(k)' = Frames(k)  BY <1>1 DEF Frames
    <3>2. Frames(k)[i] \in Frame /\ Older(Frames(k)[i])  BY <1>6, <3>1 DEF Inv, AllOlder
    <3>3. Older(Frames(k)'[i])  BY <3>1, <3>2
    <3> QED  BY <1>1, <3>1, <3>2, <1>6 DEF Older, Frame
  <2>3. \A j \in 1 .. Len(out') : out'[j] # EOF => Older(out[j])'
    <3> SUFFICES ASSUME NEW j \in 1 .. Len(out), out[j] # EOF  PROVE Older(out[j])'
      BY <1>1
    <3>1. out[j] \in Frame /\ Older(out[j])  BY <1>6 DEF Inv, AllOlder
    <3> QED  BY <1>1, <3>1 DEF Older, Frame
  <2> QED  BY <1>1, <2>1, <2>2, <2>3 DEF AllOlder
<1>8. NothingTwice' /\ Emptied'  BY <1>1 DEF Inv, NothingTwice, Emptied
<1> QED  BY <1>3, <1>4, <1>7, <1>8 DEF Inv

\* A step that leaves the ring alone and publishes nothing, or EOF
LEMMA QuietStep ==
  ASSUME Inv, UNCHANGED <<options, current_frame, storage_offset, storage, offered>>,
         mode' # "storing", arrivals' \in {arrivals, arrivals + 1},
         out' \in {out, Append(out, EOF)}
  PROVE  /\ Numbered' /\ Distinct' /\ Best' /\ AllOlder' /\ NothingTwice'
         /\ out' \in Seq(Frame \cup {EOF})
<1> DEFINE M == Frame \cup {EOF}
<1>1. Numbered' /\ Distinct' /\ Best'  BY RingUnchanged
<1>2. /\ out' \in Seq(M) /\ out \in Seq(M) /\ Len(out) \in Nat
      /\ Len(out') = Len(out) \/ Len(out') = Len(out) + 1
      /\ \A j \in 1 .. Len(out') : IF j <= Len(out) THEN out'[j] = out[j] ELSE out'[j] = EOF
  BY AppendProperties, LenProperties DEF Inv, TypeOK
<1>3. arrivals \in Nat  BY DEF Inv, TypeOK
<1>4. \A k : Frames(k)' = Frames(k)  BY DEF Frames
<1>5. ASSUME NEW f \in Frame, Older(f)  PROVE f.id <= arrivals'
  BY <1>3, <1>5 DEF Older, Frame
<1>6. /\ \A k \in Slots : offered[k] \subseteq Frame
      /\ \A k \in Slots : \A i \in 1 .. Len(Frames(k)) : Frames(k)[i] \in Frame
      /\ \A j \in 1 .. Len(out) : out[j] # EOF => out[j] \in Frame
  BY ElementOfSeq DEF Inv, TypeOK, Frames, Slot
<1>7. \A k \in Slots : \A f \in offered'[k] : Older(f)'
  BY <1>5, <1>6 DEF Older, Inv, AllOlder
<1>8. \A k \in Slots : \A i \in 1 .. Len(Frames(k)') : Older(Frames(k)[i])'
  <2> SUFFICES ASSUME NEW k \in Slots, NEW i \in 1 .. Len(Frames(k))
               PROVE  Older(Frames(k)[i])'
    BY <1>4
  <2>1. Frames(k)[i] \in Frame /\ Older(Frames(k)[i])  BY <1>6 DEF Inv, AllOlder
  <2>2. Frames(k)[i].id <= arrivals'  BY <1>5, <2>1
  <2> QED  BY <1>4, <2>2 DEF Older
<1>9. \A j \in 1 .. Len(out') : out'[j] # EOF => Older(out[j])'
  <2> SUFFICES ASSUME NEW j \in 1 .. Len(out'), out'[j] # EOF  PROVE Older(out[j])'
    OBVIOUS
  <2>1. j \in 1 .. Len(out) /\ out'[j] = out[j]  BY <1>2
  <2>2. out[j] \in Frame /\ Older(out[j])  BY <1>6, <2>1 DEF Inv, AllOlder
  <2>3. out'[j].id <= arrivals'  BY <1>5, <2>1, <2>2
  <2> QED  BY <2>3 DEF Older
<1>10. AllOlder'  BY <1>7, <1>8, <1>9 DEF AllOlder
<1>11. NothingTwice'
  <2>1. \A i, j \in 1 .. Len(out') : out'[i] = out'[j] => i = j \/ out'[i] = EOF
    <3> SUFFICES ASSUME NEW i \in 1 .. Len(out'), NEW j \in 1 .. Len(out'),
                        out'[i] = out'[j], out'[i] # EOF
                 PROVE  i = j
      OBVIOUS
    <3>1. i \in 1 .. Len(out) /\ j \in 1 .. Len(out) /\ out[i] = out[j] /\ out[i] # EOF
      BY <1>2
    <3> QED  BY <3>1 DEF Inv, NothingTwice
  <2>2. \A k \in Slots : \A i \in 1 .. Len(Frames(k)), j \in 1 .. Len(out') :
          Frames(k)[i] # out'[j]
    <3> SUFFICES ASSUME NEW k \in Slots, NEW i \in 1 .. Len(Frames(k)),
                        NEW j \in 1 .. Len(out'), Frames(k)[i] = out'[j]
                 PROVE  FALSE
      OBVIOUS
    <3>1. Frames(k)[i] # EOF  BY <1>6, FrameNotEof
    <3>2. j \in 1 .. Len(out) /\ out'[j] = out[j]  BY <1>2, <3>1
    <3> QED  BY <3>2 DEF Inv, NothingTwice, Frames
  <2> QED  BY <2>1, <2>2 DEF NothingTwice, Frames
<1> QED  BY <1>1, <1>2, <1>10, <1>11

\* The first number of a flush is that of the oldest slot of the ring
LEMMA FlushBegins ==
  ASSUME Inv, mode' = "flushing", flush_next' = FlushFirst,
         UNCHANGED <<current_frame, storage_offset, storage>>
  PROVE  Emptied' /\ flush_next' \in Nat
<1>1. current_frame \in Nat /\ Window \in Nat /\ Window >= 1  BY WindowType DEF Inv, TypeOK
<1>2. FlushFirst = IF current_frame + 1 >= Window THEN current_frame + 1 - Window ELSE 0
  BY <1>1 DEF FlushFirst, MinusCapZero
<1>3. FlushFirst \in Nat /\ FlushFirst + Window > current_frame  BY <1>1, <1>2
<1>4. ASSUME NEW k \in Slots, current_frame - Back(k) < FlushFirst  PROVE Frames(k) = <<>>
  <2>1. Back(k) \in 0 .. Window - 1  BY BackRange DEF Inv
  <2>2. current_frame - Back(k) < 0  BY <1>1, <1>2, <1>4, <2>1
  <2>3. Frames(k) \in Seq(Frame)  BY DEF Inv, TypeOK, Frames, Slot
  <2>4. ASSUME NEW i \in 1 .. Len(Frames(k))  PROVE FALSE
    <3>1. Frames(k)[i] \in Frame  BY <2>3, ElementOfSeq
    <3>2. Frames(k)[i].number = current_frame - Back(k)  BY DEF Inv, Numbered
    <3> QED  BY <2>2, <3>1, <3>2 DEF Frame
  <2>5. Len(Frames(k)) = 0  BY <2>3, <2>4, LenProperties
  <2> QED  BY <2>3, <2>5, EmptySeq
<1> QED  BY <1>3, <1>4 DEF Emptied, Back, Frames

\* The steps that only change the mode of the block
LEMMA QuietInv ==
  ASSUME Inv, Drop \/ ReceiveEof \/ FlushEnd \/ Stop \/ WorkAfterStop
  PROVE  Inv'
<1>1. /\ UNCHANGED <<options, current_frame, storage_offset, storage, offered, pending, accepted>>
      /\ mode \in {"idle", "flushing", "stopping"}
      /\ mode' \in {"idle", "flushing", "stopping", "done"}
      /\ arrivals' \in {arrivals, arrivals + 1}
      /\ out' \in {out, Append(out, EOF)}
      /\ mode' = "flushing" => flush_next' = FlushFirst
      /\ mode' # "flushing" => flush_next' = flush_next
      /\ stopped' \in {stopped, TRUE} /\ flushed' \in {flushed, TRUE}
      /\ flush_eof' \in {flush_eof, TRUE, FALSE}
  BY DEF Drop, ReceiveEof, FlushEnd, Stop, WorkAfterStop
<1>2. mode' # "storing"  BY <1>1
<1>3. /\ Numbered' /\ Distinct' /\ Best' /\ AllOlder' /\ NothingTwice'
      /\ out' \in Seq(Frame \cup {EOF})
  BY <1>1, <1>2, QuietStep
<1>4. Emptied' /\ flush_next' \in Nat
  <2>1. CASE mode' = "flushing"  BY <1>1, <2>1, FlushBegins
  <2>2. CASE mode' # "flushing"  BY <1>1, <2>2 DEF Emptied, Inv, TypeOK
  <2> QED  BY <2>1, <2>2
<1>5. TypeOK'
  <2>1. stopped' \in BOOLEAN /\ flushed' \in BOOLEAN /\ flush_eof' \in BOOLEAN
    BY <1>1 DEF Inv, TypeOK
  <2>2. arrivals' \in Nat  BY <1>1 DEF Inv, TypeOK
  <2>3. mode' \in {"idle", "storing", "flushing", "stopping", "done"}  BY <1>1
  <2> QED  BY <1>1, <1>2, <1>3, <1>4, <2>1, <2>2, <2>3 DEF Inv, TypeOK
<1> QED  BY <1>3, <1>4, <1>5 DEF Inv

\* The flush sends one slot more
LEMMA FlushStepInv == ASSUME Inv, FlushStep  PROVE Inv'
<1> DEFINE s == SlotOf(flush_next)
<1>1. /\ TypeOK /\ mode = "flushing" /\ flush_next <= current_frame
      /\ flush_next \in Nat /\ current_frame \in Nat /\ flush_next + Window > current_frame
      /\ Window \in Nat
  BY WindowType DEF Inv, FlushStep, Emptied, TypeOK
<1>2. s \in Slots /\ Back(s) = current_frame - flush_next
  BY <1>1, SlotOfNumber
<1>3. /\ storage' \in [Slots -> Slot] /\ storage'[s].frames = <<>>
      /\ \A k \in Slots \ {s} : storage'[k] = storage[k]
  BY <1>1, <1>2, ClearedSlot DEF FlushStep
<1>4. /\ offered' \in [Slots -> SUBSET Frame] /\ offered'[s] = {}
      /\ \A k \in Slots \ {s} : offered'[k] = offered[k]
  BY <1>1, <1>2 DEF FlushStep, TypeOK
<1>5. /\ UNCHANGED <<options, current_frame, storage_offset, stopped, flushed, mode, pending,
                     flush_eof, arrivals, accepted>>
      /\ flush_next' = flush_next + 1 /\ out' = out \o Frames(s)
  BY DEF FlushStep, Frames, Sent
<1> HIDE DEF s
<1>6. SomeEmptied  BY <1>3, <1>4, <1>5 DEF SomeEmptied
<1>7. /\ Distinct' /\ Best' /\ NothingTwice' /\ AllOlder'
      /\ out' \in Seq(Frame \cup {EOF})
  <2>1. /\ Distinct' /\ Best'
        /\ \A k \in Slots : \A f \in offered'[k] : Older(f)'
        /\ \A k \in Slots : \A i \in 1 .. Len(Frames(k)') : Older(Frames(k)[i])'
    BY <1>1, <1>6, EmptiedInv DEF Inv
  <2>2. /\ NothingTwice' /\ out' \in Seq(Frame \cup {EOF})
        /\ \A j \in 1 .. Len(out') : out'[j] # EOF => Older(out[j])'
    BY <1>2, <1>3, <1>5, <1>6, SentInv DEF Inv
  <2>3. mode' # "storing"  BY <1>1, <1>5
  <2> QED  BY <2>1, <2>2, <2>3 DEF AllOlder
<1>8. \A k \in Slots : Back(k)' = Back(k) /\ (Frames(k)' = Frames(k) \/ Frames(k)' = <<>>)
  BY <1>3, <1>5 DEF Back, Frames
<1>9. Numbered'
  <2> SUFFICES ASSUME NEW k \in Slots, NEW i \in 1 .. Len(Frames(k)')
               PROVE  Frames(k)'[i].number = (current_frame - Back(k))'
    BY DEF Numbered
  <2>1. Frames(k)' = Frames(k)  BY <1>8, EmptySeq
  <2> QED  BY <1>5, <1>8, <2>1 DEF Inv, Numbered
<1>10. Emptied'
  <2> SUFFICES ASSUME NEW k \in Slots, current_frame - Back(k) < flush_next + 1
               PROVE  Frames(k)' = <<>>
    BY <1>1, <1>5, <1>8 DEF Emptied
  <2>1. Back(k) \in Int  BY <1>1, BackRange, WindowType
  <2>2. CASE current_frame - Back(k) < flush_next
    BY <1>1, <1>8, <2>2 DEF Inv, Emptied
  <2>3. CASE current_frame - Back(k) = flush_next
    <3>1. Back(k) = Back(s)  BY <1>1, <1>2, <2>1, <2>3
    <3>2. k = s  BY <1>1, <1>2, <3>1, BackInjective
    <3> QED  BY <1>3, <3>2 DEF Frames
  <2> QED  BY <1>1, <2>1, <2>2, <2>3
<1>11. TypeOK'
  BY <1>1, <1>3, <1>4, <1>5, <1>7 DEF TypeOK
<1> QED  BY <1>7, <1>9, <1>10, <1>11 DEF Inv

\* The window moves: the slot of the frame that leaves is that of the current frame, the
\* next one is emptied, and every other slot lies one further behind
LEMMA MoveWindowInv == ASSUME Inv, MoveWindow  PROVE Inv'
<1> DEFINE send == current_frame >= Window
           s == storage_offset
           n == current_frame - Window
<1>1. /\ TypeOK /\ mode = "storing" /\ current_frame < pending.number
      /\ current_frame \in Nat /\ Window \in Nat /\ s \in Slots
      /\ storage \in [Slots -> Slot] /\ offered \in [Slots -> SUBSET Frame]
      /\ pending \in Frame /\ pending.number \in Nat
  BY WindowType DEF Inv, MoveWindow, TypeOK, Frame
<1>2. NewOffset \in Slots /\ storage_offset' = NewOffset
  BY <1>1, Moved, WindowType DEF MoveWindow
<1>3. send => SlotOf(n) = s
  BY <1>1, SlotOfNumber
<1>4. /\ UNCHANGED <<options, stopped, flushed, mode, pending, flush_next, flush_eof,
                     arrivals, accepted>>
      /\ current_frame' = current_frame + 1
      /\ out' = IF send THEN out \o Frames(s) ELSE out
  BY <1>3 DEF MoveWindow, Frames, Sent
<1>5. /\ storage' \in [Slots -> Slot] /\ storage'[NewOffset].frames = <<>>
      /\ send => storage'[s].frames = <<>>
      /\ \A k \in Slots \ {NewOffset} : ~send \/ k # s => storage'[k] = storage[k]
  <2> DEFINE C == IF send THEN Cleared(n) ELSE storage
  <2>1. /\ C \in [Slots -> Slot]
        /\ send => C[s].frames = <<>>
        /\ \A k \in Slots : ~send \/ k # s => C[k] = storage[k]
    BY <1>1, <1>3, ClearedSlot
  <2>2. storage' = [C EXCEPT ![NewOffset] = EmptySlot]  BY DEF MoveWindow
  <2>3. EmptySlot \in Slot /\ EmptySlot.frames = <<>>  BY EmptySeq DEF EmptySlot, Slot
  <2> HIDE DEF C, send, s
  <2>4. /\ storage' \in [Slots -> Slot]
        /\ \A k \in Slots : storage'[k] = IF k = NewOffset THEN EmptySlot ELSE C[k]
    BY <2>1, <2>2, <2>3
  <2> QED  BY <1>1, <1>2, <2>1, <2>3, <2>4
<1>6. /\ offered' \in [Slots -> SUBSET Frame] /\ offered'[NewOffset] = {}
      /\ send => offered'[s] = {}
      /\ \A k \in Slots \ {NewOffset} : ~send \/ k # s => offered'[k] = offered[k]
  <2> DEFINE C == IF send THEN [offered EXCEPT ![s] = {}] ELSE offered
  <2>1. /\ C \in [Slots -> SUBSET Frame]
        /\ send => C[s] = {}
        /\ \A k \in Slots : ~send \/ k # s => C[k] = offered[k]
    BY <1>1
  <2>2. offered' = [C EXCEPT ![NewOffset] = {}]  BY <1>3 DEF MoveWindow
  <2> HIDE DEF C, send, s
  <2>3. /\ offered' \in [Slots -> SUBSET Frame]
        /\ \A k \in Slots : offered'[k] = IF k = NewOffset THEN {} ELSE C[k]
    BY <2>1, <2>2
  <2> QED  BY <1>1, <1>2, <2>1, <2>3
<1> HIDE DEF send, n
<1>7. SomeEmptied  BY <1>4, <1>5, <1>6 DEF SomeEmptied
<1>8. /\ Distinct' /\ Best'
      /\ \A k \in Slots : \A f \in offered'[k] : Older(f)'
      /\ \A k \in Slots : \A i \in 1 .. Len(Frames(k)') : Older(Frames(k)[i])'
  BY <1>1, <1>7, EmptiedInv DEF Inv
<1>9. /\ NothingTwice' /\ out' \in Seq(Frame \cup {EOF})
      /\ \A j \in 1 .. Len(out') : out'[j] # EOF => Older(out[j])'
  <2>1. CASE send
    BY <1>1, <1>4, <1>5, <1>7, <2>1, SentInv DEF Inv
  <2>2. CASE ~send
    <3>1. out' = out  BY <1>4, <2>2
    <3>2. \A k \in Slots : storage'[k] = storage[k] \/ storage'[k].frames = <<>>
      BY <1>7 DEF SomeEmptied
    <3>3. NothingTwice'
      <4>1. \A k \in Slots : \A i \in 1 .. Len(storage'[k].frames), j \in 1 .. Len(out) :
              storage'[k].frames[i] # out[j]
        BY <3>2, EmptySeq DEF Inv, NothingTwice
      <4> QED  BY <3>1, <4>1 DEF Inv, NothingTwice
    <3>4. \A j \in 1 .. Len(out') : out'[j] # EOF => Older(out[j])'
      BY <3>1, <1>4 DEF Inv, AllOlder, Older
    <3> QED  BY <1>1, <3>1, <3>3, <3>4 DEF TypeOK
  <2> QED  BY <2>1, <2>2
<1>10. AllOlder'
  <2>1. pending'.id <= arrivals'  BY <1>1, <1>4 DEF Inv, AllOlder
  <2> QED  BY <1>8, <1>9, <2>1 DEF AllOlder
<1>11. Numbered'
  <2> SUFFICES ASSUME NEW k \in Slots, NEW i \in 1 .. Len(Frames(k)')
               PROVE  Frames(k)'[i].number = (current_frame - Back(k))'
    BY DEF Numbered
  <2>1. Frames(k)' # <<>>  BY EmptySeq
  <2>2. k # NewOffset /\ Frames(k)' = Frames(k)
    BY <1>5, <2>1 DEF Frames
  <2>3. Back(k)' = Back(k) + 1  BY <1>1, <1>2, <2>2, Moved
  <2>4. Frames(k)[i].number = current_frame - Back(k)  BY <2>2 DEF Inv, Numbered
  <2>5. Back(k) \in Int  BY <1>1, BackRange, WindowType
  <2> QED  BY <1>1, <1>4, <2>2, <2>3, <2>4, <2>5
<1>12. Emptied'  BY <1>1, <1>4 DEF Emptied
<1>13. TypeOK'
  <2>1. pending'.number + Window > current_frame'
    BY <1>1, <1>4, WindowType
  <2>2. current_frame' \in Nat  BY <1>1, <1>4
  <2> QED  BY <1>1, <1>2, <1>4, <1>5, <1>6, <1>9, <2>1, <2>2 DEF TypeOK
<1> QED  BY <1>8, <1>9, <1>10, <1>11, <1>12, <1>13 DEF Inv

\* store_frame puts a younger frame into its slot: the slot stays sound, and holds
\* nothing but its old frames and the new one, each once
LEMMA KeptFrames ==
  ASSUME options \in OptionRecord, NEW f \in Frame, NEW slot \in Slot,
         NEW frames \in SUBSET Frame, SlotBest(slot, frames),
         \A g \in frames : g.id < f.id,
         \A i \in 1 .. Len(slot.frames) : slot.frames[i].id < f.id,
         \A i, j \in 1 .. Len(slot.frames) : slot.frames[i] = slot.frames[j] => i = j
  PROVE  /\ Kept(f, slot) \in Slot
         /\ \A i \in 1 .. Len(Kept(f, slot).frames) :
              \/ Kept(f, slot).frames[i] = f
              \/ \E j \in 1 .. Len(slot.frames) : Kept(f, slot).frames[i] = slot.frames[j]
         /\ \A i, j \in 1 .. Len(Kept(f, slot).frames) :
              Kept(f, slot).frames[i] = Kept(f, slot).frames[j] => i = j
         /\ SlotBest(Kept(f, slot), frames \cup {f})
<1> DEFINE k == Kept(f, slot)
           s == slot.frames
           best == s[slot.best_index + 1]
<1>1. /\ s \in Seq(Frame) /\ Len(s) \in Nat /\ slot.best_index \in Nat /\ slot.best_value \in Nat
      /\ f.id \in Nat /\ f.score \in Nat
      /\ \A g \in Frame : g.id \in Nat /\ g.score \in Nat
      /\ \A i \in 1 .. Len(s) : s[i] \in Frame
  BY LenProperties, ElementOfSeq DEF Slot, Frame
<1>2. options.scored \in BOOLEAN /\ options.highest \in BOOLEAN /\ options.duplicates \in BOOLEAN
  BY DEF OptionRecord
<1>3. AtLeastAsGood(f, f)  BY <1>1 DEF AtLeastAsGood, ScoresAtLeast
<1>4. CASE s = <<>>
  <2>1. k = [frames |-> <<f>>, best_index |-> 0, best_value |-> f.score]
    BY <1>4 DEF Kept
  <2>2. /\ k.frames = <<f>> /\ k.best_index = 0 /\ k.best_value = f.score
        /\ <<f>> \in Seq(Frame) /\ Len(<<f>>) = 1 /\ <<f>>[1] = f /\ <<f>> # <<>>
    BY <2>1
  <2>3. k \in Slot  BY <1>1, <2>1, <2>2 DEF Slot
  <2>4. frames = {}  BY <1>4 DEF SlotBest
  <2>5. {<<f>>[i] : i \in 1 .. 1} = {f}  BY <2>2
  <2>6. SlotBest(k, {f})
    BY <1>3, <2>2, <2>5 DEF SlotBest
  <2>7. frames \cup {f} = {f}  BY <2>4
  <2>8. \A i \in 1 .. Len(k.frames) : i = 1 /\ k.frames[i] = f  BY <2>2
  <2> HIDE DEF k
  <2> QED  BY <2>3, <2>6, <2>7, <2>8 DEF k
<1>5. ASSUME s # <<>>
      PROVE  /\ frames # {} /\ slot.best_index + 1 \in 1 .. Len(s) /\ best \in frames
             /\ best.score = slot.best_value /\ best \in Frame /\ best.id < f.id
             /\ \A g \in frames : AtLeastAsGood(best, g)
             /\ options.duplicates => {s[i] : i \in 1 .. Len(s)} = frames
             /\ ~options.duplicates => Len(s) = 1
  BY <1>1, <1>5 DEF SlotBest
\* The one that best_index points at afterwards is the best of all
<1>6. ASSUME s # <<>>, Better(f, slot)
      PROVE  \A g \in frames \cup {f} : AtLeastAsGood(f, g)
  <2> SUFFICES ASSUME NEW g \in frames  PROVE AtLeastAsGood(f, g)
    BY <1>3
  <2>1. AtLeastAsGood(best, g) /\ best.score = slot.best_value /\ best \in Frame /\ g \in Frame
    BY <1>5, <1>6
  <2>2. g.id < f.id  OBVIOUS
  <2> HIDE DEF best
  <2>3. /\ best.score \in Nat /\ g.score \in Nat /\ g.id \in Nat /\ f.id \in Nat /\ f.score \in Nat
        /\ slot.best_value \in Nat
    BY <1>1, <2>1
  <2> QED  BY <1>2, <1>6, <2>1, <2>2, <2>3 DEF AtLeastAsGood, ScoresAtLeast, Better
<1>7. ASSUME s # <<>>, ~Better(f, slot)
      PROVE  \A g \in frames \cup {f} : AtLeastAsGood(best, g)
  <2>1. /\ best.score = slot.best_value /\ best \in Frame /\ best.id < f.id
        /\ \A g \in frames : AtLeastAsGood(best, g)
    BY <1>5, <1>7
  <2> HIDE DEF best
  <2>2. best.score \in Nat /\ best.id \in Nat  BY <1>1, <2>1
  <2>3. AtLeastAsGood(best, f)
    BY <1>1, <1>2, <1>7, <2>1, <2>2 DEF AtLeastAsGood, ScoresAtLeast, Better
  <2> QED  BY <2>1, <2>3
<1>8. CASE s # <<>> /\ options.duplicates
  <2> DEFINE a == Append(s, f)
             n == Len(s)
  <2>1. k = [frames     |-> a,
             best_index |-> IF Better(f, slot) THEN n ELSE slot.best_index,
             best_value |-> IF Better(f, slot) THEN f.score ELSE slot.best_value]
    BY <1>8 DEF Kept
  <2>2. /\ a \in Seq(Frame) /\ Len(a) = n + 1 /\ a # <<>>
        /\ a[n + 1] = f /\ \A i \in 1 .. n : a[i] = s[i]
    BY <1>1, AppendProperties
  <2>3. k \in Slot  BY <1>1, <2>1, <2>2 DEF Slot
  <2>4. \A i \in 1 .. Len(a) : a[i] = f \/ \E j \in 1 .. n : a[i] = s[j]
    BY <1>1, <2>2
  <2>5. \A i \in 1 .. n : s[i] # f  BY <1>1
  <2>6. \A i, j \in 1 .. Len(a) : a[i] = a[j] => i = j
    <3> HIDE DEF a
    <3> SUFFICES ASSUME NEW i \in 1 .. n + 1, NEW j \in 1 .. n + 1, a[i] = a[j]
                 PROVE  i = j
      BY <2>2
    <3>1. CASE i <= n /\ j <= n
      <4>1. i \in 1 .. n /\ j \in 1 .. n /\ s[i] = s[j]  BY <1>1, <2>2, <3>1
      <4> QED  BY <4>1
    <3>2. CASE i <= n /\ j = n + 1  BY <1>1, <2>2, <2>5, <3>2
    <3>3. CASE i = n + 1 /\ j <= n  BY <1>1, <2>2, <2>5, <3>3
    <3>4. n \in Nat  BY <1>1
    <3> HIDE DEF n
    <3>5. i = n + 1 \/ i <= n  BY <3>4
    <3>6. j = n + 1 \/ j <= n  BY <3>4
    <3> QED  BY <3>1, <3>2, <3>3, <3>5, <3>6
  <2>7. {a[i] : i \in 1 .. Len(a)} = frames \cup {f}
    <3>1. {s[i] : i \in 1 .. n} = frames  BY <1>5, <1>8
    <3> HIDE DEF a
    <3>2. 1 .. n + 1 = (1 .. n) \cup {n + 1}  BY <1>1
    <3> QED  BY <2>2, <3>1, <3>2
  <2>8. k.frames = a /\ Len(k.frames) = n + 1  BY <2>1, <2>2
  <2>9. /\ k.best_index + 1 \in 1 .. n + 1
        /\ a[k.best_index + 1] = IF Better(f, slot) THEN f ELSE best
        /\ k.best_value = IF Better(f, slot) THEN f.score ELSE best.score
    <3>1. slot.best_index + 1 \in 1 .. n /\ best.score = slot.best_value  BY <1>5, <1>8
    <3>2. a[slot.best_index + 1] = best  BY <2>2, <3>1
    <3> QED  BY <1>1, <2>1, <2>2, <3>1, <3>2
  <2> HIDE DEF k, a
  <2>10. SlotBest(k, frames \cup {f})
    <3>1. k.frames[k.best_index + 1] = IF Better(f, slot) THEN f ELSE best  BY <2>8, <2>9
    <3>2. \A g \in frames \cup {f} : AtLeastAsGood(k.frames[k.best_index + 1], g)
      BY <1>6, <1>7, <1>8, <3>1
    <3>3. k.frames[k.best_index + 1] \in frames \cup {f}  BY <1>5, <1>8, <3>1
    <3>4. k.frames[k.best_index + 1].score = k.best_value  BY <2>9, <3>1
    <3>5. {k.frames[i] : i \in 1 .. Len(k.frames)} = frames \cup {f}  BY <2>7, <2>8
    <3>6. k.frames # <<>> /\ k.best_index + 1 \in 1 .. Len(k.frames)  BY <2>2, <2>8, <2>9
    <3> QED  BY <1>8, <3>2, <3>3, <3>4, <3>5, <3>6 DEF SlotBest
  <2> QED  BY <2>3, <2>4, <2>6, <2>8, <2>10 DEF k
<1>9. CASE s # <<>> /\ ~options.duplicates /\ Better(f, slot)
  <2> DEFINE e == [s EXCEPT ![1] = f]
  <2>1. k = [frames |-> e, best_index |-> 0, best_value |-> f.score]
    BY <1>9 DEF Kept
  <2>2. Len(s) = 1  BY <1>5, <1>9
  <2>3. e \in Seq(Frame) /\ Len(e) = 1 /\ e[1] = f
    BY <1>1, <2>2, ExceptSeq
  <2>4. e # <<>>  BY <2>3, EmptySeq
  <2> HIDE DEF e
  <2>5. /\ k.frames = e /\ k.best_index = 0 /\ k.best_value = f.score /\ k \in Slot
    BY <1>1, <2>1, <2>3 DEF Slot
  <2> HIDE DEF k
  <2>6. SlotBest(k, frames \cup {f})
    BY <1>6, <1>9, <2>3, <2>4, <2>5 DEF SlotBest
  <2>7. \A i \in 1 .. Len(e) : i = 1  BY <2>3
  <2>8. \A i \in 1 .. Len(e) : i = 1 /\ e[i] = f  BY <2>3, <2>7
  <2>9. \A i \in 1 .. Len(k.frames) : i = 1 /\ k.frames[i] = f  BY <2>5, <2>8
  <2> QED  BY <2>5, <2>6, <2>9 DEF k
<1>10. CASE s # <<>> /\ ~options.duplicates /\ ~Better(f, slot)
  <2>1. k = slot  BY <1>10 DEF Kept
  <2>2. SlotBest(slot, frames \cup {f})
    BY <1>5, <1>7, <1>10 DEF SlotBest
  <2> QED  BY <2>1, <2>2
<1> QED  BY <1>4, <1>8, <1>9, <1>10

\* store_frame ends: the frame joins those of its number
LEMMA StoreFrameInv == ASSUME Inv, StoreFrame  PROVE Inv'
<1>1. /\ TypeOK /\ mode = "storing" /\ pending \in Frame /\ pending.number \in Nat
      /\ pending.number <= current_frame /\ pending.number + Window > current_frame
      /\ current_frame \in Nat /\ arrivals \in Nat /\ Window \in Nat
      /\ storage \in [Slots -> Slot] /\ offered \in [Slots -> SUBSET Frame]
      /\ options \in OptionRecord
  BY WindowType DEF Inv, StoreFrame, TypeOK, Frame
<1>0. SlotOf(pending.number) \in Slots
  BY <1>1, SlotOfNumber
<1> PICK s \in Slots : s = SlotOf(pending.number)
  BY <1>0
<1>2. s \in Slots /\ Back(s) = current_frame - pending.number
  BY <1>1, SlotOfNumber
<1>3. /\ UNCHANGED <<options, current_frame, storage_offset, stopped, flushed,
                     flush_next, flush_eof, out, arrivals>>
      /\ mode' = "idle" /\ pending' = NoFrame
      /\ storage' = [storage EXCEPT ![s] = Kept(pending, storage[s])]
      /\ offered' = [offered EXCEPT ![s] = offered[s] \cup {pending}]
      /\ accepted' = accepted \cup {pending}
  BY DEF StoreFrame
<1>4. pending.id <= arrivals  BY <1>1 DEF Inv, AllOlder
<1>5. /\ \A k \in Slots : \A f \in offered[k] : f.id < pending.id /\ f.id <= arrivals
      /\ \A k \in Slots : \A i \in 1 .. Len(Frames(k)) :
           Frames(k)[i].id < pending.id /\ Frames(k)[i].id <= arrivals
      /\ \A j \in 1 .. Len(out) : out[j] # EOF => out[j].id < pending.id /\ out[j].id <= arrivals
  BY <1>1 DEF Inv, AllOlder, Older
<1>6. /\ Kept(pending, storage[s]) \in Slot
      /\ \A i \in 1 .. Len(Kept(pending, storage[s]).frames) :
           \/ Kept(pending, storage[s]).frames[i] = pending
           \/ \E j \in 1 .. Len(Frames(s)) : Kept(pending, storage[s]).frames[i] = Frames(s)[j]
      /\ \A i, j \in 1 .. Len(Kept(pending, storage[s]).frames) :
           Kept(pending, storage[s]).frames[i] = Kept(pending, storage[s]).frames[j] => i = j
      /\ SlotBest(Kept(pending, storage[s]), offered[s] \cup {pending})
  <2>1. storage[s] \in Slot /\ offered[s] \in SUBSET Frame  BY <1>1, <1>2
  <2>2. SlotBest(storage[s], offered[s])  BY <1>2 DEF Inv, Best
  <2>3. \A i \in 1 .. Len(storage[s].frames) : storage[s].frames[i].id < pending.id
    BY <1>2, <1>5 DEF Frames
  <2>4. \A i, j \in 1 .. Len(storage[s].frames) :
          storage[s].frames[i] = storage[s].frames[j] => i = j
    BY <1>2 DEF Inv, Distinct, Frames
  <2>5. \A g \in offered[s] : g.id < pending.id  BY <1>2, <1>5
  <2> QED  BY <1>1, <2>1, <2>2, <2>3, <2>4, <2>5, KeptFrames DEF Frames
<1>7. /\ Frames(s)' = Kept(pending, storage[s]).frames
      /\ storage'[s] = Kept(pending, storage[s]) /\ offered'[s] = offered[s] \cup {pending}
      /\ \A k \in Slots \ {s} :
           storage'[k] = storage[k] /\ offered'[k] = offered[k] /\ Frames(k)' = Frames(k)
      /\ \A k \in Slots : Back(k)' = Back(k)
  <2>1. storage'[s] = Kept(pending, storage[s]) /\ offered'[s] = offered[s] \cup {pending}
    BY <1>1, <1>3
  <2>2. \A k \in Slots \ {s} : storage'[k] = storage[k] /\ offered'[k] = offered[k]
    BY <1>1, <1>3
  <2> QED  BY <1>3, <2>1, <2>2 DEF Frames, Back
\* A stored frame is the new one, in slot s, or was stored before
<1>8. ASSUME NEW k \in Slots, NEW i \in 1 .. Len(Frames(k)')
      PROVE  \/ k = s /\ Frames(k)'[i] = pending
             \/ \E j \in 1 .. Len(Frames(k)) : Frames(k)'[i] = Frames(k)[j]
  <2>1. CASE k = s  BY <1>6, <1>7, <2>1
  <2>2. CASE k # s  BY <1>7, <2>2
  <2> QED  BY <2>1, <2>2
<1>9. TypeOK'
  <2>1. storage' \in [Slots -> Slot] /\ offered' \in [Slots -> SUBSET Frame]
    BY <1>1, <1>2, <1>3, <1>6
  <2> QED  BY <1>1, <1>3, <2>1 DEF TypeOK
<1>10. Numbered'
  <2> SUFFICES ASSUME NEW k \in Slots, NEW i \in 1 .. Len(Frames(k)')
               PROVE  Frames(k)'[i].number = (current_frame - Back(k))'
    BY DEF Numbered
  <2>0. (current_frame - Back(k))' = current_frame - Back(k)  BY <1>3, <1>7
  <2>1. CASE k = s /\ Frames(k)'[i] = pending
    BY <1>1, <1>2, <2>0, <2>1
  <2>2. CASE \E j \in 1 .. Len(Frames(k)) : Frames(k)'[i] = Frames(k)[j]
    BY <2>0, <2>2 DEF Inv, Numbered
  <2> QED  BY <1>8, <2>1, <2>2
<1>11. AllOlder'
  <2>1. \A f : Older(f)' <=> f.id <= arrivals  BY <1>3 DEF Older
  <2>2. \A k \in Slots : \A f \in offered'[k] : f.id <= arrivals
    BY <1>4, <1>5, <1>7
  <2>3. \A k \in Slots : \A i \in 1 .. Len(Frames(k)') : Frames(k)'[i].id <= arrivals
    BY <1>4, <1>5, <1>8
  <2>4. mode' # "storing"  BY <1>3
  <2>5. \A k \in Slots : \A i \in 1 .. Len(Frames(k)') : Older(Frames(k)[i])'
    BY <1>3, <2>3 DEF Older
  <2>6. \A k \in Slots : \A f \in offered'[k] : Older(f)'  BY <2>1, <2>2
  <2>7. \A j \in 1 .. Len(out') : out'[j] # EOF => Older(out[j])'
    BY <1>3, <1>5 DEF Older
  <2> QED  BY <2>4, <2>5, <2>6, <2>7 DEF AllOlder
<1>12. Distinct'
  <2> SUFFICES ASSUME NEW k \in Slots
               PROVE  \A i, j \in 1 .. Len(Frames(k)') : Frames(k)'[i] = Frames(k)'[j] => i = j
    BY DEF Distinct
  <2>1. CASE k = s  BY <1>6, <1>7, <2>1
  <2>2. CASE k # s  BY <1>7, <2>2 DEF Inv, Distinct
  <2> QED  BY <2>1, <2>2
<1>13. NothingTwice'
  <2> SUFFICES ASSUME NEW k \in Slots, NEW i \in 1 .. Len(Frames(k)'), NEW j \in 1 .. Len(out)
               PROVE  Frames(k)'[i] # out[j]
    BY <1>3 DEF Inv, NothingTwice, Frames
  <2>1. CASE Frames(k)'[i] = pending
    BY <1>1, <1>5, <2>1, FrameNotEof DEF Frame
  <2>2. CASE \E l \in 1 .. Len(Frames(k)) : Frames(k)'[i] = Frames(k)[l]
    BY <2>2 DEF Inv, NothingTwice, Frames
  <2> QED  BY <1>8, <2>1, <2>2
<1>14. Best'
  <2> SUFFICES ASSUME NEW k \in Slots  PROVE SlotBest(storage[k], offered[k])'
    BY DEF Best
  <2>1. CASE k = s
    <3>1. SlotBest(storage'[k], offered'[k])  BY <1>6, <1>7, <2>1
    <3>2. options' = options  BY <1>3
    <3> QED  BY <3>1, <3>2 DEF SlotBest, AtLeastAsGood, ScoresAtLeast
  <2>2. CASE k # s
    BY <1>3, <1>7, <2>2 DEF Inv, Best, SlotBest, AtLeastAsGood, ScoresAtLeast
  <2> QED  BY <2>1, <2>2
<1>15. Emptied'  BY <1>3 DEF Emptied
<1> QED  BY <1>9, <1>10, <1>11, <1>12, <1>13, <1>14, <1>15 DEF Inv

-----------------------------------------------------------------------------
(* The theorems *)

\* Every action keeps the invariant
LEMMA NextInv == Inv /\ [Next]_vars => Inv'
<1> SUFFICES ASSUME Inv, [Next]_vars  PROVE Inv'
  OBVIOUS
<1>1. CASE \E n \in 0 .. MaxNumber, s \in Scores : Receive(n, s)  BY <1>1, ReceiveInv
<1>2. CASE MoveWindow  BY <1>2, MoveWindowInv
<1>3. CASE StoreFrame  BY <1>3, StoreFrameInv
<1>4. CASE FlushStep  BY <1>4, FlushStepInv
<1>5. CASE Drop \/ ReceiveEof \/ FlushEnd \/ Stop \/ WorkAfterStop  BY <1>5, QuietInv
<1>6. CASE UNCHANGED vars
  <2> USE <1>6 DEF vars
  <2>1. Numbered' /\ Distinct' /\ Best'  BY RingUnchanged
  <2>2. TypeOK'  BY DEF Inv, TypeOK
  <2>3. AllOlder'
    <3>1. \A k \in Slots : \A f \in offered'[k] : Older(f)'  BY DEF Inv, AllOlder, Older
    <3>2. \A k \in Slots : \A i \in 1 .. Len(Frames(k)') : Older(Frames(k)[i])'
      BY DEF Inv, AllOlder, Older, Frames
    <3>3. \A j \in 1 .. Len(out') : out'[j] # EOF => Older(out[j])'
      BY DEF Inv, AllOlder, Older
    <3> QED  BY <3>1, <3>2, <3>3 DEF Inv, AllOlder
  <2>4. NothingTwice' /\ Emptied'  BY DEF Inv, NothingTwice, Emptied, Back, Frames
  <2> QED  BY <2>1, <2>2, <2>3, <2>4 DEF Inv
<1> QED  BY <1>1, <1>2, <1>3, <1>4, <1>5, <1>6 DEF Next

\* The invariant holds whatever frames, duplicates, gaps and ends of the stream arrive
\* (store_frame, flush_frames, advance_storage).
THEOREM SortInvariant == Spec => []Inv
  BY InitInv, NextInv, PTL DEF Spec

\* The variables of sort_frames_impl keep their shape for every window and any number of
\* frames; in particular the slot that is written is one of the ring.
THEOREM SortTypeCorrect == Spec => []TypeOK
<1>1. Inv => TypeOK  BY DEF Inv
<1> QED  BY <1>1, SortInvariant, PTL

\* The slot get_duplicates finds for a number of the window holds frames of that number only.
THEOREM SortSlotsHoldOwnNumber == Spec => []SlotsHoldOwnNumber
<1>1. Inv => SlotsHoldOwnNumber
  <2> SUFFICES ASSUME Inv, NEW n \in InWindow,
                      NEW i \in 1 .. Len(storage[SlotOf(n)].frames)
               PROVE  storage[SlotOf(n)].frames[i].number = n
    BY DEF SlotsHoldOwnNumber
  <2>1. TypeOK /\ Numbered /\ current_frame \in Nat /\ Window \in Nat /\ Window >= 1
    BY WindowType DEF Inv, TypeOK
  <2>2. n \in Int /\ n <= current_frame /\ n + Window > current_frame
    BY <2>1 DEF InWindow, MinusCapZero
  <2>3. SlotOf(n) \in Slots /\ Back(SlotOf(n)) = current_frame - n
    BY <2>1, <2>2, SlotOfNumber
  <2>4. Frames(SlotOf(n))[i].number = current_frame - Back(SlotOf(n))
    BY <2>1, <2>3 DEF Numbered, Frames
  <2> QED  BY <2>1, <2>2, <2>3, <2>4 DEF Frames
<1> QED  BY <1>1, SortInvariant, PTL

\* No frame is published twice, or published and kept (send_frame, flush_frames).
THEOREM SortNothingTwice == Spec => []NothingTwice
<1>1. Inv => NothingTwice  BY DEF Inv
<1> QED  BY <1>1, SortInvariant, PTL

\* The right duplicates are kept in every order of arrival (store_frame).
THEOREM SortBestIsKept == Spec => []BestIsKept
<1>1. Inv => BestIsKept
  <2> SUFFICES ASSUME Inv, NEW k \in Slots
               PROVE  /\ storage[k].frames = <<>> <=> offered[k] = {}
                      /\ offered[k] # {} =>
                           LET best == storage[k].frames[storage[k].best_index + 1]
                           IN /\ best \in offered[k]
                              /\ options.scored => \A f \in offered[k] : ScoresAtLeast(best, f)
                              /\ IF options.duplicates
                                 THEN {storage[k].frames[i] : i \in 1 .. Len(storage[k].frames)}
                                        = offered[k]
                                 ELSE Len(storage[k].frames) = 1
    BY DEF BestIsKept
  <2>1. SlotBest(storage[k], offered[k])  BY DEF Inv, Best
  <2> QED  BY <2>1 DEF SlotBest, AtLeastAsGood
<1> QED  BY <1>1, SortInvariant, PTL

\* flush_frames covers every slot: nothing is left when EOF is passed on.
THEOREM SortNothingLeftAtEof == Spec => []NothingLeftAtEof
<1>1. Inv => NothingLeftAtEof
  <2> SUFFICES ASSUME Inv, mode = "flushing", flush_next > current_frame, NEW k \in Slots
               PROVE  storage[k].frames = <<>>
    BY DEF NothingLeftAtEof
  <2>1. current_frame \in Nat /\ flush_next \in Nat /\ Window \in Nat /\ TypeOK
    BY WindowType DEF Inv, TypeOK
  <2>2. Back(k) \in 0 .. Window - 1  BY <2>1, BackRange
  <2>3. current_frame - Back(k) < flush_next  BY <2>1, <2>2
  <2> QED  BY <2>3 DEF Inv, Emptied, Frames
<1> QED  BY <1>1, SortInvariant, PTL
=============================================================================
