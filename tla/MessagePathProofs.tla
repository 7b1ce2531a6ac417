-------------------------- MODULE MessagePathProofs --------------------------
(***************************************************************************)
(* Proofs about MessagePath, for any connection of its blocks, any lengths  *)
(* of messages and bytes of input, any messages posted by others and any    *)
(* order of the threads:                                                   *)
(*                                                                         *)
(*   PathTypeCorrect    what is in the queues and variables keeps its type  *)
(*   PathEofLast        no block sends a message after EOF                  *)
(*   PathStreamWhole    the bytes put out are those of the messages         *)
(*   PathHeadersInStep  each header is at the first byte of its message     *)
(*   PathFramesArrive   the frames at the ends are those of the input       *)
(*                                                                         *)
(* None of the last four is inductive.  EofLast needs what the receivers    *)
(* have seen and what is still under way to them (EofInv); StreamWhole and   *)
(* HeadersInStep need how many of the messages that came a source has       *)
(* handled, and what it made of them (StreamInv); FramesArrive needs what    *)
(* every block between sent, what waits in front of each, and what part of   *)
(* the input the sink has gathered (ArriveInv).                             *)
(*                                                                         *)
(* The last section is about AsynchronousStart, the state all sources share *)
(* in their start() and stop(): StartTypeCorrect, MutualExclusion and       *)
(* WakeupNotLost.  The two specifications have no variable in common.       *)
(***************************************************************************)
EXTENDS MessagePath, AsynchronousStart, SequenceTheorems, FiniteSetTheorems,
        WellFoundedInduction, TLAPS

-----------------------------------------------------------------------------
(* Sequences of whatever.  What messages hold is left open, so the sequences *)
(* are not those over a given set.                                          *)

IsSeq(s) == \E S : s \in Seq(S)

LEMMA SeqFacts ==
  ASSUME NEW s, IsSeq(s)
  PROVE  /\ Len(s) \in Nat /\ s = [i \in 1 .. Len(s) |-> s[i]]
         /\ s = <<>> <=> Len(s) = 0
BY DEF IsSeq

LEMMA FcnIsSeq ==
  ASSUME NEW s, NEW n \in Nat, s = [i \in 1 .. n |-> s[i]]
  PROVE  IsSeq(s) /\ Len(s) = n
<1> DEFINE S == {s[i] : i \in 1 .. n}
<1>1. \A i \in 1 .. n : s[i] \in S
  OBVIOUS
<1> HIDE DEF S
<1>2. s \in [1 .. n -> S]
  BY <1>1
<1>3. s \in Seq(S)
  BY <1>2
<1> QED BY <1>2, <1>3 DEF IsSeq

\* Two sequences are over one set.
LEMMA SameSet ==
  ASSUME NEW s, NEW t, IsSeq(s), IsSeq(t)
  PROVE  \E S : s \in Seq(S) /\ t \in Seq(S)
<1>1. PICK A : s \in Seq(A)
  BY DEF IsSeq
<1>2. PICK B : t \in Seq(B)
  BY DEF IsSeq
<1>3. s \in Seq(A \cup B) /\ t \in Seq(A \cup B)
  BY <1>1, <1>2
<1> QED BY <1>3

LEMMA EmptyFacts == IsSeq(<<>>) /\ Len(<<>>) = 0
<1>1. <<>> \in Seq({})
  OBVIOUS
<1> QED BY <1>1 DEF IsSeq

LEMMA OneFacts ==
  ASSUME NEW e
  PROVE  IsSeq(<<e>>) /\ Len(<<e>>) = 1 /\ <<e>>[1] = e
<1>1. <<e>> \in Seq({e})
  OBVIOUS
<1> QED BY <1>1 DEF IsSeq

LEMMA ConcatFacts ==
  ASSUME NEW s, NEW t, IsSeq(s), IsSeq(t)
  PROVE  /\ IsSeq(s \o t) /\ Len(s \o t) = Len(s) + Len(t)
         /\ \A i \in 1 .. Len(s) : (s \o t)[i] = s[i]
         /\ \A i \in 1 .. Len(t) : (s \o t)[Len(s) + i] = t[i]
         /\ \A i \in 1 .. Len(s) + Len(t) : (s \o t)[i] = IF i <= Len(s) THEN s[i] ELSE t[i - Len(s)]
<1>1. PICK S : s \in Seq(S) /\ t \in Seq(S)
  BY SameSet
<1>2. s \o t \in Seq(S) /\ Len(s \o t) = Len(s) + Len(t)
      /\ \A i \in 1 .. Len(s) + Len(t) : (s \o t)[i] = IF i <= Len(s) THEN s[i] ELSE t[i - Len(s)]
  BY <1>1, ConcatProperties
<1> QED BY <1>1, <1>2, SeqFacts DEF IsSeq

LEMMA ConcatEmpty ==
  ASSUME NEW s, IsSeq(s)
  PROVE  s \o <<>> = s /\ <<>> \o s = s
BY ConcatEmptySeq DEF IsSeq

LEMMA ConcatAssoc ==
  ASSUME NEW s, NEW t, NEW u, IsSeq(s), IsSeq(t), IsSeq(u)
  PROVE  (s \o t) \o u = s \o (t \o u)
<1>1. PICK A : s \in Seq(A) /\ t \in Seq(A)
  BY SameSet
<1>2. PICK B : t \in Seq(B) /\ u \in Seq(B)
  BY SameSet
<1>3. s \in Seq(A \cup B) /\ t \in Seq(A \cup B) /\ u \in Seq(A \cup B)
  BY <1>1, <1>2
<1> QED BY <1>3, ConcatAssociative

LEMMA AppendFacts ==
  ASSUME NEW s, NEW e, IsSeq(s)
  PROVE  Append(s, e) = s \o <<e>>
<1>1. PICK S : s \in Seq(S)
  BY DEF IsSeq
<1>2. s \in Seq(S \cup {e}) /\ e \in S \cup {e}
  BY <1>1
<1> QED BY <1>2, AppendIsConcat

LEMMA HeadTailFacts ==
  ASSUME NEW s, IsSeq(s), s # <<>>
  PROVE  /\ Head(s) = s[1] /\ Len(s) >= 1
         /\ IsSeq(Tail(s)) /\ Len(Tail(s)) = Len(s) - 1
         /\ \A i \in 1 .. Len(s) - 1 : Tail(s)[i] = s[i + 1]
<1>1. PICK S : s \in Seq(S)
  BY DEF IsSeq
<1>2. Len(s) \in Nat /\ Len(s) # 0
  BY SeqFacts
<1>3. /\ Head(s) = s[1]
      /\ Tail(s) \in Seq(S) /\ Len(Tail(s)) = Len(s) - 1
      /\ \A i \in 1 .. Len(Tail(s)) : Tail(s)[i] = s[i + 1]
  BY <1>1, HeadTailProperties
<1> QED BY <1>2, <1>3 DEF IsSeq

LEMMA SubSeqFacts ==
  ASSUME NEW s, NEW m \in Nat, NEW n \in Nat, m >= 1, m <= n + 1
  PROVE  /\ IsSeq(SubSeq(s, m, n)) /\ Len(SubSeq(s, m, n)) = n - m + 1
         /\ \A i \in 1 .. n - m + 1 : SubSeq(s, m, n)[i] = s[m + i - 1]
<1>1. SubSeq(s, m, n) = [i \in 1 .. n - m + 1 |-> s[i + m - 1]]
  OBVIOUS
<1>2. n - m + 1 \in Nat
  OBVIOUS
<1> DEFINE t == SubSeq(s, m, n)
           k == n - m + 1
<1>3. \A i \in 1 .. k : t[i] = s[m + i - 1]
  BY <1>1
<1>4. t = [i \in 1 .. k |-> t[i]]
  BY <1>1
<1> HIDE DEF t, k
<1>5. IsSeq(t) /\ Len(t) = k
  BY <1>2, <1>4, FcnIsSeq DEF k
<1> QED BY <1>3, <1>5 DEF t, k

LEMMA FirstOf ==
  ASSUME NEW s, NEW k \in Nat
  PROVE  /\ IsSeq(SubSeq(s, 1, k)) /\ Len(SubSeq(s, 1, k)) = k
         /\ \A i \in 1 .. k : SubSeq(s, 1, k)[i] = s[i]
<1>1. 1 \in Nat /\ 1 >= 1 /\ 1 <= k + 1 /\ k - 1 + 1 = k /\ \A i \in 1 .. k : 1 + i - 1 = i
  OBVIOUS
<1> DEFINE t == SubSeq(s, 1, k)
<1>2. IsSeq(t) /\ Len(t) = k - 1 + 1 /\ \A i \in 1 .. k - 1 + 1 : t[i] = s[1 + i - 1]
  BY <1>1, SubSeqFacts
<1> HIDE DEF t
<1>3. IsSeq(t) /\ Len(t) = k /\ \A i \in 1 .. k : t[i] = s[i]
  BY <1>1, <1>2
<1> QED BY <1>3 DEF t

LEMMA SeqEquality ==
  ASSUME NEW s, NEW t, IsSeq(s), IsSeq(t), Len(s) = Len(t),
         \A i \in 1 .. Len(s) : s[i] = t[i]
  PROVE  s = t
BY SeqFacts
-----------------------------------------------------------------------------
(* Messages *)

IsMessage(m)   == m = Message(m.type, m.hdr, m.data) /\ IsSeq(m.data)
AreMessages(s) == IsSeq(s) /\ \A i \in 1 .. Len(s) : IsMessage(s[i])

LEMMA MessageFields ==
  ASSUME NEW t, NEW h, NEW d
  PROVE  /\ Message(t, h, d).type = t /\ Message(t, h, d).hdr = h /\ Message(t, h, d).data = d
         /\ IsSeq(d) => IsMessage(Message(t, h, d))
         /\ Message(t, h, d) = EOF => t = "eof"
<1>1. Message(t, h, d).type = t /\ Message(t, h, d).hdr = h /\ Message(t, h, d).data = d
  BY DEF Message
<1>2. EOF.type = "eof"
  BY DEF EOF
<1> QED BY <1>1, <1>2 DEF IsMessage

LEMMA EofMessage == IsMessage(EOF) /\ EOF.type = "eof"
BY EmptyFacts DEF EOF, IsMessage, Message

LEMMA NoMessages == AreMessages(<<>>)
BY EmptyFacts DEF AreMessages

LEMMA OneMessage ==
  ASSUME NEW m, IsMessage(m)
  PROVE  AreMessages(<<m>>)
BY OneFacts DEF AreMessages

LEMMA MoreMessages ==
  ASSUME NEW s, NEW t, AreMessages(s), AreMessages(t)
  PROVE  AreMessages(s \o t)
<1>1. IsSeq(s) /\ IsSeq(t) /\ Len(s) \in Nat /\ Len(t) \in Nat
  BY SeqFacts DEF AreMessages
<1>2. IsSeq(s \o t) /\ Len(s \o t) = Len(s) + Len(t)
  BY <1>1, ConcatFacts
<1>3. ASSUME NEW i \in 1 .. Len(s) + Len(t)
      PROVE  IsMessage((s \o t)[i])
  <2>1. (s \o t)[i] = IF i <= Len(s) THEN s[i] ELSE t[i - Len(s)]
    BY <1>1, ConcatFacts
  <2>2. CASE i <= Len(s)
    BY <2>1, <2>2 DEF AreMessages
  <2>3. CASE ~(i <= Len(s))
    <3>1. i - Len(s) \in 1 .. Len(t)
      BY <1>1, <2>3
    <3> QED BY <2>1, <2>3, <3>1 DEF AreMessages
  <2> QED BY <2>2, <2>3
<1> QED BY <1>2, <1>3 DEF AreMessages

LEMMA FewerMessages ==
  ASSUME NEW s, AreMessages(s), s # <<>>
  PROVE  IsMessage(Head(s)) /\ AreMessages(Tail(s))
<1>1. IsSeq(s) /\ Len(s) \in Nat
  BY SeqFacts DEF AreMessages
<1>2. /\ Head(s) = s[1] /\ Len(s) >= 1
      /\ IsSeq(Tail(s)) /\ Len(Tail(s)) = Len(s) - 1
      /\ \A i \in 1 .. Len(s) - 1 : Tail(s)[i] = s[i + 1]
  BY <1>1, HeadTailFacts
<1>3. \A i \in 1 .. Len(s) - 1 : IsMessage(Tail(s)[i])
  BY <1>1, <1>2 DEF AreMessages
<1> QED BY <1>1, <1>2, <1>3 DEF AreMessages

LEMMA DivCeil ==
  ASSUME NEW a \in Nat, NEW b \in Nat, b > 0
  PROVE  divide_ceil(a, b) \in Nat
BY DEF divide_ceil

\* What process_frame() of a converter makes of a message is a message of the
\* same type.
LEMMA ConvertedMessage ==
  ASSUME NEW b \in Converters, NEW m, IsMessage(m), Accepts(b, m)
  PROVE  /\ IsMessage(Converted(b, m)) /\ Converted(b, m) # EOF
         /\ Converted(b, m).type = m.type /\ Converted(b, m).hdr = m.hdr
<1> DEFINE d == m.data
<1>1. m = Message(m.type, m.hdr, d) /\ IsSeq(d) /\ Len(d) \in Nat
  BY SeqFacts DEF IsMessage
<1>2. m.type # "eof"
  BY DEF Accepts
<1> HIDE DEF d
<1>3. ASSUME NEW e
      PROVE  [m EXCEPT !.data = e] = Message(m.type, m.hdr, e)
  <2>1. m = [type |-> m.type, hdr |-> m.hdr, data |-> d]
    BY <1>1 DEF Message
  <2> DEFINE t == m.type
             h == m.hdr
  <2> HIDE DEF t, h
  <2>2. m = [type |-> t, hdr |-> h, data |-> d]
    BY <2>1 DEF t, h
  <2>3. [m EXCEPT !.data = e] = [type |-> t, hdr |-> h, data |-> e]
    BY <2>2
  <2> QED BY <2>3 DEF t, h, Message
<1>4. SUFFICES \E e : IsSeq(e) /\ Converted(b, m) = [m EXCEPT !.data = e]
  <2>1. PICK e : IsSeq(e) /\ Converted(b, m) = [m EXCEPT !.data = e]
    BY <1>4
  <2> QED BY <1>2, <1>3, <2>1, MessageFields
<1>5. CASE b \in Randomisers
  <2>1. \E f : Randomised(b, m).data = [i \in 1 .. Len(d) |-> f[i]]
    <3>1. CASE b = "derandomise"
      <4> DEFINE r == Registers(Register(b), divide_ceil(Len(d), 8))
                 f == [i \in 1 .. Len(d) |-> IF r[i - 1][1] = 1 THEN -d[i] ELSE d[i]]
      <4>1. Randomised(b, m).data = f
        BY <3>1 DEF Randomised, RandomiseSoft, d
      <4>2. f = [i \in 1 .. Len(d) |-> f[i]]
        OBVIOUS
      <4> HIDE DEF f
      <4> QED BY <4>1, <4>2
    <3>2. CASE b # "derandomise"
      <4> DEFINE r == Registers(Register(b), Bytes(d))
                 f == [i \in 1 .. Len(d) |-> xor(d[i], r[i - 1][1])]
      <4>1. Randomised(b, m).data = f
        BY <3>2 DEF Randomised, Randomise, d
      <4>2. f = [i \in 1 .. Len(d) |-> f[i]]
        OBVIOUS
      <4> HIDE DEF f
      <4> QED BY <4>1, <4>2
    <3> QED BY <3>1, <3>2
  <2>2. PICK f : Randomised(b, m).data = [i \in 1 .. Len(d) |-> f[i]]
    BY <2>1
  <2> DEFINE e == Randomised(b, m).data
  <2>3. e = [i \in 1 .. Len(d) |-> e[i]]
    BY <2>2
  <2>4. Converted(b, m) = [m EXCEPT !.data = e]
    BY <1>5 DEF Converted, Randomisers
  <2> HIDE DEF e
  <2>5. IsSeq(e)
    BY <1>1, <2>3, FcnIsSeq
  <2> QED BY <2>4, <2>5
<1>6. CASE b = "trunk"
  <2> DEFINE e == TrunkTail(d)
             n == d_FRAME_LEN - d_TRUNK_LEN
  <2>1. n \in Nat
    BY BlocksAssumption
  <2>2. e = [i \in 1 .. n |-> e[i]]
    BY DEF TrunkTail
  <2>3. Converted(b, m) = [m EXCEPT !.data = e]
    BY <1>6 DEF Converted, d, Randomisers
  <2> HIDE DEF e, n
  <2> QED BY <2>1, <2>2, <2>3, FcnIsSeq
<1>7. CASE b = "reverse"
  <2> DEFINE e == ReverseBits(d)
  <2>1. e = [i \in 1 .. Len(d) |-> e[i]]
    BY DEF ReverseBits
  <2>2. Converted(b, m) = [m EXCEPT !.data = e]
    BY <1>7 DEF Converted, d, Randomisers
  <2> HIDE DEF e
  <2> QED BY <1>1, <2>1, <2>2, FcnIsSeq
<1>8. CASE b = "add_asm"
  <2>1. IsSeq(d_ASM)
    BY BlocksAssumption DEF IsSeq
  <2> DEFINE e == SubSeq(d, 1, 8 * ASM_FRAME_LEN)
  <2>2. Converted(b, m) = [m EXCEPT !.data = d_ASM \o e]
    BY <1>8 DEF Converted, AddAsm, d, Randomisers
  <2>3. 8 * ASM_FRAME_LEN \in Nat
    BY BlocksAssumption
  <2>4. IsSeq(e)
    BY <2>3, SubSeqFacts
  <2> HIDE DEF e
  <2> QED BY <1>1, <2>1, <2>2, <2>4, ConcatFacts
<1> QED BY <1>5, <1>6, <1>7, <1>8 DEF Converters, Randomisers
-----------------------------------------------------------------------------
(* Types, and what a message port does *)

\* Queues and histories are sequences of messages; those of bytes and headers
\* are sequences of whatever the messages hold.
PathTypeOK ==
  /\ running \in [Blocks -> BOOLEAN] /\ d_stop \in [Blocks -> BOOLEAN]
  /\ DOMAIN queue = Blocks /\ \A b \in Blocks : AreMessages(queue[b])
  /\ DOMAIN published = Blocks /\ \A b \in Blocks : AreMessages(published[b])
  /\ DOMAIN arrived = Sources /\ \A b \in Sources : AreMessages(arrived[b])
  /\ IsSeq(d_buffer) /\ IsSeq(d_metadata_queue)
  /\ DOMAIN d_queue = Sources /\ \A b \in Sources : IsSeq(d_queue[b])
  /\ DOMAIN out = Sources /\ \A b \in Sources : IsSeq(out[b])
  /\ fed \in Nat /\ d_num_bytes_copied \in Nat /\ nposts \in Nat /\ ninterrupts \in Nat

PortTypes ==
  /\ DOMAIN queue = Blocks /\ \A b \in Blocks : AreMessages(queue[b])
  /\ DOMAIN published = Blocks /\ \A b \in Blocks : AreMessages(published[b])
  /\ DOMAIN arrived = Sources /\ \A b \in Sources : AreMessages(arrived[b])

\* The queue of c when b has handled a message: handled is what is left of its own
Left(b, c, handled) == IF c = b THEN handled ELSE queue[c]

\* c gets the messages that b sends.
Gets(b, c) == c \in Subscribers[b] /\ running[c]

LEMMA Published ==
  ASSUME PortTypes, NEW b \in Blocks, NEW msgs, NEW handled, Publish(b, msgs, handled)
  PROVE  /\ \A c \in Blocks : queue'[c] = IF Gets(b, c) THEN Left(b, c, handled) \o msgs
                                          ELSE Left(b, c, handled)
         /\ \A c \in Blocks : published'[c] = IF c = b THEN published[b] \o msgs ELSE published[c]
         /\ \A c \in Sources : arrived'[c] = IF Gets(b, c) THEN arrived[c] \o msgs ELSE arrived[c]
         /\ DOMAIN queue' = Blocks /\ DOMAIN published' = Blocks /\ DOMAIN arrived' = Sources
<1> DEFINE taken == [queue EXCEPT ![b] = handled]
<1>1. /\ queue' = [c \in Blocks |-> IF c \in Subscribers[b] THEN Arrive(taken, c, msgs) ELSE taken[c]]
      /\ arrived' = [c \in Sources |-> IF c \in Subscribers[b] THEN Arrive(arrived, c, msgs) ELSE arrived[c]]
      /\ published' = [published EXCEPT ![b] = @ \o msgs]
  BY DEF Publish
<1>2. DOMAIN queue = Blocks /\ DOMAIN published = Blocks
  BY DEF PortTypes
<1>3. \A c \in Blocks : taken[c] = Left(b, c, handled)
  BY <1>2 DEF Left
<1> HIDE DEF taken
<1>4. \A c \in Blocks : queue'[c] = IF Gets(b, c) THEN Left(b, c, handled) \o msgs
                                    ELSE Left(b, c, handled)
  BY <1>1, <1>3 DEF Arrive, Gets
<1>5. \A c \in Blocks : published'[c] = IF c = b THEN published[b] \o msgs ELSE published[c]
  BY <1>1, <1>2
<1>6. \A c \in Sources : arrived'[c] = IF Gets(b, c) THEN arrived[c] \o msgs ELSE arrived[c]
  BY <1>1 DEF Arrive, Gets
<1> QED BY <1>1, <1>2, <1>4, <1>5, <1>6

LEMMA PublishedTypes ==
  ASSUME PortTypes, NEW b \in Blocks, NEW msgs, NEW handled, Publish(b, msgs, handled),
         AreMessages(msgs), AreMessages(handled)
  PROVE  PortTypes'
<1>1. \A c \in Blocks : AreMessages(queue'[c])
  <2> SUFFICES ASSUME NEW c \in Blocks PROVE AreMessages(queue'[c])
    OBVIOUS
  <2>1. AreMessages(Left(b, c, handled))
    BY DEF Left, PortTypes
  <2> QED BY <2>1, Published, MoreMessages
<1>2. \A c \in Blocks : AreMessages(published'[c])
  BY Published, MoreMessages DEF PortTypes
<1>3. \A c \in Sources : AreMessages(arrived'[c])
  BY Published, MoreMessages DEF PortTypes
<1> QED BY <1>1, <1>2, <1>3, Published DEF PortTypes

\* The kinds of blocks are apart.
LEMMA Kinds ==
  /\ Converters \subseteq Blocks /\ Sources \subseteq Blocks /\ Sinks \subseteq Blocks
  /\ Converters \cap Sources = {} /\ Converters \cap Sinks = {} /\ Sources \cap Sinks = {}
  /\ "harden" \notin Converters \cup Sources \cup Sinks
  /\ Randomisers \subseteq Converters
  /\ Sources \subseteq {"packer", "source"}
BY DEF Converters, Sources, Sinks, Randomisers

\* Multiples of a length
LEMMA Products ==
  ASSUME NEW L \in Nat, L > 0, NEW a \in Nat, NEW b \in Nat
  PROVE  /\ a * L \in Nat /\ (a + 1) * L = a * L + L
         /\ a <= b <=> a * L <= b * L
         /\ a = b <=> a * L = b * L
<1>1. a * L \in Nat /\ b * L \in Nat /\ (a + 1) * L = a * L + L /\ (b + 1) * L = b * L + L
  OBVIOUS
<1>2. ASSUME NEW c \in Nat, NEW d \in Nat, c <= d
      PROVE  c * L <= d * L
  BY <1>2
<1>3. ASSUME a > b
      PROVE  a * L > b * L
  <2>1. (b + 1) * L <= a * L
    BY <1>2, <1>3
  <2> QED BY <1>1, <2>1
<1>4. a <= b <=> a * L <= b * L
  <2>1. CASE a <= b
    BY <1>2, <2>1
  <2>2. CASE a > b
    BY <1>1, <1>3, <2>2
  <2> QED BY <2>1, <2>2
<1>5. ASSUME b > a
      PROVE  b * L > a * L
  <2>1. (a + 1) * L <= b * L
    BY <1>2, <1>5
  <2> QED BY <1>1, <2>1
<1>6. a = b <=> a * L = b * L
  <2>1. CASE a = b
    BY <2>1
  <2>2. CASE a > b
    BY <1>1, <1>3, <2>2
  <2>3. CASE b > a
    BY <1>1, <1>5, <2>3
  <2> QED BY <2>1, <2>2, <2>3
<1> QED BY <1>1, <1>4, <1>6

\* The messages a sink makes of its buffer and its input.
LEMMA FedMessages ==
  ASSUME PathTypeOK, NEW b \in Sinks, NEW n \in FeedSizes[b], Feed(b, n)
  PROVE  \E msgs : /\ Publish(b, msgs, <<>>) /\ AreMessages(msgs)
                   /\ \A i \in 1 .. Len(msgs) : msgs[i] # EOF
                   /\ IsSeq(d_buffer') /\ fed' \in Nat
<1> DEFINE all == d_buffer \o [i \in 1 .. n |-> Item(b, fed + i)]
           full == Full(b, all)
           Frame(k) == Message(SINK_TYPE[b], "empty",
                               SubSeq(all, (k - 1) * SINK_LEN[b] + 1, k * SINK_LEN[b]))
           msgs == [k \in 1 .. full |-> Frame(k)]
           L == SINK_LEN[b]
<1>1. /\ Publish(b, msgs, <<>>) /\ fed' = fed + n
      /\ d_buffer' = SubSeq(all, full * L + 1, Len(all))
  BY DEF Feed
<1>2. L \in Nat /\ L > 0 /\ SINK_TYPE[b] # "eof" /\ n \in Nat
  BY PathAssumption
<1>3. IsSeq(all) /\ Len(all) \in Nat
  <2> DEFINE new == [i \in 1 .. n |-> Item(b, fed + i)]
  <2>1. new = [i \in 1 .. n |-> new[i]]
    OBVIOUS
  <2> HIDE DEF new
  <2>2. IsSeq(new)
    BY <1>2, <2>1, FcnIsSeq
  <2>3. IsSeq(d_buffer)
    BY DEF PathTypeOK
  <2> QED BY <2>2, <2>3, ConcatFacts, SeqFacts DEF new
<1> HIDE DEF all
<1>4. full = Len(all) \div L
  BY DEF Full
<1>5. full \in Nat /\ full * L <= Len(all) /\ full * L \in Nat
  <2> DEFINE a == Len(all)
             q == a \div L
  <2>1. a \in Nat
    BY <1>3
  <2> HIDE DEF a
  <2>2. q \in Nat /\ q * L <= a /\ q * L \in Nat
    BY <1>2, <2>1
  <2> QED BY <1>4, <2>2 DEF a
<1> HIDE DEF full
<1>6. IsSeq(d_buffer')
  <2>1. full * L + 1 \in Nat /\ full * L + 1 >= 1 /\ full * L + 1 <= Len(all) + 1
    BY <1>3, <1>5
  <2> QED BY <1>1, <1>3, <2>1, SubSeqFacts
<1>7. \A k \in 1 .. full : IsMessage(Frame(k)) /\ Frame(k) # EOF
  <2> SUFFICES ASSUME NEW k \in 1 .. full PROVE IsMessage(Frame(k)) /\ Frame(k) # EOF
    OBVIOUS
  <2>1. (k - 1) * L + 1 \in Nat /\ k * L \in Nat /\ (k - 1) * L + 1 >= 1
        /\ (k - 1) * L + 1 <= k * L + 1
    <3> DEFINE j == k - 1
    <3>1. j \in Nat /\ k = j + 1
      BY <1>5
    <3> HIDE DEF j
    <3>2. j * L \in Nat /\ (j + 1) * L = j * L + L
      BY <1>2, <3>1, Products
    <3> DEFINE y == j * L
    <3>3. k * L = y + L /\ y \in Nat
      BY <3>1, <3>2
    <3> HIDE DEF y
    <3>4. y + 1 \in Nat /\ y + L \in Nat /\ y + 1 >= 1 /\ y + 1 <= y + L + 1
      BY <1>2, <3>3
    <3> QED BY <3>3, <3>4 DEF y, j
  <2>2. IsSeq(SubSeq(all, (k - 1) * L + 1, k * L))
    BY <2>1, SubSeqFacts
  <2> QED BY <1>2, <2>2, MessageFields
<1> HIDE DEF Frame
<1>8. \A i \in 1 .. full : msgs[i] = Frame(i)
  OBVIOUS
<1>9. msgs = [i \in 1 .. full |-> msgs[i]]
  OBVIOUS
<1> HIDE DEF msgs
<1>10. IsSeq(msgs) /\ Len(msgs) = full
  BY <1>5, <1>9, FcnIsSeq
<1>11. AreMessages(msgs) /\ \A i \in 1 .. Len(msgs) : msgs[i] # EOF
  BY <1>7, <1>8, <1>10 DEF AreMessages
<1>12. fed' \in Nat
  BY <1>1, <1>2 DEF PathTypeOK
<1> QED BY <1>1, <1>6, <1>11, <1>12
\* What a converter, the hardener and the sources send for a message, and what
\* is left in their queues.
LEMMA Turned ==
  ASSUME PathTypeOK, NEW b \in Blocks, queue[b] # <<>>
  PROVE  /\ IsMessage(Head(queue[b])) /\ AreMessages(Tail(queue[b]))
         /\ IsSeq(queue[b]) /\ Len(queue[b]) \in Nat /\ Len(queue[b]) >= 1
         /\ Head(queue[b]) = queue[b][1] /\ Len(Tail(queue[b])) = Len(queue[b]) - 1
         /\ \A i \in 1 .. Len(queue[b]) - 1 : Tail(queue[b])[i] = queue[b][i + 1]
<1>1. AreMessages(queue[b]) /\ IsSeq(queue[b])
  BY DEF PathTypeOK, AreMessages
<1> QED BY <1>1, FewerMessages, HeadTailFacts, SeqFacts

LEMMA ConvertSends ==
  ASSUME PathTypeOK, NEW b \in Converters, Convert(b)
  PROVE  \E msgs : /\ Publish(b, msgs, Tail(queue[b])) /\ AreMessages(msgs) /\ queue[b] # <<>>
                   /\ \A i \in 1 .. Len(msgs) : msgs[i] # EOF
<1>1. b \in Blocks /\ queue[b] # <<>>
  BY Kinds DEF Convert, Waiting
<1> DEFINE m == Head(queue[b])
<1>2. IsMessage(m)
  BY <1>1, Turned
<1>3. CASE Accepts(b, m)
  <2> DEFINE c == Converted(b, m)
  <2>1. Publish(b, <<c>>, Tail(queue[b]))
    BY <1>3 DEF Convert
  <2>2. IsMessage(c) /\ c # EOF
    BY <1>2, <1>3, ConvertedMessage
  <2> HIDE DEF c
  <2>3. AreMessages(<<c>>) /\ \A i \in 1 .. Len(<<c>>) : <<c>>[i] # EOF
    BY <2>2, OneMessage, OneFacts
  <2> QED BY <1>1, <2>1, <2>3
<1>4. CASE ~Accepts(b, m)
  <2>1. Publish(b, <<>>, Tail(queue[b]))
    BY <1>4 DEF Convert
  <2>2. AreMessages(<<>>) /\ \A i \in 1 .. Len(<<>>) : <<>>[i] # EOF
    BY NoMessages, EmptyFacts
  <2> QED BY <1>1, <2>1, <2>2
<1> QED BY <1>3, <1>4

\* The hardener sends nothing, or one message before it has stopped; it has
\* stopped when that is EOF.
LEMMA HardenSends ==
  ASSUME PathTypeOK, Harden
  PROVE  /\ "harden" \in Blocks /\ queue["harden"] # <<>>
         /\ d_stop' \in [Blocks -> BOOLEAN]
         /\ \A b \in Blocks : b # "harden" => d_stop'[b] = d_stop[b]
         /\ d_stop["harden"] => d_stop'["harden"]
         /\ \/ Publish("harden", <<>>, Tail(queue["harden"]))
            \/ /\ ~d_stop["harden"]
               /\ \E m : /\ Publish("harden", <<m>>, Tail(queue["harden"])) /\ IsMessage(m)
                         /\ m = EOF => d_stop'["harden"]
<1> DEFINE q == Head(queue["harden"])
           hard == IF q = EOF THEN EOF ELSE Message("blob", q.hdr, SoftToHard(q.data))
<1>1. "harden" \in Blocks /\ queue["harden"] # <<>>
  BY DEF Harden, Waiting
<1>2. d_stop' = [d_stop EXCEPT !["harden"] = @ \/ q = EOF] /\ d_stop \in [Blocks -> BOOLEAN]
  BY DEF Harden, PathTypeOK
<1>3. /\ d_stop' \in [Blocks -> BOOLEAN]
      /\ \A b \in Blocks : b # "harden" => d_stop'[b] = d_stop[b]
      /\ d_stop["harden"] => d_stop'["harden"]
      /\ q = EOF => d_stop'["harden"]
  BY <1>1, <1>2
<1>4. IsMessage(hard) /\ (hard = EOF => q = EOF)
  <2>1. CASE q = EOF
    BY <2>1, EofMessage
  <2>2. CASE q # EOF
    <3>1. IsSeq(q.data) /\ Len(q.data) \in Nat
      BY <1>1, Turned, SeqFacts DEF IsMessage
    <3> DEFINE d == q.data
               e == SoftToHard(d)
    <3>2. e = [i \in 1 .. Len(d) |-> e[i]]
      BY DEF SoftToHard
    <3>3. hard = Message("blob", q.hdr, e)
      BY <2>2
    <3> HIDE DEF e
    <3>4. IsSeq(e)
      BY <3>1, <3>2, FcnIsSeq
    <3> QED BY <3>3, <3>4, MessageFields
  <2> QED BY <2>1, <2>2
<1>5. \/ Publish("harden", <<>>, Tail(queue["harden"]))
      \/ ~d_stop["harden"] /\ Publish("harden", <<hard>>, Tail(queue["harden"]))
  BY DEF Harden, Handled
<1> HIDE DEF hard, q
<1> QED BY <1>1, <1>3, <1>4, <1>5

\* What stop() sends
LEMMA FarewellMessages ==
  ASSUME NEW b
  PROVE  /\ AreMessages(Farewell(b)) /\ \A i \in 1 .. Len(Farewell(b)) : Farewell(b)[i] = EOF
         /\ Farewell(b) # <<>> => b \in Sinks \cup {"harden"}
<1>1. CASE b \in Sinks \cup {"harden"}
  <2>1. Farewell(b) = <<EOF>>
    BY <1>1 DEF Farewell
  <2> QED BY <1>1, <2>1, EofMessage, OneMessage, OneFacts
<1>2. CASE b \notin Sinks \cup {"harden"}
  <2>1. Farewell(b) = <<>>
    BY <1>2 DEF Farewell
  <2> QED BY <2>1, NoMessages, EmptyFacts
<1> QED BY <1>1, <1>2

LEMMA BlobLen ==
  ASSUME NEW d, IsSeq(d)
  PROVE  /\ IsSeq(Blob(d)) /\ Len(Blob(d)) = Bytes(d) /\ Bytes(d) \in Nat
<1>1. Bytes(d) \in Nat
  BY SeqFacts DEF Bytes
<1> DEFINE s == Blob(d)
<1>2. s = [i \in 1 .. Bytes(d) |-> s[i]]
  BY DEF Blob
<1> HIDE DEF s
<1>3. IsSeq(s) /\ Len(s) = Bytes(d)
  BY <1>1, <1>2, FcnIsSeq
<1> QED BY <1>1, <1>3 DEF s

LEMMA PackIsSeq ==
  ASSUME NEW d, IsSeq(d)
  PROVE  IsSeq(Pack(d))
<1> DEFINE n == divide_ceil(Len(d), 8)
           s == Pack(d)
<1>1. n \in Nat
  BY SeqFacts, DivCeil
<1>2. s = [i \in 1 .. n |-> s[i]]
  BY DEF Pack
<1> HIDE DEF s, n
<1>3. IsSeq(s)
  BY <1>1, <1>2, FcnIsSeq
<1> QED BY <1>3 DEF s

LEMMA CutIsSeq ==
  ASSUME NEW s, NEW m \in Nat, NEW n \in Nat, m >= 1
  PROVE  IsSeq(SubSeq(s, m, n))
<1>1. CASE m <= n + 1
  BY <1>1, SubSeqFacts
<1>2. CASE ~(m <= n + 1)
  <2>1. SubSeq(s, m, n) = <<>>
    BY <1>2, SubSeqEmpty
  <2> QED BY <2>1, EmptyFacts
<1> QED BY <1>1, <1>2

\* How much a call of work() puts out.
LEMMA WorkSize ==
  ASSUME PathTypeOK, NEW b \in Sources, NEW space \in WorkSizes
  PROVE  /\ pick_smaller(space, Len(d_queue[b])) \in Nat
         /\ pick_smaller(space, Len(d_queue[b])) <= Len(d_queue[b]) /\ Len(d_queue[b]) \in Nat
<1>1. Len(d_queue[b]) \in Nat /\ space \in Nat
  BY PathAssumption, SeqFacts DEF PathTypeOK
<1> QED BY <1>1 DEF pick_smaller

LEMMA StartsFinite ==
  ASSUME NEW n \in Nat, d_num_bytes_copied \in Nat
  PROVE  IsFiniteSet(Starts(n)) /\ Cardinality(Starts(n)) \in Nat
<1>1. IsFiniteSet(d_num_bytes_copied .. d_num_bytes_copied + n - 1)
  BY FS_Interval
<1>2. Starts(n) \subseteq d_num_bytes_copied .. d_num_bytes_copied + n - 1
  BY DEF Starts
<1>3. IsFiniteSet(Starts(n))
  BY <1>1, <1>2, FS_Subset
<1> QED BY <1>3, FS_CardinalityType
-----------------------------------------------------------------------------
(* The types are kept *)

LEMMA PortTypesHold ==
  ASSUME PathTypeOK
  PROVE  PortTypes
BY DEF PathTypeOK, PortTypes

\* A step at the ports that leaves the other sequences alone.
LEMMA TypesAtPorts ==
  ASSUME PathTypeOK, NEW b \in Blocks, NEW msgs, NEW handled, Publish(b, msgs, handled),
         AreMessages(msgs), AreMessages(handled),
         running' \in [Blocks -> BOOLEAN], d_stop' \in [Blocks -> BOOLEAN],
         IsSeq(d_buffer'), fed' \in Nat, UNCHANGED <<nposts, sourceVars>>, ninterrupts' \in Nat
  PROVE  PathTypeOK'
<1>1. PortTypes'
  BY PublishedTypes, PortTypesHold
<1> QED BY <1>1 DEF PathTypeOK, PortTypes, sourceVars

LEMMA TypesThread ==
  ASSUME PathTypeOK, NEW b \in Blocks, EndThread(b), ninterrupts' \in Nat
  PROVE  PathTypeOK'
<1>1. /\ Publish(b, Farewell(b), <<>>) /\ running' = [running EXCEPT ![b] = FALSE]
      /\ d_stop' = IF b = "harden" THEN [d_stop EXCEPT ![b] = TRUE] ELSE d_stop
      /\ UNCHANGED <<nposts, sinkVars, sourceVars>>
  BY DEF EndThread
<1>2. running' \in [Blocks -> BOOLEAN] /\ d_stop' \in [Blocks -> BOOLEAN]
  BY <1>1 DEF PathTypeOK
<1>3. IsSeq(d_buffer') /\ fed' \in Nat
  BY <1>1 DEF PathTypeOK, sinkVars
<1> QED BY <1>1, <1>2, <1>3, FarewellMessages, NoMessages, TypesAtPorts

LEMMA TypesBlocks ==
  ASSUME PathTypeOK, NEW b \in Converters, Convert(b) \/ ConvertEof(b)
  PROVE  PathTypeOK'
<1>1. b \in Blocks /\ queue[b] # <<>>
  BY Kinds DEF Convert, ConvertEof, Waiting
<1>2. AreMessages(Tail(queue[b]))
  BY <1>1, Turned
<1>3. CASE Convert(b)
  <2>1. PICK msgs : Publish(b, msgs, Tail(queue[b])) /\ AreMessages(msgs)
    BY <1>3, ConvertSends
  <2>2. UNCHANGED <<running, d_stop, nposts, ninterrupts, sinkVars, sourceVars>>
    BY <1>3 DEF Convert
  <2> QED BY <1>1, <1>2, <2>1, <2>2, TypesAtPorts DEF PathTypeOK, sinkVars
<1>4. CASE ConvertEof(b)
  <2>1. Publish(b, <<EOF>>, Tail(queue[b])) /\ AreMessages(<<EOF>>)
    BY <1>4, EofMessage, OneMessage DEF ConvertEof, Forwarded
  <2>2. /\ UNCHANGED <<running, nposts, ninterrupts, sinkVars, sourceVars>>
        /\ d_stop' = [d_stop EXCEPT ![b] = TRUE]
    BY <1>4 DEF ConvertEof
  <2> QED BY <1>1, <1>2, <2>1, <2>2, TypesAtPorts DEF PathTypeOK, sinkVars
<1> QED BY <1>3, <1>4

LEMMA TypesHarden ==
  ASSUME PathTypeOK, Harden
  PROVE  PathTypeOK'
<1>1. /\ "harden" \in Blocks /\ queue["harden"] # <<>> /\ d_stop' \in [Blocks -> BOOLEAN]
      /\ \/ Publish("harden", <<>>, Tail(queue["harden"]))
         \/ \E m : Publish("harden", <<m>>, Tail(queue["harden"])) /\ IsMessage(m)
  BY HardenSends
<1>2. PICK msgs : Publish("harden", msgs, Tail(queue["harden"])) /\ AreMessages(msgs)
  BY <1>1, NoMessages, OneMessage
<1>3. UNCHANGED <<running, nposts, ninterrupts, sinkVars, sourceVars>>
  BY DEF Harden
<1>4. AreMessages(Tail(queue["harden"]))
  BY <1>1, Turned
<1> QED BY <1>1, <1>2, <1>3, <1>4, TypesAtPorts DEF PathTypeOK, sinkVars

LEMMA TypesSources ==
  ASSUME PathTypeOK, SourceMessage \/ PackerMessage
  PROVE  PathTypeOK'
<1>1. PICK b \in Sources :
        /\ queue[b] # <<>> /\ Publish(b, <<>>, Tail(queue[b]))
        /\ UNCHANGED <<running, nposts, ninterrupts, sinkVars, d_num_bytes_copied, out>>
        /\ (b = "source" /\ SourceMessage) \/ (b = "packer" /\ PackerMessage)
  BY DEF SourceMessage, PackerMessage, Waiting, Handled, Sources
<1>2. b \in Blocks
  BY Kinds
<1>3. PortTypes'
  BY <1>1, <1>2, Turned, NoMessages, PublishedTypes, PortTypesHold
<1> DEFINE m == Head(queue[b])
<1>4. IsMessage(m)
  BY <1>1, <1>2, Turned
<1>5. IsSeq(Blob(m.data)) /\ IsSeq(Pack(m.data))
  BY <1>4, BlobLen, PackIsSeq DEF IsMessage
<1>6. /\ d_stop' \in [Blocks -> BOOLEAN] /\ IsSeq(d_metadata_queue')
      /\ DOMAIN d_queue' = Sources /\ \A c \in Sources : IsSeq(d_queue'[c])
  <2>1. /\ d_stop \in [Blocks -> BOOLEAN] /\ IsSeq(d_metadata_queue)
        /\ DOMAIN d_queue = Sources /\ \A c \in Sources : IsSeq(d_queue[c])
    BY DEF PathTypeOK
  <2>2. ASSUME NEW s, IsSeq(s), d_queue' = [d_queue EXCEPT ![b] = @ \o s] \/ d_queue' = d_queue
        PROVE  DOMAIN d_queue' = Sources /\ \A c \in Sources : IsSeq(d_queue'[c])
    <3>1. IsSeq(d_queue[b] \o s)
      BY <2>1, <2>2, ConcatFacts
    <3> DEFINE t == d_queue[b] \o s
    <3>2. d_queue' = [d_queue EXCEPT ![b] = t] \/ d_queue' = d_queue
      BY <2>2
    <3> HIDE DEF t
    <3> QED BY <2>1, <3>1, <3>2 DEF t
  <2>3. CASE b = "source" /\ SourceMessage
    <3>1. /\ d_stop' = d_stop \/ d_stop' = [d_stop EXCEPT !["source"] = TRUE]
          /\ d_queue' = [d_queue EXCEPT ![b] = @ \o Blob(m.data)] \/ d_queue' = d_queue
          /\ d_metadata_queue' = d_metadata_queue \/ d_metadata_queue' = d_metadata_queue \o TakenHeaders(m)
      BY <2>3 DEF SourceMessage
    <3>2. IsSeq(TakenHeaders(m))
      BY OneFacts, EmptyFacts DEF TakenHeaders
    <3>3. d_stop' \in [Blocks -> BOOLEAN]
      BY <2>1, <3>1
    <3>4. IsSeq(d_metadata_queue')
      <4>1. IsSeq(d_metadata_queue \o TakenHeaders(m))
        BY <2>1, <3>2, ConcatFacts
      <4>2. CASE d_metadata_queue' = d_metadata_queue
        BY <2>1, <4>2
      <4>3. CASE d_metadata_queue' = d_metadata_queue \o TakenHeaders(m)
        BY <4>1, <4>3
      <4> QED BY <3>1, <4>2, <4>3
    <3> QED BY <1>5, <2>2, <3>1, <3>3, <3>4
  <2>4. CASE b = "packer" /\ PackerMessage
    <3>1. /\ d_stop' = [d_stop EXCEPT !["packer"] = @ \/ m = EOF] /\ d_metadata_queue' = d_metadata_queue
          /\ d_queue' = [d_queue EXCEPT ![b] = @ \o Pack(m.data)] \/ d_queue' = d_queue
      BY <2>4 DEF PackerMessage
    <3>2. d_stop' \in [Blocks -> BOOLEAN]
      BY <1>2, <2>1, <2>4, <3>1
    <3> QED BY <1>5, <2>1, <2>2, <3>1, <3>2
  <2> QED BY <1>1, <2>3, <2>4
<1> QED BY <1>1, <1>3, <1>6 DEF PathTypeOK, PortTypes, sinkVars

LEMMA TypesWork ==
  ASSUME PathTypeOK, NEW b \in Sources, NEW space \in WorkSizes, Work(b, space)
  PROVE  PathTypeOK'
<1> DEFINE n == pick_smaller(space, Len(d_queue[b]))
<1>1. n \in Nat /\ n <= Len(d_queue[b]) /\ Len(d_queue[b]) \in Nat
  BY WorkSize
<1>2. /\ out' = [out EXCEPT ![b] = @ \o SubSeq(d_queue[b], 1, n)]
      /\ d_queue' = [d_queue EXCEPT ![b] = SubSeq(@, n + 1, Len(@))]
      /\ \/ /\ d_metadata_queue' = SubSeq(d_metadata_queue, Cardinality(Starts(n)) + 1, Len(d_metadata_queue))
            /\ d_num_bytes_copied' = d_num_bytes_copied + n
         \/ UNCHANGED <<d_metadata_queue, d_num_bytes_copied>>
      /\ UNCHANGED <<running, d_stop, nposts, ninterrupts, sinkVars, portVars>>
  BY DEF Work
<1> HIDE DEF n
<1>3. IsSeq(SubSeq(d_queue[b], 1, n)) /\ IsSeq(SubSeq(d_queue[b], n + 1, Len(d_queue[b])))
  BY <1>1, CutIsSeq
<1>4. DOMAIN d_queue' = Sources /\ \A c \in Sources : IsSeq(d_queue'[c])
  BY <1>2, <1>3 DEF PathTypeOK
<1>5. DOMAIN out' = Sources /\ \A c \in Sources : IsSeq(out'[c])
  <2>1. IsSeq(out[b] \o SubSeq(d_queue[b], 1, n))
    BY <1>3, ConcatFacts DEF PathTypeOK
  <2> DEFINE t == out[b] \o SubSeq(d_queue[b], 1, n)
  <2>2. out' = [out EXCEPT ![b] = t]
    BY <1>2
  <2> HIDE DEF t
  <2> QED BY <2>1, <2>2 DEF t, PathTypeOK
<1>6. IsSeq(d_metadata_queue') /\ d_num_bytes_copied' \in Nat
  <2>1. IsSeq(d_metadata_queue) /\ Len(d_metadata_queue) \in Nat /\ d_num_bytes_copied \in Nat
    BY SeqFacts DEF PathTypeOK
  <2>2. Cardinality(Starts(n)) \in Nat
    BY <1>1, <2>1, StartsFinite
  <2>3. IsSeq(SubSeq(d_metadata_queue, Cardinality(Starts(n)) + 1, Len(d_metadata_queue)))
    BY <2>1, <2>2, CutIsSeq
  <2>4. IsSeq(d_metadata_queue')
    BY <1>2, <2>1, <2>3
  <2>5. d_num_bytes_copied' \in Nat
    BY <1>1, <1>2, <2>1
  <2> QED BY <2>4, <2>5
<1> QED BY <1>2, <1>4, <1>5, <1>6 DEF PathTypeOK, sinkVars, portVars

LEMMA TypesPost ==
  ASSUME PathTypeOK, NEW b \in Sources, NEW m \in Posts[b], Post(b, m)
  PROVE  PathTypeOK'
<1>1. IsMessage(m)
  <2>1. m \in Messages
    BY PathAssumption
  <2>2. m = Message(m.type, m.hdr, m.data) /\ m.data \in Seq(Int)
    BY <2>1 DEF Messages, Message
  <2> QED BY <2>2 DEF IsMessage, IsSeq
<1>2. /\ queue' = [queue EXCEPT ![b] = Append(@, m)]
      /\ arrived' = [arrived EXCEPT ![b] = Append(@, m)]
      /\ nposts' = nposts + 1
      /\ UNCHANGED <<running, d_stop, ninterrupts, published, sinkVars, sourceVars>>
  BY DEF Post
<1>3. ASSUME NEW s, AreMessages(s)
      PROVE  AreMessages(Append(s, m))
  BY <1>1, <1>3, OneMessage, MoreMessages, AppendFacts DEF AreMessages
<1>4. b \in Blocks
  BY Kinds
<1>5. DOMAIN queue' = Blocks /\ \A c \in Blocks : AreMessages(queue'[c])
  BY <1>2, <1>3, <1>4 DEF PathTypeOK
<1>6. DOMAIN arrived' = Sources /\ \A c \in Sources : AreMessages(arrived'[c])
  BY <1>2, <1>3 DEF PathTypeOK
<1> QED BY <1>2, <1>5, <1>6 DEF PathTypeOK, sinkVars, sourceVars

LEMMA TypesInit == Init => PathTypeOK
<1> SUFFICES ASSUME Init PROVE PathTypeOK
  OBVIOUS
<1>1. PICK path \in Paths : running = [b \in Blocks |-> b \in path]
  BY DEF Init
<1>2. running \in [Blocks -> BOOLEAN]
  BY <1>1
<1> QED BY <1>2, NoMessages, EmptyFacts DEF Init, PathTypeOK

LEMMA TypesStep == PathTypeOK /\ [Next]_vars => PathTypeOK'
<1> SUFFICES ASSUME PathTypeOK, [Next]_vars PROVE PathTypeOK'
  OBVIOUS
<1>1. ASSUME NEW b \in Sinks, EndOfInput(b)
      PROVE  PathTypeOK'
  BY <1>1, Kinds, TypesThread DEF EndOfInput, PathTypeOK
<1>2. ASSUME NEW b \in Sinks, NEW n \in FeedSizes[b], Feed(b, n)
      PROVE  PathTypeOK'
  <2>1. PICK msgs : Publish(b, msgs, <<>>) /\ AreMessages(msgs) /\ IsSeq(d_buffer') /\ fed' \in Nat
    BY <1>2, FedMessages
  <2>2. UNCHANGED <<running, d_stop, nposts, ninterrupts, sourceVars>>
    BY <1>2 DEF Feed
  <2> QED BY <2>1, <2>2, Kinds, NoMessages, TypesAtPorts DEF PathTypeOK
<1>3. CASE Threads
  <2>1. ASSUME NEW b \in Sources, Finish(b)
        PROVE  PathTypeOK'
    BY <2>1, Kinds, TypesThread DEF Finish, PathTypeOK
  <2> QED BY <1>3, <2>1, TypesBlocks, TypesHarden, TypesSources, TypesWork DEF Threads
<1>4. ASSUME NEW b \in Interruptible, Interrupt(b)
      PROVE  PathTypeOK'
  <2>1. b \in Blocks /\ ninterrupts' \in Nat
    BY <1>4, PathAssumption DEF Interrupt, PathTypeOK
  <2> QED BY <1>4, <2>1, TypesThread DEF Interrupt
<1>5. ASSUME NEW b \in Sources, NEW m \in Posts[b], Post(b, m)
      PROVE  PathTypeOK'
  BY <1>5, TypesPost
<1>6. CASE UNCHANGED vars
  BY <1>6 DEF vars, sinkVars, sourceVars, portVars, PathTypeOK
<1> QED BY <1>1, <1>2, <1>3, <1>4, <1>5, <1>6 DEF Next
-----------------------------------------------------------------------------
(* EOF comes last *)

EofIn(s)     == \E i \in 1 .. Len(s) : s[i] = EOF
OnlyEof(s)   == \A i \in 1 .. Len(s) : s[i] = EOF
EofAtEnd(s)  == \A i, j \in 1 .. Len(s) : i < j /\ s[i] = EOF => s[j] = EOF

\* Sequences one after the other.
LEMMA EofInBoth ==
  ASSUME NEW s, NEW t, IsSeq(s), IsSeq(t)
  PROVE  /\ EofIn(s \o t) <=> EofIn(s) \/ EofIn(t)
         /\ OnlyEof(s \o t) <=> OnlyEof(s) /\ OnlyEof(t)
         /\ EofAtEnd(s \o t) <=> EofAtEnd(s) /\ EofAtEnd(t) /\ (EofIn(s) => OnlyEof(t))
<1> DEFINE u == s \o t
           m == Len(s)
           n == Len(t)
<1>1. /\ m \in Nat /\ n \in Nat /\ Len(u) = m + n
      /\ \A i \in 1 .. m : u[i] = s[i]
      /\ \A i \in 1 .. n : u[m + i] = t[i]
  BY SeqFacts, ConcatFacts
<1> HIDE DEF u, m, n
<1>2. \A i \in 1 .. m + n : i \in 1 .. m \/ (i - m \in 1 .. n /\ i = m + (i - m))
  BY <1>1
<1>3. \A i \in 1 .. m : i \in 1 .. m + n
  BY <1>1
<1>4. \A i \in 1 .. n : m + i \in 1 .. m + n
  BY <1>1
<1>5. \A i \in 1 .. m + n : i \notin 1 .. m => u[i] = t[i - m]
  BY <1>1, <1>2
<1>6. (\E i \in 1 .. m + n : u[i] = EOF) <=> (\E i \in 1 .. m : s[i] = EOF) \/ (\E i \in 1 .. n : t[i] = EOF)
  <2>1. ASSUME NEW i \in 1 .. m + n, u[i] = EOF
        PROVE  (\E k \in 1 .. m : s[k] = EOF) \/ (\E k \in 1 .. n : t[k] = EOF)
    <3>1. CASE i \in 1 .. m
      BY <1>1, <2>1, <3>1
    <3>2. CASE i \notin 1 .. m
      BY <1>2, <1>5, <2>1, <3>2
    <3> QED BY <3>1, <3>2
  <2>2. ASSUME NEW i \in 1 .. m, s[i] = EOF
        PROVE  \E k \in 1 .. m + n : u[k] = EOF
    BY <1>1, <1>3, <2>2
  <2>3. ASSUME NEW i \in 1 .. n, t[i] = EOF
        PROVE  \E k \in 1 .. m + n : u[k] = EOF
    BY <1>1, <1>4, <2>3
  <2> QED BY <2>1, <2>2, <2>3
<1>7. (\A i \in 1 .. m + n : u[i] = EOF) <=> (\A i \in 1 .. m : s[i] = EOF) /\ (\A i \in 1 .. n : t[i] = EOF)
  BY <1>1, <1>2, <1>3, <1>4
<1>8. ASSUME EofAtEnd(u)
      PROVE  EofAtEnd(s) /\ EofAtEnd(t) /\ (EofIn(s) => OnlyEof(t))
  <2>1. \A i, j \in 1 .. m + n : i < j /\ u[i] = EOF => u[j] = EOF
    BY <1>1, <1>8 DEF EofAtEnd
  <2>2. \A i, j \in 1 .. m : i < j /\ s[i] = EOF => s[j] = EOF
    BY <1>1, <1>3, <2>1
  <2>3. ASSUME NEW i \in 1 .. n, NEW j \in 1 .. n, i < j, t[i] = EOF
        PROVE  t[j] = EOF
    <3>1. m + i < m + j /\ u[m + i] = EOF
      BY <1>1, <2>3
    <3>2. u[m + j] = EOF
      BY <1>4, <2>1, <3>1
    <3> QED BY <1>1, <3>2
  <2>4. ASSUME NEW i \in 1 .. m, NEW j \in 1 .. n, s[i] = EOF
        PROVE  t[j] = EOF
    <3>1. i < m + j /\ u[i] = EOF
      BY <1>1, <2>4
    <3>2. u[m + j] = EOF
      BY <1>3, <1>4, <2>1, <3>1
    <3> QED BY <1>1, <3>2
  <2> QED BY <2>2, <2>3, <2>4 DEF EofAtEnd, EofIn, OnlyEof, m, n
<1>9. ASSUME EofAtEnd(s), EofAtEnd(t), EofIn(s) => OnlyEof(t)
      PROVE  EofAtEnd(u)
  <2>1. /\ \A i, j \in 1 .. m : i < j /\ s[i] = EOF => s[j] = EOF
        /\ \A i, j \in 1 .. n : i < j /\ t[i] = EOF => t[j] = EOF
        /\ \A i \in 1 .. m, j \in 1 .. n : s[i] = EOF => t[j] = EOF
    BY <1>9 DEF EofAtEnd, EofIn, OnlyEof, m, n
  <2>2. ASSUME NEW i \in 1 .. m + n, NEW j \in 1 .. m + n, i < j, u[i] = EOF
        PROVE  u[j] = EOF
    <3>1. CASE j \in 1 .. m
      <4>1. i \in 1 .. m
        BY <1>1, <2>2, <3>1
      <4> QED BY <1>1, <2>1, <2>2, <3>1, <4>1
    <3>2. CASE j \notin 1 .. m /\ i \in 1 .. m
      <4>1. j - m \in 1 .. n /\ u[j] = t[j - m] /\ s[i] = EOF
        BY <1>1, <1>2, <1>5, <2>2, <3>2
      <4> QED BY <2>1, <3>2, <4>1
    <3>3. CASE j \notin 1 .. m /\ i \notin 1 .. m
      <4>1. /\ j - m \in 1 .. n /\ u[j] = t[j - m] /\ i - m \in 1 .. n /\ t[i - m] = EOF
            /\ i - m < j - m
        BY <1>1, <1>2, <1>5, <2>2, <3>3
      <4> QED BY <2>1, <4>1
    <3> QED BY <3>1, <3>2, <3>3
  <2> QED BY <1>1, <2>2 DEF EofAtEnd
<1> QED BY <1>1, <1>6, <1>7, <1>8, <1>9 DEF EofIn, OnlyEof, u, m, n

LEMMA EofInNothing == ~EofIn(<<>>) /\ OnlyEof(<<>>) /\ EofAtEnd(<<>>)
BY EmptyFacts DEF EofIn, OnlyEof, EofAtEnd

LEMMA EofInOne ==
  ASSUME NEW m
  PROVE  (EofIn(<<m>>) <=> m = EOF) /\ (OnlyEof(<<m>>) <=> m = EOF) /\ EofAtEnd(<<m>>)
<1>1. Len(<<m>>) = 1 /\ <<m>>[1] = m
  BY OneFacts
<1> QED BY <1>1 DEF EofIn, OnlyEof, EofAtEnd

LEMMA EofInRest ==
  ASSUME NEW s, IsSeq(s), s # <<>>, EofAtEnd(s)
  PROVE  /\ EofAtEnd(Tail(s)) /\ (EofIn(Tail(s)) => EofIn(s)) /\ (OnlyEof(s) => OnlyEof(Tail(s)))
         /\ Head(s) = EOF => EofIn(s) /\ OnlyEof(Tail(s))
         /\ OnlyEof(s) => Head(s) = EOF
<1> DEFINE t == Tail(s)
           n == Len(s)
<1>1. /\ n \in Nat /\ n >= 1 /\ Head(s) = s[1] /\ Len(t) = n - 1
      /\ \A i \in 1 .. n - 1 : t[i] = s[i + 1]
  BY SeqFacts, HeadTailFacts
<1>2. \A i, j \in 1 .. n : i < j /\ s[i] = EOF => s[j] = EOF
  BY DEF EofAtEnd
<1> HIDE DEF t, n
<1>3. \A i \in 1 .. n - 1 : i + 1 \in 1 .. n /\ 1 < i + 1
  BY <1>1
<1>4. 1 \in 1 .. n
  BY <1>1
<1>5. \A i, j \in 1 .. n - 1 : i < j => i + 1 < j + 1
  BY <1>1
<1>6. \A i, j \in 1 .. n - 1 : i < j /\ t[i] = EOF => t[j] = EOF
  BY <1>1, <1>2, <1>3, <1>5
<1>7. (\E i \in 1 .. n - 1 : t[i] = EOF) => \E i \in 1 .. n : s[i] = EOF
  BY <1>1, <1>3
<1>8. (\A i \in 1 .. n : s[i] = EOF) => (\A i \in 1 .. n - 1 : t[i] = EOF) /\ s[1] = EOF
  BY <1>1, <1>3, <1>4
<1>9. s[1] = EOF => (\E i \in 1 .. n : s[i] = EOF) /\ \A i \in 1 .. n - 1 : t[i] = EOF
  BY <1>1, <1>2, <1>3, <1>4
<1> QED BY <1>1, <1>6, <1>7, <1>8, <1>9 DEF EofIn, OnlyEof, EofAtEnd, t, n

LEMMA NoneIsEof ==
  ASSUME NEW s, \A i \in 1 .. Len(s) : s[i] # EOF
  PROVE  ~EofIn(s) /\ EofAtEnd(s)
BY DEF EofIn, EofAtEnd

LEMMA AllAreEof ==
  ASSUME NEW s, \A i \in 1 .. Len(s) : s[i] = EOF
  PROVE  OnlyEof(s) /\ EofAtEnd(s)
BY DEF OnlyEof, EofAtEnd
-----------------------------------------------------------------------------
(* A converter goes on converting after EOF, so what it sends ends with EOF  *)
(* only if what it gets does: it listens to one block, as in the flow graphs *)
(* of the tests.  (In examples/move2_postprocessing a randomiser listens to   *)
(* two, of which only one is given the stream.)                             *)
OneUpstream ==
  \A c \in Converters : \A a, b \in Blocks : c \in Subscribers[a] /\ c \in Subscribers[b] => a = b

SentEofLast   == \A b \in Blocks : EofAtEnd(published[b])
QueuedEofLast == \A c \in Converters : /\ EofAtEnd(queue[c])
                                       /\ EofIn(published[c]) => OnlyEof(queue[c])
EofFromAbove  == \A c \in Converters : \A a \in Blocks :
                   c \in Subscribers[a] /\ (EofIn(queue[c]) \/ EofIn(published[c])) => EofIn(published[a])
EofEndsSinks  == \A b \in Sinks : EofIn(published[b]) => ~running[b]
EofStopsHarden == "harden" \in Blocks /\ EofIn(published["harden"]) => d_stop["harden"]

EofAtPorts == SentEofLast /\ QueuedEofLast /\ EofFromAbove
EofInv     == EofAtPorts /\ EofEndsSinks /\ EofStopsHarden

\* A block sends msgs and keeps handled of its queue: it sends nothing but EOF
\* after EOF, and a converter EOF only when it had one.
MaySend(b, msgs, handled) ==
  /\ AreMessages(msgs) /\ AreMessages(handled)
  /\ EofAtEnd(msgs) /\ (EofIn(published[b]) => OnlyEof(msgs))
  /\ b \in Converters => /\ EofAtEnd(handled) /\ (EofIn(handled) => EofIn(queue[b]))
                         /\ EofIn(msgs) => EofIn(queue[b])
                         /\ EofIn(published[b]) \/ EofIn(msgs) => OnlyEof(handled)

LEMMA EofPublished ==
  ASSUME PathTypeOK, OneUpstream, EofAtPorts,
         NEW b \in Blocks, NEW msgs, NEW handled, Publish(b, msgs, handled), MaySend(b, msgs, handled)
  PROVE  /\ EofAtPorts'
         /\ \A c \in Blocks : EofIn(published'[c]) <=> EofIn(published[c]) \/ (c = b /\ EofIn(msgs))
<1>1. /\ \A c \in Blocks : queue'[c] = IF Gets(b, c) THEN Left(b, c, handled) \o msgs
                                       ELSE Left(b, c, handled)
      /\ \A c \in Blocks : published'[c] = IF c = b THEN published[b] \o msgs ELSE published[c]
  BY Published, PortTypesHold
<1>2. /\ IsSeq(msgs) /\ IsSeq(handled)
      /\ \A c \in Blocks : IsSeq(published[c]) /\ IsSeq(queue[c])
  BY DEF MaySend, PathTypeOK, AreMessages
<1>3. /\ EofIn(published[b] \o msgs) <=> EofIn(published[b]) \/ EofIn(msgs)
      /\ EofAtEnd(published[b] \o msgs)
  BY <1>2, EofInBoth DEF MaySend, EofAtPorts, SentEofLast
<1>4. \A c \in Blocks : EofIn(published'[c]) <=> EofIn(published[c]) \/ (c = b /\ EofIn(msgs))
  BY <1>1, <1>3
<1>5. SentEofLast'
  <2>1. \A c \in Blocks : EofAtEnd(published'[c])
    BY <1>1, <1>3 DEF EofAtPorts, SentEofLast
  <2> QED BY <2>1 DEF SentEofLast
\* What a converter had left: nothing new
<1>6. ASSUME NEW c \in Converters
      PROVE  /\ IsSeq(Left(b, c, handled)) /\ EofAtEnd(Left(b, c, handled))
             /\ EofIn(Left(b, c, handled)) => EofIn(queue[c])
             /\ EofIn(published'[c]) => OnlyEof(Left(b, c, handled))
             /\ EofIn(published'[c]) => EofIn(published[c]) \/ EofIn(queue[c])
  <2>1. c \in Blocks
    BY Kinds
  <2>2. EofAtEnd(queue[c]) /\ (EofIn(published[c]) => OnlyEof(queue[c]))
    BY DEF EofAtPorts, QueuedEofLast
  <2>3. CASE c = b
    BY <1>2, <1>4, <2>1, <2>2, <2>3 DEF Left, MaySend
  <2>4. CASE c # b
    BY <1>2, <1>4, <2>1, <2>2, <2>4 DEF Left
  <2> QED BY <2>3, <2>4
<1>7. ASSUME NEW c \in Converters
      PROVE  /\ EofAtEnd(queue'[c]) /\ (EofIn(published'[c]) => OnlyEof(queue'[c]))
             /\ \A a \in Blocks : c \in Subscribers[a] /\ (EofIn(queue'[c]) \/ EofIn(published'[c]))
                                    => EofIn(published'[a])
  <2>1. c \in Blocks
    BY Kinds
  <2>2. \A a \in Blocks : c \in Subscribers[a] /\ (EofIn(queue[c]) \/ EofIn(published[c]))
                            => EofIn(published[a])
    BY DEF EofAtPorts, EofFromAbove
  <2> DEFINE left == Left(b, c, handled)
  <2>3. /\ IsSeq(left) /\ EofAtEnd(left) /\ (EofIn(left) => EofIn(queue[c]))
        /\ EofIn(published'[c]) => OnlyEof(left)
        /\ EofIn(published'[c]) => EofIn(published[c]) \/ EofIn(queue[c])
    BY <1>6
  <2>4. queue'[c] = IF Gets(b, c) THEN left \o msgs ELSE left
    BY <1>1, <2>1
  <2> HIDE DEF left
  <2>5. CASE ~Gets(b, c)
    BY <1>4, <2>2, <2>3, <2>4, <2>5
  <2>6. CASE Gets(b, c)
    <3>1. c \in Subscribers[b]
      BY <2>6 DEF Gets
    <3>2. /\ EofIn(left \o msgs) <=> EofIn(left) \/ EofIn(msgs)
          /\ OnlyEof(left \o msgs) <=> OnlyEof(left) /\ OnlyEof(msgs)
          /\ EofAtEnd(left \o msgs) <=> EofAtEnd(left) /\ EofAtEnd(msgs) /\ (EofIn(left) => OnlyEof(msgs))
      BY <1>2, <2>3, EofInBoth
    <3>3. EofAtEnd(msgs) /\ (EofIn(published[b]) => OnlyEof(msgs))
      BY DEF MaySend
    <3>4. EofAtEnd(queue'[c]) /\ (EofIn(published'[c]) => OnlyEof(queue'[c]))
      BY <2>2, <2>3, <2>4, <2>6, <3>1, <3>2, <3>3
    <3>5. ASSUME NEW a \in Blocks, c \in Subscribers[a], EofIn(queue'[c]) \/ EofIn(published'[c])
          PROVE  EofIn(published'[a])
      <4>1. a = b
        BY <2>1, <3>1, <3>5 DEF OneUpstream
      <4> QED BY <1>4, <2>2, <2>3, <2>4, <2>6, <3>1, <3>2, <3>5, <4>1
    <3> QED BY <3>4, <3>5
  <2> QED BY <2>5, <2>6
<1>8. QueuedEofLast' /\ EofFromAbove'
  BY <1>7 DEF QueuedEofLast, EofFromAbove
<1> QED BY <1>4, <1>5, <1>8 DEF EofAtPorts

\* A step of b at the ports that starts no thread and lets none go on after EOF.
LEMMA EofKept ==
  ASSUME PathTypeOK, OneUpstream, EofInv,
         NEW b \in Blocks, NEW msgs, NEW handled, Publish(b, msgs, handled), MaySend(b, msgs, handled),
         \A c \in Blocks : running'[c] => running[c],
         "harden" \in Blocks /\ d_stop["harden"] => d_stop'["harden"],
         b \in Sinks /\ EofIn(msgs) => ~running'[b],
         b = "harden" /\ EofIn(msgs) => d_stop'["harden"]
  PROVE  EofInv'
<1>1. /\ EofAtPorts'
      /\ \A c \in Blocks : EofIn(published'[c]) <=> EofIn(published[c]) \/ (c = b /\ EofIn(msgs))
  BY EofPublished DEF EofInv
<1>2. EofEndsSinks'
  <2>1. \A c \in Sinks : EofIn(published'[c]) => ~running'[c]
    BY <1>1, Kinds DEF EofInv, EofEndsSinks
  <2> QED BY <2>1 DEF EofEndsSinks
<1>3. EofStopsHarden'
  BY <1>1 DEF EofInv, EofStopsHarden
<1> QED BY <1>1, <1>2, <1>3 DEF EofInv

LEMMA EofThread ==
  ASSUME PathTypeOK, OneUpstream, EofInv, NEW b \in Blocks, running[b], EndThread(b)
  PROVE  EofInv'
<1>1. /\ running' = [running EXCEPT ![b] = FALSE]
      /\ Publish(b, Farewell(b), <<>>)
      /\ d_stop' = IF b = "harden" THEN [d_stop EXCEPT ![b] = TRUE] ELSE d_stop
      /\ running \in [Blocks -> BOOLEAN] /\ d_stop \in [Blocks -> BOOLEAN]
  BY DEF EndThread, PathTypeOK
<1>2. MaySend(b, Farewell(b), <<>>)
  <2>1. b \in Converters => Farewell(b) = <<>>
    BY Kinds DEF Farewell
  <2>2. AreMessages(Farewell(b)) /\ OnlyEof(Farewell(b)) /\ EofAtEnd(Farewell(b))
    BY FarewellMessages, AllAreEof
  <2> QED BY <2>1, <2>2, NoMessages, EofInNothing DEF MaySend
<1>3. (\A c \in Blocks : running'[c] => running[c]) /\ ~running'[b]
  BY <1>1
<1>4. /\ "harden" \in Blocks /\ d_stop["harden"] => d_stop'["harden"]
      /\ b = "harden" => d_stop'["harden"]
  BY <1>1
<1> QED BY <1>1, <1>2, <1>3, <1>4, EofKept

LEMMA EofFeed ==
  ASSUME PathTypeOK, OneUpstream, EofInv, NEW b \in Sinks, NEW n \in FeedSizes[b], Feed(b, n)
  PROVE  EofInv'
<1>1. PICK msgs : /\ Publish(b, msgs, <<>>) /\ AreMessages(msgs)
                  /\ \A i \in 1 .. Len(msgs) : msgs[i] # EOF
  BY FedMessages
<1>2. running[b] /\ UNCHANGED <<running, d_stop>>
  BY DEF Feed
<1>3. ~EofIn(msgs) /\ EofAtEnd(msgs)
  BY <1>1, NoneIsEof
<1>4. ~EofIn(published[b])
  BY <1>2 DEF EofInv, EofEndsSinks
<1>5. b \in Blocks /\ MaySend(b, msgs, <<>>)
  BY <1>1, <1>3, <1>4, NoMessages, Kinds DEF MaySend
<1> QED BY <1>1, <1>2, <1>3, <1>5, EofKept

LEMMA EofConverters ==
  ASSUME PathTypeOK, OneUpstream, EofInv, NEW b \in Converters, Convert(b) \/ ConvertEof(b)
  PROVE  EofInv'
<1>1. b \in Blocks /\ queue[b] # <<>> /\ b \notin Sinks /\ b # "harden"
  BY Kinds DEF Convert, ConvertEof, Waiting
<1> DEFINE q == queue[b]
<1>2. /\ IsSeq(q) /\ EofAtEnd(q) /\ (EofIn(published[b]) => OnlyEof(q)) /\ AreMessages(Tail(q))
  BY <1>1, Turned DEF EofInv, EofAtPorts, QueuedEofLast
<1>3. /\ EofAtEnd(Tail(q)) /\ (EofIn(Tail(q)) => EofIn(q)) /\ (OnlyEof(q) => OnlyEof(Tail(q)))
      /\ Head(q) = EOF => EofIn(q) /\ OnlyEof(Tail(q))
      /\ OnlyEof(q) => Head(q) = EOF
  BY <1>1, <1>2, EofInRest
<1>4. CASE Convert(b)
  <2>1. PICK msgs : Publish(b, msgs, Tail(q)) /\ AreMessages(msgs) /\ \A i \in 1 .. Len(msgs) : msgs[i] # EOF
    BY <1>4, ConvertSends
  <2>2. ~EofIn(msgs) /\ EofAtEnd(msgs)
    BY <2>1, NoneIsEof
  <2>3. Head(q) # EOF /\ UNCHANGED <<running, d_stop>>
    BY <1>4 DEF Convert
  <2>4. ~EofIn(published[b])
    BY <1>2, <1>3, <2>3
  <2>5. MaySend(b, msgs, Tail(q))
    BY <1>2, <1>3, <2>1, <2>2, <2>4 DEF MaySend
  <2> QED BY <1>1, <2>1, <2>2, <2>3, <2>5, EofKept
<1>5. CASE ConvertEof(b)
  <2>1. /\ Publish(b, <<EOF>>, Tail(q)) /\ Head(q) = EOF /\ UNCHANGED running
        /\ d_stop' = [d_stop EXCEPT ![b] = TRUE]
    BY <1>5 DEF ConvertEof, Forwarded
  <2>2. "harden" \in Blocks /\ d_stop["harden"] => d_stop'["harden"]
    BY <2>1, <1>1 DEF PathTypeOK
  <2>3. MaySend(b, <<EOF>>, Tail(q))
    BY <1>2, <1>3, <2>1, EofMessage, OneMessage, EofInOne DEF MaySend
  <2> QED BY <1>1, <2>1, <2>2, <2>3, EofKept
<1> QED BY <1>4, <1>5

LEMMA EofHarden ==
  ASSUME PathTypeOK, OneUpstream, EofInv, Harden
  PROVE  EofInv'
<1>1. /\ "harden" \in Blocks /\ queue["harden"] # <<>>
      /\ d_stop["harden"] => d_stop'["harden"]
      /\ \/ Publish("harden", <<>>, Tail(queue["harden"]))
         \/ /\ ~d_stop["harden"]
            /\ \E m : /\ Publish("harden", <<m>>, Tail(queue["harden"])) /\ IsMessage(m)
                      /\ m = EOF => d_stop'["harden"]
  BY HardenSends
<1>2. PICK msgs : /\ Publish("harden", msgs, Tail(queue["harden"])) /\ AreMessages(msgs) /\ EofAtEnd(msgs)
                  /\ OnlyEof(msgs) \/ ~d_stop["harden"]
                  /\ EofIn(msgs) => d_stop'["harden"]
  BY <1>1, NoMessages, OneMessage, EofInNothing, EofInOne
<1>3. UNCHANGED running
  BY DEF Harden
<1>4. AreMessages(Tail(queue["harden"]))
  BY <1>1, Turned
<1>5. EofIn(published["harden"]) => OnlyEof(msgs)
  BY <1>1, <1>2 DEF EofInv, EofStopsHarden
<1>6. MaySend("harden", msgs, Tail(queue["harden"]))
  BY <1>2, <1>4, <1>5, Kinds DEF MaySend
<1> QED BY <1>1, <1>2, <1>3, <1>6, Kinds, EofKept

LEMMA EofSources ==
  ASSUME PathTypeOK, OneUpstream, EofInv, SourceMessage \/ PackerMessage
  PROVE  EofInv'
<1>1. PICK b \in Sources : /\ queue[b] # <<>> /\ Publish(b, <<>>, Tail(queue[b])) /\ UNCHANGED running
                           /\ (b = "source" /\ SourceMessage) \/ (b = "packer" /\ PackerMessage)
  BY DEF SourceMessage, PackerMessage, Waiting, Handled, Sources
<1>2. b \in Blocks /\ b \notin Sinks /\ b \notin Converters /\ b # "harden"
  BY Kinds
<1>3. MaySend(b, <<>>, Tail(queue[b]))
  BY <1>1, <1>2, Turned, NoMessages, EofInNothing DEF MaySend
<1>4. "harden" \in Blocks /\ d_stop["harden"] => d_stop'["harden"]
  <2>1. \E x : d_stop' = d_stop \/ d_stop' = [d_stop EXCEPT ![b] = x]
    BY <1>1 DEF SourceMessage, PackerMessage
  <2> QED BY <1>2, <2>1 DEF PathTypeOK
<1> QED BY <1>1, <1>2, <1>3, <1>4, EofInNothing, EofKept

LEMMA EofAlone ==
  ASSUME EofInv, UNCHANGED <<running, d_stop, published>>,
         \A c \in Converters : queue'[c] = queue[c]
  PROVE  EofInv'
<1>1. SentEofLast' /\ EofEndsSinks' /\ EofStopsHarden'
  BY DEF EofInv, EofAtPorts, SentEofLast, EofEndsSinks, EofStopsHarden
<1>2. QueuedEofLast'
  BY DEF EofInv, EofAtPorts, QueuedEofLast
<1>3. EofFromAbove'
  BY DEF EofInv, EofAtPorts, EofFromAbove
<1> QED BY <1>1, <1>2, <1>3 DEF EofInv, EofAtPorts

LEMMA EofStep ==
  ASSUME OneUpstream
  PROVE  PathTypeOK /\ EofInv /\ [Next]_vars => EofInv'
<1> SUFFICES ASSUME PathTypeOK, EofInv, [Next]_vars PROVE EofInv'
  OBVIOUS
<1>1. ASSUME NEW b \in Sinks, EndOfInput(b)
      PROVE  EofInv'
  BY <1>1, Kinds, EofThread DEF EndOfInput
<1>2. ASSUME NEW b \in Sinks, NEW n \in FeedSizes[b], Feed(b, n)
      PROVE  EofInv'
  BY <1>2, EofFeed
<1>3. CASE Threads
  <2>1. ASSUME NEW b \in Sources, Finish(b)
        PROVE  EofInv'
    BY <2>1, Kinds, EofThread DEF Finish
  <2>2. ASSUME NEW b \in Sources, NEW space \in WorkSizes, Work(b, space)
        PROVE  EofInv'
    BY <2>2, EofAlone DEF Work, portVars
  <2> QED BY <1>3, <2>1, <2>2, EofConverters, EofHarden, EofSources DEF Threads
<1>4. ASSUME NEW b \in Interruptible, Interrupt(b)
      PROVE  EofInv'
  BY <1>4, PathAssumption, EofThread DEF Interrupt
<1>5. ASSUME NEW b \in Sources, NEW m \in Posts[b], Post(b, m)
      PROVE  EofInv'
  <2>1. UNCHANGED <<running, d_stop, published>> /\ queue' = [queue EXCEPT ![b] = Append(@, m)]
    BY <1>5 DEF Post
  <2>2. \A c \in Converters : queue'[c] = queue[c]
    BY <2>1, Kinds DEF PathTypeOK
  <2> QED BY <2>1, <2>2, EofAlone
<1>6. CASE UNCHANGED vars
  BY <1>6, EofAlone DEF vars, portVars
<1> QED BY <1>1, <1>2, <1>3, <1>4, <1>5, <1>6 DEF Next

LEMMA EofInit == Init => EofInv
BY Kinds, EofInNothing DEF Init, EofInv, EofAtPorts, SentEofLast, QueuedEofLast, EofFromAbove,
                           EofEndsSinks, EofStopsHarden

(* The types of queues, histories and streams, for any blocks connected in   *)
(* any way, any stream, frame lengths and divisions into calls.             *)
THEOREM PathTypeCorrect == Spec => []PathTypeOK
<1>1. Init => PathTypeOK
  BY TypesInit
<1>2. PathTypeOK /\ [Next]_vars => PathTypeOK'
  BY TypesStep
<1> QED BY <1>1, <1>2, PTL DEF Spec

(* No block sends a message after EOF: not when its thread is ended at any   *)
(* point and stop() sends EOF again, nor when messages wait behind EOF, if   *)
(* each converter listens to one block (process_frame and stop of all       *)
(* message blocks).                                                         *)
THEOREM PathEofLast ==
  ASSUME OneUpstream
  PROVE  Spec => []EofLast
<1>1. Init => EofInv
  BY EofInit
<1>2. PathTypeOK /\ EofInv /\ [Next]_vars => EofInv'
  BY EofStep
<1>3. EofInv => EofLast
  BY DEF EofInv, EofAtPorts, SentEofLast, EofAtEnd, EofLast
<1>4. Spec => []PathTypeOK
  BY PathTypeCorrect
<1> QED BY <1>1, <1>2, <1>3, <1>4, PTL DEF Spec
-----------------------------------------------------------------------------
(* Sequences one after the other *)

\* Induction over the natural numbers, for sets.
LEMMA SetInduction ==
  ASSUME NEW S \in SUBSET Nat, 0 \in S, \A n \in S : n + 1 \in S
  PROVE  S = Nat
<1> DEFINE R == OpToRel(<, Nat)
           T == Nat \ S
<1>1. SUFFICES ASSUME T # {} PROVE FALSE
  OBVIOUS
<1>2. IsWellFoundedOn(R, Nat)
  BY NatLessThanWellFounded
<1>3. PICK n \in T : \A m \in T : ~(<<m, n>> \in R)
  <2> HIDE DEF R
  <2> QED BY <1>1, <1>2, WFMin
<1>4. n \in Nat /\ n # 0 /\ n - 1 \in Nat /\ n - 1 < n
  OBVIOUS
<1>5. <<n - 1, n>> \in R
  BY <1>4 DEF OpToRel
<1>6. n - 1 \in S
  BY <1>3, <1>4, <1>5
<1>7. (n - 1) + 1 = n
  BY <1>4
<1> QED BY <1>6, <1>7

AreSeqs(ss) == IsSeq(ss) /\ \A i \in 1 .. Len(ss) : IsSeq(ss[i])

\* The function that Concatenated chooses, and one that is defined up to n.
IsJoined(ss, f) == f = [n \in 0 .. Len(ss) |-> IF n = 0 THEN <<>> ELSE f[n - 1] \o ss[n]]
JoinedOf(ss)    == CHOOSE f : IsJoined(ss, f)
JoinedSoFar(ss, n, f) ==
  /\ f = [i \in 0 .. n |-> f[i]] /\ f[0] = <<>>
  /\ \A i \in 1 .. n : f[i] = f[i - 1] \o ss[i]

LEMMA ConcatenatedJoined ==
  ASSUME NEW ss
  PROVE  Concatenated(ss) = JoinedOf(ss)
BY DEF Concatenated, JoinedOf, IsJoined

LEMMA JoinedExtended ==
  ASSUME NEW ss, NEW n \in Nat, NEW f, JoinedSoFar(ss, n, f)
  PROVE  \E g : JoinedSoFar(ss, n + 1, g)
<1> DEFINE q == f[n] \o ss[n + 1]
           g == [i \in 0 .. n + 1 |-> IF i <= n THEN f[i] ELSE q]
<1>1. f[0] = <<>> /\ \A i \in 1 .. n : f[i] = f[i - 1] \o ss[i]
  BY DEF JoinedSoFar
<1>2. /\ \A i \in 0 .. n : g[i] = f[i]
      /\ g[n + 1] = q /\ g = [i \in 0 .. n + 1 |-> g[i]]
  OBVIOUS
<1> HIDE DEF g, q
<1>3. g[0] = <<>>
  <2>1. 0 \in 0 .. n
    OBVIOUS
  <2> QED BY <1>1, <1>2, <2>1
<1>4. ASSUME NEW i \in 1 .. n + 1
      PROVE  g[i] = g[i - 1] \o ss[i]
  <2>1. CASE i <= n
    <3>1. i \in 1 .. n /\ i \in 0 .. n /\ i - 1 \in 0 .. n
      BY <2>1
    <3> QED BY <1>1, <1>2, <3>1
  <2>2. CASE i = n + 1
    <3>1. i - 1 = n /\ n \in 0 .. n
      BY <2>2
    <3>2. g[i - 1] = f[n] /\ g[i] = q
      BY <1>2, <2>2, <3>1
    <3> QED BY <2>2, <3>2 DEF q
  <2>3. i <= n \/ i = n + 1
    OBVIOUS
  <2> QED BY <2>1, <2>2, <2>3
<1> QED BY <1>2, <1>3, <1>4 DEF JoinedSoFar

LEMMA JoinedSteps ==
  ASSUME NEW ss, AreSeqs(ss)
  PROVE  /\ Len(ss) \in Nat /\ Concatenated(ss)[0] = <<>>
         /\ \A n \in 1 .. Len(ss) : Concatenated(ss)[n] = Concatenated(ss)[n - 1] \o ss[n]
         /\ \A n \in 0 .. Len(ss) : IsSeq(Concatenated(ss)[n])
<1> DEFINE N == Len(ss)
           S == {n \in Nat : \E f : JoinedSoFar(ss, n, f)}
           J == Concatenated(ss)
<1>1. N \in Nat
  BY SeqFacts DEF AreSeqs
<1>2. 0 \in S
  <2> DEFINE f == [i \in 0 .. 0 |-> <<>>]
  <2>1. f = [i \in 0 .. 0 |-> f[i]] /\ f[0] = <<>>
    OBVIOUS
  <2> HIDE DEF f
  <2>2. JoinedSoFar(ss, 0, f)
    BY <2>1 DEF JoinedSoFar
  <2> QED BY <2>2
<1>3. \A n \in S : n + 1 \in S
  BY JoinedExtended
<1>4. S = Nat
  <2>1. S \in SUBSET Nat
    OBVIOUS
  <2> HIDE DEF S
  <2> QED BY <1>2, <1>3, <2>1, SetInduction
<1>5. PICK f : JoinedSoFar(ss, N, f)
  BY <1>1, <1>4
<1>6. IsJoined(ss, f)
  <2>1. /\ f = [n \in 0 .. N |-> f[n]] /\ f[0] = <<>>
        /\ \A n \in 1 .. N : f[n] = f[n - 1] \o ss[n]
    BY <1>5 DEF JoinedSoFar
  <2>2. \A n \in 0 .. N : f[n] = IF n = 0 THEN <<>> ELSE f[n - 1] \o ss[n]
    BY <1>1, <2>1
  <2> QED BY <2>1, <2>2 DEF IsJoined
<1>7. IsJoined(ss, J)
  BY <1>6, ConcatenatedJoined DEF JoinedOf
<1> HIDE DEF J
<1>8. J[0] = <<>>
  BY <1>1, <1>7 DEF IsJoined
<1>9. \A n \in 1 .. N : J[n] = J[n - 1] \o ss[n]
  <2> SUFFICES ASSUME NEW n \in 1 .. N PROVE J[n] = J[n - 1] \o ss[n]
    OBVIOUS
  <2>1. n \in 0 .. N /\ n # 0
    BY <1>1
  <2> QED BY <1>7, <2>1 DEF IsJoined
<1>10. \A n \in 0 .. N : IsSeq(J[n])
  <2> DEFINE T == {n \in Nat : n <= N => IsSeq(J[n])}
  <2>1. 0 \in T
    BY <1>8, EmptyFacts
  <2>2. ASSUME NEW n \in T
        PROVE  n + 1 \in T
    <3> SUFFICES ASSUME n + 1 <= N PROVE IsSeq(J[n + 1])
      OBVIOUS
    <3>1. n + 1 \in 1 .. N /\ (n + 1) - 1 = n /\ IsSeq(J[n])
      BY <1>1
    <3>2. J[n + 1] = J[n] \o ss[n + 1] /\ IsSeq(ss[n + 1])
      BY <1>9, <3>1 DEF AreSeqs
    <3> QED BY <3>1, <3>2, ConcatFacts
  <2>3. T \in SUBSET Nat
    OBVIOUS
  <2>4. T = Nat
    <3> HIDE DEF T
    <3> QED BY <2>1, <2>2, <2>3, SetInduction
  <2> QED BY <1>1, <2>4
<1> QED BY <1>1, <1>8, <1>9, <1>10 DEF J

\* What comes of the first m sequences is the same when those are the same.
LEMMA JoinedSame ==
  ASSUME NEW s, NEW t, AreSeqs(s), AreSeqs(t), NEW m \in Nat, m <= Len(s), m <= Len(t),
         \A i \in 1 .. m : s[i] = t[i]
  PROVE  Concatenated(s)[m] = Concatenated(t)[m]
<1> DEFINE F == Concatenated(s)
           G == Concatenated(t)
           T == {n \in Nat : n <= m => F[n] = G[n]}
<1>1. /\ Len(s) \in Nat /\ F[0] = <<>> /\ \A n \in 1 .. Len(s) : F[n] = F[n - 1] \o s[n]
      /\ Len(t) \in Nat /\ G[0] = <<>> /\ \A n \in 1 .. Len(t) : G[n] = G[n - 1] \o t[n]
  BY JoinedSteps
<1> HIDE DEF F, G
<1>2. 0 \in T
  BY <1>1
<1>3. ASSUME NEW n \in T
      PROVE  n + 1 \in T
  <2> SUFFICES ASSUME n + 1 <= m PROVE F[n + 1] = G[n + 1]
    OBVIOUS
  <2>1. n + 1 \in 1 .. Len(s) /\ n + 1 \in 1 .. Len(t) /\ (n + 1) - 1 = n /\ n + 1 \in 1 .. m
        /\ F[n] = G[n]
    BY <1>1
  <2>2. F[n + 1] = F[n] \o s[n + 1] /\ G[n + 1] = G[n] \o t[n + 1] /\ s[n + 1] = t[n + 1]
    BY <1>1, <2>1
  <2> QED BY <2>1, <2>2
<1>4. T \in SUBSET Nat
  OBVIOUS
<1>5. T = Nat
  <2> HIDE DEF T
  <2> QED BY <1>2, <1>3, <1>4, SetInduction
<1>6. m \in T
  BY <1>5
<1> QED BY <1>6 DEF F, G

\* What comes of more sequences begins with what comes of fewer.
LEMMA JoinedLonger ==
  ASSUME NEW ss, AreSeqs(ss), NEW m \in 0 .. Len(ss)
  PROVE  \E t : IsSeq(t) /\ Concatenated(ss)[Len(ss)] = Concatenated(ss)[m] \o t
<1> DEFINE J == Concatenated(ss)
           N == Len(ss)
           T == {n \in Nat : m + n <= N => \E t : IsSeq(t) /\ J[m + n] = J[m] \o t}
<1>1. /\ N \in Nat
      /\ \A n \in 1 .. N : J[n] = J[n - 1] \o ss[n]
      /\ \A n \in 0 .. N : IsSeq(J[n])
  BY JoinedSteps
<1> HIDE DEF J
<1>0. m \in Nat /\ m <= N
  BY <1>1
<1>2. 0 \in T
  <2>1. J[m + 0] = J[m] \o <<>> /\ IsSeq(<<>>)
    BY <1>0, <1>1, ConcatEmpty, EmptyFacts
  <2> QED BY <2>1
<1>3. ASSUME NEW n \in T
      PROVE  n + 1 \in T
  <2> DEFINE k == m + (n + 1)
  <2>0. k \in Nat /\ n \in Nat
    BY <1>0
  <2> SUFFICES ASSUME k <= N PROVE \E t : IsSeq(t) /\ J[k] = J[m] \o t
    <3>1. n + 1 \in Nat
      BY <2>0
    <3> QED BY <3>1
  <2>1. k \in 1 .. N /\ k - 1 = m + n /\ m + n <= N
    BY <1>0, <1>1
  <2>2. PICK t : IsSeq(t) /\ J[m + n] = J[m] \o t
    BY <2>1
  <2>3. J[k] = (J[m] \o t) \o ss[k]
    BY <1>1, <2>1, <2>2
  <2> HIDE DEF k
  <2>4. IsSeq(ss[k]) /\ IsSeq(J[m])
    BY <1>0, <1>1, <2>1 DEF AreSeqs
  <2>5. IsSeq(t \o ss[k])
    BY <2>2, <2>4, ConcatFacts
  <2> DEFINE a == J[m]
             b == ss[k]
  <2>6. (a \o t) \o b = a \o (t \o b)
    <3>1. IsSeq(a) /\ IsSeq(b) /\ IsSeq(t)
      BY <2>2, <2>4
    <3> HIDE DEF a, b, T, N
    <3> QED BY <3>1, ConcatAssoc, SMTT(60)
  <2>7. J[k] = J[m] \o (t \o ss[k])
    BY <2>3, <2>6
  <2> DEFINE u == t \o ss[k]
  <2>8. IsSeq(u) /\ J[k] = J[m] \o u
    BY <2>5, <2>7
  <2> HIDE DEF u, a, b, T
  <2> QED BY <2>8
<1>4. T \in SUBSET Nat
  OBVIOUS
<1>5. T = Nat
  <2> HIDE DEF T
  <2> QED BY <1>2, <1>3, <1>4, SetInduction
<1>6. N - m \in Nat /\ m + (N - m) = N
  BY <1>0, <1>1
<1>7. m + (N - m) <= N
  BY <1>1, <1>6
<1>8. \E t : IsSeq(t) /\ J[m + (N - m)] = J[m] \o t
  BY <1>5, <1>6, <1>7
<1> QED BY <1>6, <1>8 DEF J

LEMMA PrefixOfConcat ==
  ASSUME NEW s, NEW t, IsSeq(s), IsSeq(t)
  PROVE  IsPrefix(s, s \o t)
<1> DEFINE u == s \o t
           n == Len(s)
<1>1. /\ n \in Nat /\ Len(t) \in Nat /\ Len(u) = n + Len(t)
      /\ \A i \in 1 .. n : u[i] = s[i]
  BY SeqFacts, ConcatFacts
<1>2. n <= Len(u)
  BY <1>1
<1> HIDE DEF u, n
<1>3. /\ IsSeq(SubSeq(s, 1, n)) /\ Len(SubSeq(s, 1, n)) = n - 1 + 1
      /\ \A i \in 1 .. n - 1 + 1 : SubSeq(s, 1, n)[i] = s[1 + i - 1]
  BY <1>1, SubSeqFacts
<1>4. /\ IsSeq(SubSeq(u, 1, n)) /\ Len(SubSeq(u, 1, n)) = n - 1 + 1
      /\ \A i \in 1 .. n - 1 + 1 : SubSeq(u, 1, n)[i] = u[1 + i - 1]
  BY <1>1, SubSeqFacts
<1>5. n - 1 + 1 = n /\ \A i \in 1 .. n : 1 + i - 1 = i
  BY <1>1
<1>6. SubSeq(s, 1, n) = SubSeq(u, 1, n)
  BY <1>1, <1>3, <1>4, <1>5, SeqEquality
<1> QED BY <1>2, <1>6 DEF IsPrefix, n, u

\* Adding to a sequence its parts again
LEMMA CutInTwo ==
  ASSUME NEW s, IsSeq(s), NEW n \in 0 .. Len(s)
  PROVE  /\ IsSeq(SubSeq(s, 1, n)) /\ Len(SubSeq(s, 1, n)) = n
         /\ IsSeq(SubSeq(s, n + 1, Len(s))) /\ Len(SubSeq(s, n + 1, Len(s))) = Len(s) - n
         /\ \A i \in 1 .. Len(s) - n : SubSeq(s, n + 1, Len(s))[i] = s[n + i]
         /\ SubSeq(s, 1, n) \o SubSeq(s, n + 1, Len(s)) = s
<1> DEFINE N == Len(s)
           a == SubSeq(s, 1, n)
           z == SubSeq(s, n + 1, N)
<1>1. N \in Nat /\ n \in Nat /\ n <= N
  <2>1. N \in Nat
    BY SeqFacts
  <2> QED BY <2>1
<1>2. /\ IsSeq(a) /\ Len(a) = n - 1 + 1
      /\ \A i \in 1 .. n - 1 + 1 : a[i] = s[1 + i - 1]
  BY <1>1, SubSeqFacts
<1>3. /\ IsSeq(z) /\ Len(z) = N - (n + 1) + 1
      /\ \A i \in 1 .. N - (n + 1) + 1 : z[i] = s[(n + 1) + i - 1]
  BY <1>1, SubSeqFacts
<1> HIDE DEF a, z, N
<1>4. /\ IsSeq(a) /\ Len(a) = n /\ \A i \in 1 .. n : a[i] = s[i]
  <2>1. n - 1 + 1 = n /\ \A i \in 1 .. n : 1 + i - 1 = i
    BY <1>1
  <2> QED BY <1>2, <2>1
<1>5. /\ IsSeq(z) /\ Len(z) = N - n /\ \A i \in 1 .. N - n : z[i] = s[n + i]
  <2>1. N - (n + 1) + 1 = N - n /\ \A i \in 1 .. N - n : (n + 1) + i - 1 = n + i
    BY <1>1
  <2> QED BY <1>3, <2>1
<1>6. a \o z = s
  <2>0. /\ IsSeq(a \o z) /\ Len(a \o z) = Len(a) + Len(z)
        /\ \A i \in 1 .. Len(a) + Len(z) : (a \o z)[i] = IF i <= Len(a) THEN a[i] ELSE z[i - Len(a)]
    BY <1>4, <1>5, ConcatFacts
  <2>1. /\ IsSeq(a \o z) /\ Len(a \o z) = n + (N - n)
        /\ \A i \in 1 .. n + (N - n) : (a \o z)[i] = IF i <= n THEN a[i] ELSE z[i - n]
    BY <1>4, <1>5, <2>0
  <2>2. n + (N - n) = N
    BY <1>1
  <2>3. ASSUME NEW i \in 1 .. N
        PROVE  (a \o z)[i] = s[i]
    <3>1. CASE i <= n
      <4>1. i \in 1 .. n
        BY <1>1, <3>1
      <4> QED BY <1>4, <2>1, <2>2, <3>1, <4>1
    <3>2. CASE ~(i <= n)
      <4>1. i - n \in 1 .. N - n /\ n + (i - n) = i
        BY <1>1, <3>2
      <4> QED BY <1>5, <2>1, <2>2, <3>2, <4>1
    <3> QED BY <3>1, <3>2
  <2> QED BY <2>1, <2>2, <2>3, SeqEquality DEF N
<1> QED BY <1>4, <1>5, <1>6 DEF a, z, N

-----------------------------------------------------------------------------
(* What a source makes of the messages that came *)

LEMMA MadeOf ==
  ASSUME NEW b, NEW msgs, AreMessages(msgs)
  PROVE  /\ AreSeqs(BytesOf(b, msgs)) /\ Len(BytesOf(b, msgs)) = Len(msgs)
         /\ AreSeqs(HeadersOf(b, msgs)) /\ Len(HeadersOf(b, msgs)) = Len(msgs)
         /\ Len(msgs) \in Nat
<1> DEFINE N == Len(msgs)
           B == BytesOf(b, msgs)
           H == HeadersOf(b, msgs)
<1>1. N \in Nat /\ \A n \in 1 .. N : IsMessage(msgs[n])
  BY SeqFacts DEF AreMessages
<1>2. /\ B = [n \in 1 .. N |-> B[n]] /\ H = [n \in 1 .. N |-> H[n]]
      /\ \A n \in 1 .. N : B[n] \in {<<>>, Blob(msgs[n].data), Pack(msgs[n].data)}
      /\ \A n \in 1 .. N : H[n] \in {<<>>, <<msgs[n].hdr>>}
  BY DEF BytesOf, HeadersOf
<1>3. \A n \in 1 .. N : IsSeq(Blob(msgs[n].data)) /\ IsSeq(Pack(msgs[n].data)) /\ IsSeq(<<msgs[n].hdr>>)
  BY <1>1, BlobLen, PackIsSeq, OneFacts DEF IsMessage
<1>4. \A n \in 1 .. N : IsSeq(B[n]) /\ IsSeq(H[n])
  BY <1>2, <1>3, EmptyFacts
<1> HIDE DEF B, H, N
<1>5. IsSeq(B) /\ Len(B) = N /\ IsSeq(H) /\ Len(H) = N
  BY <1>1, <1>2, FcnIsSeq
<1> QED BY <1>1, <1>4, <1>5 DEF AreSeqs, B, H, N

\* Messages that come later change nothing of it.
LEMMA MadeBefore ==
  ASSUME NEW b, NEW msgs, NEW more, AreMessages(msgs), AreMessages(more), NEW p \in 0 .. Len(msgs)
  PROVE  /\ Concatenated(BytesOf(b, msgs \o more))[p] = Concatenated(BytesOf(b, msgs))[p]
         /\ Concatenated(HeadersOf(b, msgs \o more))[p] = Concatenated(HeadersOf(b, msgs))[p]
<1> DEFINE all == msgs \o more
           N == Len(msgs)
<1>1. /\ AreMessages(all) /\ N \in Nat /\ Len(all) = N + Len(more) /\ Len(more) \in Nat
      /\ \A n \in 1 .. N : all[n] = msgs[n]
  BY MoreMessages, ConcatFacts, SeqFacts DEF AreMessages
<1> HIDE DEF all, N
<1>2. p \in Nat /\ p <= N /\ p <= Len(all)
  <2>1. p \in 0 .. N
    BY DEF N
  <2> QED BY <1>1, <2>1
<1>3. \A n \in 1 .. p : n \in 1 .. N /\ n \in 1 .. Len(all) /\ \A j \in 1 .. n : j \in 1 .. N
  BY <1>1, <1>2
<1>4. \A n \in 1 .. p : IsTaken(b, all, n) <=> IsTaken(b, msgs, n)
  BY <1>1, <1>3 DEF IsTaken
<1>5. \A n \in 1 .. p : BytesOf(b, all)[n] = BytesOf(b, msgs)[n] /\ HeadersOf(b, all)[n] = HeadersOf(b, msgs)[n]
  BY <1>1, <1>3, <1>4 DEF BytesOf, HeadersOf, N
<1>6. /\ AreSeqs(BytesOf(b, all)) /\ Len(BytesOf(b, all)) = Len(all)
      /\ AreSeqs(HeadersOf(b, all)) /\ Len(HeadersOf(b, all)) = Len(all)
      /\ AreSeqs(BytesOf(b, msgs)) /\ Len(BytesOf(b, msgs)) = N
      /\ AreSeqs(HeadersOf(b, msgs)) /\ Len(HeadersOf(b, msgs)) = N
  BY <1>1, MadeOf DEF N
<1> QED BY <1>2, <1>5, <1>6, JoinedSame DEF all
-----------------------------------------------------------------------------
(* Where messages begin *)

LEMMA Division ==
  ASSUME NEW x \in Nat, NEW L \in Nat, L > 0
  PROVE  x \div L \in Nat /\ x % L \in 0 .. L - 1 /\ x = (x \div L) * L + (x % L)
OBVIOUS

LEMMA Quotient ==
  ASSUME NEW L \in Nat, L > 0, NEW q \in Nat, NEW r \in Nat, r < L
  PROVE  (q * L + r) \div L = q /\ (q * L + r) % L = r
<1> DEFINE x == q * L + r
           d == x \div L
           m == x % L
<1>1. q * L \in Nat /\ x \in Nat
  BY Products
<1>2. d \in Nat /\ m \in 0 .. L - 1 /\ x = d * L + m
  BY <1>1
<1> HIDE DEF d, m
<1>3. d = q
  <2>1. ASSUME d > q
        PROVE  FALSE
    <3>1. (q + 1) * L <= d * L /\ (q + 1) * L = q * L + L
      BY <1>2, <2>1, Products
    <3>2. d * L \in Nat
      BY <1>2, Products
    <3> QED BY <1>1, <1>2, <3>1, <3>2
  <2>2. ASSUME q > d
        PROVE  FALSE
    <3>1. (d + 1) * L <= q * L /\ (d + 1) * L = d * L + L
      BY <1>2, <2>2, Products
    <3>2. d * L \in Nat
      BY <1>2, Products
    <3> QED BY <1>1, <1>2, <3>1, <3>2
  <2> QED BY <1>2, <2>1, <2>2
<1>4. m = r
  BY <1>1, <1>2, <1>3
<1> QED BY <1>3, <1>4 DEF d, m

\* How many messages have begun in a bytes: multiples of the length below a.
LEMMA Begun ==
  ASSUME NEW L \in Nat, L > 0, NEW a \in Nat
  PROVE  /\ divide_ceil(a, L) \in Nat
         /\ \A k \in Nat : k >= divide_ceil(a, L) <=> k * L >= a
<1> DEFINE x == a + L - 1
           c == x \div L
<1>1. x \in Nat
  OBVIOUS
<1>2. c \in Nat /\ c * L \in Nat /\ c * L <= x /\ x < c * L + L
  <2> DEFINE m == x % L
  <2> HIDE DEF x
  <2>1. c \in Nat /\ m \in 0 .. L - 1 /\ x = c * L + m
    BY <1>1, Division
  <2> HIDE DEF c, m
  <2>2. c * L \in Nat
    BY <2>1, Products
  <2> QED BY <2>1, <2>2
<1>3. divide_ceil(a, L) = c
  BY DEF divide_ceil
<1> HIDE DEF c
<1>4. ASSUME NEW k \in Nat
      PROVE  k >= c <=> k * L >= a
  <2>1. k * L \in Nat /\ (k + 1) * L = k * L + L
    BY Products
  <2>2. CASE k >= c
    <3>1. c * L <= k * L
      BY <1>2, <2>2, Products
    <3> QED BY <1>2, <2>1, <2>2, <3>1
  <2>3. CASE k < c
    <3>1. k + 1 <= c /\ k + 1 \in Nat
      BY <1>2, <2>3
    <3>2. (k + 1) * L <= c * L
      BY <1>2, <3>1, Products
    <3> QED BY <1>2, <2>1, <2>3, <3>2
  <2> QED BY <1>2, <2>2, <2>3
<1> QED BY <1>2, <1>3, <1>4

\* The first bytes of the messages a + 1 to b
FirstBytes(L, a, b) == {(k - 1) * L : k \in a + 1 .. b}

LEMMA CountFirstBytes ==
  ASSUME NEW L \in Nat, L > 0, NEW a \in Nat, NEW b \in Nat, a <= b
  PROVE  Cardinality(FirstBytes(L, a, b)) = b - a
<1> DEFINE I == a + 1 .. b
           F == FirstBytes(L, a, b)
           f == [k \in I |-> (k - 1) * L]
<1>1. \A k \in I : k - 1 \in Nat
  OBVIOUS
<1>2. f \in [I -> F] /\ \A k \in I : f[k] = (k - 1) * L
  BY DEF FirstBytes
<1>3. \A i, k \in I : f[i] = f[k] => i = k
  <2> SUFFICES ASSUME NEW i \in I, NEW k \in I, f[i] = f[k] PROVE i = k
    OBVIOUS
  <2>1. (i - 1) * L = (k - 1) * L
    BY <1>2
  <2>2. i - 1 = k - 1
    BY <1>1, <2>1, Products
  <2> QED BY <2>2
<1>4. \A x \in F : \E k \in I : f[k] = x
  BY <1>2 DEF FirstBytes
<1> HIDE DEF f, F
<1> HIDE DEF I
<1>5. f \in Bijection(I, F)
  BY <1>2, <1>3, <1>4 DEF Bijection, Injection, Surjection, IsInjective
<1>6. ExistsBijection(I, F)
  BY <1>5 DEF ExistsBijection
<1>7. IsFiniteSet(I) /\ Cardinality(I) = b - a
  <2> USE DEF I
  <2>1. IsFiniteSet(I) /\ Cardinality(I) = IF a + 1 > b THEN 0 ELSE b - (a + 1) + 1
    BY FS_Interval
  <2> QED BY <2>1
<1>8. Cardinality(F) = Cardinality(I)
  BY <1>6, <1>7, FS_Bijection
<1> QED BY <1>7, <1>8 DEF F
-----------------------------------------------------------------------------
(* Headers in step with bytes *)

TagsOf(H, n) == {[offset |-> (k - 1) * BLOB_LEN, hdr |-> H[k]] : k \in 1 .. n}

\* H are the headers of the messages taken so far; sent bytes have been put out
\* and waiting bytes have not.
InStep(H, sent, waiting) ==
  /\ sent + waiting = BLOB_LEN * Len(H)
  /\ d_num_bytes_copied = sent
  /\ Len(H) = divide_ceil(sent, BLOB_LEN) + Len(d_metadata_queue)
  /\ \A k \in 1 .. Len(d_metadata_queue) : d_metadata_queue[k] = H[divide_ceil(sent, BLOB_LEN) + k]
  /\ tags = TagsOf(H, divide_ceil(sent, BLOB_LEN))

LEMMA TagsSame ==
  ASSUME NEW G, NEW H, NEW n \in Nat, \A k \in 1 .. n : G[k] = H[k]
  PROVE  TagsOf(G, n) = TagsOf(H, n)
BY DEF TagsOf

\* process_message(): the header of a message that is taken is queued with it.
LEMMA InStepTaken ==
  ASSUME NEW H, IsSeq(H), NEW s \in Nat, NEW w \in Nat, InStep(H, s, w), IsSeq(d_metadata_queue),
         NEW h, d_metadata_queue' = d_metadata_queue \o <<h>>, UNCHANGED <<tags, d_num_bytes_copied>>
  PROVE  InStep(H \o <<h>>, s, w + BLOB_LEN)'
<1> DEFINE A == divide_ceil(s, BLOB_LEN)
           G == H \o <<h>>
           m == Len(d_metadata_queue)
<1>1. BLOB_LEN \in Nat /\ BLOB_LEN > 0
  BY PathAssumption
<1>2. A \in Nat /\ m \in Nat /\ Len(H) \in Nat
  BY <1>1, Begun, SeqFacts
<1>3. /\ s + w = BLOB_LEN * Len(H) /\ d_num_bytes_copied = s /\ Len(H) = A + m
      /\ \A k \in 1 .. m : d_metadata_queue[k] = H[A + k]
      /\ tags = TagsOf(H, A)
  BY DEF InStep
<1>4. /\ Len(G) = Len(H) + 1 /\ \A k \in 1 .. Len(H) : G[k] = H[k]
      /\ G[Len(H) + 1] = h
  <2>1. IsSeq(<<h>>) /\ Len(<<h>>) = 1 /\ <<h>>[1] = h /\ 1 \in 1 .. 1
    BY OneFacts
  <2> QED BY <2>1, ConcatFacts
<1>5. /\ Len(d_metadata_queue') = m + 1
      /\ \A k \in 1 .. m : d_metadata_queue'[k] = d_metadata_queue[k]
      /\ d_metadata_queue'[m + 1] = h
  <2>1. IsSeq(<<h>>) /\ Len(<<h>>) = 1 /\ <<h>>[1] = h /\ 1 \in 1 .. 1
    BY OneFacts
  <2> QED BY <2>1, ConcatFacts
<1> HIDE DEF A, G, m
<1>6. s + (w + BLOB_LEN) = BLOB_LEN * Len(G)
  <2>1. BLOB_LEN * (Len(H) + 1) = BLOB_LEN * Len(H) + BLOB_LEN /\ BLOB_LEN * Len(H) \in Nat
    BY <1>1, <1>2
  <2> QED BY <1>1, <1>3, <1>4, <2>1
<1>7. Len(G) = A + Len(d_metadata_queue')
  BY <1>2, <1>3, <1>4, <1>5
<1>8. ASSUME NEW k \in 1 .. Len(d_metadata_queue')
      PROVE  d_metadata_queue'[k] = G[A + k]
  <2>1. CASE k \in 1 .. m
    <3>1. A + k \in 1 .. Len(H)
      BY <1>2, <1>3, <2>1
    <3> QED BY <1>3, <1>4, <1>5, <2>1, <3>1
  <2>2. CASE k \notin 1 .. m
    <3>1. k = m + 1 /\ A + k = Len(H) + 1
      BY <1>2, <1>3, <1>5, <2>2
    <3> QED BY <1>4, <1>5, <3>1
  <2> QED BY <2>1, <2>2
<1>9. tags' = TagsOf(G, A)
  <2>1. \A k \in 1 .. A : G[k] = H[k]
    BY <1>2, <1>3, <1>4
  <2>2. TagsOf(G, A) = TagsOf(H, A)
    BY <1>2, <2>1, TagsSame
  <2> QED BY <1>3, <2>2
<1> QED BY <1>3, <1>6, <1>7, <1>8, <1>9 DEF InStep, A, G

\* The bytes of a call that begin messages, and how many there are up to one
LEMMA StartsAre ==
  ASSUME NEW n \in Nat, d_num_bytes_copied \in Nat
  PROVE  LET A == divide_ceil(d_num_bytes_copied, BLOB_LEN)
             Z == divide_ceil(d_num_bytes_copied + n, BLOB_LEN)
         IN /\ A \in Nat /\ Z \in Nat /\ A <= Z
            /\ Starts(n) = FirstBytes(BLOB_LEN, A, Z)
            /\ Cardinality(Starts(n)) = Z - A
            /\ \A k \in A + 1 .. Z :
                 Cardinality({j \in Starts(n) : j <= (k - 1) * BLOB_LEN}) = k - A
<1> DEFINE s == d_num_bytes_copied
           L == BLOB_LEN
           A == divide_ceil(s, L)
           Z == divide_ceil(s + n, L)
<1>1. L \in Nat /\ L > 0 /\ s \in Nat /\ s + n \in Nat
  BY PathAssumption
<1>2. /\ A \in Nat /\ Z \in Nat
      /\ \A k \in Nat : k >= A <=> k * L >= s
      /\ \A k \in Nat : k >= Z <=> k * L >= s + n
  BY <1>1, Begun
<1>3. Starts(n) = {i \in s .. s + n - 1 : i % L = 0}
  BY DEF Starts
<1> HIDE DEF s, L, A, Z
<1>4. A <= Z
  <2>1. Z * L >= s + n /\ Z * L \in Nat
    BY <1>1, <1>2, Products
  <2>2. Z * L >= s
    BY <1>1, <2>1
  <2> QED BY <1>2, <2>2
<1>5. Starts(n) = FirstBytes(L, A, Z)
  <2>1. ASSUME NEW i \in s .. s + n - 1, i % L = 0
        PROVE  i \in FirstBytes(L, A, Z)
    <3> DEFINE q == i \div L
    <3>1. i \in Nat /\ i >= s /\ i < s + n
      BY <1>1
    <3>2. q \in Nat /\ i = q * L + (i % L)
      BY <1>1, <3>1, Division
    <3> HIDE DEF q
    <3>3. q \in Nat /\ q * L = i
      <4>1. q * L \in Nat
        BY <1>1, <3>2, Products
      <4> QED BY <2>1, <3>2, <4>1
    <3>4. q >= A /\ ~(q >= Z)
      BY <1>1, <1>2, <3>1, <3>3
    <3>5. q + 1 \in A + 1 .. Z /\ (q + 1) - 1 = q
      BY <1>2, <3>3, <3>4
    <3>6. i = ((q + 1) - 1) * L
      BY <3>3, <3>5
    <3> QED BY <3>5, <3>6 DEF FirstBytes
  <2>2. ASSUME NEW k \in A + 1 .. Z
        PROVE  (k - 1) * L \in {i \in s .. s + n - 1 : i % L = 0}
    <3> DEFINE q == k - 1
               i == q * L
    <3>1. q \in Nat /\ q >= A /\ ~(q >= Z)
      BY <1>2
    <3> HIDE DEF q
    <3>2. i \in Nat /\ i >= s /\ i < s + n
      <4>1. i \in Nat
        BY <1>1, <3>1, Products
      <4>2. i >= s /\ ~(i >= s + n)
        BY <1>2, <3>1
      <4> QED BY <1>1, <4>1, <4>2
    <3>3. i % L = 0
      <4>1. (q * L + 0) % L = 0
        BY <1>1, <3>1, Quotient
      <4>2. q * L + 0 = i
        BY <3>2
      <4> QED BY <4>1, <4>2
    <3> HIDE DEF i
    <3>4. i \in s .. s + n - 1
      BY <1>1, <3>2
    <3> QED BY <3>3, <3>4 DEF i, q
  <2> QED BY <1>3, <2>1, <2>2 DEF FirstBytes
<1>6. Cardinality(Starts(n)) = Z - A
  BY <1>1, <1>2, <1>4, <1>5, CountFirstBytes
<1>7. ASSUME NEW k \in A + 1 .. Z
      PROVE  Cardinality({j \in Starts(n) : j <= (k - 1) * L}) = k - A
  <2>1. k \in Nat /\ A <= k /\ k - 1 \in Nat /\ k <= Z
    BY <1>2
  <2>2. {j \in Starts(n) : j <= (k - 1) * L} = FirstBytes(L, A, k)
    <3>1. \A l \in A + 1 .. Z : l - 1 \in Nat /\ (l <= k <=> l - 1 <= k - 1)
      BY <1>2, <2>1
    <3>2. \A l \in A + 1 .. Z : l <= k <=> (l - 1) * L <= (k - 1) * L
      BY <1>1, <2>1, <3>1, Products
    <3>3. \A l \in A + 1 .. k : l \in A + 1 .. Z /\ l <= k
      BY <1>2, <2>1
    <3>4. \A l \in A + 1 .. Z : l <= k => l \in A + 1 .. k
      BY <1>2, <2>1
    <3> QED BY <1>5, <3>2, <3>3, <3>4 DEF FirstBytes
  <2> QED BY <1>1, <1>2, <2>1, <2>2, CountFirstBytes
<1> QED BY <1>2, <1>4, <1>5, <1>6, <1>7 DEF s, L, A, Z

\* work(): each message that begins gets the next header of the queue.
LEMMA InStepSent ==
  ASSUME NEW H, IsSeq(H), NEW s \in Nat, NEW w \in Nat, InStep(H, s, w), IsSeq(d_metadata_queue),
         NEW n \in Nat, n <= w,
         tags' = tags \cup NewTags(n), d_num_bytes_copied' = d_num_bytes_copied + n,
         d_metadata_queue' = SubSeq(d_metadata_queue, Cardinality(Starts(n)) + 1, Len(d_metadata_queue))
  PROVE  InStep(H, s + n, w - n)'
<1> DEFINE L == BLOB_LEN
           A == divide_ceil(s, L)
           Z == divide_ceil(s + n, L)
           N == Len(H)
           m == Len(d_metadata_queue)
<1>1. L \in Nat /\ L > 0 /\ N \in Nat /\ m \in Nat /\ L * N \in Nat /\ N * L = L * N
  <2>1. L \in Nat /\ L > 0 /\ N \in Nat /\ m \in Nat
    BY PathAssumption, SeqFacts
  <2> HIDE DEF L, N
  <2> QED BY <2>1
<1>2. /\ s + w = L * N /\ d_num_bytes_copied = s /\ N = A + m
      /\ \A k \in 1 .. m : d_metadata_queue[k] = H[A + k]
      /\ tags = TagsOf(H, A)
  BY DEF InStep
<1>3. /\ A \in Nat /\ Z \in Nat /\ A <= Z
      /\ Starts(n) = FirstBytes(L, A, Z)
      /\ Cardinality(Starts(n)) = Z - A
      /\ \A k \in A + 1 .. Z : Cardinality({j \in Starts(n) : j <= (k - 1) * L}) = k - A
  BY <1>2, StartsAre
<1>4. Z <= N
  <2>0. s + n \in Nat /\ N \in Nat /\ L \in Nat /\ L > 0
    BY <1>1
  <2>1. N >= Z <=> N * L >= s + n
    <3> HIDE DEF N, L
    <3> QED BY <2>0, Begun
  <2>2. N * L >= s + n
    BY <1>1, <1>2
  <2> QED BY <2>1, <2>2
<1> HIDE DEF L, A, Z, N, m
<1>5. (s + n) + (w - n) = L * N
  BY <1>2
<1>6. Z - A \in 0 .. m /\ m - (Z - A) = N - Z
  BY <1>1, <1>2, <1>3, <1>4
<1>7. /\ Len(d_metadata_queue') = m - (Z - A)
      /\ \A k \in 1 .. m - (Z - A) : d_metadata_queue'[k] = d_metadata_queue[(Z - A) + k]
  <2>1. d_metadata_queue' = SubSeq(d_metadata_queue, (Z - A) + 1, Len(d_metadata_queue))
    BY <1>3
  <2>2. Z - A \in 0 .. Len(d_metadata_queue)
    BY <1>6 DEF m
  <2> QED BY <2>1, <2>2, CutInTwo DEF m
<1>8. N = Z + Len(d_metadata_queue')
  <2> DEFINE l == Len(d_metadata_queue')
  <2>1. l = N - Z
    BY <1>6, <1>7
  <2>2. N \in Nat /\ Z \in Nat
    BY <1>1, <1>3
  <2> HIDE DEF l
  <2>3. N = Z + l
    BY <2>1, <2>2
  <2> QED BY <2>3 DEF l
<1>9. ASSUME NEW k \in 1 .. Len(d_metadata_queue')
      PROVE  d_metadata_queue'[k] = H[Z + k]
  <2>1. (Z - A) + k \in 1 .. m /\ A + ((Z - A) + k) = Z + k /\ k \in 1 .. m - (Z - A)
    BY <1>1, <1>3, <1>6, <1>7
  <2> QED BY <1>2, <1>7, <2>1
<1>10. tags' = TagsOf(H, Z)
  <2> DEFINE Rank(i) == Cardinality({j \in Starts(n) : j <= i})
             Tag(i) == [offset |-> i, hdr |-> d_metadata_queue[Rank(i)]]
  <2>1. NewTags(n) = {Tag(i) : i \in Starts(n)}
    BY DEF NewTags
  <2>2. ASSUME NEW k \in A + 1 .. Z
        PROVE  Tag((k - 1) * L) = [offset |-> (k - 1) * L, hdr |-> H[k]]
    <3>1. Rank((k - 1) * L) = k - A
      BY <1>3
    <3> HIDE DEF Rank
    <3>2. k - A \in 1 .. m /\ A + (k - A) = k
      BY <1>1, <1>2, <1>3, <1>4
    <3>3. d_metadata_queue[k - A] = H[k]
      BY <1>2, <3>2
    <3> QED BY <3>1, <3>3
  <2> HIDE DEF Tag
  <2>3. NewTags(n) = {Tag((k - 1) * L) : k \in A + 1 .. Z}
    BY <1>3, <2>1 DEF FirstBytes
  <2>4. NewTags(n) = {[offset |-> (k - 1) * L, hdr |-> H[k]] : k \in A + 1 .. Z}
    BY <2>2, <2>3
  <2>5. /\ \A k \in 1 .. Z : k \in 1 .. A \/ k \in A + 1 .. Z
        /\ \A k \in 1 .. A : k \in 1 .. Z
        /\ \A k \in A + 1 .. Z : k \in 1 .. Z
    BY <1>3
  <2>6. tags = {[offset |-> (k - 1) * L, hdr |-> H[k]] : k \in 1 .. A}
    BY <1>2 DEF TagsOf, L
  <2>7. TagsOf(H, Z) = {[offset |-> (k - 1) * L, hdr |-> H[k]] : k \in 1 .. Z}
    BY DEF TagsOf, L
  <2> DEFINE G(k) == [offset |-> (k - 1) * L, hdr |-> H[k]]
  <2>8. /\ NewTags(n) = {G(k) : k \in A + 1 .. Z} /\ tags = {G(k) : k \in 1 .. A}
        /\ TagsOf(H, Z) = {G(k) : k \in 1 .. Z}
    BY <2>4, <2>6, <2>7
  <2> HIDE DEF G
  <2>9. {G(k) : k \in 1 .. Z} = {G(k) : k \in 1 .. A} \cup {G(k) : k \in A + 1 .. Z}
    BY <2>5
  <2> QED BY <2>8, <2>9
<1>11. d_num_bytes_copied' = s + n
  BY <1>2
<1> QED BY <1>5, <1>8, <1>9, <1>10, <1>11 DEF InStep, L, Z, N
-----------------------------------------------------------------------------
(* Where a source is in the messages that came: it has handled p of them *)

HeadersAt(p) == InStep(Concatenated(HeadersOf("source", arrived["source"]))[p],
                       Len(out["source"]), Len(d_queue["source"]))

SourceAt(b, p) ==
  /\ p \in 0 .. Len(arrived[b])
  /\ running[b] => queue[b] = SubSeq(arrived[b], p + 1, Len(arrived[b]))
  /\ ~running[b] /\ ninterrupts = 0 => p = Len(arrived[b]) /\ d_queue[b] = <<>>
  /\ out[b] \o d_queue[b] = Concatenated(BytesOf(b, arrived[b]))[p]
  /\ b = "source" => /\ d_stop["source"] <=> \E j \in 1 .. p : arrived["source"][j] = EOF
                     /\ HeadersAt(p)

StreamInv == \A b \in Sources : \E p : SourceAt(b, p)

LEMMA HeadersHold ==
  ASSUME NEW p, NEW H, NEW s, NEW w, H = Concatenated(HeadersOf("source", arrived["source"]))[p],
         s = Len(out["source"]), w = Len(d_queue["source"])
  PROVE  HeadersAt(p) <=> InStep(H, s, w)
BY DEF HeadersAt, InStep

LEMMA HeadersHoldThen ==
  ASSUME NEW p, NEW H, NEW s, NEW w, H = Concatenated(HeadersOf("source", arrived'["source"]))[p],
         s = Len(out'["source"]), w = Len(d_queue'["source"])
  PROVE  HeadersAt(p)' <=> InStep(H, s, w)'
BY DEF HeadersAt, InStep

LEMMA CutConcat ==
  ASSUME NEW s, NEW t, IsSeq(s), IsSeq(t), NEW p \in 0 .. Len(s)
  PROVE  SubSeq(s \o t, p + 1, Len(s \o t)) = SubSeq(s, p + 1, Len(s)) \o t
<1> DEFINE u == s \o t
           m == Len(s)
           n == Len(t)
           a == SubSeq(u, p + 1, Len(u))
           z == SubSeq(s, p + 1, m)
<1>1. /\ m \in Nat /\ n \in Nat /\ p \in Nat /\ p <= m /\ IsSeq(u) /\ Len(u) = m + n
      /\ \A i \in 1 .. m + n : u[i] = IF i <= m THEN s[i] ELSE t[i - m]
  <2>1. m \in Nat /\ n \in Nat
    BY SeqFacts
  <2> QED BY <2>1, ConcatFacts
<1>2. p \in 0 .. Len(u)
  BY <1>1
<1>3. /\ IsSeq(a) /\ Len(a) = Len(u) - p /\ \A i \in 1 .. Len(u) - p : a[i] = u[p + i]
  <2> HIDE DEF u
  <2> QED BY <1>1, <1>2, CutInTwo
<1>4. /\ IsSeq(z) /\ Len(z) = m - p /\ \A i \in 1 .. m - p : z[i] = s[p + i]
  BY CutInTwo
<1> HIDE DEF u, m, n, a, z
<1>5. /\ IsSeq(z \o t) /\ Len(z \o t) = Len(z) + n
      /\ \A i \in 1 .. Len(z) + n : (z \o t)[i] = IF i <= Len(z) THEN z[i] ELSE t[i - Len(z)]
  BY <1>4, ConcatFacts DEF n
<1>6. Len(a) = Len(z \o t) /\ Len(a) = (m - p) + n
  BY <1>1, <1>3, <1>4, <1>5
<1>7. ASSUME NEW i \in 1 .. (m - p) + n
      PROVE  a[i] = (z \o t)[i]
  <2>1. i \in 1 .. Len(u) - p /\ p + i \in 1 .. m + n /\ i \in 1 .. Len(z) + n
    BY <1>1, <1>4
  <2>2. a[i] = u[p + i]
    BY <1>3, <2>1
  <2>3. CASE i <= m - p
    <3>1. p + i <= m /\ i \in 1 .. m - p /\ i <= Len(z)
      BY <1>1, <1>4, <2>3
    <3> QED BY <1>1, <1>4, <1>5, <2>1, <2>2, <3>1
  <2>4. CASE ~(i <= m - p)
    <3>1. ~(p + i <= m) /\ ~(i <= Len(z)) /\ (p + i) - m = i - Len(z)
      BY <1>1, <1>4, <2>4
    <3> QED BY <1>1, <1>5, <2>1, <2>2, <3>1
  <2> QED BY <2>3, <2>4
<1>8. a = z \o t
  BY <1>3, <1>5, <1>6, <1>7, SeqEquality
<1> QED BY <1>8 DEF a, z, u, m

\* Messages arrive, or nothing at all happens to the source.
LEMMA SourceHears ==
  ASSUME PathTypeOK, NEW c \in Sources, NEW p, SourceAt(c, p),
         NEW msgs, AreMessages(msgs), arrived'[c] = arrived[c] \o msgs,
         running[c] => queue'[c] = queue[c] \o msgs, ~running[c] => msgs = <<>>,
         running'[c] = running[c], ninterrupts' = 0 => ninterrupts = 0, d_stop'[c] = d_stop[c],
         out'[c] = out[c], d_queue'[c] = d_queue[c],
         c = "source" => UNCHANGED <<d_metadata_queue, d_num_bytes_copied, tags>>
  PROVE  SourceAt(c, p)'
<1> DEFINE a == arrived[c]
           N == Len(a)
<1>1. /\ AreMessages(a) /\ IsSeq(a) /\ IsSeq(msgs) /\ N \in Nat /\ Len(msgs) \in Nat
      /\ Len(a \o msgs) = N + Len(msgs) /\ \A i \in 1 .. N : (a \o msgs)[i] = a[i]
  BY SeqFacts, ConcatFacts DEF PathTypeOK, AreMessages
<1>2. /\ p \in 0 .. N
      /\ running[c] => queue[c] = SubSeq(a, p + 1, N)
      /\ ~running[c] /\ ninterrupts = 0 => p = N /\ d_queue[c] = <<>>
      /\ out[c] \o d_queue[c] = Concatenated(BytesOf(c, a))[p]
  BY DEF SourceAt
<1>3. arrived'[c] = a \o msgs
  OBVIOUS
<1> HIDE DEF a
<1>4. p \in 0 .. Len(arrived'[c])
  BY <1>1, <1>2, <1>3
<1>5. running'[c] => queue'[c] = SubSeq(arrived'[c], p + 1, Len(arrived'[c]))
  <2> SUFFICES ASSUME running'[c] PROVE queue'[c] = SubSeq(arrived'[c], p + 1, Len(arrived'[c]))
    OBVIOUS
  <2>1. running[c]
    OBVIOUS
  <2>2. queue'[c] = SubSeq(a, p + 1, N) \o msgs
    BY <1>2, <2>1
  <2>3. SubSeq(a \o msgs, p + 1, Len(a \o msgs)) = SubSeq(a, p + 1, N) \o msgs
    BY <1>1, <1>2, CutConcat
  <2> QED BY <1>3, <2>2, <2>3
<1>6. ~running'[c] /\ ninterrupts' = 0 => p = Len(arrived'[c]) /\ d_queue'[c] = <<>>
  <2> SUFFICES ASSUME ~running'[c], ninterrupts' = 0 PROVE p = Len(arrived'[c]) /\ d_queue'[c] = <<>>
    OBVIOUS
  <2>1. arrived'[c] = a
    BY <1>1, <1>3, ConcatEmpty
  <2> QED BY <1>2, <2>1
<1>7. /\ Concatenated(BytesOf(c, arrived'[c]))[p] = Concatenated(BytesOf(c, a))[p]
      /\ Concatenated(HeadersOf(c, arrived'[c]))[p] = Concatenated(HeadersOf(c, a))[p]
  BY <1>1, <1>2, <1>3, MadeBefore
<1>8. out'[c] \o d_queue'[c] = Concatenated(BytesOf(c, arrived'[c]))[p]
  BY <1>2, <1>7
<1>9. ASSUME c = "source"
      PROVE  /\ d_stop'["source"] <=> \E j \in 1 .. p : arrived'["source"][j] = EOF
             /\ HeadersAt(p)'
  <2>1. (d_stop["source"] <=> \E j \in 1 .. p : arrived["source"][j] = EOF) /\ HeadersAt(p)
    BY <1>9 DEF SourceAt
  <2>2. \A j \in 1 .. p : arrived'["source"][j] = arrived["source"][j]
    BY <1>1, <1>2, <1>3, <1>9 DEF a
  <2>3. PICK H, s, w : /\ H = Concatenated(HeadersOf("source", arrived["source"]))[p]
                       /\ s = Len(out["source"]) /\ w = Len(d_queue["source"])
    OBVIOUS
  <2>4. InStep(H, s, w)
    BY <2>1, <2>3, HeadersHold
  <2>5. InStep(H, s, w)'
    BY <1>9, <2>4 DEF InStep
  <2>6. HeadersAt(p)'
    BY <1>7, <1>9, <2>3, <2>5, HeadersHoldThen DEF a
  <2>7. d_stop'["source"] = d_stop["source"]
    BY <1>9
  <2> QED BY <2>1, <2>2, <2>6, <2>7
<1> QED BY <1>4, <1>5, <1>6, <1>8, <1>9 DEF SourceAt

\* The thread of the source ends: by itself only when nothing is left.
LEMMA SourceEnds ==
  ASSUME PathTypeOK, NEW c \in Sources, NEW p, SourceAt(c, p), running[c], ~running'[c],
         arrived'[c] = arrived[c], UNCHANGED sourceVars, d_stop'[c] = d_stop[c],
         ninterrupts' = 0 => queue[c] = <<>> /\ d_queue[c] = <<>>
  PROVE  SourceAt(c, p)'
<1> DEFINE N == Len(arrived[c])
<1>1. p \in 0 .. N /\ N \in Nat /\ queue[c] = SubSeq(arrived[c], p + 1, N)
  BY SeqFacts DEF SourceAt, PathTypeOK, AreMessages
<1>2. queue[c] = <<>> => p = N
  <2>1. IsSeq(arrived[c])
    BY DEF PathTypeOK, AreMessages
  <2>2. Len(queue[c]) = N - p
    BY <1>1, <2>1, CutInTwo
  <2>3. Len(<<>>) = 0
    BY EmptyFacts
  <2> QED BY <1>1, <2>2, <2>3
<1>3. ASSUME c = "source", HeadersAt(p)
      PROVE  HeadersAt(p)'
  <2>1. PICK H, s, w : /\ H = Concatenated(HeadersOf("source", arrived["source"]))[p]
                       /\ s = Len(out["source"]) /\ w = Len(d_queue["source"])
    OBVIOUS
  <2>2. InStep(H, s, w)
    BY <1>3, <2>1, HeadersHold
  <2>3. InStep(H, s, w)'
    BY <2>2 DEF InStep, sourceVars
  <2> QED BY <1>3, <2>1, <2>3, HeadersHoldThen DEF sourceVars
<1> QED BY <1>2, <1>3 DEF SourceAt, sourceVars

\* process_message(): what is next among those that came.
LEMMA SourceNext ==
  ASSUME PathTypeOK, NEW c \in Sources, NEW p, SourceAt(c, p), running[c], queue[c] # <<>>,
         Publish(c, <<>>, Tail(queue[c]))
  PROVE  /\ p \in Nat /\ p + 1 \in 1 .. Len(arrived[c]) /\ arrived'[c] = arrived[c]
         /\ Head(queue[c]) = arrived[c][p + 1]
         /\ queue'[c] = SubSeq(arrived[c], (p + 1) + 1, Len(arrived[c]))
         /\ \A d \in Sources : arrived'[d] = arrived[d] /\ (d # c => queue'[d] = queue[d])
<1> DEFINE a == arrived[c]
           N == Len(a)
           q == queue[c]
<1>1. /\ p \in 0 .. N /\ q = SubSeq(a, p + 1, N) /\ IsSeq(a) /\ N \in Nat
  BY SeqFacts DEF SourceAt, PathTypeOK, AreMessages
<1>2. c \in Blocks
  BY Kinds
<1>3. /\ IsSeq(q) /\ Len(q) >= 1 /\ Head(q) = q[1] /\ IsSeq(Tail(q)) /\ Len(Tail(q)) = Len(q) - 1
      /\ \A i \in 1 .. Len(q) - 1 : Tail(q)[i] = q[i + 1]
  BY <1>2, Turned DEF AreMessages
<1>4. /\ Len(q) = N - p /\ \A i \in 1 .. N - p : q[i] = a[p + i]
  BY <1>1, CutInTwo
<1>5. /\ \A d \in Blocks : queue'[d] = IF Gets(c, d) THEN Left(c, d, Tail(q)) \o <<>> ELSE Left(c, d, Tail(q))
      /\ \A d \in Sources : arrived'[d] = IF Gets(c, d) THEN arrived[d] \o <<>> ELSE arrived[d]
  BY <1>2, Published, PortTypesHold
<1>6. \A d \in Sources : arrived'[d] = arrived[d] /\ queue'[d] = Left(c, d, Tail(q))
  <2> SUFFICES ASSUME NEW d \in Sources PROVE arrived'[d] = arrived[d] /\ queue'[d] = Left(c, d, Tail(q))
    OBVIOUS
  <2>1. d \in Blocks
    BY Kinds
  <2>2. IsSeq(arrived[d]) /\ IsSeq(Left(c, d, Tail(q)))
    BY <1>3, <2>1 DEF Left, PathTypeOK, AreMessages
  <2> QED BY <1>5, <2>1, <2>2, ConcatEmpty
<1>7. queue'[c] = Tail(q) /\ \A d \in Sources : d # c => queue'[d] = queue[d]
  BY <1>6 DEF Left
<1> HIDE DEF a, N, q
<1>8. p \in Nat /\ p + 1 \in 1 .. N /\ p + 1 \in 0 .. N
  BY <1>1, <1>3, <1>4
<1>9. Head(q) = a[p + 1]
  BY <1>3, <1>4, <1>8
<1>10. Tail(q) = SubSeq(a, (p + 1) + 1, N)
  <2> DEFINE z == SubSeq(a, (p + 1) + 1, N)
  <2>1. /\ IsSeq(z) /\ Len(z) = N - (p + 1) /\ \A i \in 1 .. N - (p + 1) : z[i] = a[(p + 1) + i]
    BY <1>1, <1>8, CutInTwo DEF N
  <2> HIDE DEF z
  <2>2. Len(Tail(q)) = Len(z) /\ Len(z) = N - (p + 1)
    BY <1>1, <1>3, <1>4, <1>8, <2>1
  <2>3. ASSUME NEW i \in 1 .. N - (p + 1)
        PROVE  Tail(q)[i] = z[i]
    <3>1. i \in 1 .. Len(q) - 1 /\ i + 1 \in 1 .. N - p /\ p + (i + 1) = (p + 1) + i
      BY <1>1, <1>4, <1>8
    <3> QED BY <1>3, <1>4, <2>1, <3>1
  <2>4. Tail(q) = z
    BY <1>3, <2>1, <2>2, <2>3, SeqEquality
  <2> QED BY <2>4 DEF z
<1> QED BY <1>6, <1>7, <1>8, <1>9, <1>10 DEF a, N, q

\* What a source adds to its queue is what it has to make of the message.
LEMMA BytesTaken ==
  ASSUME PathTypeOK, NEW c \in Sources, NEW p, SourceAt(c, p), p + 1 \in 1 .. Len(arrived[c]), p \in Nat,
         arrived'[c] = arrived[c], out'[c] = out[c],
         d_queue'[c] = IF IsTaken(c, arrived[c], p + 1)
                       THEN d_queue[c] \o (IF c = "source" THEN Blob(arrived[c][p + 1].data)
                                           ELSE Pack(arrived[c][p + 1].data))
                       ELSE d_queue[c]
  PROVE  /\ out'[c] \o d_queue'[c] = Concatenated(BytesOf(c, arrived'[c]))[p + 1]
         /\ Concatenated(HeadersOf(c, arrived'[c]))[p + 1] =
              Concatenated(HeadersOf(c, arrived[c]))[p]
                \o (IF IsTaken(c, arrived[c], p + 1) THEN <<arrived[c][p + 1].hdr>> ELSE <<>>)
         /\ IsSeq(Concatenated(HeadersOf(c, arrived[c]))[p])
<1> DEFINE a == arrived[c]
           B == BytesOf(c, a)
           H == HeadersOf(c, a)
           x == B[p + 1]
<1>1. /\ AreMessages(a) /\ IsSeq(out[c]) /\ IsSeq(d_queue[c])
      /\ out[c] \o d_queue[c] = Concatenated(B)[p]
  BY DEF PathTypeOK, SourceAt
<1>2. AreSeqs(B) /\ Len(B) = Len(a) /\ AreSeqs(H) /\ Len(H) = Len(a) /\ Len(a) \in Nat
  BY <1>1, MadeOf
<1>3. /\ x = IF ~IsTaken(c, a, p + 1) THEN <<>>
             ELSE IF c = "source" THEN Blob(a[p + 1].data) ELSE Pack(a[p + 1].data)
      /\ H[p + 1] = IF IsTaken(c, a, p + 1) THEN <<a[p + 1].hdr>> ELSE <<>>
  BY DEF BytesOf, HeadersOf
<1> HIDE DEF B, H, x
<1>4. (p + 1) - 1 = p /\ p \in 0 .. Len(a) /\ p + 1 \in 1 .. Len(B) /\ p + 1 \in 1 .. Len(H)
  BY <1>2
<1>5. /\ Concatenated(B)[p + 1] = Concatenated(B)[p] \o x
      /\ Concatenated(H)[p + 1] = Concatenated(H)[p] \o H[p + 1]
      /\ IsSeq(Concatenated(H)[p]) /\ IsSeq(x)
  <2>1. Concatenated(B)[p + 1] = Concatenated(B)[(p + 1) - 1] \o B[p + 1]
    BY <1>2, <1>4, JoinedSteps
  <2>2. Concatenated(H)[p + 1] = Concatenated(H)[(p + 1) - 1] \o H[p + 1]
    BY <1>2, <1>4, JoinedSteps
  <2>3. IsSeq(Concatenated(H)[p])
    BY <1>2, <1>4, JoinedSteps
  <2>4. IsSeq(B[p + 1])
    BY <1>2, <1>4 DEF AreSeqs
  <2> QED BY <1>4, <2>1, <2>2, <2>3, <2>4 DEF x
<1>6. out[c] \o (d_queue[c] \o x) = Concatenated(B)[p + 1]
  <2>1. (out[c] \o d_queue[c]) \o x = out[c] \o (d_queue[c] \o x)
    <3> DEFINE u == out[c]
               v == d_queue[c]
    <3>1. IsSeq(u) /\ IsSeq(v) /\ IsSeq(x)
      BY <1>1, <1>5
    <3> HIDE DEF u, v
    <3>2. (u \o v) \o x = u \o (v \o x)
      BY <3>1, ConcatAssoc
    <3> QED BY <3>2 DEF u, v
  <2> QED BY <1>1, <1>5, <2>1
<1>7. d_queue'[c] = d_queue[c] \o x
  <2>1. CASE IsTaken(c, a, p + 1)
    BY <1>3, <2>1
  <2>2. CASE ~IsTaken(c, a, p + 1)
    <3>1. x = <<>> /\ d_queue'[c] = d_queue[c]
      BY <1>3, <2>2
    <3> QED BY <1>1, <3>1, ConcatEmpty
  <2> QED BY <2>1, <2>2
<1>8. out'[c] \o d_queue'[c] = Concatenated(BytesOf(c, arrived'[c]))[p + 1]
  BY <1>6, <1>7 DEF B
<1>9. Concatenated(HeadersOf(c, arrived'[c]))[p + 1] =
        Concatenated(HeadersOf(c, a))[p] \o (IF IsTaken(c, a, p + 1) THEN <<a[p + 1].hdr>> ELSE <<>>)
  BY <1>3, <1>5 DEF H
<1> QED BY <1>5, <1>8, <1>9 DEF H

LEMMA SourceTakes ==
  ASSUME PathTypeOK, NEW p, SourceAt("source", p), SourceMessage
  PROVE  SourceAt("source", p + 1)'
<1> DEFINE c == "source"
           a == arrived[c]
           N == Len(a)
           m == Head(queue[c])
           T == IsTaken(c, a, p + 1)
<1>1. /\ c \in Blocks /\ running[c] /\ queue[c] # <<>> /\ Publish(c, <<>>, Tail(queue[c]))
      /\ IF d_stop[c] \/ m = EOF
         THEN /\ d_stop' = [d_stop EXCEPT ![c] = TRUE]
              /\ UNCHANGED <<d_queue, d_metadata_queue>>
         ELSE /\ d_queue' = IF FitsSource(m) THEN [d_queue EXCEPT ![c] = @ \o Blob(m.data)] ELSE d_queue
              /\ d_metadata_queue' = d_metadata_queue \o TakenHeaders(m)
              /\ UNCHANGED d_stop
      /\ UNCHANGED <<running, ninterrupts, d_num_bytes_copied, out, tags>>
  BY DEF SourceMessage, Waiting, Handled
<1>2. c \in Sources
  BY <1>1 DEF Sources
<1>3. /\ p \in Nat /\ p + 1 \in 1 .. N /\ arrived'[c] = a /\ m = a[p + 1]
      /\ queue'[c] = SubSeq(a, (p + 1) + 1, N)
  BY <1>1, <1>2, SourceNext
<1>4. /\ d_stop \in [Blocks -> BOOLEAN] /\ DOMAIN d_queue = Sources /\ DOMAIN out = Sources
      /\ IsSeq(d_metadata_queue) /\ IsSeq(out[c]) /\ IsSeq(d_queue[c]) /\ IsMessage(m)
      /\ Len(out[c]) \in Nat /\ Len(d_queue[c]) \in Nat
  BY <1>1, <1>2, Turned, SeqFacts DEF PathTypeOK
<1>5. (d_stop[c] <=> \E j \in 1 .. p : a[j] = EOF) /\ HeadersAt(p)
  BY DEF SourceAt
<1>6. \A j : j \in 1 .. p + 1 <=> j \in 1 .. p \/ j = p + 1
  BY <1>3
<1>7. (\E j \in 1 .. p + 1 : a[j] = EOF) <=> d_stop[c] \/ m = EOF
  BY <1>3, <1>5, <1>6
<1>8. d_stop'[c] <=> d_stop[c] \/ m = EOF
  BY <1>1, <1>4
<1>9. T <=> FitsSource(m) /\ ~(d_stop[c] \/ m = EOF)
  BY <1>3, <1>7 DEF IsTaken
<1>10. d_queue'[c] = IF T THEN d_queue[c] \o Blob(m.data) ELSE d_queue[c]
  <2>1. CASE T
    BY <1>1, <1>2, <1>4, <1>9, <2>1
  <2>2. CASE ~T
    BY <1>1, <1>9, <2>2
  <2> QED BY <2>1, <2>2
<1>11. d_metadata_queue' = IF T THEN d_metadata_queue \o <<m.hdr>> ELSE d_metadata_queue
  <2>1. CASE T
    BY <1>1, <1>9, <2>1 DEF TakenHeaders
  <2>2. CASE ~T /\ (d_stop[c] \/ m = EOF)
    BY <1>1, <2>2
  <2>3. CASE ~T /\ ~(d_stop[c] \/ m = EOF)
    <3>1. d_metadata_queue' = d_metadata_queue \o <<>>
      BY <1>1, <1>9, <2>3 DEF TakenHeaders
    <3> QED BY <1>4, <2>3, <3>1, ConcatEmpty
  <2> QED BY <2>1, <2>2, <2>3
<1>12. T => IsSeq(Blob(m.data)) /\ Len(Blob(m.data)) = BLOB_LEN
  BY <1>4, <1>9, BlobLen DEF FitsSource, IsMessage
<1>13. out'[c] = out[c]
  BY <1>1
<1>14. /\ out'[c] \o d_queue'[c] = Concatenated(BytesOf(c, arrived'[c]))[p + 1]
       /\ Concatenated(HeadersOf(c, arrived'[c]))[p + 1] =
            Concatenated(HeadersOf(c, a))[p] \o (IF T THEN <<m.hdr>> ELSE <<>>)
       /\ IsSeq(Concatenated(HeadersOf(c, a))[p])
  BY <1>2, <1>3, <1>10, <1>13, BytesTaken
<1>15. HeadersAt(p + 1)'
  <2>1. PICK H, s, w : /\ H = Concatenated(HeadersOf(c, a))[p]
                       /\ s = Len(out[c]) /\ w = Len(d_queue[c])
    OBVIOUS
  <2>2. InStep(H, s, w) /\ s \in Nat /\ w \in Nat /\ IsSeq(H)
    BY <1>4, <1>5, <1>14, <2>1, HeadersHold
  <2>3. CASE T
    <3>1. PICK h : h = m.hdr
      OBVIOUS
    <3>2. InStep(H \o <<h>>, s, w + BLOB_LEN)'
      BY <1>1, <1>4, <1>11, <2>2, <2>3, <3>1, InStepTaken
    <3>3. H \o <<h>> = Concatenated(HeadersOf("source", arrived'["source"]))[p + 1]
      BY <1>14, <2>1, <2>3, <3>1
    <3>4. Len(d_queue'["source"]) = w + BLOB_LEN
      <4>1. d_queue'[c] = d_queue[c] \o Blob(m.data)
        BY <1>10, <2>3
      <4>2. IsSeq(d_queue[c]) /\ IsSeq(Blob(m.data)) /\ Len(Blob(m.data)) = BLOB_LEN
        BY <1>4, <1>12, <2>3
      <4>3. Len(d_queue[c] \o Blob(m.data)) = Len(d_queue[c]) + Len(Blob(m.data))
        BY <4>2, ConcatFacts
      <4> QED BY <2>1, <4>1, <4>2, <4>3
    <3> QED BY <1>13, <2>1, <3>2, <3>3, <3>4, HeadersHoldThen
  <2>4. CASE ~T
    <3>1. InStep(H, s, w)'
      BY <1>1, <1>11, <2>2, <2>4 DEF InStep
    <3>2. H = Concatenated(HeadersOf("source", arrived'["source"]))[p + 1]
      <4>1. H \o <<>> = H
        BY <2>2, ConcatEmpty
      <4> QED BY <1>14, <2>1, <2>4, <4>1
    <3> QED BY <1>10, <1>13, <2>1, <2>4, <3>1, <3>2, HeadersHoldThen
  <2> QED BY <2>3, <2>4
<1>16. p + 1 \in 0 .. Len(arrived'[c]) /\ running'[c]
  <2>1. \A n : n \in 1 .. N => n \in 0 .. N
    OBVIOUS
  <2> QED BY <1>1, <1>3, <2>1
<1>17. d_stop'[c] <=> \E j \in 1 .. p + 1 : arrived'[c][j] = EOF
  BY <1>3, <1>7, <1>8
<1> QED BY <1>3, <1>14, <1>15, <1>16, <1>17 DEF SourceAt

LEMMA PackerTakes ==
  ASSUME PathTypeOK, NEW p, SourceAt("packer", p), PackerMessage
  PROVE  SourceAt("packer", p + 1)'
<1> DEFINE c == "packer"
           a == arrived[c]
           N == Len(a)
           m == Head(queue[c])
           T == IsTaken(c, a, p + 1)
<1>1. /\ c \in Blocks /\ running[c] /\ queue[c] # <<>> /\ Publish(c, <<>>, Tail(queue[c]))
      /\ d_queue' = IF m.type = "soft" THEN [d_queue EXCEPT ![c] = @ \o Pack(m.data)] ELSE d_queue
      /\ UNCHANGED <<running, out>>
  BY DEF PackerMessage, Waiting, Handled
<1>2. c \in Sources
  BY <1>1 DEF Sources
<1>3. /\ p \in Nat /\ p + 1 \in 1 .. N /\ arrived'[c] = a /\ m = a[p + 1]
      /\ queue'[c] = SubSeq(a, (p + 1) + 1, N)
  BY <1>1, <1>2, SourceNext
<1>4. T <=> m.type = "soft"
  BY <1>3 DEF IsTaken
<1>5. d_queue'[c] = IF T THEN d_queue[c] \o Pack(m.data) ELSE d_queue[c]
  BY <1>1, <1>2, <1>4 DEF PathTypeOK
<1>6. out'[c] \o d_queue'[c] = Concatenated(BytesOf(c, arrived'[c]))[p + 1]
  <2>1. /\ SourceAt(c, p) /\ p + 1 \in 1 .. Len(arrived[c]) /\ p \in Nat /\ PathTypeOK
        /\ arrived'[c] = arrived[c] /\ out'[c] = out[c] /\ c \in Sources /\ c # "source"
    BY <1>1, <1>2, <1>3
  <2>2. d_queue'[c] = IF IsTaken(c, arrived[c], p + 1)
                      THEN d_queue[c] \o (IF c = "source" THEN Blob(arrived[c][p + 1].data)
                                          ELSE Pack(arrived[c][p + 1].data))
                      ELSE d_queue[c]
    BY <1>3, <1>5, <2>1
  <2> HIDE DEF c
  <2> QED BY <2>1, <2>2, BytesTaken
<1>7. p + 1 \in 0 .. Len(arrived'[c]) /\ running'[c]
  <2>1. \A n : n \in 1 .. N => n \in 0 .. N
    OBVIOUS
  <2> QED BY <1>1, <1>3, <2>1
<1> QED BY <1>3, <1>6, <1>7 DEF SourceAt

\* work() moves bytes from the queue to the stream.
LEMMA SourceSends ==
  ASSUME PathTypeOK, NEW c \in Sources, NEW p, SourceAt(c, p), NEW space \in WorkSizes, Work(c, space)
  PROVE  SourceAt(c, p)'
<1> DEFINE n == pick_smaller(space, Len(d_queue[c]))
           q == d_queue[c]
           x == SubSeq(q, 1, n)
           z == SubSeq(q, n + 1, Len(q))
<1>1. n \in Nat /\ n <= Len(q) /\ Len(q) \in Nat /\ IsSeq(q) /\ IsSeq(out[c]) /\ Len(out[c]) \in Nat
  BY WorkSize, SeqFacts DEF PathTypeOK
<1>2. /\ running[c] /\ out' = [out EXCEPT ![c] = @ \o x] /\ d_queue' = [d_queue EXCEPT ![c] = z]
      /\ c = "source" => /\ tags' = tags \cup NewTags(n)
                         /\ d_metadata_queue' = SubSeq(d_metadata_queue, Cardinality(Starts(n)) + 1,
                                                       Len(d_metadata_queue))
                         /\ d_num_bytes_copied' = d_num_bytes_copied + n
      /\ UNCHANGED <<running, d_stop, ninterrupts, queue, arrived>>
  BY DEF Work, portVars
<1>3. out'[c] = out[c] \o x /\ d_queue'[c] = z
  BY <1>2 DEF PathTypeOK
<1> HIDE DEF n, q
<1>4. /\ IsSeq(x) /\ Len(x) = n /\ IsSeq(z) /\ Len(z) = Len(q) - n /\ x \o z = q
  <2>1. n \in 0 .. Len(q)
    BY <1>1
  <2> QED BY <1>1, <2>1, CutInTwo
<1> HIDE DEF x, z
<1>5. out'[c] \o d_queue'[c] = out[c] \o q
  <2> DEFINE o == out[c]
  <2>1. IsSeq(o)
    BY <1>1
  <2> HIDE DEF o
  <2>2. (o \o x) \o z = o \o (x \o z)
    <3>1. IsSeq(o) /\ IsSeq(x) /\ IsSeq(z)
      BY <1>4, <2>1
    <3> QED BY <3>1, ConcatAssoc
  <2> QED BY <1>3, <1>4, <2>2 DEF o
<1>6. out[c] \o q = Concatenated(BytesOf(c, arrived[c]))[p]
  BY DEF SourceAt, q
<1>7. ASSUME c = "source"
      PROVE  HeadersAt(p)'
  <2>1. PICK H, s, w, k : /\ H = Concatenated(HeadersOf("source", arrived["source"]))[p]
                          /\ s = Len(out["source"]) /\ w = Len(d_queue["source"]) /\ k = n
    OBVIOUS
  <2>2. InStep(H, s, w) /\ s \in Nat /\ w \in Nat /\ k \in Nat /\ k <= w
    BY <1>1, <1>7, <2>1, HeadersHold DEF SourceAt, q
  <2>3. IsSeq(H) /\ IsSeq(d_metadata_queue)
    <3>1. /\ AreMessages(arrived[c]) /\ p \in 0 .. Len(arrived[c]) /\ IsSeq(d_metadata_queue)
      BY DEF PathTypeOK, SourceAt
    <3>2. AreSeqs(HeadersOf(c, arrived[c])) /\ Len(HeadersOf(c, arrived[c])) = Len(arrived[c])
      BY <3>1, MadeOf
    <3>3. IsSeq(Concatenated(HeadersOf(c, arrived[c]))[p])
      BY <3>1, <3>2, JoinedSteps
    <3> QED BY <1>7, <2>1, <3>1, <3>3
  <2>4. InStep(H, s + k, w - k)'
    BY <1>2, <1>7, <2>1, <2>2, <2>3, InStepSent
  <2>5. s + k = Len(out'["source"]) /\ w - k = Len(d_queue'["source"])
    <3>1. Len(out'[c]) = Len(out[c]) + n
      <4>1. Len(out[c] \o x) = Len(out[c]) + Len(x)
        BY <1>1, <1>4, ConcatFacts
      <4> QED BY <1>3, <1>4, <4>1
    <3>2. Len(d_queue'[c]) = Len(d_queue[c]) - n
      BY <1>3, <1>4 DEF q
    <3> QED BY <1>7, <2>1, <3>1, <3>2
  <2>6. H = Concatenated(HeadersOf("source", arrived'["source"]))[p]
    BY <1>2, <2>1
  <2> QED BY <2>4, <2>5, <2>6, HeadersHoldThen
<1>8. out'[c] \o d_queue'[c] = Concatenated(BytesOf(c, arrived'[c]))[p]
  BY <1>2, <1>5, <1>6
<1> QED BY <1>2, <1>7, <1>8 DEF SourceAt

LEMMA SourceAlone ==
  ASSUME PathTypeOK, StreamInv, NEW c \in Sources, arrived'[c] = arrived[c], queue'[c] = queue[c],
         running'[c] = running[c], ninterrupts' = 0 => ninterrupts = 0, d_stop'[c] = d_stop[c],
         out'[c] = out[c], d_queue'[c] = d_queue[c],
         c = "source" => UNCHANGED <<d_metadata_queue, d_num_bytes_copied, tags>>
  PROVE  \E p : SourceAt(c, p)'
<1>1. PICK p : SourceAt(c, p)
  BY DEF StreamInv
<1>2. IsSeq(arrived[c]) /\ IsSeq(queue[c])
  BY Kinds DEF PathTypeOK, AreMessages
<1>3. arrived'[c] = arrived[c] \o <<>> /\ queue'[c] = queue[c] \o <<>>
  BY <1>2, ConcatEmpty
<1>4. SourceAt(c, p)'
  BY <1>1, <1>3, NoMessages, SourceHears
<1> QED BY <1>4

LEMMA SourceAtPorts ==
  ASSUME PathTypeOK, StreamInv, NEW b \in Blocks, NEW msgs, NEW handled, Publish(b, msgs, handled),
         AreMessages(msgs), NEW c \in Sources, c # b, UNCHANGED sourceVars,
         running'[c] = running[c], ninterrupts' = 0 => ninterrupts = 0, d_stop'[c] = d_stop[c]
  PROVE  \E p : SourceAt(c, p)'
<1>1. PICK p : SourceAt(c, p)
  BY DEF StreamInv
<1>2. c \in Blocks /\ Left(b, c, handled) = queue[c]
  BY Kinds DEF Left
<1>3. /\ queue'[c] = IF Gets(b, c) THEN queue[c] \o msgs ELSE queue[c]
      /\ arrived'[c] = IF Gets(b, c) THEN arrived[c] \o msgs ELSE arrived[c]
  BY <1>2, Published, PortTypesHold
<1>4. CASE Gets(b, c)
  <2>1. running[c]
    BY <1>4 DEF Gets
  <2>2. SourceAt(c, p)'
    BY <1>1, <1>3, <1>4, <2>1, SourceHears DEF sourceVars
  <2> QED BY <2>2
<1>5. CASE ~Gets(b, c)
  BY <1>3, <1>5, SourceAlone DEF sourceVars
<1> QED BY <1>4, <1>5

LEMMA StreamThread ==
  ASSUME PathTypeOK, StreamInv, NEW b \in Blocks, running[b], EndThread(b),
         ninterrupts' = 0 => ninterrupts = 0,
         ninterrupts' = 0 /\ b \in Sources => queue[b] = <<>> /\ d_queue[b] = <<>>
  PROVE  StreamInv'
<1>1. /\ running' = [running EXCEPT ![b] = FALSE]
      /\ Publish(b, Farewell(b), <<>>)
      /\ d_stop' = IF b = "harden" THEN [d_stop EXCEPT ![b] = TRUE] ELSE d_stop
      /\ UNCHANGED sourceVars
      /\ running \in [Blocks -> BOOLEAN] /\ d_stop \in [Blocks -> BOOLEAN]
  BY DEF EndThread, PathTypeOK
<1>2. ASSUME NEW c \in Sources
      PROVE  \E p : SourceAt(c, p)'
  <2>1. c \in Blocks /\ c # "harden"
    BY Kinds
  <2>2. d_stop'[c] = d_stop[c]
    BY <1>1, <2>1
  <2>3. CASE c = b
    <3>1. PICK p : SourceAt(c, p)
      BY DEF StreamInv
    <3>2. Farewell(b) = <<>>
      BY <2>3, Kinds DEF Farewell
    <3>3. arrived'[c] = IF Gets(b, c) THEN arrived[c] \o <<>> ELSE arrived[c]
      <4>1. Publish(b, <<>>, <<>>)
        BY <1>1, <3>2
      <4> QED BY <4>1, Published, PortTypesHold
    <3>4. arrived'[c] = arrived[c]
      BY <3>3, ConcatEmpty DEF PathTypeOK, AreMessages
    <3>5. ~running'[c]
      BY <1>1, <2>3
    <3>6. SourceAt(c, p)'
      BY <1>1, <2>2, <2>3, <3>1, <3>4, <3>5, SourceEnds
    <3> QED BY <3>6
  <2>4. CASE c # b
    <3>1. running'[c] = running[c]
      BY <1>1, <2>1, <2>4
    <3> QED BY <1>1, <2>2, <2>4, <3>1, FarewellMessages, SourceAtPorts
  <2> QED BY <2>3, <2>4
<1> QED BY <1>2 DEF StreamInv

\* A block that is not a source
LEMMA StreamAtPorts ==
  ASSUME PathTypeOK, StreamInv, NEW b \in Blocks, b \notin Sources,
         NEW msgs, NEW handled, Publish(b, msgs, handled), AreMessages(msgs),
         UNCHANGED <<running, ninterrupts, sourceVars>>, \A c \in Sources : d_stop'[c] = d_stop[c]
  PROVE  StreamInv'
<1>1. ASSUME NEW c \in Sources
      PROVE  \E p : SourceAt(c, p)'
  BY SourceAtPorts
<1> QED BY <1>1 DEF StreamInv

LEMMA StreamBlocks ==
  ASSUME PathTypeOK, StreamInv,
         \/ \E b \in Sinks : \E n \in FeedSizes[b] : Feed(b, n)
         \/ \E b \in Converters : Convert(b) \/ ConvertEof(b)
         \/ Harden
  PROVE  StreamInv'
<1>1. ASSUME NEW b \in Sinks, NEW n \in FeedSizes[b], Feed(b, n)
      PROVE  StreamInv'
  <2>1. PICK msgs : Publish(b, msgs, <<>>) /\ AreMessages(msgs)
    BY <1>1, FedMessages
  <2>2. UNCHANGED <<running, ninterrupts, sourceVars, d_stop>>
    BY <1>1 DEF Feed
  <2> QED BY <2>1, <2>2, Kinds, StreamAtPorts
<1>2. ASSUME NEW b \in Converters, Convert(b)
      PROVE  StreamInv'
  <2>1. PICK msgs : Publish(b, msgs, Tail(queue[b])) /\ AreMessages(msgs)
    BY <1>2, ConvertSends
  <2>2. UNCHANGED <<running, ninterrupts, sourceVars, d_stop>>
    BY <1>2 DEF Convert
  <2> QED BY <2>1, <2>2, Kinds, StreamAtPorts
<1>3. ASSUME NEW b \in Converters, ConvertEof(b)
      PROVE  StreamInv'
  <2>1. /\ Publish(b, <<EOF>>, Tail(queue[b])) /\ UNCHANGED <<running, ninterrupts, sourceVars>>
        /\ d_stop' = [d_stop EXCEPT ![b] = TRUE] /\ DOMAIN d_stop = Blocks
    BY <1>3 DEF ConvertEof, Forwarded, PathTypeOK
  <2>2. \A c \in Sources : d_stop'[c] = d_stop[c]
    BY <2>1, Kinds
  <2> QED BY <2>1, <2>2, Kinds, EofMessage, OneMessage, StreamAtPorts
<1>4. CASE Harden
  <2>1. /\ "harden" \in Blocks /\ \A c \in Blocks : c # "harden" => d_stop'[c] = d_stop[c]
        /\ \E msgs : Publish("harden", msgs, Tail(queue["harden"])) /\ AreMessages(msgs)
    BY <1>4, HardenSends, NoMessages, OneMessage
  <2>2. UNCHANGED <<running, ninterrupts, sourceVars>>
    BY <1>4 DEF Harden
  <2>3. \A c \in Sources : d_stop'[c] = d_stop[c]
    BY <2>1, Kinds
  <2> QED BY <2>1, <2>2, <2>3, Kinds, StreamAtPorts
<1> QED BY <1>1, <1>2, <1>3, <1>4

LEMMA StreamSources ==
  ASSUME PathTypeOK, StreamInv, SourceMessage \/ PackerMessage
  PROVE  StreamInv'
<1>1. PICK b \in Sources :
        /\ running[b] /\ queue[b] # <<>> /\ Publish(b, <<>>, Tail(queue[b]))
        /\ UNCHANGED <<running, ninterrupts, d_num_bytes_copied, out, tags>>
        /\ (b = "source" /\ SourceMessage) \/ (b = "packer" /\ PackerMessage)
  BY DEF SourceMessage, PackerMessage, Waiting, Handled, Sources
<1>2. PICK p : SourceAt(b, p)
  BY DEF StreamInv
<1>3. SourceAt(b, p + 1)'
  BY <1>1, <1>2, SourceTakes, PackerTakes
<1>4. \A d \in Sources : arrived'[d] = arrived[d] /\ (d # b => queue'[d] = queue[d])
  BY <1>1, <1>2, SourceNext
<1>5. \A d \in Sources : d # b => d_stop'[d] = d_stop[d] /\ d_queue'[d] = d_queue[d]
  <2>1. /\ \E x : d_stop' = d_stop \/ d_stop' = [d_stop EXCEPT ![b] = x]
        /\ \E x : d_queue' = d_queue \/ d_queue' = [d_queue EXCEPT ![b] = x]
    BY <1>1 DEF SourceMessage, PackerMessage
  <2> QED BY <2>1, Kinds DEF PathTypeOK
<1>6. b # "source" => UNCHANGED d_metadata_queue
  BY <1>1 DEF PackerMessage
<1>7. ASSUME NEW d \in Sources, d # b
      PROVE  \E r : SourceAt(d, r)'
  BY <1>1, <1>4, <1>5, <1>6, <1>7, SourceAlone
<1> QED BY <1>3, <1>7 DEF StreamInv

LEMMA StreamWork ==
  ASSUME PathTypeOK, StreamInv, NEW b \in Sources, NEW space \in WorkSizes, Work(b, space)
  PROVE  StreamInv'
<1>1. PICK p : SourceAt(b, p)
  BY DEF StreamInv
<1>2. SourceAt(b, p)'
  BY <1>1, SourceSends
<1>3. /\ UNCHANGED <<running, d_stop, ninterrupts, queue, arrived>>
      /\ \A d \in Sources : d # b => out'[d] = out[d] /\ d_queue'[d] = d_queue[d]
      /\ b # "source" => UNCHANGED <<d_metadata_queue, d_num_bytes_copied, tags>>
  BY DEF Work, portVars, PathTypeOK
<1>4. ASSUME NEW d \in Sources, d # b
      PROVE  \E r : SourceAt(d, r)'
  BY <1>3, <1>4, SourceAlone
<1> QED BY <1>2, <1>4 DEF StreamInv

LEMMA StreamPost ==
  ASSUME PathTypeOK, StreamInv, NEW b \in Sources, NEW m \in Posts[b], Post(b, m)
  PROVE  StreamInv'
<1>1. IsMessage(m)
  <2>1. m \in Messages
    BY PathAssumption
  <2>2. m = Message(m.type, m.hdr, m.data) /\ m.data \in Seq(Int)
    BY <2>1 DEF Messages, Message
  <2> QED BY <2>2 DEF IsMessage, IsSeq
<1>2. PICK p : SourceAt(b, p)
  BY DEF StreamInv
<1>3. /\ queue' = [queue EXCEPT ![b] = Append(@, m)]
      /\ arrived' = [arrived EXCEPT ![b] = Append(@, m)]
      /\ running[b] /\ UNCHANGED <<running, d_stop, ninterrupts, sourceVars>>
  BY DEF Post
<1>4. b \in Blocks /\ DOMAIN queue = Blocks /\ DOMAIN arrived = Sources
      /\ IsSeq(queue[b]) /\ IsSeq(arrived[b])
  BY Kinds DEF PathTypeOK, AreMessages
<1>5. queue'[b] = queue[b] \o <<m>> /\ arrived'[b] = arrived[b] \o <<m>>
  BY <1>3, <1>4, AppendFacts
<1>6. SourceAt(b, p)'
  BY <1>1, <1>2, <1>3, <1>5, OneMessage, SourceHears DEF sourceVars
<1>7. ASSUME NEW d \in Sources, d # b
      PROVE  \E r : SourceAt(d, r)'
  <2>1. queue'[d] = queue[d] /\ arrived'[d] = arrived[d]
    BY <1>3, <1>4, <1>7, Kinds
  <2> QED BY <1>3, <2>1, SourceAlone DEF sourceVars
<1> QED BY <1>6, <1>7 DEF StreamInv

LEMMA StreamStep == PathTypeOK /\ StreamInv /\ [Next]_vars => StreamInv'
<1> SUFFICES ASSUME PathTypeOK, StreamInv, [Next]_vars PROVE StreamInv'
  OBVIOUS
<1>1. ASSUME NEW b \in Sinks, EndOfInput(b)
      PROVE  StreamInv'
  BY <1>1, Kinds, StreamThread DEF EndOfInput
<1>2. ASSUME NEW b \in Sinks, NEW n \in FeedSizes[b], Feed(b, n)
      PROVE  StreamInv'
  BY <1>2, StreamBlocks
<1>3. CASE Threads
  <2>1. ASSUME NEW b \in Sources, Finish(b)
        PROVE  StreamInv'
    BY <2>1, Kinds, StreamThread DEF Finish, Done
  <2> QED BY <1>3, <2>1, StreamBlocks, StreamSources, StreamWork DEF Threads
<1>4. ASSUME NEW b \in Interruptible, Interrupt(b)
      PROVE  StreamInv'
  <2>1. b \in Blocks /\ running[b] /\ EndThread(b) /\ ninterrupts' # 0
    BY <1>4, PathAssumption DEF Interrupt, PathTypeOK
  <2> QED BY <2>1, StreamThread
<1>5. ASSUME NEW b \in Sources, NEW m \in Posts[b], Post(b, m)
      PROVE  StreamInv'
  BY <1>5, StreamPost
<1>6. CASE UNCHANGED vars
  <2>1. ASSUME NEW d \in Sources
        PROVE  \E r : SourceAt(d, r)'
    BY <1>6, SourceAlone DEF vars, sourceVars, portVars
  <2> QED BY <2>1 DEF StreamInv
<1> QED BY <1>1, <1>2, <1>3, <1>4, <1>5, <1>6 DEF Next

LEMMA StreamInit == Init => StreamInv
<1> SUFFICES ASSUME Init, NEW b \in Sources PROVE SourceAt(b, 0)
  BY DEF StreamInv
<1>1. b \in Blocks
  BY Kinds
<1>2. /\ arrived[b] = <<>> /\ queue[b] = <<>> /\ out[b] = <<>> /\ d_queue[b] = <<>>
      /\ ~d_stop[b] /\ d_metadata_queue = <<>> /\ d_num_bytes_copied = 0 /\ tags = {}
  BY <1>1 DEF Init
<1>3. IsSeq(<<>>) /\ Len(<<>>) = 0 /\ AreMessages(<<>>)
  BY EmptyFacts, NoMessages
<1>4. Concatenated(BytesOf(b, arrived[b]))[0] = <<>> /\ Concatenated(HeadersOf(b, arrived[b]))[0] = <<>>
  BY <1>2, <1>3, MadeOf, JoinedSteps
<1>5. queue[b] = SubSeq(arrived[b], 0 + 1, Len(arrived[b]))
  <2>1. 0 \in 0 .. Len(<<>>)
    BY <1>3
  <2>2. IsSeq(SubSeq(<<>>, 0 + 1, Len(<<>>))) /\ Len(SubSeq(<<>>, 0 + 1, Len(<<>>))) = Len(<<>>) - 0
    BY <1>3, <2>1, CutInTwo
  <2>3. SubSeq(<<>>, 0 + 1, Len(<<>>)) = <<>>
    BY <1>3, <2>2, SeqFacts
  <2> QED BY <1>2, <2>3
<1>6. out[b] \o d_queue[b] = <<>>
  BY <1>2, <1>3, ConcatEmpty
<1>7. ASSUME b = "source"
      PROVE  HeadersAt(0)
  <2>1. divide_ceil(0, BLOB_LEN) = 0
    <3>1. BLOB_LEN \in Nat /\ BLOB_LEN > 0 /\ 0 * BLOB_LEN >= 0
      BY PathAssumption
    <3>2. divide_ceil(0, BLOB_LEN) \in Nat /\ 0 >= divide_ceil(0, BLOB_LEN)
      BY <3>1, Begun
    <3> QED BY <3>2
  <2>2. BLOB_LEN * 0 = 0
    BY PathAssumption
  <2>3. TagsOf(<<>>, 0) = {}
    BY DEF TagsOf
  <2>4. InStep(<<>>, 0, 0)
    BY <1>2, <1>3, <2>1, <2>2, <2>3 DEF InStep
  <2> QED BY <1>2, <1>3, <1>4, <1>7, <2>4, HeadersHold
<1>8. 0 \in 0 .. Len(arrived[b]) /\ 0 = Len(arrived[b])
  BY <1>2, <1>3
<1>9. ~\E j \in 1 .. 0 : arrived["source"][j] = EOF
  OBVIOUS
<1> QED BY <1>2, <1>4, <1>5, <1>6, <1>7, <1>8, <1>9 DEF SourceAt

LEMMA WholeStream ==
  ASSUME PathTypeOK, StreamInv
  PROVE  StreamWhole
<1> SUFFICES ASSUME NEW b \in Sources
             PROVE  /\ IsPrefix(out[b], Stream(b))
                    /\ ~running[b] /\ ninterrupts = 0 => out[b] = Stream(b)
  BY DEF StreamWhole
<1> DEFINE a == arrived[b]
           N == Len(a)
           J == Concatenated(BytesOf(b, a))
           o == out[b]
           q == d_queue[b]
<1>1. PICK p : SourceAt(b, p)
  BY DEF StreamInv
<1>2. /\ p \in 0 .. N /\ o \o q = J[p]
      /\ ~running[b] /\ ninterrupts = 0 => p = N /\ q = <<>>
      /\ Stream(b) = J[N] /\ AreMessages(a) /\ IsSeq(o) /\ IsSeq(q)
  BY <1>1 DEF SourceAt, Stream, PathTypeOK
<1>3. AreSeqs(BytesOf(b, a)) /\ Len(BytesOf(b, a)) = N
  BY <1>2, MadeOf
<1>4. PICK t : IsSeq(t) /\ J[N] = J[p] \o t
  <2> DEFINE ss == BytesOf(b, a)
  <2>1. AreSeqs(ss) /\ Len(ss) = N /\ p \in 0 .. Len(ss)
    BY <1>2, <1>3
  <2> HIDE DEF ss
  <2>2. \E t : IsSeq(t) /\ Concatenated(ss)[Len(ss)] = Concatenated(ss)[p] \o t
    BY <2>1, JoinedLonger
  <2> QED BY <2>1, <2>2 DEF ss
<1> HIDE DEF a, N, J, o, q
<1>5. J[N] = o \o (q \o t)
  <2>1. IsSeq(o) /\ IsSeq(q) /\ IsSeq(t)
    BY <1>2, <1>4
  <2>2. (o \o q) \o t = o \o (q \o t)
    BY <2>1, ConcatAssoc
  <2> QED BY <1>2, <1>4, <2>2
<1>6. IsSeq(q \o t)
  BY <1>2, <1>4, ConcatFacts
<1>7. IsPrefix(o, o \o (q \o t))
  BY <1>2, <1>6, PrefixOfConcat
<1>8. ~running[b] /\ ninterrupts = 0 => o = J[N]
  BY <1>2, ConcatEmpty
<1> QED BY <1>2, <1>5, <1>7, <1>8 DEF o

LEMMA StepHeaders ==
  ASSUME PathTypeOK, StreamInv
  PROVE  HeadersInStep
<1> SUFFICES ASSUME "source" \in Blocks
             PROVE  /\ Len(d_metadata_queue) = Len(d_queue["source"]) \div BLOB_LEN
                    /\ tags = TagsOf(Headers("source"), divide_ceil(Len(out["source"]), BLOB_LEN))
  BY DEF HeadersInStep, TagsOf
<1> DEFINE a == arrived["source"]
           N == Len(a)
           J == Concatenated(HeadersOf("source", a))
           L == BLOB_LEN
           o == Len(out["source"])
           q == Len(d_queue["source"])
           m == Len(d_metadata_queue)
           A == divide_ceil(o, L)
<1>0. "source" \in Sources
  BY DEF Sources
<1>1. PICK p : SourceAt("source", p)
  BY <1>0 DEF StreamInv
<1> DEFINE H == J[p]
           h == Len(H)
<1>2. /\ p \in 0 .. N /\ AreMessages(a) /\ o \in Nat /\ q \in Nat /\ m \in Nat
      /\ o + q = L * h /\ h = A + m /\ tags = TagsOf(H, A)
  BY <1>0, <1>1, SeqFacts DEF SourceAt, PathTypeOK, HeadersAt, InStep
<1>3. AreSeqs(HeadersOf("source", a)) /\ Len(HeadersOf("source", a)) = N
  BY <1>2, MadeOf
<1>4. PICK t : IsSeq(t) /\ J[N] = H \o t
  <2> DEFINE ss == HeadersOf("source", a)
  <2>1. AreSeqs(ss) /\ Len(ss) = N /\ p \in 0 .. Len(ss)
    BY <1>2, <1>3
  <2> HIDE DEF ss
  <2>2. \E t : IsSeq(t) /\ Concatenated(ss)[Len(ss)] = Concatenated(ss)[p] \o t
    BY <2>1, JoinedLonger
  <2> QED BY <2>1, <2>2 DEF ss
<1>5. IsSeq(H) /\ h \in Nat
  <2>1. IsSeq(J[p])
    BY <1>2, <1>3, JoinedSteps
  <2> QED BY <2>1, SeqFacts
<1>6. L \in Nat /\ L > 0
  BY PathAssumption
<1>7. \A i \in 1 .. h : J[N][i] = H[i]
  BY <1>4, <1>5, ConcatFacts
<1> HIDE DEF a, N, J, L, o, q, m, A, H, h
<1>8. A \in Nat /\ \A k \in Nat : k >= A <=> k * L >= o
  BY <1>2, <1>6, Begun DEF A
<1>9. TagsOf(J[N], A) = TagsOf(H, A)
  <2>1. \A i \in 1 .. A : i \in 1 .. h
    BY <1>2, <1>5, <1>8
  <2> QED BY <1>7, <1>8, <2>1, TagsSame
<1>10. m = q \div L
  <2>1. /\ A * L \in Nat /\ m * L \in Nat /\ h * L = A * L + m * L /\ h * L = L * h
    BY <1>2, <1>6, <1>8
  <2>2. A * L >= o /\ A * L - o < L
    <3>1. A * L >= o
      BY <1>8
    <3>2. CASE A = 0
      <4>1. A * L = 0
        BY <1>6, <3>2
      <4> QED BY <1>2, <1>6, <3>1, <4>1
    <3>3. CASE A # 0
      <4>1. A - 1 \in Nat /\ ~(A - 1 >= A)
        BY <1>8, <3>3
      <4>2. ~((A - 1) * L >= o)
        BY <1>8, <4>1
      <4>3. (A - 1) * L \in Nat /\ ((A - 1) + 1) * L = (A - 1) * L + L /\ (A - 1) + 1 = A
        BY <1>6, <4>1, <1>8, Products
      <4> QED BY <1>2, <1>6, <2>1, <3>1, <4>2, <4>3
    <3> QED BY <3>2, <3>3
  <2> DEFINE r == A * L - o
  <2>3. r \in Nat /\ r < L
    BY <1>2, <2>1, <2>2
  <2>4. q = m * L + r
    BY <1>2, <2>1
  <2> HIDE DEF r
  <2>5. (m * L + r) \div L = m
    BY <1>2, <1>6, <2>3, Quotient
  <2> QED BY <2>4, <2>5
<1>11. Headers("source") = J[N]
  BY DEF Headers, J, N, a
<1> QED BY <1>2, <1>9, <1>10, <1>11 DEF L, o, q, m, A

(* A source puts out the bytes of the messages that came, in their order and *)
(* without a gap, for all messages, divisions into calls and connections; if *)
(* no thread is ended early, nothing is left when its thread has ended      *)
(* (blob_msg_source_b and softbits_msg_to_bytes_b: process_message, work).   *)
THEOREM PathStreamWhole == Spec => []StreamWhole
<1>1. Init => StreamInv
  BY StreamInit
<1>2. PathTypeOK /\ StreamInv /\ [Next]_vars => StreamInv'
  BY StreamStep
<1>3. PathTypeOK /\ StreamInv => StreamWhole
  BY WholeStream
<1>4. Spec => []PathTypeOK
  BY PathTypeCorrect
<1> QED BY <1>1, <1>2, <1>3, <1>4, PTL DEF Spec

(* The header of each message is attached to its first byte in the stream,  *)
(* for any length of messages and any division into calls of work(), and as *)
(* many headers wait as messages begin in the waiting bytes                 *)
(* (blob_msg_source_b: d_metadata_queue, d_num_bytes_copied).               *)
THEOREM PathHeadersInStep == Spec => []HeadersInStep
<1>1. Init => StreamInv
  BY StreamInit
<1>2. PathTypeOK /\ StreamInv /\ [Next]_vars => StreamInv'
  BY StreamStep
<1>3. PathTypeOK /\ StreamInv => HeadersInStep
  BY StepHeaders
<1>4. Spec => []PathTypeOK
  BY PathTypeCorrect
<1> QED BY <1>1, <1>2, <1>3, <1>4, PTL DEF Spec
-----------------------------------------------------------------------------
(* The sequence of the randomisers: the first bits of the register, shift   *)
(* after shift, are the linear recurrence Prbs.                             *)

InputBit(state) == Cardinality({i \in 1 .. 8 : state[i] = 1 /\ d_POLY[i] = 1}) % 2

\* The function that Registers chooses, and one that is defined up to n.
IsRegister(s, m, f) == f = [k \in 0 .. m |-> IF k = 0 THEN s ELSE Shift[f[k - 1]]]
RegisterChosen(s, m) == CHOOSE f : IsRegister(s, m, f)
ShiftedSoFar(s, n, f) ==
  /\ f = [i \in 0 .. n |-> f[i]] /\ f[0] = s
  /\ \A i \in 1 .. n : f[i] = Shift[f[i - 1]]

LEMMA RegistersChosen ==
  ASSUME NEW s, NEW n
  PROVE  Registers(s, n) = RegisterChosen(s, 8 * n)
BY DEF Registers, RegisterChosen, IsRegister

LEMMA CountType ==
  ASSUME NEW n \in Nat, NEW T, T \subseteq 1 .. n
  PROVE  Cardinality(T) \in Nat
<1>1. IsFiniteSet(1 .. n)
  BY FS_Interval
<1> QED BY <1>1, FS_Subset, FS_CardinalityType

LEMMA ShiftFacts ==
  ASSUME NEW s \in Byte
  PROVE  /\ Shift[s] \in Byte
         /\ \A i \in 1 .. 7 : Shift[s][i] = s[i + 1]
         /\ Shift[s][8] = InputBit(s)
<1> DEFINE c == Cardinality({i \in 1 .. 8 : s[i] = 1 /\ d_POLY[i] = 1})
           x == c % 2
           t == [i \in 1 .. 8 |-> IF i < 8 THEN s[i + 1] ELSE x]
<1>1. Shift[s] = t
  BY DEF Shift
<1>2. c \in Nat
  <2> DEFINE T == {i \in 1 .. 8 : s[i] = 1 /\ d_POLY[i] = 1}
  <2>1. T \subseteq 1 .. 8
    OBVIOUS
  <2> HIDE DEF T
  <2> QED BY <2>1, CountType DEF T
<1> HIDE DEF c
<1>3. x \in {0, 1}
  BY <1>2
<1>4. x = InputBit(s)
  BY DEF c, InputBit
<1> HIDE DEF x
<1>5. t \in Byte
  <2>1. s \in [1 .. 8 -> {0, 1}]
    BY DEF Byte
  <2>2. \A i \in 1 .. 8 : (IF i < 8 THEN s[i + 1] ELSE x) \in {0, 1}
    BY <1>3, <2>1
  <2> QED BY <2>2 DEF Byte
<1>6. (\A i \in 1 .. 7 : t[i] = s[i + 1]) /\ t[8] = x
  OBVIOUS
<1> QED BY <1>1, <1>4, <1>5, <1>6

LEMMA ShiftExtended ==
  ASSUME NEW s, NEW n \in Nat, NEW f, ShiftedSoFar(s, n, f)
  PROVE  \E g : ShiftedSoFar(s, n + 1, g)
<1> DEFINE q == Shift[f[n]]
           g == [i \in 0 .. n + 1 |-> IF i <= n THEN f[i] ELSE q]
<1>1. f[0] = s /\ \A i \in 1 .. n : f[i] = Shift[f[i - 1]]
  BY DEF ShiftedSoFar
<1>2. /\ \A i \in 0 .. n : g[i] = f[i]
      /\ g[n + 1] = q /\ g = [i \in 0 .. n + 1 |-> g[i]]
  OBVIOUS
<1> HIDE DEF g, q
<1>3. g[0] = s
  <2>1. 0 \in 0 .. n
    OBVIOUS
  <2> QED BY <1>1, <1>2, <2>1
<1>4. ASSUME NEW i \in 1 .. n + 1
      PROVE  g[i] = Shift[g[i - 1]]
  <2>1. CASE i <= n
    <3>1. i \in 1 .. n /\ i \in 0 .. n /\ i - 1 \in 0 .. n
      BY <2>1
    <3> QED BY <1>1, <1>2, <3>1
  <2>2. CASE i = n + 1
    <3>1. i - 1 = n /\ n \in 0 .. n
      BY <2>2
    <3>2. g[i - 1] = f[n] /\ g[i] = q
      BY <1>2, <2>2, <3>1
    <3> QED BY <2>2, <3>2 DEF q
  <2>3. i <= n \/ i = n + 1
    OBVIOUS
  <2> QED BY <2>1, <2>2, <2>3
<1> QED BY <1>2, <1>3, <1>4 DEF ShiftedSoFar

\* Every register comes from the one before it by a shift.
LEMMA RegisterSteps ==
  ASSUME NEW s \in Byte, NEW n \in Nat
  PROVE  /\ Registers(s, n)[0] = s
         /\ \A k \in 1 .. 8 * n : Registers(s, n)[k] = Shift[Registers(s, n)[k - 1]]
         /\ \A k \in 0 .. 8 * n : Registers(s, n)[k] \in Byte
<1> DEFINE N == 8 * n
           S == {k \in Nat : \E f : ShiftedSoFar(s, k, f)}
           R == Registers(s, n)
<1>1. N \in Nat
  OBVIOUS
<1>2. 0 \in S
  <2> DEFINE f == [i \in 0 .. 0 |-> s]
  <2>1. f = [i \in 0 .. 0 |-> f[i]] /\ f[0] = s
    OBVIOUS
  <2> HIDE DEF f
  <2>2. ShiftedSoFar(s, 0, f)
    BY <2>1 DEF ShiftedSoFar
  <2> QED BY <2>2
<1>3. \A k \in S : k + 1 \in S
  BY ShiftExtended
<1>4. S = Nat
  <2>1. S \in SUBSET Nat
    OBVIOUS
  <2> HIDE DEF S
  <2> QED BY <1>2, <1>3, <2>1, SetInduction
<1>5. PICK f : ShiftedSoFar(s, N, f)
  BY <1>1, <1>4
<1>6. IsRegister(s, N, f)
  <2> HIDE DEF N
  <2>1. /\ f = [k \in 0 .. N |-> f[k]] /\ f[0] = s
        /\ \A k \in 1 .. N : f[k] = Shift[f[k - 1]]
    BY <1>5 DEF ShiftedSoFar
  <2>2. ASSUME NEW k \in 0 .. N
        PROVE  f[k] = IF k = 0 THEN s ELSE Shift[f[k - 1]]
    <3>1. k = 0 \/ k \in 1 .. N
      BY <1>1
    <3>2. k \in 1 .. N => k # 0
      OBVIOUS
    <3> QED BY <2>1, <3>1, <3>2, Zenon
  <2> QED BY <2>1, <2>2 DEF IsRegister
<1>7. IsRegister(s, N, R)
  BY <1>6, RegistersChosen DEF RegisterChosen
<1> HIDE DEF R, N
<1>8. R[0] = s
  BY <1>1, <1>7 DEF IsRegister
<1>9. \A k \in 1 .. N : R[k] = Shift[R[k - 1]]
  <2> SUFFICES ASSUME NEW k \in 1 .. N PROVE R[k] = Shift[R[k - 1]]
    OBVIOUS
  <2>1. k \in 0 .. N /\ k # 0
    BY <1>1
  <2> QED BY <1>7, <2>1 DEF IsRegister
<1>10. \A k \in 0 .. N : R[k] \in Byte
  <2> DEFINE T == {k \in Nat : k <= N => R[k] \in Byte}
  <2>1. 0 \in T
    BY <1>8
  <2>2. ASSUME NEW k \in T
        PROVE  k + 1 \in T
    <3> SUFFICES ASSUME k + 1 <= N PROVE R[k + 1] \in Byte
      OBVIOUS
    <3>1. k + 1 \in 1 .. N /\ (k + 1) - 1 = k /\ R[k] \in Byte
      BY <1>1
    <3> QED BY <1>9, <3>1, ShiftFacts
  <2>3. T \in SUBSET Nat
    OBVIOUS
  <2>4. T = Nat
    <3> HIDE DEF T
    <3> QED BY <2>1, <2>2, <2>3, SetInduction
  <2> QED BY <1>1, <2>4
<1> QED BY <1>8, <1>9, <1>10 DEF R, N

\* Bit j of a register is the first bit j - 1 shifts later.
LEMMA RegisterDiagonal ==
  ASSUME NEW s \in Byte, NEW n \in Nat, NEW j \in 0 .. 7, NEW k \in Nat, k + j <= 8 * n
  PROVE  Registers(s, n)[k][j + 1] = Registers(s, n)[k + j][1]
<1> DEFINE R == Registers(s, n)
           N == 8 * n
           T == {i \in Nat : i <= 7 => \A m \in Nat : m + i <= N => R[m][i + 1] = R[m + i][1]}
<1>1. N \in Nat
  OBVIOUS
<1>2. /\ \A m \in 1 .. N : R[m] = Shift[R[m - 1]]
      /\ \A m \in 0 .. N : R[m] \in Byte
  BY RegisterSteps
<1> HIDE DEF R, N
<1>3. 0 \in T
  OBVIOUS
<1>4. ASSUME NEW i \in T
      PROVE  i + 1 \in T
  <2> SUFFICES ASSUME i + 1 <= 7, NEW m \in Nat, m + (i + 1) <= N
               PROVE  R[m][(i + 1) + 1] = R[m + (i + 1)][1]
    OBVIOUS
  <2>1. m + 1 \in 1 .. N /\ (m + 1) - 1 = m /\ m \in 0 .. N /\ i + 1 \in 1 .. 7
    BY <1>1
  <2>2. R[m + 1] = Shift[R[m]] /\ R[m] \in Byte
    BY <1>2, <2>1
  <2>3. R[m + 1][i + 1] = R[m][(i + 1) + 1]
    BY <2>1, <2>2, ShiftFacts
  <2>4. R[m + 1][i + 1] = R[(m + 1) + i][1]
    <3>1. m + 1 \in Nat /\ (m + 1) + i <= N /\ i <= 7
      BY <1>1
    <3> QED BY <3>1
  <2>5. (m + 1) + i = m + (i + 1)
    OBVIOUS
  <2> QED BY <2>3, <2>4, <2>5
<1>5. T = Nat
  <2>1. T \in SUBSET Nat
    OBVIOUS
  <2> HIDE DEF T
  <2> QED BY <1>3, <1>4, <2>1, SetInduction
<1>6. j \in T /\ j <= 7
  <2>1. j \in Nat /\ j <= 7
    OBVIOUS
  <2> HIDE DEF T
  <2> QED BY <1>5, <2>1
<1> QED BY <1>6 DEF R, N

\* The body of Prbs, and of what the register puts out
NextBit(g, i) ==
  IF i <= 8 THEN d_SEED[i] ELSE Cardinality({k \in 1 .. 8 : d_POLY[k] = 1 /\ g[i - 9 + k] = 1}) % 2

LEMMA FirstBits ==
  ASSUME NEW n \in Nat, NEW g, NEW i \in 1 .. 8 * n,
         \A m \in 1 .. i - 1 : g[m] = Registers(d_SEED, n)[m - 1][1]
  PROVE  Registers(d_SEED, n)[i - 1][1] = NextBit(g, i)
<1> DEFINE R == Registers(d_SEED, n)
           N == 8 * n
<1>1. N \in Nat /\ d_SEED \in Byte /\ i \in 1 .. N
  BY BlocksAssumption
<1>2. /\ R[0] = d_SEED
      /\ \A m \in 1 .. N : R[m] = Shift[R[m - 1]]
      /\ \A m \in 0 .. N : R[m] \in Byte
  BY <1>1, RegisterSteps
<1>3. \A j \in 0 .. 7 : \A k \in Nat : k + j <= N => R[k][j + 1] = R[k + j][1]
  BY <1>1, RegisterDiagonal
<1>4. \A m \in 1 .. i - 1 : g[m] = R[m - 1][1]
  OBVIOUS
<1> HIDE DEF R, N
<1>5. CASE i <= 8
  <2>1. i - 1 \in 0 .. 7 /\ 0 \in Nat /\ 0 + (i - 1) <= N /\ (i - 1) + 1 = i /\ 0 + (i - 1) = i - 1
    BY <1>1, <1>5
  <2>2. R[0][i] = R[i - 1][1]
    BY <1>3, <2>1
  <2> QED BY <1>2, <1>5, <2>2 DEF NextBit, R
<1>6. CASE i > 8
  <2> DEFINE p == i - 9
             S == {k \in 1 .. 8 : R[p][k] = 1 /\ d_POLY[k] = 1}
             U == {k \in 1 .. 8 : d_POLY[k] = 1 /\ g[i - 9 + k] = 1}
  <2>1. p \in Nat /\ p + 1 \in 1 .. N /\ p \in 0 .. N /\ (p + 1) - 1 = p /\ p + 8 = i - 1
    BY <1>1, <1>6
  <2>2. R[p + 1][8] = InputBit(R[p])
    <3>1. R[p + 1] = Shift[R[p]] /\ R[p] \in Byte
      BY <1>2, <2>1
    <3> QED BY <3>1, ShiftFacts
  <2>3. R[p + 1][8] = R[i - 1][1]
    <3>1. 7 \in 0 .. 7 /\ p + 1 \in Nat /\ (p + 1) + 7 <= N /\ 7 + 1 = 8 /\ (p + 1) + 7 = i - 1
      BY <1>1, <2>1
    <3> HIDE DEF p
    <3> QED BY <1>3, <3>1
  <2>4. ASSUME NEW k \in 1 .. 8
        PROVE  g[i - 9 + k] = R[p][k]
    <3>1. k - 1 \in 0 .. 7 /\ p + (k - 1) <= N /\ (k - 1) + 1 = k
      BY <1>1, <2>1
    <3>2. R[p][k] = R[p + (k - 1)][1]
      BY <1>3, <2>1, <3>1
    <3>3. i - 9 + k \in 1 .. i - 1 /\ (i - 9 + k) - 1 = p + (k - 1)
      BY <2>1
    <3>4. g[i - 9 + k] = R[(i - 9 + k) - 1][1]
      BY <1>4, <3>3
    <3> QED BY <3>2, <3>3, <3>4
  <2>5. S = U
    <3> HIDE DEF p
    <3> QED BY <2>4
  <2>6. InputBit(R[p]) = Cardinality(S) % 2
    BY DEF InputBit
  <2>7. ~(i <= 8)
    BY <1>6
  <2>8. NextBit(g, i) = Cardinality(U) % 2
    BY <2>7 DEF NextBit
  <2> HIDE DEF S, U, p
  <2> QED BY <2>2, <2>3, <2>5, <2>6, <2>8 DEF R
<1> QED BY <1>1, <1>5, <1>6

Longest == Max({SINK_LEN[b] : b \in Sinks})

LEMMA LongestSink ==
  ASSUME NEW b \in Sinks
  PROVE  Longest \in Nat /\ SINK_LEN[b] <= Longest
<1> DEFINE S == {SINK_LEN[c] : c \in Sinks}
           p == SINK_LEN["soft_sink"]
           q == SINK_LEN["blob_sink"]
<1>1. /\ \A c \in Sinks : SINK_LEN[c] \in Nat
      /\ \A c \in Sinks : c = "soft_sink" \/ c = "blob_sink"
  BY PathAssumption DEF Sinks
<1>2. \E x \in S : \A y \in S : x >= y
  <2>1. \A y \in S : y \in Nat
    BY <1>1
  <2>2. \A y \in S : y = p \/ y = q
    BY <1>1
  <2>3. SINK_LEN[b] \in S
    OBVIOUS
  <2>4. ASSUME NEW y \in S, NEW z \in S
        PROVE  y >= z \/ z >= y
    BY <2>1
  <2>5. \A y \in S : y >= y
    BY <2>1
  <2> HIDE DEF S, p, q
  <2> QED BY <2>2, <2>3, <2>4, <2>5
<1>3. Longest \in S /\ \A y \in S : Longest >= y
  <2>1. Longest = CHOOSE x \in S : \A y \in S : x >= y
    BY DEF Longest, Max
  <2> HIDE DEF S
  <2> QED BY <1>2, <2>1
<1>4. SINK_LEN[b] \in S
  OBVIOUS
<1>5. Longest \in Nat
  BY <1>1, <1>3
<1>6. Longest >= SINK_LEN[b]
  BY <1>3, <1>4
<1> QED BY <1>1, <1>5, <1>6

\* The function that Prbs chooses
IsPrbs(g)  == g = [i \in 1 .. Longest |-> NextBit(g, i)]
PrbsChosen == CHOOSE g : IsPrbs(g)

LEMMA PrbsIsChosen == Prbs = PrbsChosen
BY DEF Prbs, PrbsChosen, IsPrbs, NextBit, Longest

\* It is there: it is what the register puts out.
LEMMA PrbsSteps ==
  ASSUME NEW b \in Sinks
  PROVE  \A i \in 1 .. Longest : Prbs[i] = NextBit(Prbs, i)
<1> DEFINE R == Registers(d_SEED, Longest)
           g == [i \in 1 .. Longest |-> R[i - 1][1]]
<1>1. Longest \in Nat
  BY LongestSink
<1>2. g = [i \in 1 .. Longest |-> g[i]] /\ \A i \in 1 .. Longest : g[i] = R[i - 1][1]
  OBVIOUS
<1> HIDE DEF g, R
<1>3. ASSUME NEW i \in 1 .. Longest
      PROVE  g[i] = NextBit(g, i)
  <2>1. i \in 1 .. 8 * Longest
    BY <1>1
  <2>2. \A m \in 1 .. i - 1 : g[m] = R[m - 1][1]
    BY <1>1, <1>2
  <2>3. R[i - 1][1] = NextBit(g, i)
    BY <1>1, <2>1, <2>2, FirstBits DEF R
  <2> QED BY <1>2, <2>3
<1>4. IsPrbs(g)
  BY <1>2, <1>3 DEF IsPrbs
<1>5. IsPrbs(Prbs)
  BY <1>4, PrbsIsChosen DEF PrbsChosen
<1> QED BY <1>5 DEF IsPrbs

LEMMA PrbsBits ==
  ASSUME NEW b \in Sinks, NEW n \in Nat, NEW i \in 1 .. 8 * n, i <= SINK_LEN[b]
  PROVE  Registers(d_SEED, n)[i - 1][1] = Prbs[i]
<1> DEFINE R == Registers(d_SEED, n)
           N == 8 * n
           T == {m \in Nat : \A j \in 1 .. m : j <= N /\ j <= Longest => Prbs[j] = R[j - 1][1]}
<1>1. N \in Nat /\ Longest \in Nat /\ i <= Longest /\ i \in 1 .. N
  BY LongestSink, PathAssumption
<1>2. 0 \in T
  OBVIOUS
<1>3. ASSUME NEW m \in T
      PROVE  m + 1 \in T
  <2> SUFFICES ASSUME m + 1 <= N, m + 1 <= Longest PROVE Prbs[m + 1] = R[m][1]
    <3> HIDE DEF R, N
    <3>1. \A j \in 1 .. m + 1 : j \in 1 .. m \/ (j = m + 1 /\ j - 1 = m)
      OBVIOUS
    <3> QED BY <3>1
  <2>1. m + 1 \in 1 .. Longest /\ m + 1 \in 1 .. N /\ (m + 1) - 1 = m
    BY <1>1
  <2>2. \A j \in 1 .. (m + 1) - 1 : Prbs[j] = R[j - 1][1]
    <3> HIDE DEF R, N
    <3>1. \A j \in 1 .. (m + 1) - 1 : j \in 1 .. m /\ j <= N /\ j <= Longest
      BY <1>1
    <3> QED BY <3>1
  <2>3. R[(m + 1) - 1][1] = NextBit(Prbs, m + 1)
    BY <2>1, <2>2, FirstBits
  <2>4. Prbs[m + 1] = NextBit(Prbs, m + 1)
    BY <2>1, PrbsSteps
  <2> HIDE DEF R
  <2> QED BY <2>1, <2>3, <2>4
<1>4. T = Nat
  <2>1. T \in SUBSET Nat
    OBVIOUS
  <2> HIDE DEF T
  <2> QED BY <1>2, <1>3, <2>1, SetInduction
<1>5. i \in T
  <2>1. i \in Nat
    BY <1>1
  <2> HIDE DEF T
  <2> QED BY <1>4, <2>1
<1> HIDE DEF R, N
<1> QED BY <1>1, <1>5 DEF R
-----------------------------------------------------------------------------
(* What each block of the two paths makes of frame f of the input *)

(* The blocks fit each other, and the input of blob_sink is bits. *)
LengthsFit ==
  /\ BlocksFit
  /\ "blob_sink" \in Blocks => \A n \in Nat \ {0} : Item("blob_sink", n) \in {0, 1}

InputFrame(b, f) == Message(SINK_TYPE[b], "empty", [i \in 1 .. SINK_LEN[b] |-> InputAt(b, f, i)])
Derandomised(f) == Converted("derandomise", InputFrame("soft_sink", f))
Trimmed(f)      == Converted("trunk", Derandomised(f))
Hardened(f)     == Message("blob", Trimmed(f).hdr, SoftToHard(Trimmed(f).data))
Reversed(f)     == Converted("reverse", InputFrame("blob_sink", f))
Whitened(f)     == Converted("randomise", Reversed(f))
Marked(f)       == Converted("add_asm", Whitened(f))

LEMMA NewData ==
  ASSUME NEW t, NEW h, NEW d, NEW e
  PROVE  [Message(t, h, d) EXCEPT !.data = e] = Message(t, h, e)
BY DEF Message

\* A message whose data are given bit by bit
LEMMA DataFacts ==
  ASSUME NEW t, NEW n \in Nat, NEW d, d = [i \in 1 .. n |-> d[i]]
  PROVE  /\ Message(t, "empty", d).type = t /\ Message(t, "empty", d).hdr = "empty"
         /\ Message(t, "empty", d).data = d /\ Len(d) = n /\ IsSeq(d)
         /\ (t # "eof" => Message(t, "empty", d) # EOF)
BY MessageFields, FcnIsSeq

LEMMA SoftInput ==
  ASSUME LengthsFit, "soft_sink" \in Blocks, NEW f
  PROVE  /\ d_FRAME_LEN \in Nat /\ "soft_sink" \in Sinks /\ SINK_LEN["soft_sink"] = d_FRAME_LEN
         /\ InputFrame("soft_sink", f) =
              Message("soft", "empty", [i \in 1 .. d_FRAME_LEN |-> InputAt("soft_sink", f, i)])
BY BlocksAssumption DEF LengthsFit, BlocksFit, Sinks, InputFrame

SoftBit(f, i) ==
  IF Prbs[i] = 1 THEN -InputAt("soft_sink", f, i) ELSE InputAt("soft_sink", f, i)

LEMMA SoftDerandomised ==
  ASSUME LengthsFit, "soft_sink" \in Blocks, "derandomise" \in Blocks, NEW f
  PROVE  Derandomised(f) = Message("soft", "empty", [i \in 1 .. d_FRAME_LEN |-> SoftBit(f, i)])
<1> DEFINE L == d_FRAME_LEN
           d == [i \in 1 .. L |-> InputAt("soft_sink", f, i)]
           m == Message("soft", "empty", d)
           n == divide_ceil(L, 8)
           R == Registers(d_SEED, n)
           e == [i \in 1 .. L |-> IF R[i - 1][1] = 1 THEN -d[i] ELSE d[i]]
           g == [i \in 1 .. L |-> SoftBit(f, i)]
<1>1. L \in Nat /\ "soft_sink" \in Sinks /\ SINK_LEN["soft_sink"] = L
      /\ InputFrame("soft_sink", f) = m
  BY SoftInput
<1>2. d = [i \in 1 .. L |-> d[i]] /\ \A i \in 1 .. L : d[i] = InputAt("soft_sink", f, i)
  OBVIOUS
<1>3. Len(d) = L /\ m.data = d
  <2> HIDE DEF d, L
  <2> QED BY <1>1, <1>2, DataFacts
<1>4. Randomised("derandomise", m).data = e
  <2>1. Randomised("derandomise", m) = RandomiseSoft(d_SEED, d)
    <3> HIDE DEF d, L
    <3> QED BY <1>3 DEF Randomised, Register
  <2>2. RandomiseSoft(d_SEED, d).data =
          [i \in 1 .. Len(d) |-> IF Registers(d_SEED, divide_ceil(Len(d), 8))[i - 1][1] = 1
                                 THEN -d[i] ELSE d[i]]
    <3> HIDE DEF d, L
    <3> QED BY DEF RandomiseSoft
  <2> HIDE DEF d, L
  <2> QED BY <1>3, <2>1, <2>2
<1>5. Derandomised(f) = [m EXCEPT !.data = e]
  <2>1. "derandomise" \in Randomisers
    BY DEF Randomisers
  <2>2. Converted("derandomise", m) = [m EXCEPT !.data = Randomised("derandomise", m).data]
    <3> HIDE DEF m
    <3> QED BY <2>1 DEF Converted
  <2> HIDE DEF m, e
  <2> QED BY <1>1, <1>4, <2>2 DEF Derandomised
<1>6. ASSUME NEW i \in 1 .. L
      PROVE  R[i - 1][1] = Prbs[i]
  <2>1. n \in Nat /\ L <= 8 * n
    <3> HIDE DEF L
    <3> QED BY <1>1 DEF divide_ceil
  <2>2. i \in 1 .. 8 * n /\ i <= SINK_LEN["soft_sink"]
    <3> HIDE DEF n, L
    <3> QED BY <1>1, <2>1
  <2> HIDE DEF n, L
  <2> QED BY <1>1, <2>1, <2>2, PrbsBits
<1>7. e = g
  <2> HIDE DEF d, R, L
  <2> QED BY <1>2, <1>6 DEF SoftBit
<1>8. [m EXCEPT !.data = e] = Message("soft", "empty", e)
  <2> HIDE DEF d, e
  <2> QED BY NewData
<1> HIDE DEF m, e, d
<1> QED BY <1>5, <1>7, <1>8

TrimmedBit(f, i) == IF i <= TrunkRead THEN SoftBit(f, i) ELSE 0

LEMMA SoftTrimmed ==
  ASSUME LengthsFit, "soft_sink" \in Blocks, "derandomise" \in Blocks, "trunk" \in Blocks, NEW f
  PROVE  /\ d_FRAME_LEN - d_TRUNK_LEN \in Nat
         /\ Trimmed(f) = Message("soft", "empty",
                                 [i \in 1 .. d_FRAME_LEN - d_TRUNK_LEN |-> TrimmedBit(f, i)])
<1> DEFINE L == d_FRAME_LEN
           n == d_FRAME_LEN - d_TRUNK_LEN
           d == [i \in 1 .. L |-> SoftBit(f, i)]
           m == Message("soft", "empty", d)
           e == [i \in 1 .. n |-> IF i <= TrunkRead THEN d[i] ELSE 0]
           g == [i \in 1 .. n |-> TrimmedBit(f, i)]
<1>1. L \in Nat /\ n \in Nat /\ n <= L
  BY BlocksAssumption
<1>2. d = [i \in 1 .. L |-> d[i]] /\ \A i \in 1 .. L : d[i] = SoftBit(f, i)
  OBVIOUS
<1>3. Derandomised(f) = m
  BY SoftDerandomised
<1>4. m.data = d
  <2> HIDE DEF d, L
  <2> QED BY <1>1, <1>2, DataFacts
<1>5. Trimmed(f) = [m EXCEPT !.data = TrunkTail(m.data)]
  <2> HIDE DEF m
  <2> QED BY <1>3 DEF Trimmed, Converted, Randomisers
<1>6. TrunkTail(d) = e
  <2> HIDE DEF d
  <2> QED BY DEF TrunkTail
<1>7. e = g
  <2>1. \A i \in 1 .. n : i \in 1 .. L
    BY <1>1
  <2> HIDE DEF d, L
  <2> QED BY <1>2, <2>1 DEF TrimmedBit
<1>8. [m EXCEPT !.data = e] = Message("soft", "empty", e)
  <2> HIDE DEF d, e
  <2> QED BY NewData
<1> HIDE DEF m, e, d
<1> QED BY <1>1, <1>4, <1>5, <1>6, <1>7, <1>8

LEMMA SoftHardened ==
  ASSUME LengthsFit, "soft_sink" \in Blocks, "derandomise" \in Blocks, "trunk" \in Blocks,
         "harden" \in Blocks, NEW f
  PROVE  Hardened(f) = Message("blob", "empty", FrameOf("harden", f))
<1> DEFINE n == d_FRAME_LEN - d_TRUNK_LEN
           d == [i \in 1 .. n |-> TrimmedBit(f, i)]
           e == [i \in 1 .. n |-> hard_decision(d[i])]
           g == [i \in 1 .. n |-> HardAt(f, i)]
<1>1. n \in Nat /\ Trimmed(f) = Message("soft", "empty", d)
  BY SoftTrimmed
<1>2. d = [i \in 1 .. n |-> d[i]] /\ \A i \in 1 .. n : d[i] = TrimmedBit(f, i)
  OBVIOUS
<1>3. Trimmed(f).hdr = "empty" /\ Trimmed(f).data = d /\ Len(d) = n
  <2> HIDE DEF d, n
  <2> QED BY <1>1, <1>2, DataFacts
<1>4. SoftToHard(d) = e
  <2> HIDE DEF d, n
  <2> QED BY <1>3 DEF SoftToHard
<1>5. ASSUME NEW i \in 1 .. n
      PROVE  hard_decision(TrimmedBit(f, i)) = HardAt(f, i)
  <2> DEFINE k == TrunkRead
  <2>1. k \in Nat /\ i \in Nat
    BY BlocksAssumption DEF TrunkRead
  <2>2. CASE i <= k
    <3>1. ~(i > k)
      <4> HIDE DEF k
      <4> QED BY <2>1, <2>2
    <3> QED BY <2>2, <3>1 DEF TrimmedBit, SoftBit, HardAt
  <2>3. CASE ~(i <= k)
    <3>1. i > k
      <4> HIDE DEF k
      <4> QED BY <2>1, <2>3
    <3>2. hard_decision(0) = 1
      BY DEF hard_decision
    <3> QED BY <2>3, <3>1, <3>2 DEF TrimmedBit, HardAt
  <2> QED BY <2>2, <2>3
<1>6. e = g
  <2> HIDE DEF d, n
  <2> QED BY <1>2, <1>5
<1>7. FrameOf("harden", f) = g
  BY DEF FrameOf
<1> HIDE DEF d, e, g
<1> QED BY <1>3, <1>4, <1>6, <1>7 DEF Hardened

LEMMA ByteLengths ==
  ASSUME LengthsFit, "blob_sink" \in Blocks
  PROVE  d_MSG_LEN \in Nat /\ 8 * d_MSG_LEN \in Nat /\ "blob_sink" \in Sinks
         /\ SINK_LEN["blob_sink"] = 8 * d_MSG_LEN
BY BlocksAssumption DEF LengthsFit, BlocksFit, Sinks

LEMMA ByteInput ==
  ASSUME LengthsFit, "blob_sink" \in Blocks, NEW f
  PROVE  InputFrame("blob_sink", f) =
           Message("blob", "empty", [i \in 1 .. 8 * d_MSG_LEN |-> InputAt("blob_sink", f, i)])
BY DEF LengthsFit, BlocksFit, InputFrame

\* The byte of a bit is mirrored in its place.
LEMMA MirrorInByte ==
  ASSUME NEW n \in Nat, NEW i \in 1 .. 8 * n
  PROVE  Mirror(i) \in 1 .. 8 * n
<1> DEFINE q == (i - 1) \div 8
           r == (i - 1) % 8
<1>1. q \in Nat /\ r \in 0 .. 7 /\ i - 1 = 8 * q + r
  OBVIOUS
<1> HIDE DEF q, r
<1>2. q < n
  BY <1>1
<1>3. 8 * q + 8 - r \in 1 .. 8 * n
  BY <1>1, <1>2
<1> QED BY <1>3 DEF Mirror, q, r

From(i) == IF (i - 1) \div 8 \in ToSet(d_POSITIONS) THEN Mirror(i) ELSE i

LEMMA BytesReversed ==
  ASSUME LengthsFit, "blob_sink" \in Blocks, "reverse" \in Blocks, NEW f
  PROVE  Reversed(f) =
           Message("blob", "empty", [i \in 1 .. 8 * d_MSG_LEN |-> InputAt("blob_sink", f, From(i))])
<1> DEFINE L == 8 * d_MSG_LEN
           d == [i \in 1 .. L |-> InputAt("blob_sink", f, i)]
           m == Message("blob", "empty", d)
           g == [i \in 1 .. L |-> InputAt("blob_sink", f, From(i))]
<1>1. d_MSG_LEN \in Nat /\ L \in Nat /\ InputFrame("blob_sink", f) = m
  BY ByteInput, ByteLengths
<1>2. d = [i \in 1 .. L |-> d[i]] /\ \A i \in 1 .. L : d[i] = InputAt("blob_sink", f, i)
  OBVIOUS
<1>3. m.data = d /\ Len(d) = L
  <2> HIDE DEF d, L
  <2> QED BY <1>1, <1>2, DataFacts
<1>4. Reversed(f) = [m EXCEPT !.data = ReverseBits(m.data)]
  <2> HIDE DEF m
  <2> QED BY <1>1 DEF Reversed, Converted, Randomisers
<1>5. ReverseBits(d) =
        [i \in 1 .. L |-> IF \E p \in 1 .. Len(d_POSITIONS) : d_POSITIONS[p] = (i - 1) \div 8
                          THEN d[Mirror(i)] ELSE d[i]]
  <2> HIDE DEF d, L
  <2> QED BY <1>3 DEF ReverseBits
<1>6. ASSUME NEW i \in 1 .. L
      PROVE  (IF \E p \in 1 .. Len(d_POSITIONS) : d_POSITIONS[p] = (i - 1) \div 8
              THEN d[Mirror(i)] ELSE d[i]) = InputAt("blob_sink", f, From(i))
  <2>1. Mirror(i) \in 1 .. L
    BY <1>1, MirrorInByte
  <2>2. (\E p \in 1 .. Len(d_POSITIONS) : d_POSITIONS[p] = (i - 1) \div 8)
          <=> (i - 1) \div 8 \in ToSet(d_POSITIONS)
    <3>1. DOMAIN d_POSITIONS = 1 .. Len(d_POSITIONS)
      BY BlocksAssumption
    <3> QED BY <3>1 DEF ToSet
  <2> HIDE DEF d, L
  <2> QED BY <1>2, <2>1, <2>2 DEF From
<1>7. ReverseBits(d) = g
  <2> HIDE DEF d, L
  <2> QED BY <1>5, <1>6
<1>8. [m EXCEPT !.data = g] = Message("blob", "empty", g)
  <2> HIDE DEF d, g
  <2> QED BY NewData
<1> HIDE DEF m, d, g
<1> QED BY <1>3, <1>4, <1>7, <1>8 DEF g

LEMMA FromInFrame ==
  ASSUME LengthsFit, "blob_sink" \in Blocks, NEW f \in Nat \ {0}, NEW i \in 1 .. 8 * d_MSG_LEN
  PROVE  InputAt("blob_sink", f, From(i)) \in {0, 1}
<1> DEFINE L == 8 * d_MSG_LEN
           n == (f - 1) * L + From(i)
<1>1. d_MSG_LEN \in Nat /\ L \in Nat /\ SINK_LEN["blob_sink"] = L
  BY ByteLengths
<1>2. From(i) \in 1 .. L
  BY <1>1, MirrorInByte DEF From
<1>3. (f - 1) * L \in Nat
  <2> HIDE DEF L
  <2> QED BY <1>1
<1>4. n \in Nat \ {0}
  <2> DEFINE x == (f - 1) * L
  <2>1. x \in Nat
    BY <1>3
  <2> HIDE DEF x, L
  <2>2. x + From(i) \in Nat \ {0}
    BY <1>1, <1>2, <2>1
  <2> QED BY <2>2 DEF x
<1>5. Item("blob_sink", n) \in {0, 1}
  <2> HIDE DEF n
  <2> QED BY <1>4 DEF LengthsFit, BlocksFit
<1>6. InputAt("blob_sink", f, From(i)) = Item("blob_sink", n)
  <2> HIDE DEF L
  <2>1. SINK_LEN["blob_sink"] = L
    BY <1>1
  <2> QED BY <2>1 DEF InputAt
<1> QED BY <1>5, <1>6

LEMMA BytesWhitened ==
  ASSUME LengthsFit, "blob_sink" \in Blocks, "reverse" \in Blocks, "randomise" \in Blocks,
         NEW f \in Nat \ {0}
  PROVE  Whitened(f) = Message("blob", "empty", [i \in 1 .. 8 * d_MSG_LEN |-> SentAt(f, i)])
<1> DEFINE L == 8 * d_MSG_LEN
           d == [i \in 1 .. L |-> InputAt("blob_sink", f, From(i))]
           m == Message("blob", "empty", d)
           R == Registers(d_SEED, d_MSG_LEN)
           e == [i \in 1 .. L |-> xor(d[i], R[i - 1][1])]
           g == [i \in 1 .. L |-> SentAt(f, i)]
<1>1. d_MSG_LEN \in Nat /\ L \in Nat /\ "blob_sink" \in Sinks /\ SINK_LEN["blob_sink"] = L
  BY ByteLengths
<1>2. d = [i \in 1 .. L |-> d[i]] /\ \A i \in 1 .. L : d[i] = InputAt("blob_sink", f, From(i))
  OBVIOUS
<1>3. m.data = d /\ Len(d) = L
  <2> HIDE DEF d, L
  <2> QED BY <1>1, <1>2, DataFacts
<1>4. Bytes(d) = d_MSG_LEN
  <2>1. (8 * d_MSG_LEN) \div 8 = d_MSG_LEN
    BY <1>1
  <2> HIDE DEF d
  <2> QED BY <1>3, <2>1 DEF Bytes
<1>5. Reversed(f) = m
  BY BytesReversed
<1>6. Randomised("randomise", m).data = e
  <2>1. Randomised("randomise", m) = Randomise(d_SEED, d)
    <3> HIDE DEF d, L
    <3> QED BY <1>3 DEF Randomised, Register
  <2>2. Randomise(d_SEED, d).data =
          [i \in 1 .. Len(d) |-> xor(d[i], Registers(d_SEED, Bytes(d))[i - 1][1])]
    <3> HIDE DEF d, L
    <3> QED BY DEF Randomise
  <2> HIDE DEF d, L
  <2> QED BY <1>3, <1>4, <2>1, <2>2
<1>7. Whitened(f) = [m EXCEPT !.data = e]
  <2>1. "randomise" \in Randomisers
    BY DEF Randomisers
  <2>2. Converted("randomise", m) = [m EXCEPT !.data = Randomised("randomise", m).data]
    <3> HIDE DEF m
    <3> QED BY <2>1 DEF Converted
  <2> HIDE DEF m, e
  <2> QED BY <1>5, <1>6, <2>2 DEF Whitened
<1>8. ASSUME NEW i \in 1 .. L
      PROVE  xor(InputAt("blob_sink", f, From(i)), R[i - 1][1]) = SentAt(f, i)
  <2> DEFINE x == InputAt("blob_sink", f, From(i))
             y == R[i - 1][1]
  <2>1. x \in {0, 1}
    BY FromInFrame
  <2>2. i \in 1 .. 8 * d_MSG_LEN /\ i <= SINK_LEN["blob_sink"]
    <3> HIDE DEF R
    <3> QED BY <1>1
  <2>3. y = Prbs[i]
    BY <1>1, <2>2, PrbsBits
  <2>4. y \in {0, 1}
    <3>1. d_SEED \in Byte
      BY BlocksAssumption
    <3>2. i - 1 \in 0 .. 8 * d_MSG_LEN
      BY <1>1
    <3>3. R[i - 1] \in Byte
      BY <1>1, <3>1, <3>2, RegisterSteps
    <3> HIDE DEF R
    <3> QED BY <3>3 DEF Byte
  <2>5. SentAt(f, i) = (x + Prbs[i]) % 2
    BY DEF SentAt, From
  <2> HIDE DEF x, y
  <2>6. xor(x, y) = (x + y) % 2
    BY <2>1, <2>4 DEF xor
  <2> QED BY <2>3, <2>5, <2>6 DEF x, y
<1>9. e = g
  <2> HIDE DEF d, R, L
  <2> QED BY <1>2, <1>8
<1>10. [m EXCEPT !.data = e] = Message("blob", "empty", e)
  <2> HIDE DEF d, e
  <2> QED BY NewData
<1> HIDE DEF m, e, d
<1> QED BY <1>7, <1>9, <1>10

LEMMA BytesMarked ==
  ASSUME LengthsFit, "blob_sink" \in Blocks, "reverse" \in Blocks, "randomise" \in Blocks,
         "add_asm" \in Blocks, NEW f \in Nat \ {0}
  PROVE  Marked(f) = Message("blob", "empty", FrameOf("add_asm", f))
<1> DEFINE d == [i \in 1 .. 8 * d_MSG_LEN |-> SentAt(f, i)]
           m == Message("blob", "empty", d)
<1>1. d_MSG_LEN \in Nat /\ SINK_LEN["blob_sink"] = 8 * d_MSG_LEN
  BY ByteLengths
<1>2. Whitened(f) = m
  BY BytesWhitened
<1>3. m.data = d
  BY MessageFields
<1> DEFINE k == 8 * ASM_FRAME_LEN
           g == SubSeq(d, 1, k)
           h == [i \in 1 .. k |-> SentAt(f, i)]
<1>4. Marked(f) = [m EXCEPT !.data = d_ASM \o g]
  <2> HIDE DEF m, d
  <2> QED BY <1>2, <1>3 DEF Marked, Converted, Randomisers, AddAsm
<1>5. [m EXCEPT !.data = d_ASM \o g] = Message("blob", "empty", d_ASM \o g)
  <2> DEFINE e == d_ASM \o g
  <2> HIDE DEF d, e
  <2>1. [m EXCEPT !.data = e] = Message("blob", "empty", e)
    BY NewData
  <2> QED BY <2>1 DEF e
<1>6. g = h
  <2>1. k \in Nat /\ \A i \in 1 .. k : i \in 1 .. 8 * d_MSG_LEN
    BY <1>1, BlocksAssumption DEF LengthsFit, BlocksFit
  <2>2. \A i \in 1 .. k : d[i] = SentAt(f, i)
    BY <2>1
  <2>3. h = [i \in 1 .. k |-> h[i]] /\ \A i \in 1 .. k : h[i] = SentAt(f, i)
    OBVIOUS
  <2> HIDE DEF d, k, h
  <2>4. IsSeq(h) /\ Len(h) = k
    BY <2>1, <2>3, FcnIsSeq
  <2>5. k \in Nat
    BY <2>1
  <2>6. IsSeq(g) /\ Len(g) = k /\ \A i \in 1 .. k : g[i] = d[i]
    BY <2>5, FirstOf
  <2> HIDE DEF g
  <2> QED BY <2>2, <2>3, <2>4, <2>6, SeqEquality
<1>7. FrameOf("add_asm", f) = d_ASM \o h
  BY DEF FrameOf
<1> HIDE DEF m, d, g, h
<1> QED BY <1>4, <1>5, <1>6, <1>7
-----------------------------------------------------------------------------
(* Frame f as each block of the two paths sends it, and the order in which   *)
(* frames are handed on.                                                    *)

Stages == Sinks \cup Behind

FrameAt(c, f) ==
  CASE c \in Sinks       -> InputFrame(c, f)
    [] c = "derandomise" -> Derandomised(f)
    [] c = "trunk"       -> Trimmed(f)
    [] c = "harden"      -> Hardened(f)
    [] c = "reverse"     -> Reversed(f)
    [] c = "randomise"   -> Whitened(f)
    [] c = "add_asm"     -> Marked(f)

LEMMA PrevFacts ==
  ASSUME StandardPath, NEW c \in Behind
  PROVE  /\ c \in Blocks /\ PrevBlock[c] \in Blocks /\ PrevBlock[c] # c
         /\ \A a \in Blocks : c \in Subscribers[a] <=> a = PrevBlock[c]
         /\ c \notin Sinks /\ c \notin Sources
         /\ c \in Converters \/ c = "harden"
<1>1. {a \in Blocks : c \in Subscribers[a]} = {PrevBlock[c]} /\ c \in Blocks
  BY DEF StandardPath, Behind
<1>2. PrevBlock[c] \in Blocks /\ \A a \in Blocks : c \in Subscribers[a] <=> a = PrevBlock[c]
  BY <1>1
<1>3. c \in {"derandomise", "trunk", "harden", "reverse", "randomise", "add_asm"}
  BY DEF Behind, PrevBlock
<1>4. PrevBlock[c] # c
  BY <1>3 DEF PrevBlock
<1>5. c \notin Sinks /\ c \notin Sources /\ (c \in Converters \/ c = "harden")
  BY <1>1, <1>3 DEF Sinks, Sources, Converters
<1> QED BY <1>1, <1>2, <1>4, <1>5

\* What comes before a block is there.
LEMMA SoftPath ==
  ASSUME StandardPath
  PROVE  /\ "derandomise" \in Blocks => "soft_sink" \in Blocks
         /\ "trunk" \in Blocks => "derandomise" \in Blocks
         /\ "harden" \in Blocks => "trunk" \in Blocks
         /\ "reverse" \in Blocks => "blob_sink" \in Blocks
         /\ "randomise" \in Blocks => "reverse" \in Blocks
         /\ "add_asm" \in Blocks => "randomise" \in Blocks
<1>1. ASSUME NEW c \in {"derandomise", "trunk", "harden", "reverse", "randomise", "add_asm"},
             c \in Blocks
      PROVE  PrevBlock[c] \in Blocks
  <2>1. c \in Behind
    BY <1>1 DEF Behind, PrevBlock
  <2> QED BY <2>1, PrevFacts
<1>2. /\ PrevBlock["derandomise"] = "soft_sink" /\ PrevBlock["trunk"] = "derandomise"
      /\ PrevBlock["harden"] = "trunk" /\ PrevBlock["reverse"] = "blob_sink"
      /\ PrevBlock["randomise"] = "reverse" /\ PrevBlock["add_asm"] = "randomise"
  BY DEF PrevBlock
<1> QED BY <1>1, <1>2

LEMMA NextFrame ==
  ASSUME StandardPath, LengthsFit, NEW c \in Behind, NEW f \in Nat \ {0}
  PROVE  /\ c \in Converters => /\ Accepts(c, FrameAt(PrevBlock[c], f))
                                /\ Converted(c, FrameAt(PrevBlock[c], f)) = FrameAt(c, f)
         /\ c = "harden" =>
              /\ FrameAt(PrevBlock[c], f).type = "soft"
              /\ Len(FrameAt(PrevBlock[c], f).data) % 8 = 0
              /\ Message("blob", FrameAt(PrevBlock[c], f).hdr,
                         SoftToHard(FrameAt(PrevBlock[c], f).data)) = FrameAt(c, f)
<1>1. c \in {"derandomise", "trunk", "harden", "reverse", "randomise", "add_asm"} /\ c \in Blocks
  BY DEF Behind, PrevBlock
<1>2. "harden" \notin Converters
  BY DEF Converters
<1>3. CASE c = "derandomise"
  <2>1. "soft_sink" \in Blocks /\ "soft_sink" \in Sinks
    BY <1>1, <1>3, SoftPath DEF Sinks
  <2>2. FrameAt("soft_sink", f) = InputFrame("soft_sink", f) /\ FrameAt(c, f) = Derandomised(f)
    BY <1>3, <2>1 DEF FrameAt, Sinks
  <2>3. InputFrame("soft_sink", f).type = "soft"
    <3>1. \E d : InputFrame("soft_sink", f) = Message("soft", "empty", d)
      BY <2>1, SoftInput
    <3> QED BY <3>1, MessageFields
  <2>4. Accepts(c, InputFrame("soft_sink", f))
    BY <1>3, <2>3 DEF Accepts
  <2>5. PrevBlock[c] = "soft_sink"
    BY <1>3 DEF PrevBlock
  <2> QED BY <1>2, <1>3, <2>2, <2>4, <2>5 DEF Derandomised
<1>4. CASE c = "trunk"
  <2>1. "soft_sink" \in Blocks /\ "derandomise" \in Blocks
    BY <1>1, <1>4, SoftPath
  <2>2. FrameAt("derandomise", f) = Derandomised(f) /\ FrameAt(c, f) = Trimmed(f)
    BY <1>4 DEF FrameAt, Sinks
  <2>3. Derandomised(f).type = "soft"
    <3>1. \E d : Derandomised(f) = Message("soft", "empty", d)
      BY <2>1, SoftDerandomised
    <3> QED BY <3>1, MessageFields
  <2>4. Accepts(c, Derandomised(f))
    BY <1>4, <2>3 DEF Accepts
  <2>5. PrevBlock[c] = "derandomise"
    BY <1>4 DEF PrevBlock
  <2> QED BY <1>2, <1>4, <2>2, <2>4, <2>5 DEF Trimmed
<1>5. CASE c = "harden"
  <2> DEFINE n == d_FRAME_LEN - d_TRUNK_LEN
             d == [i \in 1 .. n |-> TrimmedBit(f, i)]
  <2>1. "soft_sink" \in Blocks /\ "derandomise" \in Blocks /\ "trunk" \in Blocks
    BY <1>1, <1>5, SoftPath
  <2>2. FrameAt("trunk", f) = Trimmed(f) /\ FrameAt(c, f) = Hardened(f)
    BY <1>5 DEF FrameAt, Sinks
  <2>3. n \in Nat /\ Trimmed(f) = Message("soft", "empty", d)
    BY <2>1, SoftTrimmed
  <2>4. n % 8 = 0
    BY <2>1 DEF LengthsFit, BlocksFit
  <2>5. d = [i \in 1 .. n |-> d[i]]
    OBVIOUS
  <2>6. Len(Trimmed(f).data) = n /\ Trimmed(f).type = "soft"
    <3> HIDE DEF d, n
    <3> QED BY <2>3, <2>5, DataFacts, MessageFields
  <2>7. PrevBlock[c] = "trunk"
    BY <1>5 DEF PrevBlock
  <2> HIDE DEF d, n
  <2> QED BY <1>2, <1>5, <2>2, <2>4, <2>6, <2>7 DEF Hardened
<1>6. CASE c = "reverse"
  <2> DEFINE L == 8 * d_MSG_LEN
             d == [i \in 1 .. L |-> InputAt("blob_sink", f, i)]
  <2>1. "blob_sink" \in Blocks /\ "blob_sink" \in Sinks
    BY <1>1, <1>6, SoftPath DEF Sinks
  <2>2. FrameAt("blob_sink", f) = InputFrame("blob_sink", f) /\ FrameAt(c, f) = Reversed(f)
    BY <1>6, <2>1 DEF FrameAt, Sinks
  <2>3. InputFrame("blob_sink", f) = Message("blob", "empty", d)
    BY <2>1, ByteInput
  <2>4. L \in Nat /\ L \div 8 = d_MSG_LEN
    BY <2>1, ByteLengths
  <2>5. d = [i \in 1 .. L |-> d[i]]
    OBVIOUS
  <2>6. InputFrame("blob_sink", f).type = "blob" /\ Bytes(InputFrame("blob_sink", f).data) = d_MSG_LEN
    <3> HIDE DEF d, L
    <3>1. Len(d) = L
      BY <2>4, <2>5, DataFacts
    <3>2. InputFrame("blob_sink", f).type = "blob" /\ InputFrame("blob_sink", f).data = d
      BY <2>3, MessageFields
    <3> QED BY <2>4, <3>1, <3>2 DEF Bytes
  <2>7. Accepts(c, InputFrame("blob_sink", f))
    BY <1>6, <2>6 DEF Accepts
  <2>8. PrevBlock[c] = "blob_sink"
    BY <1>6 DEF PrevBlock
  <2> QED BY <1>2, <1>6, <2>2, <2>7, <2>8 DEF Reversed
<1>7. CASE c = "randomise"
  <2>1. "blob_sink" \in Blocks /\ "reverse" \in Blocks
    BY <1>1, <1>7, SoftPath
  <2>2. FrameAt("reverse", f) = Reversed(f) /\ FrameAt(c, f) = Whitened(f)
    BY <1>7 DEF FrameAt, Sinks
  <2>3. Reversed(f).type = "blob"
    <3>1. \E d : Reversed(f) = Message("blob", "empty", d)
      BY <2>1, BytesReversed
    <3> QED BY <3>1, MessageFields
  <2>4. Accepts(c, Reversed(f))
    BY <1>7, <2>3 DEF Accepts
  <2>5. PrevBlock[c] = "reverse"
    BY <1>7 DEF PrevBlock
  <2> QED BY <1>2, <1>7, <2>2, <2>4, <2>5 DEF Whitened
<1>8. CASE c = "add_asm"
  <2>1. "blob_sink" \in Blocks /\ "reverse" \in Blocks /\ "randomise" \in Blocks
    BY <1>1, <1>8, SoftPath
  <2>2. FrameAt("randomise", f) = Whitened(f) /\ FrameAt(c, f) = Marked(f)
    BY <1>8 DEF FrameAt, Sinks
  <2>3. Whitened(f).type = "blob"
    <3>1. \E d : Whitened(f) = Message("blob", "empty", d)
      BY <2>1, BytesWhitened
    <3> QED BY <3>1, MessageFields
  <2>4. Accepts(c, Whitened(f))
    BY <1>8, <2>3 DEF Accepts
  <2>5. PrevBlock[c] = "randomise"
    BY <1>8 DEF PrevBlock
  <2> QED BY <1>2, <1>8, <2>2, <2>4, <2>5 DEF Marked
<1> QED BY <1>1, <1>3, <1>4, <1>5, <1>6, <1>7, <1>8

Open(c) == running[c] /\ (c = "harden" => ~d_stop[c])
IsFrame(m, b, f) == m = EOF \/ m = FrameAt(b, f)

FramesSent ==
  \A b \in Stages : \A f \in 1 .. Len(published[b]) : IsFrame(published[b][f], b, f)

\* What waits at a block is what the block before it has sent and it has not
\* answered yet.
FramesQueued ==
  \A c \in Behind : Open(c) =>
    /\ Len(published[c]) + Len(queue[c]) = Len(published[PrevBlock[c]])
    /\ \A i \in 1 .. Len(queue[c]) : IsFrame(queue[c][i], PrevBlock[c], Len(published[c]) + i)

PortsInOrder == FramesSent /\ FramesQueued

LEMMA InOrderPublished ==
  ASSUME PathTypeOK, StandardPath, PortsInOrder,
         NEW b \in Blocks, NEW msgs, NEW handled, AreMessages(msgs), AreMessages(handled),
         Publish(b, msgs, handled),
         b \in Stages => \A i \in 1 .. Len(msgs) : IsFrame(msgs[i], b, Len(published[b]) + i),
         b \in Behind /\ Open(b)' =>
           /\ Len(published[b]) + Len(msgs) + Len(handled) = Len(published[PrevBlock[b]])
           /\ \A i \in 1 .. Len(handled) :
                IsFrame(handled[i], PrevBlock[b], Len(published[b]) + Len(msgs) + i),
         \A c \in Behind : Open(c)' => Open(c)
  PROVE  PortsInOrder'
<1>1. PortTypes
  BY DEF PathTypeOK, PortTypes
<1>2. /\ \A c \in Blocks : queue'[c] = IF Gets(b, c) THEN Left(b, c, handled) \o msgs
                                       ELSE Left(b, c, handled)
      /\ \A c \in Blocks : published'[c] = IF c = b THEN published[b] \o msgs ELSE published[c]
  BY <1>1, Published
<1>3. /\ IsSeq(msgs) /\ Len(msgs) \in Nat /\ IsSeq(handled) /\ Len(handled) \in Nat
      /\ \A c \in Blocks : /\ IsSeq(published[c]) /\ Len(published[c]) \in Nat
                           /\ IsSeq(queue[c]) /\ Len(queue[c]) \in Nat
  BY SeqFacts DEF PathTypeOK, AreMessages
<1>4. /\ Len(published[b] \o msgs) = Len(published[b]) + Len(msgs)
      /\ \A i \in 1 .. Len(published[b]) : (published[b] \o msgs)[i] = published[b][i]
      /\ \A i \in 1 .. Len(msgs) : (published[b] \o msgs)[Len(published[b]) + i] = msgs[i]
  BY <1>3, ConcatFacts
<1>5. Stages \subseteq Blocks
  BY DEF Stages, Sinks, Behind
<1>6. ASSUME NEW a \in Stages, NEW f \in 1 .. Len(published'[a])
      PROVE  IsFrame(published'[a][f], a, f)
  <2>1. CASE a # b
    <3>1. published'[a] = published[a]
      BY <1>2, <1>5, <2>1
    <3> QED BY <3>1 DEF PortsInOrder, FramesSent
  <2>2. CASE a = b
    <3> DEFINE n == Len(published[b])
    <3>1. published'[a] = published[b] \o msgs /\ f \in 1 .. n + Len(msgs)
      BY <1>2, <1>4, <2>2
    <3>2. CASE f <= n
      <4>1. f \in 1 .. n
        BY <3>2, <1>3
      <4> QED BY <1>4, <2>2, <3>1, <4>1 DEF PortsInOrder, FramesSent
    <3>3. CASE ~(f <= n)
      <4>1. f - n \in 1 .. Len(msgs) /\ n + (f - n) = f
        BY <1>3, <3>1, <3>3
      <4>2. (published[b] \o msgs)[n + (f - n)] = msgs[f - n]
        BY <1>4, <4>1
      <4>3. IsFrame(msgs[f - n], b, n + (f - n))
        BY <2>2, <4>1
      <4> HIDE DEF n
      <4> QED BY <2>2, <3>1, <4>1, <4>2, <4>3
    <3> QED BY <3>2, <3>3
  <2> QED BY <2>1, <2>2
<1>7. ASSUME NEW c \in Behind, Open(c)'
      PROVE  /\ Len(published'[c]) + Len(queue'[c]) = Len(published'[PrevBlock[c]])
             /\ \A i \in 1 .. Len(queue'[c]) :
                  IsFrame(queue'[c][i], PrevBlock[c], Len(published'[c]) + i)
  <2> DEFINE a == PrevBlock[c]
             n == Len(published[c])
             q == queue[c]
  <2>1. c \in Blocks /\ a \in Blocks /\ a # c /\ \A d \in Blocks : c \in Subscribers[d] <=> d = a
    BY PrevFacts
  <2>2. Open(c) /\ running[c]
    BY <1>7 DEF Open
  <2>3. n + Len(q) = Len(published[a]) /\ \A i \in 1 .. Len(q) : IsFrame(q[i], a, n + i)
    BY <2>2 DEF PortsInOrder, FramesQueued
  <2>4. n \in Nat /\ Len(q) \in Nat /\ IsSeq(q)
    BY <1>3, <2>1
  <2> HIDE DEF a
  <2>5. CASE b = a
    <3>1. Gets(b, c) /\ c # b
      BY <2>1, <2>2, <2>5 DEF Gets
    <3>2. queue'[c] = q \o msgs /\ published'[c] = published[c]
          /\ published'[a] = published[a] \o msgs
      BY <1>2, <2>1, <2>5, <3>1 DEF Left
    <3>3. Len(published'[a]) = Len(published[a]) + Len(msgs)
      BY <1>4, <2>5, <3>2
    <3>4. /\ Len(q \o msgs) = Len(q) + Len(msgs)
          /\ \A i \in 1 .. Len(q) + Len(msgs) : (q \o msgs)[i] = IF i <= Len(q) THEN q[i] ELSE msgs[i - Len(q)]
      BY <1>3, <2>4, ConcatFacts
    <3>5. a \in Stages
      <4>1. a \in {"soft_sink", "derandomise", "trunk", "blob_sink", "reverse", "randomise"}
        BY DEF a, PrevBlock, Behind
      <4> QED BY <2>1, <4>1 DEF Stages, Sinks, Behind, PrevBlock
    <3>6. \A i \in 1 .. Len(msgs) : IsFrame(msgs[i], a, n + Len(q) + i)
      BY <2>3, <2>5, <3>5
    <3> HIDE DEF n, q
    <3>7. ASSUME NEW i \in 1 .. Len(q) + Len(msgs)
          PROVE  IsFrame((q \o msgs)[i], a, n + i)
      <4>1. CASE i <= Len(q)
        <5>1. i \in 1 .. Len(q)
          BY <2>4, <4>1
        <5> QED BY <2>3, <3>4, <4>1, <5>1
      <4>2. CASE ~(i <= Len(q))
        <5>1. i - Len(q) \in 1 .. Len(msgs) /\ n + Len(q) + (i - Len(q)) = n + i
          BY <1>3, <2>4, <4>2
        <5>2. (q \o msgs)[i] = msgs[i - Len(q)]
          BY <3>4, <4>2
        <5>3. IsFrame(msgs[i - Len(q)], a, n + Len(q) + (i - Len(q)))
          BY <3>6, <5>1
        <5> QED BY <5>1, <5>2, <5>3
      <4> QED BY <4>1, <4>2
    <3>8. n + (Len(q) + Len(msgs)) = Len(published[a]) + Len(msgs)
      <4> DEFINE y == Len(q)
                 z == Len(msgs)
      <4>1. y \in Nat /\ z \in Nat /\ n \in Nat /\ n + y = Len(published[a])
        BY <1>3, <2>3, <2>4
      <4> HIDE DEF y, z
      <4>2. n + (y + z) = (n + y) + z
        BY <4>1
      <4> QED BY <4>1, <4>2 DEF y, z
    <3> QED BY <3>2, <3>3, <3>4, <3>7, <3>8 DEF a, n
  <2>6. CASE b = c
    <3>1. ~Gets(b, c)
      BY <2>1, <2>6 DEF Gets
    <3>2. queue'[c] = handled /\ published'[c] = published[c] \o msgs /\ published'[a] = published[a]
      BY <1>2, <2>1, <2>6, <3>1 DEF Left
    <3>3. Len(published'[c]) = n + Len(msgs)
      BY <1>4, <2>6, <3>2
    <3>4. /\ n + Len(msgs) + Len(handled) = Len(published[a])
          /\ \A i \in 1 .. Len(handled) : IsFrame(handled[i], a, n + Len(msgs) + i)
      BY <1>7, <2>6 DEF a
    <3> HIDE DEF n, q
    <3> QED BY <3>2, <3>3, <3>4 DEF a
  <2>7. CASE b # a /\ b # c
    <3>1. ~Gets(b, c)
      BY <2>1, <2>7 DEF Gets
    <3>2. queue'[c] = q /\ published'[c] = published[c] /\ published'[a] = published[a]
      BY <1>2, <2>1, <2>7, <3>1 DEF Left
    <3> QED BY <2>3, <3>2 DEF a
  <2> QED BY <2>5, <2>6, <2>7
<1> QED BY <1>6, <1>7 DEF PortsInOrder, FramesSent, FramesQueued
-----------------------------------------------------------------------------
(* What a sink has gathered is the part of its input behind the frames sent. *)

OneInput == \A a, b \in Sinks : running[a] /\ running[b] => a = b
Gathered ==
  \A b \in Sinks : running[b] =>
    /\ fed = Len(published[b]) * SINK_LEN[b] + Len(d_buffer)
    /\ \A i \in 1 .. Len(d_buffer) : d_buffer[i] = Item(b, Len(published[b]) * SINK_LEN[b] + i)

InputInOrder == OneInput /\ Gathered
ArriveInv    == PortsInOrder /\ InputInOrder

LEMMA InputKept ==
  ASSUME InputInOrder, UNCHANGED sinkVars,
         \A s \in Sinks : running'[s] => running[s] /\ published'[s] = published[s]
  PROVE  InputInOrder'
<1>1. OneInput'
  BY DEF InputInOrder, OneInput
<1>2. fed' = fed /\ d_buffer' = d_buffer
  BY DEF sinkVars
<1>3. ASSUME NEW b \in Sinks, running'[b]
      PROVE  /\ fed' = Len(published'[b]) * SINK_LEN[b] + Len(d_buffer')
             /\ \A i \in 1 .. Len(d_buffer') :
                  d_buffer'[i] = Item(b, Len(published'[b]) * SINK_LEN[b] + i)
  <2>1. running[b] /\ published'[b] = published[b]
    BY <1>3
  <2>2. /\ fed = Len(published[b]) * SINK_LEN[b] + Len(d_buffer)
        /\ \A i \in 1 .. Len(d_buffer) : d_buffer[i] = Item(b, Len(published[b]) * SINK_LEN[b] + i)
    BY <2>1 DEF InputInOrder, Gathered
  <2> QED BY <1>2, <2>1, <2>2
<1> QED BY <1>1, <1>3 DEF InputInOrder, Gathered

\* A block that is no sink publishes something.
LEMMA SinksKept ==
  ASSUME PathTypeOK, InputInOrder, UNCHANGED sinkVars, NEW b \in Blocks \ Sinks,
         NEW msgs, NEW handled, Publish(b, msgs, handled),
         \A s \in Sinks : running'[s] => running[s]
  PROVE  InputInOrder'
<1>1. PortTypes
  BY DEF PathTypeOK, PortTypes
<1>2. \A c \in Blocks : published'[c] = IF c = b THEN published[b] \o msgs ELSE published[c]
  BY <1>1, Published
<1>3. \A s \in Sinks : s \in Blocks /\ s # b
  BY DEF Sinks
<1> QED BY <1>2, <1>3, InputKept

LEMMA ArriveEnd ==
  ASSUME PathTypeOK, StandardPath, ArriveInv, NEW b \in Blocks, running[b], EndThread(b)
  PROVE  ArriveInv'
<1>1. /\ Publish(b, Farewell(b), <<>>) /\ running' = [running EXCEPT ![b] = FALSE]
      /\ d_stop' = IF b = "harden" THEN [d_stop EXCEPT ![b] = TRUE] ELSE d_stop
      /\ UNCHANGED sinkVars
  BY DEF EndThread
<1>2. \A c \in Blocks : running'[c] = IF c = b THEN FALSE ELSE running[c]
  BY <1>1 DEF PathTypeOK
<1>3. \A c \in Blocks : d_stop[c] => d_stop'[c]
  BY <1>1 DEF PathTypeOK
<1>4. \A c \in Behind : Open(c)' => Open(c)
  BY <1>2, <1>3 DEF Open, Behind
<1>5. ~Open(b)'
  BY <1>2 DEF Open
<1>6. AreMessages(Farewell(b)) /\ AreMessages(<<>>)
      /\ \A i \in 1 .. Len(Farewell(b)) : Farewell(b)[i] = EOF
  BY FarewellMessages, NoMessages
<1>7. PortsInOrder'
  <2>1. PortsInOrder
    BY DEF ArriveInv
  <2>2. \A i \in 1 .. Len(Farewell(b)) : IsFrame(Farewell(b)[i], b, Len(published[b]) + i)
    BY <1>6 DEF IsFrame
  <2> QED BY <1>1, <1>4, <1>5, <1>6, <2>1, <2>2, InOrderPublished
<1>8. InputInOrder'
  <2>1. PortTypes /\ InputInOrder
    BY DEF PathTypeOK, PortTypes, ArriveInv
  <2>2. \A c \in Blocks : published'[c] = IF c = b THEN published[b] \o Farewell(b) ELSE published[c]
    BY <1>1, <2>1, Published
  <2>3. \A s \in Sinks : s \in Blocks
    BY DEF Sinks
  <2>4. \A s \in Sinks : running'[s] => running[s] /\ published'[s] = published[s]
    BY <1>2, <2>2, <2>3
  <2> QED BY <1>1, <2>1, <2>4, InputKept
<1> QED BY <1>7, <1>8 DEF ArriveInv

\* A block answers the first message waiting with one of its own.
LEMMA InOrderAnswer ==
  ASSUME PathTypeOK, StandardPath, PortsInOrder, NEW b \in Behind, Open(b), queue[b] # <<>>,
         NEW x, IsMessage(x), IsFrame(x, b, Len(published[b]) + 1),
         Publish(b, <<x>>, Tail(queue[b])), \A c \in Behind : Open(c)' => Open(c)
  PROVE  PortsInOrder'
<1> DEFINE p == published[b]
           q == queue[b]
           a == PrevBlock[b]
           n == Len(p)
           msgs == <<x>>
           t == Tail(q)
<1>1. b \in Blocks /\ b \in Stages
  BY DEF Behind, Stages
<1>2. /\ AreMessages(t) /\ Len(q) \in Nat /\ Len(q) >= 1 /\ Len(t) = Len(q) - 1
      /\ \A i \in 1 .. Len(q) - 1 : t[i] = q[i + 1]
  BY <1>1, Turned
<1>3. n \in Nat
  BY <1>1, SeqFacts DEF PathTypeOK, AreMessages
<1>4. n + Len(q) = Len(published[a]) /\ \A i \in 1 .. Len(q) : IsFrame(q[i], a, n + i)
  BY DEF PortsInOrder, FramesQueued
<1>5. AreMessages(msgs) /\ Len(msgs) = 1 /\ msgs[1] = x
  BY OneMessage, OneFacts
<1>6. IsFrame(x, b, n + 1) /\ Publish(b, msgs, t)
  OBVIOUS
<1> HIDE DEF n, a, msgs, t
<1>7. \A i \in 1 .. Len(msgs) : IsFrame(msgs[i], b, Len(p) + i)
  <2>1. \A i \in 1 .. 1 : i = 1
    OBVIOUS
  <2> QED BY <1>5, <1>6, <2>1 DEF n
<1>8. Len(p) + Len(msgs) + Len(t) = Len(published[a])
  <2> DEFINE y == Len(q)
  <2>1. Len(msgs) = 1 /\ Len(t) = y - 1 /\ y \in Nat /\ n + y = Len(published[a])
    BY <1>2, <1>4, <1>5
  <2> HIDE DEF y
  <2>2. n + 1 + (y - 1) = n + y
    BY <1>3, <2>1
  <2> QED BY <2>1, <2>2 DEF n
<1>9. ASSUME NEW i \in 1 .. Len(t)
      PROVE  IsFrame(t[i], a, Len(p) + Len(msgs) + i)
  <2>1. i \in 1 .. Len(q) - 1 /\ i + 1 \in 1 .. Len(q) /\ n + (i + 1) = n + 1 + i
    <3> DEFINE y == Len(q)
    <3>1. Len(t) = y - 1 /\ y \in Nat
      BY <1>2
    <3> HIDE DEF y
    <3>2. i \in 1 .. y - 1 /\ i + 1 \in 1 .. y /\ n + (i + 1) = n + 1 + i
      BY <1>3, <3>1
    <3> QED BY <3>2 DEF y
  <2>2. t[i] = q[i + 1]
    BY <1>2, <2>1
  <2>3. IsFrame(q[i + 1], a, n + (i + 1))
    BY <1>4, <2>1
  <2> QED BY <1>5, <2>1, <2>2, <2>3 DEF n
<1> QED BY <1>1, <1>2, <1>5, <1>6, <1>7, <1>8, <1>9, InOrderPublished DEF a

LEMMA FirstInOrder ==
  ASSUME PathTypeOK, PortsInOrder, NEW b \in Behind, Open(b), queue[b] # <<>>
  PROVE  /\ Len(published[b]) \in Nat /\ IsMessage(Head(queue[b]))
         /\ AreMessages(Tail(queue[b]))
         /\ IsFrame(Head(queue[b]), PrevBlock[b], Len(published[b]) + 1)
<1> DEFINE q == queue[b]
<1>1. b \in Blocks
  BY DEF Behind
<1>2. IsMessage(Head(q)) /\ AreMessages(Tail(q)) /\ Len(q) \in Nat /\ Len(q) >= 1 /\ Head(q) = q[1]
  BY <1>1, Turned
<1>3. Len(published[b]) \in Nat
  BY <1>1, SeqFacts DEF PathTypeOK, AreMessages
<1>4. \A i \in 1 .. Len(q) : IsFrame(q[i], PrevBlock[b], Len(published[b]) + i)
  BY DEF PortsInOrder, FramesQueued
<1>5. 1 \in 1 .. Len(q)
  BY <1>2
<1> QED BY <1>2, <1>3, <1>4, <1>5

LEMMA ArriveConvert ==
  ASSUME PathTypeOK, StandardPath, LengthsFit, ArriveInv, NEW b \in Converters,
         Convert(b) \/ ConvertEof(b)
  PROVE  ArriveInv'
<1> DEFINE q == queue[b]
           m == Head(q)
           a == PrevBlock[b]
           n == Len(published[b])
<1>1. /\ b \in Behind /\ b \in Blocks \ Sinks /\ b # "harden" /\ q # <<>> /\ running[b]
      /\ UNCHANGED <<running, sinkVars>>
  <2>1. b \in Behind /\ b \in Blocks \ Sinks /\ b # "harden"
    BY DEF Converters, Behind, PrevBlock, Sinks
  <2> QED BY <2>1 DEF Convert, ConvertEof, Waiting
<1>2. \A c \in Behind : Open(c)' => Open(c)
  <2>1. "harden" \in Blocks => d_stop'["harden"] = d_stop["harden"]
    BY <1>1 DEF Convert, ConvertEof, PathTypeOK
  <2> QED BY <1>1, <2>1 DEF Open, Behind
<1>3. Open(b) /\ PortsInOrder /\ InputInOrder
  BY <1>1 DEF Open, ArriveInv
<1>4. n \in Nat /\ IsMessage(m) /\ IsFrame(m, a, n + 1)
  BY <1>1, <1>3, FirstInOrder
<1> HIDE DEF n, m, a
<1>5. \E x : IsMessage(x) /\ IsFrame(x, b, n + 1) /\ Publish(b, <<x>>, Tail(q))
  <2>1. CASE Convert(b)
    <3>1. m # EOF /\ m = FrameAt(a, n + 1)
      BY <1>4, <2>1 DEF Convert, m, IsFrame
    <3>2. n + 1 \in Nat \ {0}
      BY <1>4
    <3>3. Accepts(b, m) /\ Converted(b, m) = FrameAt(b, n + 1)
      BY <1>1, <3>1, <3>2, NextFrame DEF a
    <3>4. Publish(b, <<Converted(b, m)>>, Tail(q))
      BY <2>1, <3>3 DEF Convert, m
    <3>5. IsMessage(Converted(b, m))
      BY <1>4, <3>3, ConvertedMessage
    <3> QED BY <3>3, <3>4, <3>5 DEF IsFrame
  <2>2. CASE ConvertEof(b)
    <3>1. Publish(b, <<EOF>>, Tail(q))
      BY <2>2 DEF ConvertEof, Forwarded
    <3> QED BY <3>1, EofMessage DEF IsFrame
  <2> QED BY <2>1, <2>2
<1>6. PICK x : IsMessage(x) /\ IsFrame(x, b, n + 1) /\ Publish(b, <<x>>, Tail(q))
  BY <1>5
<1>7. PortsInOrder'
  BY <1>1, <1>2, <1>3, <1>6, InOrderAnswer DEF n
<1>8. InputInOrder'
  <2>1. UNCHANGED sinkVars /\ \A s \in Sinks : running'[s] => running[s]
    BY <1>1
  <2> QED BY <1>1, <1>3, <1>6, <2>1, SinksKept
<1> QED BY <1>7, <1>8 DEF ArriveInv

LEMMA ArriveHarden ==
  ASSUME PathTypeOK, StandardPath, LengthsFit, ArriveInv, Harden
  PROVE  ArriveInv'
<1> DEFINE b == "harden"
           q == queue[b]
           m == Head(q)
           a == PrevBlock[b]
           n == Len(published[b])
           hard == IF m = EOF THEN EOF ELSE Message("blob", m.hdr, SoftToHard(m.data))
<1>1. /\ b \in Behind /\ b \in Blocks \ Sinks /\ q # <<>> /\ running[b]
      /\ UNCHANGED <<running, sinkVars>>
  <2>1. b \in Blocks /\ Waiting(b) /\ UNCHANGED <<running, sinkVars>>
    BY DEF Harden
  <2>2. b \in Behind /\ b \in Blocks \ Sinks
    BY <2>1 DEF Behind, PrevBlock, Sinks
  <2> QED BY <2>1, <2>2 DEF Waiting
<1>2. /\ d_stop' = [d_stop EXCEPT ![b] = @ \/ m = EOF]
      /\ IF d_stop[b] \/ (m # EOF /\ (m.type # "soft" \/ Len(m.data) % 8 # 0))
         THEN Publish(b, <<>>, Tail(q)) ELSE Publish(b, <<hard>>, Tail(q))
  BY DEF Harden, Handled
<1>3. d_stop'[b] = (d_stop[b] \/ m = EOF)
  BY <1>1, <1>2 DEF PathTypeOK
<1>4. \A c \in Behind : Open(c)' => Open(c)
  BY <1>1, <1>3 DEF Open
<1>5. PortsInOrder /\ InputInOrder
  BY DEF ArriveInv
<1> HIDE DEF m, hard
<1>6. CASE d_stop[b]
  <2>1. Publish(b, <<>>, Tail(q))
    BY <1>2, <1>6
  <2>2. ~Open(b)'
    BY <1>3, <1>6 DEF Open
  <2>3. AreMessages(<<>>) /\ Len(<<>>) = 0 /\ AreMessages(Tail(q))
    BY <1>1, Turned, NoMessages, EmptyFacts
  <2>4. \A i \in 1 .. Len(<<>>) : IsFrame(<<>>[i], b, Len(published[b]) + i)
    <3>1. ~\E i : i \in 1 .. 0
      OBVIOUS
    <3> QED BY <2>3, <3>1
  <2>5. PortsInOrder'
    BY <1>1, <1>4, <1>5, <2>1, <2>2, <2>3, <2>4, InOrderPublished
  <2>6. InputInOrder'
    BY <1>1, <1>5, <2>1, SinksKept
  <2> QED BY <2>5, <2>6 DEF ArriveInv
<1>7. CASE ~d_stop[b]
  <2>1. Open(b)
    BY <1>1, <1>7 DEF Open
  <2>2. n \in Nat /\ IsMessage(m) /\ IsFrame(m, a, n + 1)
    BY <1>1, <1>5, <2>1, FirstInOrder DEF m
  <2> HIDE DEF n, a
  <2>3. IsMessage(hard) /\ IsFrame(hard, b, n + 1) /\ Publish(b, <<hard>>, Tail(q))
    <3>1. CASE m = EOF
      <4>1. hard = EOF
        BY <3>1 DEF hard
      <4> QED BY <1>2, <1>7, <3>1, <4>1, EofMessage DEF IsFrame
    <3>2. CASE m # EOF
      <4>1. m = FrameAt(a, n + 1) /\ n + 1 \in Nat \ {0}
        BY <2>2, <3>2 DEF IsFrame
      <4>2. m.type = "soft" /\ Len(m.data) % 8 = 0
            /\ Message("blob", m.hdr, SoftToHard(m.data)) = FrameAt(b, n + 1)
        BY <1>1, <4>1, NextFrame DEF a
      <4>3. hard = FrameAt(b, n + 1) /\ hard = Message("blob", m.hdr, SoftToHard(m.data))
        BY <3>2, <4>2 DEF hard
      <4>4. IsSeq(SoftToHard(m.data))
        <5> DEFINE d == m.data
                   e == [i \in 1 .. Len(d) |-> hard_decision(d[i])]
        <5>1. Len(d) \in Nat
          BY <2>2, SeqFacts DEF IsMessage
        <5>2. e = [i \in 1 .. Len(d) |-> e[i]]
          OBVIOUS
        <5>3. SoftToHard(d) = e
          BY DEF SoftToHard
        <5> HIDE DEF e, d
        <5> QED BY <5>1, <5>2, <5>3, FcnIsSeq DEF d
      <4>5. IsMessage(hard)
        BY <4>3, <4>4, MessageFields
      <4>6. Publish(b, <<hard>>, Tail(q))
        BY <1>2, <1>7, <4>2
      <4> QED BY <4>3, <4>5, <4>6 DEF IsFrame
    <3> QED BY <3>1, <3>2
  <2>4. PortsInOrder'
    BY <1>1, <1>4, <1>5, <2>1, <2>3, InOrderAnswer DEF n
  <2>5. InputInOrder'
    BY <1>1, <1>5, <2>3, SinksKept
  <2> QED BY <2>4, <2>5 DEF ArriveInv
<1> QED BY <1>6, <1>7

LEMMA ArriveSources ==
  ASSUME PathTypeOK, StandardPath, ArriveInv, SourceMessage \/ PackerMessage
  PROVE  ArriveInv'
<1>1. PICK b \in {"source", "packer"} :
        /\ b \in Blocks /\ Handled(b) /\ Waiting(b) /\ UNCHANGED <<running, sinkVars>>
        /\ "harden" \in Blocks => d_stop'["harden"] = d_stop["harden"]
  BY DEF SourceMessage, PackerMessage, PathTypeOK
<1>2. b \notin Stages /\ b \in Blocks \ Sinks
  BY <1>1 DEF Stages, Sinks, Behind, PrevBlock
<1>3. Publish(b, <<>>, Tail(queue[b])) /\ queue[b] # <<>>
  BY <1>1 DEF Handled, Waiting
<1>4. AreMessages(<<>>) /\ AreMessages(Tail(queue[b]))
  BY <1>1, <1>3, Turned, NoMessages
<1>5. \A c \in Behind : Open(c)' => Open(c)
  BY <1>1 DEF Open, Behind
<1>6. b \notin Behind /\ PortsInOrder /\ InputInOrder
  BY <1>2 DEF Stages, ArriveInv
<1>7. PortsInOrder'
  BY <1>2, <1>3, <1>4, <1>5, <1>6, InOrderPublished
<1>8. InputInOrder'
  BY <1>1, <1>2, <1>3, <1>6, SinksKept
<1> QED BY <1>7, <1>8 DEF ArriveInv

\* A step that leaves the ports of the two paths alone
LEMMA ArriveAlone ==
  ASSUME PathTypeOK, StandardPath, ArriveInv,
         UNCHANGED <<running, published, d_stop, sinkVars>>,
         \A c \in Behind : queue'[c] = queue[c]
  PROVE  ArriveInv'
<1>1. PortsInOrder /\ InputInOrder
  BY DEF ArriveInv
<1>2. FramesSent'
  BY <1>1 DEF PortsInOrder, FramesSent
<1>3. FramesQueued'
  <2> SUFFICES ASSUME NEW c \in Behind, Open(c)'
               PROVE  /\ Len(published'[c]) + Len(queue'[c]) = Len(published'[PrevBlock[c]])
                      /\ \A i \in 1 .. Len(queue'[c]) :
                           IsFrame(queue'[c][i], PrevBlock[c], Len(published'[c]) + i)
    BY DEF FramesQueued
  <2>1. Open(c)
    BY DEF Open
  <2>2. queue'[c] = queue[c] /\ published' = published
    OBVIOUS
  <2> QED BY <1>1, <2>1, <2>2 DEF PortsInOrder, FramesQueued
<1>4. InputInOrder'
  BY <1>1, InputKept
<1> QED BY <1>2, <1>3, <1>4 DEF ArriveInv, PortsInOrder

\* What a sink makes of items that lie behind its first p frames
CutInFrames(b, p, all) ==
  /\ Full(b, all) \in Nat
  /\ \A k \in 1 .. Full(b, all) :
       SubSeq(all, (k - 1) * SINK_LEN[b] + 1, k * SINK_LEN[b])
         = [i \in 1 .. SINK_LEN[b] |-> InputAt(b, p + k, i)]
  /\ LET rest == SubSeq(all, Full(b, all) * SINK_LEN[b] + 1, Len(all))
     IN /\ IsSeq(rest)
        /\ p * SINK_LEN[b] + Len(all) = (p + Full(b, all)) * SINK_LEN[b] + Len(rest)
        /\ \A i \in 1 .. Len(rest) :
             rest[i] = Item(b, (p + Full(b, all)) * SINK_LEN[b] + i)

LEMMA CutFrames ==
  ASSUME NEW b \in Sinks, NEW p \in Nat, NEW all, IsSeq(all),
         \A i \in 1 .. Len(all) : all[i] = Item(b, p * SINK_LEN[b] + i)
  PROVE  CutInFrames(b, p, all)
<1> DEFINE L == SINK_LEN[b]
           full == Full(b, all)
           a == Len(all)
<1>1. L \in Nat /\ L > 0 /\ a \in Nat
  BY PathAssumption, SeqFacts
<1>2. full = a \div L
  BY DEF Full
<1> HIDE DEF L, full, a
<1>3. full \in Nat /\ full * L <= a /\ full * L \in Nat /\ p * L \in Nat
  BY <1>1, <1>2, Division, Products
<1>4. (p + full) * L = p * L + full * L
  BY <1>1, <1>3
<1>5. ASSUME NEW k \in 1 .. full
      PROVE  SubSeq(all, (k - 1) * L + 1, k * L) = [i \in 1 .. L |-> InputAt(b, p + k, i)]
  <2> DEFINE s == SubSeq(all, (k - 1) * L + 1, k * L)
             t == [i \in 1 .. L |-> InputAt(b, p + k, i)]
             x == (k - 1) * L
  <2>1. k - 1 \in Nat /\ k \in Nat /\ k <= full
    BY <1>3
  <2>2. x \in Nat /\ k * L = x + L /\ k * L <= full * L /\ p + k - 1 \in Nat
    <3>1. (k - 1) * L \in Nat /\ (k - 1 + 1) * L = (k - 1) * L + L
      BY <1>1, <2>1, Products
    <3>2. k - 1 + 1 = k
      BY <2>1
    <3>3. k * L <= full * L
      BY <1>1, <1>3, <2>1, Products
    <3> QED BY <2>1, <3>1, <3>2, <3>3
  <2>3. (p + k - 1) * L = p * L + x
    <3>1. p + k - 1 = p + (k - 1)
      BY <2>1
    <3>2. (p + (k - 1)) * L = p * L + (k - 1) * L
      BY <1>1, <2>1
    <3> QED BY <3>1, <3>2
  <2> HIDE DEF x
  <2> DEFINE u == k * L
  <2>4. s = SubSeq(all, x + 1, u) /\ u = x + L
    BY <2>2 DEF x
  <2> HIDE DEF u, s, t
  <2>5. IsSeq(s) /\ Len(s) = L /\ \A i \in 1 .. L : s[i] = all[x + i]
    <3>1. x + 1 \in Nat /\ u \in Nat /\ x + 1 >= 1 /\ x + 1 <= u + 1 /\ u - (x + 1) + 1 = L
      BY <1>1, <2>2, <2>4
    <3>2. \A i \in 1 .. L : x + 1 + i - 1 = x + i
      BY <1>1, <2>2
    <3>3. /\ IsSeq(SubSeq(all, x + 1, u)) /\ Len(SubSeq(all, x + 1, u)) = u - (x + 1) + 1
          /\ \A i \in 1 .. u - (x + 1) + 1 : SubSeq(all, x + 1, u)[i] = all[x + 1 + i - 1]
      BY <3>1, SubSeqFacts
    <3>4. ASSUME NEW i \in 1 .. L
          PROVE  s[i] = all[x + i]
      BY <2>4, <3>1, <3>2, <3>3
    <3> QED BY <2>4, <3>1, <3>3, <3>4
  <2>6. \A i \in 1 .. L : s[i] = t[i]
    <3> SUFFICES ASSUME NEW i \in 1 .. L PROVE s[i] = t[i]
      OBVIOUS
    <3>1. x + i \in 1 .. a /\ p * L + (x + i) = (p + k - 1) * L + i
      <4> DEFINE y == p * L
                 z == full * L
      <4>1. y \in Nat /\ z \in Nat /\ u = x + L /\ u <= z /\ z <= a
        BY <1>3, <2>2, <2>4 DEF u
      <4> HIDE DEF y, z
      <4>2. x + i \in 1 .. a /\ y + (x + i) = y + x + i
        BY <1>1, <2>2, <4>1
      <4> QED BY <2>3, <4>2 DEF y
    <3>2. s[i] = all[x + i]
      BY <2>5
    <3>3. all[x + i] = Item(b, p * L + (x + i))
      BY <3>1 DEF a, L
    <3>4. t[i] = Item(b, (p + k - 1) * L + i)
      BY DEF InputAt, L, t
    <3> QED BY <3>1, <3>2, <3>3, <3>4
  <2>7. t = [i \in 1 .. L |-> t[i]]
    BY DEF t
  <2>8. IsSeq(t) /\ Len(t) = L
    BY <1>1, <2>7, FcnIsSeq
  <2>9. s = t
    BY <2>5, <2>6, <2>8, SeqEquality
  <2> QED BY <2>9 DEF s, t
<1>6. LET rest == SubSeq(all, full * L + 1, a)
      IN /\ IsSeq(rest) /\ p * L + a = (p + full) * L + Len(rest)
         /\ \A i \in 1 .. Len(rest) : rest[i] = Item(b, (p + full) * L + i)
  <2> DEFINE rest == SubSeq(all, full * L + 1, a)
             z == full * L
             y == p * L
  <2>1. z \in Nat /\ z <= a /\ y \in Nat /\ (p + full) * L = y + z
    BY <1>3, <1>4
  <2>2. rest = SubSeq(all, z + 1, a)
    OBVIOUS
  <2> HIDE DEF z, y, rest
  <2>3. IsSeq(rest) /\ Len(rest) = a - z /\ \A i \in 1 .. a - z : rest[i] = all[z + i]
    <3>1. z + 1 \in Nat /\ z + 1 >= 1 /\ z + 1 <= a + 1 /\ a - (z + 1) + 1 = a - z
      BY <1>1, <2>1
    <3>2. \A i \in 1 .. a - z : z + 1 + i - 1 = z + i
      BY <1>1, <2>1
    <3>3. /\ IsSeq(SubSeq(all, z + 1, a)) /\ Len(SubSeq(all, z + 1, a)) = a - (z + 1) + 1
          /\ \A i \in 1 .. a - (z + 1) + 1 : SubSeq(all, z + 1, a)[i] = all[z + 1 + i - 1]
      BY <1>1, <3>1, SubSeqFacts
    <3>4. ASSUME NEW i \in 1 .. a - z
          PROVE  rest[i] = all[z + i]
      BY <2>2, <3>1, <3>2, <3>3
    <3> QED BY <2>2, <3>1, <3>3, <3>4
  <2>4. y + a = y + z + Len(rest)
    BY <1>1, <2>1, <2>3
  <2>5. \A i \in 1 .. Len(rest) : rest[i] = Item(b, y + z + i)
    <3> SUFFICES ASSUME NEW i \in 1 .. Len(rest) PROVE rest[i] = Item(b, y + z + i)
      OBVIOUS
    <3>1. i \in 1 .. a - z /\ z + i \in 1 .. a /\ y + (z + i) = y + z + i
      BY <1>1, <2>1, <2>3
    <3>2. rest[i] = all[z + i]
      BY <2>3, <3>1
    <3>3. all[z + i] = Item(b, y + (z + i))
      BY <3>1 DEF a, y, L
    <3> QED BY <3>1, <3>2, <3>3
  <2> QED BY <2>1, <2>3, <2>4, <2>5 DEF rest, y
<1> QED BY <1>3, <1>5, <1>6 DEF CutInFrames, L, full, a

LEMMA FedFrames ==
  ASSUME PathTypeOK, InputInOrder, NEW b \in Sinks, NEW n \in FeedSizes[b], Feed(b, n)
  PROVE  \E msgs : /\ Publish(b, msgs, <<>>) /\ AreMessages(msgs) /\ running[b]
                   /\ \A k \in 1 .. Len(msgs) : msgs[k] = InputFrame(b, Len(published[b]) + k)
                   /\ fed' = (Len(published[b]) + Len(msgs)) * SINK_LEN[b] + Len(d_buffer')
                   /\ \A i \in 1 .. Len(d_buffer') :
                        d_buffer'[i] = Item(b, (Len(published[b]) + Len(msgs)) * SINK_LEN[b] + i)
<1> DEFINE L == SINK_LEN[b]
           p == Len(published[b])
           new == [i \in 1 .. n |-> Item(b, fed + i)]
           all == d_buffer \o new
           full == Full(b, all)
           Part(k) == SubSeq(all, (k - 1) * L + 1, k * L)
           msgs == [k \in 1 .. full |-> Message(SINK_TYPE[b], "empty", Part(k))]
           l == Len(d_buffer)
<1>1. /\ Publish(b, msgs, <<>>) /\ fed' = fed + n /\ running[b]
      /\ d_buffer' = SubSeq(all, full * L + 1, Len(all))
  BY DEF Feed
<1>2. b \in Blocks /\ p \in Nat /\ l \in Nat /\ n \in Nat /\ fed \in Nat /\ L \in Nat
      /\ IsSeq(d_buffer)
  <2>1. b \in Blocks
    BY DEF Sinks
  <2>2. p \in Nat
    BY <2>1, SeqFacts DEF PathTypeOK, AreMessages
  <2>3. IsSeq(d_buffer) /\ l \in Nat /\ fed \in Nat
    BY SeqFacts DEF PathTypeOK
  <2> QED BY <2>1, <2>2, <2>3, PathAssumption
<1>3. fed = p * L + l /\ \A i \in 1 .. l : d_buffer[i] = Item(b, p * L + i)
  BY <1>1 DEF InputInOrder, Gathered
<1>4. IsSeq(new) /\ Len(new) = n /\ \A i \in 1 .. n : new[i] = Item(b, fed + i)
  <2>1. new = [i \in 1 .. n |-> new[i]] /\ \A i \in 1 .. n : new[i] = Item(b, fed + i)
    OBVIOUS
  <2> HIDE DEF new
  <2> QED BY <1>2, <2>1, FcnIsSeq
<1> HIDE DEF new, l, p
<1>5. /\ IsSeq(all) /\ Len(all) = l + n
      /\ \A i \in 1 .. l + n : all[i] = IF i <= l THEN d_buffer[i] ELSE new[i - l]
  BY <1>2, <1>4, ConcatFacts DEF l
<1> HIDE DEF all
<1>6. ASSUME NEW i \in 1 .. Len(all)
      PROVE  all[i] = Item(b, p * L + i)
  <2> DEFINE y == p * L
  <2>1. y \in Nat
    BY <1>2
  <2> HIDE DEF y
  <2>2. i \in 1 .. l + n
    BY <1>5
  <2>3. CASE i <= l
    <3>1. i \in 1 .. l
      BY <2>2, <2>3
    <3> QED BY <1>3, <1>5, <2>2, <2>3, <3>1
  <2>4. CASE ~(i <= l)
    <3>1. i - l \in 1 .. n /\ y + l + (i - l) = y + i
      BY <1>2, <2>1, <2>2, <2>4
    <3>2. all[i] = new[i - l]
      BY <1>5, <2>2, <2>4
    <3>3. new[i - l] = Item(b, fed + (i - l))
      BY <1>4, <3>1
    <3>4. fed + (i - l) = y + i
      BY <1>3, <3>1 DEF y
    <3> QED BY <3>2, <3>3, <3>4 DEF y
  <2> QED BY <2>3, <2>4
<1>7. /\ full \in Nat
      /\ \A k \in 1 .. full : Part(k) = [i \in 1 .. L |-> InputAt(b, p + k, i)]
      /\ LET rest == SubSeq(all, full * L + 1, Len(all))
         IN /\ IsSeq(rest)
            /\ p * L + Len(all) = (p + full) * L + Len(rest)
            /\ \A i \in 1 .. Len(rest) : rest[i] = Item(b, (p + full) * L + i)
  <2>1. p \in Nat /\ IsSeq(all) /\ \A i \in 1 .. Len(all) : all[i] = Item(b, p * SINK_LEN[b] + i)
    BY <1>2, <1>5, <1>6
  <2>2. CutInFrames(b, p, all)
    BY <2>1, CutFrames
  <2> HIDE DEF msgs
  <2> QED BY <2>2 DEF CutInFrames
<1>8. /\ p * L + Len(all) = (p + full) * L + Len(d_buffer')
      /\ \A i \in 1 .. Len(d_buffer') : d_buffer'[i] = Item(b, (p + full) * L + i)
  BY <1>1, <1>7
<1>9. fed' = p * L + Len(all)
  <2> DEFINE y == p * L
             z == Len(all)
  <2>1. y \in Nat /\ z = l + n /\ fed = y + l
    BY <1>2, <1>3, <1>5
  <2> HIDE DEF y, z
  <2>2. fed + n = y + z
    BY <1>2, <2>1
  <2> QED BY <1>1, <2>2 DEF y, z
<1>10. \A k \in 1 .. full : msgs[k] = InputFrame(b, p + k) /\ IsMessage(InputFrame(b, p + k))
  <2> SUFFICES ASSUME NEW k \in 1 .. full
               PROVE  msgs[k] = InputFrame(b, p + k) /\ IsMessage(InputFrame(b, p + k))
    OBVIOUS
  <2> DEFINE d == [i \in 1 .. L |-> InputAt(b, p + k, i)]
  <2>1. msgs[k] = Message(SINK_TYPE[b], "empty", Part(k)) /\ Part(k) = d
    BY <1>7
  <2>2. InputFrame(b, p + k) = Message(SINK_TYPE[b], "empty", d)
    BY DEF InputFrame
  <2>3. d = [i \in 1 .. L |-> d[i]]
    OBVIOUS
  <2> HIDE DEF d, msgs, Part
  <2>4. IsSeq(d)
    BY <1>2, <2>3, FcnIsSeq
  <2> QED BY <2>1, <2>2, <2>4, MessageFields
<1>11. msgs = [k \in 1 .. full |-> msgs[k]]
  OBVIOUS
<1> HIDE DEF msgs, full, Part
<1>12. IsSeq(msgs) /\ Len(msgs) = full
  BY <1>7, <1>11, FcnIsSeq
<1>13. AreMessages(msgs)
  <2>1. \A k \in 1 .. Len(msgs) : IsMessage(msgs[k])
    BY <1>10, <1>12
  <2> QED BY <1>12, <2>1 DEF AreMessages
<1>14. \A k \in 1 .. Len(msgs) : msgs[k] = InputFrame(b, p + k)
  BY <1>10, <1>12
<1> QED BY <1>1, <1>8, <1>9, <1>12, <1>13, <1>14 DEF p

LEMMA ArriveFeed ==
  ASSUME PathTypeOK, StandardPath, ArriveInv, NEW b \in Sinks, NEW n \in FeedSizes[b], Feed(b, n)
  PROVE  ArriveInv'
<1> DEFINE p == Len(published[b])
<1>1. PortsInOrder /\ InputInOrder /\ b \in Blocks /\ b \in Stages /\ PortTypes
  BY DEF ArriveInv, Sinks, Stages, PathTypeOK, PortTypes
<1>2. UNCHANGED <<running, d_stop>>
  BY DEF Feed
<1>3. b \notin Behind
  BY PrevFacts
<1>4. PICK msgs : /\ Publish(b, msgs, <<>>) /\ AreMessages(msgs) /\ running[b]
                  /\ \A k \in 1 .. Len(msgs) : msgs[k] = InputFrame(b, p + k)
                  /\ fed' = (p + Len(msgs)) * SINK_LEN[b] + Len(d_buffer')
                  /\ \A i \in 1 .. Len(d_buffer') :
                       d_buffer'[i] = Item(b, (p + Len(msgs)) * SINK_LEN[b] + i)
  BY <1>1, FedFrames
<1>5. PortsInOrder'
  <2>1. \A i \in 1 .. Len(msgs) : IsFrame(msgs[i], b, p + i)
    <3>1. \A f : FrameAt(b, f) = InputFrame(b, f)
      BY DEF FrameAt, Sinks
    <3> HIDE DEF p
    <3> QED BY <1>4, <3>1 DEF IsFrame
  <2>2. \A c \in Behind : Open(c)' => Open(c)
    BY <1>2 DEF Open
  <2>3. AreMessages(<<>>)
    BY NoMessages
  <2> QED BY <1>1, <1>3, <1>4, <2>1, <2>2, <2>3, InOrderPublished
<1>6. Len(published'[b]) = p + Len(msgs)
  <2>1. published'[b] = published[b] \o msgs
    BY <1>1, <1>4, Published
  <2>2. IsSeq(published[b]) /\ IsSeq(msgs)
    BY <1>1, <1>4 DEF PathTypeOK, AreMessages
  <2> QED BY <2>1, <2>2, ConcatFacts
<1>7. OneInput'
  BY <1>1, <1>2 DEF InputInOrder, OneInput
<1>8. ASSUME NEW s \in Sinks, running'[s]
      PROVE  s = b
  BY <1>1, <1>2, <1>4, <1>8 DEF InputInOrder, OneInput
<1>9. Gathered'
  <2> SUFFICES ASSUME NEW s \in Sinks, running'[s]
               PROVE  /\ fed' = Len(published'[s]) * SINK_LEN[s] + Len(d_buffer')
                      /\ \A i \in 1 .. Len(d_buffer') :
                           d_buffer'[i] = Item(s, Len(published'[s]) * SINK_LEN[s] + i)
    BY DEF Gathered
  <2>1. s = b
    BY <1>8
  <2> HIDE DEF p
  <2> QED BY <1>4, <1>6, <2>1
<1> QED BY <1>5, <1>7, <1>9 DEF ArriveInv, InputInOrder

LEMMA ArriveInit == StandardPath /\ Init => ArriveInv
<1> SUFFICES ASSUME StandardPath, Init PROVE ArriveInv
  OBVIOUS
<1>1. PICK path \in Paths : running = [b \in Blocks |-> b \in path]
  BY DEF Init
<1>2. /\ \A b \in Blocks : published[b] = <<>> /\ queue[b] = <<>>
      /\ fed = 0 /\ d_buffer = <<>>
  BY DEF Init
<1>3. Len(<<>>) = 0 /\ ~\E i : i \in 1 .. 0
  BY EmptyFacts
<1>4. Sinks \subseteq Blocks /\ Behind \subseteq Blocks
  BY DEF Sinks, Behind
<1>5. FramesSent
  BY <1>2, <1>3, <1>4 DEF FramesSent, Stages
<1>6. FramesQueued
  <2>1. \A c \in Behind : PrevBlock[c] \in Blocks
    BY PrevFacts
  <2>2. ASSUME NEW c \in Behind
        PROVE  Len(published[c]) = 0 /\ Len(queue[c]) = 0 /\ Len(published[PrevBlock[c]]) = 0
    BY <1>2, <1>3, <1>4, <2>1
  <2>3. 0 + 0 = 0
    OBVIOUS
  <2> QED BY <1>3, <2>2, <2>3 DEF FramesQueued
<1>7. OneInput
  BY <1>1, <1>4 DEF OneInput, StandardPath
<1>8. Gathered
  <2> SUFFICES ASSUME NEW b \in Sinks
               PROVE  /\ fed = Len(published[b]) * SINK_LEN[b] + Len(d_buffer)
                      /\ \A i \in 1 .. Len(d_buffer) :
                           d_buffer[i] = Item(b, Len(published[b]) * SINK_LEN[b] + i)
    BY DEF Gathered
  <2>1. Len(published[b]) = 0 /\ Len(d_buffer) = 0 /\ SINK_LEN[b] \in Nat
    BY <1>2, <1>3, <1>4, PathAssumption
  <2>2. 0 * SINK_LEN[b] + 0 = 0
    BY <2>1
  <2> QED BY <1>2, <1>3, <2>1, <2>2
<1> QED BY <1>5, <1>6, <1>7, <1>8 DEF ArriveInv, PortsInOrder, InputInOrder

LEMMA ArrivePost ==
  ASSUME PathTypeOK, StandardPath, ArriveInv, NEW b \in Sources, NEW m \in Posts[b], Post(b, m)
  PROVE  ArriveInv'
<1>1. UNCHANGED <<running, published, d_stop, sinkVars>>
  BY DEF Post
<1>2. \A c \in Behind : c # b /\ c \in Blocks
  BY PrevFacts DEF Behind
<1>3. \A c \in Behind : queue'[c] = queue[c]
  BY <1>2 DEF Post, PathTypeOK
<1> QED BY <1>1, <1>3, ArriveAlone

LEMMA ArriveStep ==
  ASSUME StandardPath, LengthsFit, PathTypeOK, ArriveInv, [Next]_vars
  PROVE  ArriveInv'
<1>1. ASSUME NEW b \in Sinks, EndOfInput(b)
      PROVE  ArriveInv'
  BY <1>1, Kinds, ArriveEnd DEF EndOfInput
<1>2. ASSUME NEW b \in Sinks, NEW n \in FeedSizes[b], Feed(b, n)
      PROVE  ArriveInv'
  BY <1>2, ArriveFeed
<1>3. CASE Threads
  <2>1. ASSUME NEW b \in Sources, Finish(b)
        PROVE  ArriveInv'
    BY <2>1, Kinds, ArriveEnd DEF Finish
  <2>2. ASSUME NEW b \in Sources, NEW space \in WorkSizes, Work(b, space)
        PROVE  ArriveInv'
    <3>1. UNCHANGED <<running, published, d_stop, queue, sinkVars>>
      BY <2>2 DEF Work, portVars
    <3> QED BY <3>1, ArriveAlone
  <2>3. ASSUME NEW b \in Converters, Convert(b) \/ ConvertEof(b)
        PROVE  ArriveInv'
    BY <2>3, ArriveConvert
  <2> QED BY <1>3, <2>1, <2>2, <2>3, ArriveHarden, ArriveSources DEF Threads
<1>4. ASSUME NEW b \in Interruptible, Interrupt(b)
      PROVE  ArriveInv'
  <2>1. b \in Blocks /\ running[b] /\ EndThread(b)
    BY <1>4, PathAssumption DEF Interrupt
  <2> QED BY <2>1, ArriveEnd
<1>5. ASSUME NEW b \in Sources, NEW m \in Posts[b], Post(b, m)
      PROVE  ArriveInv'
  BY <1>5, ArrivePost
<1>6. CASE UNCHANGED vars
  <2>1. UNCHANGED <<running, published, d_stop, queue, sinkVars>>
    BY <1>6 DEF vars, portVars
  <2> QED BY <2>1, ArriveAlone
<1> QED BY <1>1, <1>2, <1>3, <1>4, <1>5, <1>6 DEF Next

\* At the ends of the two chains, the frames sent are those of FrameOf.
LEMMA ChainEnds ==
  ASSUME StandardPath, LengthsFit, PathTypeOK, ArriveInv
  PROVE  FramesArrive
<1> SUFFICES ASSUME NEW b \in Blocks \cap {"harden", "add_asm"}, NEW f \in 1 .. Len(published[b]),
                    published[b][f] # EOF
             PROVE  published[b][f] = Message("blob", "empty", FrameOf(b, f))
  BY DEF FramesArrive
<1>1. b \in Behind /\ b \in Stages
  BY DEF Behind, PrevBlock, Stages
<1>2. published[b][f] = FrameAt(b, f)
  BY <1>1 DEF ArriveInv, PortsInOrder, FramesSent, IsFrame
<1>3. f \in Nat \ {0}
  <2>1. Len(published[b]) \in Nat
    BY SeqFacts DEF PathTypeOK, AreMessages
  <2> QED BY <2>1
<1>4. CASE b = "harden"
  <2>1. FrameAt(b, f) = Hardened(f)
    BY <1>4 DEF FrameAt, Sinks
  <2> QED BY <1>2, <1>4, <2>1, SoftPath, SoftHardened
<1>5. CASE b = "add_asm"
  <2>1. FrameAt(b, f) = Marked(f)
    BY <1>5 DEF FrameAt, Sinks
  <2> QED BY <1>2, <1>3, <1>5, <2>1, SoftPath, BytesMarked
<1> QED BY <1>4, <1>5

(* Each frame that leaves one of the two chains is the frame of the input    *)
(* with its number, converted bit by bit from the input alone: derandomised, *)
(* cut and hardened, or reversed, whitened with the linear recurrence of the *)
(* polynomial and marked.  This holds for all frame lengths that fit, all    *)
(* divisions of the input into calls, any order of the threads and threads  *)
(* that end anywhere (process_frame of the message blocks, work() of the     *)
(* sinks, reset() of the randomisers).                                      *)
THEOREM PathFramesArrive ==
  ASSUME StandardPath, LengthsFit
  PROVE  Spec => []FramesArrive
<1>1. Init => ArriveInv
  BY ArriveInit
<1>2. PathTypeOK /\ ArriveInv /\ [Next]_vars => ArriveInv'
  BY ArriveStep
<1>3. PathTypeOK /\ ArriveInv => FramesArrive
  BY ChainEnds
<1>4. Spec => []PathTypeOK
  BY PathTypeCorrect
<1> QED BY <1>1, <1>2, <1>3, <1>4, PTL DEF Spec
-----------------------------------------------------------------------------
(***************************************************************************)
(* The start and stop state that the message sources share, for any sets of *)
(* sources and waiters and any number of calls.  That no wakeup is lost is  *)
(* not inductive by itself: it needs that a thread which tests the state    *)
(* holds the mutex, so that the state cannot change between the test and    *)
(* the wait.                                                               *)
(***************************************************************************)

\* The inductive invariant of the shared state
StartInv == StartTypeOK /\ OneInside /\ NoLostWakeup

LEMMA StartInitInv == StartInit => StartInv
  BY StartAssumption
  DEF StartInit, StartInv, StartTypeOK, OneInside, NoLostWakeup, Locked, StartThreads,
      States, SourcePcs, WaiterPcs

\* start() and stop() keep the invariant
LEMMA StarterInv ==
  ASSUME StartInv, NEW s \in Starters, StartStep(s) \/ StopStep(s)
  PROVE  StartInv'
<1> USE StartAssumption
    DEF StartInv, StartTypeOK, OneInside, NoLostWakeup, Locked, StartThreads,
        States, SourcePcs, WaiterPcs
<1>1. CASE StartLock(s)
  BY <1>1 DEF StartLock, Acquire
<1>2. CASE StartSet(s)
  BY <1>2 DEF StartSet
<1>3. CASE StartUnlock(s)
  BY <1>3 DEF StartUnlock, Release
<1>4. CASE StartNotify(s)
  BY <1>4 DEF StartNotify, Woken
<1>5. CASE StopLock(s)
  BY <1>5 DEF StopLock, Acquire
<1>6. CASE StopSet(s)
  BY <1>6 DEF StopSet, Release
<1>7. QED
  BY <1>1, <1>2, <1>3, <1>4, <1>5, <1>6 DEF StartStep, StopStep

\* wait_for_start() and is_stopped() keep the invariant
LEMMA WaiterInv ==
  ASSUME StartInv, NEW w \in Waiters,
         EnterWait(w) \/ PollLock(w) \/ Spurious(w) \/ WaitStep(w)
  PROVE  StartInv'
<1> USE StartAssumption
    DEF StartInv, StartTypeOK, OneInside, NoLostWakeup, Locked, StartThreads,
        States, SourcePcs, WaiterPcs
<1>1. CASE EnterWait(w)
  BY <1>1 DEF EnterWait, Acquire
<1>2. CASE PollLock(w)
  BY <1>2 DEF PollLock, Acquire
<1>3. CASE Spurious(w)
  BY <1>3 DEF Spurious
<1>4. CASE ReturnStopped(w)
  BY <1>4 DEF ReturnStopped, Release
<1>5. CASE EnterLoop(w)
  BY <1>5 DEF EnterLoop
<1>6. CASE ReturnRunning(w)
  BY <1>6 DEF ReturnRunning, Release
<1>7. CASE Wait(w)
  BY <1>7 DEF Wait, Release
<1>8. CASE Reacquire(w)
  BY <1>8 DEF Reacquire, Acquire
<1>9. CASE PollReturn(w)
  BY <1>9 DEF PollReturn, Release
<1>10. QED
  BY <1>1, <1>2, <1>3, <1>4, <1>5, <1>6, <1>7, <1>8, <1>9 DEF WaitStep

LEMMA StartStutter == StartInv /\ UNCHANGED startVars => StartInv'
  BY DEF StartInv, StartTypeOK, OneInside, NoLostWakeup, Locked, startVars

LEMMA StartInvariance == StartSpec => []StartInv
<1>1. StartInv /\ [StartNext]_startVars => StartInv'
  BY StarterInv, WaiterInv, StartStutter DEF StartNext
<1>2. QED
  BY StartInitInv, <1>1, PTL DEF StartSpec

(* The state, the mutex and the threads' places always have their types    *)
(* (asynchronous_start.hpp).                                               *)
THEOREM StartTypeCorrect == StartSpec => []StartTypeOK
<1>1. StartInv => StartTypeOK
  BY DEF StartInv
<1>2. QED
  BY StartInvariance, <1>1, PTL

(* At most one thread is between taking and giving back the mutex, and it  *)
(* is its owner (the scoped locks of wait_for_start, is_stopped and stop,   *)
(* and the pair of lock and unlock of start).                              *)
THEOREM MutualExclusion == StartSpec => []OneInside
<1>1. StartInv => OneInside
  BY DEF StartInv
<1>2. QED
  BY StartInvariance, <1>1, PTL

(* Whenever the flowgraph runs and a thread still waits for it, a           *)
(* notification is on its way: start() and wait_for_start() miss no start,  *)
(* for any number of threads, starts and stops.                            *)
THEOREM WakeupNotLost == StartSpec => []NoLostWakeup
<1>1. StartInv => NoLostWakeup
  BY DEF StartInv
<1>2. QED
  BY StartInvariance, <1>1, PTL
=============================================================================
