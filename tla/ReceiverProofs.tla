---------------------------- MODULE ReceiverProofs ----------------------------
(***************************************************************************)
(* Proofs about Receiver, for every size of the frame counter, any command   *)
(* line and configuration file, and any losses: the account of lost frames,  *)
(* what the lock says, and the lengths along the chain of decoders.  The     *)
(* invariant follows the frames in the queue: each comes after the one       *)
(* before it (InOrder).  The numbers of two frames determine what lies        *)
(* between them up to whole turns of the counter (Numbers).  ChainInv says   *)
(* for every point of receive_path which constructors have run, and what     *)
(* they have left in message_bits.                                          *)
(***************************************************************************)
EXTENDS Receiver, SequenceTheorems, TLAPS

Messages == [short : BOOLEAN, n : Nat]

CountTypeOK ==
  /\ rcvd_pktq \in Seq(Messages)
  /\ n_rcvd \in Nat /\ n_lost \in Nat /\ lock \in 0 .. 3
  /\ sent \in Nat
  /\ account \in [last : Nat, missed : Nat, turns : Nat, wraps : Nat, row : Nat, longest : Nat,
                  mistaken : BOOLEAN]

\* The queue is read only in a running receiver
Started == watcher = "none" \/ phase \in {"running", "exited"}

\* A message and the frame number before it
Follows(msg, before) ==
  IF msg.short THEN msg.n = before ELSE msg.n >= before + 1

\* Every message of a queue comes after the one before it, the first one after last
Chain(q, last) ==
  \A i \in 1 .. Len(q) : Follows(q[i], IF i = 1 THEN last ELSE q[i - 1].n)

LastOf(q, last) == IF q = <<>> THEN last ELSE q[Len(q)].n

InOrder ==
  watcher # "dead" => Chain(rcvd_pktq, account.last) /\ sent = LastOf(rcvd_pktq, account.last)

\* The number remembered is that of the last frame, if there is one
LastNumber == /\ n_rcvd > 0 => p_frameno = account.last % COUNTER
              /\ n_rcvd = 0 => n_lost = 0

\* Before the lock, its counter is no more than the row of frames that goes on
RowInv ==
  /\ lock < 3 /\ ~account.mistaken => lock <= account.row
  /\ account.row <= account.longest

\* The inductive invariant
Inv == CountTypeOK /\ Started /\ InOrder /\ LastNumber /\ RowInv /\ LossAccount /\ LockEarned

-----------------------------------------------------------------------------
\* The numbers of two frames determine how far they are apart up to whole turns
\* of the counter, and whether the number wrapped round besides
LEMMA Numbers ==
  ASSUME NEW last \in Nat, NEW n \in Nat, n >= last + 1
  PROVE  LET p == last % COUNTER
             f == n % COUNTER
             g == n - last - 1
             w == n \div COUNTER - last \div COUNTER - g \div COUNTER
         IN /\ p \in 0 .. COUNTER - 1 /\ f \in 0 .. COUNTER - 1
            /\ g \in Nat /\ g % COUNTER \in 0 .. COUNTER - 1 /\ g \div COUNTER \in Nat
            /\ g = COUNTER * (g \div COUNTER) + (g % COUNTER)
            /\ f > p  => g % COUNTER = f - p - 1 /\ w = 0
            /\ f <= p => g % COUNTER = f + COUNTER - p - 1 /\ w = 1
<1> DEFINE c == COUNTER
           p == last % c
           f == n % c
           g == n - last - 1
           r == g % c
           q1 == last \div c
           q2 == n \div c
           t == g \div c
<1>1. c \in Nat /\ c > 1 /\ g \in Nat /\ n = last + g + 1
  BY ReceiverAssumption
<1> HIDE DEF c, g
<1>2. /\ p \in 0 .. c - 1 /\ q1 \in Nat /\ last = c * q1 + p
      /\ f \in 0 .. c - 1 /\ q2 \in Nat /\ n = c * q2 + f
      /\ r \in 0 .. c - 1 /\ t \in Nat /\ g = c * t + r
  BY <1>1, SMT
<1> HIDE DEF p, f, r, q1, q2, t
<1>3. PICK w \in Int : w = q2 - q1 - t
  BY <1>2
<1>4. q2 = q1 + t + w
  BY <1>2, <1>3
<1>5. c * q2 = c * q1 + c * t + c * w
  BY <1>1, <1>2, <1>3, <1>4, SMT
<1>6. c * w = r + 1 - f + p /\ c * w \in Int
  <2>1. c * q1 \in Int /\ c * t \in Int /\ c * w \in Int /\ c * q2 \in Int
    BY <1>1, <1>2, <1>3
  <2> QED
    BY <1>1, <1>2, <1>5, <2>1
<1>7. w >= 0
  <2>1. SUFFICES ASSUME w <= 0 - 1 PROVE FALSE
    BY <1>3
  <2>2. c * w <= 0 - c
    BY <1>1, <1>3, <2>1, SMT
  <2>3. QED
    BY <1>1, <1>2, <1>6, <2>2
<1>8. w <= 1
  <2>1. SUFFICES ASSUME w >= 2 PROVE FALSE
    BY <1>3
  <2>2. c * w >= c + c
    BY <1>1, <1>3, <2>1, SMT
  <2>3. QED
    BY <1>1, <1>2, <1>6, <2>2
<1>9. w = 0 \/ w = 1
  BY <1>3, <1>7, <1>8
<1>10. c * 0 = 0 /\ c * 1 = c
  BY <1>1
<1>11. /\ f > p  => r = f - p - 1 /\ w = 0
       /\ f <= p => r = f + c - p - 1 /\ w = 1
  <2>1. CASE w = 0
    BY <1>1, <1>2, <1>6, <1>10, <2>1
  <2>2. CASE w = 1
    BY <1>1, <1>2, <1>6, <1>10, <2>2
  <2> QED
    BY <1>9, <2>1, <2>2
<1>12. g % c = r /\ g \div c = t /\ p = last % c /\ f = n % c /\ w = n \div c - last \div c - g \div c
  BY <1>3 DEF p, f, r, q1, q2, t
<1>13. /\ last % c \in 0 .. c - 1 /\ n % c \in 0 .. c - 1
       /\ g \in Nat /\ g % c \in 0 .. c - 1 /\ g \div c \in Nat
       /\ g = c * (g \div c) + (g % c)
       /\ n % c > last % c =>
            g % c = (n % c) - (last % c) - 1 /\ n \div c - last \div c - g \div c = 0
       /\ n % c <= last % c =>
            g % c = (n % c) + c - (last % c) - 1 /\ n \div c - last \div c - g \div c = 1
  <2> HIDE DEF c
  <2>1. /\ p \in 0 .. c - 1 /\ f \in 0 .. c - 1 /\ g \in Nat /\ r \in 0 .. c - 1 /\ t \in Nat
        /\ g = c * t + r
    BY <1>1, <1>2
  <2>2. QED
    BY <1>11, <1>12, <2>1, Zenon
<1>14. QED
  BY <1>13 DEF c, g

\* What rx_callback adds for a gap is what was missed besides whole turns of
\* the counter, or up to two less if the number wrapped round
LEMMA SkippedOfGap ==
  ASSUME NEW last \in Nat, NEW n \in Nat, n >= last + 1,
         p_frameno = last % COUNTER
  PROVE  LET g == n - last - 1
             w == n \div COUNTER - last \div COUNTER - g \div COUNTER
         IN /\ Skipped(n % COUNTER) \in 0 .. g % COUNTER
            /\ g % COUNTER <= Skipped(n % COUNTER) + 2 * w
            /\ w \in 0 .. 1
<1> DEFINE p == last % COUNTER
           f == n % COUNTER
           g == n - last - 1
           r == g % COUNTER
           w == n \div COUNTER - last \div COUNTER - g \div COUNTER
           s == Skipped(f)
<1>1. /\ p \in 0 .. COUNTER - 1 /\ f \in 0 .. COUNTER - 1 /\ r \in 0 .. COUNTER - 1
      /\ f > p  => r = f - p - 1 /\ w = 0
      /\ f <= p => r = f + COUNTER - p - 1 /\ w = 1
  BY Numbers
<1>2. s = IF f > p THEN f - p - 1
          ELSE (IF p # COUNTER - 1 THEN COUNTER - 1 - p - 1 ELSE 0)
               + (IF f > 0 THEN f - 1 ELSE 0)
  BY DEF Skipped
<1>3. COUNTER \in Nat /\ COUNTER > 1
  BY ReceiverAssumption
<1> HIDE DEF p, f, r, w, s
<1>4. s \in 0 .. r /\ r <= s + 2 * w /\ w \in 0 .. 1
  <2>1. CASE f > p
    BY <1>1, <1>2, <1>3, <2>1
  <2>2. CASE f <= p
    BY <1>1, <1>2, <1>3, <2>2
  <2> QED
    BY <1>1, <2>1, <2>2
<1>5. QED
  BY <1>4 DEF f, g, r, w, s

\* The next number is that of the next frame, or one of whole turns later
LEMMA NextNumber ==
  ASSUME NEW last \in Nat, NEW n \in Nat, n >= last + 1,
         n % COUNTER = (last % COUNTER) + 1
  PROVE  (n - last - 1) % COUNTER = 0
<1> DEFINE p == last % COUNTER
           f == n % COUNTER
           r == (n - last - 1) % COUNTER
<1>1. /\ p \in 0 .. COUNTER - 1 /\ f \in 0 .. COUNTER - 1
      /\ f > p  => r = f - p - 1
  BY Numbers
<1>2. f = p + 1 /\ COUNTER \in Nat
  BY ReceiverAssumption
<1> HIDE DEF p, f, r
<1>3. r = 0
  BY <1>1, <1>2
<1>4. QED
  BY <1>3 DEF r

-----------------------------------------------------------------------------
\* A queue that gets a message that follows the last one
LEMMA ChainAppend ==
  ASSUME NEW q \in Seq(Messages), NEW last \in Nat, NEW msg \in Messages,
         Chain(q, last), Follows(msg, LastOf(q, last))
  PROVE  Chain(Append(q, msg), last) /\ LastOf(Append(q, msg), last) = msg.n
<1> DEFINE r == Append(q, msg)
<1>1. /\ r # <<>> /\ Len(r) = Len(q) + 1 /\ Len(q) \in Nat
      /\ r[Len(q) + 1] = msg
      /\ \A i \in 1 .. Len(q) : r[i] = q[i]
  BY AppendProperties
<1>2. q # <<>> => Len(q) \in Nat \ {0}
  BY EmptySeq
<1>3. q = <<>> => Len(q) = 0
  BY EmptySeq
<1> HIDE DEF r
<1>4. LastOf(r, last) = msg.n
  BY <1>1 DEF LastOf
<1>5. ASSUME NEW i \in 1 .. Len(r)
      PROVE  Follows(r[i], IF i = 1 THEN last ELSE r[i - 1].n)
  <2>1. CASE i \in 1 .. Len(q)
    <3>1. Follows(q[i], IF i = 1 THEN last ELSE q[i - 1].n)
      BY <2>1 DEF Chain
    <3>2. r[i] = q[i] /\ (i # 1 => r[i - 1] = q[i - 1])
      BY <1>1, <2>1
    <3>3. QED
      BY <3>1, <3>2
  <2>2. CASE i = Len(q) + 1
    <3>1. (IF i = 1 THEN last ELSE r[i - 1].n) = LastOf(q, last)
      <4>1. CASE q = <<>>
        BY <1>3, <2>2, <4>1 DEF LastOf
      <4>2. CASE q # <<>>
        <5>1. i # 1 /\ i - 1 = Len(q) /\ Len(q) \in 1 .. Len(q)
          BY <1>2, <2>2, <4>2
        <5>2. QED
          BY <1>1, <4>2, <5>1 DEF LastOf
      <4>3. QED
        BY <4>1, <4>2
    <3>2. QED
      BY <1>1, <2>2, <3>1
  <2>3. QED
    BY <1>1, <2>1, <2>2
<1>6. Chain(r, last)
  BY <1>5 DEF Chain
<1>7. QED
  BY <1>4, <1>6 DEF r

\* A queue that loses its first message
LEMMA ChainTail ==
  ASSUME NEW q \in Seq(Messages), NEW last \in Nat, q # <<>>, Chain(q, last)
  PROVE  /\ Head(q) \in Messages /\ Follows(Head(q), last)
         /\ Tail(q) \in Seq(Messages)
         /\ Chain(Tail(q), Head(q).n)
         /\ LastOf(Tail(q), Head(q).n) = LastOf(q, last)
<1> DEFINE r == Tail(q)
<1>1. /\ Head(q) \in Messages /\ Head(q) = q[1] /\ r \in Seq(Messages)
      /\ Len(q) \in Nat \ {0} /\ Len(r) = Len(q) - 1
      /\ \A i \in 1 .. Len(r) : r[i] = q[i + 1]
  BY HeadTailProperties, EmptySeq
<1>2. r # <<>> => Len(r) \in Nat \ {0}
  BY <1>1, EmptySeq
<1>3. r = <<>> => Len(r) = 0
  BY EmptySeq
<1> HIDE DEF r
<1>4. Follows(Head(q), last)
  BY <1>1 DEF Chain
<1>5. ASSUME NEW i \in 1 .. Len(r)
      PROVE  Follows(r[i], IF i = 1 THEN Head(q).n ELSE r[i - 1].n)
  <2>1. i + 1 \in 1 .. Len(q) /\ i + 1 # 1 /\ (i + 1) - 1 = i
    BY <1>1
  <2>2. Follows(q[i + 1], q[i].n)
    BY <2>1 DEF Chain
  <2>3. r[i] = q[i + 1]
    BY <1>1
  <2>4. i # 1 => r[i - 1].n = q[i].n
    <3>1. i # 1 => i - 1 \in 1 .. Len(r) /\ (i - 1) + 1 = i
      BY <1>1
    <3>2. QED
      BY <1>1, <3>1
  <2>5. QED
    BY <1>1, <2>2, <2>3, <2>4
<1>6. LastOf(r, Head(q).n) = LastOf(q, last)
  <2>1. CASE r = <<>>
    <3>1. Len(q) = 1
      BY <1>1, <1>3, <2>1
    <3>2. QED
      BY <1>1, <2>1, <3>1 DEF LastOf
  <2>2. CASE r # <<>>
    <3>1. Len(r) \in 1 .. Len(r) /\ Len(r) + 1 = Len(q)
      BY <1>1, <1>2, <2>2
    <3>2. r[Len(r)] = q[Len(q)]
      BY <1>1, <3>1
    <3>3. QED
      BY <2>2, <3>2 DEF LastOf
  <2>3. QED
    BY <2>1, <2>2
<1>7. Chain(r, Head(q).n)
  BY <1>5 DEF Chain
<1>8. QED
  BY <1>1, <1>4, <1>6, <1>7 DEF r

-----------------------------------------------------------------------------
LEMMA InitInv == Init => Inv
<1> SUFFICES ASSUME Init PROVE Inv
  OBVIOUS
<1>1. CountTypeOK /\ rcvd_pktq = <<>> /\ Len(rcvd_pktq) = 0
  BY EmptySeq DEF Init, CountTypeOK
<1>2. Started /\ LastNumber /\ RowInv /\ LockEarned
  BY DEF Init, Started, LastNumber, RowInv, LockEarned
<1>4. LossAccount
  <2>1. COUNTER * 0 = 0
    BY ReceiverAssumption
  <2>2. n_lost = 0 /\ account.turns = 0 /\ account.missed = 0 /\ account.wraps = 0
    BY DEF Init
  <2> QED
    BY <2>1, <2>2 DEF LossAccount
<1>3. InOrder
  BY <1>1 DEF Init, InOrder, Chain, LastOf
<1>5. QED
  BY <1>1, <1>2, <1>3, <1>4 DEF Inv

\* What Inv is about stays as it is
CountUnchanged ==
  UNCHANGED <<rcvd_pktq, n_rcvd, n_lost, p_frameno, lock, sent, account>>

\* A step of main(): the queue is not touched, and the watcher started only once
LEMMA MainInv ==
  ASSUME Inv, CountUnchanged,
         \/ watcher' = watcher
         \/ watcher = "none" /\ watcher' = "running",
         watcher' = "none" \/ phase' \in {"running", "exited"}
  PROVE  Inv'
<1>1. CountTypeOK'
  BY DEF Inv, CountTypeOK, CountUnchanged
<1>2. Started'
  BY DEF Started
<1>3. InOrder'
  BY DEF Inv, InOrder, CountUnchanged
<1>4. LastNumber' /\ RowInv' /\ LossAccount' /\ LockEarned'
  BY DEF Inv, LastNumber, RowInv, LossAccount, LockEarned, CountUnchanged
<1>5. QED
  BY <1>1, <1>2, <1>3, <1>4 DEF Inv

\* A message is put in the queue behind the others
LEMMA PutInv ==
  ASSUME Inv, NEW msg \in Messages, Put(msg), sent' = msg.n, Follows(msg, sent)
  PROVE  Inv'
<1>1. /\ rcvd_pktq' = Append(rcvd_pktq, msg)
      /\ UNCHANGED <<phase, watcher, n_rcvd, n_lost, p_frameno, lock, account>>
  BY DEF Put, countVars
<1>2. rcvd_pktq \in Seq(Messages) /\ rcvd_pktq' \in Seq(Messages)
  BY <1>1, AppendProperties DEF Inv, CountTypeOK
<1>3. CountTypeOK'
  BY <1>1, <1>2 DEF Inv, CountTypeOK, Messages
<1>4. Started'
  BY <1>1 DEF Inv, Started
<1>5. InOrder'
  BY <1>1, <1>2, ChainAppend DEF Inv, InOrder, CountTypeOK
<1>6. LastNumber' /\ RowInv' /\ LossAccount' /\ LockEarned'
  BY <1>1 DEF Inv, LastNumber, RowInv, LossAccount, LockEarned
<1>7. QED
  BY <1>3, <1>4, <1>5, <1>6 DEF Inv

\* The lock is set by frames in a row only, and by gaps of whole turns
LEMMA LockOfRow ==
  ASSUME Inv, NEW n \in Nat, n >= account.last + 1,
         rx_callback(n % COUNTER), account' = Accounted(n)
  PROVE  /\ lock' \in 0 .. 3 /\ account'.row \in Nat /\ account'.longest \in Nat
         /\ account'.mistaken \in BOOLEAN
         /\ RowInv' /\ LockEarned'
<1> DEFINE last == account.last
           gap == n - last - 1
           row == IF n_rcvd > 0 /\ gap = 0 THEN account.row + 1 ELSE 0
           Turned == n_rcvd > 0 /\ ~(n_rcvd > 0 /\ lock = 3) /\ gap > 0 /\ gap % COUNTER = 0
<1>1. /\ n_rcvd \in Nat /\ lock \in 0 .. 3 /\ last \in Nat
      /\ account.row \in Nat /\ account.longest \in Nat /\ account.mistaken \in BOOLEAN
      /\ lock < 3 /\ ~account.mistaken => lock <= account.row
      /\ account.row <= account.longest
      /\ ~account.mistaken => lock <= account.longest
  BY DEF Inv, CountTypeOK, RowInv, LockEarned
<1>2. /\ account'.row = row
      /\ account'.longest = IF row > account.longest THEN row ELSE account.longest
      /\ account'.mistaken = (account.mistaken \/ Turned)
  BY DEF Accounted
<1>3. row \in Nat /\ gap \in Nat
  BY <1>1
<1>4. lock' = IF n_rcvd = 0 THEN 0 ELSE IF lock < 3 THEN NextLock(n % COUNTER) ELSE lock
  BY DEF rx_callback
<1>5. n_rcvd # 0 => \/ NextLock(n % COUNTER) = 0
                    \/ NextLock(n % COUNTER) = lock + 1 /\ gap % COUNTER = 0
  <2>1. CASE n % COUNTER = p_frameno + 1 /\ n_rcvd # 0
    <3>1. n_rcvd > 0
      BY <1>1, <2>1
    <3>2. p_frameno = last % COUNTER
      BY <3>1 DEF Inv, LastNumber
    <3>3. gap % COUNTER = 0
      BY <1>1, <2>1, <3>2, NextNumber
    <3>4. QED
      BY <2>1, <3>3 DEF NextLock
  <2>2. QED
    BY <2>1 DEF NextLock
<1>6. n_rcvd # 0 /\ lock < 3 /\ ~Turned =>
        \/ NextLock(n % COUNTER) = 0
        \/ NextLock(n % COUNTER) = lock + 1 /\ row = account.row + 1
  <2>1. n_rcvd # 0 => n_rcvd > 0
    BY <1>1
  <2>2. gap = 0 \/ gap > 0
    <3> HIDE DEF gap
    <3> QED
      BY <1>3
  <2> HIDE DEF gap
  <2> QED
    BY <1>1, <1>5, <2>1, <2>2
<1>7. n_rcvd # 0 => NextLock(n % COUNTER) \in {0, lock + 1}
  BY <1>5
<1> DEFINE next == NextLock(n % COUNTER)
<1> HIDE DEF row, last, gap, next, Turned
<1>8. /\ lock' \in 0 .. 3
      /\ lock' < 3 /\ ~account.mistaken /\ ~Turned => lock' <= row
      /\ ~account.mistaken /\ ~Turned => lock' <= account.longest \/ lock' <= row
  <2>1. CASE n_rcvd = 0
    BY <1>1, <1>3, <1>4, <2>1
  <2>2. CASE n_rcvd # 0 /\ lock < 3
    <3>1. lock' = next /\ next \in {0, lock + 1}
      BY <1>4, <1>7, <2>2 DEF next
    <3>2. ~Turned => (next = 0 \/ (next = lock + 1 /\ row = account.row + 1))
      BY <1>6, <2>2 DEF next
    <3> QED
      BY <1>1, <1>3, <2>2, <3>1, <3>2
  <2>3. CASE n_rcvd # 0 /\ ~(lock < 3)
    BY <1>1, <1>3, <1>4, <2>3
  <2> QED
    BY <2>1, <2>2, <2>3
<1>9. account'.mistaken \in BOOLEAN /\ account'.row \in Nat /\ account'.longest \in Nat
  BY <1>1, <1>2, <1>3
<1>10. RowInv' /\ LockEarned'
  <2>1. row <= account'.longest /\ account.longest <= account'.longest
    BY <1>1, <1>2, <1>3
  <2>2. ~account'.mistaken => ~account.mistaken /\ ~Turned
    BY <1>2
  <2>3. RowInv'
    BY <1>2, <1>8, <2>1, <2>2 DEF RowInv
  <2>4. ~account'.mistaken => lock' <= account'.longest
    BY <1>1, <1>2, <1>3, <1>8, <2>1, <2>2
  <2> QED
    BY <2>3, <2>4 DEF LockEarned
<1>11. QED
  BY <1>8, <1>9, <1>10

\* The account of the losses follows what was missed
LEMMA LossOfGap ==
  ASSUME Inv, NEW n \in Nat, n >= account.last + 1,
         rx_callback(n % COUNTER), account' = Accounted(n)
  PROVE  /\ n_lost' \in Nat /\ account'.missed \in Nat /\ account'.turns \in Nat
         /\ account'.wraps \in Nat
         /\ LossAccount'
<1> DEFINE last == account.last
           c == COUNTER
           gap == n - last - 1
           turn == gap \div c
           rest == gap % c
           wrap == n \div c - last \div c - turn
           skip == Skipped(n % c)
           missed == account.missed
           turns == account.turns
           wraps == account.wraps
<1>1. /\ n_rcvd \in Nat /\ lock \in 0 .. 3 /\ last \in Nat /\ n_lost \in Nat
      /\ missed \in Nat /\ turns \in Nat /\ wraps \in Nat
      /\ n_lost + c * turns <= missed /\ missed <= n_lost + c * turns + 2 * wraps
      /\ n_rcvd = 0 => n_lost = 0
  BY DEF Inv, CountTypeOK, LastNumber, LossAccount
<1>2. c \in Nat /\ gap \in Nat /\ turn \in Nat /\ rest \in Nat /\ gap = c * turn + rest
  <2>1. /\ gap \in Nat /\ gap % COUNTER \in 0 .. COUNTER - 1 /\ gap \div COUNTER \in Nat
        /\ gap = COUNTER * (gap \div COUNTER) + (gap % COUNTER)
    BY <1>1, Numbers
  <2> HIDE DEF gap
  <2> QED
    BY <2>1, ReceiverAssumption
<1>3. n_lost' = IF n_rcvd = 0 THEN 0 ELSE IF lock < 3 THEN n_lost ELSE n_lost + skip
  BY DEF rx_callback
<1>4. /\ account'.missed = missed + (IF n_rcvd > 0 /\ lock = 3 THEN gap ELSE 0)
      /\ account'.turns = turns + (IF n_rcvd > 0 /\ lock = 3 THEN turn ELSE 0)
      /\ account'.wraps = wraps + (IF n_rcvd > 0 /\ lock = 3 THEN wrap ELSE 0)
  BY DEF Accounted
<1>5. n_rcvd > 0 => skip \in 0 .. rest /\ rest <= skip + 2 * wrap /\ wrap \in 0 .. 1
  <2>1. n_rcvd > 0 => p_frameno = last % c
    BY DEF Inv, LastNumber
  <2>2. QED
    BY <1>1, <2>1, SkippedOfGap
<1>6. c * (turns + turn) = c * turns + c * turn /\ c * turns \in Nat /\ c * turn \in Nat
  <2> HIDE DEF c, turns, turn
  <2> QED
    BY <1>1, <1>2
<1> HIDE DEF last, c, gap, turn, rest, wrap, skip, missed, turns, wraps
<1>7. CASE n_rcvd > 0 /\ lock = 3
  <2>1. /\ n_lost' = n_lost + skip /\ account'.missed = missed + gap
        /\ account'.turns = turns + turn /\ account'.wraps = wraps + wrap
    BY <1>1, <1>3, <1>4, <1>7
  <2>2. /\ n_lost' \in Nat /\ account'.missed \in Nat /\ account'.turns \in Nat
        /\ account'.wraps \in Nat
    BY <1>1, <1>2, <1>5, <1>7, <2>1
  <2>3. c * account'.turns = c * turns + c * turn
    BY <1>6, <2>1
  <2>4. /\ n_lost' + c * account'.turns <= account'.missed
        /\ account'.missed <= n_lost' + c * account'.turns + 2 * account'.wraps
    BY <1>1, <1>2, <1>5, <1>6, <1>7, <2>1, <2>3
  <2> QED
    BY <2>2, <2>4 DEF LossAccount, c
<1>8. CASE ~(n_rcvd > 0 /\ lock = 3)
  <2>1. /\ n_lost' = n_lost /\ account'.missed = missed
        /\ account'.turns = turns /\ account'.wraps = wraps
    BY <1>1, <1>3, <1>4, <1>8
  <2> QED
    BY <1>1, <2>1 DEF LossAccount, c, missed, turns, wraps
<1>9. QED
  BY <1>7, <1>8

LEMMA WatchInv == ASSUME Inv, Watch PROVE Inv'
<1> DEFINE q == rcvd_pktq
           n == Head(q).n
<1>1. /\ watcher = "running" /\ phase = "running" /\ q # <<>> /\ ~Head(q).short
      /\ rcvd_pktq' = Tail(q)
      /\ rx_callback(n % COUNTER) /\ account' = Accounted(n)
      /\ UNCHANGED <<phase, watcher, sent>>
  BY DEF Watch, FrameNumber
<1>2. /\ q \in Seq(Messages) /\ account.last \in Nat /\ n_rcvd \in Nat /\ sent \in Nat
      /\ Chain(q, account.last) /\ sent = LastOf(q, account.last)
  BY <1>1 DEF Inv, CountTypeOK, InOrder
<1>3. /\ n \in Nat /\ n >= account.last + 1
      /\ Tail(q) \in Seq(Messages) /\ Chain(Tail(q), n) /\ LastOf(Tail(q), n) = sent
  BY <1>1, <1>2, ChainTail DEF Follows, Messages
<1> HIDE DEF q
<1>4. account'.last = n /\ n \in Nat
  BY <1>1, <1>2, <1>3, ReceiverAssumption DEF Accounted
<1>5. /\ lock' \in 0 .. 3 /\ account'.row \in Nat /\ account'.longest \in Nat
      /\ account'.mistaken \in BOOLEAN
      /\ RowInv' /\ LockEarned'
  BY <1>1, <1>3, LockOfRow
<1>6. /\ n_lost' \in Nat /\ account'.missed \in Nat /\ account'.turns \in Nat
      /\ account'.wraps \in Nat
      /\ LossAccount'
  BY <1>1, <1>3, LossOfGap
<1>7. n_rcvd' = n_rcvd + 1 /\ p_frameno' = n % COUNTER
  BY <1>1 DEF rx_callback
<1>8. account' \in [last : Nat, missed : Nat, turns : Nat, wraps : Nat, row : Nat, longest : Nat,
                    mistaken : BOOLEAN]
  <2>1. account' = [last |-> account'.last, missed |-> account'.missed,
                    turns |-> account'.turns, wraps |-> account'.wraps, row |-> account'.row,
                    longest |-> account'.longest, mistaken |-> account'.mistaken]
    BY <1>1 DEF Accounted
  <2>2. QED
    BY <1>4, <1>5, <1>6, <2>1
<1>9. CountTypeOK'
  BY <1>1, <1>2, <1>3, <1>5, <1>6, <1>7, <1>8 DEF CountTypeOK
<1>10. Started'
  BY <1>1 DEF Started
<1>11. InOrder'
  BY <1>1, <1>3, <1>4 DEF InOrder
<1>12. LastNumber'
  BY <1>2, <1>4, <1>7 DEF LastNumber
<1>13. QED
  BY <1>5, <1>6, <1>9, <1>10, <1>11, <1>12 DEF Inv

\* A short message ends the watcher, and nothing is counted any more
LEMMA WatchShortInv == ASSUME Inv, WatchShort PROVE Inv'
<1>1. /\ phase = "running" /\ watcher' = "dead" /\ rcvd_pktq # <<>>
      /\ rcvd_pktq' = Tail(rcvd_pktq)
      /\ UNCHANGED <<phase, n_rcvd, n_lost, p_frameno, lock, sent, account>>
  BY DEF WatchShort, countVars
<1>2. rcvd_pktq' \in Seq(Messages)
  BY <1>1, HeadTailProperties DEF Inv, CountTypeOK
<1>3. CountTypeOK'
  BY <1>1, <1>2 DEF Inv, CountTypeOK, Messages
<1>4. Started' /\ InOrder' /\ LastNumber' /\ RowInv' /\ LossAccount' /\ LockEarned'
  BY <1>1 DEF Inv, Started, InOrder, LastNumber, RowInv, LossAccount, LockEarned
<1>5. QED
  BY <1>3, <1>4 DEF Inv

LEMMA DeliverInv == ASSUME Inv, NEW lost \in 0 .. MaxSent, Deliver(lost) PROVE Inv'
<1> DEFINE msg == Message(FALSE, sent')
<1>1. sent \in Nat /\ sent' = sent + lost + 1 /\ Put(msg)
  BY DEF Inv, CountTypeOK, Deliver
<1>2. sent' >= sent + 1 /\ sent' \in Nat
  BY <1>1, ReceiverAssumption
<1>3. msg \in Messages /\ msg.n = sent' /\ Follows(msg, sent)
  BY <1>2 DEF Message, Messages, Follows
<1> HIDE DEF msg
<1>4. QED
  BY <1>1, <1>3, PutInv

LEMMA DeliverShortInv == ASSUME Inv, DeliverShort PROVE Inv'
<1> DEFINE msg == Message(TRUE, sent)
<1>1. sent \in Nat /\ sent' = sent /\ Put(msg)
  BY DEF Inv, CountTypeOK, DeliverShort
<1>2. msg \in Messages /\ msg.n = sent' /\ Follows(msg, sent)
  BY <1>1 DEF Message, Messages, Follows
<1> HIDE DEF msg
<1>3. QED
  BY <1>1, <1>2, PutInv

LEMMA Invariance == Spec => []Inv
<1>1. ASSUME Inv, [Next]_vars PROVE Inv'
  <2>1. CASE getFileConfig \/ merge \/ validate
    <3>1. CountUnchanged /\ UNCHANGED watcher /\ watcher = "none"
      BY <1>1, <2>1 DEF Inv, Started, getFileConfig, merge, validate, CountUnchanged, countVars
    <3>2. QED
      BY <1>1, <3>1, MainInv
  <2>10. CASE \E name \in Stages : construct(name)
    <3>1. CountUnchanged /\ UNCHANGED watcher /\ watcher = "none"
      BY <1>1, <2>10 DEF Inv, Started, construct, Stages, CountUnchanged, countVars
    <3>2. QED
      BY <1>1, <3>1, MainInv
  <2>2. CASE receive_path
    <3>1. /\ CountUnchanged /\ watcher = "none" /\ phase' = "running"
          /\ watcher' \in {"none", "running"}
      BY <1>1, <2>2 DEF Inv, Started, receive_path, CountUnchanged, countVars
    <3>2. QED
      BY <1>1, <3>1, MainInv
  <2>3. CASE \E lost \in 0 .. MaxSent : Deliver(lost)
    BY <1>1, <2>3, DeliverInv
  <2>4. CASE DeliverShort
    BY <1>1, <2>4, DeliverShortInv
  <2>5. CASE Watch
    BY <1>1, <2>5, WatchInv
  <2>6. CASE WatchShort
    BY <1>1, <2>6, WatchShortInv
  <2>7. CASE exit
    <3>1. CountUnchanged /\ UNCHANGED watcher /\ phase' = "exited"
      BY <1>1, <2>7 DEF exit, CountUnchanged, countVars
    <3>2. QED
      BY <1>1, <3>1, MainInv
  <2>8. CASE UNCHANGED vars
    <3>1. CountUnchanged /\ UNCHANGED <<watcher, phase>>
      BY <1>1, <2>8 DEF vars, CountUnchanged, countVars
    <3>2. watcher' = "none" \/ phase' \in {"running", "exited"}
      BY <1>1, <3>1 DEF Inv, Started
    <3>3. QED
      BY <1>1, <3>1, <3>2, MainInv
  <2>9. QED
    BY <1>1, <2>1, <2>2, <2>3, <2>4, <2>5, <2>6, <2>7, <2>8, <2>10 DEF Next
<1>2. QED
  BY InitInv, <1>1, PTL DEF Spec

(* For every size of the frame counter and all losses, rx_callback counts no *)
(* frame as lost that was received or sent before the lock, and leaves out   *)
(* the whole turns of the counter in a gap and at most two with each wrap of *)
(* the number besides.                                                      *)
THEOREM ReceiverLossAccount == Spec => []LossAccount
<1>1. Inv => LossAccount
  BY DEF Inv
<1>2. QED
  BY Invariance, <1>1, PTL

(* The lock counter of rx_callback never exceeds the longest row of frames   *)
(* that really followed each other, unless exactly COUNTER frames, or a      *)
(* multiple, were lost between two frames before the lock: no other gap       *)
(* looks like the next frame.                                               *)
THEOREM ReceiverLockEarned == Spec => []LockEarned
<1>1. Inv => LockEarned
  BY DEF Inv
<1>2. QED
  BY Invariance, <1>1, PTL

-----------------------------------------------------------------------------
(* The chain of decoders *)

\* The stages built so far are told what PipelineBits says.
StagesOK ==
  /\ stages \in Seq([name : Stages, bits : Int])
  /\ \A i \in 1 .. Len(stages) :
       stages[i].bits = IF stages[i].name \in {"frame_sync", "viterbi27"}
                        THEN frame_syms ELSE DecodedBits

\* What the constructors before a point of receive_path have left.
ChainInv ==
  /\ phase \in {"frame_sync", "viterbi27", "derandomise", "reed_solomon", "output", "running"} =>
       StagesOK
  /\ phase \in {"file", "merge", "validate"} => stages = <<>>
  /\ phase \in {"frame_sync", "viterbi27"} => message_bits = frame_syms
  /\ phase \in {"derandomise", "reed_solomon"} => message_bits = DecodedBits
  /\ phase \in {"output", "running"} =>
       message_bits = DecodedBits - (IF options.reed_solomon THEN PARITY_BITS ELSE 0)

\* A constructor is told what PipelineBits says, and leaves what the next one
\* needs.
LEMMA Constructed ==
  ASSUME ChainInv, NEW name \in Stages, construct(name)
  PROVE  ChainInv'
<1>1. /\ phase = name /\ phase' = NextStage[name] /\ options' = options
      /\ IF options[name]
         THEN stages' = Append(stages, Stage(name, Told(name))) /\ message_bits' = Changed(name)
         ELSE UNCHANGED <<stages, message_bits>>
  BY DEF construct
<1>2. /\ name \in {"frame_sync", "viterbi27", "derandomise", "reed_solomon"}
      /\ frame_syms \in Nat /\ PARITY_BITS \in Nat /\ DecodedBits \in Int
      /\ DecodedBits' = DecodedBits
  BY <1>1, ReceiverAssumption DEF Stages, DecodedBits
<1>3. Told(name) \in Int /\ StagesOK
      /\ Told(name) = IF name \in {"frame_sync", "viterbi27"} THEN frame_syms ELSE DecodedBits
  <2>1. StagesOK
    BY <1>1, <1>2 DEF ChainInv
  <2>2. CASE name \in {"frame_sync", "viterbi27"}
    BY <1>2, <2>1, <2>2 DEF Told
  <2>3. CASE name \in {"derandomise", "reed_solomon"}
    <3>1. message_bits = DecodedBits /\ name \notin {"frame_sync", "viterbi27"}
      BY <1>1, <2>3 DEF ChainInv
    <3> QED
      BY <1>2, <2>1, <3>1 DEF Told
  <2> QED
    BY <1>2, <2>2, <2>3
<1>4. StagesOK'
  <2>1. CASE options[name]
    <3> DEFINE new == Stage(name, Told(name))
    <3>1. /\ stages' = Append(stages, new) /\ new.bits = Told(name) /\ new.name = name
          /\ new \in [name : Stages, bits : Int]
      BY <1>1, <1>3, <2>1 DEF Stage
    <3> HIDE DEF new
    <3>2. /\ stages' \in Seq([name : Stages, bits : Int]) /\ Len(stages') = Len(stages) + 1
          /\ stages'[Len(stages) + 1] = new /\ Len(stages) \in Nat
          /\ \A i \in 1 .. Len(stages) : stages'[i] = stages[i]
      BY <1>3, <3>1, AppendProperties DEF StagesOK
    <3>3. ASSUME NEW i \in 1 .. Len(stages')
          PROVE  stages'[i].bits = IF stages'[i].name \in {"frame_sync", "viterbi27"}
                                   THEN frame_syms ELSE DecodedBits
      <4>1. i \in 1 .. Len(stages) \/ i = Len(stages) + 1
        BY <3>2
      <4> QED
        BY <1>3, <3>1, <3>2, <4>1 DEF StagesOK
    <3> QED
      BY <1>2, <3>2, <3>3 DEF StagesOK
  <2>2. CASE ~options[name]
    BY <1>1, <1>2, <1>3, <2>2 DEF StagesOK
  <2> QED
    BY <2>1, <2>2
<1>5. CASE name = "frame_sync"
  <2>1. phase' = "viterbi27" /\ message_bits' = message_bits /\ message_bits = frame_syms
    BY <1>1, <1>5 DEF NextStage, Changed, ChainInv
  <2> QED
    BY <1>4, <2>1 DEF ChainInv
<1>6. CASE name = "viterbi27"
  <2>1. phase' = "derandomise" /\ message_bits = frame_syms
    BY <1>1, <1>6 DEF NextStage, ChainInv
  <2>2. message_bits' = DecodedBits
    <3>1. CASE options.viterbi27
      BY <1>1, <1>6, <2>1, <3>1 DEF Changed, DecodedBits
    <3>2. CASE ~options.viterbi27
      <4>1. message_bits' = frame_syms /\ DecodedBits = frame_syms \div 1
        BY <1>1, <1>6, <2>1, <3>2 DEF DecodedBits
      <4> QED
        BY <1>2, <4>1
    <3> QED
      BY <3>1, <3>2
  <2> QED
    BY <1>2, <1>4, <2>1, <2>2 DEF ChainInv
<1>7. CASE name = "derandomise"
  <2>1. phase' = "reed_solomon" /\ message_bits' = message_bits /\ message_bits = DecodedBits
    BY <1>1, <1>7 DEF NextStage, Changed, ChainInv
  <2> QED
    BY <1>2, <1>4, <2>1 DEF ChainInv
<1>8. CASE name = "reed_solomon"
  <2>1. phase' = "output" /\ message_bits = DecodedBits
        /\ message_bits' = IF options.reed_solomon THEN message_bits - PARITY_BITS ELSE message_bits
    BY <1>1, <1>8 DEF NextStage, Changed, ChainInv
  <2>2. message_bits' = DecodedBits - (IF options.reed_solomon THEN PARITY_BITS ELSE 0)
    BY <1>2, <2>1
  <2> QED
    BY <1>1, <1>2, <1>4, <2>1, <2>2 DEF ChainInv
<1> QED
  BY <1>2, <1>5, <1>6, <1>7, <1>8

\* Nothing changes the chain when it is built.
LEMMA ChainKept ==
  ASSUME ChainInv, UNCHANGED <<phase, options, stages, message_bits>>
  PROVE  ChainInv'
BY DEF ChainInv, StagesOK, DecodedBits

LEMMA ChainInvariance == Spec => []ChainInv
<1>1. Init => ChainInv
  BY DEF Init, ChainInv
<1>2. ChainInv /\ [Next]_vars => ChainInv'
  <2> SUFFICES ASSUME ChainInv, [Next]_vars
               PROVE  ChainInv'
    OBVIOUS
  <2>1. CASE getFileConfig \/ merge
    <3>1. phase \in {"file", "merge"} /\ phase' \in {"merge", "validate"} /\ stages' = stages
      BY <2>1 DEF getFileConfig, merge
    <3> QED
      BY <3>1 DEF ChainInv
  <2>2. CASE validate
    <3>1. /\ phase = "validate" /\ stages' = stages
          /\ phase' = "exited" \/ (phase' = "frame_sync" /\ message_bits' = frame_syms)
      BY <2>2 DEF validate
    <3>2. stages' = <<>> /\ StagesOK'
      BY <3>1 DEF ChainInv, StagesOK
    <3> QED
      BY <3>1, <3>2 DEF ChainInv
  <2>3. CASE \E name \in Stages : construct(name)
    BY <2>3, Constructed
  <2>4. CASE receive_path
    <3>1. phase = "output" /\ phase' = "running" /\ UNCHANGED <<options, stages, message_bits>>
      BY <2>4 DEF receive_path, configVars
    <3> QED
      BY <3>1 DEF ChainInv, StagesOK, DecodedBits
  <2>5. CASE exit
    <3>1. phase' = "exited"
      BY <2>5 DEF exit
    <3> QED
      BY <3>1 DEF ChainInv
  <2>6. CASE (\E lost \in 0 .. MaxSent : Deliver(lost)) \/ DeliverShort \/ Watch \/ WatchShort
    <3>1. UNCHANGED <<phase, options, stages, message_bits>>
      BY <2>6 DEF Deliver, DeliverShort, Put, Watch, WatchShort, configVars
    <3> QED
      BY <3>1, ChainKept
  <2>7. CASE UNCHANGED vars
    BY <2>7, ChainKept DEF vars, configVars
  <2> QED
    BY <2>1, <2>2, <2>3, <2>4, <2>5, <2>6, <2>7 DEF Next
<1> QED
  BY <1>1, <1>2, PTL DEF Spec

\* For every size of a frame and every choice of stages, the constructors that
\* receive_path calls one after the other pass the symbols of a frame to the
\* framer and the Viterbi decoder and the bits of the decoded frame to the others.
THEOREM ReceiverPipelineBits == Spec => []PipelineBits
<1>1. ChainInv => PipelineBits
  BY DEF ChainInv, StagesOK, PipelineBits
<1> QED
  BY <1>1, ChainInvariance, PTL
=============================================================================
