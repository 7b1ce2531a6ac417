--------------------------- MODULE ConvLinkProofs ---------------------------
(***************************************************************************)
(* Proofs about ConvLink: the encoder sends one stream, whatever the       *)
(* polynomials, the puncturing scheme and the division of input and output *)
(* into bytes and calls; and the decoder finds the frames in it at which   *)
(* the pattern starts anew.                                                *)
(*                                                                         *)
(* Puncturing is recursive in the length of the bits.  What is kept of one *)
(* sequence after another, how much is kept of a byte and that only the    *)
(* place in the pattern matters is proved by induction over that length,   *)
(* from the well-foundedness of the natural numbers.  A bit of the code is *)
(* made of seven bits of the stream, which the shift register holds.       *)
(*                                                                         *)
(* The inductive invariant EncoderInv adds to the types and to OneStream:  *)
(* the shift register holds the last seven bits of the input, the position *)
(* in the pattern is that of the stream, and a running call has output a   *)
(* byte or has input left (CallInv).                                       *)
(*                                                                         *)
(* The second half is about the frames.  libfec computes the bits of the   *)
(* encoder (LibfecSame), so the survivors are the paths whose transmitted  *)
(* code is the one received (SurvivorsAgree, PathKept); what is received   *)
(* at an aligned frame is its own code (FrameReceived), and no other path  *)
(* has that code (CodeUnique).  The invariant DecodedInv adds that markers *)
(* and frames alternate in the input and that the frame last found has     *)
(* been encoded and decoded.                                               *)
(***************************************************************************)
EXTENDS ConvLink, SequenceTheorems, FiniteSetTheorems, WellFoundedInduction, TLAPS

-----------------------------------------------------------------------------
(* Puncturing *)

\* Induction over the natural numbers, for sets.
LEMMA SetInduction ==
  ASSUME NEW S \in SUBSET Nat, 0 \in S, \A n \in S : n + 1 \in S
  PROVE  S = Nat
<1> DEFINE R == OpToRel(<, Nat)
           T == Nat \ S
<1>1. SUFFICES ASSUME T # {} PROVE FALSE
  OBVIOUS
<1>2. IsWellFoundedOn(R, Nat)
  BY NatLessThanWellFounded
<1>3. PICK n \in T : \A m \in T : ~ (<<m, n>> \in R)
  <2> HIDE DEF R
  <2> QED
    BY <1>1, <1>2, WFMin
<1>4. n \in Nat /\ n # 0
  OBVIOUS
<1>5. n - 1 \in Nat /\ n - 1 < n
  BY <1>4
<1>6. <<n - 1, n>> \in R
  BY <1>4, <1>5 DEF OpToRel
<1>7. n - 1 \in S
  BY <1>3, <1>5, <1>6
<1>8. (n - 1) + 1 = n
  BY <1>4
<1> QED
  BY <1>7, <1>8

\* The patterns are not empty, and say of each bit whether it is kept.
LEMMA Patterns ==
  ASSUME NEW p \in PunctTypes
  PROVE  /\ get_pattern_len(p) \in {1, 3, 4, 10, 14}
         /\ \A i \in Nat : Keeps(p, i) \in BOOLEAN
<1>1. ASSUME p = "NONE"
     PROVE  get_pattern[p] \in Seq(BOOLEAN) /\ Len(get_pattern[p]) = 1
  <2>1. get_pattern[p] = <<TRUE>>
    BY <1>1 DEF get_pattern
  <2> QED
    BY <2>1
<1>2. ASSUME p = "ECSS_23"
     PROVE  get_pattern[p] \in Seq(BOOLEAN) /\ Len(get_pattern[p]) = 4
  <2>1. get_pattern[p] = <<TRUE, TRUE, FALSE, TRUE>>
    BY <1>2 DEF get_pattern
  <2> QED
    BY <2>1
<1>3. ASSUME p = "ECSS_34"
     PROVE  get_pattern[p] \in Seq(BOOLEAN) /\ Len(get_pattern[p]) = 3
  <2>1. get_pattern[p] = <<TRUE, TRUE, FALSE>>
    BY <1>3 DEF get_pattern
  <2> QED
    BY <2>1
<1>4. ASSUME p = "ECSS_56"
     PROVE  get_pattern[p] \in Seq(BOOLEAN) /\ Len(get_pattern[p]) = 10
  <2>1. get_pattern[p] = <<TRUE, TRUE, FALSE, TRUE, TRUE, FALSE, FALSE, TRUE, TRUE, FALSE>>
    BY <1>4 DEF get_pattern
  <2> QED
    BY <2>1
<1>5. ASSUME p = "ECSS_78"
     PROVE  get_pattern[p] \in Seq(BOOLEAN) /\ Len(get_pattern[p]) = 14
  <2>1. get_pattern[p] =
          <<TRUE, TRUE, FALSE, TRUE, FALSE, TRUE, FALSE, TRUE, TRUE, FALSE, FALSE, TRUE, TRUE, FALSE>>
    BY <1>5 DEF get_pattern
  <2> QED
    BY <2>1
<1>6. get_pattern[p] \in Seq(BOOLEAN) /\ Len(get_pattern[p]) \in {1, 4, 3, 10, 14}
  BY <1>1, <1>2, <1>3, <1>4, <1>5 DEF PunctTypes
<1>7. get_pattern_len(p) \in {1, 4, 3, 10, 14}
  BY <1>6 DEF get_pattern_len
<1>8. ASSUME NEW i \in Nat
      PROVE  Keeps(p, i) \in BOOLEAN
  <2> DEFINE l == get_pattern_len(p)
             k == 1 + (i % l)
  <2>1. k \in 1 .. l
    <3> HIDE DEF l
    <3> QED
      BY <1>7 DEF l
  <2> HIDE DEF k
  <2>2. k \in 1 .. Len(get_pattern[p])
    BY <2>1 DEF get_pattern_len
  <2>3. get_pattern[p][k] \in BOOLEAN
    BY <1>6, <2>2, ElementOfSeq
  <2> QED
    BY <2>3 DEF Keeps, k
<1> QED
  BY <1>7, <1>8

\* What the bit i of s adds to the bits q that are kept before it.
NextKept(p, phase, s, q, i) == IF Keeps(p, phase + i - 1) THEN Append(q, s[i]) ELSE q

\* The bits kept of the first bits of s: the recursive function of Punctured.
IsKept(p, phase, s, f) ==
  f = [i \in 0 .. Len(s) |->
         IF i = 0 THEN <<>>
         ELSE IF Keeps(p, phase + i - 1) THEN Append(f[i - 1], s[i]) ELSE f[i - 1]]

\* The function that Punctured defines.
KeptOf(p, phase, s) == CHOOSE f : IsKept(p, phase, s, f)

\* A function that does so for the first n bits.
KeepsSoFar(p, phase, s, n, f) ==
  /\ f \in [0 .. n -> Seq(Bit)]
  /\ f[0] = <<>>
  /\ \A i \in 1 .. n : i <= Len(s) => f[i] = NextKept(p, phase, s, f[i - 1], i)

\* Such a function can be extended by one bit.
LEMMA KeptExtended ==
  ASSUME NEW p \in PunctTypes, NEW phase \in Nat, NEW s \in Seq(Bit), NEW n \in Nat,
         NEW f, KeepsSoFar(p, phase, s, n, f)
  PROVE  \E g : KeepsSoFar(p, phase, s, n + 1, g)
<1> DEFINE q == IF n + 1 <= Len(s) THEN NextKept(p, phase, s, f[n], n + 1) ELSE <<>>
           g == [i \in 0 .. n + 1 |-> IF i <= n THEN f[i] ELSE q]
<1>1. /\ f \in [0 .. n -> Seq(Bit)] /\ f[0] = <<>>
      /\ \A i \in 1 .. n : i <= Len(s) => f[i] = NextKept(p, phase, s, f[i - 1], i)
  BY DEF KeepsSoFar
<1>2. f[n] \in Seq(Bit)
  BY <1>1
<1>3. q \in Seq(Bit)
  <2>1. CASE n + 1 <= Len(s)
    <3>1. s[n + 1] \in Bit
      BY <2>1, ElementOfSeq
    <3>2. Append(f[n], s[n + 1]) \in Seq(Bit)
      BY <1>2, <3>1, AppendProperties
    <3> QED
      BY <1>2, <2>1, <3>2 DEF NextKept
  <2>2. CASE ~ (n + 1 <= Len(s))
    BY <2>2
  <2> QED
    BY <2>1, <2>2
<1>4. n + 1 <= Len(s) => q = NextKept(p, phase, s, f[n], n + 1)
  OBVIOUS
<1> HIDE DEF q
<1>5. g \in [0 .. n + 1 -> Seq(Bit)]
  BY <1>1, <1>3
<1>6. /\ \A i \in 0 .. n : g[i] = f[i]
      /\ g[n + 1] = q
  OBVIOUS
<1> HIDE DEF g
<1>7. g[0] = <<>>
  BY <1>1, <1>6
<1>8. ASSUME NEW i \in 1 .. n + 1, i <= Len(s)
      PROVE  g[i] = NextKept(p, phase, s, g[i - 1], i)
  <2>1. CASE i <= n
    <3>1. i \in 1 .. n /\ i \in 0 .. n /\ i - 1 \in 0 .. n
      BY <2>1
    <3> QED
      BY <1>1, <1>6, <1>8, <3>1
  <2>2. CASE i = n + 1
    <3>1. i - 1 = n /\ n \in 0 .. n
      BY <2>2
    <3> QED
      BY <1>4, <1>6, <1>8, <2>2, <3>1
  <2> QED
    BY <2>1, <2>2
<1> QED
  BY <1>5, <1>7, <1>8 DEF KeepsSoFar

\* The recursion of Punctured defines a function, whose values are bits.
LEMMA KeptDefined ==
  ASSUME NEW p \in PunctTypes, NEW phase \in Nat, NEW s \in Seq(Bit)
  PROVE  IsKept(p, phase, s, KeptOf(p, phase, s))
<1> DEFINE S == {n \in Nat : \E f : KeepsSoFar(p, phase, s, n, f)}
<1>1. 0 \in S
  <2> DEFINE f == [i \in 0 .. 0 |-> <<>>]
  <2>1. f \in [0 .. 0 -> Seq(Bit)] /\ f[0] = <<>>
    OBVIOUS
  <2> HIDE DEF f
  <2>2. KeepsSoFar(p, phase, s, 0, f)
    BY <2>1 DEF KeepsSoFar
  <2> QED
    BY <2>2
<1>2. \A n \in S : n + 1 \in S
  BY KeptExtended
<1>3. Len(s) \in S
  <2>1. S \in SUBSET Nat /\ Len(s) \in Nat
    BY LenProperties
  <2> HIDE DEF S
  <2> QED
    BY <1>1, <1>2, <2>1, SetInduction
<1>4. PICK f : KeepsSoFar(p, phase, s, Len(s), f)
  BY <1>3
<1>5. IsKept(p, phase, s, f)
  <2>1. /\ f \in [0 .. Len(s) -> Seq(Bit)] /\ f[0] = <<>> /\ Len(s) \in Nat
        /\ \A i \in 1 .. Len(s) : f[i] = NextKept(p, phase, s, f[i - 1], i)
    BY <1>4, LenProperties DEF KeepsSoFar
  <2>2. ASSUME NEW i \in 0 .. Len(s)
        PROVE  f[i] = IF i = 0 THEN <<>>
                      ELSE IF Keeps(p, phase + i - 1) THEN Append(f[i - 1], s[i]) ELSE f[i - 1]
    <3>1. CASE i = 0
      BY <2>1, <3>1
    <3>2. CASE i # 0
      <4>1. i \in 1 .. Len(s)
        BY <2>1, <3>2
      <4>2. f[i] = NextKept(p, phase, s, f[i - 1], i)
        BY <2>1, <4>1
      <4> QED
        BY <3>2, <4>2 DEF NextKept
    <3> QED
      BY <3>1, <3>2
  <2> QED
    BY <2>1, <2>2 DEF IsKept
<1> QED
  BY <1>5 DEF KeptOf

\* Punctured is the last value of that function.
LEMMA PuncturedKept ==
  ASSUME NEW p, NEW phase, NEW s
  PROVE  Punctured(p, phase, s) = KeptOf(p, phase, s)[Len(s)]
BY DEF Punctured, KeptOf, IsKept

\* One bit after another is added, or left out.
LEMMA KeptSteps ==
  ASSUME NEW p \in PunctTypes, NEW phase \in Nat, NEW s \in Seq(Bit)
  PROVE  LET k == KeptOf(p, phase, s)
         IN /\ k[0] = <<>>
            /\ \A i \in 1 .. Len(s) : k[i] = NextKept(p, phase, s, k[i - 1], i)
            /\ \A i \in 0 .. Len(s) : k[i] \in Seq(Bit)
<1> DEFINE k == KeptOf(p, phase, s)
<1>1. IsKept(p, phase, s, k) /\ Len(s) \in Nat
  BY KeptDefined, LenProperties
<1> HIDE DEF k
<1>2. k[0] = <<>>
  BY <1>1 DEF IsKept
<1>3. ASSUME NEW i \in 1 .. Len(s)
      PROVE  k[i] = NextKept(p, phase, s, k[i - 1], i)
  <2>1. i \in 0 .. Len(s) /\ i # 0
    BY <1>1
  <2> QED
    BY <1>1, <2>1 DEF IsKept, NextKept
<1>4. ASSUME NEW i \in 0 .. Len(s)
      PROVE  k[i] \in Seq(Bit)
  <2> DEFINE S == {n \in Nat : n <= Len(s) => k[n] \in Seq(Bit)}
  <2>1. 0 \in S
    <3>1. k[0] \in Seq(Bit)
      BY <1>2
    <3> QED
      BY <3>1
  <2>2. ASSUME NEW n \in S
        PROVE  n + 1 \in S
    <3> SUFFICES ASSUME n + 1 <= Len(s)
                 PROVE  k[n + 1] \in Seq(Bit)
      OBVIOUS
    <3>1. n + 1 \in 1 .. Len(s) /\ (n + 1) - 1 = n /\ k[n] \in Seq(Bit)
      BY <1>1
    <3>2. k[n + 1] = NextKept(p, phase, s, k[n], n + 1)
      BY <1>3, <3>1
    <3>3. s[n + 1] \in Bit
      BY <3>1, ElementOfSeq
    <3>4. Append(k[n], s[n + 1]) \in Seq(Bit)
      BY <3>1, <3>3, AppendProperties
    <3> QED
      BY <3>1, <3>2, <3>4 DEF NextKept
  <2>3. S \in SUBSET Nat
    OBVIOUS
  <2>4. S = Nat
    <3> HIDE DEF S
    <3> QED
      BY <2>1, <2>2, <2>3, SetInduction
  <2>5. i \in Nat /\ i <= Len(s)
    BY <1>1
  <2> QED
    BY <2>4, <2>5
<1> QED
  BY <1>2, <1>3, <1>4 DEF k

\* The first m bits are the same in two sequences, and so is what the pattern says of them.
SameStart(p, a, b, s, t, m) ==
  \A i \in 1 .. m : s[i] = t[i] /\ Keeps(p, a + i - 1) = Keeps(p, b + i - 1)

\* What is kept of the first bits depends on them and their phase only.
LEMMA KeptSame ==
  ASSUME NEW p \in PunctTypes, NEW a \in Nat, NEW b \in Nat, NEW s \in Seq(Bit), NEW t \in Seq(Bit),
         NEW m \in Nat, m <= Len(s), m <= Len(t), SameStart(p, a, b, s, t, m)
  PROVE  \A n \in 0 .. m : KeptOf(p, a, s)[n] = KeptOf(p, b, t)[n]
<1> DEFINE k == KeptOf(p, a, s)
           l == KeptOf(p, b, t)
           S == {n \in Nat : n <= m => k[n] = l[n]}
<1>1. /\ k[0] = <<>> /\ \A i \in 1 .. Len(s) : k[i] = NextKept(p, a, s, k[i - 1], i)
      /\ l[0] = <<>> /\ \A i \in 1 .. Len(t) : l[i] = NextKept(p, b, t, l[i - 1], i)
      /\ Len(s) \in Nat /\ Len(t) \in Nat
  BY KeptSteps, LenProperties
<1> HIDE DEF k, l
<1>2. 0 \in S
  BY <1>1
<1>3. ASSUME NEW n \in S
      PROVE  n + 1 \in S
  <2> SUFFICES ASSUME n + 1 <= m
               PROVE  k[n + 1] = l[n + 1]
    OBVIOUS
  <2>1. n + 1 \in 1 .. m /\ n + 1 \in 1 .. Len(s) /\ n + 1 \in 1 .. Len(t) /\ (n + 1) - 1 = n
        /\ k[n] = l[n]
    BY <1>1
  <2>2. k[n + 1] = NextKept(p, a, s, k[n], n + 1) /\ l[n + 1] = NextKept(p, b, t, l[n], n + 1)
    BY <1>1, <2>1
  <2>3. s[n + 1] = t[n + 1] /\ Keeps(p, a + (n + 1) - 1) = Keeps(p, b + (n + 1) - 1)
    BY <2>1 DEF SameStart
  <2> QED
    BY <2>1, <2>2, <2>3 DEF NextKept
<1>4. S = Nat
  <2>1. S \in SUBSET Nat
    OBVIOUS
  <2> HIDE DEF S
  <2> QED
    BY <1>2, <1>3, <2>1, SetInduction
<1>5. \A n \in 0 .. m : k[n] = l[n]
  BY <1>4
<1> QED
  BY <1>5 DEF k, l

\* What is kept of the first bits does not depend on the others.
LEMMA KeptPrefix ==
  ASSUME NEW p \in PunctTypes, NEW a \in Nat, NEW s \in Seq(Bit), NEW t \in Seq(Bit),
         NEW m \in Nat, m <= Len(s), m <= Len(t), \A i \in 1 .. m : s[i] = t[i]
  PROVE  KeptOf(p, a, s)[m] = KeptOf(p, a, t)[m]
<1>1. SameStart(p, a, a, s, t, m)
  BY DEF SameStart
<1>2. \A n \in 0 .. m : KeptOf(p, a, s)[n] = KeptOf(p, a, t)[n]
  BY <1>1, KeptSame
<1> QED
  BY <1>2

\* A bit more at the end of the second of two sequences.
LEMMA AppendBehind ==
  ASSUME NEW a \in Seq(Bit), NEW b \in Seq(Bit), NEW x \in Bit
  PROVE  Append(a \o b, x) = a \o Append(b, x)
<1>1. <<x>> \in Seq(Bit)
  OBVIOUS
<1>2. Append(b, x) = b \o <<x>>
  BY AppendIsConcat
<1>3. a \o b \in Seq(Bit)
  BY ConcatProperties
<1> DEFINE c == a \o b
<1>4. Append(c, x) = c \o <<x>>
  <2> HIDE DEF c
  <2> QED
    BY <1>3, AppendIsConcat DEF c
<1>5. (a \o b) \o <<x>> = a \o (b \o <<x>>)
  BY <1>1, ConcatAssociative
<1> QED
  BY <1>2, <1>4, <1>5

\* What is kept of one sequence after another.
LEMMA PuncturedConcat ==
  ASSUME NEW p \in PunctTypes, NEW phase \in Nat, NEW s \in Seq(Bit), NEW t \in Seq(Bit)
  PROVE  Punctured(p, phase, s \o t) = Punctured(p, phase, s) \o Punctured(p, phase + Len(s), t)
<1> DEFINE u == s \o t
           L == Len(s)
           k == KeptOf(p, phase, s)
           l == KeptOf(p, phase + L, t)
           j == KeptOf(p, phase, u)
           Joined(n) == j[L + n] = k[L] \o l[n]
           S == {n \in Nat : n <= Len(t) => Joined(n)}
<1>1. /\ u \in Seq(Bit) /\ Len(u) = L + Len(t) /\ L \in Nat /\ Len(t) \in Nat
      /\ \A i \in 1 .. L : u[i] = s[i]
      /\ \A i \in 1 .. Len(t) : u[L + i] = t[i]
  BY ConcatProperties, LenProperties
<1>2. phase + L \in Nat
  BY <1>1
<1>3. /\ l[0] = <<>> /\ \A i \in 1 .. Len(t) : l[i] = NextKept(p, phase + L, t, l[i - 1], i)
      /\ \A i \in 0 .. Len(t) : l[i] \in Seq(Bit)
      /\ \A i \in 0 .. L : k[i] \in Seq(Bit)
      /\ \A i \in 1 .. Len(u) : j[i] = NextKept(p, phase, u, j[i - 1], i)
  BY <1>1, <1>2, KeptSteps
<1>4. j[L] = k[L]
  <2>1. L \in Nat /\ L <= Len(s) /\ L <= Len(u) /\ \A i \in 1 .. L : s[i] = u[i]
    BY <1>1
  <2> HIDE DEF L, u
  <2> QED
    BY <1>1, <2>1, KeptPrefix
<1>5. k[L] \in Seq(Bit)
  BY <1>1, <1>3
<1>6. Punctured(p, phase, u) = j[L + Len(t)] /\ Punctured(p, phase, s) = k[L]
      /\ Punctured(p, phase + L, t) = l[Len(t)]
  BY <1>1, PuncturedKept
<1> HIDE DEF u, L, k, l, j, Joined
<1>7. 0 \in S
  <2>1. k[L] \o <<>> = k[L]
    BY <1>5
  <2>2. L + 0 = L
    BY <1>1
  <2> QED
    BY <1>1, <1>3, <1>4, <2>1, <2>2 DEF Joined
<1>8. ASSUME NEW n \in S
      PROVE  n + 1 \in S
  <2> SUFFICES ASSUME n + 1 <= Len(t)
               PROVE  Joined(n + 1)
    OBVIOUS
  <2>1. /\ n \in 0 .. Len(t) /\ n + 1 \in 1 .. Len(t) /\ (n + 1) - 1 = n
        /\ L + (n + 1) \in 1 .. Len(u) /\ (L + (n + 1)) - 1 = L + n
        /\ Joined(n)
    BY <1>1
  <2>2. phase + (L + (n + 1)) - 1 = phase + L + (n + 1) - 1
    BY <1>1, <2>1
  <2>3. j[L + (n + 1)] = IF Keeps(p, phase + L + (n + 1) - 1) THEN Append(k[L] \o l[n], t[n + 1])
                         ELSE k[L] \o l[n]
    <3>1. j[L + (n + 1)] = NextKept(p, phase, u, j[L + n], L + (n + 1))
      BY <1>3, <2>1
    <3>2. u[L + (n + 1)] = t[n + 1]
      BY <1>1, <2>1
    <3> QED
      BY <2>1, <2>2, <3>1, <3>2 DEF NextKept, Joined
  <2>4. l[n + 1] = IF Keeps(p, phase + L + (n + 1) - 1) THEN Append(l[n], t[n + 1]) ELSE l[n]
    <3>1. l[n + 1] = NextKept(p, phase + L, t, l[n], n + 1)
      BY <1>3, <2>1
    <3> QED
      BY <3>1 DEF NextKept
  <2>5. l[n] \in Seq(Bit) /\ t[n + 1] \in Bit
    BY <1>3, <2>1, ElementOfSeq
  <2>6. Append(k[L] \o l[n], t[n + 1]) = k[L] \o Append(l[n], t[n + 1])
    BY <1>5, <2>5, AppendBehind
  <2> QED
    BY <2>3, <2>4, <2>6 DEF Joined
<1>9. S = Nat
  <2>1. S \in SUBSET Nat
    OBVIOUS
  <2> HIDE DEF S
  <2> QED
    BY <1>7, <1>8, <2>1, SetInduction
<1>10. Joined(Len(t))
  BY <1>1, <1>9
<1> QED
  BY <1>6, <1>10 DEF u, L, Joined

\* A number and its rest are at the same place of a pattern.
LEMMA SamePlace ==
  ASSUME NEW l \in {1, 3, 4, 10, 14}, NEW n \in Nat, NEW i \in Nat
  PROVE  ((n % l) + i) % l = (n + i) % l /\ n % l \in 0 .. l - 1
<1>1. CASE l = 1
  BY <1>1
<1>2. CASE l = 3
  BY <1>2
<1>3. CASE l = 4
  BY <1>3
<1>4. CASE l = 10
  BY <1>4
<1>5. CASE l = 14
  BY <1>5
<1> QED
  BY <1>1, <1>2, <1>3, <1>4, <1>5

\* The phase matters modulo the length of the pattern.
LEMMA PuncturedPhase ==
  ASSUME NEW p \in PunctTypes, NEW n \in Nat, NEW s \in Seq(Bit)
  PROVE  Punctured(p, n % get_pattern_len(p), s) = Punctured(p, n, s)
<1> DEFINE l == get_pattern_len(p)
           r == n % l
           m == Len(s)
<1>1. l \in {1, 3, 4, 10, 14}
  BY Patterns
<1>2. r \in Nat /\ m \in Nat
  BY <1>1, SamePlace, LenProperties
<1>3. SameStart(p, r, n, s, s, m)
  <2> SUFFICES ASSUME NEW i \in 1 .. m
               PROVE  Keeps(p, r + i - 1) = Keeps(p, n + i - 1)
    BY DEF SameStart
  <2>1. i - 1 \in Nat /\ r + i - 1 = r + (i - 1) /\ n + i - 1 = n + (i - 1)
    BY <1>2
  <2>2. (r + (i - 1)) % l = (n + (i - 1)) % l
    <3> HIDE DEF l
    <3> QED
      BY <1>1, <2>1, SamePlace DEF r
  <2> QED
    BY <2>1, <2>2 DEF Keeps
<1>4. m <= Len(s) /\ m \in 0 .. m
  BY <1>2
<1> HIDE DEF r, m
<1>5. \A i \in 0 .. m : KeptOf(p, r, s)[i] = KeptOf(p, n, s)[i]
  BY <1>2, <1>3, <1>4, KeptSame
<1>6. KeptOf(p, r, s)[m] = KeptOf(p, n, s)[m]
  BY <1>4, <1>5
<1>7. Punctured(p, r, s) = KeptOf(p, r, s)[m] /\ Punctured(p, n, s) = KeptOf(p, n, s)[m]
  BY PuncturedKept DEF m
<1> QED
  BY <1>6, <1>7 DEF r

\* The number of bits kept grows with every bit that is kept.
LEMMA KeptGrows ==
  ASSUME NEW p \in PunctTypes, NEW phase \in Nat, NEW s \in Seq(Bit), NEW i \in 1 .. Len(s)
  PROVE  LET k == KeptOf(p, phase, s)
         IN /\ Len(k[i]) \in Nat /\ Len(k[i - 1]) \in Nat
            /\ Keeps(p, phase + i - 1) => Len(k[i]) = Len(k[i - 1]) + 1
            /\ ~ Keeps(p, phase + i - 1) => Len(k[i]) = Len(k[i - 1])
<1> DEFINE k == KeptOf(p, phase, s)
<1>1. /\ k[i] = NextKept(p, phase, s, k[i - 1], i)
      /\ \A j \in 0 .. Len(s) : k[j] \in Seq(Bit)
  BY KeptSteps
<1>2. Len(s) \in Nat /\ s[i] \in Bit
  BY LenProperties, ElementOfSeq
<1>3. i \in 0 .. Len(s) /\ i - 1 \in 0 .. Len(s)
  BY <1>2
<1> HIDE DEF k
<1>4. k[i] \in Seq(Bit) /\ k[i - 1] \in Seq(Bit)
  BY <1>1, <1>3
<1>5. Len(k[i]) \in Nat /\ Len(k[i - 1]) \in Nat
  BY <1>4, LenProperties
<1>6. Keeps(p, phase + i - 1) => Len(k[i]) = Len(k[i - 1]) + 1
  BY <1>1, <1>2, <1>4, AppendProperties DEF NextKept
<1>7. ~ Keeps(p, phase + i - 1) => Len(k[i]) = Len(k[i - 1])
  BY <1>1 DEF NextKept
<1> QED
  BY <1>5, <1>6, <1>7 DEF k

\* Of the two bits of the code for a bit at least one is kept.
LEMMA OneOfTwo ==
  ASSUME NEW p \in PunctTypes, NEW h \in Nat
  PROVE  Keeps(p, 2 * h) \/ Keeps(p, 2 * h + 1)
<1> DEFINE q == get_pattern[p]
           m == 2 * h
<1>1. m \in Nat /\ m + 1 \in Nat
  OBVIOUS
<1>2. CASE p = "NONE"
  <2>1. q = <<TRUE>>
    BY <1>2 DEF get_pattern
  <2>2. /\ Len(q) = 1
        /\ q[1]
    BY <2>1
  <2>3. Keeps(p, m) = q[1 + (m % 1)] /\ Keeps(p, m + 1) = q[1 + ((m + 1) % 1)]
    BY <2>2 DEF Keeps, get_pattern_len
  <2> HIDE DEF q
  <2>4. m % 1 = 0 /\ (m + 1) % 1 = 0
    BY <1>1
  <2> QED
    BY <2>2, <2>3, <2>4
<1>3. CASE p = "ECSS_23"
  <2>1. q = <<TRUE, TRUE, FALSE, TRUE>>
    BY <1>3 DEF get_pattern
  <2>2. /\ Len(q) = 4
        /\ q[1] /\ q[2] /\ q[4]
    BY <2>1
  <2>3. Keeps(p, m) = q[1 + (m % 4)] /\ Keeps(p, m + 1) = q[1 + ((m + 1) % 4)]
    BY <2>2 DEF Keeps, get_pattern_len
  <2> HIDE DEF q
  <2>4. \/ m % 4 = 0 /\ (m + 1) % 4 = 1
        \/ m % 4 = 2 /\ (m + 1) % 4 = 3
    OBVIOUS
  <2> QED
    BY <2>2, <2>3, <2>4
<1>4. CASE p = "ECSS_34"
  <2>1. q = <<TRUE, TRUE, FALSE>>
    BY <1>4 DEF get_pattern
  <2>2. /\ Len(q) = 3
        /\ q[1] /\ q[2]
    BY <2>1
  <2>3. Keeps(p, m) = q[1 + (m % 3)] /\ Keeps(p, m + 1) = q[1 + ((m + 1) % 3)]
    BY <2>2 DEF Keeps, get_pattern_len
  <2> HIDE DEF q
  <2>4. m % 3 \in {0, 1} \/ (m + 1) % 3 \in {0, 1}
    BY <1>1
  <2> QED
    BY <2>2, <2>3, <2>4
<1>5. CASE p = "ECSS_56"
  <2>1. q = <<TRUE, TRUE, FALSE, TRUE, TRUE, FALSE, FALSE, TRUE, TRUE, FALSE>>
    BY <1>5 DEF get_pattern
  <2>2. /\ Len(q) = 10
        /\ q[1] /\ q[2] /\ q[4] /\ q[5] /\ q[8] /\ q[9]
    BY <2>1
  <2>3. Keeps(p, m) = q[1 + (m % 10)] /\ Keeps(p, m + 1) = q[1 + ((m + 1) % 10)]
    BY <2>2 DEF Keeps, get_pattern_len
  <2> HIDE DEF q
  <2>4. \/ m % 10 = 0 /\ (m + 1) % 10 = 1
        \/ m % 10 = 2 /\ (m + 1) % 10 = 3
        \/ m % 10 = 4 /\ (m + 1) % 10 = 5
        \/ m % 10 = 6 /\ (m + 1) % 10 = 7
        \/ m % 10 = 8 /\ (m + 1) % 10 = 9
    OBVIOUS
  <2> QED
    BY <2>2, <2>3, <2>4
<1>6. CASE p = "ECSS_78"
  <2>1. q =
          <<TRUE, TRUE, FALSE, TRUE, FALSE, TRUE, FALSE, TRUE, TRUE, FALSE, FALSE, TRUE, TRUE, FALSE>>
    BY <1>6 DEF get_pattern
  <2>2. /\ Len(q) = 14
        /\ q[1] /\ q[2] /\ q[4] /\ q[6] /\ q[8] /\ q[9] /\ q[12] /\ q[13]
    BY <2>1
  <2>3. Keeps(p, m) = q[1 + (m % 14)] /\ Keeps(p, m + 1) = q[1 + ((m + 1) % 14)]
    BY <2>2 DEF Keeps, get_pattern_len
  <2> HIDE DEF q
  <2>4. \/ m % 14 = 0 /\ (m + 1) % 14 = 1
        \/ m % 14 = 2 /\ (m + 1) % 14 = 3
        \/ m % 14 = 4 /\ (m + 1) % 14 = 5
        \/ m % 14 = 6 /\ (m + 1) % 14 = 7
        \/ m % 14 = 8 /\ (m + 1) % 14 = 9
        \/ m % 14 = 10 /\ (m + 1) % 14 = 11
        \/ m % 14 = 12 /\ (m + 1) % 14 = 13
    OBVIOUS
  <2> QED
    BY <2>2, <2>3, <2>4
<1> QED
  BY <1>2, <1>3, <1>4, <1>5, <1>6 DEF PunctTypes, m

\* At most all bits are kept.
LEMMA KeptAtMost ==
  ASSUME NEW p \in PunctTypes, NEW phase \in Nat, NEW s \in Seq(Bit)
  PROVE  Punctured(p, phase, s) \in Seq(Bit) /\ Len(Punctured(p, phase, s)) <= Len(s)
<1> DEFINE k == KeptOf(p, phase, s)
           S == {n \in Nat : n <= Len(s) => Len(k[n]) <= n}
<1>1. k[0] = <<>> /\ Len(s) \in Nat /\ \A i \in 0 .. Len(s) : k[i] \in Seq(Bit)
  BY KeptSteps, LenProperties
<1>2. \A i \in 1 .. Len(s) :
        Len(k[i]) \in Nat /\ Len(k[i - 1]) \in Nat /\ Len(k[i]) <= Len(k[i - 1]) + 1
  <2> SUFFICES ASSUME NEW i \in 1 .. Len(s)
               PROVE  /\ Len(k[i]) \in Nat /\ Len(k[i - 1]) \in Nat
                      /\ Len(k[i]) <= Len(k[i - 1]) + 1
    OBVIOUS
  <2>1. /\ Len(k[i]) \in Nat /\ Len(k[i - 1]) \in Nat
        /\ Keeps(p, phase + i - 1) => Len(k[i]) = Len(k[i - 1]) + 1
        /\ ~ Keeps(p, phase + i - 1) => Len(k[i]) = Len(k[i - 1])
    BY KeptGrows
  <2> HIDE DEF k
  <2> QED
    BY <2>1
<1>3. Punctured(p, phase, s) = k[Len(s)]
  BY PuncturedKept
<1> HIDE DEF k
<1>4. 0 \in S
  <2>1. Len(k[0]) = 0
    BY <1>1
  <2> QED
    BY <2>1
<1>5. ASSUME NEW n \in S
      PROVE  n + 1 \in S
  <2> SUFFICES ASSUME n + 1 <= Len(s)
               PROVE  Len(k[n + 1]) <= n + 1
    OBVIOUS
  <2>1. n + 1 \in 1 .. Len(s) /\ (n + 1) - 1 = n /\ Len(k[n]) <= n
    BY <1>1
  <2> QED
    BY <1>2, <2>1
<1>6. S = Nat
  <2>1. S \in SUBSET Nat
    OBVIOUS
  <2> HIDE DEF S
  <2> QED
    BY <1>4, <1>5, <2>1, SetInduction
<1>7. Len(k[Len(s)]) <= Len(s) /\ k[Len(s)] \in Seq(Bit)
  BY <1>1, <1>6
<1> QED
  BY <1>3, <1>7

\* Of the code for whole bits at least a half is kept.
LEMMA KeptAtLeast ==
  ASSUME NEW p \in PunctTypes, NEW h \in Nat, NEW s \in Seq(Bit), NEW m \in Nat,
         Len(s) = 2 * m
  PROVE  Len(Punctured(p, 2 * h, s)) >= m
<1> DEFINE k == KeptOf(p, 2 * h, s)
           S == {n \in Nat : n <= m => Len(k[2 * n]) >= n}
<1>1. k[0] = <<>> /\ \A i \in 0 .. Len(s) : k[i] \in Seq(Bit)
  BY KeptSteps
<1>2. \A i \in 1 .. Len(s) :
        /\ Len(k[i]) \in Nat /\ Len(k[i - 1]) \in Nat
        /\ Len(k[i]) >= Len(k[i - 1])
        /\ Keeps(p, 2 * h + i - 1) => Len(k[i]) = Len(k[i - 1]) + 1
  <2> SUFFICES ASSUME NEW i \in 1 .. Len(s)
               PROVE  /\ Len(k[i]) \in Nat /\ Len(k[i - 1]) \in Nat
                      /\ Len(k[i]) >= Len(k[i - 1])
                      /\ Keeps(p, 2 * h + i - 1) => Len(k[i]) = Len(k[i - 1]) + 1
    OBVIOUS
  <2>1. 2 * h \in Nat
    OBVIOUS
  <2>2. /\ Len(k[i]) \in Nat /\ Len(k[i - 1]) \in Nat
        /\ Keeps(p, 2 * h + i - 1) => Len(k[i]) = Len(k[i - 1]) + 1
        /\ ~ Keeps(p, 2 * h + i - 1) => Len(k[i]) = Len(k[i - 1])
    BY <2>1, KeptGrows
  <2> HIDE DEF k
  <2> QED
    BY <2>2
<1>3. Punctured(p, 2 * h, s) = k[Len(s)]
  BY PuncturedKept
<1> HIDE DEF k
<1>4. 0 \in S
  <2>1. Len(k[2 * 0]) = 0
    BY <1>1
  <2> QED
    BY <2>1
<1>5. ASSUME NEW n \in S
      PROVE  n + 1 \in S
  <2> SUFFICES ASSUME n + 1 <= m
               PROVE  Len(k[2 * (n + 1)]) >= n + 1
    OBVIOUS
  <2>1. /\ 2 * n + 1 \in 1 .. Len(s) /\ (2 * n + 1) - 1 = 2 * n
        /\ 2 * n + 2 \in 1 .. Len(s) /\ (2 * n + 2) - 1 = 2 * n + 1
        /\ 2 * (n + 1) = 2 * n + 2
        /\ Len(k[2 * n]) >= n
    OBVIOUS
  <2>2. /\ Len(k[2 * n]) \in Nat /\ Len(k[2 * n + 1]) \in Nat /\ Len(k[2 * n + 2]) \in Nat
        /\ Len(k[2 * n + 1]) >= Len(k[2 * n]) /\ Len(k[2 * n + 2]) >= Len(k[2 * n + 1])
    BY <1>2, <2>1
  <2>3. Keeps(p, 2 * h + 2 * n) \/ Keeps(p, 2 * h + 2 * n + 1)
    <3>1. h + n \in Nat /\ 2 * (h + n) = 2 * h + 2 * n
      OBVIOUS
    <3> QED
      BY <3>1, OneOfTwo
  <2>4. CASE Keeps(p, 2 * h + 2 * n)
    <3>1. 2 * h + (2 * n + 1) - 1 = 2 * h + 2 * n
      OBVIOUS
    <3>2. Len(k[2 * n + 1]) = Len(k[2 * n]) + 1
      BY <1>2, <2>1, <2>4, <3>1
    <3> QED
      BY <2>1, <2>2, <3>2
  <2>5. CASE Keeps(p, 2 * h + 2 * n + 1)
    <3>1. 2 * h + (2 * n + 2) - 1 = 2 * h + 2 * n + 1
      OBVIOUS
    <3>2. Len(k[2 * n + 2]) = Len(k[2 * n + 1]) + 1
      BY <1>2, <2>1, <2>5, <3>1
    <3> QED
      BY <2>1, <2>2, <3>2
  <2> QED
    BY <2>3, <2>4, <2>5
<1>6. S = Nat
  <2>1. S \in SUBSET Nat
    OBVIOUS
  <2> HIDE DEF S
  <2> QED
    BY <1>4, <1>5, <2>1, SetInduction
<1>7. Len(k[2 * m]) >= m
  <2>1. m \in S
    BY <1>6
  <2> QED
    BY <2>1
<1> QED
  BY <1>3, <1>7

-----------------------------------------------------------------------------
(* The code *)

\* A bit of the code is a bit.
LEMMA CodeBitType ==
  ASSUME NEW poly, NEW x, NEW n
  PROVE  CodeBit(poly, x, n) \in Bit
<1> DEFINE ones == {t \in 0 .. 6 : n - t >= 1 /\ x[n - t] = 1 /\ BitSet(poly, 6 - t)}
           e == IF BitSet(poly, 7) THEN 1 ELSE 0
           c == Cardinality(ones)
<1>1. IsFiniteSet(0 .. 6)
  <2> DEFINE lo == 0
             hi == 6
  <2>1. lo \in Int /\ hi \in Int
    OBVIOUS
  <2> HIDE DEF lo, hi
  <2>2. IsFiniteSet(lo .. hi)
    BY <2>1, FS_Interval
  <2> QED
    BY <2>2 DEF lo, hi
<1>2. IsFiniteSet(ones)
  BY <1>1, FS_Subset
<1>3. c \in Nat
  <2> HIDE DEF ones
  <2> QED
    BY <1>2, FS_CardinalityType
<1>4. e \in {0, 1}
  OBVIOUS
<1>5. CodeBit(poly, x, n) = ((c % 2) + e) % 2
  BY DEF CodeBit, Parity
<1> HIDE DEF c, e
<1> QED
  BY <1>3, <1>4, <1>5 DEF Bit

\* Are the seven bits before and at n in x those before and at m in y?
SameBits(x, n, y, m) ==
  \A t \in 0 .. 6 : (n - t >= 1 /\ x[n - t] = 1) <=> (m - t >= 1 /\ y[m - t] = 1)

\* A bit of the code is made of seven bits of the stream.
LEMMA CodeBitLocal ==
  ASSUME NEW poly, NEW x, NEW n, NEW y, NEW m, SameBits(x, n, y, m)
  PROVE  CodeBit(poly, x, n) = CodeBit(poly, y, m)
<1>1. {t \in 0 .. 6 : n - t >= 1 /\ x[n - t] = 1 /\ BitSet(poly, 6 - t)}
       = {t \in 0 .. 6 : m - t >= 1 /\ y[m - t] = 1 /\ BitSet(poly, 6 - t)}
  <2> HIDE DEF BitSet
  <2> QED
    BY DEF SameBits
<1> QED
  BY <1>1 DEF CodeBit

\* Two sequences one behind the other.
LEMMA ConcatBits ==
  ASSUME NEW s \in Seq(Bit), NEW t \in Seq(Bit)
  PROVE  /\ s \o t \in Seq(Bit) /\ Len(s \o t) = Len(s) + Len(t)
         /\ \A i \in 1 .. Len(s) : (s \o t)[i] = s[i]
         /\ \A i \in 1 .. Len(t) : (s \o t)[Len(s) + i] = t[i]
  BY ConcatProperties, LenProperties

\* There are two bits of code for every bit.
LEMMA CodeType ==
  ASSUME NEW x, NEW first \in Nat, NEW last \in Nat, last + 1 >= first
  PROVE  CodeOf(x, first, last) \in Seq(Bit) /\ Len(CodeOf(x, first, last)) = 2 * (last - first + 1)
<1> DEFINE n == 2 * (last - first + 1)
           c == CodeOf(x, first, last)
<1>1. n \in Nat
  OBVIOUS
<1>2. c \in [1 .. n -> Bit]
  BY CodeBitType DEF CodeOf
<1> HIDE DEF c, n
<1>3. c \in Seq(Bit) /\ Len(c) = n
  BY <1>1, <1>2
<1> QED
  BY <1>3 DEF c, n

\* One bit of the code.
LEMMA CodeAt ==
  ASSUME NEW x, NEW first, NEW last, NEW j \in 1 .. 2 * (last - first + 1)
  PROVE  CodeOf(x, first, last)[j] =
           CodeBit(IF j % 2 = 1 THEN PolyC1 ELSE PolyC2, x, first + (j - 1) \div 2)
  BY DEF CodeOf

\* The shift register holds the last seven bits of the stream, zero before the first.
RegisterOf(st, x) ==
  \A j \in 1 .. 7 : st[j] = IF Len(x) + j - 7 >= 1 THEN x[Len(x) + j - 7] ELSE 0

\* Halves of an index of the code.
LEMMA Halves ==
  ASSUME NEW l \in Nat, NEW i \in Nat
  PROVE  /\ (2 * l + i) \div 2 = l + (i \div 2)
         /\ (2 * l + i) % 2 = i % 2
         /\ i \div 2 \in Nat /\ 2 * (i \div 2) <= i /\ i <= 2 * (i \div 2) + 1
  OBVIOUS

\* A place behind the first 2 l is one of the 16 that follow.
LEMMA InByte ==
  ASSUME NEW l \in Nat, NEW j \in 1 .. 2 * l + 16, j > 2 * l
  PROVE  j - 2 * l \in 1 .. 16 /\ j = 2 * l + (j - 2 * l)
  OBVIOUS

\* Is z made of l elements of x and a byte?
Behind(z, x, l, byte) ==
  /\ \A i \in 1 .. l : z[i] = x[i]
  /\ \A i \in 1 .. 8 : z[l + i] = byte[i]

\* The code of a stream followed by a byte.
LEMMA CodeJoined ==
  ASSUME NEW x \in Seq(Bit), NEW byte \in Seq(Bit), NEW st, RegisterOf(st, x),
         NEW L \in Nat, L = Len(x),
         NEW y, Behind(y, x, L, byte),
         NEW z, Behind(z, st, 7, byte)
  PROVE  CodeOf(y, 1, L + 8) = CodeOf(x, 1, L) \o CodeOf(z, 8, 15)
<1> DEFINE a == CodeOf(y, 1, L + 8)
           b == CodeOf(x, 1, L)
           c == CodeOf(z, 8, 15)
<1>1. L \in Nat
  OBVIOUS
<1>2. /\ \A i \in 1 .. L : y[i] = x[i]
      /\ \A i \in 1 .. 8 : y[L + i] = byte[i]
  BY DEF Behind
<1>3. /\ \A i \in 1 .. 7 : z[i] = st[i]
      /\ \A i \in 1 .. 8 : z[7 + i] = byte[i]
  BY DEF Behind
<1>4. /\ a \in Seq(Bit) /\ Len(a) = 2 * L + 16
      /\ b \in Seq(Bit) /\ Len(b) = 2 * L
      /\ c \in Seq(Bit) /\ Len(c) = 16
  <2>1. 1 \in Nat /\ 8 \in Nat /\ 15 \in Nat /\ L + 8 \in Nat
        /\ L + 8 + 1 >= 1 /\ L + 1 >= 1 /\ 15 + 1 >= 8
    OBVIOUS
  <2>2. a \in Seq(Bit) /\ Len(a) = 2 * (L + 8 - 1 + 1)
    BY <2>1, CodeType
  <2>3. b \in Seq(Bit) /\ Len(b) = 2 * (L - 1 + 1)
    BY <2>1, CodeType
  <2>4. c \in Seq(Bit) /\ Len(c) = 2 * (15 - 8 + 1)
    BY <2>1, CodeType
  <2> HIDE DEF a, b, c
  <2> QED
    BY <2>2, <2>3, <2>4
<1>5. /\ \A j \in 1 .. 2 * L + 16 :
           a[j] = CodeBit(IF j % 2 = 1 THEN PolyC1 ELSE PolyC2, y, 1 + (j - 1) \div 2)
      /\ \A j \in 1 .. 2 * L :
           b[j] = CodeBit(IF j % 2 = 1 THEN PolyC1 ELSE PolyC2, x, 1 + (j - 1) \div 2)
      /\ \A j \in 1 .. 16 :
           c[j] = CodeBit(IF j % 2 = 1 THEN PolyC1 ELSE PolyC2, z, 8 + (j - 1) \div 2)
  <2>1. 2 * (L + 8 - 1 + 1) = 2 * L + 16 /\ 2 * (L - 1 + 1) = 2 * L /\ 2 * (15 - 8 + 1) = 16
    BY <1>1
  <2>2. \A j \in 1 .. 2 * L + 16 :
          a[j] = CodeBit(IF j % 2 = 1 THEN PolyC1 ELSE PolyC2, y, 1 + (j - 1) \div 2)
    BY <2>1, CodeAt
  <2>3. \A j \in 1 .. 2 * L :
          b[j] = CodeBit(IF j % 2 = 1 THEN PolyC1 ELSE PolyC2, x, 1 + (j - 1) \div 2)
    BY <2>1, CodeAt
  <2>4. \A j \in 1 .. 16 :
          c[j] = CodeBit(IF j % 2 = 1 THEN PolyC1 ELSE PolyC2, z, 8 + (j - 1) \div 2)
    BY <2>1, CodeAt
  <2> QED
    BY <2>2, <2>3, <2>4
<1> HIDE DEF a, b, c
<1>6. ASSUME NEW j \in 1 .. 2 * L
      PROVE  a[j] = b[j]
  <2> DEFINE n == 1 + (j - 1) \div 2
  <2>1. n \in 1 .. L
    <3>1. j - 1 \in Nat /\ j - 1 + 1 = j
      BY <1>1
    <3>2. (j - 1) \div 2 \in Nat /\ 2 * ((j - 1) \div 2) <= j - 1
      BY <3>1, Halves
    <3> QED
      BY <1>1, <3>2
  <2>2. j \in 1 .. 2 * L + 16
    BY <1>1
  <2>3. SameBits(y, n, x, n)
    <3> HIDE DEF n
    <3>1. \A t \in 0 .. 6 : n - t >= 1 => y[n - t] = x[n - t]
      <4> SUFFICES ASSUME NEW t \in 0 .. 6, n - t >= 1
                   PROVE  y[n - t] = x[n - t]
        OBVIOUS
      <4>1. n - t \in 1 .. L
        BY <1>1, <2>1
      <4> QED
        BY <1>2, <4>1
    <3> QED
      BY <3>1 DEF SameBits
  <2>4. /\ CodeBit(PolyC1, y, n) = CodeBit(PolyC1, x, n)
        /\ CodeBit(PolyC2, y, n) = CodeBit(PolyC2, x, n)
    BY <2>3, CodeBitLocal
  <2>5. a[j] = CodeBit(IF j % 2 = 1 THEN PolyC1 ELSE PolyC2, y, n)
    BY <1>5, <2>2
  <2>6. b[j] = CodeBit(IF j % 2 = 1 THEN PolyC1 ELSE PolyC2, x, n)
    BY <1>5
  <2> HIDE DEF n
  <2> QED
    BY <2>4, <2>5, <2>6
<1>7. ASSUME NEW i \in 1 .. 16
      PROVE  a[2 * L + i] = c[i]
  <2> DEFINE h == (i - 1) \div 2
             n == L + 1 + h
             m == 8 + h
             j == 2 * L + i
  <2>1. h \in 0 .. 7 /\ j \in 1 .. 2 * L + 16 /\ 1 + (j - 1) \div 2 = n /\ j % 2 = i % 2
    <3>1. i - 1 \in Nat /\ j - 1 = 2 * L + (i - 1)
      BY <1>1
    <3>2. (2 * L + (i - 1)) \div 2 = L + ((i - 1) \div 2) /\ h \in Nat /\ 2 * h <= i - 1
      BY <1>1, <3>1, Halves
    <3>3. (2 * L + i) % 2 = i % 2
      BY <1>1, Halves
    <3>4. 1 + (j - 1) \div 2 = n
      <4> (j - 1) \div 2 = L + h
        BY <3>1, <3>2
      <4> HIDE DEF h
      <4> QED
        BY <1>1, <3>2
    <3> HIDE DEF h
    <3>5. h \in 0 .. 7 /\ j \in 1 .. 2 * L + 16
      BY <1>1, <3>2
    <3> QED
      BY <3>3, <3>4, <3>5
  <2> HIDE DEF h
  <2>2. SameBits(y, n, z, m)
    <3> SUFFICES ASSUME NEW t \in 0 .. 6
                 PROVE  (n - t >= 1 /\ y[n - t] = 1) <=> (m - t >= 1 /\ z[m - t] = 1)
      BY DEF SameBits
    <3>1. m - t >= 1 /\ m - t \in 1 .. 15 /\ n - t = L + (m - t) - 7
      BY <1>1, <2>1
    <3> DEFINE k == m - t
    <3>2. k \in 1 .. 15 /\ n - t = L + k - 7
      BY <3>1
    <3> HIDE DEF k, n, m
    <3>3. CASE k > 7
      <4>1. k - 7 \in 1 .. 8 /\ 7 + (k - 7) = k /\ L + k - 7 = L + (k - 7) /\ L + k - 7 >= 1
        BY <1>1, <3>2, <3>3
      <4>2. z[k] = byte[k - 7] /\ y[L + k - 7] = byte[k - 7]
        BY <1>2, <1>3, <4>1
      <4> QED
        BY <3>1, <3>2, <4>1, <4>2 DEF k
    <3>4. CASE k <= 7
      <4>1. k \in 1 .. 7
        BY <3>2, <3>4
      <4>2. z[k] = IF L + k - 7 >= 1 THEN x[L + k - 7] ELSE 0
        BY <1>3, <4>1 DEF RegisterOf
      <4>3. L + k - 7 >= 1 => y[L + k - 7] = x[L + k - 7]
        <5> SUFFICES ASSUME L + k - 7 >= 1
                     PROVE  y[L + k - 7] = x[L + k - 7]
          OBVIOUS
        <5>1. L + k - 7 \in 1 .. L
          BY <1>1, <4>1
        <5> QED
          BY <1>2, <5>1
      <4> QED
        BY <3>1, <3>2, <4>2, <4>3 DEF k
    <3> QED
      BY <3>2, <3>3, <3>4
  <2>3. /\ CodeBit(PolyC1, y, n) = CodeBit(PolyC1, z, m)
        /\ CodeBit(PolyC2, y, n) = CodeBit(PolyC2, z, m)
    BY <2>2, CodeBitLocal
  <2>4. a[j] = CodeBit(IF i % 2 = 1 THEN PolyC1 ELSE PolyC2, y, n)
    BY <1>5, <2>1
  <2>5. c[i] = CodeBit(IF i % 2 = 1 THEN PolyC1 ELSE PolyC2, z, m)
    BY <1>5 DEF h
  <2> QED
    BY <2>3, <2>4, <2>5
<1> DEFINE d == b \o c
<1>8. /\ d \in Seq(Bit) /\ Len(d) = 2 * L + 16
      /\ \A i \in 1 .. 2 * L : d[i] = b[i]
      /\ \A i \in 1 .. 16 : d[2 * L + i] = c[i]
  <2>1. /\ d \in Seq(Bit) /\ Len(d) = Len(b) + Len(c)
        /\ \A i \in 1 .. Len(b) : d[i] = b[i]
        /\ \A i \in 1 .. Len(c) : d[Len(b) + i] = c[i]
    BY <1>4, ConcatBits
  <2> HIDE DEF d
  <2> QED
    BY <1>1, <1>4, <2>1
<1> HIDE DEF d
<1>9. ASSUME NEW j \in 1 .. Len(a)
      PROVE  a[j] = d[j]
  <2>1. j \in 1 .. 2 * L + 16
    BY <1>4
  <2>2. CASE j <= 2 * L
    <3>1. j \in 1 .. 2 * L
      BY <2>1, <2>2
    <3> QED
      BY <1>6, <1>8, <3>1
  <2>3. CASE j > 2 * L
    <3> DEFINE i == j - 2 * L
    <3>1. i \in 1 .. 16 /\ j = 2 * L + i
      BY <2>1, <2>3, InByte
    <3> HIDE DEF i
    <3>2. a[2 * L + i] = c[i] /\ d[2 * L + i] = c[i]
      BY <1>7, <1>8, <3>1
    <3> QED
      BY <3>1, <3>2
  <2> QED
    BY <2>1, <2>2, <2>3
<1>10. a = d
  BY <1>4, <1>8, <1>9, SeqEqual
<1> QED
  BY <1>10 DEF a, b, c, d

\* A function on 1 .. n is a sequence of n bits.
LEMMA TupleOfBits ==
  ASSUME NEW n \in Nat, NEW f \in [1 .. n -> Bit]
  PROVE  f \in Seq(Bit) /\ Len(f) = n
  OBVIOUS

\* A sequence without its first bit.
LEMMA TailOfBits ==
  ASSUME NEW f \in Seq(Bit), NEW n \in Nat, n >= 1, Len(f) = n
  PROVE  /\ Tail(f) \in Seq(Bit) /\ Len(Tail(f)) = n - 1
         /\ \A i \in 1 .. n - 1 : Tail(f)[i] = f[i + 1]
<1>1. f # <<>>
  OBVIOUS
<1> QED
  BY <1>1, HeadTailProperties

\* A sequence of n bits is a function on 1 .. n.
LEMMA TupleFunction ==
  ASSUME NEW f \in Seq(Bit), NEW n, Len(f) = n
  PROVE  f \in [1 .. n -> Bit]
  OBVIOUS

\* A byte is eight bits, the shift register seven.
LEMMA BytesAreBits ==
  /\ \A byte \in Byte : byte \in Seq(Bit) /\ Len(byte) = 8
  /\ \A st \in [1 .. 7 -> Bit] : st \in Seq(Bit) /\ Len(st) = 7
<1>1. ASSUME NEW byte \in Byte
      PROVE  byte \in Seq(Bit) /\ Len(byte) = 8
  <2> DEFINE n == 8
  <2>1. n \in Nat /\ byte \in [1 .. n -> Bit]
    BY DEF Byte
  <2> HIDE DEF n
  <2>2. byte \in Seq(Bit) /\ Len(byte) = n
    BY <2>1, TupleOfBits
  <2> QED
    BY <2>2 DEF n
<1>2. ASSUME NEW st \in [1 .. 7 -> Bit]
      PROVE  st \in Seq(Bit) /\ Len(st) = 7
  <2> DEFINE n == 7
  <2>1. n \in Nat /\ st \in [1 .. n -> Bit]
    OBVIOUS
  <2> HIDE DEF n
  <2>2. st \in Seq(Bit) /\ Len(st) = n
    BY <2>1, TupleOfBits
  <2> QED
    BY <2>2 DEF n
<1> QED
  BY <1>1, <1>2

\* The same for the operators of encode.
LEMMA CodeOfByte ==
  ASSUME NEW x \in Seq(Bit), NEW byte \in Byte, NEW st \in [1 .. 7 -> Bit], RegisterOf(st, x)
  PROVE  CodeOf(x \o byte, 1, Len(x) + 8) = CodeOf(x, 1, Len(x)) \o CodeOf(st \o byte, 8, 15)
<1>1. byte \in Seq(Bit) /\ Len(byte) = 8 /\ st \in Seq(Bit) /\ Len(st) = 7
  BY BytesAreBits
<1>2. Len(x) \in Nat
  BY LenProperties
<1> DEFINE y == x \o byte
           z == st \o byte
<1>3. Behind(y, x, Len(x), byte)
  <2>1. /\ \A i \in 1 .. Len(x) : y[i] = x[i]
        /\ \A i \in 1 .. Len(byte) : y[Len(x) + i] = byte[i]
    BY <1>1, ConcatBits
  <2> HIDE DEF y
  <2> QED
    BY <1>1, <2>1 DEF Behind
<1>4. Behind(z, st, 7, byte)
  <2>1. /\ \A i \in 1 .. Len(st) : z[i] = st[i]
        /\ \A i \in 1 .. Len(byte) : z[Len(st) + i] = byte[i]
    BY <1>1, ConcatBits
  <2> HIDE DEF z
  <2> QED
    BY <1>1, <2>1 DEF Behind
<1> HIDE DEF y, z
<1>5. CodeOf(y, 1, Len(x) + 8) = CodeOf(x, 1, Len(x)) \o CodeOf(z, 8, 15)
  BY <1>1, <1>2, <1>3, <1>4, CodeJoined
<1> QED
  BY <1>5 DEF y, z

-----------------------------------------------------------------------------
(* The encoder *)

\* The position in the pattern is that of the stream.
PhaseOf(p, count, x) == count = (2 * Len(x)) % get_pattern_len(p)

\* A call has output a byte or has still input to encode.
CallInv == working => asked >= 1 /\ (room < asked \/ offered > 0)

\* The inductive invariant.
EncoderInv ==
  /\ EncoderTypeOK
  /\ OneStream
  /\ RegisterOf(d_state, consumed)
  /\ PhaseOf(punct, d_punct_count, consumed)
  /\ CallInv

\* A sequence is its first k elements and the others.
LEMMA SplitAt ==
  ASSUME NEW s \in Seq(Bit), NEW k \in Nat, k <= Len(s)
  PROVE  LET a == SubSeq(s, 1, k)
             b == SubSeq(s, k + 1, Len(s))
         IN  /\ a \in Seq(Bit) /\ Len(a) = k
             /\ b \in Seq(Bit) /\ Len(b) = Len(s) - k
             /\ a \o b = s
<1> DEFINE n == Len(s)
           a == SubSeq(s, 1, k)
           b == SubSeq(s, k + 1, n)
<1>1. n \in Nat /\ k <= n /\ \A i \in 1 .. n : s[i] \in Bit
  BY LenProperties, ElementOfSeq
<1> HIDE DEF n
<1>2. \A i \in 1 .. k : s[i] \in Bit
  BY <1>1
<1>3. \A i \in k + 1 .. n : s[i] \in Bit
  BY <1>1
<1>4. /\ a \in Seq(Bit) /\ Len(a) = k
      /\ \A i \in 1 .. k : a[i] = s[i]
  <2>1. /\ a \in Seq(Bit) /\ Len(a) = IF 1 <= k THEN k - 1 + 1 ELSE 0
        /\ \A i \in 1 .. k - 1 + 1 : a[i] = s[1 + i - 1]
    <3>1. 1 \in Int /\ k \in Int
      OBVIOUS
    <3> QED
      BY <1>2, <3>1, SubSeqProperties
  <2> HIDE DEF a
  <2> QED
    BY <2>1
<1>5. /\ b \in Seq(Bit) /\ Len(b) = n - k
      /\ \A i \in 1 .. n - k : b[i] = s[k + i]
  <2>1. /\ b \in Seq(Bit) /\ Len(b) = IF k + 1 <= n THEN n - (k + 1) + 1 ELSE 0
        /\ \A i \in 1 .. n - (k + 1) + 1 : b[i] = s[(k + 1) + i - 1]
    <3>1. k + 1 \in Int /\ n \in Int
      BY <1>1
    <3> QED
      BY <1>3, <3>1, SubSeqProperties
  <2> HIDE DEF b
  <2>2. n - (k + 1) + 1 = n - k /\ (k + 1 <= n <=> n - k >= 1) /\ n - k >= 0
    BY <1>1
  <2>3. \A i \in 1 .. n - k : (k + 1) + i - 1 = k + i
    BY <1>1
  <2> QED
    BY <1>1, <2>1, <2>2, <2>3
<1> HIDE DEF a, b
<1> DEFINE c == a \o b
<1>6. /\ c \in Seq(Bit) /\ Len(c) = n
      /\ \A i \in 1 .. k : c[i] = a[i]
      /\ \A i \in 1 .. n - k : c[k + i] = b[i]
  <2>1. /\ c \in Seq(Bit) /\ Len(c) = Len(a) + Len(b)
        /\ \A i \in 1 .. Len(a) : c[i] = a[i]
        /\ \A i \in 1 .. Len(b) : c[Len(a) + i] = b[i]
    BY <1>4, <1>5, ConcatBits
  <2> HIDE DEF c
  <2> QED
    BY <1>1, <1>4, <1>5, <2>1
<1> HIDE DEF c
<1>7. ASSUME NEW i \in 1 .. n
      PROVE  c[i] = s[i]
  <2>1. CASE i <= k
    <3>1. i \in 1 .. k
      BY <2>1
    <3> QED
      BY <1>4, <1>6, <3>1
  <2>2. CASE i > k
    <3>1. i - k \in 1 .. n - k /\ k + (i - k) = i
      BY <1>1, <2>2
    <3> QED
      BY <1>5, <1>6, <3>1
  <2> QED
    BY <1>1, <2>1, <2>2
<1>8. c = s
  <2>1. Len(c) = Len(s) /\ \A i \in 1 .. Len(c) : c[i] = s[i]
    BY <1>6, <1>7 DEF n
  <2> QED
    BY <1>6, <2>1, SeqEqual
<1> QED
  BY <1>4, <1>5, <1>8 DEF a, b, c, n

\* The code of a byte of input, and the bits of it that are kept.
LEMMA CodeOfInput ==
  ASSUME EncoderInv, NEW byte \in Byte
  PROVE  /\ encode(byte) \in Seq(Bit) /\ Len(encode(byte)) = 16
         /\ encode_punct(byte) = Punctured(punct, 2 * Len(consumed), encode(byte))
         /\ encode_punct(byte) \in Seq(Bit) /\ Len(encode_punct(byte)) \in 8 .. 16
<1>1. punct \in PunctTypes /\ consumed \in Seq(Bit) /\ d_punct_count = (2 * Len(consumed)) % get_pattern_len(punct)
  BY DEF EncoderInv, EncoderTypeOK, PhaseOf
<1> DEFINE code == encode(byte)
           h == Len(consumed)
           n == 2 * h
<1>2. h \in Nat /\ n \in Nat
  BY <1>1, LenProperties
<1>3. code \in Seq(Bit) /\ Len(code) = 16
  <2> DEFINE z == d_state \o byte
  <2>1. 8 \in Nat /\ 15 \in Nat /\ 15 + 1 >= 8
    OBVIOUS
  <2> HIDE DEF z
  <2>2. CodeOf(z, 8, 15) \in Seq(Bit) /\ Len(CodeOf(z, 8, 15)) = 2 * (15 - 8 + 1)
    BY <2>1, CodeType
  <2> QED
    BY <2>2 DEF encode, z
<1> HIDE DEF code, h
<1>4. encode_punct(byte) = Punctured(punct, n, code)
  <2>1. Punctured(punct, n % get_pattern_len(punct), code) = Punctured(punct, n, code)
    BY <1>1, <1>2, <1>3, PuncturedPhase
  <2> QED
    BY <1>1, <2>1 DEF encode_punct, code, h
<1>5. Punctured(punct, n, code) \in Seq(Bit) /\ Len(Punctured(punct, n, code)) <= 16
  BY <1>1, <1>2, <1>3, KeptAtMost
<1>6. Len(Punctured(punct, n, code)) >= 8
  <2> DEFINE m == 8
  <2>1. m \in Nat /\ Len(code) = 2 * m
    BY <1>3
  <2> HIDE DEF m
  <2>2. Len(Punctured(punct, 2 * h, code)) >= m
    BY <1>1, <1>2, <1>3, <2>1, KeptAtLeast
  <2> QED
    BY <2>2 DEF m
<1>7. Len(Punctured(punct, n, code)) \in 8 .. 16
  <2> DEFINE l == Len(Punctured(punct, n, code))
  <2>1. l \in Nat
    BY <1>5, LenProperties
  <2> HIDE DEF l
  <2>2. l <= 16 /\ l >= 8
    BY <1>5, <1>6 DEF l
  <2>3. l \in 8 .. 16
    BY <2>1, <2>2
  <2> QED
    BY <2>3 DEF l
<1> QED
  BY <1>3, <1>4, <1>5, <1>7 DEF code, h

\* With at most seven bits waiting there are 8 to 23 after a byte.
LEMMA Joined23 ==
  ASSUME NEW m \in Nat, m <= 7, NEW n \in 8 .. 16
  PROVE  m + n \in 8 .. 23
  OBVIOUS

\* The bytes that are output, and the bits that stay.
LEMMA Taken ==
  ASSUME NEW r \in Nat, r > 0, NEW t \in 8 .. 23, NEW b, b = Smaller(r, t \div 8)
  PROVE  /\ b \in 1 .. 2 /\ b <= r /\ 8 * b <= t /\ t - 8 * b <= 15
         /\ r - b > 0 => t - 8 * b <= 7
  BY DEF Smaller

\* A byte can be encoded.
Encoding == EncoderInv /\ working /\ room > 0

\* Concatenation is associative.
LEMMA BitsAssociative ==
  ASSUME NEW s \in Seq(Bit), NEW t \in Seq(Bit), NEW u \in Seq(Bit)
  PROVE  (s \o t) \o u = s \o (t \o u)
  BY ConcatAssociative

\* What encoding a byte makes of the bits that are output and of those that stay.
LEMMA EncodedByte ==
  ASSUME Encoding, NEW byte \in Byte
  PROVE  LET code == encode_punct(byte)
             out  == SubSeq(d_buffer \o code, 1, 8 * BytesOut(code))
         IN  /\ BytesOut(code) \in Nat /\ BytesOut(code) >= 1 /\ BytesOut(code) <= room
             /\ sent \o out \in Seq(Bit)
             /\ Rest(code) \in Seq(Bit) /\ Len(Rest(code)) <= 15
             /\ room - BytesOut(code) > 0 => Len(Rest(code)) <= 7
             /\ (sent \o out) \o Rest(code) =
                  Punctured(punct, 0, CodeOf(consumed \o byte, 1, Len(consumed \o byte)))
<1> DEFINE code == encode_punct(byte)
           all  == d_buffer \o code
           b    == BytesOut(code)
           k    == 8 * b
           t    == Len(all)
           out  == SubSeq(all, 1, k)
           rest == SubSeq(all, k + 1, t)
           h    == Len(consumed)
           e    == encode(byte)
<1>1. /\ d_buffer \in Seq(Bit) /\ Len(d_buffer) <= 7 /\ room \in Nat /\ room > 0
      /\ sent \in Seq(Bit) /\ consumed \in Seq(Bit) /\ punct \in PunctTypes
      /\ d_state \in [1 .. 7 -> Bit] /\ RegisterOf(d_state, consumed)
      /\ sent \o d_buffer = Punctured(punct, 0, CodeOf(consumed, 1, h))
  BY CallAssumption DEF Encoding, EncoderInv, EncoderTypeOK, OneStream
<1>2. code \in Seq(Bit) /\ Len(code) \in 8 .. 16
  BY CodeOfInput DEF Encoding
<1>3. e \in Seq(Bit) /\ code = Punctured(punct, 2 * h, e)
  BY CodeOfInput DEF Encoding
<1>4. h \in Nat
  BY <1>1, LenProperties
<1>5. all \in Seq(Bit) /\ t = Len(d_buffer) + Len(code) /\ Len(d_buffer) \in Nat /\ t \in Nat
  <2> HIDE DEF code
  <2>1. all \in Seq(Bit) /\ Len(all) = Len(d_buffer) + Len(code)
    BY <1>1, <1>2, ConcatBits
  <2>2. Len(d_buffer) \in Nat
    BY <1>1, LenProperties
  <2> HIDE DEF all
  <2> QED
    BY <1>2, <2>1, <2>2
<1>6. b = Smaller(room, t \div 8) /\ Rest(code) = IF b > 0 THEN rest ELSE Rest(code)
  <2> HIDE DEF code
  <2>1. b = Smaller(room, t \div 8)
    BY <1>5 DEF BytesOut
  <2>2. t = Len(d_buffer) + Len(code)
    BY <1>5
  <2> HIDE DEF b, t
  <2> QED
    BY <2>1, <2>2 DEF Rest, b
<1> HIDE DEF code, all, b, t, h, e
<1>7. t \in 8 .. 23
  <2> DEFINE m == Len(d_buffer)
             n == Len(code)
  <2>1. m \in Nat /\ m <= 7
    BY <1>1, <1>5
  <2>2. n \in 8 .. 16
    BY <1>2
  <2>3. t = m + n
    BY <1>5
  <2> HIDE DEF m, n
  <2> QED
    BY <2>1, <2>2, <2>3, Joined23
<1>8. /\ b \in Nat /\ b >= 1 /\ b <= room /\ k <= t /\ t - k <= 15
      /\ room - b > 0 => t - k <= 7
  <2>1. /\ b \in 1 .. 2 /\ b <= room /\ 8 * b <= t /\ t - 8 * b <= 15
        /\ room - b > 0 => t - 8 * b <= 7
    BY <1>1, <1>6, <1>7, Taken
  <2> QED
    BY <2>1
<1>9. k \in Nat
  BY <1>8
<1>10. Rest(code) = rest
  BY <1>6, <1>8
<1>11. out \in Seq(Bit) /\ rest \in Seq(Bit) /\ Len(rest) = t - k /\ out \o rest = all
  <2> HIDE DEF k
  <2> QED
    BY <1>5, <1>8, <1>9, SplitAt DEF t
<1> HIDE DEF out, rest, k
<1>12. sent \o out \in Seq(Bit)
  BY <1>1, <1>11, ConcatBits
<1>13. (sent \o out) \o rest = (sent \o d_buffer) \o code
  <2>1. (sent \o out) \o rest = sent \o (out \o rest)
    BY <1>1, <1>11, BitsAssociative
  <2>2. (sent \o d_buffer) \o code = sent \o (d_buffer \o code)
    BY <1>1, <1>2, BitsAssociative
  <2> QED
    BY <1>11, <2>1, <2>2 DEF all
<1>14. CodeOf(consumed \o byte, 1, Len(consumed \o byte)) = CodeOf(consumed, 1, h) \o e
  <2>1. Len(consumed \o byte) = h + 8
    <3>1. byte \in Seq(Bit) /\ Len(byte) = 8
      BY BytesAreBits
    <3>2. Len(consumed \o byte) = Len(consumed) + Len(byte)
      BY <1>1, <3>1, ConcatBits
    <3> QED
      BY <3>1, <3>2 DEF h
  <2>2. CodeOf(consumed \o byte, 1, h + 8) = CodeOf(consumed, 1, h) \o CodeOf(d_state \o byte, 8, 15)
    BY <1>1, CodeOfByte DEF h
  <2> QED
    BY <2>1, <2>2 DEF encode, e
<1>15. CodeOf(consumed, 1, h) \in Seq(Bit) /\ Len(CodeOf(consumed, 1, h)) = 2 * h
  <2>1. 1 \in Nat /\ h + 1 >= 1
    BY <1>4
  <2>2. CodeOf(consumed, 1, h) \in Seq(Bit) /\ Len(CodeOf(consumed, 1, h)) = 2 * (h - 1 + 1)
    BY <1>4, <2>1, CodeType
  <2>3. 2 * (h - 1 + 1) = 2 * h
    BY <1>4
  <2> QED
    BY <2>2, <2>3
<1>16. Punctured(punct, 0, CodeOf(consumed, 1, h) \o e) =
         Punctured(punct, 0, CodeOf(consumed, 1, h)) \o Punctured(punct, 2 * h, e)
  <2> DEFINE c == CodeOf(consumed, 1, h)
             z == 0
  <2>1. z \in Nat /\ z + 2 * h = 2 * h
    BY <1>4
  <2>2. c \in Seq(Bit) /\ Len(c) = 2 * h
    BY <1>15
  <2> HIDE DEF c, z
  <2>3. Punctured(punct, z, c \o e) =
          Punctured(punct, z, c) \o Punctured(punct, z + Len(c), e)
    BY <1>1, <1>3, <2>1, <2>2, PuncturedConcat
  <2> QED
    BY <2>1, <2>2, <2>3 DEF c, z
<1>17. (sent \o out) \o rest = Punctured(punct, 0, CodeOf(consumed \o byte, 1, Len(consumed \o byte)))
  BY <1>1, <1>3, <1>13, <1>14, <1>16
<1>18. Len(rest) <= 15 /\ (room - b > 0 => Len(rest) <= 7)
  BY <1>8, <1>11
<1> QED
  BY <1>8, <1>10, <1>11, <1>12, <1>17, <1>18 DEF code, all, b, t, out, rest, k

\* The bits that stay are those of the byte just encoded.
LEMMA RegisterFilled ==
  ASSUME NEW x \in Seq(Bit), NEW byte \in Byte
  PROVE  Tail(byte) \in [1 .. 7 -> Bit] /\ RegisterOf(Tail(byte), x \o byte)
<1> DEFINE t == Tail(byte)
           y == x \o byte
           L == Len(x)
<1>1. byte \in Seq(Bit) /\ Len(byte) = 8 /\ L \in Nat
  BY BytesAreBits, LenProperties
<1>2. Len(y) = L + 8 /\ \A i \in 1 .. 8 : y[L + i] = byte[i]
  <2>1. Len(y) = Len(x) + Len(byte) /\ \A i \in 1 .. Len(byte) : y[Len(x) + i] = byte[i]
    BY <1>1, ConcatBits
  <2> HIDE DEF y
  <2> QED
    BY <1>1, <2>1
<1>3. t \in Seq(Bit) /\ Len(t) = 7 /\ \A i \in 1 .. 7 : t[i] = byte[i + 1]
  <2> DEFINE n == 8
  <2>1. n \in Nat /\ n >= 1 /\ n = 8
    OBVIOUS
  <2> HIDE DEF n
  <2>2. /\ t \in Seq(Bit) /\ Len(t) = n - 1
        /\ \A i \in 1 .. n - 1 : t[i] = byte[i + 1]
    BY <1>1, <2>1, TailOfBits
  <2> HIDE DEF t
  <2> QED
    BY <2>1, <2>2
<1>4. t \in [1 .. 7 -> Bit]
  <2> DEFINE n == 7
  <2>1. Len(t) = n
    BY <1>3
  <2> HIDE DEF t, n
  <2>2. t \in [1 .. n -> Bit]
    BY <1>3, <2>1, TupleFunction
  <2> QED
    BY <2>2 DEF n
<1> HIDE DEF t, y, L
<1>5. ASSUME NEW j \in 1 .. 7
      PROVE  t[j] = IF Len(y) + j - 7 >= 1 THEN y[Len(y) + j - 7] ELSE 0
  <2>1. Len(y) + j - 7 = L + (j + 1) /\ L + (j + 1) >= 1 /\ j + 1 \in 1 .. 8
    BY <1>1, <1>2
  <2>2. y[L + (j + 1)] = byte[j + 1] /\ t[j] = byte[j + 1]
    BY <1>2, <1>3, <2>1
  <2> QED
    BY <2>1, <2>2
<1>6. RegisterOf(t, y)
  BY <1>5 DEF RegisterOf
<1> QED
  BY <1>4, <1>6 DEF t, y

\* Every byte moves the position in the pattern by its 16 bits of code.
LEMMA PhaseMoved ==
  ASSUME NEW p \in PunctTypes, NEW c, NEW x \in Seq(Bit), PhaseOf(p, c, x), NEW byte \in Byte
  PROVE  LET n == (c + 16) % get_pattern_len(p)
         IN  n \in 0 .. get_pattern_len(p) - 1 /\ PhaseOf(p, n, x \o byte)
<1> DEFINE l == get_pattern_len(p)
           h == Len(x)
<1>1. l \in {1, 3, 4, 10, 14} /\ h \in Nat /\ 2 * h \in Nat
  BY Patterns, LenProperties
<1>2. Len(x \o byte) = h + 8
  <2>1. byte \in Seq(Bit) /\ Len(byte) = 8
    BY BytesAreBits
  <2>2. Len(x \o byte) = Len(x) + Len(byte)
    BY <2>1, ConcatBits
  <2> QED
    BY <2>1, <2>2
<1>3. c = (2 * h) % l
  BY DEF PhaseOf
<1> HIDE DEF l, h
<1>4. (c + 16) % l = (2 * h + 16) % l
  <2> DEFINE i == 16
             n == 2 * h
  <2>1. i \in Nat /\ n \in Nat
    BY <1>1
  <2> HIDE DEF i, n
  <2>2. ((n % l) + i) % l = (n + i) % l
    BY <1>1, <2>1, SamePlace
  <2> QED
    BY <1>3, <2>2 DEF i, n
<1>5. 2 * (h + 8) = 2 * h + 16
  BY <1>1
<1>6. (2 * h + 16) % l \in 0 .. l - 1
  <2> DEFINE n == 2 * h + 16
             z == 0
  <2>1. n \in Nat /\ z \in Nat
    BY <1>1
  <2> HIDE DEF n, z
  <2>2. n % l \in 0 .. l - 1
    BY <1>1, <2>1, SamePlace
  <2> QED
    BY <2>2 DEF n
<1> QED
  BY <1>2, <1>4, <1>5, <1>6 DEF PhaseOf, l, h

\* A call that has no byte stored is forecast to need input.
LEMMA ForecastPositive ==
  ASSUME EncoderTypeOK, ~ ByteStored, NEW n \in Nat, n >= 1
  PROVE  forecast(n) \in Nat /\ forecast(n) >= 1
<1> DEFINE x == 8 * n - Len(d_buffer)
<1>1. punct \in PunctTypes /\ Len(d_buffer) \in Nat /\ Len(d_buffer) < 8
  BY LenProperties DEF EncoderTypeOK, ByteStored
<1>2. x \in Nat /\ x >= 1 /\ 8 * n >= Len(d_buffer)
  BY <1>1
<1>3. forecast(n) = UpTo(x * Rate[1], 8 * Rate[2])
  BY <1>2 DEF forecast
<1> HIDE DEF x
<1>4. CASE punct = "NONE"
  <2>1. Rate[1] = 1 /\ Rate[2] = 2
    BY <1>4 DEF Rate
  <2>2. (x * 1 + 8 * 2 - 1) \div (8 * 2) \in Nat /\ (x * 1 + 8 * 2 - 1) \div (8 * 2) >= 1
    BY <1>2
  <2> QED
    BY <1>3, <2>1, <2>2 DEF UpTo
<1>5. CASE punct = "ECSS_23"
  <2>1. Rate[1] = 2 /\ Rate[2] = 3
    BY <1>5 DEF Rate
  <2>2. (x * 2 + 8 * 3 - 1) \div (8 * 3) \in Nat /\ (x * 2 + 8 * 3 - 1) \div (8 * 3) >= 1
    BY <1>2
  <2> QED
    BY <1>3, <2>1, <2>2 DEF UpTo
<1>6. CASE punct = "ECSS_34"
  <2>1. Rate[1] = 3 /\ Rate[2] = 4
    BY <1>6 DEF Rate
  <2>2. (x * 3 + 8 * 4 - 1) \div (8 * 4) \in Nat /\ (x * 3 + 8 * 4 - 1) \div (8 * 4) >= 1
    BY <1>2
  <2> QED
    BY <1>3, <2>1, <2>2 DEF UpTo
<1>7. CASE punct = "ECSS_56"
  <2>1. Rate[1] = 5 /\ Rate[2] = 6
    BY <1>7 DEF Rate
  <2>2. (x * 5 + 8 * 6 - 1) \div (8 * 6) \in Nat /\ (x * 5 + 8 * 6 - 1) \div (8 * 6) >= 1
    BY <1>2
  <2> QED
    BY <1>3, <2>1, <2>2 DEF UpTo
<1>8. CASE punct = "ECSS_78"
  <2>1. Rate[1] = 7 /\ Rate[2] = 8
    BY <1>8 DEF Rate
  <2>2. (x * 7 + 8 * 8 - 1) \div (8 * 8) \in Nat /\ (x * 7 + 8 * 8 - 1) \div (8 * 8) >= 1
    BY <1>2
  <2> QED
    BY <1>3, <2>1, <2>2 DEF UpTo
<1> QED
  BY <1>1, <1>4, <1>5, <1>6, <1>7, <1>8 DEF PunctTypes

\* The invariant holds initially.
LEMMA EncoderInitially ==
  ASSUME EncoderInit
  PROVE  EncoderInv
<1>1. /\ punct \in PunctTypes /\ d_state = [i \in 1 .. 7 |-> 0] /\ d_punct_count = 0
      /\ d_buffer = <<>> /\ working = FALSE /\ offered = 0 /\ room = 0 /\ asked = 0
      /\ sent = <<>> /\ consumed = <<>>
  BY DEF EncoderInit
<1>2. get_pattern_len(punct) \in {1, 3, 4, 10, 14}
  BY <1>1, Patterns
<1>3. EncoderTypeOK
  <2>1. d_state \in [1 .. 7 -> Bit]
    BY <1>1 DEF Bit
  <2>2. d_punct_count \in 0 .. get_pattern_len(punct) - 1
    BY <1>1, <1>2
  <2>3. d_buffer \in Seq(Bit) /\ Len(d_buffer) = 0 /\ sent \in Seq(Bit) /\ consumed \in Seq(Bit)
    BY <1>1
  <2>4. offered \in 0 .. MaxOffered /\ room \in 0 .. asked /\ asked \in 0 .. MaxRoom
    BY <1>1, CallAssumption
  <2>5. punct \in PunctTypes /\ working \in BOOLEAN /\ ~ working
    BY <1>1
  <2>6. Len(d_buffer) <= 15
    BY <2>3
  <2> QED
    BY <2>1, <2>2, <2>3, <2>4, <2>5, <2>6 DEF EncoderTypeOK
<1>4. OneStream
  <2> DEFINE z == 0
             e == <<>>
             c == CodeOf(e, 1, z)
             q == Punctured(punct, z, c)
  <2>1. z \in Nat /\ z + 1 >= 1 /\ 1 \in Nat /\ 2 * (z - 1 + 1) = 0
    OBVIOUS
  <2>2. c \in Seq(Bit) /\ Len(c) = 0
    <3> HIDE DEF z, e
    <3>1. c \in Seq(Bit) /\ Len(c) = 2 * (z - 1 + 1)
      BY <2>1, CodeType
    <3> QED
      BY <2>1, <3>1
  <2> HIDE DEF c
  <2>3. q \in Seq(Bit) /\ Len(q) <= 0
    <3> HIDE DEF z
    <3> QED
      BY <1>1, <2>1, <2>2, KeptAtMost
  <2> HIDE DEF q
  <2>4. q = <<>>
    <3>1. Len(q) \in Nat
      BY <2>3, LenProperties
    <3>2. Len(q) = 0
      BY <2>3, <3>1
    <3> QED
      BY <2>3, <3>2
  <2>5. Len(consumed) = 0 /\ sent \o d_buffer = <<>>
    BY <1>1
  <2> QED
    BY <1>1, <2>4, <2>5 DEF OneStream, q, c
<1>5. RegisterOf(d_state, consumed)
  <2>1. Len(consumed) = 0
    BY <1>1
  <2>2. \A j \in 1 .. 7 : d_state[j] = 0 /\ ~ (0 + j - 7 >= 1)
    BY <1>1
  <2> QED
    BY <2>1, <2>2 DEF RegisterOf
<1>6. PhaseOf(punct, d_punct_count, consumed)
  <2>1. Len(consumed) = 0
    BY <1>1
  <2> DEFINE l == get_pattern_len(punct)
  <2>2. (2 * 0) % l = 0
    <3> HIDE DEF l
    <3> QED
      BY <1>2 DEF l
  <2> QED
    BY <1>1, <2>1, <2>2 DEF PhaseOf
<1>7. CallInv
  BY <1>1 DEF CallInv
<1> QED
  BY <1>3, <1>4, <1>5, <1>6, <1>7 DEF EncoderInv

\* Entering general_work, with the byte stored output.
LEMMA EnterKeeps ==
  ASSUME EncoderInv, NEW nin \in 0 .. MaxOffered, NEW nout \in 1 .. MaxRoom, Enter(nin, nout)
  PROVE  EncoderInv'
<1>1. /\ ~ working /\ nin >= forecast(nout)
      /\ working' = TRUE /\ offered' = nin /\ asked' = nout
      /\ punct' = punct /\ d_state' = d_state /\ d_punct_count' = d_punct_count
      /\ consumed' = consumed
  BY DEF Enter
<1>2. /\ EncoderTypeOK /\ OneStream /\ RegisterOf(d_state, consumed)
      /\ PhaseOf(punct, d_punct_count, consumed)
  BY DEF EncoderInv
<1>3. d_buffer \in Seq(Bit) /\ Len(d_buffer) <= 15 /\ sent \in Seq(Bit) /\ Len(d_buffer) \in Nat
  BY <1>2, LenProperties DEF EncoderTypeOK
<1>4. /\ d_buffer' \in Seq(Bit) /\ Len(d_buffer') <= 7 /\ sent' \in Seq(Bit)
      /\ room' \in 0 .. nout
      /\ sent' \o d_buffer' = sent \o d_buffer
      /\ room' < nout \/ nin > 0
  <2>1. CASE ByteStored
    <3> DEFINE out  == SubSeq(d_buffer, 1, 8)
               rest == SubSeq(d_buffer, 9, Len(d_buffer))
    <3>1. sent' = sent \o out /\ d_buffer' = rest /\ room' = nout - 1
      BY <2>1 DEF Enter
    <3>2. /\ out \in Seq(Bit) /\ rest \in Seq(Bit) /\ Len(rest) = Len(d_buffer) - 8
          /\ out \o rest = d_buffer
      <4> DEFINE k == 8
      <4>1. k \in Nat /\ k <= Len(d_buffer) /\ k + 1 = 9 /\ k = 8
        BY <2>1 DEF ByteStored
      <4> HIDE DEF k
      <4>2. /\ SubSeq(d_buffer, 1, k) \in Seq(Bit)
            /\ SubSeq(d_buffer, k + 1, Len(d_buffer)) \in Seq(Bit)
            /\ Len(SubSeq(d_buffer, k + 1, Len(d_buffer))) = Len(d_buffer) - k
            /\ SubSeq(d_buffer, 1, k) \o SubSeq(d_buffer, k + 1, Len(d_buffer)) = d_buffer
        BY <1>3, <4>1, SplitAt
      <4> QED
        BY <4>1, <4>2
    <3> HIDE DEF out, rest
    <3>3. sent \o out \in Seq(Bit) /\ (sent \o out) \o rest = sent \o (out \o rest)
      BY <1>3, <3>2, ConcatBits, BitsAssociative
    <3>4. Len(rest) <= 7
      BY <1>3, <3>2
    <3>5. nout - 1 \in 0 .. nout /\ nout - 1 < nout
      BY CallAssumption
    <3> QED
      BY <3>1, <3>2, <3>3, <3>4, <3>5
  <2>2. CASE ~ ByteStored
    <3>1. sent' = sent /\ d_buffer' = d_buffer /\ room' = nout
      BY <2>2 DEF Enter
    <3>2. Len(d_buffer) <= 7
      BY <1>3, <2>2 DEF ByteStored
    <3>3. nout \in Nat /\ nout >= 1 /\ nin \in Nat
      BY CallAssumption
    <3>4. forecast(nout) >= 1
      BY <1>2, <2>2, <3>3, ForecastPositive
    <3>5. nin > 0
      <4> DEFINE f == forecast(nout)
      <4>1. f >= 1 /\ nin >= f
        BY <1>1, <3>4
      <4>2. f \in Int
        BY <1>2, <2>2, <3>3, ForecastPositive
      <4> HIDE DEF f
      <4> QED
        BY <3>3, <4>1, <4>2
    <3> QED
      BY <1>3, <3>1, <3>2, <3>3, <3>5
  <2> QED
    BY <2>1, <2>2
<1>5. EncoderTypeOK'
  <2>1. nout \in 0 .. MaxRoom
    BY CallAssumption
  <2>2. Len(d_buffer') <= 15
    <3>1. Len(d_buffer') \in Nat
      BY <1>4, LenProperties
    <3> QED
      BY <1>4, <3>1
  <2> QED
    BY <1>1, <1>2, <1>4, <2>1, <2>2 DEF EncoderTypeOK
<1>6. OneStream'
  BY <1>1, <1>2, <1>4 DEF OneStream
<1>7. RegisterOf(d_state, consumed)' /\ PhaseOf(punct, d_punct_count, consumed)'
  BY <1>1, <1>2 DEF RegisterOf, PhaseOf
<1>8. CallInv'
  BY <1>1, <1>4 DEF CallInv
<1> QED
  BY <1>5, <1>6, <1>7, <1>8 DEF EncoderInv

\* An iteration of the loop.
LEMMA EncodeByteKeeps ==
  ASSUME EncoderInv, NEW byte \in Byte, EncodeByte(byte)
  PROVE  EncoderInv'
<1> DEFINE code == encode_punct(byte)
           out  == SubSeq(d_buffer \o code, 1, 8 * BytesOut(code))
           b    == BytesOut(code)
<1>1. /\ working /\ offered > 0 /\ room > 0
      /\ sent' = sent \o out /\ d_buffer' = Rest(code) /\ room' = room - b
      /\ offered' = offered - 1 /\ d_state' = Tail(byte)
      /\ d_punct_count' = (d_punct_count + 16) % get_pattern_len(punct)
      /\ consumed' = consumed \o byte
      /\ punct' = punct /\ working' = working /\ asked' = asked
  BY DEF EncodeByte, NextPunctCount
<1>2. Encoding /\ EncoderTypeOK /\ PhaseOf(punct, d_punct_count, consumed)
  BY <1>1 DEF Encoding, EncoderInv
<1>3. /\ b \in Nat /\ b >= 1 /\ b <= room
      /\ sent \o out \in Seq(Bit)
      /\ Rest(code) \in Seq(Bit) /\ Len(Rest(code)) <= 15
      /\ room - b > 0 => Len(Rest(code)) <= 7
      /\ (sent \o out) \o Rest(code) =
           Punctured(punct, 0, CodeOf(consumed \o byte, 1, Len(consumed \o byte)))
  BY <1>2, EncodedByte
<1> HIDE DEF code, out, b
<1>4. /\ punct \in PunctTypes /\ consumed \in Seq(Bit)
      /\ working \in BOOLEAN /\ offered \in 0 .. MaxOffered
      /\ room \in 0 .. asked /\ asked \in 0 .. MaxRoom
  BY <1>2 DEF EncoderTypeOK
<1>5. Tail(byte) \in [1 .. 7 -> Bit] /\ RegisterOf(Tail(byte), consumed \o byte)
  BY <1>4, RegisterFilled
<1>6. /\ (d_punct_count + 16) % get_pattern_len(punct) \in 0 .. get_pattern_len(punct) - 1
      /\ PhaseOf(punct, (d_punct_count + 16) % get_pattern_len(punct), consumed \o byte)
  BY <1>2, <1>4, PhaseMoved
<1>7. room - b \in 0 .. asked /\ room - b < asked /\ offered - 1 \in 0 .. MaxOffered /\ asked >= 1
  BY <1>1, <1>3, <1>4, CallAssumption
<1>8. EncoderTypeOK'
  <2>1. consumed \o byte \in Seq(Bit)
    BY <1>4, BytesAreBits, ConcatBits
  <2>2. room' > 0 => Len(d_buffer') <= 7
    BY <1>1, <1>3
  <2>3. d_state' \in [1 .. 7 -> Bit]
    BY <1>1, <1>5
  <2>4. d_punct_count' \in 0 .. get_pattern_len(punct') - 1
    BY <1>1, <1>6
  <2> QED
    BY <1>1, <1>3, <1>4, <1>7, <2>1, <2>2, <2>3, <2>4 DEF EncoderTypeOK
<1>9. OneStream'
  BY <1>1, <1>3 DEF OneStream
<1>10. RegisterOf(d_state, consumed)'
  <2>1. RegisterOf(d_state', consumed')
    BY <1>1, <1>5
  <2> QED
    BY <2>1 DEF RegisterOf
<1>11. PhaseOf(punct, d_punct_count, consumed)'
  <2>1. PhaseOf(punct', d_punct_count', consumed')
    BY <1>1, <1>6
  <2> QED
    BY <2>1 DEF PhaseOf
<1>12. CallInv'
  BY <1>1, <1>7 DEF CallInv
<1> QED
  BY <1>8, <1>9, <1>10, <1>11, <1>12 DEF EncoderInv

\* Returning from general_work.
LEMMA ReturnKeeps ==
  ASSUME EncoderInv, Return
  PROVE  EncoderInv'
<1>1. /\ working' = FALSE /\ offered' = 0
      /\ punct' = punct /\ d_state' = d_state /\ d_punct_count' = d_punct_count
      /\ d_buffer' = d_buffer /\ room' = room /\ asked' = asked /\ sent' = sent
      /\ consumed' = consumed
  BY DEF Return
<1>2. EncoderTypeOK'
  <2>1. 0 \in 0 .. MaxOffered
    BY CallAssumption
  <2> QED
    BY <1>1, <2>1 DEF EncoderInv, EncoderTypeOK
<1>3. OneStream' /\ CallInv'
  BY <1>1 DEF EncoderInv, OneStream, CallInv
<1>4. RegisterOf(d_state, consumed)' /\ PhaseOf(punct, d_punct_count, consumed)'
  BY <1>1 DEF EncoderInv, RegisterOf, PhaseOf
<1> QED
  BY <1>2, <1>3, <1>4 DEF EncoderInv

\* What does not touch the encoder keeps its invariant.
LEMMA EncoderStutters ==
  ASSUME EncoderInv, UNCHANGED encoderVars
  PROVE  EncoderInv'
<1>1. /\ punct' = punct /\ d_state' = d_state /\ d_punct_count' = d_punct_count
      /\ d_buffer' = d_buffer /\ working' = working /\ offered' = offered /\ room' = room
      /\ asked' = asked /\ sent' = sent /\ consumed' = consumed
  BY DEF encoderVars
<1>2. EncoderTypeOK'
  BY <1>1 DEF EncoderInv, EncoderTypeOK
<1>3. OneStream' /\ CallInv'
  BY <1>1 DEF EncoderInv, OneStream, CallInv
<1>4. RegisterOf(d_state, consumed)' /\ PhaseOf(punct, d_punct_count, consumed)'
  BY <1>1 DEF EncoderInv, RegisterOf, PhaseOf
<1> QED
  BY <1>2, <1>3, <1>4 DEF EncoderInv

-----------------------------------------------------------------------------
(* Parts of sequences of bits *)

\* Is u made of the m bits of s and the n bits of t, or of the l bits of s behind o?
Joins(u, s, m, t, n) ==
  /\ u \in Seq(Bit) /\ Len(u) = m + n
  /\ \A i \in 1 .. m : u[i] = s[i]
  /\ \A i \in 1 .. n : u[m + i] = t[i]

Slice(u, s, o, l) ==
  /\ u \in Seq(Bit) /\ Len(u) = l
  /\ \A i \in 1 .. l : u[i] = s[o + i]

\* The bits of two sequences one behind the other.
LEMMA JoinBits ==
  ASSUME NEW s \in Seq(Bit), NEW t \in Seq(Bit), NEW m, NEW n, Len(s) = m, Len(t) = n
  PROVE  Joins(s \o t, s, m, t, n)
<1> DEFINE u == s \o t
<1>1. /\ u \in Seq(Bit) /\ Len(u) = Len(s) + Len(t)
      /\ \A i \in 1 .. Len(s) : u[i] = s[i]
      /\ \A i \in 1 .. Len(t) : u[Len(s) + i] = t[i]
  BY ConcatBits
<1> HIDE DEF u
<1>2. Joins(u, s, m, t, n)
  BY <1>1 DEF Joins
<1> QED BY <1>2 DEF u

\* The bits of a part of a sequence.
LEMMA SliceBits ==
  ASSUME NEW s \in Seq(Bit), NEW o \in Nat, NEW l \in Nat, o + l <= Len(s)
  PROVE  Slice(SubSeq(s, o + 1, o + l), s, o, l)
<1> DEFINE a == o + 1
           b == o + l
           u == SubSeq(s, a, b)
<1>1. a \in Int /\ b \in Int /\ Len(s) \in Nat /\ b - a + 1 = l /\ (a <= b <=> l # 0)
      /\ \A i \in a .. b : i \in 1 .. Len(s)
  BY LenProperties
<1>2. \A i \in a .. b : s[i] \in Bit
  BY <1>1, ElementOfSeq
<1>3. \A i \in 1 .. l : a + i - 1 = o + i
  OBVIOUS
<1> HIDE DEF a, b
<1>4. /\ u \in Seq(Bit) /\ Len(u) = IF a <= b THEN b - a + 1 ELSE 0
      /\ \A i \in 1 .. b - a + 1 : u[i] = s[a + i - 1]
  BY <1>1, <1>2, SubSeqProperties
<1> HIDE DEF u
<1>5. Slice(u, s, o, l)
  BY <1>1, <1>3, <1>4 DEF Slice
<1> QED BY <1>5 DEF u, a, b

-----------------------------------------------------------------------------
(* What comes next: markers and frames in turn *)

\* Marker and frame are made of whole bytes.
LEMMA Sizes ==
  /\ Asm \in Seq(Bit) /\ Len(Asm) \in Nat /\ Len(Asm) >= 8 /\ BlockLen \in Nat
  /\ Period \in Nat /\ Period >= 8 /\ Period % 8 = 0 /\ Period = Len(Asm) + BlockLen
<1> DEFINE a == Len(Asm)
<1>1. Asm \in Seq(Bit) /\ a \in Nat /\ a > 0 /\ a % 8 = 0 /\ BlockLen \in Nat /\ BlockLen % 8 = 0
  BY LinkAssumption, LenProperties
<1> HIDE DEF a
<1>2. a >= 8 /\ (a + BlockLen) % 8 = 0 /\ a + BlockLen >= 8 /\ a + BlockLen \in Nat
  BY <1>1
<1> QED BY <1>1, <1>2 DEF Period, a

\* Products with a smaller and a greater factor
LEMMA Multiples ==
  ASSUME NEW m \in Nat, NEW n \in Nat, NEW p \in Nat
  PROVE  /\ m * p \in Nat
         /\ m < n => (m * p) + p <= n * p
         /\ (m + 1) * p = (m * p) + p
<1>1. m * p \in Nat /\ (m + 1) * p = (m * p) + p
  OBVIOUS
<1>2. ASSUME m < n PROVE (m * p) + p <= n * p
  <2> DEFINE k == n - m - 1
  <2>1. k \in Nat /\ n = (m + 1) + k
    BY <1>2
  <2> HIDE DEF k
  <2>2. ((m + 1) + k) * p = ((m + 1) * p) + (k * p) /\ k * p \in Nat
    BY <2>1
  <2> QED BY <1>1, <2>1, <2>2
<1> QED BY <1>1, <1>2

\* Whole bytes of the stream end within a marker and frame, and leave room for one more.
LEMMA Turns ==
  ASSUME NEW l \in Nat, l % 8 = 0
  PROVE  /\ l % Period \in Nat /\ (l % Period) + 8 <= Period
         /\ l \div Period \in Nat
         /\ l = ((l \div Period) * Period) + (l % Period)
<1> DEFINE p == Period
           t == l % p
           q == l \div p
<1>1. p \in Nat /\ p >= 8 /\ p % 8 = 0
  BY Sizes
<1> HIDE DEF p
<1>2. t \in 0 .. p - 1 /\ q \in Nat /\ l = (q * p) + t
  BY <1>1, SMT
<1> HIDE DEF t, q
<1>3. PICK h \in Nat : p = 8 * h
  BY <1>1
<1>4. PICK g \in Nat : l = 8 * g
  OBVIOUS
<1>5. q * p = 8 * (q * h) /\ q * h \in Nat
  BY <1>2, <1>3, SMT
<1> DEFINE z == q * h
<1> HIDE DEF z
<1>6. z \in Nat /\ t = (8 * g) - (8 * z)
  BY <1>2, <1>4, <1>5 DEF z
<1>7. t + 8 <= p
  BY <1>2, <1>3, <1>6
<1> QED BY <1>2, <1>7 DEF p, t, q

\* A marker and a frame behind it
LEMMA MarkerFrame ==
  ASSUME NEW d \in Data
  PROVE  /\ d \in Seq(Bit) /\ Len(d) = BlockLen
         /\ Asm \o d \in Seq(Bit) /\ Len(Asm \o d) = Period
         /\ Joins(Asm \o d, Asm, Len(Asm), d, BlockLen)
<1>1. d \in [1 .. BlockLen -> Bit]
  BY LinkAssumption
<1>2. d \in Seq(Bit) /\ Len(d) = BlockLen
  BY <1>1, Sizes, TupleOfBits
<1>3. Joins(Asm \o d, Asm, Len(Asm), d, BlockLen)
  BY <1>2, Sizes, JoinBits
<1> DEFINE s == Asm \o d
<1> HIDE DEF s
<1>4. s \in Seq(Bit) /\ Len(s) = Period
  BY <1>3, Sizes DEF Joins, s
<1> QED BY <1>2, <1>3, <1>4 DEF s

\* The next byte is a part of a marker and a frame that go on as the stream has begun.
LEMMA NextBytePart ==
  ASSUME consumed \in Seq(Bit), Len(consumed) % 8 = 0, NEW byte \in NextBytes
  PROVE  /\ byte \in Byte
         /\ \E d \in Data :
              /\ \A i \in 1 .. Turn : consumed[Len(consumed) - Turn + i] = (Asm \o d)[i]
              /\ Slice(byte, Asm \o d, Turn, 8)
<1>1. PICK d \in Data :
         /\ \A i \in 1 .. Turn : consumed[Len(consumed) - Turn + i] = (Asm \o d)[i]
         /\ byte = SubSeq(Asm \o d, Turn + 1, Turn + 8)
  BY DEF NextBytes
<1> DEFINE s == Asm \o d
           n == 8
<1>2. s \in Seq(Bit) /\ Len(s) = Period
  BY MarkerFrame
<1>3. Turn \in Nat /\ Turn + n <= Period /\ n \in Nat
  BY Turns, LenProperties DEF Turn
<1>4. byte = SubSeq(s, Turn + 1, Turn + n)
  BY <1>1
<1> HIDE DEF s, n
<1>5. Slice(byte, s, Turn, n)
  BY <1>2, <1>3, <1>4, SliceBits
<1>6. byte \in [1 .. n -> Bit]
  BY <1>5, TupleFunction DEF Slice
<1> QED BY <1>1, <1>5, <1>6 DEF s, n, Byte

-----------------------------------------------------------------------------
(* The link *)

\* The variables of decoder and receiver have their types.
ReceiverTypeOK ==
  /\ aborted \in BOOLEAN /\ ended \in BOOLEAN
  /\ received \in 0 .. MaxBytes /\ found \in 0 .. received
  /\ published.kind \in {"nothing", "eof", "blob"}

\* The inductive invariant of the link: the input is made of whole bytes.
LinkInv == EncoderInv /\ ReceiverTypeOK /\ Len(consumed) % 8 = 0

\* What the decoder makes of a message.
LEMMA DecoderKeeps ==
  ASSUME ReceiverTypeOK, NEW msg, Decoder!process_message(msg)
  PROVE  /\ punct' = punct
         /\ aborted' \in BOOLEAN
         /\ published'.kind \in {"nothing", "eof", "blob"}
<1>1. punct' = punct
  BY DEF Decoder!process_message
<1>2. CASE Decoder!PassEof(msg)
  BY <1>1, <1>2 DEF Decoder!PassEof, Decoder!EOF, ReceiverTypeOK
<1>3. CASE Decoder!Skip(msg)
  BY <1>1, <1>3 DEF Decoder!Skip, ReceiverTypeOK
<1>4. CASE Decoder!Decode(msg)
  <2>1. \/ (\E data : published' = Decoder!Blob(data)) /\ aborted' = aborted
        \/ aborted' = TRUE /\ published' = published
    BY <1>4 DEF Decoder!Decode
  <2>2. \A data : Decoder!Blob(data).kind = "blob"
    BY DEF Decoder!Blob
  <2> QED
    BY <1>1, <2>1, <2>2 DEF ReceiverTypeOK
<1> QED
  BY <1>2, <1>3, <1>4 DEF Decoder!process_message

\* The invariant holds initially.
LEMMA LinkInitially == Init => LinkInv
<1> SUFFICES ASSUME Init
             PROVE  LinkInv
  OBVIOUS
<1>1. EncoderInit /\ Decoder!DecoderInit /\ received = 0 /\ found = 0 /\ ended = FALSE
  BY DEF Init
<1>2. EncoderInv
  BY <1>1, EncoderInitially
<1>3. aborted = FALSE /\ published.kind = "nothing"
  BY <1>1 DEF Decoder!DecoderInit, Decoder!Nothing
<1>4. 0 \in 0 .. MaxBytes /\ 0 \in 0 .. 0
  BY LinkAssumption
<1>5. Len(consumed) % 8 = 0
  BY <1>1 DEF EncoderInit
<1> QED
  BY <1>1, <1>2, <1>3, <1>4, <1>5 DEF LinkInv, ReceiverTypeOK

\* Every step keeps the invariant.
LEMMA LinkKept == LinkInv /\ [Next]_vars => LinkInv'
<1> SUFFICES ASSUME LinkInv, [Next]_vars
             PROVE  LinkInv'
  OBVIOUS
<1>1. EncoderInv /\ ReceiverTypeOK /\ Len(consumed) % 8 = 0
  BY DEF LinkInv
<1>9. ASSUME consumed' = consumed
      PROVE  (Len(consumed) % 8 = 0)'
  BY <1>1, <1>9
<1>2. ASSUME UNCHANGED <<published, aborted, received, found, ended>>
      PROVE  ReceiverTypeOK'
  BY <1>1, <1>2 DEF ReceiverTypeOK
<1>3. CASE StartWork
  <2>1. PICK nin \in 0 .. MaxOffered, nout \in 1 .. MaxRoom : Enter(nin, nout)
    BY <1>3 DEF StartWork
  <2>2. EncoderInv'
    BY <1>1, <2>1, EnterKeeps
  <2>3. ReceiverTypeOK'
    BY <1>2, <1>3 DEF StartWork
  <2>4. consumed' = consumed
    BY <2>1 DEF Enter
  <2> QED
    BY <1>9, <2>2, <2>3, <2>4 DEF LinkInv
<1>4. CASE Encode
  <2>1. PICK byte \in NextBytes : EncodeByte(byte)
    BY <1>4 DEF Encode
  <2>2. byte \in Byte /\ byte \in Seq(Bit) /\ Len(byte) = 8 /\ consumed \in Seq(Bit)
    <3>1. consumed \in Seq(Bit)
      BY <1>1 DEF EncoderInv, EncoderTypeOK
    <3> QED
      BY <1>1, <3>1, NextBytePart, BytesAreBits
  <2>3. EncoderInv'
    BY <1>1, <2>1, <2>2, EncodeByteKeeps
  <2>4. ReceiverTypeOK'
    BY <1>2, <1>4 DEF Encode
  <2>5. (Len(consumed) % 8 = 0)'
    <3>1. consumed' = consumed \o byte
      BY <2>1 DEF EncodeByte
    <3> DEFINE l == Len(consumed)
    <3>2. l \in Nat /\ l % 8 = 0
      BY <1>1, <2>2, LenProperties
    <3>3. Len(consumed \o byte) = l + 8
      <4>1. Len(consumed \o byte) = Len(consumed) + Len(byte)
        BY <2>2, ConcatBits
      <4> QED
        BY <2>2, <4>1
    <3> HIDE DEF l
    <3>4. (l + 8) % 8 = 0
      BY <3>2
    <3> QED
      BY <3>1, <3>3, <3>4
  <2> QED
    BY <2>3, <2>4, <2>5 DEF LinkInv
<1>5. CASE EndWork
  <2>1. EncoderInv'
    BY <1>1, <1>5, ReturnKeeps DEF EndWork
  <2>2. ReceiverTypeOK'
    BY <1>2, <1>5 DEF EndWork
  <2>3. consumed' = consumed
    BY <1>5 DEF EndWork, Return
  <2> QED
    BY <1>9, <2>1, <2>2, <2>3 DEF LinkInv
<1>6. CASE DeliverFrame
  <2>1. PICK n \in 1 .. MaxBytes, cut \in Cuts : Deliver(n, cut)
    BY <1>6 DEF DeliverFrame
  <2>2. /\ n > received /\ received' = n /\ ended' = ended
        /\ found' \in {n, found}
        /\ UNCHANGED encoderVars
        /\ \E msg : Decoder!process_message(msg)
    BY <2>1 DEF Deliver
  <2>3. EncoderInv'
    BY <1>1, <2>2, EncoderStutters
  <2>4. aborted' \in BOOLEAN /\ published'.kind \in {"nothing", "eof", "blob"}
    BY <1>1, <2>2, DecoderKeeps
  <2>5. received' \in 0 .. MaxBytes /\ found' \in 0 .. received' /\ ended' \in BOOLEAN
    <3>1. /\ MaxBytes \in Nat /\ received \in 0 .. MaxBytes
          /\ found \in 0 .. received /\ ended \in BOOLEAN
      BY <1>1, LinkAssumption DEF ReceiverTypeOK
    <3>2. n \in 0 .. MaxBytes /\ n \in 0 .. n /\ found \in 0 .. n
      BY <2>2, <3>1
    <3> QED
      BY <2>2, <3>1, <3>2
  <2>6. consumed' = consumed
    BY <2>2 DEF encoderVars
  <2> QED
    BY <1>9, <2>3, <2>4, <2>5, <2>6 DEF LinkInv, ReceiverTypeOK
<1>7. CASE DeliverOther
  <2>1. /\ UNCHANGED <<encoderVars, received, found>>
        /\ \E msg : Decoder!process_message(msg) /\ ended' = (msg = Decoder!EOF)
    BY <1>7 DEF DeliverOther
  <2>2. EncoderInv'
    BY <1>1, <2>1, EncoderStutters
  <2>3. aborted' \in BOOLEAN /\ published'.kind \in {"nothing", "eof", "blob"}
    BY <1>1, <2>1, DecoderKeeps
  <2>4. ended' \in BOOLEAN
    BY <2>1
  <2>5. consumed' = consumed
    BY <2>1 DEF encoderVars
  <2> QED
    BY <1>1, <1>9, <2>1, <2>2, <2>3, <2>4, <2>5 DEF LinkInv, ReceiverTypeOK
<1>8. CASE UNCHANGED vars
  <2>1. UNCHANGED encoderVars /\ UNCHANGED <<published, aborted, received, found, ended>>
    BY <1>8 DEF vars
  <2>2. consumed' = consumed
    BY <2>1 DEF encoderVars
  <2> QED
    BY <1>1, <1>2, <1>9, <2>1, <2>2, EncoderStutters DEF LinkInv
<1> QED
  BY <1>3, <1>4, <1>5, <1>6, <1>7, <1>8 DEF Next

\* The invariant holds in every reachable state.
LEMMA LinkInvariance == Spec => []LinkInv
  BY LinkInitially, LinkKept, PTL DEF Spec

\* For all polynomials, puncturing schemes and divisions of the input into bytes and
\* calls, the variables of encoder, decoder and receiver keep their types; in
\* particular at most seven bits wait when a byte is encoded, and the registers of
\* general_work hold all bits (lines 86 and 134 of conv_encode27_bb_impl.cc).
THEOREM LinkTypeCorrect == Spec => []TypeOK
<1>1. LinkInv => TypeOK
  BY DEF LinkInv, EncoderInv, ReceiverTypeOK, TypeOK
<1> QED
  BY <1>1, LinkInvariance, PTL

\* For all polynomials and puncturing schemes, and however input and output are divided
\* into calls, the encoder sends the punctured code of its input as one stream (encode
\* and puncture of conv_encode27_aux, general_work of conv_encode27_bb_impl).
THEOREM LinkOneStream == Spec => []OneStream
<1>1. LinkInv => OneStream
  BY DEF LinkInv, EncoderInv
<1> QED
  BY <1>1, LinkInvariance, PTL

\* Every call of general_work that was given as much input as forecast asked for outputs
\* a byte (forecast and the loop of general_work).
THEOREM LinkCallsProduce == Spec => CallsProduce
<1>1. LinkInv /\ [Next]_vars => [working /\ ~ working' => room < asked]_encoderVars
  <2> SUFFICES ASSUME LinkInv, Next, working, ~ working'
               PROVE  room < asked \/ UNCHANGED encoderVars
    BY DEF vars, encoderVars
  <2>1. CASE StartWork
    BY <2>1 DEF StartWork, Enter
  <2>2. CASE Encode
    BY <2>2 DEF Encode, EncodeByte
  <2>3. CASE EndWork
    <3>1. offered = 0 \/ room = 0
      BY <2>3 DEF EndWork, Return
    <3>2. asked >= 1 /\ (room < asked \/ offered > 0)
      BY DEF LinkInv, EncoderInv, CallInv
    <3>3. room \in 0 .. asked /\ asked \in 0 .. MaxRoom /\ offered \in 0 .. MaxOffered
      BY DEF LinkInv, EncoderInv, EncoderTypeOK
    <3> QED
      BY <3>1, <3>2, <3>3, CallAssumption
  <2>4. CASE DeliverFrame
    BY <2>4 DEF DeliverFrame, Deliver
  <2>5. CASE DeliverOther
    BY <2>5 DEF DeliverOther
  <2> QED
    BY <2>1, <2>2, <2>3, <2>4, <2>5 DEF Next
<1> QED
  BY <1>1, LinkInvariance, PTL DEF Spec, CallsProduce

-----------------------------------------------------------------------------
(* The polynomials of the decoder *)

\* The digits of a number of seven bits.
LEMMA Digits ==
  ASSUME NEW a \in {0, 1}, NEW b \in {0, 1}, NEW c \in {0, 1}, NEW d \in {0, 1},
         NEW e \in {0, 1}, NEW f \in {0, 1}, NEW g \in {0, 1}
  PROVE  LET r == a + 2 * b + 4 * c + 8 * d + 16 * e + 32 * f + 64 * g
         IN  /\ r \in Nat
             /\ r = 0 => a = 0 /\ b = 0 /\ c = 0 /\ d = 0 /\ e = 0 /\ f = 0 /\ g = 0
             /\ (r \div 1) % 2 = a /\ (r \div 2) % 2 = b /\ (r \div 4) % 2 = c
             /\ (r \div 8) % 2 = d /\ (r \div 16) % 2 = e /\ (r \div 32) % 2 = f
             /\ (r \div 64) % 2 = g
<1> DEFINE r == a + 2 * b + 4 * c + 8 * d + 16 * e + 32 * f + 64 * g
<1>1. r \in Nat
  OBVIOUS
<1>2. r = 0 => a = 0 /\ b = 0 /\ c = 0 /\ d = 0 /\ e = 0 /\ f = 0 /\ g = 0
  OBVIOUS
<1>3. (r \div 1) % 2 = a
  OBVIOUS
<1>4. (r \div 2) % 2 = b
  OBVIOUS
<1>5. (r \div 4) % 2 = c
  OBVIOUS
<1>6. (r \div 8) % 2 = d
  OBVIOUS
<1>7. (r \div 16) % 2 = e
  OBVIOUS
<1>8. (r \div 32) % 2 = f
  OBVIOUS
<1>9. (r \div 64) % 2 = g
  OBVIOUS
<1> QED
  BY <1>1, <1>2, <1>3, <1>4, <1>5, <1>6, <1>7, <1>8, <1>9

\* A number whose lower seven bits are zero is a multiple of 128.
LEMMA NoDigits ==
  ASSUME NEW P \in 0 .. 255,
         (P \div 1) % 2 = 0, (P \div 2) % 2 = 0, (P \div 4) % 2 = 0, (P \div 8) % 2 = 0,
         (P \div 16) % 2 = 0, (P \div 32) % 2 = 0, (P \div 64) % 2 = 0
  PROVE  P % 128 = 0
  BY SMT

\* The values of the first seven bits.
LEMMA Weights ==
  /\ Weight[1] = 1 /\ Weight[2] = 2 /\ Weight[3] = 4 /\ Weight[4] = 8
  /\ Weight[5] = 16 /\ Weight[6] = 32 /\ Weight[7] = 64
  BY DEF Weight

\* The decoder instance has definitions of its own for what it shares with the encoder.
LEMMA SameCardinality == \A S : Decoder!Cardinality(S) = Cardinality(S)
  BY DEF Decoder!Cardinality, Cardinality

\* They are the same: the decoder reads patterns and polynomials as the encoder does.
LEMMA SameCode ==
  /\ Decoder!Weight = Weight
  /\ \A b, k : Decoder!BitSet(b, k) = BitSet(b, k)
  /\ \A S : Decoder!Parity(S) = Parity(S)
  /\ \A p, i : Decoder!Keeps(p, i) = Keeps(p, i)
<1>1. Decoder!Weight = Weight
  BY DEF Decoder!Weight, Weight
<1>2. \A b, k : Decoder!BitSet(b, k) = BitSet(b, k)
  BY <1>1 DEF Decoder!BitSet, BitSet
<1>3. \A S : Decoder!Parity(S) = Parity(S)
  BY SameCardinality DEF Decoder!Parity, Parity
<1>4. \A p, i : Decoder!Keeps(p, i) = Keeps(p, i)
  <2>1. Decoder!get_pattern = get_pattern
    BY DEF Decoder!get_pattern, get_pattern
  <2> QED BY <2>1 DEF Decoder!Keeps, Keeps, Decoder!get_pattern_len, get_pattern_len
<1> QED BY <1>1, <1>2, <1>3, <1>4

\* The converted polynomial connects what that of the encoder does, in reverse order,
\* and is negative if that inverts.  Zero would have no sign.
LEMMA PolyReversed ==
  ASSUME NEW P \in 0 .. 255, P % 128 # 0
  PROVE  LET r == Decoder!convert_poly(P)
             m == IF r < 0 THEN -r ELSE r
         IN  /\ r < 0 <=> BitSet(P, 7)
             /\ \A t \in 0 .. 6 : BitSet(m, t) <=> BitSet(P, 6 - t)
<1> DEFINE e(i) == IF BitSet(P, 6 - i) THEN 1 ELSE 0
           ret == e(0) + 2 * e(1) + 4 * e(2) + 8 * e(3) + 16 * e(4) + 32 * e(5) + 64 * e(6)
           r == Decoder!convert_poly(P)
           m == IF r < 0 THEN -r ELSE r
<1>1. r = IF BitSet(P, 7) THEN -ret ELSE ret
  <2> DEFINE bit(i) == IF Decoder!BitSet(P, 6 - i) THEN Decoder!Weight[i + 1] ELSE 0
  <2>1. r = IF Decoder!BitSet(P, 7)
            THEN -(bit(0) + bit(1) + bit(2) + bit(3) + bit(4) + bit(5) + bit(6))
            ELSE bit(0) + bit(1) + bit(2) + bit(3) + bit(4) + bit(5) + bit(6)
    BY DEF Decoder!convert_poly
  <2>2. /\ bit(0) = e(0) /\ bit(1) = 2 * e(1) /\ bit(2) = 4 * e(2) /\ bit(3) = 8 * e(3)
        /\ bit(4) = 16 * e(4) /\ bit(5) = 32 * e(5) /\ bit(6) = 64 * e(6)
    BY SameCode, Weights
  <2> HIDE DEF bit, e
  <2> QED BY <2>1, <2>2, SameCode
<1>2. /\ e(0) \in {0, 1} /\ e(1) \in {0, 1} /\ e(2) \in {0, 1} /\ e(3) \in {0, 1}
      /\ e(4) \in {0, 1} /\ e(5) \in {0, 1} /\ e(6) \in {0, 1}
  OBVIOUS
<1>3. ~ (/\ e(0) = 0 /\ e(1) = 0 /\ e(2) = 0 /\ e(3) = 0
         /\ e(4) = 0 /\ e(5) = 0 /\ e(6) = 0)
  <2> SUFFICES ASSUME /\ e(0) = 0 /\ e(1) = 0 /\ e(2) = 0 /\ e(3) = 0
                      /\ e(4) = 0 /\ e(5) = 0 /\ e(6) = 0
               PROVE  FALSE
    OBVIOUS
  <2>1. /\ ~ BitSet(P, 6) /\ ~ BitSet(P, 5) /\ ~ BitSet(P, 4) /\ ~ BitSet(P, 3)
        /\ ~ BitSet(P, 2) /\ ~ BitSet(P, 1) /\ ~ BitSet(P, 0)
    OBVIOUS
  <2> HIDE DEF e
  <2>2. /\ ~ (P \div 64) % 2 = 1 /\ ~ (P \div 32) % 2 = 1 /\ ~ (P \div 16) % 2 = 1
        /\ ~ (P \div 8) % 2 = 1 /\ ~ (P \div 4) % 2 = 1 /\ ~ (P \div 2) % 2 = 1
        /\ ~ (P \div 1) % 2 = 1
    <3> DEFINE w(k) == Weight[k + 1]
    <3>1. \A k \in 0 .. 6 : ~ BitSet(P, k) => ~ (P \div w(k)) % 2 = 1
      BY DEF BitSet
    <3>2. /\ w(0) = 1 /\ w(1) = 2 /\ w(2) = 4 /\ w(3) = 8
          /\ w(4) = 16 /\ w(5) = 32 /\ w(6) = 64
      BY Weights
    <3> HIDE DEF w
    <3>3. /\ 0 \in 0 .. 6 /\ 1 \in 0 .. 6 /\ 2 \in 0 .. 6 /\ 3 \in 0 .. 6
          /\ 4 \in 0 .. 6 /\ 5 \in 0 .. 6 /\ 6 \in 0 .. 6
      OBVIOUS
    <3>4. ~ (P \div 64) % 2 = 1 /\ ~ (P \div 32) % 2 = 1 /\ ~ (P \div 16) % 2 = 1
      BY <2>1, <3>1, <3>2, <3>3
    <3>5. ~ (P \div 8) % 2 = 1 /\ ~ (P \div 4) % 2 = 1 /\ ~ (P \div 2) % 2 = 1
      BY <2>1, <3>1, <3>2, <3>3
    <3>6. ~ (P \div 1) % 2 = 1
      BY <2>1, <3>1, <3>2, <3>3
    <3> QED BY <3>4, <3>5, <3>6
  <2>3. /\ (P \div 64) % 2 = 0 /\ (P \div 32) % 2 = 0 /\ (P \div 16) % 2 = 0
        /\ (P \div 8) % 2 = 0 /\ (P \div 4) % 2 = 0 /\ (P \div 2) % 2 = 0
        /\ (P \div 1) % 2 = 0
    BY <2>2
  <2> QED BY <2>3, NoDigits
<1>4. /\ ret \in Nat /\ ret # 0
      /\ (ret \div 1) % 2 = e(0) /\ (ret \div 2) % 2 = e(1) /\ (ret \div 4) % 2 = e(2)
      /\ (ret \div 8) % 2 = e(3) /\ (ret \div 16) % 2 = e(4) /\ (ret \div 32) % 2 = e(5)
      /\ (ret \div 64) % 2 = e(6)
  <2> DEFINE a == e(0)
             b == e(1)
             c == e(2)
             d == e(3)
             h == e(4)
             f == e(5)
             g == e(6)
  <2>1. /\ a \in {0, 1} /\ b \in {0, 1} /\ c \in {0, 1} /\ d \in {0, 1}
        /\ h \in {0, 1} /\ f \in {0, 1} /\ g \in {0, 1}
    BY <1>2
  <2>2. ret = a + 2 * b + 4 * c + 8 * d + 16 * h + 32 * f + 64 * g
    OBVIOUS
  <2>3. ~ (a = 0 /\ b = 0 /\ c = 0 /\ d = 0 /\ h = 0 /\ f = 0 /\ g = 0)
    BY <1>3
  <2> HIDE DEF e, a, b, c, d, f, g, h, ret
  <2>4. /\ ret \in Nat /\ ret # 0
        /\ (ret \div 1) % 2 = a /\ (ret \div 2) % 2 = b /\ (ret \div 4) % 2 = c
        /\ (ret \div 8) % 2 = d /\ (ret \div 16) % 2 = h /\ (ret \div 32) % 2 = f
        /\ (ret \div 64) % 2 = g
    BY <2>1, <2>2, <2>3, Digits
  <2> QED BY <2>4 DEF a, b, c, d, f, g, h
<1>5. m = ret /\ (r < 0 <=> BitSet(P, 7))
  <2> HIDE DEF ret, r
  <2> QED BY <1>1, <1>4
<1>6. ASSUME NEW t \in 0 .. 6
      PROVE  BitSet(ret, t) <=> e(t) = 1
  <2> HIDE DEF ret, e
  <2>1. CASE t = 0
    BY <1>4, <2>1, Weights DEF BitSet
  <2>2. CASE t = 1
    BY <1>4, <2>2, Weights DEF BitSet
  <2>3. CASE t = 2
    BY <1>4, <2>3, Weights DEF BitSet
  <2>4. CASE t = 3
    BY <1>4, <2>4, Weights DEF BitSet
  <2>5. CASE t = 4
    BY <1>4, <2>5, Weights DEF BitSet
  <2>6. CASE t = 5
    BY <1>4, <2>6, Weights DEF BitSet
  <2>7. CASE t = 6
    BY <1>4, <2>7, Weights DEF BitSet
  <2> QED BY <2>1, <2>2, <2>3, <2>4, <2>5, <2>6, <2>7
<1>7. ASSUME NEW t \in 0 .. 6
      PROVE  e(t) = 1 <=> BitSet(P, 6 - t)
  OBVIOUS
<1> HIDE DEF e, ret, r, m
<1>8. (r < 0 <=> BitSet(P, 7)) /\ \A t \in 0 .. 6 : BitSet(m, t) <=> BitSet(P, 6 - t)
  BY <1>5, <1>6, <1>7
<1> QED BY <1>8 DEF m, r

\* libfec and the encoder compute the same bit of the code.
LEMMA LibfecSame ==
  ASSUME NEW P \in 0 .. 255, P % 128 # 0, NEW x, NEW n \in Nat, n >= 7
  PROVE  Decoder!LibfecBit(Decoder!convert_poly(P), x, n) = CodeBit(P, x, n)
<1> DEFINE r == Decoder!convert_poly(P)
           m == IF r < 0 THEN -r ELSE r
           A == {t \in 0 .. 6 : x[n - t] = 1 /\ Decoder!BitSet(m, t)}
           B == {t \in 0 .. 6 : n - t >= 1 /\ x[n - t] = 1 /\ BitSet(P, 6 - t)}
<1>1. (r < 0 <=> BitSet(P, 7)) /\ \A t \in 0 .. 6 : BitSet(m, t) <=> BitSet(P, 6 - t)
  BY PolyReversed
<1>2. Decoder!LibfecBit(r, x, n) = (Decoder!Parity(A) + (IF r < 0 THEN 1 ELSE 0)) % 2
  BY DEF Decoder!LibfecBit
<1>3. CodeBit(P, x, n) = (Parity(B) + (IF BitSet(P, 7) THEN 1 ELSE 0)) % 2
  BY DEF CodeBit
<1>4. A = B
  <2>1. \A t \in 0 .. 6 : n - t >= 1
    OBVIOUS
  <2> HIDE DEF m
  <2> QED BY <1>1, <2>1, SameCode
<1> HIDE DEF r, m, A, B
<1>5. Decoder!LibfecBit(r, x, n) = CodeBit(P, x, n)
  BY <1>1, <1>2, <1>3, <1>4, SameCode
<1> QED BY <1>5 DEF r

-----------------------------------------------------------------------------
(* How much of the code is transmitted, and where *)

\* Bits kept of the first n when the pattern stands at its start.
Count(p, n) == Cardinality({i \in 0 .. n - 1 : Keeps(p, i)})

\* A set of numbers below n is finite.
LEMMA BelowFinite ==
  ASSUME NEW n \in Int, NEW S \in SUBSET (0 .. n)
  PROVE  IsFiniteSet(S) /\ Cardinality(S) \in Nat
<1>1. IsFiniteSet(0 .. n)
  <2>1. 0 \in Int
    OBVIOUS
  <2> QED BY <2>1, FS_Interval
<1>2. IsFiniteSet(S)
  BY <1>1, FS_Subset
<1> QED BY <1>2, FS_CardinalityType

\* One bit more is kept, or not.
LEMMA CountStep ==
  ASSUME NEW p \in PunctTypes, NEW n \in Nat
  PROVE  /\ Count(p, n) \in Nat /\ Count(p, 0) = 0
         /\ Keeps(p, n) => Count(p, n + 1) = Count(p, n) + 1
         /\ ~ Keeps(p, n) => Count(p, n + 1) = Count(p, n)
<1> DEFINE A == {i \in 0 .. n - 1 : Keeps(p, i)}
           B == {i \in 0 .. (n + 1) - 1 : Keeps(p, i)}
<1>1. IsFiniteSet(A) /\ Cardinality(A) \in Nat
  <2> DEFINE m == n - 1
  <2>1. m \in Int
    OBVIOUS
  <2>2. A \in SUBSET (0 .. m)
    OBVIOUS
  <2> HIDE DEF m, A
  <2> QED BY <2>1, <2>2, BelowFinite
<1>2. n \notin A
  OBVIOUS
<1>3. \A i : i \in 0 .. (n + 1) - 1 <=> i \in 0 .. n - 1 \/ i = n
  OBVIOUS
<1>4. Keeps(p, n) => B = A \cup {n}
  BY <1>3
<1>5. ~ Keeps(p, n) => B = A
  BY <1>3
<1>6. Count(p, n) = Cardinality(A) /\ Count(p, n + 1) = Cardinality(B)
  BY DEF Count
<1>7. Count(p, 0) = 0
  <2>1. {i \in 0 .. 0 - 1 : Keeps(p, i)} = {}
    OBVIOUS
  <2> QED BY <2>1, FS_EmptySet DEF Count
<1> HIDE DEF A, B
<1>8. Keeps(p, n) => Cardinality(B) = Cardinality(A) + 1
  BY <1>1, <1>2, <1>4, FS_AddElement
<1> QED BY <1>1, <1>5, <1>6, <1>7, <1>8

\* More bits are kept of more bits.
LEMMA CountGrows ==
  ASSUME NEW p \in PunctTypes, NEW m \in Nat, NEW n \in Nat, m <= n
  PROVE  Count(p, m) <= Count(p, n) /\ Count(p, m) \in Nat /\ Count(p, n) \in Nat
<1> DEFINE A == {i \in 0 .. m - 1 : Keeps(p, i)}
           B == {i \in 0 .. n - 1 : Keeps(p, i)}
<1>1. A \in SUBSET B
  OBVIOUS
<1>2. IsFiniteSet(B)
  <2> DEFINE k == n - 1
  <2>1. k \in Int /\ B \in SUBSET (0 .. k)
    OBVIOUS
  <2> HIDE DEF k, B
  <2> QED BY <2>1, BelowFinite
<1>3. Count(p, m) = Cardinality(A) /\ Count(p, n) = Cardinality(B)
  BY DEF Count
<1> HIDE DEF A, B
<1>4. Cardinality(A) <= Cardinality(B)
  BY <1>1, <1>2, FS_Subset
<1> QED BY <1>3, <1>4, CountStep

\* The pattern repeats.
LEMMA KeepsRepeats ==
  ASSUME NEW p \in PunctTypes, NEW c \in Nat, c % get_pattern_len(p) = 0, NEW i \in Nat
  PROVE  Keeps(p, c + i) = Keeps(p, i)
<1> DEFINE l == get_pattern_len(p)
<1>1. l \in {1, 3, 4, 10, 14}
  BY Patterns
<1>2. c % l = 0
  OBVIOUS
<1> HIDE DEF l
<1>3. (c + i) % l = i % l
  <2>1. ((c % l) + i) % l = (c + i) % l
    BY <1>1, SamePlace
  <2> QED BY <1>2, <2>1
<1> QED BY <1>3 DEF Keeps, l

\* Behind whole repetitions of the pattern as many bits are kept as at the start.
LEMMA CountJoined ==
  ASSUME NEW p \in PunctTypes, NEW c \in Nat, c % get_pattern_len(p) = 0, NEW n \in Nat
  PROVE  Count(p, c + n) = Count(p, c) + Count(p, n)
<1> DEFINE Joined(m) == Count(p, c + m) = Count(p, c) + Count(p, m)
           S == {m \in Nat : Joined(m)}
<1>1. 0 \in S
  <2>1. c + 0 = c /\ Count(p, 0) = 0 /\ Count(p, c) \in Nat
    BY CountStep
  <2>2. Joined(0)
    BY <2>1
  <2> QED BY <2>2
<1>2. ASSUME NEW m \in Nat, Joined(m)
      PROVE  Joined(m + 1)
  <2> DEFINE k == c + m
  <2>1. k \in Nat /\ c + (m + 1) = k + 1
    OBVIOUS
  <2>2. Keeps(p, k) = Keeps(p, m)
    BY KeepsRepeats
  <2> HIDE DEF k
  <2>3. /\ Count(p, k) \in Nat
        /\ Keeps(p, k) => Count(p, k + 1) = Count(p, k) + 1
        /\ ~ Keeps(p, k) => Count(p, k + 1) = Count(p, k)
    BY <2>1, CountStep
  <2>4. /\ Count(p, m) \in Nat /\ Count(p, c) \in Nat
        /\ Keeps(p, m) => Count(p, m + 1) = Count(p, m) + 1
        /\ ~ Keeps(p, m) => Count(p, m + 1) = Count(p, m)
    BY CountStep
  <2>5. Count(p, k) = Count(p, c) + Count(p, m)
    BY <1>2 DEF k
  <2>6. Count(p, k + 1) = Count(p, c) + Count(p, m + 1)
    <3>1. CASE Keeps(p, m)
      BY <2>2, <2>3, <2>4, <2>5, <3>1
    <3>2. CASE ~ Keeps(p, m)
      BY <2>2, <2>3, <2>4, <2>5, <3>2
    <3> QED BY <3>1, <3>2
  <2> QED BY <2>1, <2>6
<1>3. S = Nat
  <2>1. \A m \in S : m + 1 \in S
    BY <1>2
  <2>2. S \in SUBSET Nat
    OBVIOUS
  <2> HIDE DEF S
  <2> QED BY <1>1, <2>1, <2>2, SetInduction
<1>4. Joined(n)
  BY <1>3
<1> QED BY <1>4

\* What is kept of the first i bits
LEMMA KeptCount ==
  ASSUME NEW p \in PunctTypes, NEW s \in Seq(Bit)
  PROVE  \A i \in 0 .. Len(s) : Len(KeptOf(p, 0, s)[i]) = Count(p, i)
<1> DEFINE k == KeptOf(p, 0, s)
           S == {n \in Nat : n <= Len(s) => Len(k[n]) = Count(p, n)}
<1>1. Len(s) \in Nat /\ k[0] = <<>>
  BY KeptSteps, LenProperties
<1>2. 0 \in S
  <2>1. Len(k[0]) = Count(p, 0)
    BY <1>1, CountStep
  <2> QED BY <2>1
<1>3. ASSUME NEW n \in Nat, n <= Len(s) => Len(k[n]) = Count(p, n), n + 1 <= Len(s)
      PROVE  Len(k[n + 1]) = Count(p, n + 1)
  <2> DEFINE i == n + 1
  <2>1. i \in 1 .. Len(s) /\ i - 1 = n /\ 0 + i - 1 = n /\ n <= Len(s)
    BY <1>1, <1>3
  <2>2. /\ Keeps(p, 0 + i - 1) => Len(k[i]) = Len(k[i - 1]) + 1
        /\ ~ Keeps(p, 0 + i - 1) => Len(k[i]) = Len(k[i - 1])
    <3> HIDE DEF i
    <3>1. 0 \in Nat
      OBVIOUS
    <3> QED BY <2>1, <3>1, KeptGrows
  <2> HIDE DEF i, k
  <2>3. /\ Keeps(p, n) => Len(k[i]) = Len(k[n]) + 1
        /\ ~ Keeps(p, n) => Len(k[i]) = Len(k[n])
    BY <2>1, <2>2
  <2>4. Len(k[n]) = Count(p, n)
    BY <1>3, <2>1
  <2>5. Len(k[i]) = Count(p, n + 1)
    BY <2>3, <2>4, CountStep
  <2> QED BY <2>5 DEF i
<1>4. S = Nat
  <2>1. \A n \in S : n + 1 \in S
    BY <1>3
  <2>2. S \in SUBSET Nat
    OBVIOUS
  <2> HIDE DEF S
  <2> QED BY <1>2, <2>1, <2>2, SetInduction
<1>5. \A i \in 0 .. Len(s) : i \in S
  BY <1>1, <1>4
<1> QED BY <1>1, <1>5

\* Bit i is where the bits kept up to it end.
LEMMA KeptElement ==
  ASSUME NEW p \in PunctTypes, NEW s \in Seq(Bit), NEW i \in 1 .. Len(s), Keeps(p, i - 1)
  PROVE  Punctured(p, 0, s)[Count(p, i)] = s[i]
<1> DEFINE k == KeptOf(p, 0, s)
           c == Count(p, i)
           Ends(m) == c <= Len(k[m]) /\ k[m][c] = s[i]
           S == {n \in Nat : i + n <= Len(s) => Ends(i + n)}
<1>1. /\ Len(s) \in Nat /\ i \in Nat /\ i >= 1 /\ i <= Len(s)
      /\ \A j \in 1 .. Len(s) : k[j] = NextKept(p, 0, s, k[j - 1], j)
      /\ \A j \in 0 .. Len(s) : k[j] \in Seq(Bit) /\ Len(k[j]) = Count(p, j)
  BY KeptSteps, KeptCount, LenProperties
<1>2. c \in Nat /\ c >= 1
  <2>1. i - 1 \in Nat /\ (i - 1) + 1 = i
    BY <1>1
  <2>2. Count(p, i - 1) \in Nat /\ Count(p, (i - 1) + 1) = Count(p, i - 1) + 1
    BY <2>1, CountStep
  <2> QED BY <2>1, <2>2
<1> HIDE DEF k
<1>3. 0 \in S
  <2>1. k[i] = Append(k[i - 1], s[i]) /\ k[i - 1] \in Seq(Bit) /\ Len(k[i]) = c
    <3>1. i - 1 \in 0 .. Len(s) /\ i \in 0 .. Len(s) /\ 0 + i - 1 = i - 1
      BY <1>1
    <3> QED BY <1>1, <3>1 DEF NextKept
  <2>2. k[i][Len(k[i - 1]) + 1] = s[i] /\ Len(k[i]) = Len(k[i - 1]) + 1
    BY <2>1
  <2>3. Ends(i)
    <3> HIDE DEF c
    <3> QED BY <1>2, <2>1, <2>2
  <2>4. i + 0 = i
    BY <1>1
  <2> HIDE DEF Ends
  <2> QED BY <2>3, <2>4
<1>4. ASSUME NEW n \in Nat, i + n <= Len(s) => Ends(i + n), i + (n + 1) <= Len(s)
      PROVE  Ends(i + (n + 1))
  <2> DEFINE j == i + (n + 1)
  <2>1. j \in 1 .. Len(s) /\ j - 1 = i + n /\ j - 1 \in 0 .. Len(s) /\ i + n <= Len(s)
    BY <1>1, <1>4
  <2> HIDE DEF j, c
  <2>2. k[j] = NextKept(p, 0, s, k[j - 1], j) /\ k[j - 1] \in Seq(Bit) /\ s[j] \in Bit
    BY <1>1, <2>1, ElementOfSeq
  <2>3. c <= Len(k[j - 1]) /\ k[j - 1][c] = s[i]
    BY <1>4, <2>1
  <2>4. k[j] = k[j - 1] \/ k[j] = Append(k[j - 1], s[j])
    BY <2>2 DEF NextKept
  <2>5. c <= Len(k[j]) /\ k[j][c] = s[i]
    <3> DEFINE q == k[j - 1]
    <3>1. q \in Seq(Bit) /\ s[j] \in Bit /\ c <= Len(q) /\ q[c] = s[i] /\ c \in Nat /\ c >= 1
      BY <1>2, <2>2, <2>3 DEF c
    <3>2. k[j] = q \/ k[j] = Append(q, s[j])
      BY <2>4
    <3> HIDE DEF q
    <3>3. CASE k[j] = q
      BY <3>1, <3>3
    <3>4. CASE k[j] = Append(q, s[j])
      <4>1. Len(Append(q, s[j])) = Len(q) + 1 /\ \A h \in 1 .. Len(q) : Append(q, s[j])[h] = q[h]
        BY <3>1, AppendProperties
      <4>2. c \in 1 .. Len(q) /\ Len(q) \in Nat
        BY <3>1, LenProperties
      <4> QED BY <3>1, <3>4, <4>1, <4>2
    <3> QED BY <3>2, <3>3, <3>4
  <2> QED BY <2>5 DEF j
<1>5. S = Nat
  <2> HIDE DEF Ends
  <2>1. \A n \in S : n + 1 \in S
    BY <1>4
  <2>2. S \in SUBSET Nat
    OBVIOUS
  <2> HIDE DEF S
  <2> QED BY <1>3, <2>1, <2>2, SetInduction
<1>6. Ends(Len(s))
  <2> HIDE DEF Ends
  <2> DEFINE d == Len(s) - i
  <2>1. d \in Nat /\ i + d = Len(s)
    BY <1>1
  <2> HIDE DEF d
  <2>2. d \in S
    BY <1>5, <2>1
  <2>3. i + d <= Len(s) => Ends(i + d)
    BY <2>2
  <2>4. Len(s) <= Len(s)
    BY <1>1
  <2> QED BY <2>1, <2>3, <2>4
<1> QED BY <1>6, PuncturedKept DEF k

-----------------------------------------------------------------------------
(* The frames in the stream *)

\* Does the period m of x go through the marker and the frame d, as far as x goes?
Holds(x, m, d) ==
  \A i \in 1 .. Period : (m * Period) + i <= Len(x) => x[(m * Period) + i] = (Asm \o d)[i]

\* Is x made of whole bytes, the marker and a frame in turn?
Alternates(x) ==
  /\ Len(x) % 8 = 0
  /\ \A m \in Nat : m * Period < Len(x) => \E d \in Data : Holds(x, m, d)

\* The next byte goes on with it.
LEMMA AlternatesOn ==
  ASSUME consumed \in Seq(Bit), Alternates(consumed), NEW byte \in NextBytes
  PROVE  Alternates(consumed \o byte)
<1> DEFINE x == consumed
           y == x \o byte
           L == Len(x)
           q == L \div Period
           s == q * Period
<1>1. L \in Nat /\ L % 8 = 0 /\ byte \in Byte /\ byte \in Seq(Bit) /\ Len(byte) = 8
  BY LenProperties, NextBytePart, BytesAreBits DEF Alternates
<1>2. /\ Turn \in Nat /\ Turn + 8 <= Period /\ q \in Nat /\ s \in Nat /\ L = s + Turn
      /\ Period \in Nat
  <2>1. q * Period \in Nat
    BY <1>1, Turns, Sizes, Multiples
  <2> QED BY <1>1, <2>1, Turns, Sizes DEF Turn
<1>3. PICK d \in Data : /\ \A i \in 1 .. Turn : x[L - Turn + i] = (Asm \o d)[i]
                        /\ Slice(byte, Asm \o d, Turn, 8)
  BY <1>1, NextBytePart
<1>4. Joins(y, x, L, byte, 8)
  BY <1>1, JoinBits
<1> DEFINE b == Asm \o d
           T == Turn
<1> HIDE DEF y, q, s, L, b, T
<1>5. Len(y) = L + 8 /\ Len(y) % 8 = 0 /\ (\A i \in 1 .. L : y[i] = x[i])
      /\ \A i \in 1 .. 8 : y[L + i] = byte[i]
  BY <1>1, <1>4 DEF Joins
<1>6. Holds(y, q, d)
  <2> SUFFICES ASSUME NEW i \in 1 .. Period, s + i <= Len(y)
               PROVE  y[s + i] = b[i]
    BY DEF Holds, s, b
  <2>1. T \in Nat /\ L = s + T /\ s \in Nat /\ i <= T + 8
    BY <1>2, <1>5 DEF T
  <2>2. CASE i <= T
    <3>1. i \in 1 .. T /\ s + i \in 1 .. L /\ L - T + i = s + i
      BY <2>1, <2>2
    <3> QED BY <1>3, <1>5, <3>1 DEF b, T, L
  <2>3. CASE ~(i <= T)
    <3> DEFINE k == i - T
    <3>1. k \in 1 .. 8 /\ s + i = L + k /\ T + k = i
      BY <2>1, <2>3
    <3> HIDE DEF k
    <3>2. byte[k] = b[T + k]
      BY <1>3, <3>1 DEF b, T, Slice
    <3> QED BY <1>5, <3>1, <3>2
  <2> QED BY <2>2, <2>3
<1>7. ASSUME NEW m \in Nat, m * Period < Len(y)
      PROVE  \E e \in Data : Holds(y, m, e)
  <2>1. CASE m = q
    BY <1>6, <2>1
  <2> DEFINE o == m * Period
  <2>2. CASE m < q
    <3>1. o + Period <= L /\ o \in Nat /\ Period >= 8
      <4>1. o + Period <= s /\ o \in Nat
        BY <1>2, <2>2, Multiples DEF s
      <4> HIDE DEF o
      <4> QED BY <1>2, <4>1, Sizes
    <3>2. o < L
      <4> HIDE DEF o
      <4> QED BY <1>1, <1>2, <3>1
    <3>3. PICK e \in Data : Holds(x, m, e)
      BY <3>2 DEF Alternates, L
    <3>4. ASSUME NEW i \in 1 .. Period
          PROVE  y[o + i] = (Asm \o e)[i]
      <4>1. o + i \in 1 .. L /\ o + i <= L
        <5> HIDE DEF o
        <5> QED BY <1>1, <1>2, <3>1
      <4>2. x[o + i] = (Asm \o e)[i]
        BY <3>3, <4>1 DEF Holds, L
      <4> HIDE DEF o
      <4> QED BY <1>5, <4>1, <4>2
    <3> QED BY <3>3, <3>4 DEF Holds
  <2>3. CASE m > q
    <3>1. s + Period <= o /\ o \in Nat
      BY <1>2, <2>3, Multiples DEF s
    <3>2. o < L + 8
      BY <1>5, <1>7
    <3> HIDE DEF o
    <3>3. FALSE
      BY <1>2, <3>1, <3>2
    <3> QED BY <3>3
  <2> QED BY <1>2, <2>1, <2>2, <2>3
<1>8. Alternates(y)
  BY <1>5, <1>7 DEF Alternates
<1> QED BY <1>8 DEF y

\* The path of a frame through the trellis.
PathOf(data) == Decoder!get_start_state \o data \o Decoder!get_term_state

\* Its steps: those of the frame and six to the termination state
Steps == BlockLen + 6

LEMMA StepsType == Steps \in Nat /\ Steps = BlockLen + 6 /\ BlockLen + 12 = Steps + 6 /\ Steps >= 6
  BY Sizes DEF Steps

\* Are these the bits of a path from the start state to the termination state?
OnPath(path, data) ==
  /\ \A k \in 1 .. 6 : path[k] = Asm[Len(Asm) - 6 + k]
  /\ \A k \in 1 .. BlockLen : path[6 + k] = data[k]
  /\ \A k \in 1 .. 6 : path[Steps + k] = Asm[k]

\* The bits of the start state and of the termination state are those of the marker.
LEMMA States ==
  /\ Decoder!get_start_state \in Seq(Bit) /\ Len(Decoder!get_start_state) = 6
  /\ \A k \in 1 .. 6 : Decoder!get_start_state[k] = Asm[Len(Asm) - 6 + k]
  /\ Decoder!get_term_state \in Seq(Bit) /\ Len(Decoder!get_term_state) = 6
  /\ \A k \in 1 .. 6 : Decoder!get_term_state[k] = Asm[k]
<1>1. Asm \in Seq(Bit) /\ Len(Asm) \in Nat /\ Len(Asm) >= 8
  BY Sizes
<1>2. Slice(Decoder!get_start_state, Asm, Len(Asm) - 6, 6)
  <2> DEFINE o == Len(Asm) - 6
             l == 6
  <2>1. /\ o \in Nat /\ l \in Nat /\ o + l <= Len(Asm)
        /\ Len(Asm) - 5 = o + 1 /\ Len(Asm) = o + l
    BY <1>1
  <2>2. Decoder!get_start_state = SubSeq(Asm, Len(Asm) - 5, Len(Asm))
    BY DEF Decoder!get_start_state
  <2>3. Decoder!get_start_state = SubSeq(Asm, o + 1, o + l)
    BY <2>1, <2>2
  <2> HIDE DEF o, l
  <2>4. Slice(Decoder!get_start_state, Asm, o, l)
    BY <1>1, <2>1, <2>3, SliceBits
  <2> QED BY <2>4 DEF o, l
<1>3. Decoder!get_term_state = SubSeq(Asm, 0 + 1, 0 + 6)
  BY DEF Decoder!get_term_state
<1>5. Slice(Decoder!get_term_state, Asm, 0, 6)
  <2> DEFINE o == 0
             l == 6
  <2>1. o \in Nat /\ l \in Nat /\ o + l <= Len(Asm)
    BY <1>1
  <2>2. Decoder!get_term_state = SubSeq(Asm, o + 1, o + l)
    BY <1>3
  <2> HIDE DEF o, l
  <2>3. Slice(Decoder!get_term_state, Asm, o, l)
    BY <1>1, <2>1, <2>2, SliceBits
  <2> QED BY <2>3 DEF o, l
<1>6. \A k \in 1 .. 6 : 0 + k = k
  OBVIOUS
<1> QED BY <1>2, <1>5, <1>6 DEF Slice

\* The bits of the path of a frame.
LEMMA PathBits ==
  ASSUME NEW data \in Seq(Bit), Len(data) = BlockLen
  PROVE  PathOf(data) \in Seq(Bit) /\ Len(PathOf(data)) = Steps + 6 /\ OnPath(PathOf(data), data)
<1> DEFINE a == Decoder!get_start_state
           c == Decoder!get_term_state
           s == a \o data
           t == s \o c
           f == Len(Asm) - 6
<1>1. /\ a \in Seq(Bit) /\ Len(a) = 6 /\ \A k \in 1 .. 6 : a[k] = Asm[f + k]
      /\ c \in Seq(Bit) /\ Len(c) = 6 /\ \A k \in 1 .. 6 : c[k] = Asm[k]
  BY States
<1>2. BlockLen \in Nat /\ Steps = 6 + BlockLen /\ Steps \in Nat
  BY Sizes DEF Steps
<1>3. t = PathOf(data)
  BY DEF PathOf
<1> HIDE DEF a, c, f
<1>4. Joins(s, a, 6, data, BlockLen)
  BY <1>1, JoinBits
<1>5. Joins(t, s, Steps, c, 6)
  <2>1. s \in Seq(Bit) /\ Len(s) = Steps
    <3> HIDE DEF s
    <3> QED BY <1>2, <1>4 DEF Joins
  <2> HIDE DEF s
  <2> QED BY <1>1, <2>1, JoinBits
<1> HIDE DEF s, t
<1>6. OnPath(t, data)
  <2>1. \A k \in 1 .. 6 : k \in 1 .. Steps
    BY <1>2
  <2>2. \A k \in 1 .. BlockLen : 6 + k \in 1 .. Steps
    BY <1>2
  <2>3. \A k \in 1 .. 6 : t[k] = Asm[f + k]
    BY <1>1, <1>4, <1>5, <2>1 DEF Joins
  <2>4. \A k \in 1 .. BlockLen : t[6 + k] = data[k]
    BY <1>4, <1>5, <2>2 DEF Joins
  <2>5. \A k \in 1 .. 6 : t[Steps + k] = Asm[k]
    BY <1>1, <1>5 DEF Joins
  <2> QED BY <2>3, <2>4, <2>5 DEF OnPath, f
<1> QED BY <1>3, <1>5, <1>6 DEF Joins

\* The frame n of a stream, and where it begins and ends
FrameOf(x, n) == SubSeq(x, FrameStart(n) + 1, FrameStart(n) + BlockLen)

LEMMA FramePlace ==
  ASSUME NEW n \in Nat, n >= 1
  PROVE  /\ n * Period \in Nat /\ FrameStart(n) \in Nat /\ FrameStart(n) + BlockLen = n * Period
         /\ (n - 1) * Period \in Nat /\ FrameStart(n) = ((n - 1) * Period) + Len(Asm)
<1> DEFINE m == n - 1
           e == n * Period
           s == m * Period
<1>1. m \in Nat /\ m + 1 = n
  OBVIOUS
<1> HIDE DEF m
<1>2. e = s + Period /\ s \in Nat
  BY <1>1, Sizes, Multiples
<1> HIDE DEF e, s
<1>3. e \in Nat /\ e - BlockLen \in Nat /\ e - BlockLen = s + Len(Asm) /\ (e - BlockLen) + BlockLen = e
  BY <1>2, Sizes
<1> QED BY <1>2, <1>3 DEF e, s, m, FrameStart

\* The frame n and the bits around it.
LEMMA FrameIn ==
  ASSUME NEW x \in Seq(Bit), Alternates(x), NEW n \in Nat, n >= 1, (n * Period) + 6 <= Len(x)
  PROVE  /\ FrameOf(x, n) \in Data
         /\ \A k \in 1 .. Steps + 6 : PathOf(FrameOf(x, n))[k] = x[FrameStart(n) - 6 + k]
<1> DEFINE a == FrameOf(x, n)
           e == n * Period
           s == (n - 1) * Period
           f == FrameStart(n)
           A == Len(Asm)
           B == BlockLen
<1>1. /\ Len(x) \in Nat /\ e \in Nat /\ s \in Nat /\ f \in Nat /\ f + B = e /\ f = s + A
      /\ A \in Nat /\ A >= 8 /\ B \in Nat /\ Period = A + B /\ e + 6 <= Len(x)
  BY LenProperties, Sizes, FramePlace
<1>2. PICK b \in Data : Holds(x, n - 1, b)
  <2>1. n - 1 \in Nat
    OBVIOUS
  <2>2. s < Len(x)
    <3> HIDE DEF e, s, f, A, B
    <3> QED BY <1>1
  <2> QED BY <2>1, <2>2 DEF Alternates
<1>3. PICK d \in Data : Holds(x, n, d)
  <2>1. e < Len(x)
    <3> HIDE DEF e
    <3> QED BY <1>1
  <2> QED BY <2>1 DEF Alternates
<1>4. /\ b \in Seq(Bit) /\ Len(b) = B
      /\ \A i \in 1 .. A : (Asm \o b)[i] = Asm[i] /\ (Asm \o d)[i] = Asm[i]
      /\ \A i \in 1 .. B : (Asm \o b)[A + i] = b[i]
  BY MarkerFrame DEF Joins
<1>5. /\ \A i \in 1 .. Period : s + i <= Len(x) => x[s + i] = (Asm \o b)[i]
      /\ \A i \in 1 .. Period : e + i <= Len(x) => x[e + i] = (Asm \o d)[i]
  BY <1>2, <1>3 DEF Holds
<1> HIDE DEF e, s, f, A, B
<1>6. /\ \A k \in 1 .. 6 : x[f - 6 + k] = Asm[A - 6 + k]
      /\ \A k \in 1 .. B : x[f + k] = b[k]
      /\ \A k \in 1 .. 6 : x[e + k] = Asm[k]
  <2>1. ASSUME NEW k \in 1 .. 6 PROVE x[f - 6 + k] = Asm[A - 6 + k]
    <3> DEFINE i == A - 6 + k
    <3>1. i \in 1 .. A /\ i \in 1 .. Period /\ s + i <= Len(x) /\ s + i = f - 6 + k
      BY <1>1
    <3> HIDE DEF i
    <3>2. x[s + i] = Asm[i]
      BY <1>4, <1>5, <3>1
    <3> QED BY <3>1, <3>2 DEF i
  <2>2. ASSUME NEW k \in 1 .. B PROVE x[f + k] = b[k]
    <3> DEFINE i == A + k
    <3>1. i \in 1 .. Period /\ s + i <= Len(x) /\ s + i = f + k
      BY <1>1
    <3>2. (Asm \o b)[i] = b[k]
      BY <1>4
    <3> HIDE DEF i
    <3> QED BY <1>5, <3>1, <3>2
  <2>3. ASSUME NEW k \in 1 .. 6 PROVE x[e + k] = Asm[k]
    <3>1. k \in 1 .. A /\ k \in 1 .. Period /\ e + k <= Len(x)
      BY <1>1
    <3> QED BY <1>4, <1>5, <3>1
  <2> QED BY <2>1, <2>2, <2>3
<1>7. a = b
  <2>1. Slice(a, x, f, B)
    <3>1. f \in Nat /\ B \in Nat /\ f + B <= Len(x)
      BY <1>1
    <3>2. Slice(SubSeq(x, f + 1, f + B), x, f, B)
      BY <3>1, SliceBits
    <3> QED BY <3>2 DEF FrameOf, f, B
  <2> HIDE DEF a
  <2>2. \A i \in 1 .. Len(a) : a[i] = b[i]
    BY <1>6, <2>1 DEF Slice
  <2> QED BY <1>4, <2>1, <2>2, SeqEqual DEF Slice
<1> HIDE DEF a
<1>8. ASSUME NEW k \in 1 .. Steps + 6
      PROVE  PathOf(b)[k] = x[f - 6 + k]
  <2>1. OnPath(PathOf(b), b)
    BY <1>4, PathBits DEF B
  <2>2. Steps = B + 6
    BY DEF Steps, B
  <2>3. CASE k \in 1 .. 6
    BY <1>6, <2>1, <2>3 DEF OnPath, A
  <2>4. CASE k \in 7 .. Steps
    <3> DEFINE i == k - 6
    <3>1. i \in 1 .. B /\ 6 + i = k /\ f + i = f - 6 + k
      BY <1>1, <2>2, <2>4
    <3> HIDE DEF i
    <3>2. PathOf(b)[6 + i] = b[i] /\ x[f + i] = b[i]
      BY <1>6, <2>1, <3>1 DEF OnPath, B
    <3> QED BY <3>1, <3>2
  <2>5. CASE k \in Steps + 1 .. Steps + 6
    <3> DEFINE i == k - Steps
    <3>1. i \in 1 .. 6 /\ Steps + i = k /\ e + i = f - 6 + k
      BY <1>1, <2>2, <2>5
    <3> HIDE DEF i
    <3>2. PathOf(b)[Steps + i] = Asm[i] /\ x[e + i] = Asm[i]
      BY <1>6, <2>1, <3>1 DEF OnPath
    <3> QED BY <3>1, <3>2
  <2>6. Steps \in Nat
    BY StepsType
  <2> QED BY <2>3, <2>4, <2>5, <2>6
<1> QED BY <1>7, <1>8 DEF a, f

\* The code of a path
PathCode(path) == CodeOf(path, 7, BlockLen + 12)

LEMMA PathCodeAt ==
  ASSUME NEW path, NEW i \in 1 .. 2 * Steps
  PROVE  PathCode(path)[i] = CodeBit(IF i % 2 = 1 THEN PolyC1 ELSE PolyC2, path, 7 + (i - 1) \div 2)
<1> DEFINE l == BlockLen + 12
<1>1. Steps \in Nat /\ l = Steps + 6
  BY StepsType
<1> HIDE DEF l
<1>2. l - 7 + 1 = Steps
  BY <1>1
<1>3. i \in 1 .. 2 * (l - 7 + 1)
  BY <1>2
<1>4. CodeOf(path, 7, l)[i] = CodeBit(IF i % 2 = 1 THEN PolyC1 ELSE PolyC2, path, 7 + (i - 1) \div 2)
  BY <1>3, CodeAt
<1> QED BY <1>4 DEF PathCode, l

\* The code of the frame is part of the code of the stream.
LEMMA FrameCodeIn ==
  ASSUME NEW x \in Seq(Bit), Alternates(x), NEW n \in Nat, n >= 1, (n * Period) + 6 <= Len(x),
         NEW i \in 1 .. 2 * Steps
  PROVE  CodeOf(x, 1, Len(x))[CodeStart(n) + i] = FrameCode(FrameOf(x, n))[i]
<1> DEFINE a == FrameOf(x, n)
           y == PathOf(a)
           f == FrameStart(n)
           j == CodeStart(n) + i
           h == (i - 1) \div 2
           P == IF i % 2 = 1 THEN PolyC1 ELSE PolyC2
           S == Steps
<1>1. /\ Len(x) \in Nat /\ f \in Nat /\ S \in Nat /\ f >= 6 /\ f + S <= Len(x)
      /\ i \in 1 .. 2 * S
  <2>1. f + BlockLen = n * Period /\ f \in Nat /\ f = ((n - 1) * Period) + Len(Asm)
        /\ (n - 1) * Period \in Nat
    BY FramePlace
  <2> DEFINE e == n * Period
             s == (n - 1) * Period
  <2>2. e + 6 <= Len(x) /\ f + BlockLen = e /\ f = s + Len(Asm) /\ s \in Nat
    BY <2>1
  <2> HIDE DEF e, s, f
  <2> QED BY <2>1, <2>2, Sizes, StepsType, LenProperties
<1>2. \A k \in 1 .. S + 6 : y[k] = x[f - 6 + k]
  BY FrameIn
<1>3. FrameCode(a) = PathCode(y)
  BY DEF FrameCode, PathOf, PathCode
<1>4. j = 2 * f + i
  BY DEF CodeStart
<1> HIDE DEF a, y, f, S, j
<1>5. /\ h \in Nat /\ h <= S - 1 /\ (2 * f + i) % 2 = i % 2
      /\ 1 + ((2 * f + i - 1) \div 2) = f + 1 + h
      /\ 2 * f + i \in 1 .. 2 * (Len(x) - 1 + 1)
  BY <1>1
<1> HIDE DEF h
<1>6. CodeOf(x, 1, Len(x))[j] = CodeBit(P, x, f + 1 + h)
  <2> DEFINE L == Len(x)
             one == 1
  <2>1. j \in 1 .. 2 * (L - one + 1) /\ j % 2 = i % 2 /\ one + ((j - 1) \div 2) = f + 1 + h
    <3>1. j \in 1 .. 2 * (L - one + 1)
      BY <1>4, <1>5
    <3>2. j % 2 = i % 2
      BY <1>4, <1>5
    <3>3. one + ((j - 1) \div 2) = f + 1 + h
      <4> DEFINE g == (j - 1) \div 2
      <4>1. g = f + h
        BY <1>1, <1>4 DEF h
      <4> HIDE DEF g, h
      <4>2. one + g = f + 1 + h
        BY <1>1, <1>5, <4>1
      <4> QED BY <4>2 DEF g
    <3> QED BY <3>1, <3>2, <3>3
  <2> HIDE DEF L, one
  <2>2. CodeOf(x, one, L)[j] = CodeBit(IF j % 2 = 1 THEN PolyC1 ELSE PolyC2, x, one + ((j - 1) \div 2))
    BY <2>1, CodeAt
  <2> QED BY <2>1, <2>2 DEF L, one, P
<1>7. PathCode(y)[i] = CodeBit(P, y, 7 + h)
  BY PathCodeAt DEF h, S
<1>8. SameBits(y, 7 + h, x, f + 1 + h)
  <2> DEFINE u == 7 + h
             v == f + 1 + h
  <2>1. ASSUME NEW t \in 0 .. 6
        PROVE  u - t >= 1 /\ v - t >= 1 /\ y[u - t] = x[v - t]
    <3> DEFINE k == u - t
    <3>1. k \in 1 .. S + 6 /\ f - 6 + k = v - t
      BY <1>1, <1>5
    <3>2. v - t >= 1
      BY <1>1, <1>5
    <3> HIDE DEF k, v
    <3>3. y[k] = x[f - 6 + k]
      BY <1>2, <3>1
    <3>4. k >= 1
      BY <3>1
    <3> QED BY <3>1, <3>2, <3>3, <3>4 DEF k
  <2> HIDE DEF u, v
  <2>2. SameBits(y, u, x, v)
    BY <2>1 DEF SameBits
  <2> QED BY <2>2 DEF u, v
<1> HIDE DEF P
<1>9. CodeBit(P, y, 7 + h) = CodeBit(P, x, f + 1 + h)
  BY <1>8, CodeBitLocal
<1> QED BY <1>3, <1>6, <1>7, <1>9 DEF j, a

-----------------------------------------------------------------------------
(* The Viterbi decoder *)

\* A bit of libfec's code is made of seven bits of the path.
LEMMA LibfecLocal ==
  ASSUME NEW poly, NEW x, NEW y, NEW n, \A t \in 0 .. 6 : x[n - t] = y[n - t]
  PROVE  Decoder!LibfecBit(poly, x, n) = Decoder!LibfecBit(poly, y, n)
<1> DEFINE m == IF poly < 0 THEN -poly ELSE poly
           A == {t \in 0 .. 6 : x[n - t] = 1 /\ Decoder!BitSet(m, t)}
           B == {t \in 0 .. 6 : y[n - t] = 1 /\ Decoder!BitSet(m, t)}
<1>1. A = B
  <2> HIDE DEF m
  <2> QED OBVIOUS
<1>2. Decoder!LibfecBit(poly, x, n) = (Decoder!Parity(A) + (IF poly < 0 THEN 1 ELSE 0)) % 2
  BY DEF Decoder!LibfecBit
<1>3. Decoder!LibfecBit(poly, y, n) = (Decoder!Parity(B) + (IF poly < 0 THEN 1 ELSE 0)) % 2
  BY DEF Decoder!LibfecBit
<1> HIDE DEF A, B
<1> QED BY <1>1, <1>2, <1>3

\* So do steps that two paths have in common.
LEMMA StepLocal ==
  ASSUME NEW buffer, NEW x, NEW y, NEW k \in Nat, \A i \in k .. 6 + k : x[i] = y[i],
         Decoder!StepFits(buffer, x, k)
  PROVE  Decoder!StepFits(buffer, y, k)
<1>1. \A t \in 0 .. 6 : 6 + k - t \in k .. 6 + k
  OBVIOUS
<1>2. \A t \in 0 .. 6 : x[6 + k - t] = y[6 + k - t]
  BY <1>1
<1>3. \A poly : Decoder!LibfecBit(poly, x, 6 + k) = Decoder!LibfecBit(poly, y, 6 + k)
  <2> DEFINE n == 6 + k
  <2>1. \A t \in 0 .. 6 : x[n - t] = y[n - t]
    BY <1>2
  <2> HIDE DEF n
  <2>2. \A poly : Decoder!LibfecBit(poly, x, n) = Decoder!LibfecBit(poly, y, n)
    BY <2>1, LibfecLocal
  <2> QED BY <2>2 DEF n
<1> DEFINE at(c) == 2 * k - 2 + c
           poly(c) == Decoder!convert_poly(IF c = 1 THEN PolyC1 ELSE PolyC2)
           bit(z, c) == Decoder!LibfecBit(poly(c), z, 6 + k)
           fits(z) == \A c \in {1, 2} :
                        buffer[at(c)] \in {Decoder!NeutralElement, Decoder!map_to_uint8(bit(z, c))}
<1>4. \A z : Decoder!StepFits(buffer, z, k) <=> fits(z)
  BY Zenon DEF Decoder!StepFits
<1>5. \A c : bit(x, c) = bit(y, c)
  BY <1>3
<1>6. fits(x) => fits(y)
  <2> HIDE DEF at, poly, bit
  <2> QED BY <1>5
<1> HIDE DEF fits
<1> QED BY <1>4, <1>6

\* The bits that step n of a path may take: see Survivors.
Choices(n) == IF n <= BlockLen THEN Bit ELSE {Decoder!get_term_state[n - BlockLen]}

\* The paths q that agree so far, one step further.
OneStep(buffer, q, n) ==
  {path \in {Append(p, b) : p \in q, b \in Choices(n)} : Decoder!StepFits(buffer, path, n)}

\* The recursive function of Survivors
IsPaths(buffer, f) ==
  f = [n \in 0 .. BlockLen + 6 |->
         IF n = 0 THEN {Decoder!get_start_state}
         ELSE {path \in {Append(p, b) : p \in f[n - 1], b \in Choices(n)} :
                 Decoder!StepFits(buffer, path, n)}]

\* The function that Survivors defines.
PathsOf(buffer) == CHOOSE f : IsPaths(buffer, f)

\* The survivors are the last value of that function.
LEMMA SurvivorsPaths ==
  ASSUME NEW buffer
  PROVE  Decoder!Survivors(buffer) = PathsOf(buffer)[BlockLen + 6]
BY DEF Decoder!Survivors, PathsOf, IsPaths, Choices, Bit, Decoder!Bit

\* That function goes one step at a time.
LEMMA IsPathsStep ==
  ASSUME NEW buffer, NEW f
  PROVE  IsPaths(buffer, f) <=>
           f = [n \in 0 .. BlockLen + 6 |->
                  IF n = 0 THEN {Decoder!get_start_state} ELSE OneStep(buffer, f[n - 1], n)]
<1> DEFINE h(n) == {path \in {Append(p, b) : p \in f[n - 1], b \in Choices(n)} :
                      Decoder!StepFits(buffer, path, n)}
<1>1. ASSUME NEW n PROVE h(n) = OneStep(buffer, f[n - 1], n)
  BY DEF OneStep
<1>2. IsPaths(buffer, f) <=>
        f = [n \in 0 .. BlockLen + 6 |-> IF n = 0 THEN {Decoder!get_start_state} ELSE h(n)]
  BY DEF IsPaths, h
<1> HIDE DEF h
<1>3. [n \in 0 .. BlockLen + 6 |-> IF n = 0 THEN {Decoder!get_start_state} ELSE h(n)] =
      [n \in 0 .. BlockLen + 6 |->
         IF n = 0 THEN {Decoder!get_start_state} ELSE OneStep(buffer, f[n - 1], n)]
  BY <1>1
<1> QED BY <1>2, <1>3, Zenon

\* A function that does so for the first n steps
PathsSoFar(buffer, n, f) ==
  /\ f[0] = {Decoder!get_start_state}
  /\ \A i \in 1 .. n : f[i] = OneStep(buffer, f[i - 1], i)

\* The recursion of Survivors defines a function.
LEMMA PathsDefined ==
  ASSUME NEW buffer
  PROVE  IsPaths(buffer, PathsOf(buffer))
<1> DEFINE Exists(n) == \E f : f = [i \in 0 .. n |-> f[i]] /\ PathsSoFar(buffer, n, f)
           S == {n \in Nat : Exists(n)}
<1>1. Exists(0)
  <2> DEFINE f == [i \in 0 .. 0 |-> {Decoder!get_start_state}]
  <2>1. f[0] = {Decoder!get_start_state} /\ f = [i \in 0 .. 0 |-> f[i]]
    OBVIOUS
  <2> HIDE DEF f
  <2>2. PathsSoFar(buffer, 0, f)
    BY <2>1 DEF PathsSoFar
  <2> QED BY <2>1, <2>2
<1>2. ASSUME NEW n \in Nat, Exists(n)
      PROVE  Exists(n + 1)
  <2>1. PICK f : f = [i \in 0 .. n |-> f[i]] /\ PathsSoFar(buffer, n, f)
    BY <1>2
  <2> DEFINE q == OneStep(buffer, f[n], n + 1)
             g == [i \in 0 .. n + 1 |-> IF i <= n THEN f[i] ELSE q]
  <2>2. g = [i \in 0 .. n + 1 |-> g[i]] /\ (\A i \in 0 .. n : g[i] = f[i]) /\ g[n + 1] = q
    <3> HIDE DEF q
    <3> QED OBVIOUS
  <2> HIDE DEF g
  <2>3. g[0] = {Decoder!get_start_state}
    <3>1. 0 \in 0 .. n
      OBVIOUS
    <3> QED BY <2>1, <2>2, <3>1 DEF PathsSoFar
  <2>4. ASSUME NEW i \in 1 .. n + 1
        PROVE  g[i] = OneStep(buffer, g[i - 1], i)
    <3>1. CASE i <= n
      <4>1. i \in 1 .. n /\ i \in 0 .. n /\ i - 1 \in 0 .. n
        BY <3>1
      <4> QED BY <2>1, <2>2, <4>1 DEF PathsSoFar
    <3>2. CASE i = n + 1
      <4>1. i - 1 = n /\ n \in 0 .. n
        BY <3>2
      <4> QED BY <2>2, <3>2, <4>1
    <3> QED BY <3>1, <3>2
  <2>5. PathsSoFar(buffer, n + 1, g)
    BY <2>3, <2>4 DEF PathsSoFar
  <2> QED BY <2>2, <2>5
<1>3. S = Nat
  <2> HIDE DEF Exists
  <2>1. 0 \in S /\ \A n \in S : n + 1 \in S
    BY <1>1, <1>2
  <2>2. S \in SUBSET Nat
    OBVIOUS
  <2> HIDE DEF S
  <2> QED BY <2>1, <2>2, SetInduction
<1>4. BlockLen + 6 \in Nat
  BY LinkAssumption
<1>5. Exists(BlockLen + 6)
  <2> HIDE DEF Exists
  <2> QED BY <1>3, <1>4
<1> DEFINE m == BlockLen + 6
<1>6. PICK f : f = [i \in 0 .. m |-> f[i]] /\ PathsSoFar(buffer, m, f)
  BY <1>5
<1> HIDE DEF m
<1>7. \A n \in 0 .. m : f[n] = IF n = 0 THEN {Decoder!get_start_state} ELSE OneStep(buffer, f[n - 1], n)
  <2> TAKE n \in 0 .. m
  <2>1. n = 0 \/ n \in 1 .. m
    BY <1>4 DEF m
  <2>2. n \in 1 .. m => n # 0
    OBVIOUS
  <2> QED BY <1>6, <2>1, <2>2 DEF PathsSoFar
<1>8. f = [n \in 0 .. m |-> IF n = 0 THEN {Decoder!get_start_state} ELSE OneStep(buffer, f[n - 1], n)]
  <2> DEFINE g == [n \in 0 .. m |-> IF n = 0 THEN {Decoder!get_start_state} ELSE OneStep(buffer, f[n - 1], n)]
  <2>1. \A n \in 0 .. m : f[n] = g[n]
    BY <1>7
  <2>2. g = [n \in 0 .. m |-> g[n]]
    OBVIOUS
  <2> HIDE DEF g
  <2>3. [n \in 0 .. m |-> f[n]] = [n \in 0 .. m |-> g[n]]
    BY <2>1
  <2>4. f = g
    BY <1>6, <2>2, <2>3
  <2> QED BY <2>4 DEF g
<1>9. IsPaths(buffer, f)
  BY <1>8, IsPathsStep, Zenon DEF m
<1> QED BY <1>9 DEF PathsOf

\* Is this a path of n steps from the start state, towards the termination state after
\* the frame, that agrees with all that was received?
Agrees(buffer, path, n) ==
  /\ path \in Seq(Bit) /\ Len(path) = 6 + n
  /\ \A k \in 1 .. 6 : path[k] = Asm[Len(Asm) - 6 + k]
  /\ \A k \in 1 .. n : path[6 + k] \in Choices(k)
  /\ \A k \in 1 .. n : Decoder!StepFits(buffer, path, k)

\* A path that agrees, shortened by a step, agrees, and was made longer by a step that fits.
LEMMA AgreesShorter ==
  ASSUME NEW buffer, NEW path, NEW n \in Nat, Agrees(buffer, path, n + 1)
  PROVE  \E p, b : /\ Agrees(buffer, p, n) /\ b \in Choices(n + 1)
                   /\ path = Append(p, b)
<1> DEFINE m == 6 + n
           p == SubSeq(path, 0 + 1, 0 + m)
           b == path[m + 1]
<1>1. path \in Seq(Bit) /\ Len(path) = m + 1 /\ m \in Nat
  BY DEF Agrees
<1>2. b \in Bit /\ b \in Choices(n + 1)
  <2>1. m + 1 \in 1 .. Len(path)
    BY <1>1
  <2>2. n + 1 \in 1 .. n + 1 /\ 6 + (n + 1) = m + 1
    OBVIOUS
  <2> HIDE DEF m
  <2> QED BY <1>1, <2>1, <2>2, ElementOfSeq DEF Agrees
<1>3. Slice(p, path, 0, m)
  <2> DEFINE o == 0
  <2>1. o \in Nat /\ o + m <= Len(path)
    BY <1>1
  <2>2. p = SubSeq(path, o + 1, o + m)
    OBVIOUS
  <2> HIDE DEF o, m, p
  <2>3. Slice(p, path, o, m)
    BY <1>1, <2>1, <2>2, SliceBits
  <2> QED BY <2>3 DEF o
<1> HIDE DEF p, b
<1>4. p \in Seq(Bit) /\ Len(p) = m /\ \A i \in 1 .. m : p[i] = path[i]
  <2>1. \A i \in 1 .. m : 0 + i = i
    BY <1>1
  <2> HIDE DEF m
  <2> QED BY <1>3, <2>1 DEF Slice
<1>5. path = Append(p, b)
  <2> DEFINE r == Append(p, b)
  <2>1. r \in Seq(Bit) /\ Len(r) = m + 1 /\ (\A i \in 1 .. m : r[i] = p[i]) /\ r[m + 1] = b
    <3> HIDE DEF m
    <3> QED BY <1>2, <1>4, AppendProperties
  <2> HIDE DEF r
  <2>2. ASSUME NEW i \in 1 .. Len(path) PROVE path[i] = r[i]
    <3>1. i \in 1 .. m \/ i = m + 1
      BY <1>1
    <3> HIDE DEF m
    <3> QED BY <1>4, <2>1, <3>1 DEF b
  <2> HIDE DEF m
  <2>3. path = r
    BY <1>1, <2>1, <2>2, SeqEqual
  <2> QED BY <2>3 DEF r
<1>6. Agrees(buffer, p, n)
  <2>1. \A k \in 1 .. 6 : k \in 1 .. m
    BY <1>1
  <2>2. \A k \in 1 .. n : 6 + k \in 1 .. m /\ k \in 1 .. n + 1 /\ k \in Nat
    BY <1>1
  <2>3. \A k \in 1 .. n : \A i \in k .. 6 + k : path[i] = p[i]
    <3> TAKE k \in 1 .. n
    <3> TAKE i \in k .. 6 + k
    <3>1. i \in 1 .. m
      OBVIOUS
    <3> HIDE DEF m
    <3> QED BY <1>4, <3>1
  <2>4. \A k \in 1 .. n : Decoder!StepFits(buffer, p, k)
    BY <2>2, <2>3, StepLocal DEF Agrees
  <2>5. \A k \in 1 .. 6 : p[k] = Asm[Len(Asm) - 6 + k]
    <3> HIDE DEF m
    <3> QED BY <1>4, <2>1 DEF Agrees
  <2>6. \A k \in 1 .. n : p[6 + k] \in Choices(k)
    <3> HIDE DEF m
    <3> QED BY <1>4, <2>2 DEF Agrees
  <2> QED BY <1>4, <2>4, <2>5, <2>6 DEF Agrees
<1> QED BY <1>2, <1>5, <1>6

\* A path that agrees, made longer by a step that fits, agrees.
LEMMA AgreesLonger ==
  ASSUME NEW buffer, NEW p, NEW n \in Nat, Agrees(buffer, p, n), NEW b \in Choices(n + 1), b \in Bit,
         Decoder!StepFits(buffer, Append(p, b), n + 1)
  PROVE  Agrees(buffer, Append(p, b), n + 1)
<1> DEFINE m == 6 + n
           r == Append(p, b)
<1>1. p \in Seq(Bit) /\ Len(p) = m /\ m \in Nat
  BY DEF Agrees
<1>2. r \in Seq(Bit) /\ Len(r) = m + 1 /\ (\A i \in 1 .. m : r[i] = p[i]) /\ r[m + 1] = b
  <2> HIDE DEF m
  <2> QED BY <1>1, AppendProperties
<1>3. Decoder!StepFits(buffer, r, n + 1)
  OBVIOUS
<1> HIDE DEF r
<1>4. \A k \in 1 .. 6 : r[k] = Asm[Len(Asm) - 6 + k]
  <2>1. \A k \in 1 .. 6 : k \in 1 .. m
    OBVIOUS
  <2> HIDE DEF m
  <2> QED BY <1>2, <2>1 DEF Agrees
<1>5. ASSUME NEW k \in 1 .. n + 1
      PROVE  r[6 + k] \in Choices(k) /\ Decoder!StepFits(buffer, r, k)
  <2>1. CASE k = n + 1
    <3>1. 6 + k = m + 1
      BY <2>1
    <3> HIDE DEF m
    <3> QED BY <1>2, <1>3, <2>1, <3>1
  <2>2. CASE k # n + 1
    <3>1. k \in 1 .. n /\ 6 + k \in 1 .. m /\ k \in Nat
      BY <2>2
    <3>2. \A i \in k .. 6 + k : p[i] = r[i]
      <4> TAKE i \in k .. 6 + k
      <4>1. i \in 1 .. m
        BY <3>1
      <4> HIDE DEF m
      <4> QED BY <1>2, <4>1
    <3>3. p[6 + k] \in Choices(k) /\ Decoder!StepFits(buffer, p, k)
      BY <3>1 DEF Agrees
    <3>4. Decoder!StepFits(buffer, r, k)
      BY <3>1, <3>2, <3>3, StepLocal
    <3> HIDE DEF m
    <3> QED BY <1>2, <3>1, <3>3, <3>4
  <2> QED BY <2>1, <2>2
<1>6. Len(r) = 6 + (n + 1)
  BY <1>2
<1>7. Agrees(buffer, r, n + 1)
  <2> HIDE DEF m
  <2> QED BY <1>2, <1>4, <1>5, <1>6 DEF Agrees
<1> QED BY <1>7 DEF r

\* The survivors are the paths that agree.
LEMMA SurvivorsAgree ==
  ASSUME NEW buffer
  PROVE  \A path : path \in Decoder!Survivors(buffer) <=> Agrees(buffer, path, Steps)
<1> DEFINE f == PathsOf(buffer)
           Right(n) == n <= Steps => \A path : path \in f[n] <=> Agrees(buffer, path, n)
           S == {n \in Nat : Right(n)}
<1>1. Steps \in Nat /\ Steps = BlockLen + 6 /\ BlockLen \in Nat
  BY StepsType, Sizes
<1>2. f[0] = {Decoder!get_start_state} /\ \A n \in 1 .. Steps : f[n] = OneStep(buffer, f[n - 1], n)
  <2> DEFINE next(n) == IF n = 0 THEN {Decoder!get_start_state} ELSE OneStep(buffer, f[n - 1], n)
             m == BlockLen + 6
  <2>1. f = [n \in 0 .. m |-> next(n)]
    <3>1. IsPaths(buffer, f)
      BY PathsDefined
    <3> HIDE DEF f
    <3> QED BY <3>1, IsPathsStep, Zenon
  <2>2. next(0) = {Decoder!get_start_state} /\ \A n : n # 0 => next(n) = OneStep(buffer, f[n - 1], n)
    OBVIOUS
  <2>3. m = Steps /\ m \in Nat
    BY <1>1
  <2> HIDE DEF f, next, m
  <2>4. 0 \in 0 .. m /\ \A n \in 1 .. Steps : n \in 0 .. m /\ n # 0
    BY <2>3
  <2>5. \A n \in 0 .. m : f[n] = next(n)
    BY <2>1
  <2> QED BY <2>2, <2>4, <2>5
<1> HIDE DEF f
<1>3. Right(0)
  <2>1. ASSUME NEW path, Agrees(buffer, path, 0)
        PROVE  path = Decoder!get_start_state
    <3>1. path \in Seq(Bit) /\ Len(path) = 6 /\ \A k \in 1 .. 6 : path[k] = Asm[Len(Asm) - 6 + k]
      BY <2>1 DEF Agrees
    <3> DEFINE q == Decoder!get_start_state
    <3>2. q \in Seq(Bit) /\ Len(q) = 6 /\ \A k \in 1 .. 6 : q[k] = Asm[Len(Asm) - 6 + k]
      BY States
    <3> HIDE DEF q
    <3>3. \A k \in 1 .. Len(path) : path[k] = q[k]
      BY <3>1, <3>2
    <3>4. path = q
      BY <3>1, <3>2, <3>3, SeqEqual
    <3> QED BY <3>4 DEF q
  <2>2. Agrees(buffer, Decoder!get_start_state, 0)
    BY States DEF Agrees
  <2> QED BY <1>2, <2>1, <2>2
<1>4. ASSUME NEW n \in Nat, Right(n)
      PROVE  Right(n + 1)
  <2> SUFFICES ASSUME n + 1 <= Steps
               PROVE  \A path : path \in f[n + 1] <=> Agrees(buffer, path, n + 1)
    OBVIOUS
  <2>1. \A path : path \in f[n] <=> Agrees(buffer, path, n)
    <3>1. n <= Steps
      BY <1>1
    <3> QED BY <1>4, <3>1
  <2>2. f[n + 1] = OneStep(buffer, f[n], n + 1)
    <3>1. n + 1 \in 1 .. Steps /\ (n + 1) - 1 = n
      BY <1>1
    <3> QED BY <1>2, <3>1
  <2>3. Choices(n + 1) \subseteq Bit
    <3>1. \A k \in 1 .. 6 : Decoder!get_term_state[k] \in Bit
      <4> DEFINE q == Decoder!get_term_state
      <4>1. q \in Seq(Bit) /\ Len(q) = 6
        BY States
      <4> HIDE DEF q
      <4>2. \A k \in 1 .. 6 : q[k] \in Bit
        BY <4>1, ElementOfSeq
      <4> QED BY <4>2 DEF q
    <3>2. CASE n + 1 <= BlockLen
      BY <3>2 DEF Choices
    <3>3. CASE ~ (n + 1 <= BlockLen)
      <4> DEFINE k == (n + 1) - BlockLen
      <4>1. k \in 1 .. 6
        BY <1>1, <3>3
      <4>2. Choices(n + 1) = {Decoder!get_term_state[k]}
        BY <3>3 DEF Choices
      <4> HIDE DEF k
      <4> QED BY <3>1, <4>1, <4>2
    <3> QED BY <3>2, <3>3
  <2>4. ASSUME NEW path, path \in f[n + 1]
        PROVE  Agrees(buffer, path, n + 1)
    <3>1. PICK p \in f[n], b \in Choices(n + 1) : path = Append(p, b) /\ Decoder!StepFits(buffer, path, n + 1)
      BY <2>2, <2>4 DEF OneStep
    <3>2. Agrees(buffer, p, n) /\ b \in Bit
      BY <2>1, <2>3
    <3> QED BY <3>1, <3>2, AgreesLonger
  <2>5. ASSUME NEW path, Agrees(buffer, path, n + 1)
        PROVE  path \in f[n + 1]
    <3>1. PICK p, b : Agrees(buffer, p, n) /\ b \in Choices(n + 1) /\ path = Append(p, b)
      BY <2>5, AgreesShorter
    <3>2. p \in f[n]
      BY <2>1, <3>1
    <3>3. Decoder!StepFits(buffer, path, n + 1)
      <4>1. n + 1 \in 1 .. n + 1
        OBVIOUS
      <4> QED BY <2>5, <4>1 DEF Agrees
    <3> QED BY <2>2, <3>1, <3>2, <3>3 DEF OneStep
  <2> QED BY <2>4, <2>5
<1>5. S = Nat
  <2> HIDE DEF Right
  <2>1. 0 \in S /\ \A n \in S : n + 1 \in S
    BY <1>3, <1>4
  <2>2. S \in SUBSET Nat
    OBVIOUS
  <2> HIDE DEF S
  <2> QED BY <2>1, <2>2, SetInduction
<1>6. Right(Steps)
  <2> DEFINE m == Steps
  <2>1. m \in Nat
    BY <1>1
  <2> HIDE DEF Right, m
  <2>2. Right(m)
    BY <1>5, <2>1
  <2> QED BY <2>2 DEF m
<1>7. Decoder!Survivors(buffer) = f[Steps]
  <2>1. BlockLen + 6 = Steps
    BY <1>1
  <2> QED BY <2>1, SurvivorsPaths DEF f
<1>8. Steps <= Steps
  BY <1>1
<1> QED BY <1>6, <1>7, <1>8

-----------------------------------------------------------------------------
(* The frame that is decoded *)

\* The polynomials of the code
Poly(c) == IF c = 1 THEN PolyC1 ELSE PolyC2

\* The two bits of a step of the path are those of its code.
LEMMA StepCode ==
  ASSUME CodeUnique, NEW path, NEW k \in 1 .. Steps, NEW c \in {1, 2}
  PROVE  Decoder!LibfecBit(Decoder!convert_poly(Poly(c)), path, 6 + k) =
           PathCode(path)[2 * k - 2 + c]
<1> DEFINE P == Poly(c)
           n == 6 + k
           j == 2 * k - 2 + c
<1>1. P \in 0 .. 255 /\ P % 128 # 0
  BY PolyAssumption DEF CodeUnique, Poly
<1>2. n \in Nat /\ n >= 7
  OBVIOUS
<1>0. Steps \in Nat
  BY StepsType
<1>3. j \in 1 .. 2 * Steps /\ (j % 2 = 1 <=> c = 1) /\ 7 + (j - 1) \div 2 = n
  <2>1. CASE c = 1
    BY <1>0, <2>1
  <2>2. CASE c = 2
    BY <1>0, <2>2
  <2> QED BY <2>1, <2>2
<1>4. P = IF j % 2 = 1 THEN PolyC1 ELSE PolyC2
  BY <1>3 DEF Poly
<1> HIDE DEF P, n, j
<1>5. Decoder!LibfecBit(Decoder!convert_poly(P), path, n) = CodeBit(P, path, n)
  BY <1>1, <1>2, LibfecSame
<1>6. PathCode(path)[j] = CodeBit(P, path, n)
  BY <1>3, <1>4, PathCodeAt
<1>7. Decoder!LibfecBit(Decoder!convert_poly(P), path, n) = PathCode(path)[j]
  BY <1>5, <1>6
<1> QED BY <1>7 DEF P, n, j

\* Is this the code v, unpunctured, with the strength of soft bits?
Received(buffer, v, p) ==
  \A i \in 1 .. 2 * Steps :
    buffer[i] = IF Keeps(p, i - 1) THEN Decoder!map_to_uint8(v[i]) ELSE Decoder!NeutralElement

\* Do these two codes have what is transmitted of them in common?
SameAt(u, v, p, i) == Keeps(p, i - 1) => u[i] = v[i]
SameKept(u, v, p) == \A i \in 1 .. 2 * Steps : SameAt(u, v, p, i)

\* The code of a path is made of bits.
LEMMA CodeElement ==
  ASSUME NEW path
  PROVE  \A i \in 1 .. 2 * Steps : PathCode(path)[i] \in Bit
<1> TAKE i \in 1 .. 2 * Steps
<1> QED BY PathCodeAt, CodeBitType

\* A step fits if its two bits are those received, as far as they are.
LEMMA StepKept ==
  ASSUME CodeUnique, NEW buffer, NEW path, NEW v, \A i \in 1 .. 2 * Steps : v[i] \in Bit,
         NEW p \in PunctTypes, Received(buffer, v, p), NEW k \in 1 .. Steps
  PROVE  Decoder!StepFits(buffer, path, k) <=>
           \A c \in {1, 2} : SameAt(v, PathCode(path), p, 2 * k - 2 + c)
<1> DEFINE at(c) == 2 * k - 2 + c
           u == PathCode(path)
           poly(c) == Decoder!convert_poly(IF c = 1 THEN PolyC1 ELSE PolyC2)
           bit(c) == Decoder!LibfecBit(poly(c), path, 6 + k)
           fits(c) == buffer[at(c)] \in {Decoder!NeutralElement, Decoder!map_to_uint8(bit(c))}
<1>1. Decoder!StepFits(buffer, path, k) <=> \A c \in {1, 2} : fits(c)
  BY Zenon DEF Decoder!StepFits
<1>2. ASSUME NEW c \in {1, 2}
      PROVE  fits(c) <=> SameAt(v, u, p, at(c))
  <2>1. at(c) \in 1 .. 2 * Steps
    BY StepsType
  <2>2. bit(c) = u[at(c)]
    BY StepCode DEF Poly
  <2>3. buffer[at(c)] = IF Keeps(p, at(c) - 1) THEN Decoder!map_to_uint8(v[at(c)])
                        ELSE Decoder!NeutralElement
    BY <2>1 DEF Received
  <2>4. u[at(c)] \in Bit /\ v[at(c)] \in Bit
    BY <2>1, CodeElement
  <2>5. \A b \in Bit : Decoder!map_to_uint8(b) # Decoder!NeutralElement
    BY DEF Bit, Decoder!map_to_uint8, Decoder!NeutralElement
  <2>6. \A b, d \in Bit : Decoder!map_to_uint8(b) = Decoder!map_to_uint8(d) => b = d
    BY DEF Bit, Decoder!map_to_uint8
  <2> HIDE DEF at, u, bit
  <2> QED BY <2>2, <2>3, <2>4, <2>5, <2>6 DEF SameAt
<1> HIDE DEF fits
<1> QED BY <1>1, <1>2

\* A path fits if what is transmitted of its code is what was received.
LEMMA PathKept ==
  ASSUME CodeUnique, NEW buffer, NEW path, NEW v, \A i \in 1 .. 2 * Steps : v[i] \in Bit,
         NEW p \in PunctTypes, Received(buffer, v, p)
  PROVE  (\A k \in 1 .. Steps : Decoder!StepFits(buffer, path, k)) <=>
           SameKept(v, PathCode(path), p)
<1> DEFINE u == PathCode(path)
           same(i) == SameAt(v, u, p, i)
<1>1. ASSUME NEW k \in 1 .. Steps
      PROVE  Decoder!StepFits(buffer, path, k) <=> \A c \in {1, 2} : same(2 * k - 2 + c)
  BY StepKept
<1>2. SameKept(v, u, p) <=> \A i \in 1 .. 2 * Steps : same(i)
  BY DEF SameKept
<1>3. \A k \in 1 .. Steps, c \in {1, 2} : 2 * k - 2 + c \in 1 .. 2 * Steps
  BY StepsType
<1>4. \A i \in 1 .. 2 * Steps : \E k \in 1 .. Steps, c \in {1, 2} : i = 2 * k - 2 + c
  <2> TAKE i \in 1 .. 2 * Steps
  <2> DEFINE k == (i + 1) \div 2
             c == i - (2 * k - 2)
  <2>1. k \in 1 .. Steps /\ c \in {1, 2} /\ i = 2 * k - 2 + c
    BY StepsType
  <2> HIDE DEF k, c
  <2> QED BY <2>1
<1> HIDE DEF same, u
<1>5. (\A k \in 1 .. Steps : Decoder!StepFits(buffer, path, k)) <=> \A i \in 1 .. 2 * Steps : same(i)
  <2>1. ASSUME \A k \in 1 .. Steps : Decoder!StepFits(buffer, path, k), NEW i \in 1 .. 2 * Steps
        PROVE  same(i)
    BY <1>1, <1>4, <2>1
  <2>2. ASSUME \A i \in 1 .. 2 * Steps : same(i), NEW k \in 1 .. Steps
        PROVE  Decoder!StepFits(buffer, path, k)
    BY <1>1, <1>3, <2>2
  <2> QED BY <2>1, <2>2
<1>6. (\A k \in 1 .. Steps : Decoder!StepFits(buffer, path, k)) <=> SameKept(v, u, p)
  BY <1>2, <1>5
<1> QED BY <1>6 DEF u

\* The code of a frame is that of its path.
LEMMA FrameCodePath ==
  ASSUME NEW a
  PROVE  FrameCode(a) = PathCode(PathOf(a))
  BY DEF FrameCode, PathOf, PathCode

\* The frame of a path
Middle(path) == SubSeq(path, 7, 6 + BlockLen)

LEMMA MiddleBits ==
  ASSUME NEW path \in Seq(Bit), Len(path) = Steps + 6
  PROVE  Slice(Middle(path), path, 6, BlockLen)
<1> DEFINE o == 6
           l == BlockLen
<1>1. o \in Nat /\ l \in Nat /\ o + l <= Len(path) /\ o + 1 = 7
  BY StepsType, Sizes
<1>2. Middle(path) = SubSeq(path, o + 1, o + l)
  BY DEF Middle
<1> HIDE DEF o, l
<1>3. Slice(Middle(path), path, o, l)
  BY <1>1, <1>2, SliceBits
<1> QED BY <1>3 DEF o, l

\* A path from the start state to the termination state is that of the frame between them.
LEMMA AgreesPath ==
  ASSUME NEW buffer, NEW path, Agrees(buffer, path, Steps)
  PROVE  Middle(path) \in [1 .. BlockLen -> Bit] /\ path = PathOf(Middle(path))
<1> DEFINE a == Middle(path)
           q == PathOf(a)
           B == BlockLen
           S == Steps
<1>1. path \in Seq(Bit) /\ Len(path) = S + 6 /\ S = B + 6 /\ B \in Nat /\ S \in Nat
  <2>1. path \in Seq(Bit) /\ Len(path) = 6 + Steps
    BY DEF Agrees
  <2> QED BY <2>1, StepsType, Sizes
<1>2. Slice(a, path, 6, B)
  BY <1>1, MiddleBits
<1> HIDE DEF a
<1>3. a \in [1 .. B -> Bit] /\ a \in Seq(Bit) /\ Len(a) = B
  BY <1>2, TupleFunction DEF Slice
<1>4. q \in Seq(Bit) /\ Len(q) = S + 6 /\ OnPath(q, a)
  BY <1>3, PathBits
<1> HIDE DEF q, B, S
<1>5. ASSUME NEW k \in 1 .. Len(path)
      PROVE  path[k] = q[k]
  <2>1. CASE k \in 1 .. 6
    BY <1>4, <2>1 DEF OnPath, Agrees
  <2>2. CASE k \in 7 .. S
    <3> DEFINE i == k - 6
    <3>1. i \in 1 .. B /\ 6 + i = k
      BY <1>1, <2>2
    <3> HIDE DEF i
    <3>2. q[6 + i] = a[i] /\ a[i] = path[6 + i]
      BY <1>2, <1>4, <3>1 DEF OnPath, Slice, B
    <3> QED BY <3>1, <3>2
  <2>3. CASE k \in S + 1 .. S + 6
    <3> DEFINE i == k - S
               h == B + i
    <3>1. i \in 1 .. 6 /\ S + i = k /\ h \in 1 .. S /\ 6 + h = k /\ ~ (h <= B) /\ h - B = i
      BY <1>1, <2>3
    <3> HIDE DEF i, h
    <3>2. path[6 + h] \in Choices(h)
      BY <3>1 DEF Agrees, S
    <3>3. Choices(h) = {Decoder!get_term_state[i]}
      BY <3>1 DEF Choices, B
    <3>4. Decoder!get_term_state[i] = Asm[i] /\ q[S + i] = Asm[i]
      BY <1>4, <3>1, States DEF OnPath, S
    <3> QED BY <3>1, <3>2, <3>3, <3>4
  <2> QED BY <1>1, <2>1, <2>2, <2>3
<1>6. path = q
  BY <1>1, <1>4, <1>5, SeqEqual
<1> QED BY <1>3, <1>6 DEF a, q, B

\* The path of the frame that was sent agrees.
LEMMA OwnPathAgrees ==
  ASSUME CodeUnique, NEW a \in Seq(Bit), Len(a) = BlockLen, NEW buffer, NEW p \in PunctTypes,
         Received(buffer, FrameCode(a), p)
  PROVE  Agrees(buffer, PathOf(a), Steps) /\ Middle(PathOf(a)) = a
<1> DEFINE q == PathOf(a)
           v == FrameCode(a)
           B == BlockLen
           S == Steps
<1>1. q \in Seq(Bit) /\ Len(q) = S + 6 /\ OnPath(q, a) /\ S = B + 6 /\ B \in Nat /\ S \in Nat
  BY PathBits, StepsType, Sizes
<1>2. v = PathCode(q)
  BY FrameCodePath
<1>3. \A i \in 1 .. 2 * S : v[i] \in Bit
  BY <1>2, CodeElement
<1>4. Received(buffer, v, p)
  OBVIOUS
<1>8. Middle(q) = a
  <2> DEFINE s == Middle(q)
  <2>1. Slice(s, q, 6, B)
    BY <1>1, MiddleBits
  <2> HIDE DEF s, q
  <2>2. \A i \in 1 .. Len(s) : s[i] = a[i]
    BY <1>1, <2>1 DEF Slice, OnPath
  <2>3. s = a
    BY <2>1, <2>2, SeqEqual DEF Slice
  <2> QED BY <2>3 DEF s
<1> HIDE DEF q, v
<1>5. \A k \in 1 .. S : Decoder!StepFits(buffer, q, k)
  <2>1. SameKept(v, PathCode(q), p)
    BY <1>2 DEF SameKept, SameAt
  <2> QED BY <1>3, <1>4, <2>1, PathKept
<1> HIDE DEF B, S
<1>6. ASSUME NEW k \in 1 .. S
      PROVE  q[6 + k] \in Choices(k)
  <2>1. CASE k <= B
    <3>1. k \in 1 .. B /\ k \in 1 .. Len(a)
      BY <1>1, <2>1 DEF B
    <3>2. q[6 + k] = a[k] /\ a[k] \in Bit
      BY <1>1, <3>1, ElementOfSeq DEF OnPath, B
    <3> QED BY <2>1, <3>2 DEF Choices, B
  <2>2. CASE ~ (k <= B)
    <3> DEFINE i == k - B
    <3>1. i \in 1 .. 6 /\ S + i = 6 + k
      BY <1>1, <2>2
    <3>2. Choices(k) = {Decoder!get_term_state[i]}
      BY <2>2 DEF Choices, B
    <3> HIDE DEF i
    <3>3. Decoder!get_term_state[i] = Asm[i] /\ q[S + i] = Asm[i]
      BY <1>1, <3>1, States DEF OnPath, S
    <3> QED BY <3>1, <3>2, <3>3
  <2> QED BY <2>1, <2>2
<1>7. Agrees(buffer, q, S)
  <2>1. Len(q) = 6 + S
    BY <1>1
  <2> QED BY <1>1, <1>5, <1>6, <2>1 DEF Agrees, OnPath
<1> QED BY <1>7, <1>8 DEF q, S

\* The frame that was sent is the only one the decoder can find.
LEMMA FrameDecoded ==
  ASSUME CodeUnique, NEW a \in Data, NEW buffer, NEW p \in PunctTypes,
         Received(buffer, FrameCode(a), p)
  PROVE  Decoder!Viterbi(buffer) = {a}
<1> DEFINE S == Decoder!Survivors(buffer)
<1>1. a \in Seq(Bit) /\ Len(a) = BlockLen
  BY MarkerFrame
<1>2. Decoder!Viterbi(buffer) = {Middle(path) : path \in S}
  BY DEF Decoder!Viterbi, Middle
<1>3. \A path : path \in S <=> Agrees(buffer, path, Steps)
  BY SurvivorsAgree
<1> HIDE DEF S
<1>4. ASSUME NEW path \in S
      PROVE  Middle(path) = a
  <2> DEFINE b == Middle(path)
  <2>1. Agrees(buffer, path, Steps)
    BY <1>3
  <2>2. b \in [1 .. BlockLen -> Bit] /\ path = PathOf(b)
    BY <2>1, AgreesPath
  <2> HIDE DEF b
  <2>3. SameKept(FrameCode(a), FrameCode(b), p)
    <3> DEFINE v == FrameCode(a)
    <3>1. \A i \in 1 .. 2 * Steps : v[i] \in Bit
      BY CodeElement, FrameCodePath
    <3>2. Received(buffer, v, p) /\ \A k \in 1 .. Steps : Decoder!StepFits(buffer, path, k)
      BY <2>1 DEF Agrees
    <3> HIDE DEF v
    <3>3. SameKept(v, PathCode(path), p)
      BY <3>1, <3>2, PathKept
    <3>4. FrameCode(b) = PathCode(path)
      BY <2>2, FrameCodePath
    <3> QED BY <3>3, <3>4 DEF v
  <2>4. a = b
    <3>1. Decoder!BlockBitsUnpunctured = 2 * Steps
      BY DEF Decoder!BlockBitsUnpunctured, Steps
    <3>2. \A i \in 1 .. Decoder!BlockBitsUnpunctured :
            Keeps(p, i - 1) => FrameCode(a)[i] = FrameCode(b)[i]
      BY <2>3, <3>1 DEF SameKept, SameAt
    <3> QED BY <2>2, <3>2 DEF CodeUnique
  <2> QED BY <2>4 DEF b
<1>5. PathOf(a) \in S /\ Middle(PathOf(a)) = a
  BY <1>1, <1>3, OwnPathAgrees
<1> QED BY <1>2, <1>4, <1>5

-----------------------------------------------------------------------------
(* The frames of the link *)

\* The decoder counts as the encoder does.
LEMMA InputsCount ==
  /\ \A n : Decoder!get_num_inputs_req(n) = Count(punct, n)
  /\ \A n : SentStart(n) = Count(punct, CodeStart(n))
  /\ Decoder!BlockBitsUnpunctured = 2 * Steps
  /\ Decoder!BlockBitsIn = Count(punct, 2 * Steps)
<1>1. \A n : Decoder!get_num_inputs_req(n) = Count(punct, n)
  <2> TAKE n
  <2>1. {i \in 0 .. n - 1 : Decoder!Keeps(punct, i)} = {i \in 0 .. n - 1 : Keeps(punct, i)}
    BY SameCode
  <2> QED BY <2>1, SameCardinality DEF Decoder!get_num_inputs_req, Count
<1>2. Decoder!BlockBitsUnpunctured = 2 * Steps
  BY DEF Decoder!BlockBitsUnpunctured, Steps
<1> QED BY <1>1, <1>2 DEF SentStart, Count, Decoder!BlockBitsIn

\* Something is transmitted of every two bits of the code.
LEMMA CountOfTwo ==
  ASSUME NEW p \in PunctTypes, NEW h \in Nat
  PROVE  Count(p, 2 * h) + 1 <= Count(p, 2 * h + 2) /\ Count(p, 2 * h) \in Nat
<1> DEFINE m == 2 * h
<1>1. m \in Nat /\ m + 1 \in Nat /\ (m + 1) + 1 = m + 2
  OBVIOUS
<1>2. Keeps(p, m) \/ Keeps(p, m + 1)
  BY OneOfTwo
<1> HIDE DEF m
<1>3. /\ Count(p, m) \in Nat
      /\ Keeps(p, m) => Count(p, m + 1) = Count(p, m) + 1
      /\ ~ Keeps(p, m) => Count(p, m + 1) = Count(p, m)
  BY <1>1, CountStep
<1>4. /\ Count(p, m + 1) \in Nat
      /\ Keeps(p, m + 1) => Count(p, m + 2) = Count(p, m + 1) + 1
      /\ ~ Keeps(p, m + 1) => Count(p, m + 2) = Count(p, m + 1)
  BY <1>1, CountStep
<1>5. Count(p, m) + 1 <= Count(p, m + 2)
  BY <1>2, <1>3, <1>4
<1> QED BY <1>3, <1>5 DEF m

\* What has been sent is the start of what is kept of the code.
LEMMA SentKept ==
  ASSUME consumed \in Seq(Bit), sent \in Seq(Bit), d_buffer \in Seq(Bit), punct \in PunctTypes,
         OneStream
  PROVE  /\ Len(sent) <= Count(punct, 2 * Len(consumed))
         /\ \A i \in 1 .. 2 * Len(consumed) :
              Keeps(punct, i - 1) /\ Count(punct, i) \in 1 .. Len(sent) =>
                sent[Count(punct, i)] = CodeOf(consumed, 1, Len(consumed))[i]
<1> DEFINE L == Len(consumed)
           code == CodeOf(consumed, 1, L)
           pu == Punctured(punct, 0, code)
           all == sent \o d_buffer
<1>1. L \in Nat
  BY LenProperties
<1>2. code \in Seq(Bit) /\ Len(code) = 2 * L
  <2> DEFINE one == 1
  <2>1. one \in Nat /\ L + 1 >= one /\ L - one + 1 = L
    BY <1>1
  <2> HIDE DEF one, L
  <2>2. CodeOf(consumed, one, L) \in Seq(Bit) /\ Len(CodeOf(consumed, one, L)) = 2 * (L - one + 1)
    BY <1>1, <2>1, CodeType
  <2> QED BY <2>1, <2>2 DEF one
<1>3. all = pu
  BY DEF OneStream
<1>4. Len(all) = Len(sent) + Len(d_buffer) /\ \A i \in 1 .. Len(sent) : all[i] = sent[i]
  BY ConcatBits
<1>5. Len(sent) \in Nat /\ Len(d_buffer) \in Nat
  BY LenProperties
<1> HIDE DEF code, all
<1>6. Len(pu) = Count(punct, 2 * L)
  <2> DEFINE n == Len(code)
  <2>1. n \in Nat /\ n \in 0 .. n
    BY <1>1, <1>2
  <2>2. Len(KeptOf(punct, 0, code)[n]) = Count(punct, n)
    <3>1. \A i \in 0 .. Len(code) : Len(KeptOf(punct, 0, code)[i]) = Count(punct, i)
      BY <1>2, KeptCount
    <3> QED BY <2>1, <3>1
  <2>3. pu = KeptOf(punct, 0, code)[n]
    BY PuncturedKept
  <2> HIDE DEF pu
  <2> QED BY <1>2, <2>2, <2>3 DEF n
<1>7. ASSUME NEW i \in 1 .. 2 * L, Keeps(punct, i - 1), Count(punct, i) \in 1 .. Len(sent)
      PROVE  sent[Count(punct, i)] = code[i]
  <2>1. i \in 1 .. Len(code)
    BY <1>2
  <2>2. pu[Count(punct, i)] = code[i]
    BY <1>2, <1>7, <2>1, KeptElement
  <2> HIDE DEF pu
  <2> QED BY <1>3, <1>4, <1>7, <2>2
<1> HIDE DEF pu
<1>8. Len(sent) <= Count(punct, 2 * L)
  BY <1>3, <1>4, <1>5, <1>6
<1> QED BY <1>7, <1>8 DEF L, code

\* When the soft bits of a frame have been sent, the first six bits behind it have been
\* encoded.
LEMMA FrameConsumed ==
  ASSUME consumed \in Seq(Bit), sent \in Seq(Bit), d_buffer \in Seq(Bit), punct \in PunctTypes,
         OneStream, NEW n \in Nat, n >= 1,
         CodeStart(n) % get_pattern_len(punct) = 0, NEW l \in Nat, Decoder!BlockBitsIn <= l,
         SentStart(n) + l <= Len(sent)
  PROVE  (n * Period) + 6 <= Len(consumed)
<1> DEFINE L == Len(consumed)
           f == FrameStart(n)
           cs == CodeStart(n)
           h == n * Period
           m == 2 * Steps
<1>1. L \in Nat /\ f \in Nat /\ h \in Nat /\ f + BlockLen = h /\ m \in Nat
      /\ m = (2 * BlockLen) + 12 /\ BlockLen \in Nat
  BY LenProperties, FramePlace, StepsType, Sizes
<1>2. SUFFICES ASSUME L < h + 6
               PROVE  FALSE
  <2> HIDE DEF L, h
  <2>1. ~ (L < h + 6) => h + 6 <= L
    BY <1>1
  <2> QED BY <2>1 DEF L, h
<1>3. cs = 2 * f
  BY DEF CodeStart
<1>4. cs % get_pattern_len(punct) = 0
  OBVIOUS
<1>5. Len(sent) <= Count(punct, 2 * L) /\ Len(sent) \in Nat
  BY SentKept, LenProperties
<1>6. Count(punct, cs) = SentStart(n) /\ Count(punct, m) = Decoder!BlockBitsIn
  BY InputsCount
<1> HIDE DEF L, f, cs, h, m
<1>7. cs \in Nat /\ cs + m \in Nat /\ (2 * L) + 2 \in Nat /\ (2 * L) + 2 <= cs + m
  BY <1>1, <1>2, <1>3
<1>8. Count(punct, cs + m) = Count(punct, cs) + Count(punct, m)
  BY <1>1, <1>4, <1>7, CountJoined
<1>9. Count(punct, 2 * L) + 1 <= Count(punct, (2 * L) + 2) /\ Count(punct, 2 * L) \in Nat
  BY <1>1, CountOfTwo
<1>10. Count(punct, (2 * L) + 2) <= Count(punct, cs + m) /\ Count(punct, (2 * L) + 2) \in Nat
       /\ Count(punct, cs + m) \in Nat
  BY <1>7, CountGrows
<1>11. Count(punct, cs) \in Nat /\ Count(punct, m) \in Nat
  BY <1>1, <1>7, CountStep
<1>12. Count(punct, cs) + Count(punct, m) <= Len(sent)
  BY <1>5, <1>6, <1>11
<1> QED BY <1>5, <1>8, <1>9, <1>10, <1>11, <1>12

\* What the decoder unpunctures is the code of the frame.
LEMMA FrameReceived ==
  ASSUME consumed \in Seq(Bit), sent \in Seq(Bit), d_buffer \in Seq(Bit), punct \in PunctTypes,
         OneStream, Alternates(consumed), NEW n \in Nat, n >= 1,
         CodeStart(n) % get_pattern_len(punct) = 0, NEW l \in Nat, Decoder!BlockBitsIn <= l,
         SentStart(n) + l <= Len(sent)
  PROVE  Received(Decoder!unpuncture_and_convert(SubSeq(sent, SentStart(n) + 1, SentStart(n) + l)),
                  FrameCode(FrameOf(consumed, n)), punct)
<1> DEFINE f == FrameStart(n)
           cs == CodeStart(n)
           o == SentStart(n)
           m == 2 * Steps
           in == SubSeq(sent, o + 1, o + l)
           v == FrameCode(FrameOf(consumed, n))
           buffer == Decoder!unpuncture_and_convert(in)
<1>1. (n * Period) + 6 <= Len(consumed)
  BY FrameConsumed
<1>2. cs \in Nat /\ m \in Nat /\ cs + m <= 2 * Len(consumed)
  <2> DEFINE e == n * Period
             L == Len(consumed)
  <2>1. /\ e + 6 <= L /\ L \in Nat /\ f \in Nat /\ f + BlockLen = e /\ e \in Nat
        /\ Steps = BlockLen + 6 /\ BlockLen \in Nat
    BY <1>1, FramePlace, LenProperties, StepsType, Sizes
  <2>2. cs = 2 * f
    BY DEF CodeStart
  <2> HIDE DEF e, f, cs, L
  <2>3. cs \in Nat /\ m \in Nat /\ cs + m <= 2 * L
    BY <2>1, <2>2
  <2> QED BY <2>3 DEF L
<1>3. o = Count(punct, cs) /\ Count(punct, m) <= l
  BY InputsCount
<1>4. o \in Nat
  BY <1>2, <1>3, CountStep
<1>5. Slice(in, sent, o, l)
  <2>1. o + l <= Len(sent)
    OBVIOUS
  <2> HIDE DEF o
  <2> QED BY <1>4, <2>1, SliceBits
<1> HIDE DEF in, v
<1>6. ASSUME NEW i \in 1 .. 2 * Steps
      PROVE  buffer[i] = IF Keeps(punct, i - 1) THEN Decoder!map_to_uint8(in[Count(punct, i)])
                         ELSE Decoder!NeutralElement
  BY InputsCount, SameCode DEF Decoder!unpuncture_and_convert
<1>7. ASSUME NEW i \in 1 .. 2 * Steps, Keeps(punct, i - 1)
      PROVE  in[Count(punct, i)] = v[i]
  <2> DEFINE c == Count(punct, i)
             j == cs + i
  <2>0. i \in 1 .. m
    OBVIOUS
  <2> HIDE DEF m
  <2>1. i - 1 \in Nat /\ (i - 1) + 1 = i /\ i \in Nat /\ i <= m
    BY <1>2, <2>0
  <2>2. c \in Nat /\ 1 <= c /\ c <= Count(punct, m) /\ Count(punct, m) \in Nat
    <3>1. Count(punct, i - 1) \in Nat /\ Count(punct, (i - 1) + 1) = Count(punct, i - 1) + 1
      BY <1>7, <2>1, CountStep
    <3>2. Count(punct, i) <= Count(punct, m) /\ Count(punct, i) \in Nat /\ Count(punct, m) \in Nat
      BY <1>2, <2>1, CountGrows
    <3> QED BY <2>1, <3>1, <3>2
  <2>3. cs % get_pattern_len(punct) = 0
    OBVIOUS
  <2> HIDE DEF cs
  <2>4. Count(punct, j) = o + c
    BY <1>2, <1>3, <2>1, <2>3, CountJoined
  <2>5. Keeps(punct, j - 1)
    <3>1. j - 1 = cs + (i - 1)
      BY <1>2, <2>1
    <3> QED BY <1>2, <1>7, <2>1, <2>3, <3>1, KeepsRepeats
  <2>6. j \in 1 .. 2 * Len(consumed)
    BY <1>2, <2>0, LenProperties
  <2>7. in[c] = sent[o + c] /\ o + c \in 1 .. Len(sent)
    <3>1. c \in 1 .. l
      BY <1>3, <2>2
    <3>2. o + c \in 1 .. Len(sent)
      <4>1. Len(sent) \in Nat /\ o + l <= Len(sent)
        BY LenProperties
      <4> HIDE DEF o, c
      <4> QED BY <1>4, <2>2, <3>1, <4>1
    <3> HIDE DEF o, c
    <3> QED BY <1>5, <3>1, <3>2 DEF Slice
  <2> HIDE DEF o, c, j
  <2>8. sent[o + c] = CodeOf(consumed, 1, Len(consumed))[j]
    BY <2>4, <2>5, <2>6, <2>7, SentKept
  <2>9. CodeOf(consumed, 1, Len(consumed))[j] = v[i]
    <3>1. CodeOf(consumed, 1, Len(consumed))[CodeStart(n) + i] = FrameCode(FrameOf(consumed, n))[i]
      BY <1>1, FrameCodeIn
    <3> QED BY <3>1 DEF v, j, cs
  <2> QED BY <2>7, <2>8, <2>9 DEF c
<1> HIDE DEF buffer, o, cs
<1>8. Received(buffer, v, punct)
  BY <1>6, <1>7 DEF Received
<1> QED BY <1>8 DEF buffer, v, in, o

\* The length of a message of soft bits is a number.
LEMMA LengthType ==
  ASSUME punct \in PunctTypes, NEW cut \in Cuts
  PROVE  Length(cut) \in Nat /\ Decoder!BlockBitsIn \in Nat
<1> DEFINE b == Decoder!BlockBitsIn
           m == 2 * Steps
<1>1. b \in Nat /\ b >= 1
  <2>0. m \in Nat /\ m >= 2
    BY StepsType
  <2>1. Count(punct, 2 * 0) + 1 <= Count(punct, 2 * 0 + 2) /\ Count(punct, 2 * 0) \in Nat
    <3>1. 0 \in Nat
      OBVIOUS
    <3> QED BY <3>1, CountOfTwo
  <2> HIDE DEF m
  <2>2. Count(punct, 2 * 0 + 2) <= Count(punct, m) /\ Count(punct, 2 * 0 + 2) \in Nat
        /\ Count(punct, m) \in Nat
    <3>1. 2 * 0 + 2 \in Nat /\ m \in Nat /\ 2 * 0 + 2 <= m
      BY <2>0
    <3> QED BY <3>1, CountGrows
  <2> DEFINE c == Count(punct, 2 * 0 + 2)
             d == Count(punct, 2 * 0)
             e == Count(punct, m)
  <2>3. d + 1 <= c /\ d \in Nat /\ c <= e /\ c \in Nat /\ e \in Nat
    BY <2>1, <2>2
  <2>4. b = e
    BY InputsCount DEF m
  <2> HIDE DEF b, c, d, e
  <2> QED BY <2>3, <2>4
<1>2. cut \in {"exact", "padded", "uneven", "short"}
  BY LinkAssumption
<1> HIDE DEF b
<1>3. 8 * UpTo(b, 8) \in Nat /\ b + 1 \in Nat /\ 8 * ((b - 1) \div 8) \in Nat
  BY <1>1 DEF UpTo
<1>4. Length(cut) \in {b, 8 * UpTo(b, 8), b + 1, 8 * ((b - 1) \div 8)}
  <2>1. CASE cut = "exact"
    BY <2>1 DEF Length, b
  <2>2. CASE cut = "padded"
    BY <2>2 DEF Length, b
  <2>3. CASE cut = "uneven"
    BY <2>3 DEF Length, b
  <2>4. CASE cut = "short"
    BY <2>4 DEF Length, b
  <2> QED BY <1>2, <2>1, <2>2, <2>3, <2>4
<1> QED BY <1>1, <1>3, <1>4 DEF b

\* The frame last found is decoded, and has been encoded.
FoundInv ==
  found > 0 /\ ~ended /\ ~aborted /\ CodeStart(found) % get_pattern_len(punct) = 0 =>
    /\ found * Period <= Len(consumed)
    /\ published = Decoder!Blob(FrameOf(consumed, found))

\* The inductive invariant of the decoded frames.
DecodedInv == LinkInv /\ Alternates(consumed) /\ FoundInv

\* The invariant holds initially.
LEMMA DecodedInitially == Init => DecodedInv
<1> SUFFICES ASSUME Init
             PROVE  DecodedInv
  OBVIOUS
<1>1. consumed = <<>> /\ found = 0
  BY DEF Init, EncoderInit
<1>2. Len(consumed) = 0
  BY <1>1
<1>3. Alternates(consumed)
  <2>1. \A m \in Nat : ~ (m * Period < 0)
    <3> TAKE m \in Nat
    <3> DEFINE e == m * Period
    <3>1. e \in Nat
      BY Sizes, Multiples
    <3> HIDE DEF e
    <3>2. ~ (e < 0)
      BY <3>1
    <3> QED BY <3>2 DEF e
  <2> QED BY <1>2, <2>1 DEF Alternates
<1>4. FoundInv
  BY <1>1 DEF FoundInv
<1> QED BY <1>3, <1>4, LinkInitially DEF DecodedInv

\* A frame is not changed by what is encoded behind it.
LEMMA FrameStays ==
  ASSUME NEW x \in Seq(Bit), NEW y \in Seq(Bit), NEW n \in Nat, n >= 1, n * Period <= Len(x)
  PROVE  FrameOf(x \o y, n) = FrameOf(x, n) /\ n * Period <= Len(x \o y)
<1> DEFINE z == x \o y
           o == FrameStart(n)
           B == BlockLen
           e == n * Period
           s == SubSeq(z, o + 1, o + B)
           t == SubSeq(x, o + 1, o + B)
<1>1. /\ z \in Seq(Bit) /\ Len(z) = Len(x) + Len(y)
      /\ \A i \in 1 .. Len(x) : z[i] = x[i]
      /\ Len(x) \in Nat /\ Len(y) \in Nat
  BY ConcatBits, LenProperties
<1>2. o \in Nat /\ B \in Nat /\ o + B = e /\ e \in Nat /\ e <= Len(x)
  BY FramePlace, Sizes
<1>3. s = FrameOf(z, n) /\ t = FrameOf(x, n)
  BY DEF FrameOf
<1> HIDE DEF z, o, B, e
<1>4. o + B <= Len(x) /\ o + B <= Len(z) /\ e <= Len(z)
  BY <1>1, <1>2
<1>5. Slice(s, z, o, B) /\ Slice(t, x, o, B)
  BY <1>1, <1>2, <1>4, SliceBits
<1> HIDE DEF s, t
<1>6. \A i \in 1 .. B : o + i \in 1 .. Len(x)
  BY <1>1, <1>2, <1>4
<1>7. \A i \in 1 .. Len(s) : s[i] = t[i]
  BY <1>1, <1>5, <1>6 DEF Slice
<1>8. s = t
  BY <1>5, <1>7, SeqEqual DEF Slice
<1> QED BY <1>3, <1>4, <1>8 DEF z, e

\* Delivering a frame
LEMMA DeliverDecodes ==
  ASSUME CodeUnique, DecodedInv, NEW n \in 1 .. MaxBytes, NEW cut \in Cuts, Deliver(n, cut)
  PROVE  FoundInv'
<1> DEFINE l == Length(cut)
           o == SentStart(n)
           in == SubSeq(sent, o + 1, o + l)
           msg == Decoder!Soft(in)
<1>1. /\ LinkInv /\ Alternates(consumed) /\ FoundInv
      /\ consumed \in Seq(Bit) /\ sent \in Seq(Bit) /\ d_buffer \in Seq(Bit)
      /\ punct \in PunctTypes /\ OneStream /\ found \in 0 .. received
  BY DEF DecodedInv, LinkInv, EncoderInv, EncoderTypeOK, ReceiverTypeOK
<1>2. /\ ~ ended /\ ended' = ended /\ o + l <= Len(sent)
      /\ Decoder!process_message(msg)
      /\ found' = IF Decoder!AcceptsLength(l) THEN n ELSE found
      /\ UNCHANGED encoderVars
  BY DEF Deliver
<1>3. punct' = punct /\ consumed' = consumed
  BY <1>2 DEF encoderVars
<1>4. n \in Nat /\ n >= 1 /\ l \in Nat /\ Decoder!BlockBitsIn \in Nat
  <2>1. n \in Nat /\ n >= 1
    BY LinkAssumption
  <2> QED BY <1>1, <2>1, LengthType
<1>5. Slice(in, sent, o, l)
  <2>1. o \in Nat
    <3>1. CodeStart(n) \in Nat
      BY <1>4, FramePlace DEF CodeStart
    <3> QED BY <1>1, <3>1, InputsCount, CountStep
  <2> HIDE DEF o, l
  <2> QED BY <1>1, <1>2, <1>4, <2>1, SliceBits
<1>6. msg.kind = "softbits" /\ msg.bits = in /\ Len(msg.bits) = l
  <2>1. Len(in) = l
    BY <1>5 DEF Slice
  <2> HIDE DEF in
  <2> QED BY <2>1 DEF Decoder!Soft
<1>7. SUFFICES ASSUME found' > 0, ~ ended', ~ aborted',
                      CodeStart(found') % get_pattern_len(punct) = 0
               PROVE  /\ found' * Period <= Len(consumed)
                      /\ published' = Decoder!Blob(FrameOf(consumed, found'))
  BY <1>3 DEF FoundInv, CodeStart, FrameStart
<1> HIDE DEF msg, l, in
<1>8. ~ Decoder!PassEof(msg) /\ msg # Decoder!Malformed
  BY <1>6 DEF Decoder!PassEof, Decoder!EOF, Decoder!Malformed
<1>9. CASE Decoder!AcceptsLength(l)
  <2>1. found' = n /\ CodeStart(n) % get_pattern_len(punct) = 0
    BY <1>2, <1>7, <1>9
  <2>2. ~ Decoder!Skip(msg)
    BY <1>6, <1>8, <1>9, LinkAssumption DEF Decoder!Skip
  <2>3. Decoder!Decode(msg)
    BY <1>2, <1>8, <2>2 DEF Decoder!process_message
  <2>4. Decoder!BlockBitsIn <= l
    <3>1. Len(msg.bits) >= Decoder!BlockBitsIn
      BY <1>7, <2>3 DEF Decoder!Decode
    <3> QED BY <1>4, <1>6, <3>1
  <2>5. (n * Period) + 6 <= Len(consumed)
    BY <1>1, <1>2, <1>4, <2>1, <2>4, FrameConsumed
  <2>6. FrameOf(consumed, n) \in Data
    BY <1>1, <1>4, <2>5, FrameIn
  <2>7. Decoder!Viterbi(Decoder!unpuncture_and_convert(in)) = {FrameOf(consumed, n)}
    <3> DEFINE buffer == Decoder!unpuncture_and_convert(in)
               a == FrameOf(consumed, n)
    <3>1. Received(buffer, FrameCode(a), punct)
      BY <1>1, <1>2, <1>4, <2>1, <2>4, FrameReceived DEF in
    <3>2. a \in Data
      BY <2>6
    <3> HIDE DEF buffer, a
    <3>3. Decoder!Viterbi(buffer) = {a}
      BY <1>1, <3>1, <3>2, FrameDecoded
    <3> QED BY <3>3 DEF buffer, a
  <2>8. published' = Decoder!Blob(FrameOf(consumed, n))
    <3> DEFINE F == Decoder!Viterbi(Decoder!unpuncture_and_convert(in))
    <3>1. \E data \in IF F = {} THEN {Decoder!Guess} ELSE F : published' = Decoder!Blob(data)
      <4>1. Len(msg.bits) >= Decoder!BlockBitsIn
        BY <1>7, <2>3 DEF Decoder!Decode
      <4> QED BY <1>6, <2>3, <4>1 DEF Decoder!Decode
    <3> QED BY <2>7, <3>1
  <2>9. n * Period <= Len(consumed)
    <3> DEFINE e == n * Period
    <3>1. e \in Nat /\ Len(consumed) \in Nat /\ e + 6 <= Len(consumed)
      BY <1>1, <1>4, <2>5, FramePlace, LenProperties
    <3> HIDE DEF e
    <3>2. e <= Len(consumed)
      BY <3>1
    <3> QED BY <3>2 DEF e
  <2> QED BY <2>1, <2>8, <2>9
<1>10. CASE ~ Decoder!AcceptsLength(l)
  <2>1. found' = found
    BY <1>2, <1>10
  <2>2. ~ Decoder!Decode(msg)
    BY <1>6, <1>10 DEF Decoder!Decode
  <2>3. Decoder!Skip(msg)
    BY <1>2, <1>8, <2>2 DEF Decoder!process_message
  <2>4. published' = published /\ aborted' = aborted
    BY <2>3 DEF Decoder!Skip
  <2> QED BY <1>1, <1>2, <1>7, <2>1, <2>4 DEF FoundInv
<1> QED BY <1>9, <1>10

\* Every step keeps the invariant.
LEMMA DecodedKept ==
  ASSUME CodeUnique
  PROVE  DecodedInv /\ [Next]_vars => DecodedInv'
<1> SUFFICES ASSUME DecodedInv, [Next]_vars
             PROVE  DecodedInv'
  OBVIOUS
<1>1. LinkInv /\ Alternates(consumed) /\ FoundInv
  BY DEF DecodedInv
<1>2. LinkInv'
  BY <1>1, LinkKept
<1>3. ASSUME consumed' = consumed
      PROVE  Alternates(consumed)'
  BY <1>1, <1>3 DEF Alternates, Holds
<1>4. ASSUME UNCHANGED <<punct, consumed, published, aborted, found, ended>>
      PROVE  FoundInv'
  BY <1>1, <1>4 DEF FoundInv, CodeStart, FrameStart
<1>5. CASE StartWork
  <2>1. UNCHANGED <<punct, consumed, published, aborted, found, ended>>
    BY <1>5 DEF StartWork, Enter
  <2> QED BY <1>2, <1>3, <1>4, <2>1 DEF DecodedInv
<1>6. CASE Encode
  <2>1. PICK byte \in NextBytes : EncodeByte(byte)
    BY <1>6 DEF Encode
  <2>2. consumed' = consumed \o byte /\ punct' = punct
        /\ UNCHANGED <<published, aborted, found, ended>>
    BY <1>6, <2>1 DEF Encode, EncodeByte
  <2>3. consumed \in Seq(Bit) /\ byte \in Seq(Bit)
    <3>1. consumed \in Seq(Bit) /\ Len(consumed) % 8 = 0
      BY <1>1 DEF LinkInv, EncoderInv, EncoderTypeOK
    <3> QED BY <3>1, NextBytePart, BytesAreBits
  <2>4. Alternates(consumed \o byte)
    BY <1>1, <2>3, AlternatesOn
  <2>5. FoundInv'
    <3> SUFFICES ASSUME found > 0, ~ ended, ~ aborted, CodeStart(found) % get_pattern_len(punct) = 0
                 PROVE  /\ found * Period <= Len(consumed \o byte)
                        /\ published = Decoder!Blob(FrameOf(consumed \o byte, found))
      BY <2>2 DEF FoundInv, CodeStart, FrameStart
    <3>1. found * Period <= Len(consumed) /\ published = Decoder!Blob(FrameOf(consumed, found))
      BY <1>1 DEF FoundInv
    <3>2. found \in Nat /\ found >= 1
      <4>1. found \in 0 .. received /\ received \in 0 .. MaxBytes
        BY <1>1 DEF LinkInv, ReceiverTypeOK
      <4> QED BY <4>1
    <3>3. /\ FrameOf(consumed \o byte, found) = FrameOf(consumed, found)
          /\ found * Period <= Len(consumed \o byte)
      BY <2>3, <3>1, <3>2, FrameStays
    <3> QED BY <3>1, <3>3
  <2>6. Alternates(consumed)'
    BY <2>2, <2>4 DEF Alternates, Holds
  <2> QED BY <1>2, <2>5, <2>6 DEF DecodedInv
<1>7. CASE EndWork
  <2>1. UNCHANGED <<punct, consumed, published, aborted, found, ended>>
    BY <1>7 DEF EndWork, Return
  <2> QED BY <1>2, <1>3, <1>4, <2>1 DEF DecodedInv
<1>8. CASE DeliverFrame
  <2>1. PICK n \in 1 .. MaxBytes, cut \in Cuts : Deliver(n, cut)
    BY <1>8 DEF DeliverFrame
  <2>2. FoundInv'
    BY <2>1, DeliverDecodes
  <2>3. consumed' = consumed
    BY <2>1 DEF Deliver, encoderVars
  <2> QED BY <1>2, <1>3, <2>2, <2>3 DEF DecodedInv
<1>9. CASE DeliverOther
  <2>1. PICK msg \in {Decoder!EOF, Decoder!Malformed} :
          Decoder!process_message(msg) /\ ended' = (msg = Decoder!EOF)
    BY <1>9 DEF DeliverOther
  <2>2. ~ ended /\ punct' = punct /\ consumed' = consumed /\ found' = found
    BY <1>9 DEF DeliverOther, encoderVars
  <2>3. CASE msg = Decoder!EOF
    <3>1. ended'
      BY <2>1, <2>3
    <3>2. FoundInv'
      BY <3>1 DEF FoundInv
    <3> QED BY <1>2, <1>3, <2>2, <3>2 DEF DecodedInv
  <2>4. CASE msg # Decoder!EOF
    <3>1. ~ ended' /\ msg = Decoder!Malformed
      BY <2>1, <2>4
    <3>2. ~ Decoder!PassEof(msg) /\ ~ Decoder!Decode(msg)
      BY <2>4, <3>1 DEF Decoder!PassEof, Decoder!Decode, Decoder!Malformed
    <3>3. published' = published /\ aborted' = aborted
      BY <2>1, <3>2 DEF Decoder!process_message, Decoder!Skip
    <3>4. FoundInv'
      BY <1>1, <2>2, <3>1, <3>3 DEF FoundInv, CodeStart, FrameStart
    <3> QED BY <1>2, <1>3, <2>2, <3>4 DEF DecodedInv
  <2> QED BY <2>3, <2>4
<1>10. CASE UNCHANGED vars
  <2>1. UNCHANGED <<punct, consumed, published, aborted, found, ended>>
    BY <1>10 DEF vars, encoderVars
  <2> QED BY <1>2, <1>3, <1>4, <2>1 DEF DecodedInv
<1> QED BY <1>5, <1>6, <1>7, <1>8, <1>9, <1>10 DEF Next

\* For every marker and frame of whole bytes, all polynomials with which no frame that is sent has what is transmitted of it in
\* common with another (CodeUnique), and all puncturing schemes and calls, a frame at
\* which the pattern starts anew is decoded to the data it was sent with
\* (unpuncture_and_convert, convert_poly, get_start_state, get_term_state).
THEOREM LinkAlignedFramesDecoded ==
  ASSUME CodeUnique
  PROVE  Spec => []AlignedFramesDecoded
<1>1. Init => DecodedInv
  BY DecodedInitially
<1>2. DecodedInv /\ [Next]_vars => DecodedInv'
  BY DecodedKept
<1>3. DecodedInv => AlignedFramesDecoded
  BY DEF DecodedInv, FoundInv, AlignedFramesDecoded, FrameBits, FrameOf
<1> QED BY <1>1, <1>2, <1>3, PTL DEF Spec
=============================================================================
