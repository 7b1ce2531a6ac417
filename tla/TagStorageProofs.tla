-------------------------- MODULE TagStorageProofs --------------------------
(***************************************************************************)
(* Proofs about TagStorage, for every look-ahead, every stream of tags added *)
(* in any order and at any time, and every division into calls.              *)
(*                                                                         *)
(* The inductive invariant says what is stored: each tag once, those of all  *)
(* consumed items among them, so that what is not stored yet lies where the  *)
(* next call looks; and as long as upstream keeps to the order of the        *)
(* stream, all that is stored comes before all that is not.                  *)
(***************************************************************************)
EXTENDS TagStorage, SequenceTheorems, FiniteSetTheorems, WellFoundedInduction, TLAPS

-----------------------------------------------------------------------------
(* Tags in order *)

\* How many tags of the set come before t
Rank(tags, t) == Cardinality({s \in tags : Before(s, t)})

Tag == [offset : Nat, key : {"EOF", "other"}, num : 1 .. 2]

\* A finite set of tags any two of which have an order
IsOrdered(tags) ==
  /\ tags \subseteq Tag /\ IsFiniteSet(tags)
  /\ \A s, t \in tags : s = t \/ Before(s, t) \/ Before(t, s)

LEMMA BeforeIsOrder ==
  ASSUME NEW s \in Tag, NEW t \in Tag, NEW u \in Tag
  PROVE  /\ ~Before(s, s)
         /\ Before(s, t) => ~Before(t, s) /\ s.offset <= t.offset
         /\ Before(s, t) /\ Before(t, u) => Before(s, u)
<1>1. /\ s.offset \in Nat /\ s.num \in Nat /\ t.offset \in Nat /\ t.num \in Nat
      /\ u.offset \in Nat /\ u.num \in Nat
  BY DEF Tag
<1> QED BY <1>1 DEF Before

\* A part of an ordered set is ordered.
LEMMA OrderedPart ==
  ASSUME NEW tags, IsOrdered(tags), NEW part \in SUBSET tags
  PROVE  IsOrdered(part)
<1>1. IsFiniteSet(part)
  BY FS_Subset DEF IsOrdered
<1> QED BY <1>1 DEF IsOrdered

LEMMA RankType ==
  ASSUME NEW tags, IsOrdered(tags), NEW t \in tags
  PROVE  Rank(tags, t) \in 0 .. Cardinality(tags) - 1 /\ Cardinality(tags) \in Nat
<1> DEFINE S == {s \in tags : Before(s, t)}
<1>1. IsFiniteSet(tags) /\ S \in SUBSET tags /\ t \notin S
  BY BeforeIsOrder DEF IsOrdered
<1>2. IsFiniteSet(S) /\ Cardinality(S) <= Cardinality(tags) /\ Cardinality(tags) # Cardinality(S)
  BY <1>1, FS_Subset
<1>3. Cardinality(S) \in Nat /\ Cardinality(tags) \in Nat
  BY <1>1, <1>2, FS_CardinalityType
<1>4. Rank(tags, t) = Cardinality(S)
  BY DEF Rank
<1> HIDE DEF S
<1> QED BY <1>2, <1>3, <1>4

LEMMA RankGrows ==
  ASSUME NEW tags, IsOrdered(tags), NEW s \in tags, NEW t \in tags, Before(s, t)
  PROVE  Rank(tags, s) < Rank(tags, t)
<1> DEFINE S == {x \in tags : Before(x, s)}
           T == {x \in tags : Before(x, t)}
<1>1. S \in SUBSET T
  BY BeforeIsOrder DEF IsOrdered
<1>2. s \in T /\ s \notin S
  BY BeforeIsOrder DEF IsOrdered
<1>3. IsFiniteSet(T)
  BY FS_Subset DEF IsOrdered
<1>4. Rank(tags, s) = Cardinality(S) /\ Rank(tags, t) = Cardinality(T)
  BY DEF Rank
<1> HIDE DEF S, T
<1>5. IsFiniteSet(S) /\ Cardinality(S) <= Cardinality(T) /\ Cardinality(T) # Cardinality(S)
  BY <1>1, <1>2, <1>3, FS_Subset
<1>6. Cardinality(S) \in Nat /\ Cardinality(T) \in Nat
  BY <1>3, <1>5, FS_CardinalityType
<1> QED BY <1>4, <1>5, <1>6

\* Every place is taken by one tag.
LEMMA RankReached ==
  ASSUME NEW tags, IsOrdered(tags), NEW k \in 1 .. Cardinality(tags)
  PROVE  \E t \in tags : Rank(tags, t) = k - 1
<1> DEFINE n == Cardinality(tags)
           r == [t \in tags |-> Rank(tags, t)]
<1>1. n \in Nat
  BY FS_CardinalityType DEF IsOrdered
<1>2. r \in [tags -> 0 .. n - 1]
  BY RankType
<1>3. \A s, t \in tags : r[s] = r[t] => s = t
  <2> SUFFICES ASSUME NEW s \in tags, NEW t \in tags, s # t
               PROVE  r[s] # r[t]
    OBVIOUS
  <2>1. r[s] = Rank(tags, s) /\ r[t] = Rank(tags, t) /\ r[s] \in Int /\ r[t] \in Int
    BY <1>2
  <2>2. Before(s, t) \/ Before(t, s)
    BY DEF IsOrdered
  <2>3. Rank(tags, s) < Rank(tags, t) \/ Rank(tags, t) < Rank(tags, s)
    BY <2>2, RankGrows
  <2> HIDE DEF r
  <2> QED BY <2>1, <2>3
<1>4. r \in Injection(tags, 0 .. n - 1)
  BY <1>2, <1>3 DEF Injection, IsInjective
<1>5. IsFiniteSet(0 .. n - 1) /\ Cardinality(0 .. n - 1) = n
  <2> HIDE DEF n, r
  <2> DEFINE m == n - 1
  <2>1. 0 \in Int /\ m \in Int
    BY <1>1
  <2>2. IsFiniteSet(0 .. m) /\ Cardinality(0 .. m) = IF 0 > m THEN 0 ELSE m - 0 + 1
    <3> HIDE DEF m
    <3> QED BY <2>1, FS_Interval
  <2> QED BY <1>1, <2>2
<1>6. r \in Surjection(tags, 0 .. n - 1)
  <2> HIDE DEF r
  <2> QED BY <1>4, <1>5, FS_Injection
<1>7. k - 1 \in 0 .. n - 1
  <2> HIDE DEF n
  <2>1. k \in 1 .. n
    BY DEF n
  <2> QED BY <1>1, <2>1
<1>8. \E t \in tags : r[t] = k - 1
  <2> HIDE DEF n
  <2> QED BY <1>6, <1>7 DEF Surjection
<1> QED BY <1>8

LEMMA InOrderFacts ==
  ASSUME NEW tags, IsOrdered(tags)
  PROVE  /\ Cardinality(tags) \in Nat
         /\ InOrder(tags) \in Seq(tags) /\ Len(InOrder(tags)) = Cardinality(tags)
         /\ \A k \in 1 .. Cardinality(tags) : /\ InOrder(tags)[k] \in tags
                                              /\ Rank(tags, InOrder(tags)[k]) = k - 1
         /\ \A t \in tags : /\ Rank(tags, t) + 1 \in 1 .. Cardinality(tags)
                            /\ InOrder(tags)[Rank(tags, t) + 1] = t
<1> DEFINE n == Cardinality(tags)
           q == InOrder(tags)
<1>1. n \in Nat
  BY FS_CardinalityType DEF IsOrdered
<1>2. q = [k \in 1 .. n |-> CHOOSE t \in tags : Rank(tags, t) = k - 1]
  BY DEF InOrder, Rank
<1> HIDE DEF n, q
<1>3. ASSUME NEW k \in 1 .. n
      PROVE  q[k] \in tags /\ Rank(tags, q[k]) = k - 1
  <2>1. q[k] = CHOOSE t \in tags : Rank(tags, t) = k - 1
    BY <1>2
  <2>2. \E t \in tags : Rank(tags, t) = k - 1
    BY RankReached DEF n
  <2> QED BY <2>1, <2>2
<1>4. q \in Seq(tags) /\ Len(q) = n
  <2>1. q \in [1 .. n -> tags]
    BY <1>2, <1>3
  <2> QED BY <1>1, <2>1
<1>5. ASSUME NEW t \in tags
      PROVE  Rank(tags, t) + 1 \in 1 .. n /\ q[Rank(tags, t) + 1] = t
  <2> DEFINE k == Rank(tags, t) + 1
  <2>1. Rank(tags, t) \in 0 .. n - 1
    BY RankType DEF n
  <2>2. k \in 1 .. n /\ k - 1 = Rank(tags, t)
    BY <1>1, <2>1
  <2> HIDE DEF k
  <2>3. q[k] \in tags /\ Rank(tags, q[k]) = Rank(tags, t)
    BY <1>3, <2>2
  <2>4. ~Before(q[k], t) /\ ~Before(t, q[k])
    <3>1. \A x, y \in tags : Before(x, y) => Rank(tags, x) < Rank(tags, y)
      BY RankGrows
    <3> QED BY <2>1, <2>3, <3>1
  <2>5. q[k] = t
    BY <2>3, <2>4 DEF IsOrdered
  <2> QED BY <2>2, <2>5 DEF k
<1> QED BY <1>1, <1>3, <1>4, <1>5 DEF n, q

LEMMA ConcatIs ==
  ASSUME NEW U, NEW p \in Seq(U), NEW q \in Seq(U), NEW r \in Seq(U),
         Len(r) = Len(p) + Len(q),
         \A k \in 1 .. Len(p) + Len(q) : r[k] = IF k <= Len(p) THEN p[k] ELSE q[k - Len(p)]
  PROVE  r = p \o q
<1> DEFINE s == p \o q
<1>1. /\ s \in Seq(U) /\ Len(s) = Len(p) + Len(q)
      /\ \A k \in 1 .. Len(p) + Len(q) : s[k] = IF k <= Len(p) THEN p[k] ELSE q[k - Len(p)]
  BY ConcatProperties
<1> HIDE DEF s
<1>2. Len(r) = Len(s) /\ \A k \in 1 .. Len(r) : r[k] = s[k]
  BY <1>1
<1>3. r = s
  BY <1>1, <1>2, SeqEqual
<1> QED BY <1>3 DEF s

\* If all of S comes before all of T, the order of both is that of S, then
\* that of T.
LEMMA InOrderJoined ==
  ASSUME NEW S, NEW T, IsOrdered(S \cup T), \A s \in S, t \in T : Before(s, t)
  PROVE  InOrder(S \cup T) = InOrder(S) \o InOrder(T)
<1> DEFINE U == S \cup T
           m == Cardinality(S)
           n == Cardinality(T)
           p == InOrder(S)
           q == InOrder(T)
           r == InOrder(U)
<1>1. IsOrdered(S) /\ IsOrdered(T) /\ IsOrdered(U)
  BY OrderedPart
<1>2. S \cap T = {}
  BY <1>1, BeforeIsOrder DEF IsOrdered
<1>3. m \in Nat /\ n \in Nat /\ Cardinality(U) = m + n
  <2>1. IsFiniteSet(S) /\ IsFiniteSet(T)
    BY <1>1 DEF IsOrdered
  <2>2. Cardinality(U) = Cardinality(S) + Cardinality(T) - Cardinality({})
    BY <1>2, <2>1, FS_Union
  <2>3. Cardinality({}) = 0
    BY FS_EmptySet
  <2>4. m \in Nat /\ n \in Nat
    BY <2>1, FS_CardinalityType
  <2> HIDE DEF U
  <2> QED BY <2>2, <2>3, <2>4
<1>4. ASSUME NEW s \in S PROVE Rank(U, s) = Rank(S, s)
  <2>1. {x \in U : Before(x, s)} = {x \in S : Before(x, s)}
    BY <1>1, BeforeIsOrder DEF IsOrdered
  <2> QED BY <2>1 DEF Rank
<1>5. ASSUME NEW t \in T PROVE Rank(U, t) = m + Rank(T, t)
  <2> DEFINE V == {x \in T : Before(x, t)}
  <2>1. {x \in U : Before(x, t)} = S \cup V
    OBVIOUS
  <2>2. S \cap V = {}
    BY <1>2
  <2>3. IsFiniteSet(S) /\ IsFiniteSet(V)
    BY <1>1, FS_Subset DEF IsOrdered
  <2>4. Rank(U, t) = Cardinality(S \cup V) /\ Rank(T, t) = Cardinality(V)
    BY <2>1 DEF Rank
  <2> HIDE DEF V, U
  <2>5. Cardinality(S \cup V) = Cardinality(S) + Cardinality(V) - Cardinality({})
    BY <2>2, <2>3, FS_Union
  <2>6. Cardinality({}) = 0 /\ Cardinality(V) \in Nat
    BY <2>3, FS_EmptySet, FS_CardinalityType
  <2> QED BY <1>3, <2>4, <2>5, <2>6
<1>6. /\ p \in Seq(S) /\ Len(p) = m /\ q \in Seq(T) /\ Len(q) = n
      /\ r \in Seq(U) /\ Len(r) = m + n
      /\ \A k \in 1 .. m : p[k] \in S /\ Rank(S, p[k]) = k - 1
      /\ \A k \in 1 .. n : q[k] \in T /\ Rank(T, q[k]) = k - 1
      /\ \A t \in U : r[Rank(U, t) + 1] = t
  <2>1. p \in Seq(S) /\ Len(p) = m /\ \A k \in 1 .. m : p[k] \in S /\ Rank(S, p[k]) = k - 1
    BY <1>1, InOrderFacts
  <2>2. q \in Seq(T) /\ Len(q) = n /\ \A k \in 1 .. n : q[k] \in T /\ Rank(T, q[k]) = k - 1
    BY <1>1, InOrderFacts
  <2>3. /\ r \in Seq(U) /\ Len(r) = Cardinality(U)
        /\ \A t \in U : r[Rank(U, t) + 1] = t
    <3> HIDE DEF U
    <3> QED BY <1>1, InOrderFacts
  <2> QED BY <1>3, <2>1, <2>2, <2>3
<1>7. ASSUME NEW k \in 1 .. m PROVE r[k] = p[k]
  <2>1. p[k] \in S /\ Rank(S, p[k]) = k - 1
    BY <1>6
  <2>2. p[k] \in U /\ Rank(U, p[k]) = k - 1
    BY <1>4, <2>1
  <2>3. r[Rank(U, p[k]) + 1] = p[k]
    BY <1>6, <2>2
  <2>4. k - 1 + 1 = k
    BY <1>3
  <2> QED BY <2>2, <2>3, <2>4
<1>8. ASSUME NEW k \in 1 .. m + n, k > m PROVE r[k] = q[k - m]
  <2> DEFINE i == k - m
  <2>1. i \in 1 .. n /\ m + (i - 1) + 1 = k
    <3> HIDE DEF m, n
    <3> QED BY <1>3, <1>8
  <2> HIDE DEF i
  <2>2. q[i] \in T /\ Rank(T, q[i]) = i - 1
    BY <1>6, <2>1
  <2>3. q[i] \in U /\ Rank(U, q[i]) = m + (i - 1)
    BY <1>5, <2>2
  <2>4. r[Rank(U, q[i]) + 1] = q[i]
    BY <1>6, <2>3
  <2> QED BY <2>1, <2>3, <2>4 DEF i
<1> HIDE DEF U, m, n, p, q, r
<1>9. /\ p \in Seq(U) /\ Len(p) = m /\ q \in Seq(U) /\ Len(q) = n
      /\ r \in Seq(U) /\ Len(r) = m + n
  <2>1. S \subseteq U /\ T \subseteq U
    BY DEF U
  <2>2. p \in Seq(U)
    BY <1>6, <2>1, SeqMonotonic
  <2>3. q \in Seq(U)
    BY <1>6, <2>1, SeqMonotonic
  <2> QED BY <1>6, <2>2, <2>3
<1>10. \A k \in 1 .. m + n : r[k] = IF k <= m THEN p[k] ELSE q[k - m]
  <2> TAKE k \in 1 .. m + n
  <2>1. k \in 1 .. m \/ k > m
    BY <1>3
  <2>2. k \in 1 .. m => k <= m
    OBVIOUS
  <2>3. k > m => ~(k <= m)
    BY <1>3
  <2> QED BY <1>7, <1>8, <2>1, <2>2, <2>3, Zenon
<1>11. r = p \o q
  BY <1>3, <1>9, <1>10, ConcatIs
<1> QED BY <1>11 DEF U, p, q, r

\* A set of places has a last one.
LEMMA LastPlace ==
  ASSUME NEW n \in Nat, NEW S \in SUBSET (1 .. n), S # {}
  PROVE  Max(S) \in S /\ \A i \in S : i <= Max(S)
<1> DEFINE T == {n - p : p \in S}
           R == OpToRel(<, Nat)
<1>1. T \subseteq Nat /\ T # {}
  <2>1. \A p \in S : n - p \in Nat
    OBVIOUS
  <2>2. T \subseteq Nat
    BY <2>1
  <2>3. T # {}
    <3> PICK p \in S : TRUE
      OBVIOUS
    <3>1. n - p \in T
      OBVIOUS
    <3> QED BY <3>1
  <2> QED BY <2>2, <2>3
<1>2. IsWellFoundedOn(R, Nat)
  BY NatLessThanWellFounded
<1>3. PICK x \in T : \A y \in T : ~ (<<y, x>> \in R)
  <2> HIDE DEF T, R
  <2> QED BY <1>1, <1>2, WFMin
<1>4. PICK p \in S : x = n - p
  OBVIOUS
<1>5. ASSUME NEW r \in S
      PROVE  p >= r
  <2>1. n - r \in T /\ n - r \in Nat /\ x \in Nat
    BY <1>1
  <2>2. ~ (n - r < x)
    BY <1>3, <2>1 DEF OpToRel
  <2> QED BY <1>4, <2>2
<1>6. Max(S) \in S /\ \A r \in S : Max(S) >= r
  BY <1>5 DEF Max
<1> QED BY <1>6

\* The sequence of a set holds its members, and nothing else.
LEMMA InOrderMembers ==
  ASSUME NEW tags, IsOrdered(tags)
  PROVE  /\ InOrder(tags) \in Seq(tags)
         /\ \A i \in 1 .. Len(InOrder(tags)) : InOrder(tags)[i] \in tags
         /\ \A t \in tags : \E i \in 1 .. Len(InOrder(tags)) : InOrder(tags)[i] = t
<1>1. /\ InOrder(tags) \in Seq(tags) /\ Len(InOrder(tags)) = Cardinality(tags)
      /\ \A k \in 1 .. Cardinality(tags) : InOrder(tags)[k] \in tags
      /\ \A t \in tags : /\ Rank(tags, t) + 1 \in 1 .. Cardinality(tags)
                         /\ InOrder(tags)[Rank(tags, t) + 1] = t
  BY InOrderFacts
<1>2. ASSUME NEW t \in tags
      PROVE  \E i \in 1 .. Len(InOrder(tags)) : InOrder(tags)[i] = t
  BY <1>1
<1> QED BY <1>1, <1>2

\* Two tags of the sequence of a set are different tags.
LEMMA InOrderInjective ==
  ASSUME NEW tags, IsOrdered(tags)
  PROVE  \A i, j \in 1 .. Len(InOrder(tags)) : InOrder(tags)[i] = InOrder(tags)[j] => i = j
<1>1. /\ Cardinality(tags) \in Nat /\ Len(InOrder(tags)) = Cardinality(tags)
      /\ \A k \in 1 .. Cardinality(tags) : Rank(tags, InOrder(tags)[k]) = k - 1
  BY InOrderFacts
<1> QED BY <1>1

-----------------------------------------------------------------------------
(* The inductive invariant *)

Stored == {d_tags[i] : i \in 1 .. Len(d_tags)}

\* The tags that are not stored lie where the next call looks for them
StoredOnce ==
  /\ d_tags \in Seq(stream)
  /\ \A i, j \in 1 .. Len(d_tags) : d_tags[i] = d_tags[j] => i = j
  /\ \A t \in stream : t.offset < nitems_read => t \in Stored

StoredInOrder ==
  ordered => /\ d_tags = InOrder(Stored)
             /\ \A s \in Stored, t \in stream \ Stored : Before(s, t)

\* The places of the EOF tags in a list
Eofs(list) == {i \in 1 .. Len(list) : IsEof(list[i])}

\* The offset kept is that of the EOF tag stored last
EofKept ==
  d_eof_offset = IF Eofs(d_tags) = {} THEN -1 ELSE d_tags[Max(Eofs(d_tags))].offset

SignalledAtEof ==
  running => (d_eof_signalled <=> d_eof_offset # -1 /\ nitems_read >= d_eof_offset)

StorageInv ==
  /\ IsOrdered(stream)
  /\ nitems_written \in Nat /\ nitems_read \in Nat /\ nitems_read <= nitems_written
  /\ StoredOnce /\ StoredInOrder /\ EofKept /\ SignalledAtEof

\* The last of the places of either list.
LEMMA MaxIs ==
  ASSUME NEW n \in Nat, NEW S \in SUBSET (1 .. n), NEW m \in S, \A i \in S : i <= m
  PROVE  Max(S) = m
<1>1. Max(S) \in S /\ \A i \in S : i <= Max(S)
  BY LastPlace
<1>2. m \in 1 .. n /\ Max(S) \in 1 .. n
  BY <1>1
<1>3. m <= Max(S) /\ Max(S) <= m
  BY <1>1
<1> QED BY <1>2, <1>3

\* What a call stores: the tags it looks at that are not stored
NewTags(n) == {t \in get_tags_in_range(nitems_read, RangeEnd(n)) : IsNew(t)}

LEMMA NewTagsAre ==
  ASSUME StorageInv, NEW n \in Nat
  PROVE  /\ RangeEnd(n) \in Nat /\ RangeEnd(n) >= nitems_read + n
         /\ NewTags(n) = {t \in stream \ Stored : t.offset < RangeEnd(n)}
         /\ IsOrdered(NewTags(n)) /\ NewTags(n) \cap Stored = {}
         /\ \A t \in stream : t.offset \in Nat
<1>1. LookAhead \in Nat /\ RangeEnd(n) = nitems_read + n + LookAhead /\ nitems_read \in Nat
  BY StorageAssumption DEF RangeEnd, StorageInv
<1>2. \A t \in stream : t.offset \in Nat
  BY DEF StorageInv, IsOrdered, Tag
<1>3. \A t \in stream : IsNew(t) <=> t \notin Stored
  BY DEF IsNew, Stored
<1>4. \A t \in stream \ Stored : nitems_read <= t.offset
  BY <1>1, <1>2 DEF StorageInv, StoredOnce
<1>5. NewTags(n) = {t \in stream \ Stored : t.offset < RangeEnd(n)}
  BY <1>3, <1>4 DEF NewTags, get_tags_in_range
<1>6. NewTags(n) \in SUBSET stream
  BY <1>5
<1>7. IsOrdered(NewTags(n))
  BY <1>6, OrderedPart DEF StorageInv
<1> QED BY <1>1, <1>2, <1>5, <1>7

LEMMA ConcatPlaces ==
  ASSUME NEW U, NEW p \in Seq(U), NEW q \in Seq(U)
  PROVE  /\ Len(p \o q) = Len(p) + Len(q) /\ p \o q \in Seq(U)
         /\ Len(p) \in Nat /\ Len(q) \in Nat
         /\ \A k \in 1 .. Len(p) : k \in 1 .. Len(p \o q) /\ (p \o q)[k] = p[k]
         /\ \A k \in 1 .. Len(q) : /\ Len(p) + k \in 1 .. Len(p \o q)
                                   /\ (p \o q)[Len(p) + k] = q[k]
         /\ \A i \in 1 .. Len(p \o q) :
              i \in 1 .. Len(p) \/ \E k \in 1 .. Len(q) : i = Len(p) + k
<1> DEFINE s == p \o q
<1>1. /\ s \in Seq(U) /\ Len(s) = Len(p) + Len(q) /\ Len(p) \in Nat /\ Len(q) \in Nat
      /\ \A k \in 1 .. Len(p) + Len(q) : s[k] = IF k <= Len(p) THEN p[k] ELSE q[k - Len(p)]
  BY ConcatProperties
<1> HIDE DEF s
<1>2. \A k \in 1 .. Len(p) : k \in 1 .. Len(s) /\ s[k] = p[k]
  BY <1>1
<1>3. ASSUME NEW k \in 1 .. Len(q)
      PROVE  Len(p) + k \in 1 .. Len(s) /\ s[Len(p) + k] = q[k]
  <2>1. /\ Len(p) + k \in 1 .. Len(p) + Len(q) /\ ~ (Len(p) + k <= Len(p))
        /\ Len(p) + k - Len(p) = k
    BY <1>1
  <2>2. s[Len(p) + k] = q[Len(p) + k - Len(p)]
    BY <1>1, <2>1
  <2> QED BY <1>1, <2>1, <2>2
<1>4. ASSUME NEW i \in 1 .. Len(s)
      PROVE  i \in 1 .. Len(p) \/ \E k \in 1 .. Len(q) : i = Len(p) + k
  <2>1. CASE i <= Len(p)
    BY <1>1, <2>1
  <2>2. CASE i > Len(p)
    <3>1. i - Len(p) \in 1 .. Len(q) /\ i = Len(p) + (i - Len(p))
      BY <1>1, <2>2
    <3> QED BY <3>1
  <2> QED BY <1>1, <2>1, <2>2
<1> QED BY <1>1, <1>2, <1>3, <1>4 DEF s

\* The EOF tag stored last, when tags are stored behind the others.
LEMMA EofKeptNext ==
  ASSUME NEW U, d_tags \in Seq(U), NEW new \in Seq(U), EofKept
  PROVE  EofOffset(new) = IF Eofs(d_tags \o new) = {} THEN -1
                          ELSE (d_tags \o new)[Max(Eofs(d_tags \o new))].offset
<1> DEFINE s == d_tags \o new
           l == Len(d_tags)
<1>1. /\ Len(s) \in Nat /\ l \in Nat /\ Len(new) \in Nat
      /\ \A k \in 1 .. l : k \in 1 .. Len(s) /\ s[k] = d_tags[k]
      /\ \A k \in 1 .. Len(new) : l + k \in 1 .. Len(s) /\ s[l + k] = new[k]
      /\ \A i \in 1 .. Len(s) : i \in 1 .. l \/ \E k \in 1 .. Len(new) : i = l + k
  <2>1. s \in Seq(U)
    BY ConcatPlaces
  <2>2. Len(s) \in Nat
    <3> HIDE DEF s
    <3> QED BY <2>1
  <2> QED BY <2>2, ConcatPlaces
<1> HIDE DEF s, l
<1>2. EofOffset(new) = IF Eofs(new) = {} THEN d_eof_offset ELSE new[Max(Eofs(new))].offset
  BY DEF EofOffset, Eofs
<1>3. Eofs(s) \in SUBSET (1 .. Len(s)) /\ Eofs(new) \in SUBSET (1 .. Len(new))
      /\ Eofs(d_tags) \in SUBSET (1 .. l)
  BY DEF Eofs, l
<1>4. CASE Eofs(new) # {}
  <2> DEFINE m == Max(Eofs(new))
  <2>1. m \in Eofs(new) /\ \A i \in Eofs(new) : i <= m
    BY <1>1, <1>3, <1>4, LastPlace
  <2> HIDE DEF m
  <2>2. m \in 1 .. Len(new) /\ IsEof(new[m])
    BY <2>1 DEF Eofs
  <2>3. l + m \in Eofs(s)
    BY <1>1, <2>2 DEF Eofs
  <2>4. ASSUME NEW i \in Eofs(s) PROVE i <= l + m
    <3>1. i \in 1 .. Len(s) /\ IsEof(s[i])
      BY DEF Eofs
    <3>2. CASE i \in 1 .. l
      BY <1>1, <2>2, <3>2
    <3>3. CASE \E k \in 1 .. Len(new) : i = l + k
      <4>1. PICK k \in 1 .. Len(new) : i = l + k
        BY <3>3
      <4>2. k \in Eofs(new)
        BY <1>1, <3>1, <4>1 DEF Eofs
      <4>3. k <= m
        BY <2>1, <4>2
      <4> QED BY <1>1, <2>2, <4>1, <4>3
    <3> QED BY <1>1, <3>1, <3>2, <3>3
  <2>5. Max(Eofs(s)) = l + m
    BY <1>1, <1>3, <2>3, <2>4, MaxIs
  <2>6. s[l + m] = new[m]
    BY <1>1, <2>2
  <2> QED BY <1>2, <1>4, <2>3, <2>5, <2>6 DEF m, s
<1>5. CASE Eofs(new) = {}
  <2>1. Eofs(s) = Eofs(d_tags)
    <3>1. ASSUME NEW i \in Eofs(s) PROVE i \in Eofs(d_tags)
      <4>1. i \in 1 .. Len(s) /\ IsEof(s[i])
        BY DEF Eofs
      <4>2. ~ \E k \in 1 .. Len(new) : i = l + k
        BY <1>1, <1>5, <4>1 DEF Eofs
      <4> QED BY <1>1, <4>1, <4>2 DEF Eofs, l
    <3>2. ASSUME NEW i \in Eofs(d_tags) PROVE i \in Eofs(s)
      BY <1>1 DEF Eofs, l
    <3> QED BY <3>1, <3>2
  <2>2. CASE Eofs(d_tags) = {}
    BY <1>2, <1>5, <2>1, <2>2 DEF EofKept, s
  <2>3. CASE Eofs(d_tags) # {}
    <3> DEFINE m == Max(Eofs(d_tags))
    <3>1. m \in Eofs(d_tags)
      BY <1>1, <1>3, <2>3, LastPlace
    <3> HIDE DEF m
    <3>2. m \in 1 .. l
      BY <1>3, <3>1
    <3>3. s[m] = d_tags[m]
      BY <1>1, <3>2
    <3> QED BY <1>2, <1>5, <2>1, <2>3, <3>3 DEF EofKept, m, s
  <2> QED BY <2>2, <2>3
<1> QED BY <1>4, <1>5

\* A call stores what it looks at and keeps the order.
LEMMA ProcessTagsInv ==
  ASSUME StorageInv, NEW n \in Nat, processTags(n), nitems_read + n <= nitems_written,
         stream' = stream, ordered' = ordered, nitems_read' = nitems_read + n
  PROVE  StoredOnce' /\ StoredInOrder' /\ EofKept'
<1> DEFINE new == InOrder(NewTags(n))
           s   == d_tags \o new
           l   == Len(d_tags)
<1>1. /\ RangeEnd(n) \in Nat /\ RangeEnd(n) >= nitems_read + n
      /\ NewTags(n) = {t \in stream \ Stored : t.offset < RangeEnd(n)}
      /\ IsOrdered(NewTags(n)) /\ NewTags(n) \cap Stored = {}
      /\ \A t \in stream : t.offset \in Nat
  BY NewTagsAre
<1>2. d_tags' = s /\ d_eof_offset' = EofOffset(new)
  BY DEF processTags, NewTags
<1>3. d_tags \in Seq(stream)
  BY DEF StorageInv, StoredOnce
<1>4. /\ new \in Seq(NewTags(n))
      /\ \A i \in 1 .. Len(new) : new[i] \in NewTags(n)
      /\ \A t \in NewTags(n) : \E i \in 1 .. Len(new) : new[i] = t
      /\ \A i, j \in 1 .. Len(new) : new[i] = new[j] => i = j
  BY <1>1, InOrderMembers, InOrderInjective
<1>5. new \in Seq(stream)
  <2>1. NewTags(n) \subseteq stream
    BY <1>1
  <2> HIDE DEF new
  <2> QED BY <1>4, <2>1, SeqMonotonic
<1> HIDE DEF new
<1>6. /\ Len(s) = l + Len(new) /\ s \in Seq(stream) /\ l \in Nat /\ Len(new) \in Nat
      /\ \A k \in 1 .. l : k \in 1 .. Len(s) /\ s[k] = d_tags[k]
      /\ \A k \in 1 .. Len(new) : l + k \in 1 .. Len(s) /\ s[l + k] = new[k]
      /\ \A i \in 1 .. Len(s) : i \in 1 .. l \/ \E k \in 1 .. Len(new) : i = l + k
  BY <1>3, <1>5, ConcatPlaces
<1> HIDE DEF s, l
<1>7. Stored' = Stored \cup NewTags(n)
  <2>1. Stored' = {s[i] : i \in 1 .. Len(s)}
    BY <1>2 DEF Stored
  <2>2. ASSUME NEW i \in 1 .. Len(s) PROVE s[i] \in Stored \cup NewTags(n)
    <3>1. CASE i \in 1 .. l
      BY <1>6, <3>1 DEF Stored, l
    <3>2. CASE \E k \in 1 .. Len(new) : i = l + k
      <4>1. PICK k \in 1 .. Len(new) : i = l + k
        BY <3>2
      <4>2. s[l + k] = new[k]
        BY <1>6
      <4>3. new[k] \in NewTags(n)
        BY <1>4
      <4> QED BY <4>1, <4>2, <4>3
    <3> QED BY <1>6, <3>1, <3>2
  <2>3. ASSUME NEW t \in Stored \cup NewTags(n)
        PROVE  \E i \in 1 .. Len(s) : s[i] = t
    <3>1. CASE t \in Stored
      <4>1. PICK k \in 1 .. l : d_tags[k] = t
        BY <3>1 DEF Stored, l
      <4> QED BY <1>6, <4>1
    <3>2. CASE t \in NewTags(n)
      <4>1. PICK k \in 1 .. Len(new) : new[k] = t
        BY <1>4, <3>2
      <4> QED BY <1>6, <4>1
    <3> QED BY <3>1, <3>2
  <2> QED BY <2>1, <2>2, <2>3
<1>8. StoredOnce'
  <2>1. ASSUME NEW i \in 1 .. Len(s), NEW j \in 1 .. Len(s), s[i] = s[j]
        PROVE  i = j
    <3>1. ASSUME NEW h \in 1 .. l, NEW k \in 1 .. Len(new)
          PROVE  s[h] # s[l + k]
      <4>1. s[h] \in Stored /\ s[l + k] \in NewTags(n)
        BY <1>4, <1>6 DEF Stored, l
      <4> QED BY <1>1, <4>1
    <3>2. CASE i \in 1 .. l /\ j \in 1 .. l
      BY <1>6, <2>1, <3>2 DEF StorageInv, StoredOnce, l
    <3>3. CASE \E h \in 1 .. Len(new) : i = l + h /\ \E k \in 1 .. Len(new) : j = l + k
      BY <1>4, <1>6, <2>1, <3>3
    <3>4. CASE i \in 1 .. l /\ \E k \in 1 .. Len(new) : j = l + k
      BY <2>1, <3>1, <3>4
    <3>5. CASE j \in 1 .. l /\ \E k \in 1 .. Len(new) : i = l + k
      BY <2>1, <3>1, <3>5
    <3> QED BY <1>6, <3>2, <3>3, <3>4, <3>5
  <2>2. ASSUME NEW t \in stream, t.offset < nitems_read + n
        PROVE  t \in Stored'
    <3>1. t.offset < RangeEnd(n)
      BY <1>1, <2>2 DEF StorageInv
    <3> QED BY <1>1, <1>7, <3>1
  <2> QED BY <1>2, <1>6, <2>1, <2>2 DEF StoredOnce
<1>9. StoredInOrder'
  <2> SUFFICES ASSUME ordered
               PROVE  /\ s = InOrder(Stored \cup NewTags(n))
                      /\ \A x \in Stored \cup NewTags(n),
                           t \in stream \ (Stored \cup NewTags(n)) : Before(x, t)
    <3>1. InOrder(Stored') = InOrder(Stored \cup NewTags(n))
      BY <1>7
    <3> QED BY <1>2, <1>7, <3>1 DEF StoredInOrder, InOrder, Before
  <2>1. /\ d_tags = InOrder(Stored)
        /\ \A x \in Stored, t \in stream \ Stored : Before(x, t)
    BY DEF StorageInv, StoredInOrder
  <2>2. IsOrdered(Stored \cup NewTags(n))
    <3>1. Stored \subseteq stream
      BY <1>3, <1>6 DEF Stored, l
    <3>2. Stored \cup NewTags(n) \in SUBSET stream
      BY <1>1, <3>1
    <3> QED BY <3>2, OrderedPart DEF StorageInv
  <2>3. \A x \in Stored, t \in NewTags(n) : Before(x, t)
    BY <1>1, <2>1
  <2>4. s = InOrder(Stored \cup NewTags(n))
    <3>1. InOrder(Stored \cup NewTags(n)) = InOrder(Stored) \o InOrder(NewTags(n))
      BY <2>2, <2>3, InOrderJoined
    <3> QED BY <2>1, <3>1 DEF s, new
  <2>5. \A x \in NewTags(n), t \in stream \ (Stored \cup NewTags(n)) : Before(x, t)
    BY <1>1 DEF Before
  <2> QED BY <2>1, <2>4, <2>5
<1>10. EofKept'
  <2>1. EofOffset(new) = IF Eofs(s) = {} THEN -1 ELSE s[Max(Eofs(s))].offset
    BY <1>3, <1>5, EofKeptNext DEF StorageInv, s
  <2>2. Eofs(d_tags)' = Eofs(s)
    BY <1>2 DEF Eofs, IsEof
  <2> QED BY <1>2, <2>1, <2>2 DEF EofKept
<1> QED BY <1>8, <1>9, <1>10
LEMMA StorageInitInv == StorageInit => StorageInv
<1> SUFFICES ASSUME StorageInit PROVE StorageInv
  OBVIOUS
<1>1. Len(d_tags) = 0 /\ stream = {} /\ d_tags = <<>>
  BY DEF StorageInit
<1>2. Stored = {} /\ Eofs(d_tags) = {}
  BY <1>1 DEF Stored, Eofs
<1>3. IsOrdered(stream)
  BY <1>1, FS_EmptySet DEF IsOrdered
<1>4. StoredOnce
  BY <1>1 DEF StoredOnce
<1>5. StoredInOrder
  <2>1. Cardinality({}) = 0
    BY FS_EmptySet
  <2>2. InOrder({}) = <<>>
    BY <2>1 DEF InOrder
  <2> QED BY <1>1, <1>2, <2>2 DEF StoredInOrder
<1>6. EofKept
  BY <1>2 DEF EofKept, StorageInit
<1> QED BY <1>3, <1>4, <1>5, <1>6 DEF StorageInv, StorageInit, SignalledAtEof

\* A tag that is added is not stored yet, and lies where a call will look for it.
LEMMA AddInv ==
  ASSUME StorageInv, NEW t \in AllTags, add_item_tag(t)
  PROVE  StorageInv'
<1>1. t \in Tag /\ t \notin stream /\ stream' = stream \cup {t}
  <2>1. t \in Tag
    BY StorageAssumption DEF AllTags, Tag
  <2>2. t \notin stream
    <3> SUFFICES ASSUME t \in stream PROVE FALSE
      OBVIOUS
    <3>1. t.num < t.num /\ t.num \in Nat
      BY <2>1 DEF add_item_tag, Tag
    <3> QED BY <3>1
  <2> QED BY <2>1, <2>2 DEF add_item_tag
<1>2. /\ d_tags' = d_tags /\ Stored' = Stored /\ Stored \subseteq stream
      /\ nitems_read' = nitems_read
  <2>1. d_tags' = d_tags /\ nitems_read' = nitems_read
    BY DEF add_item_tag
  <2>2. \A i \in 1 .. Len(d_tags) : d_tags[i] \in stream
    BY DEF StorageInv, StoredOnce
  <2> QED BY <2>1, <2>2 DEF Stored
<1>3. IsOrdered(stream')
  <2>1. IsFiniteSet(stream')
    BY <1>1, FS_AddElement DEF StorageInv, IsOrdered
  <2>2. ASSUME NEW s \in stream PROVE Before(s, t) \/ Before(t, s)
    <3>1. s.offset = t.offset => s.num < t.num
      BY DEF add_item_tag
    <3>2. s.offset \in Nat /\ t.offset \in Nat
      BY <1>1 DEF StorageInv, IsOrdered, Tag
    <3> QED BY <3>1, <3>2 DEF Before
  <2> QED BY <1>1, <2>1, <2>2 DEF StorageInv, IsOrdered
<1>4. StoredOnce'
  <2>1. d_tags \in Seq(stream')
    <3>1. d_tags \in Seq(stream) /\ stream \subseteq stream'
      BY <1>1 DEF StorageInv, StoredOnce
    <3> QED BY <3>1, SeqMonotonic
  <2>2. ~ (t.offset < nitems_read)
    <3>1. nitems_written <= t.offset /\ nitems_read <= nitems_written
      BY DEF StorageInv, add_item_tag
    <3>2. t.offset \in Nat /\ nitems_read \in Nat /\ nitems_written \in Nat
      BY <1>1 DEF StorageInv, Tag
    <3> QED BY <3>1, <3>2
  <2> QED BY <1>1, <1>2, <2>1, <2>2 DEF StorageInv, StoredOnce
<1>5. StoredInOrder'
  <2> SUFFICES ASSUME ordered'
               PROVE  /\ d_tags' = InOrder(Stored)'
                      /\ \A x \in Stored', u \in (stream \cup {t}) \ Stored' : Before(x, u)
    BY <1>1 DEF StoredInOrder, Before
  <2>1. ordered /\ \A s \in stream : Before(s, t)
    BY DEF add_item_tag
  <2>2. d_tags = InOrder(Stored) /\ \A x \in Stored, u \in stream \ Stored : Before(x, u)
    BY <2>1 DEF StorageInv, StoredInOrder
  <2>3. InOrder(Stored)' = InOrder(Stored)
    BY <1>2 DEF InOrder, Before
  <2> QED BY <1>2, <2>1, <2>2, <2>3
<1>6. EofKept' /\ SignalledAtEof'
  BY DEF StorageInv, EofKept, Eofs, IsEof, SignalledAtEof, add_item_tag
<1> QED BY <1>3, <1>4, <1>5, <1>6 DEF StorageInv, add_item_tag

LEMMA ProduceInv ==
  ASSUME StorageInv, NEW n \in 1 .. MaxWrite, produce(n)
  PROVE  StorageInv'
<1>1. n \in Nat /\ nitems_written' \in Nat /\ nitems_read' <= nitems_written'
  BY StorageAssumption DEF StorageInv, produce
<1>2. UNCHANGED <<stream, ordered, nitems_read, d_tags, d_eof_offset, d_eof_signalled, running>>
  BY DEF produce
<1>3. Stored' = Stored /\ Eofs(d_tags)' = Eofs(d_tags)
  BY <1>2 DEF Stored, Eofs, IsEof
<1>4. InOrder(Stored)' = InOrder(Stored)
  BY <1>3 DEF InOrder, Before
<1>5. StoredOnce' /\ StoredInOrder'
  BY <1>2, <1>3, <1>4 DEF StorageInv, StoredOnce, StoredInOrder, Before
<1>6. EofKept' /\ SignalledAtEof'
  BY <1>2, <1>3 DEF StorageInv, EofKept, SignalledAtEof
<1> QED BY <1>1, <1>2, <1>5, <1>6 DEF StorageInv, IsOrdered, Before

LEMMA WorkInv ==
  ASSUME StorageInv, NEW n \in 1 .. MaxWrite, general_work(n)
  PROVE  StorageInv'
<1>1. n \in Nat
  BY StorageAssumption
<1>2. StoredOnce' /\ StoredInOrder' /\ EofKept'
  BY <1>1, ProcessTagsInv DEF general_work
<1>3. /\ nitems_written' \in Nat /\ nitems_read' \in Nat /\ nitems_read' <= nitems_written'
      /\ stream' = stream
  BY <1>1 DEF StorageInv, general_work
<1>4. SignalledAtEof'
  BY DEF SignalledAtEof, general_work, ReachesEof
<1> QED BY <1>2, <1>3, <1>4 DEF StorageInv, IsOrdered, Before

LEMMA StopInv ==
  ASSUME StorageInv, stop
  PROVE  StorageInv'
<1>1. 0 \in Nat /\ nitems_read + 0 = nitems_read /\ nitems_read <= nitems_written
  BY DEF StorageInv
<1>2. StoredOnce' /\ StoredInOrder' /\ EofKept'
  BY <1>1, ProcessTagsInv DEF stop
<1> QED BY <1>2 DEF StorageInv, stop, IsOrdered, Before, SignalledAtEof

LEMMA StorageInvariance == StorageSpec => []StorageInv
<1>1. StorageInv /\ [StorageNext]_storageVars => StorageInv'
  <2> SUFFICES ASSUME StorageInv, [StorageNext]_storageVars
               PROVE  StorageInv'
    OBVIOUS
  <2>1. CASE UNCHANGED storageVars
    <3>1. UNCHANGED <<stream, ordered, nitems_written, nitems_read, d_tags, d_eof_offset,
                      d_eof_signalled, running>>
      BY <2>1 DEF storageVars
    <3>2. Stored' = Stored /\ Eofs(d_tags)' = Eofs(d_tags)
      BY <3>1 DEF Stored, Eofs, IsEof
    <3>3. InOrder(Stored)' = InOrder(Stored)
      BY <3>2 DEF InOrder, Before
    <3>4. StoredOnce' /\ StoredInOrder'
      BY <3>1, <3>2, <3>3 DEF StorageInv, StoredOnce, StoredInOrder, Before
    <3>5. EofKept' /\ SignalledAtEof'
      BY <3>1, <3>2 DEF StorageInv, EofKept, SignalledAtEof
    <3>6. IsOrdered(stream)'
      BY <3>1 DEF StorageInv, IsOrdered, Before
    <3> QED BY <3>1, <3>4, <3>5, <3>6 DEF StorageInv
  <2>2. CASE StorageNext
    BY <2>2, AddInv, ProduceInv, WorkInv, StopInv DEF StorageNext
  <2> QED BY <2>1, <2>2
<1> QED BY <1>1, StorageInitInv, PTL DEF StorageSpec

\* Each tag is stored once, and none of a consumed item is missed, in whatever
\* order and how early or late upstream adds the tags of its call.
THEOREM StorageEveryTagOnce == StorageSpec => []EveryTagOnce
<1>1. StorageInv => EveryTagOnce
  BY DEF StorageInv, StoredOnce, Stored, EveryTagOnce
<1> QED BY <1>1, StorageInvariance, PTL

\* If upstream adds the tags in the order of the stream, the stored tags are the
\* first ones of the stream in its order (processTags).
THEOREM StorageTagsInStreamOrder == StorageSpec => []TagsInStreamOrder
<1>1. StorageInv => TagsInStreamOrder
  <2> SUFFICES ASSUME StorageInv, ordered PROVE IsPrefix(d_tags, InOrder(stream))
    BY DEF TagsInStreamOrder
  <2> DEFINE Rest == stream \ Stored
             p == InOrder(Stored)
             q == InOrder(Rest)
  <2>1. d_tags = p /\ \A s \in Stored, t \in Rest : Before(s, t)
    BY DEF StorageInv, StoredInOrder
  <2>2. stream = Stored \cup Rest
    BY DEF StorageInv, StoredOnce, Stored
  <2>3. IsOrdered(Stored) /\ IsOrdered(Rest) /\ IsOrdered(Stored \cup Rest)
    <3>1. Stored \in SUBSET stream /\ Rest \in SUBSET stream
      BY <2>2
    <3> QED BY <2>2, <3>1, OrderedPart DEF StorageInv
  <2>4. InOrder(stream) = p \o q
    BY <2>1, <2>2, <2>3, InOrderJoined
  <2>5. p \in Seq(stream) /\ q \in Seq(stream)
    <3>1. p \in Seq(Stored) /\ q \in Seq(Rest)
      BY <2>3, InOrderFacts
    <3> QED BY <2>2, <3>1, SeqMonotonic
  <2> HIDE DEF p, q
  <2>6. Len(p) <= Len(p \o q) /\ SubSeq(p, 1, Len(p)) = p /\ SubSeq(p \o q, 1, Len(p)) = p
    BY <2>5, ConcatSimplifications
  <2> QED BY <2>1, <2>4, <2>6 DEF IsPrefix
<1> QED BY <1>1, StorageInvariance, PTL

\* finished() is true when the block has consumed what is before the EOF tag
\* stored last, and not before (general_work).
THEOREM StorageFinishedAtEof == StorageSpec => []FinishedAtEof
<1>1. StorageInv => FinishedAtEof
  <2> SUFFICES ASSUME StorageInv, running
               PROVE  d_eof_signalled <=> /\ Eofs(d_tags) # {}
                                          /\ d_tags[Max(Eofs(d_tags))].offset <= nitems_read
    BY DEF FinishedAtEof, Eofs
  <2>1. d_eof_signalled <=> d_eof_offset # -1 /\ nitems_read >= d_eof_offset
    BY DEF StorageInv, SignalledAtEof
  <2>2. CASE Eofs(d_tags) = {}
    BY <2>1, <2>2 DEF StorageInv, EofKept
  <2>3. CASE Eofs(d_tags) # {}
    <3> DEFINE t == d_tags[Max(Eofs(d_tags))]
    <3>1. Len(d_tags) \in Nat /\ Eofs(d_tags) \in SUBSET (1 .. Len(d_tags))
      BY DEF StorageInv, StoredOnce, Eofs
    <3>2. Max(Eofs(d_tags)) \in 1 .. Len(d_tags)
      BY <2>3, <3>1, LastPlace
    <3>3. t \in stream
      <4> HIDE DEF Max
      <4> QED BY <3>2 DEF StorageInv, StoredOnce
    <3>4. d_eof_offset = t.offset
      BY <2>3 DEF StorageInv, EofKept
    <3> HIDE DEF t
    <3>5. t.offset \in Nat /\ nitems_read \in Nat
      BY <3>3 DEF StorageInv, IsOrdered, Tag
    <3>6. d_eof_signalled <=> t.offset <= nitems_read
      BY <2>1, <3>4, <3>5
    <3> QED BY <2>3, <3>6 DEF t
  <2> QED BY <2>2, <2>3
<1> QED BY <1>1, StorageInvariance, PTL
=============================================================================
