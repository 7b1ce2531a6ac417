---------------------- MODULE AmbiguityResolverProofs ----------------------
(***************************************************************************)
(* Proofs about AmbiguityResolver, for all lengths of symbol, marker and   *)
(* frame, every stream, and every division of it into calls.               *)
(*                                                                         *)
(* ResolverInv: the message buffer holds the bits that come before the     *)
(* first unused one (BufferBits), and only whole symbols are consumed      *)
(* (WholeSymbols, OffsetBits); the bookkeeping of tags refers to tags, and *)
(* what has been sent are whole frames (SentInv).  From it follow the step *)
(* simulation of the scanner, in which ScanNext is the first bit that the  *)
(* scanner has not dealt with, and TimesInv: how far tags have been read   *)
(* and which may be missing, from which the time of a frame follows.       *)
(***************************************************************************)
EXTENDS AmbiguityResolver, WellFoundedInduction, TLAPS

-----------------------------------------------------------------------------
(* Whole symbols *)

\* Division by the bits of a symbol.
LEMMA DivMod ==
  ASSUME NEW n \in Nat
  PROVE  n \div LdM \in Nat /\ n % LdM \in 0 .. LdM - 1
         /\ n = (n \div LdM) * LdM + (n % LdM)
BY ResolverAssumption

\* A multiple of the bits of a symbol has no rest.
LEMMA Multiple == ASSUME NEW k \in Nat PROVE k * LdM \in Nat /\ (k * LdM) % LdM = 0
BY ResolverAssumption

\* The whole symbols of n bits, and the rest.
LEMMA LowerMul ==
  ASSUME NEW n \in Nat
  PROVE  /\ get_lower_mul(n) \in Nat /\ get_lower_mul(n) <= n
         /\ get_lower_mul(n) % LdM = 0
         /\ n % LdM \in 0 .. LdM - 1 /\ n = get_lower_mul(n) + (n % LdM)
BY ResolverAssumption, DivMod, Multiple DEF get_lower_mul

\* They are the largest number of whole symbols that is not above n.
LEMMA LowerLargest ==
  ASSUME NEW n \in Nat, NEW m \in Nat, m % LdM = 0, m <= n
  PROVE  m <= get_lower_mul(n)
<1> DEFINE q == n \div LdM
           k == m \div LdM
<1>1. q \in Nat /\ k \in Nat /\ n < q * LdM + LdM /\ m = k * LdM
  BY DivMod, ResolverAssumption
<1>2. get_lower_mul(n) = q * LdM
  BY DEF get_lower_mul
<1> HIDE DEF q, k
<1>3. k <= q
  <2> SUFFICES ASSUME k >= q + 1 PROVE FALSE
    BY <1>1
  <2>1. k * LdM >= (q + 1) * LdM
    BY <1>1, ResolverAssumption
  <2> QED BY <1>1, <2>1, ResolverAssumption
<1> QED BY <1>1, <1>2, <1>3, ResolverAssumption

\* The symbols that n bits touch.
LEMMA UpperMul ==
  ASSUME NEW n \in Nat
  PROVE  /\ get_upper_mul(n) \in Nat /\ get_upper_mul(n) % LdM = 0
         /\ n <= get_upper_mul(n) /\ get_upper_mul(n) < n + LdM
<1>1. n + LdM - 1 \in Nat
  BY ResolverAssumption
<1> QED BY <1>1, DivMod, Multiple, ResolverAssumption DEF get_upper_mul

\* Whole symbols put together are whole symbols.
LEMMA WholeSum ==
  ASSUME NEW m \in Nat, NEW n \in Nat, m % LdM = 0, n % LdM = 0
  PROVE  (m + n) % LdM = 0
<1> DEFINE q == m \div LdM
           k == n \div LdM
<1>1. q \in Nat /\ k \in Nat /\ m = q * LdM /\ n = k * LdM
  BY DivMod, ResolverAssumption
<1> HIDE DEF q, k
<1>2. m + n = (q + k) * LdM
  BY <1>1, ResolverAssumption
<1> QED BY <1>1, <1>2, Multiple

\* More than no whole symbol is a symbol.
LEMMA WholePositive ==
  ASSUME NEW m \in Nat, m % LdM = 0, m > 0
  PROVE  m >= LdM
BY ResolverAssumption, DivMod

\* They are the smallest number of whole symbols that is not below n.
LEMMA UpperSmallest ==
  ASSUME NEW n \in Nat, NEW m \in Nat, m % LdM = 0, n <= m
  PROVE  get_upper_mul(n) <= m
<1>1. n + LdM - 1 \in Nat /\ get_upper_mul(n) = get_lower_mul(n + LdM - 1)
  BY ResolverAssumption DEF get_upper_mul, get_lower_mul
<1>2. CASE get_upper_mul(n) > m
  <2>1. get_upper_mul(n) < n + LdM /\ get_upper_mul(n) % LdM = 0 /\ get_upper_mul(n) \in Nat
    BY UpperMul
  <2> DEFINE u == get_upper_mul(n)
             q == m \div LdM
             k == u \div LdM
  <2>2. q \in Nat /\ k \in Nat /\ m = q * LdM /\ u = k * LdM
    BY <2>1, DivMod, ResolverAssumption
  <2>3. u > m /\ u < m + LdM
    BY <1>2, <2>1, ResolverAssumption
  <2> HIDE DEF u, q, k
  <2>4. k >= q + 1
    <3> SUFFICES ASSUME k <= q PROVE FALSE
      BY <2>2
    <3> QED BY <2>2, <2>3, ResolverAssumption
  <2> QED BY <2>2, <2>3, <2>4, ResolverAssumption
<1> QED BY <1>2, UpperMul

\* The bits that a search needs and takes at most are whole symbols; they have
\* room for the ASM and a symbol more.
LEMMA SearchLengths ==
  /\ SEARCH_LEN_MIN \in Nat /\ SEARCH_LEN_MIN >= AsmLen + LdM /\ SEARCH_LEN_MIN % LdM = 0
  /\ SEARCH_LEN_MAX \in Nat /\ SEARCH_LEN_MAX >= SEARCH_LEN_MIN /\ SEARCH_LEN_MAX % LdM = 0
<1>1. /\ AsmLen + LdM \in Nat /\ FrameLen + 2 * AsmLen - 1 \in Nat
      /\ AsmLen + LdM <= FrameLen + 2 * AsmLen - 1
  BY ResolverAssumption
<1>2. AsmLen + LdM <= SEARCH_LEN_MAX
  BY <1>1, UpperMul DEF SEARCH_LEN_MAX
<1> QED BY <1>1, <1>2, UpperMul, UpperSmallest DEF SEARCH_LEN_MIN, SEARCH_LEN_MAX
-----------------------------------------------------------------------------
(* The invariant *)

\* The first bit that has not been used, and the first bit of the frame whose
\* bits are in the message buffer.
End   == base + offset_bits
Begin == End - Len(msg_buffer)

\* The call: mode and counters of general_work.
CallBits ==
  /\ mode \in {"idle", "work", "stopped"}
  /\ nitems_read \in Nat /\ num_input \in Nat /\ num_consumed \in Nat
  /\ num_consumed <= num_input /\ nitems_read + num_input <= StreamLen
  /\ mode # "work" => num_consumed = 0 /\ num_input = 0

\* Whole symbols are consumed, and the bits used beyond them are of one symbol
\* of the input.
WholeSymbols == base % LdM = 0
OffsetBits   == offset_bits \in 0 .. LdM - 1 /\ End <= StreamLen

\* The lock.
LockBits ==
  /\ state \in {"SEARCH", "LOCK"} /\ msg_buffer_fill \in BOOLEAN
  /\ count \in 0 .. Threshold
  /\ locked_on_stream \in Streams

\* The message buffer is empty between frames.
BetweenFrames == state = "SEARCH" \/ ~ msg_buffer_fill => msg_buffer = <<>>

\* The message buffer holds the bits before End.
BufferBits ==
  /\ msg_buffer \in Seq(0 .. StreamLen - 1) /\ Len(msg_buffer) < FrameLen
  /\ BetweenFrames
  /\ Begin >= 0
  /\ \A k \in 1 .. Len(msg_buffer) : msg_buffer[k] = Begin + k - 1

\* The state but for the tags.
BitsInv == CallBits /\ WholeSymbols /\ OffsetBits /\ LockBits /\ BufferBits

\* What the tag bookkeeping refers to are tags.
TagsOf(t) ==
  /\ t.lastupdate \in Nat /\ t.read \in SUBSET rx_time
  /\ t.last_rx_time \in t.read \cup {NoTag}
  /\ t.last_rx_time = NoTag => t.read = {}

TagsRead == rx_time \in SUBSET (0 .. StreamLen - 1) /\ TagsOf(TagState)

\* What has been sent: whole frames, and EOF at the end.
SentInv ==
  /\ out \in Seq(FrameMessage \cup {EOF})
  /\ mode = "stopped" => out # <<>>
  /\ \A i \in 1 .. Len(Frames) :
       /\ Frames[i] \in FrameMessage
       /\ Frames[i].data = [k \in 1 .. FrameLen |-> Frames[i].offset + k - 1]

ResolverInv == BitsInv /\ TagsRead /\ SentInv

\* The first position of the next update.
NextTag(n, t) == Larger(n, t.lastupdate + 1)

\* Of the tags before the next update all but the skipped ones have been read,
\* and none of them is after the last one that was remembered.
Tidy(n, t) ==
  /\ \A p \in rx_time : p < NextTag(n, t) => p \in t.read \cup t.skipped
  /\ \A p \in t.read : p > t.last_rx_time => p >= NextTag(n, t) \/ p \in t.skipped

\* How far tags have been read: not beyond the symbol that is being used, nor
\* the end of the frame that is being filled.
ReadSoFar ==
  /\ state = "SEARCH" => \A p \in tags_read : p < base + LdM
  /\ state = "LOCK" => \A p \in tags_read : p < Begin + FrameLen
  /\ state = "LOCK" /\ ~ msg_buffer_fill => \A p \in tags_read : p < End

\* The frame f was given a tag before its end, and the last one before it, and
\* a time that is right if the tag is not behind its first bit.
TimeOfFrame(f, X) ==
  f.reference # NoTag =>
    /\ f.reference < f.offset + FrameLen
    /\ f.reference \in rx_time
    /\ f.reference <= f.offset => f.time = f.offset
    /\ \A p \in rx_time : p < f.offset => p <= f.reference \/ p \in X

TagsTidy   == Tidy(nitems_read, TagState)
FrameTimes == \A i \in 1 .. Len(Frames) : TimeOfFrame(Frames[i], skipped)

TimesInv == TagsTidy /\ ReadSoFar /\ FrameTimes

-----------------------------------------------------------------------------
(* The bits *)

\* What the proofs need of the constants.
LEMMA Lengths ==
  /\ LdM \in Nat /\ LdM > 0 /\ AsmLen \in Nat /\ AsmLen > 0
  /\ FrameLen \in Nat /\ FrameLen > LdM /\ StreamLen \in Nat /\ Threshold \in Nat
BY ResolverAssumption

USE Lengths

\* The bits that are left in a call.
LEMMA LeftBase ==
  ASSUME BitsInv
  PROVE  /\ left \in Nat /\ base \in Nat /\ base + left = nitems_read + num_input
         /\ base + left <= StreamLen /\ offset_bits \in Nat
         /\ End \in Nat /\ End = base + offset_bits
         /\ Begin \in Nat /\ Len(msg_buffer) \in Nat /\ End = Begin + Len(msg_buffer)
<1>1. /\ left \in Nat /\ base \in Nat /\ base + left = nitems_read + num_input
      /\ base + left <= StreamLen /\ offset_bits \in Nat
  BY DEF BitsInv, CallBits, OffsetBits, left, base
<1>2. Len(msg_buffer) \in Nat /\ Begin >= 0
  BY DEF BitsInv, BufferBits
<1>3. End \in Nat /\ End = base + offset_bits
  BY <1>1 DEF End
<1> QED BY <1>1, <1>2, <1>3 DEF Begin

\* Whole symbols that are left in the call can be consumed.
LEMMA Consume ==
  ASSUME BitsInv, mode = "work", NEW k \in Nat, k % LdM = 0, k <= left,
         num_consumed' = num_consumed + k, UNCHANGED callVars
  PROVE  CallBits' /\ WholeSymbols' /\ base' = base + k /\ left' = left - k
<1>1. base \in Nat /\ base % LdM = 0
  BY LeftBase DEF BitsInv, WholeSymbols
<1>2. base' = base + k /\ left' = left - k
  BY <1>1 DEF BitsInv, CallBits, base, left, callVars
<1>3. WholeSymbols'
  BY <1>1, <1>2, WholeSum DEF WholeSymbols
<1>4. CallBits'
  BY <1>2 DEF BitsInv, CallBits, callVars, left
<1> QED BY <1>2, <1>3, <1>4

\* And then the offset is that of the last bit used.
LEMMA Advance ==
  ASSUME BitsInv, mode = "work", NEW n \in Nat, n <= left,
         num_consumed' = num_consumed + get_lower_mul(n), offset_bits' = n % LdM,
         UNCHANGED callVars
  PROVE  /\ CallBits' /\ WholeSymbols' /\ OffsetBits'
         /\ base' = base + get_lower_mul(n) /\ left' = left - get_lower_mul(n)
         /\ End' = base + n /\ offset_bits' <= left'
<1> DEFINE k == get_lower_mul(n)
           r == n % LdM
<1>1. k \in Nat /\ k <= n /\ r \in 0 .. LdM - 1 /\ n = k + r /\ offset_bits' = r
  BY LowerMul
<1>2. k % LdM = 0 /\ num_consumed' = num_consumed + k
  BY LowerMul
<1> HIDE DEF k, r
<1>3. k \in Nat /\ k <= left
  <2>1. left \in Nat /\ k \in Nat /\ k <= n
    BY <1>1, LeftBase
  <2> QED BY <2>1
<1>4. CallBits' /\ WholeSymbols' /\ base' = base + k /\ left' = left - k
  BY <1>2, <1>3, Consume
<1>5. base \in Nat /\ left \in Nat /\ base + left <= StreamLen
  BY LeftBase
<1>6. End' = base' + offset_bits'
  BY DEF End
<1>7. End' = base + n
  BY <1>1, <1>4, <1>5, <1>6
<1>8. offset_bits' \in 0 .. LdM - 1 /\ offset_bits' <= left' /\ End' <= StreamLen
  BY <1>1, <1>4, <1>5, <1>7
<1> QED BY <1>4, <1>7, <1>8 DEF k, OffsetBits

\* Positions are sums of naturals.
LEMMA SumNat == ASSUME NEW m \in Nat, NEW n \in Nat PROVE m + n \in Nat
OBVIOUS

\* Nothing is taken off.
LEMMA LessNothing == ASSUME NEW n \in Nat PROVE n - 0 = n
OBVIOUS

\* When the bits that are used do not change, or the message buffer is empty,
\* the buffer is as it has to be.
LEMMA BufferSame ==
  ASSUME BitsInv, CallBits', OffsetBits', BetweenFrames',
         msg_buffer' = <<>> \/ (msg_buffer' = msg_buffer /\ End' = End)
  PROVE  BufferBits'
<1>1. End' \in Nat
  <2>1. nitems_read' \in Nat /\ num_consumed' \in Nat /\ offset_bits' \in Nat
    BY DEF CallBits, OffsetBits
  <2>2. base' \in Nat
    BY <2>1, SumNat DEF base
  <2> QED BY <2>1, <2>2, SumNat DEF End
<1>2. CASE msg_buffer' = <<>>
  <2>1. msg_buffer' \in Seq(0 .. StreamLen - 1) /\ Len(msg_buffer') = 0
    BY <1>2
  <2>2. Begin' = End'
    BY <1>1, <2>1, LessNothing DEF Begin
  <2> QED BY <1>1, <2>1, <2>2 DEF BufferBits
<1>3. CASE msg_buffer' = msg_buffer /\ End' = End
  <2>1. Begin' = Begin
    BY <1>3 DEF Begin
  <2> QED BY <1>3, <2>1 DEF BitsInv, BufferBits
<1> QED BY <1>2, <1>3

\* A search takes whole symbols, enough for the ASM and one symbol more.
LEMMA SearchLen ==
  ASSUME BitsInv, Searching
  PROVE  /\ search_len \in Nat /\ search_len % LdM = 0
         /\ search_len >= AsmLen + LdM /\ search_len <= left /\ search_len <= SEARCH_LEN_MAX
<1> DEFINE n == Smaller(left, SEARCH_LEN_MAX)
<1>1. n \in Nat /\ n >= SEARCH_LEN_MIN /\ n <= left /\ n <= SEARCH_LEN_MAX
  BY LeftBase, SearchLengths DEF Searching, Smaller
<1> HIDE DEF n
<1>2. get_lower_mul(n) >= SEARCH_LEN_MIN
  BY <1>1, SearchLengths, LowerLargest
<1>3. search_len = get_lower_mul(n)
  BY DEF search_len, n
<1>4. search_len \in Nat /\ search_len <= n /\ search_len % LdM = 0
  BY <1>1, <1>3, LowerMul
<1>5. search_len >= SEARCH_LEN_MIN
  BY <1>2, <1>3
<1> QED BY <1>1, <1>4, <1>5, LeftBase, SearchLengths

\* A search that finds nothing consumes a symbol at least.
LEMMA SkipSome ==
  ASSUME BitsInv, Searching
  PROVE  /\ SearchSkip \in Nat /\ SearchSkip % LdM = 0 /\ SearchSkip >= LdM
         /\ SearchSkip <= search_len - (AsmLen - 1)
<1> DEFINE n == search_len - (AsmLen - 1)
<1>1. n \in Nat /\ n >= LdM
  BY SearchLen
<1>2. LdM \in Nat /\ LdM % LdM = 0
  OBVIOUS
<1> HIDE DEF n
<1>3. get_lower_mul(n) >= LdM
  BY <1>1, <1>2, LowerLargest
<1> QED BY <1>1, <1>3, LowerMul DEF SearchSkip, n

\* Filling takes a bit at least, no more than the message lacks, and no more
\* than the whole symbols of the call hold; short of the message, it takes all
\* the bits of the last symbol.
LEMMA FillSizes ==
  ASSUME BitsInv, Locked, msg_buffer_fill
  PROVE  /\ missing \in Nat /\ missing = FrameLen - Len(msg_buffer)
         /\ to_copy \in Nat /\ to_copy >= 1 /\ to_copy <= missing
         /\ to_copy + offset_bits <= left
         /\ to_copy < missing => (to_copy + offset_bits) % LdM = 0
<1> DEFINE low == get_lower_mul(left)
           up  == get_upper_mul(missing + offset_bits)
           to_buffer == Smaller(low, up)
<1>1. left \in Nat /\ offset_bits \in 0 .. LdM - 1 /\ offset_bits \in Nat
  BY LeftBase DEF BitsInv, OffsetBits
<1>2. missing \in Nat /\ missing >= 1 /\ missing + offset_bits \in Nat
  BY <1>1 DEF missing, BitsInv, BufferBits
<1>3. left >= LdM
  <2>1. get_upper_mul(1) \in Nat /\ get_upper_mul(1) % LdM = 0 /\ get_upper_mul(1) >= 1
    BY UpperMul
  <2>2. get_upper_mul(1) >= LdM
    BY <2>1, WholePositive
  <2>3. left >= get_upper_mul(1)
    BY DEF Locked, check_len
  <2> QED BY <1>1, <2>1, <2>2, <2>3
<1>4. low \in Nat /\ low % LdM = 0 /\ low <= left /\ low >= LdM
  <2>1. LdM \in Nat /\ LdM % LdM = 0
    OBVIOUS
  <2> QED BY <1>1, <1>3, <2>1, LowerMul, LowerLargest
<1>5. up \in Nat /\ up % LdM = 0 /\ up >= LdM
  <2>1. up \in Nat /\ up % LdM = 0 /\ up >= missing + offset_bits
    BY <1>2, UpperMul
  <2> HIDE DEF up
  <2>2. up > 0
    BY <1>1, <1>2, <2>1
  <2> QED BY <2>1, <2>2, WholePositive
<1>6. to_copy = Smaller(missing, to_buffer - offset_bits)
  BY DEF to_copy
<1> HIDE DEF low, up
<1>7. to_buffer \in Nat /\ to_buffer % LdM = 0 /\ to_buffer >= LdM /\ to_buffer <= left
  BY <1>1, <1>4, <1>5 DEF Smaller
<1> HIDE DEF to_buffer
<1>8. to_copy \in Nat /\ to_copy >= 1 /\ to_copy <= missing /\ to_copy + offset_bits <= to_buffer
  BY <1>1, <1>2, <1>6, <1>7 DEF Smaller
<1>9. to_copy < missing => to_copy + offset_bits = to_buffer
  BY <1>1, <1>2, <1>6, <1>7 DEF Smaller
<1> QED BY <1>1, <1>2, <1>7, <1>8, <1>9 DEF missing

\* The message buffer after the bits have been copied.
Filled == msg_buffer \o [i \in 1 .. to_copy |-> base + offset_bits + i - 1]

\* It holds the bits from the same position on.
LEMMA FilledBits ==
  ASSUME BitsInv, Locked, msg_buffer_fill
  PROVE  /\ Filled \in Seq(0 .. StreamLen - 1) /\ Len(Filled) = Len(msg_buffer) + to_copy
         /\ Len(Filled) <= FrameLen /\ Begin \in Nat
         /\ \A k \in 1 .. Len(Filled) : Filled[k] = Begin + k - 1
<1> DEFINE copied == [i \in 1 .. to_copy |-> base + offset_bits + i - 1]
<1>1. /\ msg_buffer \in Seq(0 .. StreamLen - 1) /\ Len(msg_buffer) \in Nat
      /\ Begin \in Nat /\ base + offset_bits = Begin + Len(msg_buffer)
      /\ \A k \in 1 .. Len(msg_buffer) : msg_buffer[k] = Begin + k - 1
  BY LeftBase DEF BitsInv, BufferBits
<1>2. to_copy \in Nat /\ Len(msg_buffer) + to_copy <= FrameLen
  BY <1>1, FillSizes
<1>3. Begin + Len(msg_buffer) + to_copy <= StreamLen
  BY <1>1, <1>2, FillSizes, LeftBase
<1>4. copied \in Seq(0 .. StreamLen - 1) /\ Len(copied) = to_copy
  BY <1>1, <1>2, <1>3
<1>5. \A i \in 1 .. to_copy : copied[i] = Begin + Len(msg_buffer) + i - 1
  BY <1>1, <1>2
<1> HIDE DEF copied
<1>6. Filled = msg_buffer \o copied
  BY DEF Filled, copied
<1>7. Filled \in Seq(0 .. StreamLen - 1) /\ Len(Filled) = Len(msg_buffer) + to_copy
  <2>1. msg_buffer \in Seq(0 .. StreamLen - 1) /\ copied \in Seq(0 .. StreamLen - 1)
    BY <1>1, <1>4
  <2> DEFINE S == 0 .. StreamLen - 1
  <2>2. msg_buffer \in Seq(S) /\ copied \in Seq(S)
    BY <2>1
  <2> HIDE DEF S
  <2>3. msg_buffer \o copied \in Seq(S) /\ Len(msg_buffer \o copied) = Len(msg_buffer) + Len(copied)
    BY <2>2
  <2> QED BY <1>4, <1>6, <2>3 DEF S
<1>8. ASSUME NEW k \in 1 .. Len(Filled)
      PROVE  Filled[k] = Begin + k - 1
  <2>1. CASE k <= Len(msg_buffer)
    BY <1>1, <1>4, <1>6, <1>7, <2>1
  <2>2. CASE k > Len(msg_buffer)
    <3>1. Filled[k] = copied[k - Len(msg_buffer)] /\ k - Len(msg_buffer) \in 1 .. to_copy
      BY <1>1, <1>2, <1>4, <1>6, <1>7, <2>2
    <3> QED BY <1>1, <1>2, <1>5, <3>1
  <2> QED BY <1>1, <1>2, <1>7, <2>1, <2>2
<1> QED BY <1>1, <1>2, <1>7, <1>8

\* What a filling step sets.
LEMMA FillParts ==
  ASSUME Fill
  PROVE  /\ Locked /\ mode = "work" /\ state = "LOCK" /\ msg_buffer_fill
         /\ UNCHANGED inputVars /\ UNCHANGED callVars /\ UNCHANGED syncVars
         /\ num_consumed' = num_consumed + Taken
         /\ offset_bits' = (to_copy + offset_bits) % LdM
BY DEF Fill, Locked

\* Filling uses the bits that are copied.
LEMMA FillMoves ==
  ASSUME BitsInv, Fill
  PROVE  /\ CallBits' /\ WholeSymbols' /\ OffsetBits'
         /\ base' = base + Taken /\ left' = left - Taken
         /\ End' = End + to_copy /\ offset_bits' <= left'
<1> DEFINE n == to_copy + offset_bits
<1>1. n \in Nat /\ n <= left /\ Taken = get_lower_mul(n)
  <2>1. Locked /\ msg_buffer_fill
    BY FillParts
  <2>2. to_copy \in Nat /\ offset_bits \in Nat /\ n <= left
    BY <2>1, FillSizes, LeftBase
  <2> QED BY <2>2 DEF Taken
<1>2. num_consumed' = num_consumed + get_lower_mul(n) /\ offset_bits' = n % LdM
      /\ mode = "work" /\ UNCHANGED callVars
  BY FillParts DEF Taken
<1>3. base + n = End + to_copy
  BY <1>1, FillParts, LeftBase, FillSizes
<1> HIDE DEF n
<1> QED BY <1>1, <1>2, <1>3, Advance

\* A call begins, or ends, at the bits that are used.
LEMMA BitsCall ==
  ASSUME BitsInv, (\E n \in 1 .. MaxRead : Work(n)) \/ WorkReturn \/ Stop
  PROVE  BitsInv' /\ base' = base /\ End' = End
<1>1. CallBits' /\ base' = base
  <2>1. ASSUME NEW n \in 1 .. MaxRead, Work(n)
        PROVE  CallBits' /\ base' = base
    BY <2>1 DEF Work, BitsInv, CallBits, base
  <2>2. ASSUME WorkReturn
        PROVE  CallBits' /\ base' = base
    BY <2>2, LeftBase DEF WorkReturn, CallBits, base
  <2>3. ASSUME Stop
        PROVE  CallBits' /\ base' = base
    BY <2>3 DEF Stop, BitsInv, CallBits, base, fillVars
  <2> QED BY <2>1, <2>2, <2>3
<1>2. UNCHANGED <<state, count, locked_on_stream, offset_bits, msg_buffer, msg_buffer_fill>>
  BY DEF Work, WorkReturn, Stop, syncVars, fillVars
<1>3. End' = End
  BY <1>1, <1>2 DEF End
<1>4. WholeSymbols' /\ OffsetBits' /\ LockBits'
  BY <1>1, <1>2, <1>3 DEF BitsInv, WholeSymbols, OffsetBits, LockBits
<1>5. BufferBits'
  <2>1. BetweenFrames'
    BY <1>2 DEF BitsInv, BufferBits, BetweenFrames
  <2> QED BY <1>1, <1>2, <1>3, <1>4, <2>1, BufferSame
<1> QED BY <1>1, <1>3, <1>4, <1>5 DEF BitsInv

\* A search that finds the ASM uses the bits up to its end.
LEMMA BitsFound ==
  ASSUME BitsInv, NEW o \in 0 .. SEARCH_LEN_MAX, NEW a \in Streams, SearchFound(o, a)
  PROVE  /\ BitsInv' /\ o \in 0 .. search_len - AsmLen
         /\ base' = base + get_lower_mul(o + AsmLen) /\ End' = base + (o + AsmLen)
         /\ offset_bits' <= left'
<1>1. /\ Searching /\ mode = "work" /\ state = "SEARCH" /\ o \in 0 .. search_len - AsmLen
      /\ state' = "LOCK" /\ count' = 0 /\ locked_on_stream' = a /\ msg_buffer_fill' = TRUE
      /\ num_consumed' = num_consumed + get_lower_mul(o + AsmLen)
      /\ offset_bits' = (o + AsmLen) % LdM
      /\ UNCHANGED callVars /\ UNCHANGED msg_buffer
  BY DEF SearchFound, Searching, Candidates
<1> DEFINE n == o + AsmLen
<1>2. n \in Nat /\ n <= left
  <2>1. search_len \in Nat /\ search_len <= left /\ left \in Nat
    BY <1>1, SearchLen, LeftBase
  <2> QED BY <1>1, <2>1
<1>3. num_consumed' = num_consumed + get_lower_mul(n) /\ offset_bits' = n % LdM
  BY <1>1
<1> HIDE DEF n
<1>4. /\ CallBits' /\ WholeSymbols' /\ OffsetBits'
      /\ base' = base + get_lower_mul(n) /\ End' = base + n /\ offset_bits' <= left'
  BY <1>1, <1>2, <1>3, Advance
<1>5. msg_buffer' = <<>> /\ BetweenFrames'
  BY <1>1 DEF BitsInv, BufferBits, BetweenFrames
<1>6. LockBits' /\ BufferBits'
  BY <1>1, <1>4, <1>5, BufferSame DEF LockBits
<1> QED BY <1>1, <1>4, <1>6 DEF n, BitsInv

\* A search that fails uses bits at which no ASM begins.
LEMMA BitsSkipped ==
  ASSUME BitsInv, SearchFailed
  PROVE  BitsInv' /\ base' = base + SearchSkip /\ left' = left - SearchSkip
<1>1. /\ Searching /\ mode = "work" /\ state = "SEARCH"
      /\ num_consumed' = num_consumed + SearchSkip /\ offset_bits' = 0
      /\ UNCHANGED callVars
      /\ UNCHANGED <<state, count, locked_on_stream, msg_buffer, msg_buffer_fill>>
  BY DEF SearchFailed, Searching, syncVars
<1>2. SearchSkip \in Nat /\ SearchSkip % LdM = 0 /\ SearchSkip <= left
  <2>1. SearchSkip \in Nat /\ SearchSkip % LdM = 0 /\ SearchSkip <= search_len - (AsmLen - 1)
    BY <1>1, SkipSome
  <2>2. search_len \in Nat /\ search_len <= left /\ left \in Nat
    BY <1>1, SearchLen, LeftBase
  <2> QED BY <2>1, <2>2
<1>3. CallBits' /\ WholeSymbols' /\ base' = base + SearchSkip /\ left' = left - SearchSkip
  BY <1>1, <1>2, Consume
<1>4. OffsetBits'
  <2>1. End' = base' + offset_bits'
    BY DEF End
  <2>2. base \in Nat /\ left \in Nat /\ base + left <= StreamLen
    BY LeftBase
  <2>3. End' <= StreamLen
    BY <1>1, <1>2, <1>3, <2>1, <2>2
  <2> QED BY <1>1, <2>3 DEF OffsetBits
<1>5. msg_buffer' = <<>> /\ BetweenFrames' /\ LockBits'
  BY <1>1 DEF BitsInv, BufferBits, BetweenFrames, LockBits
<1>6. BufferBits'
  BY <1>3, <1>4, <1>5, BufferSame
<1> QED BY <1>3, <1>4, <1>5, <1>6 DEF BitsInv

\* A step that completes the frame sends it: its bits are those from Begin on.
LEMMA FillFull ==
  ASSUME BitsInv, Fill, Len(Filled) >= FrameLen
  PROVE  /\ Len(Filled) = FrameLen /\ End' = Begin + FrameLen
         /\ out' = Append(out, [offset |-> Begin, stream |-> locked_on_stream,
                                data |-> Filled, reference |-> TimeReference(TagState, Begin),
                                time |-> FrameTime(TimeReference(TagState, Begin), Begin)])
         /\ SetTags(extractTags(TagState, Begin))
         /\ msg_buffer' = <<>> /\ msg_buffer_fill' = FALSE
<1> DEFINE consumed == num_consumed + Taken
           offset   == (to_copy + offset_bits) % LdM
           from     == nitems_read + consumed + offset - FrameLen
<1>1. Locked /\ msg_buffer_fill
  BY FillParts
<1>2. Len(Filled) = FrameLen /\ Len(Filled) = Len(msg_buffer) + to_copy
  BY <1>1, FilledBits
<1>3. /\ to_copy \in Nat /\ Len(msg_buffer) \in Nat /\ Begin \in Nat /\ End = Begin + Len(msg_buffer)
      /\ End' = End + to_copy
  BY <1>1, FillSizes, LeftBase, FillMoves
<1>4. End' = Begin + FrameLen
  BY <1>2, <1>3
<1>5. from = Begin
  <2>1. num_consumed' = consumed /\ offset_bits' = offset /\ nitems_read' = nitems_read
    BY FillParts DEF callVars
  <2>2. nitems_read \in Nat /\ consumed \in Nat /\ offset \in Nat
    <3>1. CallBits' /\ OffsetBits'
      BY FillMoves
    <3> QED BY <2>1, <3>1 DEF CallBits, OffsetBits
  <2> HIDE DEF consumed, offset
  <2>3. base' = nitems_read + consumed
    BY <2>1 DEF base
  <2>4. End' = (nitems_read + consumed) + offset
    BY <2>1, <2>3 DEF End
  <2> QED BY <1>3, <1>4, <2>2, <2>4
<1> HIDE DEF from
<1>6. /\ out' = Append(out, [offset |-> from, stream |-> locked_on_stream,
                             data |-> Filled, reference |-> TimeReference(TagState, from),
                             time |-> FrameTime(TimeReference(TagState, from), from)])
      /\ SetTags(extractTags(TagState, from))
      /\ msg_buffer' = <<>> /\ msg_buffer_fill' = FALSE
  BY DEF Fill, Filled, from
<1> QED BY <1>2, <1>4, <1>5, <1>6

\* A step that does not complete it copies all the bits of the last symbol.
LEMMA FillPart ==
  ASSUME BitsInv, Fill, ~ (Len(Filled) >= FrameLen)
  PROVE  /\ msg_buffer' = Filled /\ Len(Filled) < FrameLen /\ Begin' = Begin
         /\ UNCHANGED <<tagVars, msg_buffer_fill, out>>
         /\ offset_bits' = 0 /\ num_consumed' > 0
<1>1. Locked /\ msg_buffer_fill
  BY FillParts
<1>2. msg_buffer' = Filled /\ UNCHANGED <<tagVars, msg_buffer_fill, out>>
  BY DEF Fill, Filled
<1>3. /\ to_copy \in Nat /\ to_copy >= 1 /\ missing = FrameLen - Len(msg_buffer)
      /\ to_copy < missing => (to_copy + offset_bits) % LdM = 0
  BY <1>1, FillSizes
<1>4. /\ Len(msg_buffer) \in Nat /\ Begin \in Nat /\ End = Begin + Len(msg_buffer)
      /\ offset_bits \in Nat
  BY LeftBase
<1>5. Len(Filled) = Len(msg_buffer) + to_copy
  BY <1>1, FilledBits
<1>6. Len(Filled) < FrameLen /\ to_copy < missing
  BY <1>3, <1>4, <1>5
<1>7. Begin' = Begin
  <2>1. End' = End + to_copy
    BY FillMoves
  <2>2. Begin' = End' - Len(Filled)
    BY <1>2 DEF Begin
  <2> QED BY <1>3, <1>4, <1>5, <2>1, <2>2
<1>8. offset_bits' = 0 /\ num_consumed' > 0
  <2> DEFINE n == to_copy + offset_bits
  <2>1. n \in Nat /\ n >= 1 /\ n % LdM = 0 /\ Taken = get_lower_mul(n)
        /\ offset_bits' = n % LdM
    BY <1>3, <1>4, <1>6, FillParts DEF Taken
  <2> HIDE DEF n
  <2>2. Taken = n
    BY <2>1, LowerMul
  <2>3. num_consumed' = num_consumed + Taken /\ num_consumed \in Nat
    BY FillParts DEF BitsInv, CallBits
  <2> QED BY <2>1, <2>2, <2>3
<1> QED BY <1>2, <1>6, <1>7, <1>8

\* Filling keeps the invariant of the bits.
LEMMA BitsFill ==
  ASSUME BitsInv, Fill
  PROVE  BitsInv'
<1>1. CallBits' /\ WholeSymbols' /\ OffsetBits'
  BY FillMoves
<1>2. CASE Len(Filled) >= FrameLen
  <2>1. msg_buffer' = <<>> /\ msg_buffer_fill' = FALSE
    BY <1>2, FillFull
  <2>2. LockBits' /\ BetweenFrames'
    BY <2>1, FillParts DEF BitsInv, LockBits, syncVars, BetweenFrames
  <2>3. BufferBits'
    BY <1>1, <2>1, <2>2, BufferSame
  <2> QED BY <1>1, <2>2, <2>3 DEF BitsInv
<1>3. CASE ~ (Len(Filled) >= FrameLen)
  <2>1. /\ msg_buffer' = Filled /\ Len(Filled) < FrameLen /\ Begin' = Begin
        /\ msg_buffer_fill' = msg_buffer_fill
    BY <1>3, FillPart
  <2>2. Locked /\ state = "LOCK" /\ state' = "LOCK" /\ msg_buffer_fill
    BY FillParts DEF syncVars
  <2>3. /\ Filled \in Seq(0 .. StreamLen - 1) /\ Begin \in Nat
        /\ \A k \in 1 .. Len(Filled) : Filled[k] = Begin + k - 1
    BY <2>2, FilledBits
  <2>4. LockBits' /\ BetweenFrames'
    BY <2>1, <2>2, FillParts DEF BitsInv, LockBits, syncVars, BetweenFrames
  <2>5. BufferBits'
    BY <2>1, <2>3, <2>4 DEF BufferBits
  <2> QED BY <1>1, <2>4, <2>5 DEF BitsInv
<1> QED BY <1>2, <1>3

\* The next ASM is among the bits of the call.
LEMMA CheckSizes ==
  ASSUME BitsInv, Checking
  PROVE  AsmLen + offset_bits \in Nat /\ AsmLen + offset_bits <= left
<1>1. AsmLen + offset_bits \in Nat /\ left \in Nat
  BY LeftBase
<1>2. left >= get_upper_mul(AsmLen + offset_bits)
  BY DEF Checking, Locked, check_len
<1>3. get_upper_mul(AsmLen + offset_bits) \in Nat
      /\ get_upper_mul(AsmLen + offset_bits) >= AsmLen + offset_bits
  BY <1>1, UpperMul
<1> QED BY <1>1, <1>2, <1>3

\* A check uses the bits of the ASM, or none.
LEMMA BitsKept ==
  ASSUME BitsInv, CheckKept
  PROVE  BitsInv' /\ End' = End + AsmLen /\ offset_bits' <= left'
         /\ base' = base + get_lower_mul(AsmLen + offset_bits) /\ msg_buffer' = <<>>
<1> DEFINE n == AsmLen + offset_bits
<1>1. /\ Checking /\ mode = "work" /\ state = "LOCK" /\ ~ msg_buffer_fill
      /\ num_consumed' = num_consumed + get_lower_mul(n) /\ offset_bits' = n % LdM
      /\ count' = NewCount /\ (AsmThere \/ Tolerated) /\ msg_buffer_fill' = TRUE
      /\ UNCHANGED callVars /\ UNCHANGED <<state, locked_on_stream, msg_buffer>>
  BY DEF CheckKept, Checking, Locked
<1>2. n \in Nat /\ n <= left /\ base + n = End + AsmLen
  BY <1>1, CheckSizes, LeftBase
<1> HIDE DEF n
<1>3. /\ CallBits' /\ WholeSymbols' /\ OffsetBits'
      /\ base' = base + get_lower_mul(n) /\ End' = base + n /\ offset_bits' <= left'
  BY <1>1, <1>2, Advance
<1>4. msg_buffer' = <<>> /\ BetweenFrames'
  BY <1>1 DEF BitsInv, BufferBits, BetweenFrames
<1>5. count' \in 0 .. Threshold
  BY <1>1 DEF NewCount, Smaller, Tolerated, BitsInv, LockBits
<1>6. LockBits' /\ BufferBits'
  BY <1>1, <1>3, <1>4, <1>5, BufferSame DEF BitsInv, LockBits
<1> QED BY <1>2, <1>3, <1>4, <1>6 DEF n, BitsInv

\* Losing the lock goes back to the symbol of the first unused bit.
LEMMA BitsLost ==
  ASSUME BitsInv, CheckLost
  PROVE  BitsInv' /\ base' = base /\ End' = base
<1>1. /\ state = "LOCK" /\ ~ msg_buffer_fill /\ state' = "SEARCH" /\ count' = 0
      /\ offset_bits' = 0 /\ UNCHANGED callVars
      /\ UNCHANGED <<locked_on_stream, num_consumed, msg_buffer, msg_buffer_fill>>
  BY DEF CheckLost, Checking, Locked
<1>2. base' = base /\ CallBits'
  BY <1>1 DEF base, callVars, BitsInv, CallBits
<1>3. End' = base /\ base <= StreamLen
  BY <1>1, <1>2, LeftBase DEF End
<1>4. WholeSymbols' /\ OffsetBits' /\ LockBits'
  BY <1>1, <1>2, <1>3 DEF BitsInv, WholeSymbols, OffsetBits, LockBits
<1>5. msg_buffer' = <<>> /\ BetweenFrames'
  BY <1>1 DEF BitsInv, BufferBits, BetweenFrames
<1>6. BufferBits'
  BY <1>2, <1>4, <1>5, BufferSame
<1> QED BY <1>2, <1>3, <1>4, <1>6 DEF BitsInv

\* The invariant of the bits is inductive.
LEMMA BitsInductive ==
  ASSUME BitsInv, [Next]_vars
  PROVE  BitsInv'
<1>1. CASE Next
  BY <1>1, BitsCall, BitsFound, BitsSkipped, BitsFill, BitsKept, BitsLost DEF Next
<1>2. CASE UNCHANGED vars
  BY <1>2 DEF vars, callVars, syncVars, fillVars, BitsInv, CallBits, WholeSymbols, OffsetBits,
              LockBits, BufferBits, BetweenFrames, base, End, Begin
<1> QED BY <1>1, <1>2

\* It holds of the state that the constructor leaves.
LEMMA BitsInit == Init => BitsInv
<1> SUFFICES ASSUME Init PROVE BitsInv
  OBVIOUS
<1>1. /\ mode = "idle" /\ nitems_read = 0 /\ num_input = 0 /\ num_consumed = 0 /\ state = "SEARCH"
      /\ count = 0 /\ locked_on_stream = 0 /\ offset_bits = 0 /\ msg_buffer = <<>>
      /\ msg_buffer_fill \in BOOLEAN
  BY DEF Init
<1>2. base = 0 /\ End = 0
  BY <1>1 DEF base, End
<1>3. Len(msg_buffer) = 0 /\ msg_buffer \in Seq(0 .. StreamLen - 1)
  BY <1>1
<1>4. Begin = 0
  BY <1>2, <1>3 DEF Begin
<1> QED BY <1>1, <1>2, <1>3, <1>4, ResolverAssumption
        DEF BitsInv, CallBits, WholeSymbols, OffsetBits, LockBits, BufferBits, BetweenFrames

-----------------------------------------------------------------------------
(* The tags *)

\* A set of positions has a last one.
LEMMA LastOf ==
  ASSUME NEW S \in SUBSET (0 .. StreamLen - 1), S # {}
  PROVE  \E p \in S : \A r \in S : r <= p
<1> DEFINE T == {StreamLen - p : p \in S}
           R == OpToRel(<, Nat)
<1>1. T \subseteq Nat /\ T # {}
  OBVIOUS
<1>2. IsWellFoundedOn(R, Nat)
  BY NatLessThanWellFounded
<1>3. PICK x \in T : \A y \in T : ~ (<<y, x>> \in R)
  <2> HIDE DEF T, R
  <2> QED BY <1>1, <1>2, WFMin
<1>4. PICK p \in S : x = StreamLen - p
  OBVIOUS
<1>5. ASSUME NEW r \in S
      PROVE  r <= p
  <2>1. StreamLen - r \in T /\ StreamLen - r \in Nat /\ x \in Nat
    BY <1>1
  <2>2. ~ (StreamLen - r < x)
    BY <1>3, <2>1 DEF OpToRel
  <2> QED BY <1>4, <2>2
<1> QED BY <1>5

\* What an update does: nothing, or it reads the tags from the next position
\* on up to until, and remembers the last of them.
LEMMA UpdateTags ==
  ASSUME NEW t, NEW until \in Nat, nitems_read \in Nat, t.lastupdate \in Nat,
         rx_time \in SUBSET (0 .. StreamLen - 1)
  PROVE  LET F == NextTag(nitems_read, t)
             u == updateTags(t, until)
             found == {p \in rx_time : F <= p /\ p < until}
         IN /\ F \in Nat /\ F >= nitems_read /\ F > t.lastupdate
            /\ until < F => u = t
            /\ F <= until =>
                 /\ u.lastupdate = F /\ u.read = t.read \cup found
                 /\ u.skipped = t.skipped \cup (IF until = F THEN rx_time \cap {F} ELSE {})
                 /\ found = {} => u.last_rx_time = t.last_rx_time
                 /\ found # {} => u.last_rx_time \in found
                                  /\ \A p \in found : p <= u.last_rx_time
<1> DEFINE F == NextTag(nitems_read, t)
           u == updateTags(t, until)
           found == {p \in rx_time : F <= p /\ p < until}
<1>1. F \in Nat /\ F >= nitems_read /\ F > t.lastupdate
  BY DEF NextTag, Larger
<1>2. F = Larger(nitems_read, t.lastupdate + 1)
  BY DEF NextTag
<1> HIDE DEF F
<1> DEFINE last == CHOOSE p \in found : \A r \in found : r <= p
<1>3. found # {} => last \in found /\ \A r \in found : r <= last
  <2>1. found # {} => \E p \in found : \A r \in found : r <= p
    BY LastOf
  <2> HIDE DEF found
  <2> QED BY <2>1
<1>4. u = IF until < F THEN t
          ELSE [lastupdate   |-> F,
                last_rx_time |-> IF found = {} THEN t.last_rx_time ELSE last,
                read         |-> t.read \cup found,
                skipped      |-> t.skipped \cup (IF until = F THEN rx_time \cap {F} ELSE {})]
  BY <1>2 DEF updateTags
<1> HIDE DEF u, found, last
<1>5. F <= until =>
        /\ u.lastupdate = F /\ u.read = t.read \cup found
        /\ u.skipped = t.skipped \cup (IF until = F THEN rx_time \cap {F} ELSE {})
        /\ u.last_rx_time = IF found = {} THEN t.last_rx_time ELSE last
  BY <1>1, <1>4
<1>6. /\ until < F => u = t
      /\ F <= until =>
           /\ u.lastupdate = F /\ u.read = t.read \cup found
           /\ u.skipped = t.skipped \cup (IF until = F THEN rx_time \cap {F} ELSE {})
           /\ found = {} => u.last_rx_time = t.last_rx_time
           /\ found # {} => u.last_rx_time \in found /\ \A p \in found : p <= u.last_rx_time
  BY <1>1, <1>3, <1>4, <1>5
<1> QED BY <1>1, <1>6 DEF F, u, found

\* An update keeps what the bookkeeping refers to.
LEMMA UpdateTagsOf ==
  ASSUME NEW t, NEW until \in Nat, nitems_read \in Nat, TagsOf(t),
         rx_time \in SUBSET (0 .. StreamLen - 1)
  PROVE  TagsOf(updateTags(t, until))
<1> DEFINE F == NextTag(nitems_read, t)
           u == updateTags(t, until)
           found == {p \in rx_time : F <= p /\ p < until}
<1>1. /\ F \in Nat
      /\ until < F => u = t
      /\ F <= until =>
           /\ u.lastupdate = F /\ u.read = t.read \cup found
           /\ found = {} => u.last_rx_time = t.last_rx_time
           /\ found # {} => u.last_rx_time \in found
  BY UpdateTags DEF TagsOf
<1>2. found \in SUBSET rx_time /\ NoTag \notin found
  BY DEF NoTag
<1> HIDE DEF F, u, found
<1>3. CASE until < F
  BY <1>1, <1>3 DEF u
<1>4. CASE F <= until
  BY <1>1, <1>2, <1>4 DEF TagsOf, u
<1> QED BY <1>1, <1>3, <1>4

\* So do the updates for a frame; what its time is counted from is a tag, and
\* its time is a number.
LEMMA ExtractTagsOf ==
  ASSUME TagsRead, NEW from \in Nat, nitems_read \in Nat
  PROVE  /\ TagsOf(Updated(TagState, from)) /\ TagsOf(extractTags(TagState, from))
         /\ TimeReference(TagState, from) \in {NoTag} \cup rx_time
         /\ FrameTime(TimeReference(TagState, from), from) \in {NoTag} \cup Nat
<1>1. rx_time \in SUBSET (0 .. StreamLen - 1) /\ TagsOf(TagState) /\ from + FrameLen \in Nat
  BY DEF TagsRead
<1>2. TagsOf(updateTags(TagState, from))
  BY <1>1, UpdateTagsOf
<1> DEFINE t == Updated(TagState, from)
           r == TimeReference(TagState, from)
<1>3. TagsOf(t)
  BY <1>1, <1>2 DEF Updated
<1>4. extractTags(TagState, from) =
        IF t.last_rx_time \in malformed THEN t ELSE updateTags(t, from + FrameLen)
  BY DEF extractTags
<1>5. r = IF t.last_rx_time \in malformed THEN NoTag ELSE t.last_rx_time
  BY DEF TimeReference
<1> HIDE DEF t
<1>6. TagsOf(extractTags(TagState, from))
  BY <1>1, <1>3, <1>4, UpdateTagsOf
<1>7. r \in {NoTag} \cup rx_time
  BY <1>3, <1>5 DEF TagsOf
<1> HIDE DEF r
<1>8. FrameTime(r, from) \in {NoTag} \cup Nat
  <2>1. CASE r = NoTag
    BY <2>1 DEF FrameTime
  <2>2. CASE r # NoTag
    <3>1. r \in Nat /\ from - r \in Int
      <4>1. r \in rx_time /\ rx_time \subseteq 0 .. StreamLen - 1
        BY <1>1, <1>7, <2>2
      <4>2. r \in 0 .. StreamLen - 1
        BY <4>1
      <4> QED BY <4>2
    <3>2. (from - r) % Word \in Nat
      BY <3>1, ResolverAssumption
    <3>3. FrameTime(r, from) = r + ((from - r) % Word)
      BY <2>2 DEF FrameTime
    <3> QED BY <3>1, <3>2, <3>3
  <2> QED BY <2>1, <2>2
<1> QED BY <1>3, <1>6, <1>7, <1>8 DEF r, t

\* The tag state that a step sets.
LEMMA SetTagState ==
  ASSUME NEW t, SetTags(t)
  PROVE  /\ TagState'.lastupdate = t.lastupdate
         /\ TagState'.last_rx_time = t.last_rx_time
         /\ TagState'.read = t.read
         /\ TagState'.skipped = t.skipped
BY DEF SetTags, TagState

\* Every step but Work, which only begins a call, and the two that use tags
\* leaves the bookkeeping alone.
LEMMA TagsLeft ==
  ASSUME [Next]_vars
  PROVE  \/ TagState' = TagState
         \/ Fill /\ Len(Filled) >= FrameLen
         \/ WorkReturn
<1> SUFFICES ASSUME ~ WorkReturn, ~ (Fill /\ Len(Filled) >= FrameLen)
             PROVE  TagState' = TagState
  OBVIOUS
<1>1. UNCHANGED tagVars
  <2>1. CASE Fill
    BY <2>1 DEF Fill, Filled
  <2> QED BY <2>1 DEF Next, vars, Work, SearchFound, SearchFailed, CheckKept, CheckLost, Stop
<1> QED BY <1>1 DEF TagState, tagVars

\* What the tag bookkeeping refers to stays tags.
LEMMA TagsInductive ==
  ASSUME BitsInv, TagsRead, [Next]_vars
  PROVE  TagsRead'
<1>1. rx_time' = rx_time /\ rx_time \in SUBSET (0 .. StreamLen - 1) /\ TagsOf(TagState)
  BY DEF Next, vars, Work, SearchFound, SearchFailed, Fill, CheckKept, CheckLost, WorkReturn, Stop,
         inputVars, TagsRead
<1>2. nitems_read \in Nat /\ base \in Nat /\ Begin \in Nat
  BY LeftBase DEF BitsInv, CallBits
<1>3. ASSUME NEW t, SetTags(t), TagsOf(t)
      PROVE  TagsRead'
  BY <1>1, <1>3, SetTagState DEF TagsOf, TagsRead
<1>4. CASE TagState' = TagState
  BY <1>1, <1>4 DEF TagsOf, TagsRead
<1>5. CASE Fill /\ Len(Filled) >= FrameLen
  BY <1>2, <1>3, <1>5, FillFull, ExtractTagsOf
<1>6. CASE WorkReturn
  <2>1. SetTags(updateTags(TagState, base))
    BY <1>6 DEF WorkReturn
  <2>2. TagsOf(updateTags(TagState, base))
    BY <1>1, <1>2, UpdateTagsOf
  <2> QED BY <1>3, <2>1, <2>2
<1> QED BY <1>4, <1>5, <1>6, TagsLeft

-----------------------------------------------------------------------------
(* The frames *)

\* The frame that a step sends, if it sends one.
NewFrame == [offset |-> Begin, stream |-> locked_on_stream, data |-> Filled,
             reference |-> TimeReference(TagState, Begin),
             time |-> FrameTime(TimeReference(TagState, Begin), Begin)]

Sends == Fill /\ Len(Filled) >= FrameLen

\* It is a message, and carries the bits from its offset on.
LEMMA NewFrameWhole ==
  ASSUME BitsInv, TagsRead, Sends
  PROVE  /\ NewFrame \in FrameMessage /\ NewFrame.offset = Begin /\ Begin \in Nat
         /\ NewFrame.data = [k \in 1 .. FrameLen |-> NewFrame.offset + k - 1]
         /\ out' = Append(out, NewFrame) /\ mode = "work" /\ mode' = "work"
<1>1. Fill /\ Len(Filled) >= FrameLen /\ Locked /\ msg_buffer_fill
      /\ mode = "work" /\ mode' = "work"
  BY FillParts DEF Sends, callVars
<1>2. /\ Len(Filled) = FrameLen /\ End' = Begin + FrameLen
      /\ out' = Append(out, NewFrame)
  BY <1>1, FillFull DEF NewFrame
<1>3. Begin \in Nat /\ nitems_read \in Nat /\ locked_on_stream \in Streams
  BY LeftBase DEF BitsInv, CallBits, LockBits
<1>4. Begin \in 0 .. StreamLen - 1
  <2>1. End' <= StreamLen
    BY <1>1, FillMoves DEF OffsetBits
  <2> QED BY <1>2, <1>3, <2>1
<1>5. /\ Filled \in Seq(0 .. StreamLen - 1)
      /\ \A k \in 1 .. FrameLen : Filled[k] = Begin + k - 1
  BY <1>1, <1>2, FilledBits
<1>6. Filled = [k \in 1 .. FrameLen |-> Begin + k - 1]
  <2>1. Filled = [k \in 1 .. FrameLen |-> Filled[k]]
    BY <1>2, <1>5
  <2> QED BY <1>5, <2>1
<1>7. /\ TimeReference(TagState, Begin) \in {NoTag} \cup (0 .. StreamLen - 1)
      /\ FrameTime(TimeReference(TagState, Begin), Begin) \in {NoTag} \cup Nat
  BY <1>3, ExtractTagsOf DEF TagsRead
<1>8. NewFrame \in FrameMessage
  BY <1>3, <1>4, <1>5, <1>7 DEF NewFrame, FrameMessage
<1>9. NewFrame.offset = Begin /\ NewFrame.data = Filled
  BY DEF NewFrame
<1> QED BY <1>1, <1>2, <1>3, <1>6, <1>8, <1>9

\* Frames are only added, one at a time; EOF is not one.
LEMMA FramesStep ==
  ASSUME BitsInv, TagsRead, SentInv, [Next]_vars
  PROVE  \/ Sends /\ Frames' = Append(Frames, NewFrame)
         \/ ~ Sends /\ Frames' = Frames
<1>1. out \in Seq(FrameMessage \cup {EOF})
  BY DEF SentInv
<1>2. CASE Sends
  BY <1>2, NewFrameWhole DEF Frames
<1>3. CASE ~ Sends
  <2>1. CASE Stop
    <3>1. mode = "idle" /\ mode' = "stopped" /\ out' = Append(out, EOF)
      BY <2>1 DEF Stop
    <3>2. SubSeq(out', 1, Len(out') - 1) = out
      BY <1>1, <3>1
    <3> QED BY <1>3, <3>1, <3>2 DEF Frames
  <2>2. CASE ~ Stop
    <3>1. out' = out
      <4>1. CASE Fill
        BY <1>3, <4>1 DEF Fill, Filled, Sends
      <4> QED BY <2>2, <4>1 DEF Next, vars, Work, SearchFound, SearchFailed, CheckKept, CheckLost,
                                WorkReturn
    <3>2. mode = "stopped" <=> mode' = "stopped"
      BY <2>2 DEF Next, vars, callVars, Work, SearchFound, SearchFailed, Fill, Locked, CheckKept,
                  CheckLost, Checking, Searching, WorkReturn
    <3> QED BY <1>3, <3>1, <3>2 DEF Frames
  <2> QED BY <2>1, <2>2
<1> QED BY <1>2, <1>3

\* The messages that have been published stay what they have to be.
LEMMA SentInductive ==
  ASSUME BitsInv, TagsRead, SentInv, [Next]_vars
  PROVE  SentInv'
<1> DEFINE Whole(f) == /\ f \in FrameMessage
                       /\ f.data = [k \in 1 .. FrameLen |-> f.offset + k - 1]
<1>1. out \in Seq(FrameMessage \cup {EOF})
  BY DEF SentInv
<1>2. out' \in Seq(FrameMessage \cup {EOF}) /\ (mode' = "stopped" => out' # <<>>)
  <2>1. CASE Sends
    <3>1. out' = Append(out, NewFrame) /\ NewFrame \in FrameMessage \cup {EOF} /\ mode' = "work"
      BY <2>1, NewFrameWhole
    <3> QED BY <1>1, <3>1
  <2>2. CASE Stop
    BY <1>1, <2>2 DEF Stop
  <2>3. CASE ~ Sends /\ ~ Stop
    <3>1. out' = out
      <4>1. CASE Fill
        BY <2>3, <4>1 DEF Fill, Filled, Sends
      <4> QED BY <2>3, <4>1 DEF Next, vars, Work, SearchFound, SearchFailed, CheckKept, CheckLost,
                                WorkReturn
    <3>2. mode' = "stopped" => mode = "stopped"
      BY <2>3 DEF Next, vars, callVars, Work, SearchFound, SearchFailed, Fill, Locked, CheckKept,
                  CheckLost, Checking, Searching, WorkReturn
    <3> QED BY <1>1, <3>1, <3>2 DEF SentInv
  <2> QED BY <2>1, <2>2, <2>3
<1>3. \A i \in 1 .. Len(Frames) : Whole(Frames[i])
  BY DEF SentInv
<1>4. \A i \in 1 .. Len(Frames') : Whole(Frames'[i])
  <2>1. Frames \in Seq(FrameMessage \cup {EOF})
    BY <1>1 DEF Frames, SentInv
  <2>2. CASE Sends /\ Frames' = Append(Frames, NewFrame)
    <3>1. Whole(NewFrame)
      BY <2>2, NewFrameWhole
    <3> HIDE DEF Whole
    <3>2. Len(Frames') = Len(Frames) + 1 /\ Len(Frames) \in Nat
          /\ \A i \in 1 .. Len(Frames) + 1 :
               Frames'[i] = IF i <= Len(Frames) THEN Frames[i] ELSE NewFrame
      BY <2>1, <2>2
    <3> QED BY <1>3, <3>1, <3>2
  <2>3. CASE Frames' = Frames
    BY <1>3, <2>3
  <2> QED BY <2>2, <2>3, FramesStep
<1> QED BY <1>2, <1>4 DEF SentInv

\* Nothing has been sent, and no tag read, at the beginning.
LEMMA ResolverInitInv == Init => ResolverInv
<1> SUFFICES ASSUME Init PROVE TagsRead /\ SentInv
  BY BitsInit DEF ResolverInv
<1>1. TagsRead
  BY ResolverAssumption DEF Init, TagsRead, TagsOf, TagState, TagRecord
<1>2. SentInv
  BY DEF Init, SentInv, Frames
<1> QED BY <1>1, <1>2

\* The invariant of bits, tags and frames holds throughout.
LEMMA ResolverInvariant == Spec => []ResolverInv
<1>1. ResolverInv /\ [Next]_vars => ResolverInv'
  BY BitsInductive, TagsInductive, SentInductive DEF ResolverInv
<1> QED BY <1>1, ResolverInitInv, PTL DEF Spec

-----------------------------------------------------------------------------
(* The theorems *)

\* The state has its shape for all lengths and inputs: in particular, whole
\* symbols are consumed, by every branch of general_work and by every call.
THEOREM ResolverTypeCorrect == Spec => []TypeOK
<1>1. ResolverInv => TypeOK
  <2> SUFFICES ASSUME ResolverInv PROVE TypeOK
    OBVIOUS
  <2>1. CallBits /\ WholeSymbols /\ OffsetBits /\ LockBits /\ BufferBits /\ SentInv
    BY DEF ResolverInv, BitsInv
  <2>2. \A i \in 1 .. Len(out) : out[i] \in FrameMessage \cup {EOF}
    <3>1. out \in Seq(FrameMessage \cup {EOF})
      BY <2>1 DEF SentInv
    <3> DEFINE S == FrameMessage \cup {EOF}
    <3> HIDE DEF S
    <3>2. out \in Seq(S)
      BY <3>1 DEF S
    <3>3. \A i \in 1 .. Len(out) : out[i] \in S
      BY <3>2
    <3> QED BY <3>3 DEF S
  <2>3. (nitems_read + num_consumed) % LdM = 0
    BY <2>1 DEF WholeSymbols, base
  <2>4. state = "SEARCH" => msg_buffer = <<>>
    BY <2>1 DEF BufferBits, BetweenFrames
  <2>5. /\ mode \in {"idle", "work", "stopped"}
        /\ num_consumed <= num_input /\ nitems_read + num_input <= StreamLen
        /\ state \in {"SEARCH", "LOCK"} /\ count \in 0 .. Threshold
        /\ locked_on_stream \in Streams /\ offset_bits \in 0 .. LdM - 1
        /\ Len(msg_buffer) < FrameLen
    BY <2>1 DEF CallBits, OffsetBits, LockBits, BufferBits
  <2> QED BY <2>2, <2>3, <2>4, <2>5 DEF TypeOK
<1> QED BY <1>1, ResolverInvariant, PTL

\* However the scheduler cuts the stream into calls, whatever the length of
\* the marker, the frame and the symbol, and wherever in a symbol a frame
\* begins, it is sent with its own bits, all of them and in order.
THEOREM ResolverFramesWhole == Spec => []FramesWhole
<1>1. ResolverInv => FramesWhole
  BY DEF ResolverInv, SentInv, FramesWhole
<1> QED BY <1>1, ResolverInvariant, PTL

-----------------------------------------------------------------------------
(* The refinement *)

\* What the scanner's variables stand for.
ScanNext  == IF state = "SEARCH" THEN base ELSE base + offset_bits - Len(msg_buffer)
ScanPhase == IF state = "SEARCH" THEN "searching"
             ELSE IF msg_buffer_fill THEN "in frame" ELSE "at marker"
ScanSent  == [i \in 1 .. Len(Frames) |-> <<Frames[i].offset, Frames[i].stream>>]

\* Locked, the scanner is at the first bit of the frame.
LEMMA ScanBegin ==
  ASSUME NEW b \in Nat, NEW f \in Nat, NEW l \in Nat
  PROVE  b + f - l = (b + f) - l
OBVIOUS

\* Where the scanner is before and after a step.
LEMMA ScanPlaces ==
  ASSUME BitsInv, BitsInv'
  PROVE  /\ ScanNext = IF state = "SEARCH" THEN base ELSE Begin
         /\ ScanNext' = IF state' = "SEARCH" THEN base' ELSE Begin'
         /\ state \in {"SEARCH", "LOCK"} /\ state' \in {"SEARCH", "LOCK"}
<1>1. base \in Nat /\ offset_bits \in Nat /\ Len(msg_buffer) \in Nat
  BY LeftBase
<1>2. base + offset_bits - Len(msg_buffer) = Begin
  BY <1>1, ScanBegin DEF Begin, End
<1>3. base' \in Nat /\ offset_bits' \in Nat /\ Len(msg_buffer') \in Nat
  <2>1. nitems_read' \in Nat /\ num_consumed' \in Nat /\ offset_bits' \in Nat
    BY DEF BitsInv, CallBits, OffsetBits
  <2>2. base' \in Nat
    BY <2>1, SumNat DEF base
  <2>3. msg_buffer' \in Seq(0 .. StreamLen - 1)
    BY DEF BitsInv, BufferBits
  <2> QED BY <2>1, <2>2, <2>3
<1>4. base' + offset_bits' - Len(msg_buffer') = Begin'
  BY <1>3, ScanBegin DEF Begin, End
<1>5. ScanNext' = IF state' = "SEARCH" THEN base' ELSE base' + offset_bits' - Len(msg_buffer')
  BY DEF ScanNext
<1> QED BY <1>2, <1>4, <1>5 DEF ScanNext, BitsInv, LockBits

\* With an empty message buffer, a frame begins at the first unused bit.
LEMMA ScanEmpty ==
  ASSUME BitsInv
  PROVE  /\ msg_buffer = <<>> => Begin = End
         /\ BitsInv' /\ msg_buffer' = <<>> => Begin' = End'
<1>1. msg_buffer = <<>> => Begin = End
  BY LeftBase
<1>2. ASSUME BitsInv', msg_buffer' = <<>>
      PROVE  Begin' = End'
  <2>1. nitems_read' \in Nat /\ num_consumed' \in Nat /\ offset_bits' \in Nat
    BY <1>2 DEF BitsInv, CallBits, OffsetBits
  <2>2. base' \in Nat
    BY <2>1, SumNat DEF base
  <2>3. End' \in Nat
    BY <2>1, <2>2, SumNat DEF End
  <2>4. Len(msg_buffer') = 0
    BY <1>2
  <2> QED BY <2>3, <2>4, LessNothing DEF Begin
<1> QED BY <1>1, <1>2

\* A search that finds the ASM locks the scanner: a match that is passed over
\* is within the bits of one search.
LEMMA ScanLock ==
  ASSUME BitsInv, NEW o \in 0 .. SEARCH_LEN_MAX, NEW a \in Streams, SearchFound(o, a)
  PROVE  /\ state = "SEARCH" /\ state' = "LOCK" /\ msg_buffer_fill' = TRUE
         /\ ScanNext' >= ScanNext + AsmLen
         /\ locked_on_stream' \in Scanner!AsmAt(ScanNext' - AsmLen)
         /\ \A p \in ScanNext .. ScanNext' - AsmLen - (SEARCH_LEN_MAX - AsmLen) - 1 :
              Scanner!AsmAt(p) = {}
         /\ count' = 0 /\ matches' = matches
<1>1. /\ Searching /\ state = "SEARCH" /\ state' = "LOCK" /\ msg_buffer_fill' = TRUE
      /\ o \in 0 .. search_len - AsmLen /\ <<base + o, a>> \in matches
      /\ locked_on_stream' = a /\ count' = 0 /\ matches' = matches /\ msg_buffer' = msg_buffer
  BY DEF SearchFound, Searching, Candidates, inputVars
<1>2. BitsInv' /\ End' = base + (o + AsmLen) /\ base \in Nat
  BY BitsFound, LeftBase
<1>3. msg_buffer' = <<>>
  BY <1>1 DEF BitsInv, BufferBits, BetweenFrames
<1>4. ScanNext = base /\ ScanNext' = base + (o + AsmLen)
  BY <1>1, <1>2, <1>3, ScanPlaces, ScanEmpty
<1>5. search_len \in Nat /\ search_len <= SEARCH_LEN_MAX /\ SEARCH_LEN_MAX \in Nat /\ o \in Nat
  BY <1>1, SearchLen, SearchLengths
<1>6. ScanNext' >= ScanNext + AsmLen /\ ScanNext' - AsmLen = base + o
  BY <1>2, <1>4, <1>5
<1>7. locked_on_stream' \in Scanner!AsmAt(ScanNext' - AsmLen)
  BY <1>1, <1>6 DEF Scanner!AsmAt
<1>8. ScanNext .. ScanNext' - AsmLen - (SEARCH_LEN_MAX - AsmLen) - 1 = {}
  <2>1. o + AsmLen <= SEARCH_LEN_MAX
    BY <1>1, <1>5
  <2>2. ScanNext' - AsmLen - (SEARCH_LEN_MAX - AsmLen) - 1 < ScanNext
    BY <1>2, <1>4, <1>5, <2>1
  <2> QED BY <1>2, <1>4, <1>5, <2>2
<1> QED BY <1>1, <1>6, <1>7, <1>8

\* A search that fails passes over bits at which no ASM begins.
LEMMA ScanSkip ==
  ASSUME BitsInv, SearchFailed
  PROVE  /\ state = "SEARCH" /\ state' = "SEARCH"
         /\ ScanNext' > ScanNext
         /\ \A p \in ScanNext .. ScanNext' - 1 : Scanner!AsmAt(p) = {}
         /\ UNCHANGED <<matches, count, locked_on_stream>>
<1>1. /\ Searching /\ state = "SEARCH" /\ state' = "SEARCH" /\ Candidates = {}
      /\ UNCHANGED <<matches, count, locked_on_stream>>
  BY DEF SearchFailed, Searching, syncVars, inputVars
<1>2. BitsInv' /\ base' = base + SearchSkip /\ base \in Nat
  BY BitsSkipped, LeftBase
<1>3. ScanNext = base /\ ScanNext' = base + SearchSkip
  BY <1>1, <1>2, ScanPlaces
<1>4. SearchSkip \in Nat /\ SearchSkip > 0 /\ SearchSkip <= search_len - (AsmLen - 1)
  BY <1>1, SkipSome
<1>5. search_len \in Nat
  BY <1>1, SearchLen
<1>6. ASSUME NEW p \in base .. (base + SearchSkip) - 1, NEW a \in Streams, <<p, a>> \in matches
      PROVE  FALSE
  <2>1. p - base \in 0 .. search_len - AsmLen /\ base + (p - base) = p
    BY <1>2, <1>4, <1>5
  <2>2. <<p - base, a>> \in Candidates
    BY <1>6, <2>1 DEF Candidates
  <2> QED BY <1>1, <2>2
<1>7. \A p \in ScanNext .. ScanNext' - 1 : Scanner!AsmAt(p) = {}
  BY <1>3, <1>6 DEF Scanner!AsmAt
<1>8. ScanNext' > ScanNext
  BY <1>2, <1>3, <1>4
<1> QED BY <1>1, <1>7, <1>8

\* The bits of a frame do not move the scanner until they are complete.
LEMMA ScanFill ==
  ASSUME BitsInv, Fill
  PROVE  /\ state = "LOCK" /\ state' = "LOCK" /\ msg_buffer_fill /\ ScanNext = Begin
         /\ UNCHANGED <<matches, count, locked_on_stream>>
         /\ Len(Filled) >= FrameLen => ScanNext' = ScanNext + FrameLen /\ msg_buffer_fill' = FALSE
         /\ ~ (Len(Filled) >= FrameLen) => ScanNext' = ScanNext /\ msg_buffer_fill' = msg_buffer_fill
<1>1. /\ state = "LOCK" /\ state' = "LOCK" /\ msg_buffer_fill
      /\ UNCHANGED <<matches, count, locked_on_stream>>
  BY FillParts DEF syncVars, inputVars
<1>2. BitsInv'
  BY BitsFill
<1>3. ScanNext = Begin /\ ScanNext' = Begin'
  BY <1>1, <1>2, ScanPlaces
<1>4. CASE Len(Filled) >= FrameLen
  BY <1>1, <1>2, <1>3, <1>4, FillFull, ScanEmpty
<1>5. CASE ~ (Len(Filled) >= FrameLen)
  BY <1>1, <1>3, <1>5, FillPart
<1> QED BY <1>1, <1>3, <1>4, <1>5

\* A check that keeps the lock goes to the first bit after the ASM.
LEMMA ScanKept ==
  ASSUME BitsInv, CheckKept
  PROVE  /\ state = "LOCK" /\ state' = "LOCK" /\ ~ msg_buffer_fill /\ msg_buffer_fill' = TRUE
         /\ ScanNext' = ScanNext + AsmLen
         /\ AsmThere <=> locked_on_stream \in Scanner!AsmAt(ScanNext)
         /\ AsmThere => count' = IF count < Threshold THEN count + 1 ELSE Threshold
         /\ ~ AsmThere => count > 1 /\ count' = count - 1
         /\ UNCHANGED <<matches, locked_on_stream>>
<1>1. /\ state = "LOCK" /\ state' = "LOCK" /\ ~ msg_buffer_fill /\ msg_buffer_fill' = TRUE
      /\ count' = NewCount /\ (AsmThere \/ Tolerated) /\ UNCHANGED <<matches, locked_on_stream>>
  BY DEF CheckKept, Checking, Locked, inputVars
<1>2. BitsInv' /\ End' = End + AsmLen /\ msg_buffer' = <<>>
  BY BitsKept
<1>3. msg_buffer = <<>>
  BY <1>1 DEF BitsInv, BufferBits, BetweenFrames
<1>4. ScanNext = End /\ ScanNext' = End'
  BY <1>1, <1>2, <1>3, ScanPlaces, ScanEmpty
<1>5. AsmThere <=> locked_on_stream \in Scanner!AsmAt(ScanNext)
  BY <1>4 DEF AsmThere, End, Scanner!AsmAt, BitsInv, LockBits
<1>6. count \in 0 .. Threshold
  BY DEF BitsInv, LockBits
<1>7. AsmThere => count' = IF count < Threshold THEN count + 1 ELSE Threshold
  BY <1>1, <1>6 DEF NewCount, Smaller
<1>8. ~ AsmThere => count > 1 /\ count' = count - 1
  BY <1>1 DEF NewCount, Tolerated
<1> QED BY <1>1, <1>2, <1>4, <1>5, <1>7, <1>8

\* Losing the lock goes back within the symbol.
LEMMA ScanLost ==
  ASSUME BitsInv, CheckLost
  PROVE  /\ state = "LOCK" /\ state' = "SEARCH" /\ ~ msg_buffer_fill
         /\ ScanNext' \in ScanNext - LdM + 1 .. ScanNext
         /\ locked_on_stream \notin Scanner!AsmAt(ScanNext) /\ count <= 1 /\ count' = 0
         /\ UNCHANGED <<matches, locked_on_stream>>
<1>1. /\ state = "LOCK" /\ state' = "SEARCH" /\ ~ msg_buffer_fill
      /\ count' = 0 /\ ~ (AsmThere \/ Tolerated) /\ UNCHANGED <<matches, locked_on_stream>>
  BY DEF CheckLost, Checking, Locked, inputVars
<1>2. BitsInv' /\ base' = base
  BY BitsLost
<1>3. msg_buffer = <<>>
  BY <1>1 DEF BitsInv, BufferBits, BetweenFrames
<1>4. ScanNext = End /\ ScanNext' = base
  BY <1>1, <1>2, <1>3, ScanPlaces, ScanEmpty
<1>5. base \in Nat /\ End = base + offset_bits /\ offset_bits \in 0 .. LdM - 1
  BY LeftBase DEF BitsInv, OffsetBits
<1>6. ScanNext' \in ScanNext - LdM + 1 .. ScanNext
  BY <1>4, <1>5
<1>7. locked_on_stream \notin Scanner!AsmAt(ScanNext)
  BY <1>1, <1>4 DEF AsmThere, End, Scanner!AsmAt
<1>8. count <= 1
  BY <1>1 DEF Tolerated, BitsInv, LockBits
<1> QED BY <1>1, <1>6, <1>7, <1>8

\* What has been sent grows by the position and stream of the frame.
LEMMA ScanSends ==
  ASSUME ResolverInv, [Next]_vars
  PROVE  /\ Sends => ScanSent' = Append(ScanSent, <<Begin, locked_on_stream>>)
         /\ ~ Sends => ScanSent' = ScanSent
<1>1. BitsInv /\ TagsRead /\ SentInv
  BY DEF ResolverInv
<1>2. ASSUME ~ Sends
      PROVE  ScanSent' = ScanSent
  BY <1>1, <1>2, FramesStep DEF ScanSent
<1>3. ASSUME Sends
      PROVE  ScanSent' = Append(ScanSent, <<Begin, locked_on_stream>>)
  <2>1. Frames' = Append(Frames, NewFrame) /\ Frames \in Seq(FrameMessage \cup {EOF})
    BY <1>1, <1>3, FramesStep, NewFrameWhole DEF Frames, SentInv
  <2>2. /\ Len(Frames) \in Nat /\ Len(Frames') = Len(Frames) + 1
        /\ \A i \in 1 .. Len(Frames) + 1 :
             Frames'[i] = IF i <= Len(Frames) THEN Frames[i] ELSE NewFrame
    BY <2>1
  <2>3. NewFrame.offset = Begin /\ NewFrame.stream = locked_on_stream
    BY DEF NewFrame
  <2> DEFINE n == Len(Frames)
             new == <<Begin, locked_on_stream>>
  <2>4. ScanSent' = [i \in 1 .. n + 1 |-> <<Frames'[i].offset, Frames'[i].stream>>]
    BY <2>2 DEF ScanSent
  <2>5. ScanSent' = [i \in 1 .. n + 1 |-> IF i <= n THEN ScanSent[i] ELSE new]
    BY <2>2, <2>3, <2>4 DEF ScanSent
  <2>6. Append(ScanSent, new) = [i \in 1 .. n + 1 |-> IF i <= n THEN ScanSent[i] ELSE new]
    <3> DEFINE S == {ScanSent[i] : i \in 1 .. n} \cup {new}
    <3>1. n \in Nat /\ ScanSent = [i \in 1 .. n |-> ScanSent[i]]
      BY <2>2 DEF ScanSent
    <3> HIDE DEF n, new
    <3>2. ScanSent \in [1 .. n -> S] /\ new \in S
      BY <3>1
    <3> HIDE DEF S
    <3>3. ScanSent \in Seq(S) /\ Len(ScanSent) = n
      BY <3>1, <3>2
    <3> QED BY <3>1, <3>2, <3>3
  <2> QED BY <2>5, <2>6
<1> QED BY <1>2, <1>3

\* Every step of the resolver is a step of the scanner, or none.
LEMMA ScanStep ==
  ASSUME ResolverInv, [Next]_vars
  PROVE  [Scanner!Next]_Scanner!vars
<1> USE DEF ScanNext, ScanPhase, ScanSent
<1>1. BitsInv /\ BitsInv'
  BY BitsInductive DEF ResolverInv
<1>2. ASSUME NEW o \in 0 .. SEARCH_LEN_MAX, NEW a \in Streams, SearchFound(o, a)
      PROVE  Scanner!Lock
  <2>1. ScanSent' = ScanSent
    BY <1>2, ScanSends DEF Sends, Fill, Locked, SearchFound, Searching
  <2> QED BY <1>1, <1>2, <2>1, ScanLock DEF Scanner!Lock
<1>3. ASSUME SearchFailed
      PROVE  Scanner!Skip
  <2>1. ScanSent' = ScanSent
    BY <1>3, ScanSends DEF Sends, Fill, Locked, SearchFailed, Searching
  <2> QED BY <1>1, <1>3, <2>1, ScanSkip DEF Scanner!Skip
<1>4. ASSUME Fill
      PROVE  Scanner!Deliver \/ UNCHANGED Scanner!vars
  <2>1. CASE Len(Filled) >= FrameLen
    <3>1. ScanSent' = Append(ScanSent, <<Begin, locked_on_stream>>)
      BY <1>4, <2>1, ScanSends DEF Sends
    <3> QED BY <1>1, <1>4, <2>1, <3>1, ScanFill DEF Scanner!Deliver
  <2>2. CASE ~ (Len(Filled) >= FrameLen)
    <3>1. ScanSent' = ScanSent
      BY <1>4, <2>2, ScanSends DEF Sends
    <3> QED BY <1>1, <1>4, <2>2, <3>1, ScanFill DEF Scanner!vars
  <2> QED BY <2>1, <2>2
<1>5. ASSUME CheckKept
      PROVE  Scanner!Confirm \/ Scanner!Tolerate
  <2>1. ScanSent' = ScanSent
    BY <1>5, ScanSends DEF Sends, Fill, Locked, CheckKept, Checking
  <2> QED BY <1>1, <1>5, <2>1, ScanKept DEF Scanner!Confirm, Scanner!Tolerate
<1>6. ASSUME CheckLost
      PROVE  Scanner!Lose
  <2>1. ScanSent' = ScanSent
    BY <1>6, ScanSends DEF Sends, Fill, Locked, CheckLost, Checking
  <2> QED BY <1>1, <1>6, <2>1, ScanLost DEF Scanner!Lose
<1>7. ASSUME (\E n \in 1 .. MaxRead : Work(n)) \/ WorkReturn \/ Stop
      PROVE  UNCHANGED Scanner!vars
  <2>1. UNCHANGED <<matches, state, msg_buffer, msg_buffer_fill, count, locked_on_stream, offset_bits>>
    BY <1>7 DEF Work, WorkReturn, Stop, inputVars, syncVars, fillVars
  <2>2. base' = base
    BY <1>1, <1>7, BitsCall
  <2>3. ~ Sends
    <3>1. Sends => mode = "work" /\ mode' = "work"
      BY FillParts DEF Sends, callVars
    <3> QED BY <1>7, <3>1 DEF Work, WorkReturn, Stop
  <2>4. ScanSent' = ScanSent
    BY <2>3, ScanSends
  <2> QED BY <2>1, <2>2, <2>4 DEF Scanner!vars
<1>8. CASE UNCHANGED vars
  BY <1>8 DEF vars, inputVars, callVars, syncVars, fillVars, Scanner!vars, base, Frames
<1> QED BY <1>2, <1>3, <1>4, <1>5, <1>6, <1>7, <1>8 DEF Next, Scanner!Next

\* It begins as the scanner does.
LEMMA ScanInit == Init => Scanner!Init
<1> SUFFICES ASSUME Init PROVE Scanner!Init
  OBVIOUS
<1>1. /\ state = "SEARCH" /\ nitems_read = 0 /\ num_consumed = 0 /\ count = 0
      /\ mode = "idle" /\ out = <<>>
  BY DEF Init
<1>2. base = 0 /\ Frames = <<>>
  BY <1>1 DEF base, Frames
<1> QED BY <1>1, <1>2 DEF Scanner!Init

\* The resolver implements the scanner of its documentation: the frames that
\* are sent, their positions and ambiguities, and when the lock is kept and
\* lost do not depend on calls, symbols and buffers.
THEOREM ResolverImplementsScanner == Spec => ScannerSpec
<1>1. Init => Scanner!Init
  BY ScanInit
<1>2. ResolverInv /\ [Next]_vars => [Scanner!Next]_Scanner!vars
  BY ScanStep
<1> QED BY <1>1, <1>2, ResolverInvariant, PTL DEF Spec, ScannerSpec, Scanner!Spec

-----------------------------------------------------------------------------
(* The times of the frames *)

\* A tag that is remembered is a position, or none.
LEMMA LastIsInt ==
  ASSUME NEW t, TagsOf(t), rx_time \in SUBSET (0 .. StreamLen - 1)
  PROVE  t.last_rx_time \in Int
<1>1. t.last_rx_time \in t.read \/ t.last_rx_time = -1
  BY DEF TagsOf, NoTag
<1>2. t.read \subseteq Nat
  <2>1. t.read \subseteq rx_time /\ rx_time \subseteq Nat
    BY DEF TagsOf
  <2> QED BY <2>1
<1> DEFINE l == t.last_rx_time
           R == t.read
<1>3. (l \in R \/ l = -1) /\ R \subseteq Nat
  BY <1>1, <1>2
<1> HIDE DEF l, R
<1>4. CASE l \in R
  <2>1. l \in Nat
    BY <1>3, <1>4
  <2> QED BY <2>1 DEF l
<1>5. CASE l = -1
  BY <1>5 DEF l
<1> QED BY <1>3, <1>4, <1>5

\* An update keeps the bookkeeping tidy.  Then all the tags before its end have
\* been read or are skipped, and the last of them is remembered.
LEMMA UpdateTidy ==
  ASSUME NEW t, NEW until \in Nat, nitems_read \in Nat, TagsOf(t),
         rx_time \in SUBSET (0 .. StreamLen - 1), Tidy(nitems_read, t)
  PROVE  LET u == updateTags(t, until)
         IN /\ Tidy(nitems_read, u)
            /\ t.skipped \subseteq u.skipped
            /\ \A p \in rx_time : p < until => p \in u.read \cup u.skipped
            /\ \A p \in u.read : p > u.last_rx_time =>
                 p \in u.skipped \/ (p >= NextTag(nitems_read, u) /\ p >= until)
<1> DEFINE F == NextTag(nitems_read, t)
           u == updateTags(t, until)
           found == {p \in rx_time : F <= p /\ p < until}
           G == NextTag(nitems_read, u)
           X == u.skipped
<1>1. /\ F \in Nat /\ F >= nitems_read
      /\ until < F => u = t
      /\ F <= until =>
           /\ u.lastupdate = F /\ u.read = t.read \cup found
           /\ X = t.skipped \cup (IF until = F THEN rx_time \cap {F} ELSE {})
           /\ found = {} => u.last_rx_time = t.last_rx_time
           /\ found # {} => u.last_rx_time \in found /\ \A p \in found : p <= u.last_rx_time
  BY UpdateTags DEF TagsOf
<1>2. /\ \A p \in rx_time : p < F => p \in t.read \cup t.skipped
      /\ \A p \in t.read : p > t.last_rx_time => p >= F \/ p \in t.skipped
  BY DEF Tidy
<1>3. t.read \subseteq rx_time /\ rx_time \subseteq Nat /\ found \subseteq rx_time
      /\ t.last_rx_time \in Int
  BY LastIsInt DEF TagsOf
<1>4. G = Larger(nitems_read, u.lastupdate + 1)
  BY DEF NextTag
<1>5. \A p \in rx_time : p \in found <=> F <= p /\ p < until
  OBVIOUS
<1>6. t.skipped \subseteq X /\ (until = F => \A p \in rx_time : p = F => p \in X)
  <2>1. until < F => X = t.skipped
    BY <1>1
  <2> HIDE DEF X, F, u, found
  <2>2. CASE until < F
    BY <1>1, <2>1, <2>2
  <2>3. CASE F <= until
    BY <1>1, <2>3
  <2> QED BY <1>1, <2>2, <2>3
<1>7. until < F => G = F
  BY <1>1
<1> SUFFICES /\ \A p \in rx_time : p < G => p \in u.read \cup X
             /\ \A p \in rx_time : p < until => p \in u.read \cup X
             /\ \A p \in u.read : p > u.last_rx_time => p \in X \/ (p >= G /\ p >= until)
  BY <1>6 DEF Tidy
<1> HIDE DEF F, u, found, G, X
<1>8. CASE until < F
  <2>1. u = t /\ G = F
    BY <1>1, <1>7, <1>8
  <2>2. ASSUME NEW p \in rx_time, p < G
        PROVE  p \in u.read \cup X
    BY <1>2, <1>6, <2>1, <2>2
  <2>3. ASSUME NEW p \in rx_time, p < until
        PROVE  p \in u.read \cup X
    <3>1. p \in Nat /\ p < F
      BY <1>1, <1>3, <1>8, <2>3
    <3> QED BY <1>2, <1>6, <2>1, <3>1
  <2>4. ASSUME NEW p \in u.read, p > u.last_rx_time
        PROVE  p \in X \/ (p >= G /\ p >= until)
    <3>1. p \in Nat /\ (p >= F \/ p \in X)
      BY <1>2, <1>3, <1>6, <2>1, <2>4
    <3> QED BY <1>1, <1>8, <2>1, <3>1
  <2> QED BY <2>2, <2>3, <2>4
<1>9. CASE F <= until
  <2>1. G = F + 1
    BY <1>1, <1>4, <1>9 DEF Larger
  <2>2. ASSUME NEW p \in rx_time, p < G
        PROVE  p \in u.read \cup X
    <3>1. p \in Nat /\ (p < F \/ p = F)
      BY <1>1, <1>3, <2>1, <2>2
    <3>2. CASE p < F
      BY <1>1, <1>2, <1>6, <1>9, <3>2
    <3>3. CASE p = F
      <4>1. until = F \/ p \in found
        BY <1>1, <1>5, <1>9, <3>3
      <4> QED BY <1>1, <1>6, <1>9, <3>3, <4>1
    <3> QED BY <3>1, <3>2, <3>3
  <2>3. ASSUME NEW p \in rx_time, p < until
        PROVE  p \in u.read \cup X
    <3>1. p \in Nat
      BY <1>3
    <3>2. p < F \/ p \in found
      BY <1>1, <1>5, <2>3, <3>1
    <3> QED BY <1>1, <1>2, <1>6, <1>9, <3>2
  <2>4. ASSUME NEW p \in u.read, p > u.last_rx_time
        PROVE  p \in X \/ (p >= G /\ p >= until)
    <3>1. p \in rx_time /\ p \in Nat /\ p \in t.read \cup found
      BY <1>1, <1>3, <1>9
    <3>2. CASE found = {}
      <4>1. p \in t.read /\ p > t.last_rx_time /\ p \notin found
        BY <1>1, <1>9, <2>4, <3>1, <3>2
      <4>2. p \in X \/ p >= F
        BY <1>2, <1>6, <4>1
      <4>3. p >= F => p >= until
        BY <1>1, <1>5, <3>1, <4>1
      <4>4. p = F => p \in X \/ ~ (p >= until)
        BY <1>1, <1>6, <1>9, <3>1
      <4> QED BY <1>1, <1>9, <2>1, <3>1, <4>2, <4>3, <4>4
    <3>3. CASE found # {}
      <4>1. u.last_rx_time \in found /\ \A r \in found : r <= u.last_rx_time
        BY <1>1, <1>9, <3>3
      <4> DEFINE m == u.last_rx_time
      <4>2. m \in Nat /\ F <= m /\ p > m
        BY <1>3, <1>5, <2>4, <4>1
      <4> HIDE DEF m
      <4>3. p > F /\ ~ (p <= m)
        BY <1>1, <3>1, <4>2
      <4>4. p \notin found
        BY <4>1, <4>3 DEF m
      <4> QED BY <1>1, <1>5, <2>1, <3>1, <4>3, <4>4
    <3> QED BY <3>2, <3>3
  <2> QED BY <2>2, <2>3, <2>4
<1> QED BY <1>1, <1>8, <1>9

\* An update reads nothing from its end on.
LEMMA UpdateReads ==
  ASSUME NEW t, NEW until \in Nat, nitems_read \in Nat, TagsOf(t),
         rx_time \in SUBSET (0 .. StreamLen - 1)
  PROVE  \A p \in updateTags(t, until).read : p \in Nat /\ (p \in t.read \/ p < until)
<1> DEFINE F == NextTag(nitems_read, t)
           u == updateTags(t, until)
           found == {p \in rx_time : F <= p /\ p < until}
<1>1. /\ F \in Nat
      /\ until < F => u = t
      /\ F <= until => u.read = t.read \cup found
  BY UpdateTags DEF TagsOf
<1>2. t.read \subseteq Nat /\ \A p \in found : p \in Nat /\ p < until
  <2>1. t.read \subseteq rx_time /\ rx_time \subseteq Nat
    BY DEF TagsOf
  <2> QED BY <2>1
<1> HIDE DEF F, u, found
<1> SUFFICES ASSUME NEW p \in u.read PROVE p \in Nat /\ (p \in t.read \/ p < until)
  BY DEF u
<1>3. CASE until < F
  BY <1>1, <1>2, <1>3
<1>4. CASE F <= until
  BY <1>1, <1>2, <1>4
<1> QED BY <1>1, <1>3, <1>4

\* A step that does not use tags, and consumes nothing by itself, leaves them
\* as they are.
LEMMA TimesQuiet ==
  ASSUME TimesInv, UNCHANGED rx_time, nitems_read' = nitems_read, TagState' = TagState,
         Frames' = Frames
  PROVE  TagsTidy' /\ FrameTimes'
<1>1. skipped' = skipped
  BY DEF TagState
<1>2. TagsTidy'
  BY DEF TimesInv, TagsTidy, Tidy, NextTag, Larger
<1>3. FrameTimes'
  BY <1>1 DEF TimesInv, FrameTimes, TimeOfFrame
<1> QED BY <1>2, <1>3

\* The tags that have been read are positions.
LEMMA TagNumbers ==
  ASSUME BitsInv, TagsRead
  PROVE  /\ tag_lastupdate \in Nat /\ tags_read \subseteq rx_time /\ rx_time \subseteq Nat
         /\ nitems_read \in Nat /\ base \in Nat /\ nitems_read <= base
         /\ End \in Nat /\ base <= End /\ End < base + LdM
<1>1. tag_lastupdate \in Nat /\ tags_read \subseteq rx_time /\ rx_time \subseteq Nat
  BY DEF TagsRead, TagsOf, TagState
<1>2. nitems_read \in Nat /\ num_consumed \in Nat /\ offset_bits \in 0 .. LdM - 1
  BY DEF BitsInv, CallBits, OffsetBits
<1> QED BY <1>1, <1>2, LeftBase DEF base

\* What has been consumed is before the end of the frame that is being filled.
LEMMA FrameReach ==
  ASSUME BitsInv
  PROVE  base < Begin + FrameLen
<1> DEFINE l == Len(msg_buffer)
<1>1. l \in Nat /\ l < FrameLen /\ base \in Nat /\ offset_bits \in Nat /\ Begin = End - l
  BY LeftBase DEF BitsInv, BufferBits, Begin
<1>2. End = base + offset_bits
  BY DEF End
<1> HIDE DEF l
<1> QED BY <1>1, <1>2, Lengths

\* A search that finds the ASM begins a frame that is longer than a symbol.
LEMMA TimesFound ==
  ASSUME ResolverInv, TimesInv,
         NEW o \in 0 .. SEARCH_LEN_MAX, NEW a \in Streams, SearchFound(o, a)
  PROVE  TimesInv'
<1>1. BitsInv /\ TagsRead /\ SentInv /\ BitsInv'
  BY BitsFound DEF ResolverInv
<1>2. /\ mode = "work" /\ state = "SEARCH" /\ state' = "LOCK" /\ msg_buffer_fill' = TRUE
      /\ UNCHANGED inputVars /\ UNCHANGED callVars /\ UNCHANGED tagVars /\ UNCHANGED out
      /\ msg_buffer' = msg_buffer
  BY DEF SearchFound, Searching
<1>3. UNCHANGED rx_time /\ TagState' = TagState /\ Frames' = Frames /\ nitems_read' = nitems_read
      /\ tags_read' = tags_read
  BY <1>2 DEF inputVars, callVars, tagVars, TagState, Frames
<1>4. o + AsmLen \in Nat
  BY SearchLengths
<1>5. End' = base + (o + AsmLen)
  BY <1>1, <1>2, BitsFound
<1>6. Begin' = End'
  <2>1. msg_buffer' = <<>>
    BY <1>1, <1>2 DEF BitsInv, BufferBits, BetweenFrames
  <2> QED BY <1>1, <2>1, ScanEmpty
<1>7. \A p \in tags_read : p < base + LdM
  BY <1>2 DEF TimesInv, ReadSoFar
<1>8. tags_read \subseteq Nat /\ base \in Nat
  BY <1>1, TagNumbers
<1>9. \A p \in tags_read' : p < Begin' + FrameLen
  <2> DEFINE n == o + AsmLen
  <2>1. n \in Nat /\ Begin' = base + n
    BY <1>4, <1>5, <1>6
  <2> HIDE DEF n
  <2>2. base + LdM < (base + n) + FrameLen
    BY <1>8, <2>1, Lengths
  <2>3. ASSUME NEW p \in tags_read
        PROVE  p < (base + n) + FrameLen
    <3>1. p \in Nat /\ p < base + LdM
      BY <1>7, <1>8
    <3> QED BY <1>8, <2>1, <2>2, <3>1, Lengths
  <2> QED BY <1>3, <2>1, <2>3
<1>10. ReadSoFar'
  BY <1>2, <1>9 DEF ReadSoFar
<1> QED BY <1>3, <1>10, TimesQuiet DEF TimesInv

\* A search that fails goes on in the same state.
LEMMA TimesSkipped ==
  ASSUME ResolverInv, TimesInv, SearchFailed
  PROVE  TimesInv'
<1>1. BitsInv /\ TagsRead
  BY DEF ResolverInv
<1>2. /\ Searching /\ state = "SEARCH" /\ state' = "SEARCH"
      /\ UNCHANGED inputVars /\ UNCHANGED callVars /\ UNCHANGED tagVars /\ UNCHANGED out
  BY DEF SearchFailed, Searching, syncVars
<1>3. UNCHANGED rx_time /\ TagState' = TagState /\ Frames' = Frames /\ nitems_read' = nitems_read
      /\ tags_read' = tags_read
  BY <1>2 DEF inputVars, callVars, tagVars, TagState, Frames
<1>4. base' = base + SearchSkip /\ SearchSkip \in Nat
  BY <1>1, <1>2, BitsSkipped, SkipSome
<1>5. tags_read \subseteq Nat /\ base \in Nat
  BY <1>1, TagNumbers
<1>6. \A p \in tags_read : p < base + LdM
  BY <1>2 DEF TimesInv, ReadSoFar
<1>7. \A p \in tags_read' : p < base' + LdM
  BY <1>3, <1>4, <1>5, <1>6
<1>8. ReadSoFar'
  BY <1>2, <1>7 DEF ReadSoFar
<1> QED BY <1>3, <1>8, TimesQuiet DEF TimesInv

\* A check that keeps the lock moves on by a marker.
LEMMA TimesKept ==
  ASSUME ResolverInv, TimesInv, CheckKept
  PROVE  TimesInv'
<1>1. BitsInv /\ TagsRead /\ BitsInv'
  BY BitsKept DEF ResolverInv
<1>2. /\ state = "LOCK" /\ state' = "LOCK" /\ ~ msg_buffer_fill /\ msg_buffer_fill' = TRUE
      /\ UNCHANGED inputVars /\ UNCHANGED callVars /\ UNCHANGED tagVars /\ UNCHANGED out
  BY DEF CheckKept, Checking, Locked
<1>3. UNCHANGED rx_time /\ TagState' = TagState /\ Frames' = Frames /\ nitems_read' = nitems_read
      /\ tags_read' = tags_read
  BY <1>2 DEF inputVars, callVars, tagVars, TagState, Frames
<1>4. End' = End + AsmLen /\ msg_buffer' = <<>>
  BY <1>1, <1>2, BitsKept
<1>5. Begin' = End'
  BY <1>1, <1>4, ScanEmpty
<1>6. \A p \in tags_read : p < End
  BY <1>2 DEF TimesInv, ReadSoFar
<1>7. tags_read \subseteq Nat /\ End \in Nat
  BY <1>1, TagNumbers
<1>8. \A p \in tags_read' : p < Begin' + FrameLen
  BY <1>3, <1>4, <1>5, <1>6, <1>7, Lengths
<1>9. ReadSoFar'
  BY <1>2, <1>8 DEF ReadSoFar
<1> QED BY <1>3, <1>9, TimesQuiet DEF TimesInv

\* Losing the lock leaves what was read within the symbol.
LEMMA TimesLost ==
  ASSUME ResolverInv, TimesInv, CheckLost
  PROVE  TimesInv'
<1>1. BitsInv /\ TagsRead
  BY DEF ResolverInv
<1>2. /\ state = "LOCK" /\ state' = "SEARCH" /\ ~ msg_buffer_fill
      /\ UNCHANGED inputVars /\ UNCHANGED callVars /\ UNCHANGED tagVars /\ UNCHANGED out
  BY DEF CheckLost, Checking, Locked
<1>3. UNCHANGED rx_time /\ TagState' = TagState /\ Frames' = Frames /\ nitems_read' = nitems_read
      /\ tags_read' = tags_read
  BY <1>2 DEF inputVars, callVars, tagVars, TagState, Frames
<1>4. base' = base
  BY <1>1, BitsLost
<1>5. /\ tags_read \subseteq Nat /\ base \in Nat /\ End \in Nat /\ End < base + LdM
  BY <1>1, TagNumbers
<1>6. \A p \in tags_read : p < End
  BY <1>2 DEF TimesInv, ReadSoFar
<1>7. \A p \in tags_read' : p < base' + LdM
  BY <1>3, <1>4, <1>5, <1>6, Lengths
<1>8. ReadSoFar'
  BY <1>2, <1>7 DEF ReadSoFar
<1> QED BY <1>3, <1>8, TimesQuiet DEF TimesInv

\* Bits that do not complete a frame leave the tags as they are.
LEMMA TimesFillPart ==
  ASSUME ResolverInv, TimesInv, Fill, ~ (Len(Filled) >= FrameLen)
  PROVE  TimesInv'
<1>1. BitsInv /\ TagsRead
  BY DEF ResolverInv
<1>2. /\ state = "LOCK" /\ state' = "LOCK" /\ msg_buffer_fill' = msg_buffer_fill /\ msg_buffer_fill
      /\ UNCHANGED inputVars /\ UNCHANGED callVars /\ UNCHANGED tagVars /\ UNCHANGED out
      /\ Begin' = Begin
  BY <1>1, FillParts, FillPart DEF syncVars
<1>3. UNCHANGED rx_time /\ TagState' = TagState /\ Frames' = Frames /\ nitems_read' = nitems_read
      /\ tags_read' = tags_read
  BY <1>2 DEF inputVars, callVars, tagVars, TagState, Frames
<1>4. \A p \in tags_read : p < Begin + FrameLen
  BY <1>2 DEF TimesInv, ReadSoFar
<1>5. ReadSoFar'
  BY <1>2, <1>3, <1>4 DEF ReadSoFar
<1> QED BY <1>3, <1>5, TimesQuiet DEF TimesInv

\* What the updates for a frame read, and what time they give it.  The frame
\* ends at e.
LEMMA FrameTags ==
  ASSUME ResolverInv, TimesInv, Sends
  PROVE  LET t == extractTags(TagState, Begin)
         IN /\ Tidy(nitems_read, t) /\ TagState.skipped \subseteq t.skipped
            /\ \A p \in t.read : p < Begin + FrameLen
            /\ TimeOfFrame(NewFrame, t.skipped)
<1>1. BitsInv /\ TagsRead /\ Fill /\ Len(Filled) >= FrameLen
  BY DEF ResolverInv, Sends
<1>2. state = "LOCK"
  BY <1>1, FillParts
<1> DEFINE N == nitems_read
           e == Begin + FrameLen
           t0 == TagState
           u == updateTags(t0, Begin)
           t1 == Updated(t0, Begin)
           t2 == updateTags(t1, e)
           t == extractTags(t0, Begin)
           r == TimeReference(t0, Begin)
<1>3. N \in Nat /\ Begin \in Nat /\ e \in Nat /\ Begin < e
  BY <1>1, LeftBase, TagNumbers, Lengths
<1>4. TagsOf(t0) /\ rx_time \in SUBSET (0 .. StreamLen - 1) /\ t0.read = tags_read
  BY <1>1 DEF TagsRead, TagState
<1>5. Tidy(N, t0) /\ \A p \in t0.read : p < e
  BY <1>2, <1>4 DEF TimesInv, TagsTidy, ReadSoFar
<1>6. /\ t1 = IF t0.last_rx_time = NoTag THEN t0 ELSE u
      /\ t = IF t1.last_rx_time \in malformed THEN t1 ELSE t2
      /\ r = IF t1.last_rx_time \in malformed THEN NoTag ELSE t1.last_rx_time
  BY DEF Updated, extractTags, TimeReference
<1>7. /\ TagsOf(u) /\ Tidy(N, u) /\ t0.skipped \subseteq u.skipped
      /\ \A p \in rx_time : p < Begin => p \in u.read \cup u.skipped
      /\ \A p \in u.read : p > u.last_rx_time =>
           p \in u.skipped \/ (p >= NextTag(N, u) /\ p >= Begin)
      /\ \A p \in u.read : p \in Nat /\ (p \in t0.read \/ p < Begin)
  BY <1>3, <1>4, <1>5, UpdateTagsOf, UpdateTidy, UpdateReads
<1>8. \A p \in u.read : p < e
  <2> HIDE DEF e, u, t0
  <2> QED BY <1>3, <1>5, <1>7
<1>9. /\ TagsOf(t1) /\ Tidy(N, t1) /\ t0.skipped \subseteq t1.skipped
      /\ \A p \in t1.read : p < e
  <2> HIDE DEF e, u, t0, t1
  <2> QED BY <1>4, <1>5, <1>6, <1>7, <1>8
<1>10. /\ Tidy(N, t2) /\ t1.skipped \subseteq t2.skipped
       /\ \A p \in t2.read : p \in Nat /\ (p \in t1.read \/ p < e)
  <2> HIDE DEF t1, e
  <2> QED BY <1>3, <1>4, <1>9, UpdateTidy, UpdateReads
<1>11. /\ Tidy(N, t) /\ t0.skipped \subseteq t.skipped /\ t1.skipped \subseteq t.skipped
       /\ \A p \in t.read : p < e
  <2> HIDE DEF t0, t1, t2, t, e
  <2> QED BY <1>6, <1>9, <1>10
<1>12. TimeOfFrame(NewFrame, t.skipped)
  <2>1. /\ NewFrame.reference = r /\ NewFrame.time = FrameTime(r, Begin)
        /\ NewFrame.offset = Begin
    BY DEF NewFrame
  <2>2. Begin <= StreamLen
    <3>1. NewFrame \in FrameMessage
      BY <1>1, NewFrameWhole DEF Sends
    <3>2. Begin \in 0 .. StreamLen - 1
      BY <2>1, <3>1 DEF FrameMessage
    <3> QED BY <3>2, Lengths
  <2> SUFFICES ASSUME r # NoTag
               PROVE  /\ r < e /\ r \in rx_time
                      /\ r <= Begin => FrameTime(r, Begin) = Begin
                      /\ \A p \in rx_time : p < Begin => p <= r \/ p \in t.skipped
    BY <2>1 DEF TimeOfFrame
  <2>3. r = t1.last_rx_time /\ t1 = u
    BY <1>6
  <2>4. r \in u.read /\ r \in rx_time /\ r \in Nat
    BY <1>4, <1>7, <2>3 DEF TagsOf
  <2>5. r < e
    BY <1>8, <2>4
  <2>6. r <= Begin => FrameTime(r, Begin) = Begin
    <3> HIDE DEF r
    <3> SUFFICES ASSUME r <= Begin PROVE FrameTime(r, Begin) = Begin
      OBVIOUS
    <3> DEFINE d == Begin - r
    <3>1. d \in Nat /\ d < Word /\ Word \in Nat /\ r + d = Begin
      BY <1>3, <2>2, <2>4, ResolverAssumption
    <3>2. FrameTime(r, Begin) = r + (d % Word)
      BY DEF FrameTime
    <3> HIDE DEF d
    <3>3. d % Word = d
      BY <3>1
    <3> QED BY <3>1, <3>2, <3>3
  <2>7. ASSUME NEW p \in rx_time, p < Begin
        PROVE  p <= r \/ p \in t.skipped
    <3>1. p \in Nat /\ (p \in u.read \/ p \in u.skipped)
      BY <1>4, <1>7, <2>7
    <3>2. u.skipped \subseteq t.skipped /\ u.last_rx_time = r
      BY <1>11, <2>3
    <3> HIDE DEF r, t, u
    <3>3. p \in u.read /\ p > r => p \in u.skipped \/ p >= Begin
      BY <1>7, <3>2
    <3> QED BY <1>3, <2>4, <2>7, <3>1, <3>2, <3>3
  <2> QED BY <2>4, <2>5, <2>6, <2>7
<1> QED BY <1>11, <1>12

\* That more tags are skipped leaves the times of the frames what they have to be.
LEMMA FrameTimesMore ==
  ASSUME NEW f, NEW X, NEW Y, X \subseteq Y, TimeOfFrame(f, X)
  PROVE  TimeOfFrame(f, Y)
BY DEF TimeOfFrame

\* A step that completes a frame gives it a time, and has read no further than
\* its end.
LEMMA TimesSend ==
  ASSUME ResolverInv, TimesInv, Sends
  PROVE  TimesInv'
<1>1. BitsInv /\ TagsRead /\ SentInv /\ Fill /\ Len(Filled) >= FrameLen /\ Next
  BY DEF ResolverInv, Sends, Next
<1>2. /\ state' = "LOCK" /\ UNCHANGED inputVars /\ UNCHANGED callVars
      /\ SetTags(extractTags(TagState, Begin)) /\ End' = Begin + FrameLen /\ msg_buffer' = <<>>
  BY <1>1, FillParts, FillFull DEF callVars, syncVars
<1>3. UNCHANGED rx_time /\ nitems_read' = nitems_read /\ skipped = TagState.skipped
  BY <1>2 DEF inputVars, callVars, TagState
<1> DEFINE t == extractTags(TagState, Begin)
<1>4. /\ Tidy(nitems_read, t) /\ TagState.skipped \subseteq t.skipped
      /\ \A p \in t.read : p < Begin + FrameLen
      /\ TimeOfFrame(NewFrame, t.skipped)
  BY FrameTags
<1>5. TagState'.lastupdate = t.lastupdate /\ TagState'.last_rx_time = t.last_rx_time
      /\ TagState'.read = t.read /\ TagState'.skipped = t.skipped
      /\ tags_read' = t.read /\ skipped' = t.skipped
  BY <1>2, SetTagState DEF SetTags
<1> HIDE DEF t
<1>6. TagsTidy'
  BY <1>2, <1>3, <1>4, <1>5 DEF TagsTidy, Tidy, NextTag, Larger
<1>7. ReadSoFar'
  <2>1. BitsInv' /\ TagsRead'
    BY <1>1, BitsInductive, TagsInductive
  <2>2. Begin' = End' /\ End' \in Nat
    <3>1. End' \in Nat
      BY <1>1, <1>2, LeftBase, Lengths
    <3>2. Begin' = End' - 0
      BY <1>2 DEF Begin
    <3> DEFINE z == End'
    <3>3. z \in Nat /\ Begin' = z - 0
      BY <3>1, <3>2
    <3> HIDE DEF z
    <3>4. Begin' = z
      BY <3>3
    <3> QED BY <3>3, <3>4 DEF z
  <2>3. \A p \in tags_read' : p \in Nat /\ p < End'
    <3>1. tags_read' \subseteq rx_time' /\ rx_time' \subseteq Nat
      <4>1. TagsOf(TagState)' /\ (rx_time \in SUBSET (0 .. StreamLen - 1))'
        BY <2>1 DEF TagsRead
      <4>2. tags_read' \subseteq rx_time'
        BY <4>1 DEF TagsOf, TagState
      <4> QED BY <4>1, <4>2
    <3> QED BY <1>2, <1>4, <1>5, <3>1
  <2>4. \A p \in tags_read' : p < Begin' + FrameLen
    BY <2>2, <2>3, Lengths
  <2> QED BY <1>2, <2>3, <2>4 DEF ReadSoFar
<1>8. FrameTimes'
  <2>1. Frames' = Append(Frames, NewFrame) /\ Frames \in Seq(FrameMessage \cup {EOF})
    BY <1>1, <1>2, FramesStep, NewFrameWhole DEF Frames, SentInv
  <2>2. /\ Len(Frames) \in Nat /\ Len(Frames') = Len(Frames) + 1
        /\ \A i \in 1 .. Len(Frames) + 1 :
             Frames'[i] = IF i <= Len(Frames) THEN Frames[i] ELSE NewFrame
    BY <2>1
  <2>3. \A i \in 1 .. Len(Frames) : TimeOfFrame(Frames[i], t.skipped)
    BY <1>3, <1>4, FrameTimesMore DEF TimesInv, FrameTimes
  <2>4. ASSUME NEW i \in 1 .. Len(Frames')
        PROVE  TimeOfFrame(Frames'[i], t.skipped)
    <3>1. CASE i <= Len(Frames)
      <4>1. i \in 1 .. Len(Frames) /\ Frames'[i] = Frames[i]
        BY <2>2, <3>1
      <4> QED BY <2>3, <4>1
    <3>2. CASE ~ (i <= Len(Frames))
      <4>1. Frames'[i] = NewFrame
        BY <2>2, <3>2
      <4> QED BY <1>4, <4>1
    <3> QED BY <3>1, <3>2
  <2> QED BY <1>3, <1>5, <2>4 DEF FrameTimes, TimeOfFrame
<1> QED BY <1>6, <1>7, <1>8 DEF TimesInv

\* A call begins.
LEMMA TimesWork ==
  ASSUME ResolverInv, TimesInv, NEW n \in 1 .. MaxRead, Work(n)
  PROVE  TimesInv'
<1>1. BitsInv /\ TagsRead
  BY DEF ResolverInv
<1>2. /\ mode = "idle" /\ mode' = "work"
      /\ UNCHANGED <<rx_time, nitems_read, state, tags_read, msg_buffer, msg_buffer_fill>>
      /\ TagState' = TagState /\ Frames' = Frames
  BY DEF Work, inputVars, syncVars, tagVars, TagState, Frames
<1>3. base' = base /\ End' = End /\ Begin' = Begin
  <2>1. base' = base /\ End' = End
    BY <1>1, BitsCall
  <2> QED BY <1>2, <2>1 DEF Begin
<1>4. ReadSoFar'
  BY <1>2, <1>3 DEF TimesInv, ReadSoFar
<1> QED BY <1>2, <1>4, TimesQuiet DEF TimesInv

\* The update at the end of a call reads the tags of the bits consumed, or
\* skips the one at the first bit of the next call.
LEMMA TimesReturn ==
  ASSUME ResolverInv, TimesInv, WorkReturn
  PROVE  TimesInv'
<1>1. BitsInv /\ TagsRead
  BY DEF ResolverInv
<1> DEFINE N == nitems_read
           t == updateTags(TagState, base)
<1>2. /\ mode = "work" /\ mode' = "idle" /\ nitems_read' = base /\ SetTags(t)
      /\ UNCHANGED <<rx_time, state, msg_buffer, msg_buffer_fill>>
      /\ Frames' = Frames
  BY DEF WorkReturn, inputVars, syncVars, Frames
<1>3. base' = base /\ End' = End /\ Begin' = Begin
  <2>1. base' = base /\ End' = End
    BY <1>1, BitsCall
  <2> QED BY <1>2, <2>1 DEF Begin
<1>4. /\ rx_time \subseteq Nat /\ N \in Nat /\ base \in Nat /\ N <= base
      /\ End \in Nat /\ base <= End /\ End < base + LdM
  BY <1>1, TagNumbers
<1>5. TagsOf(TagState) /\ rx_time \in SUBSET (0 .. StreamLen - 1)
      /\ TagState.read = tags_read /\ TagState.skipped = skipped
  BY <1>1 DEF TagsRead, TagState
<1>6. /\ TagsOf(t) /\ Tidy(N, t) /\ skipped \subseteq t.skipped
      /\ \A p \in rx_time : p < base => p \in t.read \cup t.skipped
      /\ \A p \in t.read : p > t.last_rx_time => p \in t.skipped \/ (p >= NextTag(N, t) /\ p >= base)
      /\ \A p \in t.read : p \in Nat /\ (p \in tags_read \/ p < base)
  BY <1>4, <1>5, UpdateTagsOf, UpdateTidy, UpdateReads DEF TimesInv, TagsTidy
<1>7. /\ tags_read' = t.read /\ skipped' = t.skipped
      /\ TagState'.lastupdate = t.lastupdate /\ TagState'.last_rx_time = t.last_rx_time
      /\ TagState'.read = t.read /\ TagState'.skipped = t.skipped
  BY <1>2, SetTagState DEF SetTags
<1>8. t.lastupdate \in Nat /\ t.read \subseteq rx_time
  BY <1>6 DEF TagsOf
<1> HIDE DEF t
<1>9. TagsTidy'
  <2>1. \A p \in rx_time : p < NextTag(N, t) => p \in t.read \cup t.skipped
    BY <1>6 DEF Tidy
  <2> DEFINE G == Larger(base, t.lastupdate + 1)
  <2>2. G \in Nat /\ G = (IF base < t.lastupdate + 1 THEN t.lastupdate + 1 ELSE base)
    BY <1>4, <1>8 DEF Larger
  <2> HIDE DEF G
  <2>3. NextTag(N, t) \in Nat /\ NextTag(N, t) >= t.lastupdate + 1
    BY <1>4, <1>8 DEF NextTag, Larger
  <2>4. ASSUME NEW p \in rx_time, p < G
        PROVE  p \in t.read \cup t.skipped
    <3>1. p \in Nat /\ (p < base \/ p < NextTag(N, t))
      BY <1>4, <1>8, <2>2, <2>3, <2>4
    <3> QED BY <1>6, <2>1, <3>1
  <2>5. ASSUME NEW p \in t.read, p > t.last_rx_time
        PROVE  p >= G \/ p \in t.skipped
    <3>1. p \in Nat /\ (p \in t.skipped \/ (p >= NextTag(N, t) /\ p >= base))
      BY <1>6, <2>5
    <3> QED BY <1>4, <1>8, <2>2, <2>3, <3>1
  <2>6. NextTag(nitems_read, TagState)' = G
    BY <1>2, <1>7 DEF NextTag, G
  <2> QED BY <1>2, <1>7, <2>4, <2>5, <2>6 DEF TagsTidy, Tidy
<1>10. ReadSoFar'
  <2>1. CASE state = "SEARCH"
    <3>1. \A p \in tags_read : p < base + LdM
      BY <2>1 DEF TimesInv, ReadSoFar
    <3>2. \A p \in t.read : p < base + LdM
      BY <1>4, <1>6, <3>1, Lengths
    <3> QED BY <1>2, <1>3, <1>7, <2>1, <3>2 DEF ReadSoFar
  <2>2. CASE state = "LOCK" /\ ~ msg_buffer_fill
    <3>1. \A p \in tags_read : p < End /\ p < Begin + FrameLen
      BY <2>2 DEF TimesInv, ReadSoFar
    <3>2. base < Begin + FrameLen
      BY <1>1, FrameReach
    <3>3. \A p \in t.read : p < End /\ p < Begin + FrameLen
      <4>1. ASSUME NEW p \in t.read
            PROVE  p < End
        BY <1>4, <1>6, <3>1
      <4>2. ASSUME NEW p \in t.read
            PROVE  p < Begin + FrameLen
        <5>1. Begin \in Nat
          BY <1>1, LeftBase
        <5> QED BY <1>4, <1>6, <3>1, <3>2, <5>1, Lengths
      <4> QED BY <4>1, <4>2
    <3> QED BY <1>2, <1>3, <1>7, <2>2, <3>3 DEF ReadSoFar
  <2>3. CASE state = "LOCK" /\ msg_buffer_fill
    <3>1. \A p \in tags_read : p < Begin + FrameLen
      BY <2>3 DEF TimesInv, ReadSoFar
    <3>2. base < Begin + FrameLen /\ Begin \in Nat
      BY <1>1, FrameReach, LeftBase
    <3>3. \A p \in t.read : p < Begin + FrameLen
      BY <1>4, <1>6, <3>1, <3>2, Lengths
    <3> QED BY <1>2, <1>3, <1>7, <2>3, <3>3 DEF ReadSoFar
  <2>4. state \in {"SEARCH", "LOCK"}
    BY <1>1 DEF BitsInv, LockBits
  <2> QED BY <2>1, <2>2, <2>3, <2>4
<1>11. FrameTimes'
  <2>1. \A i \in 1 .. Len(Frames) : TimeOfFrame(Frames[i], t.skipped)
    BY <1>6, FrameTimesMore DEF TimesInv, FrameTimes
  <2> QED BY <1>2, <1>7, <2>1 DEF FrameTimes, TimeOfFrame
<1> QED BY <1>9, <1>10, <1>11 DEF TimesInv

\* Every step keeps the invariant of the times.
LEMMA TimesInductive ==
  ASSUME ResolverInv, TimesInv, [Next]_vars
  PROVE  TimesInv'
<1>1. CASE UNCHANGED vars
  <2>1. UNCHANGED rx_time /\ nitems_read' = nitems_read /\ TagState' = TagState /\ Frames' = Frames
    BY <1>1 DEF vars, inputVars, callVars, tagVars, TagState, Frames
  <2>2. ReadSoFar'
    BY <1>1 DEF vars, callVars, syncVars, tagVars, fillVars, TimesInv, ReadSoFar, base, End, Begin
  <2> QED BY <2>1, <2>2, TimesQuiet DEF TimesInv
<1>2. CASE Stop
  <2>1. /\ mode = "idle" /\ mode' = "stopped" /\ UNCHANGED <<nitems_read, rx_time>>
        /\ UNCHANGED syncVars /\ UNCHANGED tagVars /\ UNCHANGED fillVars
        /\ TagState' = TagState
    BY <1>2 DEF Stop, inputVars, tagVars, TagState
  <2>2. Frames' = Frames
    <3>1. ~ Sends
      BY <2>1, FillParts DEF Sends
    <3> QED BY <3>1, <1>2, FramesStep DEF ResolverInv
  <2>3. ReadSoFar'
    BY <2>1 DEF syncVars, tagVars, fillVars, TimesInv, ReadSoFar, base, End, Begin
  <2> QED BY <2>1, <2>2, <2>3, TimesQuiet DEF TimesInv
<1>3. CASE Fill
  BY <1>3, TimesSend, TimesFillPart DEF Sends
<1> QED BY <1>1, <1>2, <1>3, TimesWork, TimesReturn, TimesFound, TimesSkipped, TimesKept, TimesLost
        DEF Next

\* No tag is before the first bit.
LEMMA TimesInit == Init => TimesInv
<1> SUFFICES ASSUME Init PROVE TimesInv
  OBVIOUS
<1>1. /\ nitems_read = 0 /\ state = "SEARCH"
      /\ tag_lastupdate = 0 /\ tag_last_rx_time = NoTag /\ tags_read = {}
      /\ skipped = rx_time \cap {0} /\ out = <<>>
  BY DEF Init
<1>2. rx_time \subseteq Nat
  BY ResolverAssumption DEF Init, TagRecord
<1>3. NextTag(nitems_read, TagState) = 1
  BY <1>1 DEF NextTag, Larger, TagState
<1>4. TagsTidy
  <2>1. \A p \in rx_time : p < 1 => p \in skipped
    BY <1>1, <1>2
  <2> QED BY <1>1, <1>3, <2>1 DEF TagsTidy, Tidy, TagState
<1>5. FrameTimes
  BY <1>1 DEF FrameTimes, Frames, Init
<1>6. ReadSoFar
  BY <1>1 DEF ReadSoFar
<1> QED BY <1>4, <1>5, <1>6 DEF TimesInv

\* A frame without a tag behind its first bit has the time of its first bit, no
\* frame is given the time of a tag long past, and every tag of the bits consumed
\* has been read when general_work returns; but for the tags that updateTags
\* skips.
THEOREM ResolverFrameTime == Spec => []FrameTimeFromLastTag
<1>1. TimesInv /\ ResolverInv => FrameTimeFromLastTag
  <2> SUFFICES ASSUME TimesInv, ResolverInv PROVE FrameTimeFromLastTag
    OBVIOUS
  <2>1. rx_time \subseteq Nat /\ nitems_read \in Nat /\ tag_lastupdate \in Nat
    BY TagNumbers DEF ResolverInv
  <2>2. ASSUME NEW i \in 1 .. Len(Frames), Frames[i].reference # NoTag
        PROVE  /\ ~ TagInside(Frames[i]) => Frames[i].time = Frames[i].offset
               /\ ~ \E p \in rx_time \ skipped : Frames[i].reference < p /\ p < Frames[i].offset
    <3> DEFINE f == Frames[i]
    <3>1. TimeOfFrame(f, skipped) /\ f \in FrameMessage
      BY DEF TimesInv, FrameTimes, ResolverInv, SentInv
    <3>2. f.offset \in Nat
      BY <3>1 DEF FrameMessage
    <3>3. f.reference # NoTag
      BY <2>2
    <3> HIDE DEF f
    <3>4. /\ f.reference < f.offset + FrameLen /\ f.reference \in rx_time
          /\ f.reference <= f.offset => f.time = f.offset
          /\ \A p \in rx_time : p < f.offset => p <= f.reference \/ p \in skipped
      BY <3>1, <3>3 DEF TimeOfFrame
    <3>5. f.reference \in Nat
      BY <2>1, <3>4
    <3>6. \A p \in rx_time \ skipped : ~ (f.reference < p /\ p < f.offset)
      BY <2>1, <3>4, <3>5
    <3>7. ~ TagInside(f) => f.reference <= f.offset
      BY <3>2, <3>4, <3>5 DEF TagInside
    <3> QED BY <3>4, <3>6, <3>7 DEF f
  <2>3. ASSUME mode = "idle", NEW p \in rx_time, p < nitems_read
        PROVE  p \in tags_read \cup skipped
    <3>1. p < NextTag(nitems_read, TagState)
      BY <2>1, <2>3 DEF NextTag, Larger, TagState
    <3> QED BY <3>1 DEF TimesInv, TagsTidy, Tidy, TagState
  <2> QED BY <2>2, <2>3 DEF FrameTimeFromLastTag
<1>2. TimesInv /\ ResolverInv /\ [Next]_vars => TimesInv'
  BY TimesInductive
<1> QED BY <1>1, <1>2, TimesInit, ResolverInvariant, PTL DEF Spec
=============================================================================
