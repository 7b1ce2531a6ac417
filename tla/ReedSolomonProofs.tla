-------------------------- MODULE ReedSolomonProofs --------------------------
(***************************************************************************)
(* What ReedSolomon promises, for every depth, code and burst: the two      *)
(* interleavings of the encoder and the one of the decoder fit together,    *)
(* and a frame hit by a burst of up to d_I * E bytes is restored.           *)
(***************************************************************************)
EXTENDS ReedSolomon, FiniteSetTheorems, FunctionTheorems, TLAPS

-----------------------------------------------------------------------------
(* Arithmetic *)

LEMMA ProductNat == ASSUME NEW a \in Nat, NEW b \in Nat PROVE a * b \in Nat
  OBVIOUS

LEMMA ProductMonotone ==
  ASSUME NEW a \in Int, NEW b \in Int, NEW c \in Nat, a <= b
  PROVE  a * c <= b * c
<1>1. (b - a) * c = b * c - a * c  OBVIOUS
<1>2. b - a \in Nat  OBVIOUS
<1>3. (b - a) * c \in Nat  BY <1>2
<1> QED  BY <1>1, <1>3

LEMMA QuotientRemainder ==
  ASSUME NEW a \in Nat, NEW m \in Nat \ {0}
  PROVE  /\ a \div m \in Nat /\ a % m \in 0 .. m - 1
         /\ a = (a \div m) * m + (a % m)
  OBVIOUS

\* Quotient and remainder are unique
LEMMA Unique ==
  ASSUME NEW m \in Nat \ {0}, NEW q \in Nat, NEW r \in 0 .. m - 1,
         NEW s \in Nat, NEW t \in 0 .. m - 1, q * m + r = s * m + t
  PROVE  q = s /\ r = t
<1>1. ASSUME q < s PROVE FALSE
  <2>1. (q + 1) * m <= s * m  BY <1>1, ProductMonotone
  <2>2. (q + 1) * m = q * m + m  OBVIOUS
  <2> QED  BY <2>1, <2>2
<1>2. ASSUME s < q PROVE FALSE
  <2>1. (s + 1) * m <= q * m  BY <1>2, ProductMonotone
  <2>2. (s + 1) * m = s * m + m  OBVIOUS
  <2> QED  BY <2>1, <2>2
<1>3. q = s  BY <1>1, <1>2
<1> QED  BY <1>3

LEMMA DivMod ==
  ASSUME NEW m \in Nat \ {0}, NEW q \in Nat, NEW r \in 0 .. m - 1
  PROVE  (q * m + r) \div m = q /\ (q * m + r) % m = r
<1> DEFINE a == q * m + r
<1>1. a \in Nat  BY ProductNat
<1>2. /\ a \div m \in Nat /\ a % m \in 0 .. m - 1 /\ a = (a \div m) * m + (a % m)
  BY <1>1, QuotientRemainder
<1> HIDE DEF a
<1>3. a = q * m + r  BY DEF a
<1>4. a \div m = q /\ a % m = r  BY <1>2, <1>3, Unique
<1> QED  BY <1>4 DEF a

\* A pair of indices is an index of a table with its row in front
LEMMA InTable ==
  ASSUME NEW rows \in Nat \ {0}, NEW width \in Nat \ {0},
         NEW row \in 0 .. rows - 1, NEW column \in 0 .. width - 1
  PROVE  row * width + column \in 0 .. rows * width - 1
<1>1. (row + 1) * width <= rows * width  BY ProductMonotone
<1>2. (row + 1) * width = row * width + width  OBVIOUS
<1>3. row * width \in Nat /\ rows * width \in Nat  BY ProductNat
<1> QED  BY <1>1, <1>2, <1>3

LEMMA OfTable ==
  ASSUME NEW rows \in Nat \ {0}, NEW width \in Nat \ {0}, NEW p \in 0 .. rows * width - 1
  PROVE  p \div width \in 0 .. rows - 1 /\ p % width \in 0 .. width - 1
         /\ p = (p \div width) * width + (p % width)
<1>0. rows * width \in Nat  BY ProductNat
<1>1. /\ p \div width \in Nat /\ p % width \in 0 .. width - 1
      /\ p = (p \div width) * width + (p % width)
  BY <1>0, QuotientRemainder
<1>2. ASSUME rows <= p \div width PROVE FALSE
  <2>1. rows * width <= (p \div width) * width  BY <1>1, <1>2, ProductMonotone
  <2>2. (p \div width) * width \in Nat  BY <1>1, ProductNat
  <2> QED  BY <1>0, <1>1, <2>1, <2>2
<1> QED  BY <1>1, <1>2

-----------------------------------------------------------------------------
(* Interleaving *)

\* Row and column of a table change places
LEMMA Transposed ==
  ASSUME NEW width \in Nat \ {0}, NEW b \in 0 .. d_I - 1, NEW j \in 0 .. width - 1
  PROVE  interl_indx(b * width + j, d_I, width * d_I) = j * d_I + b
<1> DEFINE max == width * d_I - 1
           index == b * width + j
           place == j * d_I + b
<1>0. d_I \in Nat \ {0} /\ b \in Nat /\ j \in Nat  BY CodeAssumption
<1>1. index \in 0 .. max
  <2>1. b * width + j \in 0 .. d_I * width - 1  BY <1>0, InTable
  <2> QED  BY <2>1, <1>0
<1>2. place \in 0 .. max  BY <1>0, InTable
<1>3. max \in Nat  BY <1>0, <1>1
<1>4. CASE index = max
  <2>1. (d_I - 1) * width + (width - 1) = b * width + j
    <3>1. (d_I - 1) * width = d_I * width - width  BY <1>0
    <3> QED  BY <3>1, <1>4, <1>0
  <2>2. b = d_I - 1 /\ j = width - 1  BY <2>1, <1>0, Unique
  <2>3. (width - 1) * d_I = width * d_I - d_I  BY <1>0
  <2>4. place = max  BY <2>2, <2>3, <1>0
  <2> QED  BY <1>4, <2>4 DEF interl_indx
<1>5. CASE index # max
  <2>1. place # max
    <3>1. SUFFICES ASSUME place = max PROVE FALSE  OBVIOUS
    <3>2. (width - 1) * d_I + (d_I - 1) = j * d_I + b
      <4>1. (width - 1) * d_I = width * d_I - d_I  BY <1>0
      <4> QED  BY <4>1, <3>1, <1>0
    <3>3. j = width - 1 /\ b = d_I - 1  BY <3>2, <1>0, Unique
    <3>4. (d_I - 1) * width = d_I * width - width  BY <1>0
    <3> QED  BY <3>3, <3>4, <1>5, <1>0
  <2>2. place \in 0 .. max - 1 /\ max \in Nat \ {0}  BY <2>1, <1>2, <1>3, <1>1, <1>5
  <2>3. index * d_I = b * max + place
    <3>1. index * d_I = b * width * d_I + j * d_I  BY <1>0
    <3>2. b * max = b * width * d_I - b  BY <1>0
    <3> QED  BY <3>1, <3>2, <1>0
  <2> HIDE DEF place
  <2>4. (b * max + place) % max = place  BY <2>2, <1>0, DivMod
  <2>5. (index * d_I) % max = place  BY <2>3, <2>4
  <2> QED  BY <1>5, <2>5 DEF interl_indx, place
<1> QED  BY <1>4, <1>5

\* Writing to the transposed place: what was at row b, column j is at j, b
LEMMA InterleavedAt ==
  ASSUME NEW width \in Nat \ {0}, NEW data, NEW b \in 0 .. d_I - 1, NEW j \in 0 .. width - 1
  PROVE  Interleaved(data, width * d_I)[j * d_I + b] = data[b * width + j]
<1> DEFINE len == width * d_I
           p == j * d_I + b
           Place(i) == interl_indx(i, d_I, len) = p
<1>0. d_I \in Nat \ {0} /\ b \in Nat /\ j \in Nat  BY CodeAssumption
<1>1. p \in Indices(len)  BY <1>0, InTable DEF Indices
<1>2. b * width + j \in Indices(len)
  <2>1. b * width + j \in 0 .. d_I * width - 1  BY <1>0, InTable
  <2>2. d_I * width = width * d_I  BY <1>0
  <2> QED  BY <2>1, <2>2 DEF Indices
<1>3. Place(b * width + j)  BY Transposed
<1>4. ASSUME NEW i \in Indices(len), Place(i) PROVE i = b * width + j
  <2>1. i \in 0 .. d_I * width - 1
    <3>1. d_I * width = width * d_I  BY <1>0
    <3> QED  BY <3>1 DEF Indices
  <2> DEFINE c == i \div width
             k == i % width
  <2>2. c \in 0 .. d_I - 1 /\ k \in 0 .. width - 1 /\ i = c * width + k
    BY <2>1, <1>0, OfTable
  <2> HIDE DEF c, k
  <2>3. interl_indx(c * width + k, d_I, width * d_I) = k * d_I + c  BY <2>2, Transposed
  <2>4. k * d_I + c = j * d_I + b  BY <2>2, <2>3, <1>4
  <2>5. k = j /\ c = b  BY <2>2, <2>4, <1>0, Unique
  <2> QED  BY <2>2, <2>5
<1> HIDE DEF Place
<1>5. (CHOOSE i \in Indices(len) : Place(i)) = b * width + j  BY <1>2, <1>3, <1>4
<1>6. Interleaved(data, len)[p] = data[CHOOSE i \in Indices(len) : Place(i)]
  BY <1>1 DEF Interleaved, Place
<1> QED  BY <1>5, <1>6

-----------------------------------------------------------------------------
(* The codeblocks of a frame *)

LEMMA Lengths ==
  /\ d_I \in Nat \ {0} /\ d_k \in Nat \ {0} /\ E \in Nat \ {0}
  /\ d_2E \in Nat \ {0} /\ d_n \in Nat \ {0} /\ d_n = d_k + d_2E
  /\ d_DATA_LEN \in Nat /\ d_PARITY_LEN \in Nat
  /\ d_DATA_LEN = d_k * d_I /\ d_PARITY_LEN = d_2E * d_I
  /\ d_OUT_LEN = d_DATA_LEN + d_PARITY_LEN /\ d_OUT_LEN = d_n * d_I
  /\ d_IN_LEN = d_n * d_I
<1>1. d_I \in Nat \ {0} /\ d_k \in Nat \ {0} /\ E \in Nat \ {0}  BY CodeAssumption
<1>2. d_2E \in Nat \ {0} /\ d_n \in Nat \ {0} /\ d_n = d_k + d_2E  BY <1>1 DEF d_2E, d_n
<1>3. /\ d_DATA_LEN = d_k * d_I /\ d_PARITY_LEN = d_2E * d_I
      /\ d_DATA_LEN \in Nat /\ d_PARITY_LEN \in Nat
  BY <1>1, <1>2, ProductNat DEF d_DATA_LEN, d_PARITY_LEN
<1>4. d_n * d_I = d_k * d_I + d_2E * d_I  BY <1>1, <1>2
<1>5. d_I * d_2E = d_2E * d_I  BY <1>1, <1>2
<1> QED  BY <1>1, <1>2, <1>3, <1>4, <1>5 DEF d_OUT_LEN, d_IN_LEN

LEMMA CodeblockDataAt ==
  ASSUME NEW data, NEW b \in Indices(d_I), NEW j \in Indices(d_k)
  PROVE  CodeblockData(data, b)[j] = data[j * d_I + b]
<1>1. interl_indx(b * d_k + j, d_I, d_DATA_LEN) = j * d_I + b
  BY Lengths, Transposed DEF Indices
<1> QED  BY <1>1 DEF CodeblockData

\* What leaves the encoder at column b of row j is symbol j of codeword b
LEMMA EncodedAt ==
  ASSUME NEW data, NEW b \in Indices(d_I), NEW j \in Indices(d_n)
  PROVE  /\ j * d_I + b \in Indices(d_OUT_LEN)
         /\ Encoded(data)[j * d_I + b] = Codeword(CodeblockData(data, b))[j]
<1> DEFINE p == j * d_I + b
<1>0. b \in 0 .. d_I - 1 /\ j \in 0 .. d_n - 1 /\ b \in Nat /\ j \in Nat /\ p \in Nat
  BY Lengths, ProductNat DEF Indices
<1>1. p \in Indices(d_OUT_LEN)  BY <1>0, Lengths, InTable DEF Indices
<1>2. CASE j < d_k
  <2>1. j \in 0 .. d_k - 1 /\ j \in Indices(d_k)  BY <1>0, <1>2, Lengths DEF Indices
  <2>2. p \in 0 .. d_k * d_I - 1  BY <2>1, <1>0, Lengths, InTable
  <2>3. p < d_DATA_LEN  BY <2>2, <1>0, Lengths
  <2>4. Encoded(data)[p] = data[p]  BY <1>1, <2>3 DEF Encoded
  <2>5. Codeword(CodeblockData(data, b))[j] = CodeblockData(data, b)[j]  BY <1>2 DEF Codeword
  <2> QED  BY <1>1, <2>1, <2>4, <2>5, CodeblockDataAt
<1>3. CASE j >= d_k
  <2> DEFINE jj == j - d_k
             i == b * d_2E + jj
  <2>1. jj \in 0 .. d_2E - 1  BY <1>0, <1>3, Lengths
  <2>2. p - d_DATA_LEN = jj * d_I + b
    <3>1. jj * d_I = j * d_I - d_k * d_I  BY <1>0, Lengths
    <3> QED  BY <3>1, <1>0, Lengths
  <2>3. ~(p < d_DATA_LEN)
    <3>1. jj * d_I \in Nat  BY <2>1, Lengths, ProductNat
    <3> HIDE DEF jj
    <3> QED  BY <3>1, <2>2, <1>0, Lengths
  <2>4. Encoded(data)[p] = Interleaved(Parity(data), d_PARITY_LEN)[p - d_DATA_LEN]
    BY <1>1, <2>3 DEF Encoded
  <2>5. Interleaved(Parity(data), d_PARITY_LEN)[jj * d_I + b] = Parity(data)[i]
    <3> HIDE DEF jj
    <3>1. d_2E \in Nat \ {0} /\ d_PARITY_LEN = d_2E * d_I  BY Lengths
    <3>2. Interleaved(Parity(data), d_2E * d_I)[jj * d_I + b] = Parity(data)[b * d_2E + jj]
      BY <2>1, <1>0, <3>1, InterleavedAt
    <3> QED  BY <3>1, <3>2
  <2>6. i \in Indices(d_PARITY_LEN)
    <3>1. i \in 0 .. d_I * d_2E - 1  BY <2>1, <1>0, Lengths, InTable
    <3>2. d_I * d_2E = d_2E * d_I  BY Lengths
    <3> QED  BY <3>1, <3>2, Lengths DEF Indices
  <2>7. i \div d_2E = b /\ i % d_2E = jj  BY <2>1, <1>0, Lengths, DivMod
  <2>8. Parity(data)[i] = ParitySymbol(CodeblockData(data, b), jj)  BY <2>6, <2>7 DEF Parity
  <2>9. Codeword(CodeblockData(data, b))[j] = ParitySymbol(CodeblockData(data, b), jj)
    BY <1>0, <1>3, Lengths DEF Codeword
  <2> QED  BY <1>1, <2>2, <2>4, <2>5, <2>8, <2>9
<1> QED  BY <1>0, <1>2, <1>3, Lengths

-----------------------------------------------------------------------------
(* A burst in a codeblock *)

\* The received message, seen from the decoder
LEMMA WordAt ==
  ASSUME NEW f, NEW first \in Nat, NEW burst \in Nat, NEW len \in Int, len >= d_IN_LEN,
         NEW b \in Indices(d_I), NEW j \in Indices(d_n),
         j * d_I + b \notin first .. first + burst - 1
  PROVE  Word(Received(Message(f), first, burst, len).bytes, b)[j]
           = Codeword(CodeblockData(Frame(f), b))[j]
<1> DEFINE p == j * d_I + b
           bytes == Received(Message(f), first, burst, len).bytes
<1>1. p \in Indices(d_OUT_LEN) /\ Encoded(Frame(f))[p] = Codeword(CodeblockData(Frame(f), b))[j]
  BY EncodedAt
<1>2. p \in Indices(len) /\ ~(p >= d_OUT_LEN)  BY <1>1, Lengths DEF Indices
<1>3. bytes = [q \in Indices(len) |->
                 IF q \in first .. first + burst - 1 \/ q >= d_OUT_LEN THEN Noise
                 ELSE Encoded(Frame(f))[q]]
  BY DEF Received, Message
<1>4. bytes[p] = Encoded(Frame(f))[p]  BY <1>2, <1>3
<1>5. interl_indx(b * d_n + j, d_I, d_IN_LEN) = p  BY Lengths, Transposed DEF Indices
<1>6. Word(bytes, b)[j] = bytes[p]  BY <1>5 DEF Word
<1> QED  BY <1>1, <1>4, <1>6

\* Of d_I * E consecutive bytes, at most E are in one codeblock
LEMMA FewErrors ==
  ASSUME NEW f, NEW first \in Nat, NEW burst \in Nat, NEW len \in Int, len >= d_IN_LEN,
         burst <= d_I * E, NEW b \in Indices(d_I)
  PROVE  Cardinality(Errors(Word(Received(Message(f), first, burst, len).bytes, b),
                            CodeblockData(Frame(f), b))) <= E
<1> DEFINE errors == Errors(Word(Received(Message(f), first, burst, len).bytes, b),
                            CodeblockData(Frame(f), b))
           total == first + (d_I - 1 - b)
           low == total \div d_I
<1>0. b \in Nat /\ b <= d_I - 1 /\ d_I \in Nat \ {0} /\ E \in Nat \ {0} /\ d_n \in Nat
      /\ total \in Nat
  BY Lengths DEF Indices
<1>1. low \in Nat /\ total % d_I \in 0 .. d_I - 1 /\ total = low * d_I + (total % d_I)
  BY <1>0, QuotientRemainder
<1> DEFINE start == low * d_I
<1>2. start \in Nat /\ start <= total /\ start >= first - b
  <2>1. start \in Nat  BY <1>0, <1>1, ProductNat
  <2> QED  BY <2>1, <1>0, <1>1
<1> HIDE DEF low, start
<1>3. ASSUME NEW j \in errors PROVE j \in low .. low + E - 1
  <2>1. j \in Indices(d_n) /\ j * d_I + b \in first .. first + burst - 1
    BY <1>3, WordAt DEF Errors
  <2>2. j \in Nat  BY <2>1, <1>0 DEF Indices
  <2>3. low <= j
    <3>1. SUFFICES ASSUME j + 1 <= low PROVE FALSE  BY <2>2, <1>1
    <3>2. (j + 1) * d_I <= low * d_I  BY <3>1, <2>2, <1>0, <1>1, ProductMonotone
    <3>3. (j + 1) * d_I = j * d_I + d_I  BY <2>2, <1>0
    <3>4. j * d_I \in Nat  BY <2>2, <1>0, ProductNat
    <3> QED  BY <3>2, <3>3, <3>4, <2>1, <1>0, <1>2 DEF start
  <2>4. j <= low + E - 1
    <3>1. SUFFICES ASSUME low + E <= j PROVE FALSE  BY <2>2, <1>0, <1>1
    <3>2. (low + E) * d_I <= j * d_I  BY <3>1, <2>2, <1>0, <1>1, ProductMonotone
    <3>3. (low + E) * d_I = low * d_I + d_I * E  BY <1>0, <1>1
    <3>4. j * d_I \in Nat /\ d_I * E \in Nat  BY <2>2, <1>0, ProductNat
    <3> QED  BY <3>2, <3>3, <3>4, <2>1, <1>0, <1>2 DEF start
  <2> QED  BY <2>2, <2>3, <2>4, <1>0, <1>1
<1>4. IsFiniteSet(low .. low + E - 1) /\ Cardinality(low .. low + E - 1) = E
  <2>1. low \in Int /\ low + E - 1 \in Int /\ ~(low > low + E - 1)
        /\ (low + E - 1) - low + 1 = E
    BY <1>0, <1>1
  <2> QED  BY <2>1, FS_Interval
<1>5. Cardinality(errors) <= Cardinality(low .. low + E - 1)
  <2>1. errors \in SUBSET (low .. low + E - 1)  BY <1>3
  <2> QED  BY <2>1, <1>4, FS_Subset
<1> QED  BY <1>4, <1>5

-----------------------------------------------------------------------------
(* The code: only one word is near *)

LEMMA ErrorsFinite ==
  ASSUME NEW word, NEW data
  PROVE  IsFiniteSet(Errors(word, data)) /\ Cardinality(Errors(word, data)) \in Nat
<1>1. Errors(word, data) \in SUBSET (0 .. d_n - 1)  BY DEF Errors, Indices
<1>2. IsFiniteSet(0 .. d_n - 1)
  <2>1. 0 \in Int /\ d_n - 1 \in Int  BY Lengths
  <2> QED  BY <2>1, FS_Interval
<1> QED  BY <1>1, <1>2, FS_Subset, FS_CardinalityType

LEMMA NearUnique ==
  ASSUME NEW word, NEW data, NEW other,
         data = [j \in Indices(d_k) |-> data[j]], other = [j \in Indices(d_k) |-> other[j]],
         Cardinality(Errors(word, data)) <= E, Cardinality(Errors(word, other)) <= E
  PROVE  data = other
<1> SUFFICES ASSUME data # other PROVE FALSE  OBVIOUS
<1> DEFINE both == Errors(word, data) \cup Errors(word, other)
           parity == d_k .. d_n - 1
<1>0. d_k \in Nat \ {0} /\ d_2E \in Nat \ {0} /\ d_n \in Nat /\ d_n = d_k + d_2E  BY Lengths
<1>1. PICK i \in Indices(d_k) : data[i] # other[i]  OBVIOUS
<1>2. i \in Nat /\ i < d_k /\ i \in Indices(d_n)  BY <1>0 DEF Indices
<1>3. i \in both
  <2>1. Codeword(data)[i] = data[i] /\ Codeword(other)[i] = other[i]  BY <1>2 DEF Codeword
  <2> QED  BY <1>1, <1>2, <2>1 DEF Errors
<1>4. ASSUME NEW j \in parity PROVE j \in both
  <2>1. j \in Indices(d_n) /\ ~(j < d_k)  BY <1>0 DEF Indices
  <2>2. /\ Codeword(data)[j] = ParitySymbol(data, j - d_k)
        /\ Codeword(other)[j] = ParitySymbol(other, j - d_k)
    BY <2>1 DEF Codeword
  <2>3. ParitySymbol(data, j - d_k).of = data /\ ParitySymbol(other, j - d_k).of = other
    BY DEF ParitySymbol
  <2>4. ParitySymbol(data, j - d_k) # ParitySymbol(other, j - d_k)  BY <2>3
  <2> QED  BY <2>1, <2>2, <2>4 DEF Errors
<1>5. IsFiniteSet(parity) /\ Cardinality(parity) = 2 * E
  <2>1. d_k \in Int /\ d_n - 1 \in Int /\ ~(d_k > d_n - 1) /\ (d_n - 1) - d_k + 1 = 2 * E
    BY Lengths DEF d_n, d_2E
  <2> QED  BY <2>1, FS_Interval
<1>6. IsFiniteSet(parity \cup {i}) /\ Cardinality(parity \cup {i}) = 2 * E + 1
  <2>1. i \notin parity  BY <1>2, Lengths
  <2> QED  BY <2>1, <1>5, FS_AddElement
<1>7. /\ IsFiniteSet(both)
      /\ Cardinality(both) = Cardinality(Errors(word, data)) + Cardinality(Errors(word, other))
                             - Cardinality(Errors(word, data) \cap Errors(word, other))
  BY ErrorsFinite, FS_Union
<1>8. Cardinality(Errors(word, data) \cap Errors(word, other)) \in Nat
  <2>1. IsFiniteSet(Errors(word, data) \cap Errors(word, other))
    BY ErrorsFinite, FS_Subset
  <2> QED  BY <2>1, FS_CardinalityType
<1>9. Cardinality(parity \cup {i}) <= Cardinality(both)
  <2>1. (parity \cup {i}) \in SUBSET both  BY <1>3, <1>4
  <2> QED  BY <2>1, <1>7, FS_Subset
<1>10. Cardinality(Errors(word, data)) \in Nat /\ Cardinality(Errors(word, other)) \in Nat
  BY ErrorsFinite
<1> QED  BY <1>6, <1>7, <1>8, <1>9, <1>10, Lengths

-----------------------------------------------------------------------------
(* What the decoder finds *)

Own(f, b) == CodeblockData(Frame(f), b)
Words(m)  == [b \in Indices(d_I) |-> Word(m.bytes, b)]

LEMMA OwnFunction ==
  ASSUME NEW f, NEW b
  PROVE  Own(f, b) = [j \in Indices(d_k) |-> Own(f, b)[j]]
  BY DEF Own, CodeblockData

LEMMA NearOwn ==
  ASSUME NEW f, NEW b \in Indices(d_I), NEW word, Cardinality(Errors(word, Own(f, b))) <= E
  PROVE  Near(word, {Own(f, c) : c \in Indices(d_I)}) = {Own(f, b)}
<1>1. Own(f, b) \in Near(word, {Own(f, c) : c \in Indices(d_I)})  BY DEF Near
<1>2. ASSUME NEW data \in Near(word, {Own(f, c) : c \in Indices(d_I)})
      PROVE  data = Own(f, b)
  <2>1. PICK c \in Indices(d_I) : data = Own(f, c)  BY DEF Near
  <2>2. Cardinality(Errors(word, data)) <= E  BY DEF Near
  <2> QED  BY <2>1, <2>2, OwnFunction, NearUnique
<1> QED  BY <1>1, <1>2

\* A word that was hit is never taken for another codeblock of the frame
LEMMA NothingElseNear ==
  ASSUME NEW f \in Indices(MaxFrames), NEW first \in Nat, NEW burst \in Nat,
         NEW len \in Int, len >= d_IN_LEN, NEW b \in Indices(d_I),
         NEW data \in Near(Word(Received(Message(f), first, burst, len).bytes, b),
                           {Own(f, c) : c \in Indices(d_I)})
  PROVE  data = Own(f, b)
<1> DEFINE bytes == Received(Message(f), first, burst, len).bytes
           word  == Word(bytes, b)
           parity == d_k .. d_n - 1
<1>0. d_k \in Nat \ {0} /\ d_2E \in Nat \ {0} /\ d_n \in Nat /\ d_n = d_k + d_2E
      /\ d_2E = 2 * E /\ E \in Nat \ {0}
  BY Lengths DEF d_2E
<1> SUFFICES ASSUME data # Own(f, b) PROVE FALSE  OBVIOUS
<1>1. PICK c \in Indices(d_I) : data = Own(f, c)  BY DEF Near
<1>2. Cardinality(Errors(word, data)) <= E  BY DEF Near
<1>3. ASSUME NEW j \in parity PROVE j \in Errors(word, data)
  <2>1. j \in Indices(d_n) /\ ~(j < d_k) /\ j - d_k \in Indices(d_2E)  BY <1>0 DEF Indices
  <2>2. Codeword(data)[j] = ParitySymbol(Own(f, c), j - d_k)  BY <2>1, <1>1 DEF Codeword
  <2>3. word[j] # Codeword(data)[j]
    <3>1. CASE j * d_I + b \in first .. first + burst - 1
      <4>1. j * d_I + b \in Indices(d_OUT_LEN)  BY <2>1, EncodedAt
      <4>2. j * d_I + b \in Indices(len)  BY <4>1, Lengths DEF Indices
      <4>3. bytes[j * d_I + b] = Noise  BY <4>2, <3>1 DEF Received, Message
      <4>4. interl_indx(b * d_n + j, d_I, d_IN_LEN) = j * d_I + b
        BY <2>1, Lengths, Transposed DEF Indices
      <4>5. word[j] = Noise  BY <2>1, <4>3, <4>4 DEF Word
      <4> QED  BY <4>5, <2>1, <2>2, SymbolAssumption DEF Own
    <3>2. CASE j * d_I + b \notin first .. first + burst - 1
      <4>1. word[j] = Codeword(Own(f, b))[j]  BY <3>2, <2>1, WordAt DEF Own
      <4>2. Codeword(Own(f, b))[j] = ParitySymbol(Own(f, b), j - d_k)  BY <2>1 DEF Codeword
      <4>3. /\ ParitySymbol(Own(f, b), j - d_k).of = Own(f, b)
            /\ ParitySymbol(Own(f, c), j - d_k).of = Own(f, c)
        BY DEF ParitySymbol
      <4> QED  BY <4>1, <4>2, <4>3, <2>2, <1>1
    <3> QED  BY <3>1, <3>2
  <2> QED  BY <2>1, <2>3 DEF Errors
<1>4. IsFiniteSet(parity) /\ Cardinality(parity) = 2 * E
  <2>1. d_k \in Int /\ d_n - 1 \in Int /\ ~(d_k > d_n - 1) /\ (d_n - 1) - d_k + 1 = 2 * E
    BY <1>0
  <2> QED  BY <2>1, FS_Interval
<1>5. Cardinality(parity) <= Cardinality(Errors(word, data))
  <2>1. parity \in SUBSET Errors(word, data)  BY <1>3
  <2> QED  BY <2>1, ErrorsFinite, FS_Subset
<1> QED  BY <1>2, <1>4, <1>5, <1>0, ErrorsFinite

\* Few errors are corrected, and with more a codeblock is lost or replaced
LEMMA FoundAt ==
  ASSUME NEW f \in Indices(MaxFrames), NEW first \in Nat, NEW burst \in Nat,
         NEW len \in Int, len >= d_IN_LEN, NEW b \in Indices(d_I),
         NEW found \in Findings(Words(Received(Message(f), first, burst, len)),
                                {Own(f, c) : c \in Indices(d_I)})
  PROVE  /\ found[b] \in {None, WrongData, Own(f, b)}
         /\ Cardinality(Errors(Word(Received(Message(f), first, burst, len).bytes, b), Own(f, b))) <= E
              => found[b] = Own(f, b)
<1> DEFINE m == Received(Message(f), first, burst, len)
           datas == {Own(f, c) : c \in Indices(d_I)}
           near == [c \in Indices(d_I) |-> Near(Words(m)[c], datas)]
           beyond == {c \in Indices(d_I) : near[c] = {}}
<1>1. PICK failed \in SUBSET beyond :
        found = [c \in Indices(d_I) |-> CASE c \in failed -> None
                                          [] c \in beyond \ failed -> WrongData
                                          [] OTHER -> CHOOSE data \in near[c] : TRUE]
  BY DEF Findings
<1>2. near[b] = Near(Word(m.bytes, b), datas)  BY DEF Words
<1> DEFINE few == Cardinality(Errors(Word(m.bytes, b), Own(f, b))) <= E
<1>6. few => near[b] # {}
  <2>1. SUFFICES ASSUME few PROVE Near(Word(m.bytes, b), datas) # {}  BY <1>2
  <2>2. Near(Word(m.bytes, b), datas) = {Own(f, b)}  BY <2>1, NearOwn
  <2> QED  BY <2>2
<1> HIDE DEF few
<1> SUFFICES found[b] \in {None, WrongData, Own(f, b)} /\ (few => found[b] = Own(f, b))
  BY DEF few
<1>3. CASE b \in failed
  <2>1. found[b] = None  BY <1>1, <1>3
  <2>2. near[b] = {}  BY <1>3
  <2> QED  BY <2>1, <2>2, <1>6
<1>4. CASE b \in beyond \ failed
  <2>1. found[b] = WrongData  BY <1>1, <1>4
  <2>2. near[b] = {}  BY <1>4
  <2> QED  BY <2>1, <2>2, <1>6
<1>5. CASE b \notin beyond
  <2>1. b \notin failed  BY <1>5
  <2>2. found[b] = CHOOSE data \in near[b] : TRUE  BY <1>1, <1>5, <2>1
  <2>3. near[b] # {}  BY <1>5
  <2>4. found[b] \in near[b]  BY <2>2, <2>3
  <2>5. found[b] = Own(f, b)  BY <2>4, <1>2, NothingElseNear
  <2> QED  BY <2>5
<1> QED  BY <1>3, <1>4, <1>5

-----------------------------------------------------------------------------
(* What the decoder sends *)

\* d_buf_data after a call that found `found`
Buffer(found, old) ==
  [i \in Indices(d_DATA_LEN) |->
     IF i \div d_k \in Good(found) THEN found[i \div d_k][i % d_k] ELSE old[i]]

\* The bodies of the three properties
Restored(m, got) == m.burst <= d_I * E => got = m.sent
Confined(m, got) ==
  got # None =>
    \A p \in Indices(d_DATA_LEN) :
      Cardinality({q \in Hit(m) \cap Indices(d_OUT_LEN) : q % d_I = p % d_I}) <= E
        => got[p] = m.sent[p]
Fresh(m, got) ==
  got # None => \A p \in Indices(d_DATA_LEN) : got[p] \in {m.sent[p], Wrong}

LEMMA FrameAt ==
  ASSUME NEW f, NEW b \in Indices(d_I), NEW j \in Indices(d_k)
  PROVE  Own(f, b)[j] = Frame(f)[j * d_I + b]
  BY CodeblockDataAt DEF Own

\* Byte p of the frame sent belongs to codeblock p % d_I
LEMMA SentAt ==
  ASSUME NEW found, NEW old, Good(found) = Indices(d_I), NEW p \in Indices(d_DATA_LEN)
  PROVE  \E b \in Indices(d_I), j \in Indices(d_k) :
           /\ p = j * d_I + b /\ p % d_I = b
           /\ Sent(found, Buffer(found, old))[p] = found[b][j]
<1> DEFINE b == p % d_I
           j == p \div d_I
<1>1. b \in 0 .. d_I - 1 /\ j \in 0 .. d_k - 1 /\ p = j * d_I + b
  BY Lengths, OfTable DEF Indices
<1> HIDE DEF b, j
<1>2. Interleaved(Buffer(found, old), d_k * d_I)[j * d_I + b] = Buffer(found, old)[b * d_k + j]
  <2>1. d_k \in Nat \ {0}  BY Lengths
  <2> QED  BY <1>1, <2>1, InterleavedAt
<1>3. b * d_k + j \in Indices(d_DATA_LEN)
  <2>1. b * d_k + j \in 0 .. d_I * d_k - 1  BY <1>1, Lengths, InTable
  <2>2. d_I * d_k = d_k * d_I  BY Lengths
  <2> QED  BY <2>1, <2>2, Lengths DEF Indices
<1>4. (b * d_k + j) \div d_k = b /\ (b * d_k + j) % d_k = j
  <2>1. d_k \in Nat \ {0} /\ b \in Nat  BY <1>1, Lengths
  <2> QED  BY <1>1, <2>1, DivMod
<1>5. b \in Indices(d_I) /\ j \in Indices(d_k)  BY <1>1 DEF Indices
<1>6. Buffer(found, old)[b * d_k + j] = found[b][j]  BY <1>3, <1>4, <1>5 DEF Buffer
<1>7. Sent(found, Buffer(found, old))[p] = found[b][j]
  <2>1. Sent(found, Buffer(found, old)) = Interleaved(Buffer(found, old), d_k * d_I)
    BY Lengths DEF Sent
  <2> QED  BY <2>1, <1>1, <1>2, <1>6
<1> QED  BY <1>1, <1>5, <1>7 DEF b

\* Errors in a codeblock are hits of the burst at places of the codeblock
LEMMA HitsCounted ==
  ASSUME NEW f, NEW first \in Nat, NEW burst \in Nat, NEW len \in Int, len >= d_IN_LEN,
         NEW b \in Indices(d_I)
  PROVE  Cardinality(Errors(Word(Received(Message(f), first, burst, len).bytes, b), Own(f, b)))
           <= Cardinality({q \in (first .. first + burst - 1) \cap Indices(d_OUT_LEN) : q % d_I = b})
<1> DEFINE errors == Errors(Word(Received(Message(f), first, burst, len).bytes, b), Own(f, b))
           hits == {q \in (first .. first + burst - 1) \cap Indices(d_OUT_LEN) : q % d_I = b}
           Place == [j \in errors |-> j * d_I + b]
<1>0. b \in 0 .. d_I - 1 /\ d_I \in Nat \ {0} /\ d_n \in Nat  BY Lengths DEF Indices
<1>1. ASSUME NEW j \in errors PROVE j \in Nat /\ j * d_I + b \in hits
  <2>1. j \in Indices(d_n) /\ j * d_I + b \in first .. first + burst - 1
    BY <1>1, WordAt DEF Errors, Own
  <2>2. j \in Nat  BY <2>1, <1>0 DEF Indices
  <2>3. j * d_I + b \in Indices(d_OUT_LEN)  BY <2>1, EncodedAt
  <2>4. (j * d_I + b) % d_I = b  BY <2>2, <1>0, DivMod
  <2> QED  BY <2>1, <2>2, <2>3, <2>4
<1>2. ASSUME NEW i \in errors, NEW j \in errors, i * d_I + b = j * d_I + b
      PROVE  i = j
  <2>1. i \in Nat /\ j \in Nat  BY <1>1
  <2> QED  BY <2>1, <1>2, <1>0, Unique
<1>3. IsFiniteSet(hits)
  <2>1. IsFiniteSet(first .. first + burst - 1)
    <3>1. first \in Int /\ first + burst - 1 \in Int  OBVIOUS
    <3> QED  BY <3>1, FS_Interval
  <2>2. hits \in SUBSET (first .. first + burst - 1)  OBVIOUS
  <2> QED  BY <2>1, <2>2, FS_Subset
<1> HIDE DEF errors, hits
<1>4. Place \in [errors -> hits]  BY <1>1
<1>5. \A i, j \in errors : Place[i] = Place[j] => i = j  BY <1>2
<1>6. Place \in Injection(errors, hits)  BY <1>4, <1>5, Fun_IsInj
<1>7. Cardinality(errors) <= Cardinality(hits)  BY <1>3, <1>6, FS_Injection
<1> QED  BY <1>7 DEF errors, hits

\* The heart of the three theorems
LEMMA DecodeKeepsFrame ==
  ASSUME NEW f \in Indices(MaxFrames), NEW first \in Nat, NEW burst \in Nat,
         NEW len \in Int, len >= d_IN_LEN, NEW old,
         NEW found \in Findings(Words(Received(Message(f), first, burst, len)),
                                {Own(f, c) : c \in Indices(d_I)})
  PROVE  LET m   == Received(Message(f), first, burst, len)
             got == Sent(found, Buffer(found, old))
         IN Restored(m, got) /\ Confined(m, got) /\ Fresh(m, got)
<1> DEFINE m   == Received(Message(f), first, burst, len)
           got == Sent(found, Buffer(found, old))
<1>1. m.sent = Frame(f) /\ m.burst = burst /\ m.first = first  BY DEF Received, Message
<1>2. Restored(m, got)
  <2>1. SUFFICES ASSUME burst <= d_I * E PROVE got = Frame(f)  BY <1>1 DEF Restored
  <2>2. ASSUME NEW b \in Indices(d_I) PROVE found[b] = Own(f, b)
    BY <2>1, FewErrors, FoundAt DEF Own
  <2>3. ASSUME NEW b \in Indices(d_I) PROVE found[b] # None
    BY <2>2, SymbolAssumption DEF Own
  <2>4. Good(found) = Indices(d_I)
    <3>1. ASSUME NEW b \in Indices(d_I), NEW c \in 0 .. b PROVE c \in Indices(d_I)
      BY Lengths DEF Indices
    <3> QED  BY <2>3, <3>1 DEF Good
  <2>5. ASSUME NEW p \in Indices(d_DATA_LEN) PROVE got[p] = Frame(f)[p]
    BY <2>2, <2>4, SentAt, FrameAt
  <2>6. got = [p \in Indices(d_DATA_LEN) |-> got[p]]  BY <2>4 DEF Sent, Interleaved
  <2>7. Frame(f) = [p \in Indices(d_DATA_LEN) |-> Frame(f)[p]]  BY DEF Frame
  <2> HIDE DEF got
  <2> QED  BY <2>5, <2>6, <2>7
<1>3. ASSUME got # None PROVE Good(found) = Indices(d_I)  BY <1>3 DEF Sent
<1>4. ASSUME got # None, NEW b \in Indices(d_I) PROVE found[b] # None
  <2>1. b \in Good(found) /\ b \in 0 .. b  BY <1>3, <1>4, Lengths DEF Indices
  <2> QED  BY <2>1 DEF Good
<1>5. Fresh(m, got)
  <2> SUFFICES ASSUME got # None, NEW p \in Indices(d_DATA_LEN)
               PROVE  got[p] \in {Frame(f)[p], Wrong}
    BY <1>1 DEF Fresh
  <2>1. PICK b \in Indices(d_I), j \in Indices(d_k) : p = j * d_I + b /\ got[p] = found[b][j]
    BY <1>3, SentAt
  <2>2. found[b] \in {WrongData, Own(f, b)}  BY <1>4, FoundAt
  <2>3. WrongData[j] = Wrong  BY DEF WrongData
  <2> QED  BY <2>1, <2>2, <2>3, FrameAt
<1>6. Confined(m, got)
  <2> DEFINE Hits(p) == {q \in Hit(m) \cap Indices(d_OUT_LEN) : q % d_I = p % d_I}
  <2> SUFFICES ASSUME got # None, NEW p \in Indices(d_DATA_LEN), Cardinality(Hits(p)) <= E
               PROVE  got[p] = Frame(f)[p]
    BY <1>1 DEF Confined
  <2>1. PICK b \in Indices(d_I), j \in Indices(d_k) :
          p = j * d_I + b /\ p % d_I = b /\ got[p] = found[b][j]
    BY <1>3, SentAt
  <2>2. Hits(p) = {q \in (first .. first + burst - 1) \cap Indices(d_OUT_LEN) : q % d_I = b}
    BY <2>1, <1>1 DEF Hit
  <2>3. Cardinality(Errors(Word(m.bytes, b), Own(f, b))) <= Cardinality(Hits(p))
    BY <2>2, HitsCounted
  <2>4. Cardinality(Errors(Word(m.bytes, b), Own(f, b))) <= E
    <3>1. Cardinality(Errors(Word(m.bytes, b), Own(f, b))) \in Nat  BY ErrorsFinite
    <3>2. Cardinality(Hits(p)) \in Nat
      <4>1. IsFiniteSet(first .. first + burst - 1)
        <5>1. first \in Int /\ first + burst - 1 \in Int  OBVIOUS
        <5> QED  BY <5>1, FS_Interval
      <4>2. Hits(p) \in SUBSET (first .. first + burst - 1)  BY <2>2
      <4> QED  BY <4>1, <4>2, FS_Subset, FS_CardinalityType
    <3> QED  BY <2>3, <3>1, <3>2, Lengths
  <2>5. found[b] = Own(f, b)  BY <2>4, FoundAt
  <2> QED  BY <2>1, <2>5, FrameAt
<1> QED  BY <1>2, <1>5, <1>6

-----------------------------------------------------------------------------
(* The specification *)

Messages == {Message(f) : f \in Indices(MaxFrames)}

\* What is on the link left the encoder
LinkOK == link \in Seq(Messages \cup {EOF})

Inv == TypeOK /\ LinkOK /\ FramesRestored /\ DamageConfined /\ NothingStale

LEMMA MessageFields ==
  ASSUME NEW msg \in Messages \cup {EOF}, ~msg.eof
  PROVE  \E f \in Indices(MaxFrames) : msg = Message(f)
  BY DEF Messages, EOF

LEMMA LinkSent ==
  ASSUME NEW msgs \in Seq(Messages \cup {EOF}), NEW i \in 1 .. Len(msgs), ~msgs[i].eof
  PROVE  msgs[i].sent \in Frames /\ DOMAIN msgs[i].bytes = Indices(d_IN_LEN)
<1>1. msgs[i] \in Messages \cup {EOF}  OBVIOUS
<1>2. PICK f \in Indices(MaxFrames) : msgs[i] = Message(f)  BY <1>1, MessageFields
<1>3. Message(f).sent = Frame(f) /\ Message(f).bytes = Encoded(Frame(f))  BY DEF Message
<1>4. DOMAIN Encoded(Frame(f)) = Indices(d_OUT_LEN)  BY DEF Encoded
<1> QED  BY <1>2, <1>3, <1>4, Lengths DEF Frames

LEMMA InvInit == Init => Inv
<1> SUFFICES ASSUME Init PROVE Inv  OBVIOUS
<1>1. link = <<>> /\ LinkOK  BY DEF Init, LinkOK
<1>2. last.msg.eof /\ EOF.eof  BY DEF Init, EOF
<1>3. TypeOK
  <2>1. 0 \in 0 .. MaxFrames  BY CodeAssumption
  <2> QED  BY <1>1, <1>2, <2>1 DEF Init, TypeOK
<1> QED  BY <1>1, <1>2, <1>3 DEF Inv, FramesRestored, DamageConfined, NothingStale

\* The encoder adds a message
LEMMA InvAppend ==
  ASSUME Inv, NEW msg \in Messages \cup {EOF}, nframes < MaxFrames, nframes' = nframes + 1,
         link' = link \/ link' = Append(link, msg), UNCHANGED <<d_buf_data, last>>
  PROVE  Inv'
<1>1. LinkOK'  BY DEF Inv, LinkOK
<1>2. TypeOK'
  <2>1. nframes' \in 0 .. MaxFrames  BY CodeAssumption DEF Inv, TypeOK
  <2>2. \A i \in 1 .. Len(link') : ~link'[i].eof =>
          link'[i].sent \in Frames /\ DOMAIN link'[i].bytes = Indices(d_IN_LEN)
    <3>1. link' \in Seq(Messages \cup {EOF})  BY <1>1 DEF LinkOK
    <3> QED  BY <3>1, LinkSent
  <2> QED  BY <2>1, <2>2 DEF Inv, TypeOK
<1>3. (FramesRestored /\ DamageConfined /\ NothingStale)'
  BY DEF Inv, FramesRestored, DamageConfined, NothingStale
<1> QED  BY <1>1, <1>2, <1>3 DEF Inv

\* The decoder takes a message
LEMMA InvTaken ==
  ASSUME Inv, link # <<>>, link' = Tail(link), UNCHANGED nframes
  PROVE  LinkOK' /\ (DOMAIN d_buf_data' = Indices(d_DATA_LEN) /\ (~last'.msg.eof => last'.msg.sent \in Frames)
                      => TypeOK')
<1>1. link' \in Seq(Messages \cup {EOF})  BY DEF Inv, LinkOK
<1> QED  BY <1>1, LinkSent DEF Inv, TypeOK, LinkOK

LEMMA InvDecode ==
  ASSUME Inv, NEW first \in Nat, NEW burst \in Nat, NEW len \in Int, Decode(first, burst, len)
  PROVE  Inv'
<1> DEFINE m == Received(Head(link), first, burst, len)
<1>1. Head(link) \in Messages \cup {EOF}  BY DEF Inv, LinkOK, Decode
<1>2. PICK f \in Indices(MaxFrames) : Head(link) = Message(f)
  BY <1>1, MessageFields DEF Decode
<1>3. /\ m.sent = Frame(f) /\ m.len = len /\ m.eof = FALSE
  BY <1>2 DEF Received, Message
<1>4. last'.msg = m /\ DOMAIN d_buf_data' = Indices(d_DATA_LEN)
  <2>1. CASE len < d_IN_LEN  BY <2>1 DEF Decode, Inv, TypeOK
  <2>2. CASE ~(len < d_IN_LEN)
    <3>1. DecodeFrame(m)  BY <2>2 DEF Decode
    <3> HIDE DEF m
    <3> QED  BY <3>1 DEF DecodeFrame
  <2> QED  BY <2>1, <2>2
<1>5. LinkOK' /\ TypeOK'
  <2>1. link # <<>> /\ link' = Tail(link) /\ nframes' = nframes  BY DEF Decode
  <2>2. last'.msg.sent \in Frames  BY <1>3, <1>4 DEF Frames
  <2> QED  BY <2>1, <2>2, <1>4, InvTaken
<1>6. CASE len < d_IN_LEN
  <2>1. last' = [msg |-> m, got |-> None]  BY <1>6 DEF Decode
  <2>2. last'.got = None /\ last'.msg.len = len  BY <2>1, <1>3
  <2>3. ~(len >= d_IN_LEN)  BY <1>6, Lengths
  <2>4. (FramesRestored /\ DamageConfined /\ NothingStale)'
    BY <2>2, <2>3 DEF FramesRestored, DamageConfined, NothingStale
  <2> QED  BY <1>5, <2>4 DEF Inv
<1>7. CASE ~(len < d_IN_LEN)
  <2>1. DecodeFrame(m)  BY <1>7 DEF Decode
  <2>2. [b \in Indices(d_I) |-> Word(m.bytes, b)] = Words(m)  BY DEF Words
  <2>3. SentData(m) = {Own(f, b) : b \in Indices(d_I)}  BY <1>3 DEF SentData, Own
  <2>4. PICK found \in Findings(Words(m), {Own(f, b) : b \in Indices(d_I)}) :
          last' = [msg |-> m, got |-> Sent(found, Buffer(found, d_buf_data))]
    BY <2>1, <2>2, <2>3 DEF DecodeFrame, Buffer
  <2>5. len >= d_IN_LEN  BY <1>7, Lengths
  <2> DEFINE got == Sent(found, Buffer(found, d_buf_data))
  <2>6. Restored(m, got) /\ Confined(m, got) /\ Fresh(m, got)
    BY <1>2, <2>4, <2>5, DecodeKeepsFrame
  <2>7. last'.msg = m /\ last'.got = got  BY <2>4
  <2> HIDE DEF m, got
  <2>8. FramesRestored'  BY <2>6, <2>7 DEF FramesRestored, Restored
  <2>9. DamageConfined'  BY <2>6, <2>7 DEF DamageConfined, Confined
  <2>10. NothingStale'  BY <2>6, <2>7 DEF NothingStale, Fresh
  <2> QED  BY <1>5, <2>8, <2>9, <2>10 DEF Inv
<1> QED  BY <1>6, <1>7

LEMMA InvDecodeEof == ASSUME Inv, DecodeEof PROVE Inv'
<1>1. link # <<>> /\ link' = Tail(link) /\ nframes' = nframes /\ d_buf_data' = d_buf_data
  BY DEF DecodeEof
<1>2. last'.msg.eof  BY DEF DecodeEof, EOF
<1>3. DOMAIN d_buf_data' = Indices(d_DATA_LEN)  BY <1>1 DEF Inv, TypeOK
<1>4. LinkOK' /\ TypeOK'  BY <1>1, <1>2, <1>3, InvTaken
<1>5. (FramesRestored /\ DamageConfined /\ NothingStale)'
  BY <1>2 DEF FramesRestored, DamageConfined, NothingStale
<1> QED  BY <1>4, <1>5 DEF Inv

LEMMA InvNext == Inv /\ [Next]_vars => Inv'
<1> SUFFICES ASSUME Inv, [Next]_vars PROVE Inv'  OBVIOUS
<1>1. ASSUME NEW excess \in Excess, Encode(d_DATA_LEN + excess) PROVE Inv'
  <2>1. nframes \in Indices(MaxFrames)
    BY <1>1, CodeAssumption DEF Encode, Inv, TypeOK, Indices
  <2>2. Message(nframes) \in Messages  BY <2>1 DEF Messages
  <2> QED  BY <1>1, <2>2, InvAppend DEF Encode
<1>2. ASSUME EncodeEof PROVE Inv'
  BY <1>2, InvAppend DEF EncodeEof
<1>3. ASSUME NEW first \in Indices(d_OUT_LEN), NEW burst \in 0 .. MaxBurst, NEW excess \in Excess,
             Decode(first, burst, d_OUT_LEN + excess)
      PROVE  Inv'
  <2>1. first \in Nat /\ burst \in Nat  BY CodeAssumption DEF Indices
  <2>2. d_OUT_LEN + excess \in Int  BY CodeAssumption, Lengths
  <2> QED  BY <1>3, <2>1, <2>2, InvDecode
<1>4. ASSUME DecodeEof PROVE Inv'  BY <1>4, InvDecodeEof
<1>5. ASSUME UNCHANGED vars PROVE Inv'
  BY <1>5 DEF vars, Inv, TypeOK, LinkOK, FramesRestored, DamageConfined, NothingStale
<1> QED  BY <1>1, <1>2, <1>3, <1>4, <1>5 DEF Next

LEMMA Invariant == Spec => []Inv
  BY InvInit, InvNext, PTL DEF Spec

-----------------------------------------------------------------------------
(* Theorems *)

(* What the encoder sends has the length the decoder expects, for every      *)
(* depth and code.                                                          *)
THEOREM CodeTypeCorrect == Spec => []TypeOK
<1>1. Inv => TypeOK  BY DEF Inv
<1> QED  BY <1>1, Invariant, PTL

(* A frame that a burst of up to d_I * E bytes hits anywhere is restored:    *)
(* parity and data are interleaved separately by rs_encode, and together by  *)
(* rs_decode, to the same effect.                                           *)
THEOREM CodeRestoresFrames == Spec => []FramesRestored
<1>1. Inv => FramesRestored  BY DEF Inv
<1> QED  BY <1>1, Invariant, PTL

(* A codeblock beyond repair damages no byte of the others.                  *)
THEOREM CodeConfinesDamage == Spec => []DamageConfined
<1>1. Inv => DamageConfined  BY DEF Inv
<1> QED  BY <1>1, Invariant, PTL

(* A frame given up half way leaves nothing behind for later ones.           *)
THEOREM CodeNothingStale == Spec => []NothingStale
<1>1. Inv => NothingStale  BY DEF Inv
<1> QED  BY <1>1, Invariant, PTL
=============================================================================
