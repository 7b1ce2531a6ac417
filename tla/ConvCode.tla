------------------------------ MODULE ConvCode ------------------------------
(***************************************************************************)
(* The convolutional code shared by lib/conv_encode27_aux,                 *)
(* lib/conv_encode27_bb_impl and lib/conv_decode27_impl: generator         *)
(* polynomials, puncturing patterns, and the code of a whole stream as the *)
(* reference the two blocks are compared with.  A stream of bits is a      *)
(* sequence over Bit, the first bit sent first.                            *)
(***************************************************************************)
EXTENDS Integers, Sequences, FiniteSets

CONSTANTS
  PolyC1,     \* gen_poly_c1: bit 7 inverts the stream, bit 6 - t connects i(t)
  PolyC2      \* gen_poly_c2

ASSUME PolyAssumption == PolyC1 \in 0 .. 255 /\ PolyC2 \in 0 .. 255

Bit == {0, 1}
PunctTypes == {"NONE", "ECSS_23", "ECSS_34", "ECSS_56", "ECSS_78"}

\* 1 << k is Weight[k + 1]
Weight == <<1, 2, 4, 8, 16, 32, 64, 128>>

\* Is bit k of the byte b set?
BitSet(b, k) == (b \div Weight[k + 1]) % 2 = 1

Parity(S) == Cardinality(S) % 2

\* TRUE keeps a bit of the code, FALSE drops it
get_pattern ==
  [NONE    |-> <<TRUE>>,
   ECSS_23 |-> <<TRUE, TRUE, FALSE, TRUE>>,
   ECSS_34 |-> <<TRUE, TRUE, FALSE>>,
   ECSS_56 |-> <<TRUE, TRUE, FALSE, TRUE, TRUE, FALSE, FALSE, TRUE, TRUE, FALSE>>,
   ECSS_78 |-> <<TRUE, TRUE, FALSE, TRUE, FALSE, TRUE, FALSE, TRUE, TRUE, FALSE, FALSE,
                 TRUE, TRUE, FALSE>>]

get_pattern_len(p) == Len(get_pattern[p])

\* Is the bit kept that the pattern p meets i bits after its start?
Keeps(p, i) == get_pattern[p][1 + (i % get_pattern_len(p))]

\* The bits of s that are kept when the pattern stands at phase for the first of them
Punctured(p, phase, s) ==
  LET kept[i \in 0 .. Len(s)] ==
        IF i = 0 THEN <<>>
        ELSE IF Keeps(p, phase + i - 1) THEN Append(kept[i - 1], s[i]) ELSE kept[i - 1]
  IN  kept[Len(s)]

\* The output bit of poly when the bits in the shift register are x[n], x[n - 1], ...
\* (zero before the first), poly being in the encoder's form
CodeBit(poly, x, n) ==
  LET ones == {t \in 0 .. 6 : n - t >= 1 /\ x[n - t] = 1 /\ BitSet(poly, 6 - t)}
  IN  (Parity(ones) + (IF BitSet(poly, 7) THEN 1 ELSE 0)) % 2

\* The code of x[first .. last], two bits for each bit
CodeOf(x, first, last) ==
  [j \in 1 .. 2 * (last - first + 1) |->
     CodeBit(IF j % 2 = 1 THEN PolyC1 ELSE PolyC2, x, first + (j - 1) \div 2)]
=============================================================================
