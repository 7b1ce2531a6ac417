----------------------------- MODULE ConvDecode -----------------------------
(***************************************************************************)
(* The convolutional decoder block (lib/conv_decode27_impl).  A message is *)
(* one frame of soft bits with the first tail symbols behind it; the block *)
(* unpunctures them into a buffer and has libfec's Viterbi decoder search  *)
(* the path from the start state to the termination state, both taken from *)
(* the sync marker.  Soft bits are as strong as they can be: 0 and 1 stand *)
(* for the two signs.                                                      *)
(***************************************************************************)
EXTENDS ConvCode

CONSTANTS
  Asm,               \* ASM: the bits of the sync marker
  BlockLen           \* d_BLOCK_NUM_BITS_OUT: bits of a frame

VARIABLES
  punct,             \* d_PUNCT_TYPE, which never changes
  published,         \* the message last published on the port out
  aborted            \* an assertion of the block has failed

Nothing == [kind |-> "nothing"]
EOF == [kind |-> "eof"]
Malformed == [kind |-> "malformed"]      \* no pair, no dictionary or no float vector
Soft(bits) == [kind |-> "softbits", bits |-> bits]
Blob(data) == [kind |-> "blob", data |-> data]

\* softbits::map_to_uint8 of the two signs, and of zero
map_to_uint8(bit) == 255 * bit
NeutralElement == 127

\* Mutant of convert_poly: the inversion is lost
convert_poly_NoSign(in) ==
  LET bit(i) == IF BitSet(in, 6 - i) THEN Weight[i + 1] ELSE 0
  IN  bit(0) + bit(1) + bit(2) + bit(3) + bit(4) + bit(5) + bit(6)

\* The positions of the polynomial are reversed; an inversion becomes a sign
convert_poly(in) ==
  LET bit(i) == IF BitSet(in, 6 - i) THEN Weight[i + 1] ELSE 0
      ret    == bit(0) + bit(1) + bit(2) + bit(3) + bit(4) + bit(5) + bit(6)
  IN  IF BitSet(in, 7) THEN -ret ELSE ret

\* The frame follows the last six bits of the marker, and its tail is the first six
get_start_state == SubSeq(Asm, Len(Asm) - 5, Len(Asm))
get_term_state  == SubSeq(Asm, 1, 6)

\* Of the first n bits of the code, those that are transmitted
get_num_inputs_req(n) == Cardinality({i \in 0 .. n - 1 : Keeps(punct, i)})

BlockBitsUnpunctured == 2 * (BlockLen + 6)
BlockBitsIn == get_num_inputs_req(BlockBitsUnpunctured)

\* Lengths accepted: the one expected, and "a few extra bits so that the total number
\* of bits fits into an integer number of bytes" - or too few of them
AcceptsLength(n) == n = BlockBitsIn \/ n % 8 = 0

\* The pattern starts anew with each message, whatever preceded it in the stream
unpuncture_and_convert(in) ==
  [i \in 1 .. BlockBitsUnpunctured |->
     IF Keeps(punct, i - 1) THEN map_to_uint8(in[get_num_inputs_req(i)]) ELSE NeutralElement]

\* libfec's bit of code for the bits x[n], x[n - 1], ... and one of its polynomials,
\* whose bit t connects i(t)
LibfecBit(poly, x, n) ==
  LET ones == {t \in 0 .. 6 : x[n - t] = 1 /\ BitSet(IF poly < 0 THEN -poly ELSE poly, t)}
  IN  (Parity(ones) + (IF poly < 0 THEN 1 ELSE 0)) % 2

\* Does step n of the path agree with the two soft bits of buffer it produced?
StepFits(buffer, path, n) ==
  \A c \in {1, 2} :
    buffer[2 * n - 2 + c] \in
      {NeutralElement,
       map_to_uint8(LibfecBit(convert_poly(IF c = 1 THEN PolyC1 ELSE PolyC2), path, 6 + n))}

\* The paths from the start state that agree with the first n pairs of soft bits, the
\* last six steps being those to the termination state
Survivors(buffer) ==
  LET choices(n) == IF n <= BlockLen THEN Bit ELSE {get_term_state[n - BlockLen]}
      paths[n \in 0 .. BlockLen + 6] ==
        IF n = 0 THEN {get_start_state}
        ELSE {path \in {Append(p, b) : p \in paths[n - 1], b \in choices(n)} :
                StepFits(buffer, path, n)}
  IN  paths[BlockLen + 6]

\* The data whose path through the trellis has no error: while there is any, the
\* Viterbi decoder returns one of them
Viterbi(buffer) == {SubSeq(path, 7, 6 + BlockLen) : path \in Survivors(buffer)}

\* What the decoder returns when every path has errors
Guess == <<>>

-----------------------------------------------------------------------------
DecoderInit == published = Nothing /\ aborted = FALSE

PassEof(msg) ==
  /\ msg = EOF
  /\ published' = EOF
  /\ UNCHANGED aborted

Skip(msg) ==
  /\ \/ msg = Malformed
     \/ msg.kind = "softbits" /\ (~AcceptsLength(Len(msg.bits)) \/ BlockLen % 8 # 0)
  /\ UNCHANGED <<published, aborted>>

Decode(msg) ==
  /\ msg.kind = "softbits" /\ AcceptsLength(Len(msg.bits)) /\ BlockLen % 8 = 0
  /\ IF Len(msg.bits) >= BlockBitsIn
     THEN LET found == Viterbi(unpuncture_and_convert(msg.bits))
          IN  /\ \E data \in IF found = {} THEN {Guess} ELSE found :
                   published' = Blob(data)
              /\ UNCHANGED aborted
     ELSE aborted' = TRUE /\ UNCHANGED published

process_message(msg) ==
  /\ ~aborted
  /\ PassEof(msg) \/ Skip(msg) \/ Decode(msg)
  /\ UNCHANGED punct
=============================================================================
