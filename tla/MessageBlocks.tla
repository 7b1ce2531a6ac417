---------------------------- MODULE MessageBlocks ----------------------------
(***************************************************************************)
(* What the bit and byte message blocks make of the data of a message:      *)
(* randomiser_softbits, trunk_tail, soft_to_hard_message, reversebits,      *)
(* randomiser and add_asm.                                                  *)
(*                                                                         *)
(* Data is a sequence of values in the order of transmission: of soft bits  *)
(* -1, 0, 1, or of the bits 0, 1 of its bytes, most significant bit first.  *)
(* A soft bit keeps its sign; its magnitude is not looked at here.           *)
(***************************************************************************)
EXTENDS Integers, Sequences, FiniteSets

CONSTANTS
  d_POLY, d_SEED,                    \* randomisers: registers, most significant bit first
  d_TRUNK_LEN, d_FRAME_LEN, d_BLANC_BITS,   \* trunk_tail: lengths in soft bits
  d_MSG_LEN, d_POSITIONS,            \* reversebits: bytes, and the bytes to reverse (from 0)
  d_ASM, ASM_FRAME_LEN               \* add_asm: bits of the marker, and its d_FRAME_LEN (bytes)

Byte == [1 .. 8 -> {0, 1}]

ASSUME BlocksAssumption ==
  /\ d_POLY \in Byte /\ d_SEED \in Byte
  /\ {d_TRUNK_LEN, d_FRAME_LEN, d_BLANC_BITS, d_MSG_LEN, ASM_FRAME_LEN} \subseteq Nat
  /\ d_TRUNK_LEN + d_BLANC_BITS <= d_FRAME_LEN
  /\ d_POSITIONS \in Seq(Nat) /\ d_ASM \in Seq({0, 1})

Bytes(data)   == Len(data) \div 8
xor(a, b)     == IF a = b THEN 0 ELSE 1
divide_ceil(a, b) == (a + b - 1) \div b

hard_decision(soft) == IF soft >= 0 THEN 1 ELSE 0

(* get_next_byte(): eight shifts of the register d_state, the bits that     *)
(* leave it are the output                                                  *)
Shift ==
  [state \in Byte |->
     LET input_bit == Cardinality({i \in 1 .. 8 : state[i] = 1 /\ d_POLY[i] = 1}) % 2
     IN [i \in 1 .. 8 |-> IF i < 8 THEN state[i + 1] ELSE input_bit]]

\* The register after each of the shifts for `bytes` bytes
Registers(state, bytes) ==
  LET register[k \in 0 .. 8 * bytes] == IF k = 0 THEN state ELSE Shift[register[k - 1]]
  IN register

\* process_frame() of the two randomisers: data out and register afterwards
RandomiseSoft(state, data) ==
  LET r == Registers(state, divide_ceil(Len(data), 8))
  IN [data  |-> [i \in 1 .. Len(data) |-> IF r[i - 1][1] = 1 THEN -data[i] ELSE data[i]],
      state |-> r[8 * divide_ceil(Len(data), 8)]]

Randomise(state, data) ==
  LET r == Registers(state, Bytes(data))
  IN [data  |-> [i \in 1 .. Len(data) |-> xor(data[i], r[i - 1][1])],
      state |-> r[Len(data)]]

\* What trunk_tail copies; the d_BLANC_BITS behind it have no weight
TrunkRead == d_FRAME_LEN - d_TRUNK_LEN - d_BLANC_BITS
TrunkTail(data) ==
  [i \in 1 .. d_FRAME_LEN - d_TRUNK_LEN |-> IF i <= TrunkRead THEN data[i] ELSE 0]

SoftToHard(data) == [i \in 1 .. Len(data) |-> hard_decision(data[i])]

\* Bit i of the data is bit (i - 1) % 8 of byte (i - 1) \div 8; reverse_bits() mirrors it
Mirror(i) == 8 * ((i - 1) \div 8) + 8 - ((i - 1) % 8)
ReverseBits(data) ==
  [i \in 1 .. Len(data) |->
     IF \E p \in 1 .. Len(d_POSITIONS) : d_POSITIONS[p] = (i - 1) \div 8
     THEN data[Mirror(i)] ELSE data[i]]

\* add_asm copies its own frame length, whatever the length of the message
AddAsm(data) == d_ASM \o SubSeq(data, 1, 8 * ASM_FRAME_LEN)

(* softbits_msg_to_bytes: hard decisions, the last byte padded with zeros   *)
PackBit(data, i, j) == IF 8 * i + j <= Len(data) THEN hard_decision(data[8 * i + j]) ELSE 0

Pack(data) ==
  [i \in 1 .. divide_ceil(Len(data), 8) |-> [j \in 1 .. 8 |-> PackBit(data, i - 1, j)]]

\* The bytes of a blob
Blob(data) == [i \in 1 .. Bytes(data) |-> SubSeq(data, 8 * i - 7, 8 * i)]
=============================================================================
