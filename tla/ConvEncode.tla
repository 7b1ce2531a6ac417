----------------------------- MODULE ConvEncode -----------------------------
(***************************************************************************)
(* The convolutional encoder block (lib/conv_encode27_bb_impl over         *)
(* lib/conv_encode27_aux).  The scheduler calls general_work with some     *)
(* bytes of input and room for some bytes of output; a byte of input gives *)
(* up to 16 bits, so that up to 15 bits wait in d_buffer for the next      *)
(* call.  d_buffer is the sequence of the bits that are valid in it: its   *)
(* length is d_buffer_count.                                               *)
(*                                                                         *)
(* A call is split at the iterations of the loop over the input, between   *)
(* which nothing else changes the block.                                   *)
(***************************************************************************)
EXTENDS ConvCode

CONSTANTS
  MaxOffered,        \* bound: bytes offered to one call
  MaxRoom            \* bound: bytes of output one call has room for

ASSUME CallAssumption == MaxOffered \in Nat /\ MaxRoom \in Nat \ {0}

VARIABLES
  punct,             \* d_PUNCT_TYPE, which never changes
  d_state,           \* d_state: the last seven bits of input, the oldest first
  d_punct_count,     \* d_punct_count: position in the puncturing pattern
  d_buffer,          \* d_buffer and d_buffer_count
  working,           \* general_work is running
  offered,           \* input bytes the call has left: ninput_items[0] - num_in
  room,              \* output bytes the call has left: noutput_items - num_out
  asked,             \* noutput_items of the call
  sent,              \* bits of all the bytes output so far
  consumed           \* history: bits of all the bytes encoded so far

encoderVars == <<punct, d_state, d_punct_count, d_buffer, working, offered, room, asked,
                 sent, consumed>>

Byte == [1 .. 8 -> Bit]
Smaller(a, b) == IF a <= b THEN a ELSE b
UpTo(n, d) == (n + d - 1) \div d

\* get_rate: bits of input for bits of output
Rate == CASE punct = "NONE"    -> <<1, 2>>
          [] punct = "ECSS_23" -> <<2, 3>>
          [] punct = "ECSS_34" -> <<3, 4>>
          [] punct = "ECSS_56" -> <<5, 6>>
          [] punct = "ECSS_78" -> <<7, 8>>

\* Mutant of forecast: rounded down
forecast_Down(n) == IF 8 * n >= Len(d_buffer)
                    THEN ((8 * n - Len(d_buffer)) * Rate[1]) \div (8 * Rate[2])
                    ELSE 0

\* forecast: input bytes asked for before a call with room for n bytes.  With room for
\* fewer bits than are stored the unsigned difference wraps, and the conversion of the
\* result to int is undefined: nothing is known of what is asked for.
forecast(n) == IF 8 * n >= Len(d_buffer)
               THEN UpTo((8 * n - Len(d_buffer)) * Rate[1], 8 * Rate[2])
               ELSE 0

\* encode: the 16 bits of code for a byte
encode(byte) == CodeOf(d_state \o byte, 8, 15)

\* encode_punct: those of them that are kept
encode_punct(byte) == Punctured(punct, d_punct_count, encode(byte))

\* The position in the pattern after the 16 bits of a byte; puncture is not called
\* for NONE, whose pattern has one element
NextPunctCount == (d_punct_count + 16) % get_pattern_len(punct)

\* Mutant of ByteStored: off by one
ByteStored_More == Len(d_buffer) > 8

\* Is a whole byte stored from the last call?
ByteStored == Len(d_buffer) >= 8

\* Bytes the loop outputs for the punctured code bits of one byte of input
BytesOut(code) == Smaller(room, (Len(d_buffer) + Len(code)) \div 8)

\* Mutant of Rest: at most seven bits are kept for the next call
Rest_Short(code) ==
  LET all == d_buffer \o code
  IN  SubSeq(all, 8 * BytesOut(code) + 1, Smaller(Len(all), 8 * BytesOut(code) + 7))

\* What the loop leaves in d_buffer: the bits of code that were not output.  Had it
\* output nothing, code would replace the bits that were there.
Rest(code) ==
  IF BytesOut(code) > 0
  THEN SubSeq(d_buffer \o code, 8 * BytesOut(code) + 1, Len(d_buffer) + Len(code))
  ELSE IF code = <<>> THEN d_buffer ELSE code

-----------------------------------------------------------------------------
EncoderInit ==
  /\ punct \in PunctTypes
  /\ d_state = [i \in 1 .. 7 |-> 0]
  /\ d_punct_count = 0
  /\ d_buffer = <<>>
  /\ working = FALSE /\ offered = 0 /\ room = 0 /\ asked = 0
  /\ sent = <<>> /\ consumed = <<>>

\* general_work is entered with nin bytes of input and room for nout bytes, as many
\* as forecast asked for at least, and outputs the byte stored from the last call.
Enter(nin, nout) ==
  /\ ~working
  /\ nin >= forecast(nout)
  /\ working' = TRUE /\ offered' = nin /\ asked' = nout
  /\ IF ByteStored
     THEN /\ sent' = sent \o SubSeq(d_buffer, 1, 8)
          /\ d_buffer' = SubSeq(d_buffer, 9, Len(d_buffer))
          /\ room' = nout - 1
     ELSE /\ room' = nout
          /\ UNCHANGED <<sent, d_buffer>>
  /\ UNCHANGED <<punct, d_state, d_punct_count, consumed>>

\* One iteration of the loop of general_work
EncodeByte(byte) ==
  /\ working /\ offered > 0 /\ room > 0
  /\ LET code == encode_punct(byte)
         all  == d_buffer \o code
     IN  /\ sent' = sent \o SubSeq(all, 1, 8 * BytesOut(code))
         /\ d_buffer' = Rest(code)
         /\ room' = room - BytesOut(code)
  /\ offered' = offered - 1
  /\ d_state' = Tail(byte)
  /\ d_punct_count' = NextPunctCount
  /\ consumed' = consumed \o byte
  /\ UNCHANGED <<punct, working, asked>>

\* general_work returns: input or room is used up
Return ==
  /\ working /\ (offered = 0 \/ room = 0)
  /\ working' = FALSE /\ offered' = 0
  /\ UNCHANGED <<punct, d_state, d_punct_count, d_buffer, room, asked, sent, consumed>>

-----------------------------------------------------------------------------
\* The variables of the encoder have their types.  In particular the bits that wait fit
\* the 16-bit registers they are shifted through: when an input byte is encoded
\* d_buffer "contains at most 7 bits" (line 86 of general_work; see also line 134).
EncoderTypeOK ==
  /\ punct \in PunctTypes
  /\ d_state \in [1 .. 7 -> Bit]
  /\ d_punct_count \in 0 .. get_pattern_len(punct) - 1
  /\ d_buffer \in Seq(Bit)
  /\ Len(d_buffer) <= 15 /\ (working /\ room > 0 => Len(d_buffer) <= 7)
  /\ working \in BOOLEAN
  /\ offered \in 0 .. MaxOffered
  /\ room \in 0 .. asked /\ asked \in 0 .. MaxRoom
  /\ sent \in Seq(Bit)
  /\ consumed \in Seq(Bit)

\* What was output, followed by what waits in d_buffer, is the punctured code of
\* all the input so far taken as one stream: neither the boundaries of the calls
\* nor those of the bytes show (general_work lines 67-137, encode, puncture).
OneStream == sent \o d_buffer = Punctured(punct, 0, CodeOf(consumed, 1, Len(consumed)))

\* A call that forecast allowed outputs at least one byte, so the scheduler never
\* calls the block in vain (forecast; general_work line 101: "this loop runs at
\* least once").
CallsProduce == [][working /\ ~working' => room < asked]_encoderVars
=============================================================================
