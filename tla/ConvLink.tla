------------------------------ MODULE ConvLink ------------------------------
(***************************************************************************)
(* The encoder and the decoder at the two ends of a channel without        *)
(* errors, as in the chain of python/qa_conv_decode27.py: frames of        *)
(* BlockLen bits are sent behind the marker Asm, the receiver cuts the     *)
(* soft bits of a frame and of its tail out of the stream, and may miss    *)
(* frames.  The number of soft bits it hands over is chosen by the block   *)
(* before the decoder, so it may differ from the number expected.          *)
(***************************************************************************)
EXTENDS ConvEncode

CONSTANTS
  Asm, BlockLen,     \* see ConvDecode
  Data,              \* the frames that may be sent
  Cuts,              \* lengths the receiver hands over: see Length
  MaxBytes           \* bound: bytes encoded

ASSUME LinkAssumption ==
  /\ Asm \in Seq(Bit) /\ Len(Asm) > 0 /\ Len(Asm) % 8 = 0     \* whole bytes
  /\ BlockLen \in Nat /\ BlockLen % 8 = 0
  /\ Data \subseteq [1 .. BlockLen -> Bit]
  /\ Cuts \subseteq {"exact", "padded", "uneven", "short"}
  /\ MaxBytes \in Nat

VARIABLES
  published, aborted,    \* see ConvDecode
  received,              \* number of the last frame the receiver found
  found,                 \* history: the last one whose message had a length accepted
  ended                  \* the receiver has seen the end of the stream

vars == <<encoderVars, published, aborted, received, found, ended>>

Decoder == INSTANCE ConvDecode

\* Marker and frame alternate, whole bytes each
Period == Len(Asm) + BlockLen
Turn   == Len(consumed) % Period

\* The bytes that may come next: those that go on with a marker and frame begun
NextBytes ==
  LET Begun(bits) == \A i \in 1 .. Turn : consumed[Len(consumed) - Turn + i] = bits[i]
  IN  {SubSeq(Asm \o data, Turn + 1, Turn + 8) : data \in {d \in Data : Begun(Asm \o d)}}

\* The frame n is at the end of the period n
FrameStart(n) == n * Period - BlockLen
FrameBits(n)  == SubSeq(consumed, FrameStart(n) + 1, FrameStart(n) + BlockLen)

\* Bits of the code before the frame n, and how many of them are transmitted
CodeStart(n) == 2 * FrameStart(n)
SentStart(n) == Cardinality({i \in 0 .. CodeStart(n) - 1 : Keeps(punct, i)})

\* The code of a frame and its tail behind the marker
FrameCode(data) ==
  CodeOf(Decoder!get_start_state \o data \o Decoder!get_term_state, 7, BlockLen + 12)

\* Number of soft bits handed over: as expected, filled up to whole bytes, one too
\* many, or whole bytes but too few of them
Length(cut) ==
  CASE cut = "exact"  -> Decoder!BlockBitsIn
    [] cut = "padded" -> 8 * UpTo(Decoder!BlockBitsIn, 8)
    [] cut = "uneven" -> Decoder!BlockBitsIn + 1
    [] cut = "short"  -> 8 * ((Decoder!BlockBitsIn - 1) \div 8)

\* No other frame has what is transmitted of the code of a frame that is sent, and each
\* polynomial connects something: true of the polynomials of the standard, not of all
CodeUnique ==
  /\ PolyC1 % 128 # 0 /\ PolyC2 % 128 # 0
  /\ \A p \in PunctTypes, a \in Data, b \in [1 .. BlockLen -> Bit] :
       (\A i \in 1 .. Decoder!BlockBitsUnpunctured :
          Keeps(p, i - 1) => FrameCode(a)[i] = FrameCode(b)[i])
       => a = b

-----------------------------------------------------------------------------
Init ==
  /\ EncoderInit
  /\ Decoder!DecoderInit
  /\ received = 0 /\ found = 0 /\ ended = FALSE

StartWork == \E nin \in 0 .. MaxOffered, nout \in 1 .. MaxRoom :
               /\ Len(consumed) + 8 * nin <= 8 * MaxBytes
               /\ Enter(nin, nout)
               /\ UNCHANGED <<published, aborted, received, found, ended>>

Encode == /\ \E byte \in NextBytes : EncodeByte(byte)
          /\ UNCHANGED <<published, aborted, received, found, ended>>

EndWork == Return /\ UNCHANGED <<published, aborted, received, found, ended>>

\* The receiver hands the frame n over to the decoder.  It reads nothing but sent,
\* which only grows: what it sees during a call it sees after it as well.
Deliver(n, cut) ==
  /\ ~ended /\ ~working /\ n > received
  /\ SentStart(n) + Length(cut) <= Len(sent)
  /\ LET softbits == SubSeq(sent, SentStart(n) + 1, SentStart(n) + Length(cut))
     IN  Decoder!process_message(Decoder!Soft(softbits))
  /\ received' = n
  /\ found' = IF Decoder!AcceptsLength(Length(cut)) THEN n ELSE found
  /\ UNCHANGED <<encoderVars, ended>>

DeliverFrame == \E n \in 1 .. MaxBytes, cut \in Cuts : Deliver(n, cut)

\* Another message reaches the decoder; the end of the stream is the last.
DeliverOther ==
  /\ ~ended /\ ~working
  /\ \E msg \in {Decoder!EOF, Decoder!Malformed} :
       /\ Decoder!process_message(msg)
       /\ ended' = (msg = Decoder!EOF)
  /\ UNCHANGED <<encoderVars, received, found>>

Next == StartWork \/ Encode \/ EndWork \/ DeliverFrame \/ DeliverOther

Spec == Init /\ [][Next]_vars

-----------------------------------------------------------------------------
\* Every variable has its type.
TypeOK ==
  /\ EncoderTypeOK
  /\ aborted \in BOOLEAN /\ ended \in BOOLEAN
  /\ received \in 0 .. MaxBytes /\ found \in 0 .. received
  /\ published.kind \in {"nothing", "eof", "blob"}

\* A frame at which the pattern of the encoder starts anew, as it does at every frame
\* without puncturing, is decoded to the data it was sent with: puncturing and
\* unpuncturing, the two forms of the polynomials, start and termination state agree
\* (encode_punct; unpuncture_and_convert, convert_poly, get_start_state, get_term_state).
AlignedFramesDecoded ==
  found > 0 /\ ~ended /\ ~aborted /\ CodeStart(found) % get_pattern_len(punct) = 0
    => published = Decoder!Blob(FrameBits(found))
=============================================================================
