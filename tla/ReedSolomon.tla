----------------------------- MODULE ReedSolomon -----------------------------
(***************************************************************************)
(* Block code with interleaving (lib/rs_encode_impl, lib/rs_decode_impl,    *)
(* lib/interleaving_aux.h) over a channel with bursts of errors.            *)
(*                                                                         *)
(* A symbol records what it was made from: byte i of frame f of <<f, i>>,   *)
(* a parity symbol of the data of its codeblock.  Indices count from 0 as   *)
(* in the code; a message carries, as history, the frame it was made from   *)
(* and the burst that hit it.                                               *)
(***************************************************************************)
EXTENDS Integers, Sequences, FiniteSets, FiniteSetsExt

CONSTANTS
  d_I,               \* interleaving depth
  d_k, E,            \* data symbols of a codeblock, errors it corrects
  Noise, Wrong, Junk,\* symbols: hit by the burst, of a wrong codeword, never written
  None,              \* no data: ret < 0, or no message
  Excess,            \* bound: by how much a message may be too long (or, negative, too short)
  MaxFrames,         \* bound: messages given to the encoder
  MaxBurst           \* bound: length of a burst

ASSUME CodeAssumption ==
  /\ d_I \in Nat \ {0} /\ d_k \in Nat \ {0} /\ E \in Nat \ {0}
  /\ Excess \subseteq Int /\ MaxFrames \in Nat /\ MaxBurst \in Nat

d_2E         == 2 * E
d_n          == d_k + d_2E
d_DATA_LEN   == d_k * d_I
d_PARITY_LEN == d_2E * d_I
d_OUT_LEN    == d_DATA_LEN + d_PARITY_LEN
d_IN_LEN     == d_DATA_LEN + d_I * d_2E

Indices(len) == 0 .. len - 1

VARIABLES
  nframes,           \* messages given to the encoder
  link,              \* messages on their way from the encoder to the decoder
  d_buf_data,        \* decoder: data of the codeblocks, kept from call to call
  last               \* history: the decoder's last message, and what it sent for it

vars == <<nframes, link, d_buf_data, last>>

-----------------------------------------------------------------------------
(* External: the code. Codewords of different data differ in every parity   *)
(* symbol and in at least one of data, the distance of a Reed-Solomon code. *)

ParitySymbol(data, j) == [of |-> data, symbol |-> j]

Codeword(data) ==
  [j \in Indices(d_n) |-> IF j < d_k THEN data[j] ELSE ParitySymbol(data, j - d_k)]

Errors(word, data) ==
  LET code == Codeword(data)
  IN {j \in Indices(d_n) : word[j] # code[j]}

\* Which of the data a word of at most E errors was encoded from
Near(word, datas) == {data \in datas : Cardinality(Errors(word, data)) <= E}

\* What the decoder finds in the words of a message. With more than E errors it
\* mostly fails, and sometimes finds another codeword.
WrongData == [j \in Indices(d_k) |-> Wrong]
Findings(words, datas) ==
  LET near   == [b \in Indices(d_I) |-> Near(words[b], datas)]
      beyond == {b \in Indices(d_I) : near[b] = {}}
  IN {[b \in Indices(d_I) |-> CASE b \in failed -> None
                                [] b \in beyond \ failed -> WrongData
                                [] OTHER -> CHOOSE data \in near[b] : TRUE]
        : failed \in SUBSET beyond}

-----------------------------------------------------------------------------
(* Interleaving *)

interl_indx(index, interleaving_depth, num_elements) ==
  LET max_index == num_elements - 1
  IN IF index = max_index THEN index ELSE (index * interleaving_depth) % max_index

\* buffer[interl_indx(i)] = data[i] for all i, no two of which have one place
Interleaved(data, len) ==
  [p \in Indices(len) |-> data[CHOOSE i \in Indices(len) : interl_indx(i, d_I, len) = p]]

\* Data of codeblock b of a frame: d_buf_data after the first step of the encoder
CodeblockData(data, b) ==
  [j \in Indices(d_k) |-> data[interl_indx(b * d_k + j, d_I, d_DATA_LEN)]]

\* d_buf_parity after the encoding
Parity(data) ==
  [i \in Indices(d_PARITY_LEN) |-> ParitySymbol(CodeblockData(data, i \div d_2E), i % d_2E)]

\* Mutant of Encoded: the parity is not interleaved
Encoded_Step1(data) ==
  [p \in Indices(d_OUT_LEN) |-> IF p < d_DATA_LEN THEN data[p] ELSE Parity(data)[p - d_DATA_LEN]]

Encoded(data) ==
  LET parity2 == Interleaved(Parity(data), d_PARITY_LEN)
  IN [p \in Indices(d_OUT_LEN) |-> IF p < d_DATA_LEN THEN data[p] ELSE parity2[p - d_DATA_LEN]]

-----------------------------------------------------------------------------
(* process_frame() of the encoder, with a message of len bytes *)
Byte(f, i) == [of |-> <<f, i>>, symbol |-> 0]
EOF == [eof |-> TRUE, sent |-> None, bytes |-> <<>>, len |-> 0, first |-> 0, burst |-> 0]

Frame(f) == [i \in Indices(d_DATA_LEN) |-> Byte(f, i)]

\* Data of a codeblock is not mistaken for none, nor a parity symbol for noise
ASSUME SymbolAssumption ==
  \A f \in Indices(MaxFrames), b \in Indices(d_I) :
    /\ CodeblockData(Frame(f), b) # None
    /\ \A j \in Indices(d_2E) : ParitySymbol(CodeblockData(Frame(f), b), j) # Noise

Message(f) ==
  [eof |-> FALSE, sent |-> Frame(f), bytes |-> Encoded(Frame(f)), len |-> d_OUT_LEN,
   first |-> 0, burst |-> 0]

Encode(len) ==
  /\ nframes < MaxFrames
  /\ nframes' = nframes + 1
  /\ link' = IF len < d_DATA_LEN THEN link ELSE Append(link, Message(nframes))
  /\ UNCHANGED <<d_buf_data, last>>

EncodeEof ==
  /\ nframes < MaxFrames
  /\ nframes' = nframes + 1
  /\ link' = Append(link, EOF)
  /\ UNCHANGED <<d_buf_data, last>>

-----------------------------------------------------------------------------
(* External: what is between encoder and decoder. A burst hits a message,   *)
(* and it may arrive shorter or longer than it was sent.                    *)
Hit(m) == m.first .. m.first + m.burst - 1

Received(m, first, burst, len) ==
  [m EXCEPT !.first = first, !.burst = burst, !.len = len,
            !.bytes = [p \in Indices(len) |->
              IF p \in first .. first + burst - 1 \/ p >= d_OUT_LEN THEN Noise ELSE m.bytes[p]]]

-----------------------------------------------------------------------------
(* process_frame() of the decoder *)

\* Codeblock b in d_buf_in
Word(bytes, b) == [j \in Indices(d_n) |-> bytes[interl_indx(b * d_n + j, d_I, d_IN_LEN)]]

SentData(m) == {CodeblockData(m.sent, b) : b \in Indices(d_I)}

\* The codeblocks before the first that cannot be decoded: their data is copied
Good(found) == {b \in Indices(d_I) : \A c \in 0 .. b : found[c] # None}

\* Mutants of Sent: a codeblock that cannot be decoded does not end the loop;
\* the second step of the interleaving is missing
Sent_Always(found, buf) == Interleaved(buf, d_DATA_LEN)
Sent_Step1(found, buf) == IF Good(found) = Indices(d_I) THEN buf ELSE None

\* What is sent: nothing if a codeblock could not be decoded
Sent(found, buf) ==
  IF Good(found) = Indices(d_I) THEN Interleaved(buf, d_DATA_LEN) ELSE None

\* process_frame() for the message m
DecodeFrame(m) ==
  \E found \in Findings([b \in Indices(d_I) |-> Word(m.bytes, b)], SentData(m)) :
    /\ d_buf_data' = [i \in Indices(d_DATA_LEN) |->
         IF i \div d_k \in Good(found) THEN found[i \div d_k][i % d_k] ELSE d_buf_data[i]]
    /\ last' = [msg |-> m, got |-> Sent(found, d_buf_data')]

Decode(first, burst, len) ==
  /\ link # <<>> /\ ~Head(link).eof
  /\ link' = Tail(link)
  /\ LET m == Received(Head(link), first, burst, len)
     IN IF len < d_IN_LEN THEN last' = [msg |-> m, got |-> None] /\ UNCHANGED d_buf_data
        ELSE DecodeFrame(m)
  /\ UNCHANGED nframes

DecodeEof ==
  /\ link # <<>> /\ Head(link).eof
  /\ link' = Tail(link)
  /\ last' = [msg |-> EOF, got |-> EOF]
  /\ UNCHANGED <<nframes, d_buf_data>>

Init ==
  /\ nframes = 0 /\ link = <<>> /\ last = [msg |-> EOF, got |-> None]
  /\ d_buf_data = [i \in Indices(d_DATA_LEN) |-> Junk]

Next ==
  \/ \E excess \in Excess : Encode(d_DATA_LEN + excess)
  \/ EncodeEof
  \/ \E first \in Indices(d_OUT_LEN), burst \in 0 .. MaxBurst, excess \in Excess :
       Decode(first, burst, d_OUT_LEN + excess)
  \/ DecodeEof

Spec == Init /\ [][Next]_vars

-----------------------------------------------------------------------------
(* Properties *)

Frames == {Frame(f) : f \in Indices(MaxFrames)}

\* What the encoder sends has the length the decoder expects
TypeOK ==
  /\ nframes \in 0 .. MaxFrames
  /\ DOMAIN d_buf_data = Indices(d_DATA_LEN)
  /\ \A i \in 1 .. Len(link) : ~link[i].eof =>
       link[i].sent \in Frames /\ DOMAIN link[i].bytes = Indices(d_IN_LEN)
  /\ ~last.msg.eof => last.msg.sent \in Frames

(* A frame hit by a burst of up to d_I * E bytes, wherever it lies: in the   *)
(* data, in the parity, or across both, which are interleaved one by one by  *)
(* the encoder and as one by the decoder, is restored (process_frame of      *)
(* rs_encode and rs_decode, interl_indx).                                   *)
FramesRestored ==
  LET m == last.msg
  IN ~m.eof /\ m.len >= d_IN_LEN /\ m.burst <= d_I * E => last.got = m.sent

(* A codeblock with too many errors damages no byte of the others: if the    *)
(* frame is sent at all, a byte whose codeblock had at most E is right       *)
(* (memcpy and second step of the interleaving in rs_decode).                *)
DamageConfined ==
  LET m == last.msg
      Hits(p) == {q \in Hit(m) \cap Indices(d_OUT_LEN) : q % d_I = p % d_I}
  IN last.got # None /\ ~m.eof =>
       \A p \in Indices(d_DATA_LEN) : Cardinality(Hits(p)) <= E => last.got[p] = m.sent[p]

(* A frame is sent with its own bytes, or those of a wrong codeword: never   *)
(* with what an earlier frame that was given up half way left in the buffer  *)
(* (the early return of rs_decode).                                         *)
NothingStale ==
  LET m == last.msg
  IN last.got # None /\ ~m.eof =>
       \A p \in Indices(d_DATA_LEN) : last.got[p] \in {m.sent[p], Wrong}
=============================================================================
