------------------------- MODULE AmbiguityResolver -------------------------
(***************************************************************************)
(* The ambiguity resolver (lib/mpsk_ambiguity_resolver_f_impl): searches   *)
(* the bits of a stream for the sync marker in every phase ambiguity, locks *)
(* on it, cuts the frames out and sends them with the time of reception.   *)
(*                                                                         *)
(* A soft bit is its absolute position in the stream.  matches is the set  *)
(* of positions and ambiguity streams at which the correlation with the    *)
(* ASM exceeds the threshold; of several matches in one search any may     *)
(* have the largest correlation.  Bits are only converted in whole symbols *)
(* of LdM bits, so the bits that are consumed have to be whole symbols,    *)
(* while frames may begin and end within a symbol.                         *)
(*                                                                         *)
(* A call of general_work is split at the iterations of its loop: between  *)
(* Work and WorkReturn no other action is enabled.  Of the stream tags     *)
(* only rx_time has an effect; rx_rate is assumed to come with it.         *)
(***************************************************************************)
EXTENDS Integers, Sequences, FiniteSets

CONSTANTS
  LdM,              \* d_ldM: bits per symbol
  AsmLen,           \* d_ASM_LEN_BITS
  FrameLen,         \* d_FRAME_LEN_BITS + d_NUM_TAIL_SYMS
  Threshold,        \* d_THRESHOLD
  Streams,          \* ambiguities, one stream each
  StreamLen,        \* bound: bits of the input
  MaxRead,          \* bound: bits offered to one call
  Word,             \* one more than the largest uint64_t
  MatchSets,        \* bound: the sets of matches that are considered
  TagSets           \* bound: the rx_time tags that are considered: see TagRecord

\* The positions of the rx_time tags, and of those whose value is no time
TagRecord == [rx_time : SUBSET (0 .. StreamLen - 1), malformed : SUBSET (0 .. StreamLen - 1)]

ASSUME ResolverAssumption ==
  /\ LdM \in Nat \ {0}
  /\ AsmLen \in Nat \ {0}
  /\ FrameLen \in Nat /\ FrameLen > LdM
  /\ Threshold \in Nat
  /\ 0 \in Streams
  /\ StreamLen \in Nat /\ MaxRead \in Nat
  /\ Word \in Nat /\ Word > StreamLen
  /\ MatchSets \subseteq SUBSET ((0 .. StreamLen - 1) \X Streams)
  /\ TagSets \subseteq TagRecord

VARIABLES
  matches,            \* where the ASM correlates, which never changes
  rx_time,            \* positions of the rx_time tags, which never change
  malformed,          \* those of them that are neither a pair nor a tuple of two
  mode,               \* "idle", in "work", "stopped"
  nitems_read,        \* bits consumed by completed calls
  num_input,          \* bits offered to the current call
  num_consumed,       \* bits consumed by the current call
  state,              \* d_state: "SEARCH" or "LOCK"
  count,              \* d_count: confidence in the lock
  locked_on_stream,   \* d_locked_on_stream
  offset_bits,        \* d_offset_bits: first unused bit after the consumed ones
  msg_buffer,         \* d_msg_buffer, up to d_msg_buffer_count
  msg_buffer_fill,    \* d_msg_buffer_fill
  tag_lastupdate,     \* d_tag_lastupdate
  tag_last_rx_time,   \* d_tag_last_rx_time, NoTag until one is read
  tags_read,          \* history: positions of the tags that have been read
  skipped,            \* history: positions of the tags taken for read that were not
  out                 \* messages published on the port out

inputVars == <<matches, rx_time, malformed>>
callVars  == <<mode, nitems_read, num_input>>
syncVars  == <<state, count, locked_on_stream>>
tagVars   == <<tag_lastupdate, tag_last_rx_time, tags_read, skipped>>
fillVars  == <<num_consumed, offset_bits, msg_buffer, msg_buffer_fill>>
vars == <<inputVars, callVars, syncVars, tagVars, fillVars, out>>

NoTag == -1
EOF == [offset |-> -1]       \* pmt::PMT_EOF

-----------------------------------------------------------------------------
(* Lengths *)

\* Mutant of get_lower_mul: bits are consumed that do not fill a symbol
get_lower_mul_Bits(n) == n

get_lower_mul(n) == (n \div LdM) * LdM
get_upper_mul(n) == ((n + LdM - 1) \div LdM) * LdM

\* Mutant of SEARCH_LEN_MIN: room for the ASM, but not for a symbol more
SEARCH_LEN_MIN_Asm == get_upper_mul(AsmLen)

SEARCH_LEN_MIN == get_upper_mul(AsmLen + LdM)
SEARCH_LEN_MAX == get_upper_mul(FrameLen + 2 * AsmLen - 1)

Smaller(a, b) == IF a < b THEN a ELSE b
Larger(a, b)  == IF a > b THEN a ELSE b

\* Bits left in the current call, and the position of the first of them
left == num_input - num_consumed
base == nitems_read + num_consumed

\* Bits needed to go on when locked
check_len == get_upper_mul(IF msg_buffer_fill THEN 1 ELSE AsmLen + offset_bits)

\* forecast
ninput_items_required == IF state = "SEARCH" THEN SEARCH_LEN_MIN ELSE check_len

-----------------------------------------------------------------------------
(* Tags *)

TagState == [lastupdate |-> tag_lastupdate, last_rx_time |-> tag_last_rx_time,
             read |-> tags_read, skipped |-> skipped]

\* Mutant of updateTags: the first of several tags is remembered
updateTags_First(t, until) ==
  LET from  == Larger(nitems_read, t.lastupdate + 1)
      found == {p \in rx_time : from <= p /\ p < until}
  IN IF until < from THEN t
     ELSE [lastupdate   |-> from,
           last_rx_time |-> IF found = {} THEN t.last_rx_time
                            ELSE CHOOSE p \in found : \A r \in found : r >= p,
           read         |-> t.read \cup found,
           skipped      |-> t.skipped \cup (IF until = from THEN rx_time \cap {from} ELSE {})]

(* updateTags: tags from the last update on are read, the one at until is   *)
(* not.  The next update begins behind the first position of this one, so   *)
(* an update that ends where it begins skips the tag there.                *)
updateTags(t, until) ==
  LET from  == Larger(nitems_read, t.lastupdate + 1)
      found == {p \in rx_time : from <= p /\ p < until}
  IN IF until < from THEN t
     ELSE [lastupdate   |-> from,
           last_rx_time |-> IF found = {} THEN t.last_rx_time
                            ELSE CHOOSE p \in found : \A r \in found : r <= p,
           read         |-> t.read \cup found,
           skipped      |-> t.skipped \cup (IF until = from THEN rx_time \cap {from} ELSE {})]

\* extractTags brings the tags up to date before it takes the time from them,
\* if there has been an rx_time tag
Updated(t, from) == IF t.last_rx_time = NoTag THEN t ELSE updateTags(t, from)

\* The tag that the time of the frame is counted from
TimeReference(t, from) ==
  LET last == Updated(t, from).last_rx_time IN IF last \in malformed THEN NoTag ELSE last

(* extractTags: the time of the first bit of the frame, in bits: that of    *)
(* the reference and the unsigned difference of their positions            *)
FrameTime(reference, from) ==
  IF reference = NoTag THEN NoTag ELSE reference + ((from - reference) % Word)

\* extractTags: what it does with the tags; a malformed one makes it return early
extractTags(t, from) ==
  LET updated == Updated(t, from)
  IN IF updated.last_rx_time \in malformed THEN updated
     ELSE updateTags(updated, from + FrameLen)

SetTags(t) ==
  /\ tag_lastupdate' = t.lastupdate
  /\ tag_last_rx_time' = t.last_rx_time
  /\ tags_read' = t.read
  /\ skipped' = t.skipped

-----------------------------------------------------------------------------
(* Actions *)

\* The scheduler calls general_work with n bits, at least as many as forecast
Work(n) ==
  /\ mode = "idle"
  /\ n >= ninput_items_required
  /\ nitems_read + n <= StreamLen
  /\ mode' = "work"
  /\ num_input' = n
  /\ num_consumed' = 0
  /\ UNCHANGED <<inputVars, nitems_read, syncVars, tagVars, offset_bits, msg_buffer,
                 msg_buffer_fill, out>>

search_len == get_lower_mul(Smaller(left, SEARCH_LEN_MAX))

Searching == mode = "work" /\ state = "SEARCH" /\ left >= SEARCH_LEN_MIN

\* The matches within reach of a search, as offset and stream
Candidates == {c \in (0 .. search_len - AsmLen) \X Streams : <<base + c[1], c[2]>> \in matches}

\* The search finds the ASM
SearchFound(o, a) ==
  /\ Searching
  /\ <<o, a>> \in Candidates
  /\ state' = "LOCK"
  /\ count' = 0
  /\ locked_on_stream' = a
  /\ msg_buffer_fill' = TRUE
  /\ num_consumed' = num_consumed + get_lower_mul(o + AsmLen)
  /\ offset_bits' = (o + AsmLen) % LdM
  /\ UNCHANGED <<inputVars, callVars, tagVars, msg_buffer, out>>

\* Mutant of SearchSkip: everything that was searched is consumed, also the
\* bits at which an ASM may still begin
SearchSkip_All == get_lower_mul(search_len)

\* Bits that an unsuccessful search consumes
SearchSkip == get_lower_mul(search_len - (AsmLen - 1))

\* The search finds nothing
SearchFailed ==
  /\ Searching
  /\ Candidates = {}
  /\ num_consumed' = num_consumed + SearchSkip
  /\ offset_bits' = 0
  /\ UNCHANGED <<inputVars, callVars, syncVars, tagVars, msg_buffer, msg_buffer_fill, out>>

Locked == mode = "work" /\ state = "LOCK" /\ left >= check_len

missing == FrameLen - Len(msg_buffer)

\* Bits that can be put into the message buffer
to_copy ==
  LET to_buffer == Smaller(get_lower_mul(left), get_upper_mul(missing + offset_bits))
  IN Smaller(missing, to_buffer - offset_bits)

\* Mutant of Taken: a symbol that is only partly copied is consumed
Taken_Upper == get_upper_mul(to_copy + offset_bits)

\* Bits that are consumed for them: a symbol with bits left is kept
Taken == get_lower_mul(to_copy + offset_bits)

\* Locked, filling the message buffer; a full one is sent
Fill ==
  LET filled   == msg_buffer \o [i \in 1 .. to_copy |-> base + offset_bits + i - 1]
      consumed == num_consumed + Taken
      offset   == (to_copy + offset_bits) % LdM
      from     == nitems_read + consumed + offset - FrameLen
      origin   == TimeReference(TagState, from)
  IN /\ Locked /\ msg_buffer_fill
     /\ num_consumed' = consumed
     /\ offset_bits' = offset
     /\ IF Len(filled) >= FrameLen
        THEN /\ out' = Append(out, [offset    |-> from,
                                    stream    |-> locked_on_stream,
                                    data      |-> filled,
                                    reference |-> origin,
                                    time      |-> FrameTime(origin, from)])
             /\ SetTags(extractTags(TagState, from))
             /\ msg_buffer' = <<>>
             /\ msg_buffer_fill' = FALSE
        ELSE /\ msg_buffer' = filled
             /\ UNCHANGED <<tagVars, msg_buffer_fill, out>>
     /\ UNCHANGED <<inputVars, callVars, syncVars>>

Checking == Locked /\ ~ msg_buffer_fill

\* The correlation at the expected position exceeds the threshold
AsmThere == <<base + offset_bits, locked_on_stream>> \in matches

\* An ASM that is not there is tolerated
Tolerated == count > 1

\* Confidence after a check that keeps the lock
NewCount == IF AsmThere THEN Smaller(count + 1, Threshold) ELSE count - 1

\* Locked, looking for the next ASM: still locked
CheckKept ==
  /\ Checking
  /\ AsmThere \/ Tolerated
  /\ count' = NewCount
  /\ num_consumed' = num_consumed + get_lower_mul(AsmLen + offset_bits)
  /\ offset_bits' = (AsmLen + offset_bits) % LdM
  /\ msg_buffer_fill' = TRUE
  /\ UNCHANGED <<inputVars, callVars, state, locked_on_stream, tagVars, msg_buffer, out>>

\* Locked, looking for the next ASM: lock lost, nothing is consumed
CheckLost ==
  /\ Checking
  /\ ~ (AsmThere \/ Tolerated)
  /\ state' = "SEARCH"
  /\ count' = 0
  /\ offset_bits' = 0
  /\ UNCHANGED <<inputVars, callVars, locked_on_stream, tagVars, num_consumed, msg_buffer,
                 msg_buffer_fill, out>>

\* Not enough bits are left: general_work returns
WorkReturn ==
  /\ mode = "work"
  /\ left < ninput_items_required
  /\ SetTags(updateTags(TagState, base))
  /\ nitems_read' = base
  /\ num_consumed' = 0
  /\ num_input' = 0
  /\ mode' = "idle"
  /\ UNCHANGED <<inputVars, syncVars, offset_bits, msg_buffer, msg_buffer_fill, out>>

\* stop() sends EOF
Stop ==
  /\ mode = "idle"
  /\ mode' = "stopped"
  /\ out' = Append(out, EOF)
  /\ UNCHANGED <<inputVars, nitems_read, num_input, syncVars, tagVars, fillVars>>

Init ==
  /\ matches \in MatchSets
  /\ \E tags \in TagSets : rx_time = tags.rx_time /\ malformed = tags.malformed
  /\ mode = "idle" /\ nitems_read = 0 /\ num_input = 0 /\ num_consumed = 0
  /\ state = "SEARCH"
  /\ count = 0
  /\ locked_on_stream = 0
  /\ offset_bits = 0
  /\ msg_buffer = <<>>
  /\ msg_buffer_fill \in BOOLEAN      \* not initialised by the constructor
  /\ tag_lastupdate = 0
  /\ tag_last_rx_time = NoTag
  /\ tags_read = {} /\ skipped = rx_time \cap {0}   \* the first update begins at 1
  /\ out = <<>>

Next ==
  \/ \E n \in 1 .. MaxRead : Work(n)
  \/ \E o \in 0 .. SEARCH_LEN_MAX, a \in Streams : SearchFound(o, a)
  \/ SearchFailed
  \/ Fill
  \/ CheckKept
  \/ CheckLost
  \/ WorkReturn
  \/ Stop

Spec == Init /\ [][Next]_vars

(* The loop of general_work runs until it returns: its steps are weakly     *)
(* fair.  Nothing obliges the scheduler to call it.                        *)
Iteration ==
  \/ \E o \in 0 .. SEARCH_LEN_MAX, a \in Streams : SearchFound(o, a)
  \/ SearchFailed \/ Fill \/ CheckKept \/ CheckLost \/ WorkReturn

FairSpec == Spec /\ WF_vars(Iteration)

-----------------------------------------------------------------------------
(* Properties *)

\* The messages before EOF, which stop() sends last
Frames == IF mode = "stopped" THEN SubSeq(out, 1, Len(out) - 1) ELSE out

FrameMessage ==
  [offset : 0 .. StreamLen - 1, stream : Streams, data : Seq(0 .. StreamLen - 1),
   reference : {NoTag} \cup (0 .. StreamLen - 1), time : {NoTag} \cup Nat]

\* Shape of the state of mpsk_ambiguity_resolver_f_impl.  Only whole symbols are
\* consumed; otherwise convert_ambiguity would take the bits of two symbols for
\* one for the rest of the stream.
TypeOK ==
  /\ mode \in {"idle", "work", "stopped"}
  /\ num_consumed <= num_input /\ nitems_read + num_input <= StreamLen
  /\ state \in {"SEARCH", "LOCK"}
  /\ count \in 0 .. Threshold
  /\ locked_on_stream \in Streams
  /\ offset_bits \in 0 .. LdM - 1
  /\ Len(msg_buffer) < FrameLen
  /\ state = "SEARCH" => msg_buffer = <<>>
  /\ (nitems_read + num_consumed) % LdM = 0
  /\ \A i \in 1 .. Len(out) : out[i] \in FrameMessage \cup {EOF}

\* However the bits of a frame are spread over calls, and wherever in a symbol
\* it begins, a frame is sent with its own bits, all of them, and in order,
\* and frame_offset is the position of the first.
FramesWhole ==
  \A i \in 1 .. Len(Frames) :
    Frames[i].data = [k \in 1 .. FrameLen |-> Frames[i].offset + k - 1]

\* Every call of general_work returns: each iteration of its loop gets on.
WorkReturns == mode = "work" ~> mode = "idle"

\* The frame f has a tag behind its first bit
TagInside(f) == \E p \in rx_time : f.offset < p /\ p < f.offset + FrameLen

\* The time of a frame without a tag behind its first bit is that of its first
\* bit.  In every frame it is not counted from a tag long past: no tag that was
\* ever read lies between the one it is counted from and the frame, however
\* often a tag is seen, and by whatever calls.  When general_work returns, every
\* tag of the bits consumed has been read.  All this but for the tags that
\* updateTags skips (see there).
FrameTimeFromLastTag ==
  /\ \A i \in 1 .. Len(Frames) :
       LET f == Frames[i]
       IN f.reference # NoTag =>
            /\ ~ TagInside(f) => f.time = f.offset
            /\ ~ \E p \in rx_time \ skipped : f.reference < p /\ p < f.offset
  /\ mode = "idle" => \A p \in rx_time : p < nitems_read => p \in tags_read \cup skipped

\* mpsk_ambiguity_resolver_f_impl.h: extractTags "calculates the reception time
\* of the sample with the absolute count from".
FrameTimeRight ==
  \A i \in 1 .. Len(Frames) : Frames[i].time # NoTag => Frames[i].time = Frames[i].offset

-----------------------------------------------------------------------------
(* The scanner that the resolver implements *)

Scanner == INSTANCE AmbiguityScanner WITH
  Reach  <- SEARCH_LEN_MAX - AsmLen,
  next   <- IF state = "SEARCH" THEN base ELSE base + offset_bits - Len(msg_buffer),
  phase  <- IF state = "SEARCH" THEN "searching"
            ELSE IF msg_buffer_fill THEN "in frame" ELSE "at marker",
  trust  <- count,
  stream <- locked_on_stream,
  sent   <- [i \in 1 .. Len(Frames) |-> <<Frames[i].offset, Frames[i].stream>>]

\* The chunks of the input, the message buffer and the offsets within symbols
\* cannot be told from outside: the frames are those of the scanner.
ScannerSpec == Scanner!Spec
=============================================================================
