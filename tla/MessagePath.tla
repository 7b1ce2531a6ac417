----------------------------- MODULE MessagePath -----------------------------
(***************************************************************************)
(* Streams that become messages and streams again: a sink, message blocks   *)
(* and sources, each with a thread of its own and a queue of messages.       *)
(* Subscribers says how the blocks are connected, and the flow graph is one  *)
(* of the Paths:                                                            *)
(*                                                                         *)
(*   soft_sink -> derandomise -> trunk -> harden                            *)
(*                                 +----> packer                            *)
(*   blob_sink -> reverse -> randomise -> add_asm -> source                 *)
(*                                                                         *)
(* soft_sink is a softbit_msg_sink_f, blob_sink a blob_msg_sink_b, packer a  *)
(* softbits_msg_to_bytes_b, source a blob_msg_source_b; anybody may also    *)
(* post messages to the last two, as the tests of the sources do.           *)
(* The runtime is external. It handles all waiting messages of a block before *)
(* it calls work(), and calls work() only of blocks with streams. It calls   *)
(* stop() of a block when its thread ends: because the input has ended or    *)
(* work() returned -1, and at any time when the flow graph is stopped or the *)
(* runtime tells a block that one before it is done ("done" at its port      *)
(* "system", which the test of the source posts itself). The blocks without  *)
(* streams, from derandomise to harden and from reverse to add_asm, end in   *)
(* the last two ways only.                                                  *)
(***************************************************************************)
EXTENDS MessageBlocks, FiniteSetsExt, SequencesExt

CONSTANTS
  Subscribers,       \* block: the blocks its messages go to
  Paths,             \* the sets of blocks that may make up the flow graph
  SINK_LEN,          \* sink: items (soft bits, or the bits of bytes) of a message
  SINK_TYPE,         \* sink: type of its messages
  Item(_, _),        \* sink: the n-th item of its input stream
  BLOB_LEN,          \* d_BLOB_LEN of the source
  Posts,             \* source: messages others post to it
  FeedSizes,         \* bound: sink: inputs of one call of its work()
  WorkSizes,         \* bound: outputs of one call of a source's work()
  MaxInput,          \* bound: sink: items of the input stream
  MaxPosts,          \* bound: source: messages of others
  Interruptible,     \* bound: blocks whose threads may end early
  MaxInterrupts      \* bound: threads that end early

EOF == [type |-> "eof", hdr |-> "none", data |-> <<>>]
Message(type, hdr, data) == [type |-> type, hdr |-> hdr, data |-> data]
Messages == [type : {"soft", "blob", "eof"}, hdr : STRING, data : Seq(Int)]

Blocks      == DOMAIN Subscribers
Randomisers == Blocks \cap {"derandomise", "randomise"}
Converters  == Blocks \cap {"derandomise", "randomise", "trunk", "reverse", "add_asm"}
Sources     == Blocks \cap {"packer", "source"}
Sinks       == Blocks \cap {"soft_sink", "blob_sink"}

ASSUME PathAssumption ==
  /\ \A b \in Blocks : Subscribers[b] \subseteq Blocks
  /\ Paths \subseteq SUBSET Blocks
  /\ \A b \in Sinks : /\ SINK_LEN[b] \in Nat \ {0} /\ SINK_TYPE[b] \in {"soft", "blob"}
                       /\ FeedSizes[b] \subseteq Nat /\ MaxInput[b] \in Nat
                       /\ \A n \in 1 .. MaxInput[b] : Item(b, n) \in Int
  /\ \A b \in Sources : Posts[b] \subseteq Messages
  /\ BLOB_LEN \in Nat \ {0} /\ WorkSizes \subseteq Nat
  /\ Interruptible \subseteq Blocks

VARIABLES
  running,           \* block: it is in the flow graph, and its thread has not ended
  queue,             \* block: the messages waiting at its port "in"
  d_stop,            \* block: it has seen EOF (d_stopped in harden)
  fed,               \* sink: soft bits of the input stream taken
  d_buffer,          \* sink: soft bits of the unfinished message
  d_state,           \* randomisers: the register
  d_queue,           \* sources: bytes waiting to be put out
  d_metadata_queue,  \* source: headers waiting to be attached
  d_num_bytes_copied,\* source: bytes put out
  out, tags,         \* sources: output stream; source: the header tags in it
  published,         \* history: messages of each block
  arrived,           \* history: messages that came to the sources
  nposts,            \* messages posted by others
  ninterrupts        \* threads that ended early

sinkVars   == <<fed, d_buffer>>
sourceVars == <<d_queue, d_metadata_queue, d_num_bytes_copied, out, tags>>
portVars   == <<queue, published, arrived>>
vars == <<running, d_stop, d_state, nposts, ninterrupts, sinkVars, sourceVars, portVars>>

-----------------------------------------------------------------------------
(* message_port_pub: the messages are put in the queues of the subscribers. *)
(* A block whose thread has ended will not look at its queue any more.      *)
Arrive(q, b, msgs) == IF running[b] THEN q[b] \o msgs ELSE q[b]

Publish(b, msgs, handled) ==
  LET taken == [queue EXCEPT ![b] = handled]
  IN /\ queue' = [c \in Blocks |->
                    IF c \in Subscribers[b] THEN Arrive(taken, c, msgs) ELSE taken[c]]
     /\ arrived' = [c \in Sources |->
                      IF c \in Subscribers[b] THEN Arrive(arrived, c, msgs) ELSE arrived[c]]
     /\ published' = [published EXCEPT ![b] = @ \o msgs]

Handled(b) == Publish(b, <<>>, Tail(queue[b]))     \* without a message of its own
Waiting(b) == running[b] /\ queue[b] # <<>>

\* The messages that can be made of so many items
Full(b, items) == Len(items) \div SINK_LEN[b]

(* work() of the sink: the buffer is filled, and a message sent whenever it *)
(* is full                                                                 *)
Feed(b, n) ==
  LET all  == d_buffer \o [i \in 1 .. n |-> Item(b, fed + i)]
      full == Full(b, all)
      Frame(k) ==
        Message(SINK_TYPE[b], "empty", SubSeq(all, (k - 1) * SINK_LEN[b] + 1, k * SINK_LEN[b]))
  IN /\ running[b] /\ fed + n <= MaxInput[b]
     /\ fed' = fed + n
     /\ d_buffer' = SubSeq(all, full * SINK_LEN[b] + 1, Len(all))
     /\ Publish(b, [k \in 1 .. full |-> Frame(k)], <<>>)
     /\ UNCHANGED <<running, d_stop, d_state, nposts, ninterrupts, sourceVars>>

(* process_frame() of the converters: the type of message it accepts, and   *)
(* what it makes of it                                                     *)
Accepts(b, m) ==
  CASE b \in {"derandomise", "trunk"} -> m.type = "soft"
    [] b = "reverse"                  -> m.type = "blob" /\ Bytes(m.data) = d_MSG_LEN
    [] OTHER                          -> m.type = "blob"

\* Mutant of Register: the register is not reset before a message
Register_Kept(b) == d_state[b]

Register(b) == d_SEED

Randomised(b, m) ==
  IF b = "derandomise" THEN RandomiseSoft(Register(b), m.data)
                       ELSE Randomise(Register(b), m.data)

Converted(b, m) ==
  CASE b \in Randomisers -> [m EXCEPT !.data = Randomised(b, m).data]
    [] b = "trunk"       -> [m EXCEPT !.data = TrunkTail(m.data)]
    [] b = "reverse"     -> [m EXCEPT !.data = ReverseBits(m.data)]
    [] b = "add_asm"     -> [m EXCEPT !.data = AddAsm(m.data)]

(* What a converter reads of a message without looking at its length. Of a   *)
(* shorter one trunk_tail's f32vector_ref throws, which ends the thread (an  *)
(* Interrupt), and add_asm reads what lies behind it: Convert is not defined. *)
Reads(b) == CASE b = "trunk" -> TrunkRead [] b = "add_asm" -> 8 * ASM_FRAME_LEN [] OTHER -> 0

Convert(b) ==
  LET m == Head(queue[b])
  IN /\ Waiting(b) /\ m # EOF
     /\ Accepts(b, m) => Len(m.data) >= Reads(b)
     /\ Publish(b, IF Accepts(b, m) THEN <<Converted(b, m)>> ELSE <<>>, Tail(queue[b]))
     /\ d_state' = IF b \in Randomisers /\ Accepts(b, m)
                   THEN [d_state EXCEPT ![b] = Randomised(b, m).state]
                   ELSE d_state
     /\ UNCHANGED <<running, d_stop, nposts, ninterrupts, sinkVars, sourceVars>>

\* Mutant of Forwarded: EOF stops the block, and is not passed on
Forwarded_Nothing(b) == <<>>

Forwarded(b) == <<EOF>>

ConvertEof(b) ==
  /\ Waiting(b) /\ Head(queue[b]) = EOF
  /\ Publish(b, Forwarded(b), Tail(queue[b]))
  /\ d_stop' = [d_stop EXCEPT ![b] = TRUE]
  /\ UNCHANGED <<running, d_state, nposts, ninterrupts, sinkVars, sourceVars>>

-----------------------------------------------------------------------------
(* soft_to_hard_message: EOF calls stop(), after which nothing is accepted  *)
Harden ==
  LET m == Head(queue["harden"])
      hard == IF m = EOF THEN EOF ELSE Message("blob", m.hdr, SoftToHard(m.data))
  IN /\ "harden" \in Blocks /\ Waiting("harden")
     /\ IF d_stop["harden"] \/ (m # EOF /\ (m.type # "soft" \/ Len(m.data) % 8 # 0))
        THEN Handled("harden")
        ELSE Publish("harden", <<hard>>, Tail(queue["harden"]))
     /\ d_stop' = [d_stop EXCEPT !["harden"] = @ \/ m = EOF]
     /\ UNCHANGED <<running, d_state, nposts, ninterrupts, sinkVars, sourceVars>>

-----------------------------------------------------------------------------
(* process_message() of blob_msg_source_b *)
FitsSource(m) == m.type = "blob" /\ Bytes(m.data) = BLOB_LEN

\* Mutant of TakenHeaders: the header is queued before the length is checked
TakenHeaders_Early(m) == IF m.type = "blob" THEN <<m.hdr>> ELSE <<>>

TakenHeaders(m) == IF FitsSource(m) THEN <<m.hdr>> ELSE <<>>

SourceMessage ==
  LET m == Head(queue["source"])
  IN /\ "source" \in Blocks /\ Waiting("source")
     /\ Handled("source")
     /\ IF d_stop["source"] \/ m = EOF
        THEN /\ d_stop' = [d_stop EXCEPT !["source"] = TRUE]
             /\ UNCHANGED <<d_queue, d_metadata_queue>>
        ELSE /\ d_queue' = IF FitsSource(m)
                           THEN [d_queue EXCEPT !["source"] = @ \o Blob(m.data)]
                           ELSE d_queue
             /\ d_metadata_queue' = d_metadata_queue \o TakenHeaders(m)
             /\ UNCHANGED d_stop
     /\ UNCHANGED <<running, d_state, nposts, ninterrupts, sinkVars,
                    d_num_bytes_copied, out, tags>>

(* process_message() of softbits_msg_to_bytes_b, which goes on accepting    *)
(* messages after EOF                                                      *)
PackerMessage ==
  LET m == Head(queue["packer"])
  IN /\ "packer" \in Blocks /\ Waiting("packer")
     /\ Handled("packer")
     /\ d_stop' = [d_stop EXCEPT !["packer"] = @ \/ m = EOF]
     /\ d_queue' = IF m.type = "soft" THEN [d_queue EXCEPT !["packer"] = @ \o Pack(m.data)]
                                      ELSE d_queue
     /\ UNCHANGED <<running, d_state, nposts, ninterrupts, sinkVars, d_metadata_queue,
                    d_num_bytes_copied, out, tags>>

\* The bytes at which a call of work() that puts out n begins a message
Starts(n) ==
  {i \in d_num_bytes_copied .. d_num_bytes_copied + n - 1 : i % BLOB_LEN = 0}

\* Each of them gets the next header of the queue
NewTags(n) ==
  {[offset |-> i, hdr |-> d_metadata_queue[Cardinality({j \in Starts(n) : j <= i})]] :
     i \in Starts(n)}

pick_smaller(a, b) == IF a < b THEN a ELSE b

(* work() of the sources *)
Work(b, space) ==
  LET n == pick_smaller(space, Len(d_queue[b]))
  IN /\ running[b] /\ queue[b] = <<>> /\ n > 0
     /\ out' = [out EXCEPT ![b] = @ \o SubSeq(d_queue[b], 1, n)]
     /\ d_queue' = [d_queue EXCEPT ![b] = SubSeq(@, n + 1, Len(@))]
     /\ IF b = "source"
        THEN /\ tags' = tags \cup NewTags(n)
             /\ d_metadata_queue' = SubSeq(d_metadata_queue, Cardinality(Starts(n)) + 1,
                                           Len(d_metadata_queue))
             /\ d_num_bytes_copied' = d_num_bytes_copied + n
        ELSE UNCHANGED <<tags, d_metadata_queue, d_num_bytes_copied>>
     /\ UNCHANGED <<running, d_stop, d_state, nposts, ninterrupts, sinkVars, portVars>>

-----------------------------------------------------------------------------
\* Mutant of Done: a source ends with EOF, whatever is left in its queue
Done_AtEof(b) == d_stop[b]

\* work() of a source returns -1
Done(b) == d_stop[b] /\ d_queue[b] = <<>>

\* What stop() of a block publishes
\* (Farewell_Flush is a mutant of Farewell: stop() also sends what is left in the buffer)
Farewell_Flush(b) ==
  IF b \in Sinks THEN <<EOF, Message(SINK_TYPE[b], "empty", d_buffer)>>
  ELSE IF b = "harden" THEN <<EOF>> ELSE <<>>
Farewell(b) == IF b \in Sinks \cup {"harden"} THEN <<EOF>> ELSE <<>>

EndThread(b) ==
  /\ running' = [running EXCEPT ![b] = FALSE]
  /\ Publish(b, Farewell(b), <<>>)
  /\ d_stop' = IF b = "harden" THEN [d_stop EXCEPT ![b] = TRUE] ELSE d_stop
  /\ UNCHANGED <<d_state, nposts, sinkVars, sourceVars>>

Finish(b) ==
  /\ running[b] /\ queue[b] = <<>> /\ Done(b)
  /\ EndThread(b) /\ UNCHANGED ninterrupts

\* The input of a sink has ended, perhaps within a message
EndOfInput(b) == running[b] /\ EndThread(b) /\ UNCHANGED ninterrupts

\* The runtime ends a thread wherever it is (tb.stop(), "done", or an exception)
Interrupt(b) ==
  /\ ninterrupts < MaxInterrupts /\ running[b]
  /\ ninterrupts' = ninterrupts + 1
  /\ EndThread(b)

\* Somebody else posts a message to a source
Post(b, m) ==
  /\ nposts < MaxPosts[b] /\ running[b]
  /\ nposts' = nposts + 1
  /\ queue' = [queue EXCEPT ![b] = Append(@, m)]
  /\ arrived' = [arrived EXCEPT ![b] = Append(@, m)]
  /\ UNCHANGED <<running, d_stop, d_state, ninterrupts, published, sinkVars, sourceVars>>

Init ==
  /\ \E path \in Paths : running = [b \in Blocks |-> b \in path]
  /\ queue = [b \in Blocks |-> <<>>]
  /\ d_stop = [b \in Blocks |-> FALSE]
  /\ fed = 0 /\ d_buffer = <<>>
  /\ d_state = [b \in Randomisers |-> d_SEED]
  /\ d_queue = [b \in Sources |-> <<>>]
  /\ d_metadata_queue = <<>> /\ d_num_bytes_copied = 0
  /\ out = [b \in Sources |-> <<>>] /\ tags = {}
  /\ published = [b \in Blocks |-> <<>>]
  /\ arrived = [b \in Sources |-> <<>>]
  /\ nposts = 0 /\ ninterrupts = 0

\* What the threads behind the sink do by themselves
Threads ==
  \/ \E b \in Converters : Convert(b) \/ ConvertEof(b)
  \/ Harden \/ SourceMessage \/ PackerMessage
  \/ \E b \in Sources, space \in WorkSizes : Work(b, space)
  \/ \E b \in Sources : Finish(b)

Next ==
  \/ \E b \in Sinks : EndOfInput(b) \/ \E n \in FeedSizes[b] : Feed(b, n)
  \/ Threads
  \/ \E b \in Interruptible : Interrupt(b)
  \/ \E b \in Sources : \E m \in Posts[b] : Post(b, m)

(* A running thread handles its messages, work() of a source is called again *)
(* and again, and the reader of its output makes room; which of the threads  *)
(* goes on first is left open. Nothing is assumed of the input, the other    *)
(* senders and the threads that the runtime ends.                            *)
Spec     == Init /\ [][Next]_vars
FairSpec == Spec /\ WF_vars(Threads)

-----------------------------------------------------------------------------
(* Properties *)

(* What becomes of the input frame f, bit by bit: the randomiser sequence is *)
(* the linear recurrence of its polynomial, anew in each frame.              *)
Prbs[i \in 1 .. Max({SINK_LEN[b] : b \in Sinks})] ==
  IF i <= 8 THEN d_SEED[i]
  ELSE Cardinality({k \in 1 .. 8 : d_POLY[k] = 1 /\ Prbs[i - 9 + k] = 1}) % 2

InputAt(b, f, i) == Item(b, (f - 1) * SINK_LEN[b] + i)
HardAt(f, i) ==
  LET soft == InputAt("soft_sink", f, i)
  IN IF i > TrunkRead THEN 1
     ELSE hard_decision(IF Prbs[i] = 1 THEN -soft ELSE soft)
SentAt(f, i) ==
  LET from == IF (i - 1) \div 8 \in ToSet(d_POSITIONS) THEN Mirror(i) ELSE i
  IN (InputAt("blob_sink", f, from) + Prbs[i]) % 2

FrameOf(b, f) == IF b = "harden" THEN [i \in 1 .. d_FRAME_LEN - d_TRUNK_LEN |-> HardAt(f, i)]
                 ELSE d_ASM \o [i \in 1 .. 8 * ASM_FRAME_LEN |-> SentAt(f, i)]

(* However the input was divided into calls and the threads took turns, the  *)
(* path sends the frames of the input in order, each once, with the header   *)
(* of the sink and converted independently of the frames before it           *)
(* (process_frame of the message blocks, reset() of the randomisers).        *)
FramesArrive ==
  \A b \in Blocks \cap {"harden", "add_asm"} :
    \A f \in 1 .. Len(published[b]) :
      published[b][f] # EOF => published[b][f] = Message("blob", "empty", FrameOf(b, f))

(* No block sends a message after EOF, even if its thread is ended at any    *)
(* point and stop() sends EOF again; receivers may forget about a port after *)
(* EOF (stop() and process_message of all blocks).                          *)
EofLast ==
  \A b \in Blocks : \A i, j \in 1 .. Len(published[b]) :
    i < j /\ published[b][i] = EOF => published[b][j] = EOF

(* Whether a source has to put out message n of those that came: packer     *)
(* takes whatever has soft bits, source what fits and comes before EOF.     *)
IsTaken(b, msgs, n) ==
  IF b = "source" THEN FitsSource(msgs[n]) /\ \A j \in 1 .. n : msgs[j] # EOF
  ELSE msgs[n].type = "soft"

\* The first n of the sequences, one after the other
Concatenated(seqs) ==
  LET first[n \in 0 .. Len(seqs)] == IF n = 0 THEN <<>> ELSE first[n - 1] \o seqs[n]
  IN first

\* What a source makes of each of the messages that came: bytes, and headers
BytesOf(b, msgs) ==
  [n \in 1 .. Len(msgs) |-> IF ~IsTaken(b, msgs, n) THEN <<>>
                            ELSE IF b = "source" THEN Blob(msgs[n].data) ELSE Pack(msgs[n].data)]
HeadersOf(b, msgs) ==
  [n \in 1 .. Len(msgs) |-> IF IsTaken(b, msgs, n) THEN <<msgs[n].hdr>> ELSE <<>>]

Stream(b)  == Concatenated(BytesOf(b, arrived[b]))[Len(arrived[b])]
Headers(b) == Concatenated(HeadersOf(b, arrived[b]))[Len(arrived[b])]

(* A source puts out the bytes of its messages in the order they came, and  *)
(* its thread ends by itself only when all of them are out: also those that  *)
(* softbits_msg_to_bytes_b accepts after EOF (process_message and work).     *)
StreamWhole ==
  \A b \in Sources : /\ IsPrefix(out[b], Stream(b))
                     /\ ~running[b] /\ ninterrupts = 0 => out[b] = Stream(b)

(* The header of a message is attached to its first byte, for all divisions  *)
(* into calls of work(), and of no message that was not accepted; the queue  *)
(* of headers waits for exactly those bytes of the other queue that begin a  *)
(* message (blob_msg_source_b: d_metadata_queue and d_num_bytes_copied).     *)
HeadersInStep ==
  "source" \in Blocks =>
    /\ Len(d_metadata_queue) = Len(d_queue["source"]) \div BLOB_LEN
    /\ tags = {[offset |-> (k - 1) * BLOB_LEN, hdr |-> Headers("source")[k]] :
                 k \in 1 .. divide_ceil(Len(out["source"]), BLOB_LEN)}

(* EOF goes through the path: whoever has sent it, each of its receivers     *)
(* sends it on behind whatever lies in its queue, and a source puts out what  *)
(* it still has and ends by itself; unless the runtime ends that receiver's  *)
(* own thread before (process_frame and process_message on EOF, work() of    *)
(* the sources).                                                            *)
HasSent(b, m) == \E i \in 1 .. Len(published[b]) : published[b][i] = m
EofTravels ==
  <>[](\A b \in Blocks : \A c \in Subscribers[b] :
         HasSent(b, EOF) => ~running[c] \/ (c \notin Sources /\ HasSent(c, EOF)))

-----------------------------------------------------------------------------
(* What FramesArrive asks of the connections and of make(): the blocks are   *)
(* connected one behind the other, whatever else listens to them, with one  *)
(* sink in front; and the sinks send what the blocks behind them are made    *)
(* for, soft bits of the frame length, of which whole bytes are kept, and    *)
(* bytes of the message length, of which add_asm finds as many as it reads.  *)
PrevBlock ==
  [derandomise |-> "soft_sink", trunk |-> "derandomise", harden |-> "trunk",
   reverse |-> "blob_sink", randomise |-> "reverse", add_asm |-> "randomise"]
Behind == Blocks \cap DOMAIN PrevBlock

StandardPath ==
  /\ \A c \in Behind : {a \in Blocks : c \in Subscribers[a]} = {PrevBlock[c]}
  /\ \A path \in Paths : \A a, b \in Sinks : a \in path /\ b \in path => a = b

BlocksFit ==
  /\ "soft_sink" \in Blocks =>
       /\ SINK_TYPE["soft_sink"] = "soft" /\ SINK_LEN["soft_sink"] = d_FRAME_LEN
       /\ (d_FRAME_LEN - d_TRUNK_LEN) % 8 = 0
  /\ "blob_sink" \in Blocks =>
       /\ SINK_TYPE["blob_sink"] = "blob" /\ SINK_LEN["blob_sink"] = 8 * d_MSG_LEN
       /\ ASM_FRAME_LEN <= d_MSG_LEN
=============================================================================
