------------------------------- MODULE Receiver -------------------------------
(***************************************************************************)
(* The command line receiver (python/bpsk_rx): main() merges three sources   *)
(* of options, checks them and builds a chain of decoders; then the          *)
(* decoders put frames in a queue, and a daemon thread takes them out and    *)
(* keeps account of the received and the lost ones until main() returns.     *)
(*                                                                         *)
(* The options stand for their kinds: switches, the names of the input and   *)
(* the output, and one parameter of each section of the configuration file.  *)
(* The decoders and the link are external: frames are sent with consecutive  *)
(* numbers, some are lost, and the others come out in order.                 *)
(***************************************************************************)
EXTENDS Integers, Sequences, Functions

CONSTANTS
  None,              \* an option without a value
  CommandLines,      \* bound: the command lines, functions from options to values
  Files,             \* bound: the configuration files, likewise
  frame_syms,        \* symbols of a frame
  PARITY_BITS,       \* bits the Reed-Solomon decoder removes (5*32*8)
  COUNTER,           \* frame numbers, 256
  MaxQueue,          \* bound: frames waiting in the queue
  MaxSent,           \* bound: frames sent
  MaxShort           \* bound: payloads without a frame number

ASSUME ReceiverAssumption ==
  /\ frame_syms \in Nat /\ PARITY_BITS \in Nat
  /\ COUNTER \in Nat /\ COUNTER > 1
  /\ MaxQueue \in Nat /\ MaxSent \in Nat /\ MaxShort \in Nat

default ==
  [from_usrp |-> FALSE, from_file |-> None, frame_sync |-> TRUE, viterbi27 |-> TRUE,
   derandomise |-> TRUE, reed_solomon |-> TRUE, inspect_queue |-> FALSE, to_file |-> None,
   centre_freq |-> "default", repeat_file |-> FALSE, access_code |-> "default"]

VARIABLES
  phase,             \* where main() is
  cmdline, file,     \* what the user wrote
  configfile,        \* what getFileConfig() read
  options,           \* the merged options
  stages,            \* the chain: each stage with the bits of a message it was told
  message_bits,      \* options.message_bits
  watcher,           \* _queue_watcher_thread: "none", "running" or "dead"
  rcvd_pktq,         \* its queue
  n_rcvd, n_lost, p_frameno, lock,   \* the account of rx_callback
  sent,              \* external: frames sent so far
  nshort,            \* payloads without a frame number so far
  account            \* history: the last frame counted; since the lock, frames missed, whole
                     \* turns of the counter in the gaps, and wraps besides; frames in an
                     \* unbroken row, the longest such row, and whether a gap of whole turns
                     \* was taken for none before the lock

configVars == <<cmdline, file, configfile, options, stages, message_bits>>
countVars  == <<n_rcvd, n_lost, p_frameno, lock>>
vars == <<phase, configVars, watcher, rcvd_pktq, countVars, sent, nshort, account>>

-----------------------------------------------------------------------------
Given(config, key) == key \in DOMAIN config
IsOn(config, key)  ==
  /\ Given(config, key)
  /\ IF key = "from_file" THEN config[key] # None ELSE config[key]

(* getFileConfig(): the parameters of a section are read only if the file   *)
(* itself switches the section on; the value of pseudo-derandomize is        *)
(* stored under a name nobody asks for                                      *)
Section == [centre_freq |-> "from_usrp", repeat_file |-> "from_file", access_code |-> "frame_sync"]

Read(key) == Given(Section, key) => IsOn(file, Section[key])

getFileConfig ==
  /\ phase = "file"
  /\ configfile' = Restrict(file, {key \in DOMAIN file \ {"derandomise"} : Read(key)})
  /\ phase' = "merge"
  /\ UNCHANGED <<cmdline, file, options, stages, message_bits, watcher, rcvd_pktq, countVars,
                 sent, nshort, account>>

Merged(key) ==
  IF Given(cmdline, key) THEN cmdline[key]
  ELSE IF Given(configfile, key) THEN configfile[key] ELSE default[key]

merge ==
  /\ phase = "merge"
  /\ options' = [key \in DOMAIN default |-> Merged(key)]
  /\ phase' = "validate"
  /\ UNCHANGED <<cmdline, file, configfile, stages, message_bits, watcher, rcvd_pktq, countVars,
                 sent, nshort, account>>

(* No input or no output ends the program; a USRP without frame sync has to  *)
(* be confirmed, and may be interrupted                                     *)
Rejected == \/ ~options.from_usrp /\ options.from_file = None
            \/ ~options.inspect_queue /\ options.to_file = None
Asks     == options.from_usrp /\ ~options.frame_sync

validate ==
  /\ phase = "validate"
  /\ \/ /\ ~Rejected
        /\ message_bits' = frame_syms
        /\ options' = [options EXCEPT !.access_code = IF @ = None THEN "default" ELSE @]
        /\ phase' = "frame_sync"
     \/ /\ Rejected \/ Asks
        /\ phase' = "exited"
        /\ UNCHANGED <<message_bits, options>>
  /\ cmdline' = <<>> /\ file' = <<>> /\ configfile' = <<>>      \* not used any more
  /\ UNCHANGED <<stages, watcher, rcvd_pktq, countVars, sent, nshort, account>>

-----------------------------------------------------------------------------
(* receive_path goes through the stages one by one and calls the             *)
(* constructors of those that are switched on. Each reads the options, and   *)
(* may change message_bits for those behind it.                             *)
Stages == {"frame_sync", "viterbi27", "derandomise", "reed_solomon"}
Stage(name, bits) == [name |-> name, bits |-> bits]

\* Mutant of NextStage: the derandomiser is built before the Viterbi decoder
NextStage_Swapped ==
  [frame_sync |-> "derandomise", derandomise |-> "viterbi27", viterbi27 |-> "reed_solomon",
   reed_solomon |-> "output"]

NextStage ==
  [frame_sync |-> "viterbi27", viterbi27 |-> "derandomise", derandomise |-> "reed_solomon",
   reed_solomon |-> "output"]

\* The bits of a message that the constructor passes to its decoder
Told(name) == IF name \in {"frame_sync", "viterbi27"} THEN frame_syms ELSE message_bits

\* message_bits after the constructor
Changed(name) ==
  CASE name = "viterbi27"    -> message_bits \div 2
    [] name = "reed_solomon" -> message_bits - PARITY_BITS
    [] OTHER                 -> message_bits

construct(name) ==
  /\ phase = name
  /\ phase' = NextStage[name]
  /\ IF options[name]
     THEN stages' = Append(stages, Stage(name, Told(name))) /\ message_bits' = Changed(name)
     ELSE UNCHANGED <<stages, message_bits>>
  /\ UNCHANGED <<cmdline, file, configfile, options, watcher, rcvd_pktq, countVars, sent, nshort,
                 account>>

receive_path ==
  /\ phase = "output"
  /\ watcher' = IF options.inspect_queue THEN "running" ELSE "none"
  /\ phase' = "running"
  /\ UNCHANGED <<configVars, rcvd_pktq, countVars, sent, nshort, account>>

-----------------------------------------------------------------------------
\* A message in the queue, with the frame sent last before it ended
Message(short, n) == [short |-> short, n |-> n]
FrameNumber(msg)  == msg.n % COUNTER

Put(msg) ==
  /\ phase = "running" /\ watcher # "none"
  /\ Len(rcvd_pktq) < MaxQueue
  /\ rcvd_pktq' = Append(rcvd_pktq, msg)
  /\ UNCHANGED <<phase, configVars, watcher, countVars, account>>

\* Some frames are lost, the next one comes out of the last decoder
Deliver(lost) ==
  /\ sent + lost + 1 <= MaxSent
  /\ sent' = sent + lost + 1
  /\ Put(Message(FALSE, sent'))
  /\ UNCHANGED nshort

\* Without frame sync a message has any length
DeliverShort ==
  /\ ~options.frame_sync /\ nshort < MaxShort
  /\ nshort' = nshort + 1
  /\ Put(Message(TRUE, sent))
  /\ UNCHANGED sent

\* Mutant of Skipped: one frame too many across a wrap
Skipped_TooMany(frameno) ==
  IF frameno > p_frameno THEN frameno - p_frameno - 1 ELSE COUNTER - p_frameno + frameno

\* Frames that rx_callback takes for lost
Skipped(frameno) ==
  IF frameno > p_frameno THEN frameno - p_frameno - 1
  ELSE (IF p_frameno # COUNTER - 1 THEN COUNTER - 1 - p_frameno - 1 ELSE 0)
       + (IF frameno > 0 THEN frameno - 1 ELSE 0)

\* Mutant of NextLock: a gap does not reset the lock
NextLock_NoReset(frameno) == IF frameno = p_frameno + 1 THEN lock + 1 ELSE lock

NextLock(frameno) == IF frameno = p_frameno + 1 THEN lock + 1 ELSE 0

rx_callback(frameno) ==
  /\ lock'   = IF n_rcvd = 0 THEN 0 ELSE IF lock < 3 THEN NextLock(frameno) ELSE lock
  /\ n_lost' = IF n_rcvd = 0 THEN 0
               ELSE IF lock < 3 THEN n_lost ELSE n_lost + Skipped(frameno)
  /\ p_frameno' = frameno
  /\ n_rcvd' = n_rcvd + 1

\* What really happened between the last two frames
Accounted(n) ==
  LET gap    == n - account.last - 1
      turns  == gap \div COUNTER
      row    == IF n_rcvd > 0 /\ gap = 0 THEN account.row + 1 ELSE 0
      inLock == n_rcvd > 0 /\ lock = 3
      Counted(k) == IF inLock THEN k ELSE 0
  IN [last     |-> n,
      missed   |-> account.missed + Counted(gap),
      turns    |-> account.turns + Counted(turns),
      wraps    |-> account.wraps + Counted(n \div COUNTER - account.last \div COUNTER - turns),
      row      |-> row,
      longest  |-> IF row > account.longest THEN row ELSE account.longest,
      mistaken |-> \/ account.mistaken
                   \/ n_rcvd > 0 /\ ~inLock /\ gap > 0 /\ gap % COUNTER = 0]

Watch ==
  /\ watcher = "running" /\ phase = "running"
  /\ rcvd_pktq # <<>> /\ ~Head(rcvd_pktq).short
  /\ rcvd_pktq' = Tail(rcvd_pktq)
  /\ rx_callback(FrameNumber(Head(rcvd_pktq)))
  /\ account' = Accounted(Head(rcvd_pktq).n)
  /\ UNCHANGED <<phase, configVars, watcher, sent, nshort>>

\* struct.unpack throws, which ends the thread
WatchShort ==
  /\ watcher = "running" /\ phase = "running"
  /\ rcvd_pktq # <<>> /\ Head(rcvd_pktq).short
  /\ rcvd_pktq' = Tail(rcvd_pktq)
  /\ watcher' = "dead"
  /\ UNCHANGED <<phase, configVars, countVars, sent, nshort, account>>

\* The flow graph ends, main() returns, and the daemon thread with it
exit ==
  /\ phase = "running"
  /\ phase' = "exited"
  /\ UNCHANGED <<configVars, watcher, rcvd_pktq, countVars, sent, nshort, account>>

Init ==
  /\ phase = "file"
  /\ cmdline \in CommandLines /\ file \in Files
  /\ configfile = <<>> /\ options = default
  /\ stages = <<>> /\ message_bits = 0
  /\ watcher = "none" /\ rcvd_pktq = <<>>
  /\ n_rcvd = 0 /\ n_lost = 0 /\ p_frameno = COUNTER /\ lock = 0
  /\ sent = 0 /\ nshort = 0
  /\ account = [last |-> 0, missed |-> 0, turns |-> 0, wraps |-> 0, row |-> 0, longest |-> 0,
                mistaken |-> FALSE]

Next ==
  \/ getFileConfig \/ merge \/ validate
  \/ \E name \in Stages : construct(name)
  \/ receive_path
  \/ \E lost \in 0 .. MaxSent : Deliver(lost)
  \/ DeliverShort
  \/ Watch \/ WatchShort
  \/ exit

Spec == Init /\ [][Next]_vars

-----------------------------------------------------------------------------
(* The convolutional code is the innermost of the link: the framer and the   *)
(* Viterbi decoder are told the symbols of a frame, and the derandomiser and *)
(* the Reed-Solomon decoder the bits of the decoded frame, whichever of the  *)
(* others are switched off; message_bits is what remains for the output      *)
(* (constructors of vit27_decode, pdr and reed_solomon, called by            *)
(* receive_path).                                                           *)
DecodedBits == frame_syms \div (IF options.viterbi27 THEN 2 ELSE 1)
PipelineBits ==
  phase = "running" =>
    /\ \A i \in 1 .. Len(stages) :
         stages[i].bits = IF stages[i].name \in {"frame_sync", "viterbi27"}
                          THEN frame_syms ELSE DecodedBits
    /\ message_bits = DecodedBits - (IF options.reed_solomon THEN PARITY_BITS ELSE 0)

(* The frames counted as lost are those that were lost since the lock, but   *)
(* for the whole turns of the counter in a gap, which no number shows, and   *)
(* for at most two with each wrap of the frame number besides, which         *)
(* rx_callback leaves out; it never counts one too many.                    *)
LossAccount ==
  LET seen == n_lost + COUNTER * account.turns
  IN seen <= account.missed /\ account.missed <= seen + 2 * account.wraps

(* The account starts only after four frames really came in a row: the       *)
(* difference of two numbers takes no other gap for the next frame than one  *)
(* of whole turns of the counter, and that one it does (rx_callback).        *)
LockEarned == ~account.mistaken => lock <= account.longest
=============================================================================
