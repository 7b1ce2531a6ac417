----------------------------- MODULE SortFrames -----------------------------
(***************************************************************************)
(* The frame sorter (lib/sort_frames_impl): frames arrive as messages, wait *)
(* in a ring of Window slots, one per frame number, and leave when the      *)
(* window moves on or the end of the stream is signalled.                  *)
(*                                                                         *)
(* The handler store_frame and the loop of flush_frames are split at their *)
(* iterations: between "storing" and "idle", or "flushing" and "idle", no  *)
(* other action is enabled, since the handler, work() and stop() run on    *)
(* the thread of the block.  A frame is its number, its score and the      *)
(* place it has in the order of arrival.                                   *)
(***************************************************************************)
EXTENDS Integers, Sequences, FiniteSets

CONSTANTS
  Window,            \* d_WINDOW
  Options,           \* configurations of the block: see OptionRecord
  Scores,            \* values of the score field
  MaxNumber,         \* bound: largest frame number
  MaxArrivals        \* bound: messages that arrive

\* d_ALLOW_DUPLICATES, d_HAS_SCORE_FIELD and d_SORT_ASCENDING
OptionRecord == [duplicates : BOOLEAN, scored : BOOLEAN, highest : BOOLEAN]

ASSUME SortAssumption ==
  /\ Window \in Nat \ {0}
  /\ Options \subseteq OptionRecord
  /\ Scores \subseteq Nat
  /\ MaxNumber \in Nat /\ MaxArrivals \in Nat

VARIABLES
  options,          \* the configuration of the block, which never changes
  current_frame,    \* d_current_frame
  storage_offset,   \* d_storage_offset: slot of the current frame
  storage,          \* d_frame_storage
  stopped,          \* d_stopped
  flushed,          \* d_flushed
  mode,             \* "idle", "storing" a frame, "flushing", "done"
  pending,          \* the frame store_frame is working on
  flush_next,       \* loop variable of flush_frames
  flush_eof,        \* flush_frames was called for EOF
  out,              \* messages published on the port out
  arrivals,         \* history: messages received
  offered,          \* history: frames offered to each slot since it was cleared
  accepted          \* history: frames stored or beaten by a stored one

vars == <<options, current_frame, storage_offset, storage, stopped, flushed, mode, pending,
          flush_next, flush_eof, out, arrivals, offered, accepted>>

Slots == 0 .. Window - 1
Frame == [number : Nat, score : Nat, id : Nat]
EOF   == [number |-> -1, score |-> 0, id |-> 0]      \* pmt::PMT_EOF
NoFrame == EOF

EmptySlot == [frames |-> <<>>, best_index |-> 0, best_value |-> 0]

MinusCapZero(a, b) == IF a >= b THEN a - b ELSE 0

\* Mutants of SlotOf (get_duplicates): counted from the wrong end of the ring
SlotOf_Forward(n) == (storage_offset + (current_frame - n)) % Window

\* get_duplicates: the slot of a frame number
SlotOf(n) == MinusCapZero(Window + storage_offset, current_frame - n) % Window

-----------------------------------------------------------------------------
(* Actions *)

\* A frame for the window or ahead of it: store_frame starts working on it
Receive(n, s) ==
  /\ mode = "idle" /\ arrivals < MaxArrivals
  /\ n + Window > current_frame
  /\ pending' = [number |-> n, score |-> s, id |-> arrivals + 1]
  /\ arrivals' = arrivals + 1
  /\ mode' = "storing"
  /\ UNCHANGED <<options, current_frame, storage_offset, storage, stopped, flushed,
                 flush_next, flush_eof, out, offered, accepted>>

(* Not a pair, no dictionary, no number, no score although one is needed,  *)
(* or a number that has left the window: a warning and nothing else        *)
Drop ==
  /\ mode = "idle" /\ arrivals < MaxArrivals
  /\ arrivals' = arrivals + 1
  /\ UNCHANGED <<options, current_frame, storage_offset, storage, stopped, flushed, mode,
                 pending, flush_next, flush_eof, out, offered, accepted>>

\* send_frame, on the slot of n
Sent(n)    == storage[SlotOf(n)].frames
\* (Cleared_Not is a mutant of Cleared)
Cleared_Not(n) == storage
Cleared(n) == [storage EXCEPT ![SlotOf(n)].frames = <<>>]

\* advance_storage: the slot of the next frame number
NewOffset == (storage_offset + 1) % Window

\* One iteration of the loop of store_frame that moves the window
MoveWindow ==
  LET n    == current_frame - Window
      send == current_frame >= Window
  IN /\ mode = "storing" /\ current_frame < pending.number
     /\ out' = IF send THEN out \o Sent(n) ELSE out
     /\ storage' = [(IF send THEN Cleared(n) ELSE storage) EXCEPT ![NewOffset] = EmptySlot]
     /\ offered' = [(IF send THEN [offered EXCEPT ![SlotOf(n)] = {}] ELSE offered)
                      EXCEPT ![NewOffset] = {}]
     /\ storage_offset' = NewOffset
     /\ current_frame' = current_frame + 1
     /\ UNCHANGED <<options, stopped, flushed, mode, pending, flush_next, flush_eof,
                    arrivals, accepted>>

\* The new frame beats the ones in its slot
Better(f, slot) ==
  IF options.scored
  THEN IF options.highest THEN f.score > slot.best_value ELSE f.score < slot.best_value
  ELSE options.highest

\* Mutant of Kept: a duplicate that is kept does not update the best one
Kept_NoUpdate(f, slot) ==
  IF slot.frames = <<>> THEN [frames |-> <<f>>, best_index |-> 0, best_value |-> f.score]
  ELSE IF options.duplicates THEN [slot EXCEPT !.frames = Append(@, f)]
  ELSE IF Better(f, slot) THEN [slot EXCEPT !.frames[1] = f]
  ELSE slot

\* store_frame: what a slot becomes when it is offered the frame f
Kept(f, slot) ==
  CASE slot.frames = <<>> ->
         [frames |-> <<f>>, best_index |-> 0, best_value |-> f.score]
    [] slot.frames # <<>> /\ options.duplicates ->
         [frames     |-> Append(slot.frames, f),
          best_index |-> IF Better(f, slot) THEN Len(slot.frames) ELSE slot.best_index,
          best_value |-> IF Better(f, slot) THEN f.score ELSE slot.best_value]
    [] slot.frames # <<>> /\ ~ options.duplicates /\ Better(f, slot) ->
         [frames |-> [slot.frames EXCEPT ![1] = f], best_index |-> 0, best_value |-> f.score]
    [] OTHER -> slot

\* The rest of store_frame, once the window contains the frame
StoreFrame ==
  LET slot == SlotOf(pending.number)
  IN /\ mode = "storing" /\ current_frame >= pending.number
     /\ storage' = [storage EXCEPT ![slot] = Kept(pending, @)]
     /\ offered' = [offered EXCEPT ![slot] = @ \cup {pending}]
     /\ accepted' = accepted \cup {pending}
     /\ mode' = "idle"
     /\ pending' = NoFrame
     /\ UNCHANGED <<options, current_frame, storage_offset, stopped, flushed,
                    flush_next, flush_eof, out, arrivals>>

\* Mutant of FlushFirst: the loop of flush_frames starts one frame too late
FlushFirst_Late == MinusCapZero(current_frame + 2, Window)

\* First value of the loop variable of flush_frames
FlushFirst == MinusCapZero(current_frame + 1, Window)

\* store_frame on EOF calls flush_frames
ReceiveEof ==
  /\ mode = "idle" /\ arrivals < MaxArrivals
  /\ arrivals' = arrivals + 1
  /\ mode' = "flushing"
  /\ flush_next' = FlushFirst
  /\ flush_eof' = TRUE
  /\ UNCHANGED <<options, current_frame, storage_offset, storage, stopped, flushed,
                 pending, out, offered, accepted>>

\* One iteration of the loop of flush_frames
FlushStep ==
  /\ mode = "flushing" /\ flush_next <= current_frame
  /\ out' = out \o Sent(flush_next)
  /\ storage' = Cleared(flush_next)
  /\ offered' = [offered EXCEPT ![SlotOf(flush_next)] = {}]
  /\ flush_next' = flush_next + 1
  /\ UNCHANGED <<options, current_frame, storage_offset, stopped, flushed, mode, pending,
                 flush_eof, arrivals, accepted>>

\* Mutant of FlushEnd: store_frame returns from flush_frames without
\* publishing EOF
FlushEnd_Silent ==
  /\ mode = "flushing" /\ flush_next > current_frame
  /\ flushed' = TRUE
  /\ stopped' = TRUE
  /\ mode' = IF flush_eof THEN "idle" ELSE "done"
  /\ UNCHANGED <<options, current_frame, storage_offset, storage, pending, flush_next,
                 flush_eof, out, arrivals, offered, accepted>>

\* flush_frames returns; store_frame passes EOF on, work() is done
FlushEnd ==
  /\ mode = "flushing" /\ flush_next > current_frame
  /\ flushed' = TRUE
  /\ stopped' = TRUE
  /\ out' = IF flush_eof THEN Append(out, EOF) ELSE out
  /\ mode' = IF flush_eof THEN "idle" ELSE "done"
  /\ UNCHANGED <<options, current_frame, storage_offset, storage, pending, flush_next,
                 flush_eof, arrivals, offered, accepted>>

\* stop(), called by the runtime when the flowgraph ends
Stop ==
  /\ mode = "idle"
  /\ stopped' = TRUE
  /\ mode' = "stopping"
  /\ UNCHANGED <<options, current_frame, storage_offset, storage, flushed, pending,
                 flush_next, flush_eof, out, arrivals, offered, accepted>>

(* work(): flushes after a stop without EOF.  The runtime is free to make  *)
(* this last call or not.                                                  *)
WorkAfterStop ==
  /\ mode = "stopping" /\ stopped /\ ~ flushed
  /\ mode' = "flushing"
  /\ flush_next' = FlushFirst
  /\ flush_eof' = FALSE
  /\ UNCHANGED <<options, current_frame, storage_offset, storage, stopped, flushed,
                 pending, out, arrivals, offered, accepted>>

Init ==
  /\ options \in Options
  /\ current_frame = 0
  /\ storage_offset = Window - 1
  /\ storage = [k \in Slots |-> EmptySlot]
  /\ stopped = FALSE
  /\ flushed = FALSE
  /\ mode = "idle"
  /\ pending = NoFrame
  /\ flush_next = 0
  /\ flush_eof = FALSE
  /\ out = <<>>
  /\ arrivals = 0
  /\ offered = [k \in Slots |-> {}]
  /\ accepted = {}

Next ==
  \/ \E n \in 0 .. MaxNumber, s \in Scores : Receive(n, s)
  \/ Drop
  \/ MoveWindow
  \/ StoreFrame
  \/ ReceiveEof
  \/ FlushStep
  \/ FlushEnd
  \/ Stop
  \/ WorkAfterStop

Spec == Init /\ [][Next]_vars

\* The thread of the block does not stop in the middle of a handler
FairSpec == Spec /\ WF_vars(MoveWindow \/ StoreFrame \/ FlushStep \/ FlushEnd)

-----------------------------------------------------------------------------
(* Properties *)

Slot == [frames : Seq(Frame), best_index : Nat, best_value : Nat]

\* Shape of the state of sort_frames_impl.
TypeOK ==
  /\ options \in OptionRecord
  /\ current_frame \in Nat
  /\ storage_offset \in Slots
  /\ storage \in [Slots -> Slot]
  /\ stopped \in BOOLEAN /\ flushed \in BOOLEAN /\ flush_eof \in BOOLEAN
  /\ mode \in {"idle", "storing", "flushing", "stopping", "done"}
  /\ pending \in Frame \cup {NoFrame}
  /\ mode = "storing" => pending \in Frame /\ pending.number + Window > current_frame
  /\ flush_next \in Nat
  /\ out \in Seq(Frame \cup {EOF})
  /\ arrivals \in Nat
  /\ offered \in [Slots -> SUBSET Frame]
  /\ accepted \in SUBSET Frame

InWindow == {n \in MinusCapZero(current_frame + 1, Window) .. current_frame : TRUE}

\* The ring never mixes frame numbers: the slot get_duplicates finds for a
\* number of the window holds frames of that number only, whatever gaps, late
\* frames and jumps of the window there were.
SlotsHoldOwnNumber ==
  \A n \in InWindow : \A i \in 1 .. Len(storage[SlotOf(n)].frames) :
    storage[SlotOf(n)].frames[i].number = n

\* No frame is published twice or is published and still stored, although
\* slots are sent by store_frame and by flush_frames (send_frame clears them).
NothingTwice ==
  /\ \A i, j \in 1 .. Len(out) : out[i] = out[j] => i = j \/ out[i] = EOF
  /\ \A k \in Slots : \A i \in 1 .. Len(storage[k].frames), j \in 1 .. Len(out) :
       storage[k].frames[i] # out[j]

\* g scores at least as well as f
ScoresAtLeast(g, f) == IF options.highest THEN g.score >= f.score ELSE g.score <= f.score

\* A slot keeps the right frames of those offered since it was opened
\* (store_frame): all of them, or one that no other one beats by its score,
\* and best_index points at such a one.  Which of several frames without a
\* score is the right one is left open: sort_frames.h:51-52 says the first,
\* sort_frames.h:81-83 the first for pick_highest_score and else the last,
\* sort_frames.h:85-86 the opposite, which is what the code does.
BestIsKept ==
  \A k \in Slots :
    /\ storage[k].frames = <<>> <=> offered[k] = {}
    /\ offered[k] # {} =>
         LET best == storage[k].frames[storage[k].best_index + 1]
         IN /\ best \in offered[k]
            /\ options.scored => \A f \in offered[k] : ScoresAtLeast(best, f)
            /\ IF options.duplicates
               THEN {storage[k].frames[i] : i \in 1 .. Len(storage[k].frames)} = offered[k]
               ELSE Len(storage[k].frames) = 1

\* When EOF is passed on nothing is left behind: the loop of flush_frames
\* covers every slot of the ring.
NothingLeftAtEof ==
  mode = "flushing" /\ flush_next > current_frame =>
    \A k \in Slots : storage[k].frames = <<>>

\* The positions of EOF in the output
EofsSent == {j \in 1 .. Len(out) : out[j] = EOF}

\* Every EOF that is received is passed on, behind all that was sent before:
\* the k-th EOF that starts a flush ends up as the last message of the output
\* and the k-th EOF there (store_frame).
EofPassedOn ==
  \A k \in 0 .. MaxArrivals - 1 :
    mode = "flushing" /\ flush_eof /\ Cardinality(EofsSent) = k
      ~> Cardinality(EofsSent) = k + 1 /\ out[Len(out)] = EOF

\* sort_frames.h: frames that leave the window "are final and can be send
\* out".  With duplicates allowed every accepted frame is stored or sent.
AcceptedFramesSent ==
  \A f \in accepted :
    \/ \E k \in Slots : \E i \in 1 .. Len(storage[k].frames) : storage[k].frames[i] = f
    \/ \E i \in 1 .. Len(out) : out[i] = f

=============================================================================
