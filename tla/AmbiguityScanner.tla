-------------------------- MODULE AmbiguityScanner --------------------------
(***************************************************************************)
(* What the ambiguity resolver promises (include/ccsds/                    *)
(* mpsk_ambiguity_resolver_f.h): it searches for the ASM in every          *)
(* ambiguity; locked, it looks for it at the expected position only; a     *)
(* counter of found and missed markers decides when it searches again.     *)
(* There is no buffer, no call and no symbol here: next is the position of *)
(* the first bit that has not been dealt with.                             *)
(***************************************************************************)
EXTENDS Integers, Sequences

CONSTANTS
  LdM,         \* bits per symbol
  AsmLen,      \* bits of the ASM
  FrameLen,    \* bits of a frame
  Threshold,   \* largest trust
  Streams,     \* ambiguities
  Reach        \* how far ahead a better match is preferred to an earlier one

VARIABLES
  matches,     \* where, and in which stream, there is an ASM
  next,        \* first bit that has not been dealt with
  phase,       \* "searching", "in frame", "at marker"
  trust,       \* confidence in the lock
  stream,      \* ambiguity that the scanner is locked on
  sent         \* position and ambiguity of the frames that have been sent

vars == <<matches, next, phase, trust, stream, sent>>

AsmAt(p) == {a \in Streams : <<p, a>> \in matches}

\* Bits at which no ASM begins are passed over
Skip ==
  /\ phase = "searching"
  /\ next' > next
  /\ \A p \in next .. next' - 1 : AsmAt(p) = {}
  /\ UNCHANGED <<matches, phase, trust, stream, sent>>

\* An ASM is found; another one before it is passed over only within Reach
Lock ==
  /\ phase = "searching"
  /\ next' >= next + AsmLen
  /\ stream' \in AsmAt(next' - AsmLen)
  /\ \A p \in next .. next' - AsmLen - Reach - 1 : AsmAt(p) = {}
  /\ phase' = "in frame"
  /\ trust' = 0
  /\ UNCHANGED <<matches, sent>>

\* A frame is complete
Deliver ==
  /\ phase = "in frame"
  /\ sent' = Append(sent, <<next, stream>>)
  /\ next' = next + FrameLen
  /\ phase' = "at marker"
  /\ UNCHANGED <<matches, trust, stream>>

\* The expected ASM is there
Confirm ==
  /\ phase = "at marker"
  /\ stream \in AsmAt(next)
  /\ trust' = IF trust < Threshold THEN trust + 1 ELSE Threshold
  /\ next' = next + AsmLen
  /\ phase' = "in frame"
  /\ UNCHANGED <<matches, stream, sent>>

\* The expected ASM is not there, but trust is left
Tolerate ==
  /\ phase = "at marker"
  /\ stream \notin AsmAt(next) /\ trust > 1
  /\ trust' = trust - 1
  /\ next' = next + AsmLen
  /\ phase' = "in frame"
  /\ UNCHANGED <<matches, stream, sent>>

\* The expected ASM is not there, and no trust is left: search again, from the
\* symbol on that the ASM was expected in
Lose ==
  /\ phase = "at marker"
  /\ stream \notin AsmAt(next) /\ trust <= 1
  /\ next' \in next - LdM + 1 .. next
  /\ phase' = "searching"
  /\ trust' = 0
  /\ UNCHANGED <<matches, stream, sent>>

Init == next = 0 /\ phase = "searching" /\ trust = 0 /\ sent = <<>>

Next == Skip \/ Lock \/ Deliver \/ Confirm \/ Tolerate \/ Lose

Spec == Init /\ [][Next]_vars
=============================================================================
