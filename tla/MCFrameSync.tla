---------------------------- MODULE MCFrameSync ----------------------------
(* Small instances of FrameSync.  The positions known in advance.         *)
EXTENDS FrameSync

TwoPositions  == {[offset |-> 2, ambiguity |-> 0], [offset |-> 7, ambiguity |-> 1]}
=============================================================================
