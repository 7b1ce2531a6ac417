---------------------------- MODULE MCSortFrames ----------------------------
(* Small instances of SortFrames: a window of three frames.                *)
EXTENDS SortFrames

\* Duplicates forwarded, or the best, the last, or the first frame kept
FourOptions ==
  {[duplicates |-> TRUE,  scored |-> TRUE,  highest |-> TRUE],
   [duplicates |-> FALSE, scored |-> TRUE,  highest |-> FALSE],
   [duplicates |-> FALSE, scored |-> FALSE, highest |-> TRUE],
   [duplicates |-> FALSE, scored |-> FALSE, highest |-> FALSE]}

AllForwarded == {[duplicates |-> TRUE, scored |-> FALSE, highest |-> TRUE]}
=============================================================================
