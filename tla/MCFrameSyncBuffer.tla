------------------------- MODULE MCFrameSyncBuffer -------------------------
(* Small instances of FrameSyncBuffer: the geometry is in the cfg files.*)
EXTENDS FrameSyncBuffer
=============================================================================
