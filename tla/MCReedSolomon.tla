---------------------------- MODULE MCReedSolomon ----------------------------
(* Three codeblocks of two data and two parity symbols that correct one      *)
(* error: frames of twelve bytes that survive bursts of three.              *)
EXTENDS ReedSolomon

OneByte == {-1, 0, 1}
=============================================================================
