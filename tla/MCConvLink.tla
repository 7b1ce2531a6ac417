----------------------------- MODULE MCConvLink -----------------------------
(* Frames of one byte behind the marker 0x1A, the polynomials of the tests.  *)
EXTENDS ConvLink

MCAsm  == <<0, 0, 0, 1, 1, 0, 1, 0>>
MCData == {<<1, 1, 0, 0, 1, 0, 1, 0>>, <<0, 0, 0, 0, 1, 1, 1, 1>>}

\* The instance is one of those the proofs are about
ASSUME MCCodeUnique == CodeUnique
=============================================================================
