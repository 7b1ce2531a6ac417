------------------------- MODULE MCAsynchronousStart -------------------------
(* AsynchronousStart with two message sources and two waiting threads *)
EXTENDS AsynchronousStart
CONSTANTS s1, s2, w1, w2
=============================================================================
