----------------------------- MODULE MCRunStream -----------------------------
(* RunStream for TLC: the configurations give the constants.               *)
EXTENDS RunStream
=============================================================================
