--------------------------- MODULE MCThreadSched ---------------------------
(***************************************************************************)
(* Instances of ThreadSched for TLC: the main thread and two or three      *)
(* contexts, as model values.                                              *)
(***************************************************************************)
EXTENDS ThreadSched

CONSTANTS c1, c2, c3

=============================================================================
