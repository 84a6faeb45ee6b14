---------------------------- MODULE MCApiRequests ---------------------------
(* Instances of ApiRequests for TLC.                                       *)
EXTENDS ApiRequests

CONSTANTS c1, c2, c3

=============================================================================
