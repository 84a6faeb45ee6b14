----------------------------- MODULE MCMailbox -----------------------------
(***************************************************************************)
(* Instances of Mailbox for TLC: posts p1, p2 and the put q, about p1.     *)
(***************************************************************************)
EXTENDS Mailbox

CONSTANTS p1, p2, q

MCOf == [s \in Puts |-> p1]
InTwoParts == [s \in Sessions |-> 2]
PutInTwo == [s \in Sessions |-> IF s = q THEN 2 ELSE 1]

=============================================================================
