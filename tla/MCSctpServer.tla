---------------------------- MODULE MCSctpServer ----------------------------
(***************************************************************************)
(* Instances of SctpServer for TLC: controllers a and b, which connect to  *)
(* each other after each has tried an address x where nobody listens (the  *)
(* first connect of a server is never issued).                             *)
(***************************************************************************)
EXTENDS SctpServer

CONSTANTS a, b, x, ax, a1, a2, bx, b1

MCFrom == [c \in Connects |-> IF c \in {bx, b1} THEN b ELSE a]
MCTo == [c \in Connects |-> CASE c \in {ax, bx} -> x
                              [] c = b1 -> a
                              [] OTHER -> b]
MCEarlier == [c \in Connects |-> CASE c = a1 -> {ax}
                                   [] c = a2 -> {ax, a1}
                                   [] c = b1 -> {bx} \intersect Connects
                                   [] OTHER -> {}]
=============================================================================
