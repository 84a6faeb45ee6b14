---------------------------- MODULE SharedResults ---------------------------
(***************************************************************************)
(* What contexts with one UUID promise each other, whatever the streams    *)
(* between them do: every context may compute every action itself, learns  *)
(* only what another one knows, and is over with all results but those it  *)
(* tried to compute and could not.  A context without any other of them is *)
(* over only after the primary context.                                    *)
(***************************************************************************)
CONSTANTS
  Nodes,    \* Controllers.
  Primary,  \* The controller that was asked first.
  Actions   \* The actions of the manifest.

VARIABLES
  phase,    \* The context on each controller.
  known,    \* The actions it has the results of.
  failed    \* Those it could not compute.

vars == <<phase, known, failed>>

Init ==
  /\ phase = [n \in Nodes |-> "none"]
  /\ known = [n \in Nodes |-> {}]
  /\ failed = [n \in Nodes |-> {}]

Start(n) ==
  /\ phase[n] = "none"
  /\ n = Primary \/ phase[Primary] # "none"
  /\ phase' = [phase EXCEPT ![n] = "live"]
  /\ UNCHANGED <<known, failed>>

Compute(n) ==
  /\ phase[n] = "live"
  /\ \E a \in Actions : known' = [known EXCEPT ![n] = @ \union {a}]
  /\ UNCHANGED <<phase, failed>>

Fail(n) ==
  /\ phase[n] = "live"
  /\ \E a \in Actions : failed' = [failed EXCEPT ![n] = @ \union {a}]
  /\ UNCHANGED <<phase, known>>

\* The sender may be over, the receiver is not.
Learn(n, m) ==
  /\ phase[n] = "live"
  /\ \E S \in SUBSET known[m] : known' = [known EXCEPT ![n] = @ \union S]
  /\ UNCHANGED <<phase, failed>>

End(n) ==
  /\ phase[n] = "live"
  /\ \/ known[n] \union failed[n] = Actions
     \/ n # Primary /\ phase[Primary] = "over"
  /\ phase' = [phase EXCEPT ![n] = "over"]
  /\ UNCHANGED <<known, failed>>

Next ==
  \E n \in Nodes :
    \/ Start(n) \/ Compute(n) \/ Fail(n) \/ End(n)
    \/ \E m \in Nodes \ {n} : Learn(n, m)

Spec == Init /\ [][Next]_vars
=============================================================================
