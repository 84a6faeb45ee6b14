-------------------------- MODULE MCActionScheduler -------------------------
(* Instances of ActionScheduler for TLC: the shapes of manifest.           *)
EXTENDS ActionScheduler, TLC

File == INSTANCE Manifest

\* One action.
Single == 0 :> <<>>

\* 0 <- 1: the first action needs the second.
Chain == 0 :> <<1>> @@ 1 :> <<>>

\* 0 needs 1 and 2.
Join == 0 :> <<1, 2>> @@ 1 :> <<>> @@ 2 :> <<>>

\* 0 needs 1, which needs 2; 0 needs 2 as well.
Ladder == 0 :> <<1, 2>> @@ 1 :> <<2>> @@ 2 :> <<>>

CONSTANTS c1, c2

\* What the constructor makes of a manifest of four actions, however its file is
\* ordered, is as ManifestAssumption has it: each action once, found by those
\* that need it, and after them (action-manifest.cpp 13-61,
\* execution-context.cpp 77-93).  It says nothing of the state: TLC evaluates it
\* before anything has been posted.
ManifestIsOrdered ==
  (\A c \in Contexts : posted[c] = 0) => File!ManifestsAreOrdered(4)
=============================================================================
