--------------------------- MODULE ChunkChannel ---------------------------
(***************************************************************************)
(* What a stream of HTTP chunks is for: one side sends results, the other  *)
(* takes them, all and in order, until it is gone.                         *)
(***************************************************************************)
EXTENDS Naturals, Sequences

VARIABLES sent, taken, gone

vars == <<sent, taken, gone>>

Init == sent = <<>> /\ taken = <<>> /\ ~ gone

Extends(long, short) ==
  Len(short) <= Len(long) /\ SubSeq(long, 1, Len(short)) = short

Send ==
  /\ sent' # sent /\ Extends(sent', sent)
  /\ UNCHANGED <<taken, gone>>

Take ==
  /\ taken' # taken /\ Extends(taken', taken) /\ Extends(sent, taken')
  /\ UNCHANGED <<sent, gone>>

Leave ==
  /\ gone' = TRUE
  /\ UNCHANGED <<sent, taken>>

Next == Send \/ Take \/ Leave

\* Unless the taker has gone, what was sent is taken.
AllIsTaken == [](taken # sent => <>(taken = sent \/ gone))

Spec == Init /\ [][Next]_vars /\ AllIsTaken

=============================================================================
