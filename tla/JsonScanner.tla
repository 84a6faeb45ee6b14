----------------------------- MODULE JsonScanner ----------------------------
(***************************************************************************)
(* How the objects in a chunk are found (controller-app.cpp 13-84) by the  *)
(* loops over a request and a response.  A text is a sequence of braces,   *)
(* brackets and commas; "x" stands for anything else.  The scanner does    *)
(* not know strings: a brace in one counts.                                *)
(***************************************************************************)
EXTENDS Integers, Sequences

\* Where a scan stands: the next position, what is open, where the object
\* begins and ends.  Positions start at 1, so 0 is none.
Start(pos) ==
  [pos |-> pos, braces |-> 0, brackets |-> 0, opening |-> 0, closing |-> 0,
   last |-> FALSE]

\* An object ends with any brace (a mutation of Closes).
AnyCloses(s) == s.braces > 0

\* The brace that closes what the first one opened.
Closes(s) == s.braces = 1

\* The symbol at s.pos.
Step(text, s) ==
  LET c == text[s.pos]
      n == [s EXCEPT !.pos = @ + 1]
  IN  CASE c = "lbrace" -> [n EXCEPT !.braces = @ + 1,
                                     !.opening = IF s.braces = 0 THEN s.pos ELSE @]
        [] c = "rbrace" /\ Closes(s) -> [n EXCEPT !.braces = @ - 1,
                                                  !.closing = s.pos]
        [] c = "rbrace" /\ ~ Closes(s) /\ s.braces > 0 ->
             [n EXCEPT !.braces = @ - 1]
        [] c = "lbracket" -> [n EXCEPT !.brackets = @ + 1]
        [] c = "rbracket" -> [n EXCEPT !.brackets = @ - 1,
                                       !.last = s.braces = 0 /\ s.brackets <= 1]
        [] OTHER -> n

\* What ends the loop.  A comma after an object would as well, but the object has.
Stopped(s) == s.closing > s.opening \/ s.last

\* Symbol by symbol from `from', up to the end of the text.
Scan(text, from) ==
  LET at[p \in from .. Len(text) + 1] ==
        IF p = from THEN Start(from)
        ELSE LET s == at[p - 1]
             IN  IF Stopped(s) THEN s ELSE Step(text, s)
  IN  at[Len(text) + 1]

\* The loop over a chunk: what is handled, up to a bracket that closes none.
\* What is left of an object that does not end is dropped.
Items(text) ==
  LET items[p \in 1 .. Len(text) + 1] ==
        LET s == Scan(text, p)
        IN  IF p > Len(text) THEN <<>>
            ELSE IF s.last THEN <<"rbracket">>
            ELSE IF s.closing > s.opening
            THEN <<SubSeq(text, s.opening, s.closing)>> \o items[s.pos]
            ELSE items[s.pos]
  IN  items[1]

-----------------------------------------------------------------------------
\* Texts of values: at most two elements or members on each level, and strings
\* with anything but a brace in them.
Elements(S) == {<<>>} \union S \union {u \o <<"comma">> \o v : u \in S, v \in S}

Enclosed(l, S, r) == {<<l>> \o e \o <<r>> : e \in Elements(S)}

Values(n) ==
  LET values[k \in 0 .. n] ==
        IF k = 0 THEN {<<"x">>, <<"rbracket">>, <<"lbracket">>}
        ELSE values[k - 1] \union Enclosed("lbrace", values[k - 1], "rbrace")
                           \union Enclosed("lbracket", values[k - 1], "rbracket")
  IN  values[n]

Objects(n) == Enclosed("lbrace", Values(n), "rbrace")

\* Texts as the peers write them: the objects of an array, of which the first
\* chunk has the opening bracket and the last one the closing bracket.
Chunk(first, objects, end) ==
  LET chunk[i \in 0..Len(objects)] ==
        IF i = 0 THEN first
        ELSE chunk[i - 1] \o (IF i = 1 THEN <<>> ELSE <<"comma">>) \o objects[i]
  IN  chunk[Len(objects)] \o end

Lists(S) == {<<>>} \union {<<o>> : o \in S} \union {<<o, p>> : o \in S, p \in S}

\* Every object is found whole, however deep, and the end after the last.
ObjectsOf(S) ==
  \A objects \in Lists(S),
     first \in {<<>>, <<"lbracket">>, <<"comma">>}, end \in {<<>>, <<"rbracket">>} :
    Items(Chunk(first, objects, end)) =
      objects \o (IF end = <<>> THEN <<>> ELSE <<"rbracket">>)

=============================================================================
