--------------------------- MODULE MCHttpStream ---------------------------
(***************************************************************************)
(* Instances of HttpStream for TLC.  Data is a plain symbol or looks like  *)
(* the size and the end of a chunk.                                        *)
(***************************************************************************)
EXTENDS HttpStream

Json == INSTANCE JsonScanner

Data == {<<"x">>, <<"1", "lf">>}

\* Numbers of two words: HttpBigNum counts, orders, adds and is read back as
\* the integers are (http-requests.cpp 13-420, the operations the parsers use).
\* It says nothing of the state: TLC evaluates it before anything is written.
NumbersCount == out = NotOpened => Counts(2)

\* find_next_json_object finds every object of a chunk whole, however deep, in
\* order and up to the end of the array (controller-app.cpp 13-84, 1307-1325),
\* if strings have no braces in them.  It says nothing of the state either.
ObjectsAreFound ==
  out = NotOpened =>
    /\ Json!ObjectsOf(Json!Objects(0))
    /\ Json!ObjectsOf({o \in Json!Objects(1) : Len(o) < 8})

=============================================================================
