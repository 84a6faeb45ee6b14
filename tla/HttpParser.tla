---------------------------- MODULE HttpParser ----------------------------
(***************************************************************************)
(* The HTTP parser and writer of http-requests.cpp (422-1179).  A byte is  *)
(* a symbol; words the program only compares, as the name of a header, are *)
(* one symbol.  A reader is an HttpRequest or HttpResponse that is being   *)
(* read: `line' is how far its first line is, `nh' and `nc' are            *)
(* next_header and next_chunk.  A message is one that is being written.    *)
(***************************************************************************)
EXTENDS HttpBigNum

Space == {"sp", "cr", "lf"}
CrLf == <<"cr", "lf">>
Version == <<"H", "T", "T", "P", "/">>
Verbs == {"G", "P", "T", "D", "C"}
Created == <<"2", "1">>
NotFound == <<"4", "4">>

----------------------------------------------------------------------------
\* Reading.

NoHeader == [at |-> "start", name |-> "", colon |-> FALSE, text |-> <<>>]
NoChunk == [at |-> "start", header |-> <<>>, size |-> <<0>>, got |-> <<0>>, data |-> <<>>]

\* A value-initialized request or response.
Blank(kind) ==
  [kind |-> kind, line |-> IF kind = "request" THEN "verb" ELSE "find",
   found |-> 0, status |-> <<>>, headers |-> <<>>, chunks |-> <<>>,
   nh |-> 0, nc |-> 0, sized |-> FALSE, stray |-> FALSE, fault |-> FALSE]

\* Mutant: a message starts anew until its first header was read.
Reopened(r) ==
  IF r.nh = 0 THEN [r EXCEPT !.headers = <<NoHeader>>, !.chunks = <<NoChunk>>] ELSE r

\* The first >> adds the header and the chunk every message has.
Opened(r) ==
  IF r.headers = <<>> /\ r.chunks = <<>>
  THEN [r EXCEPT !.headers = <<NoHeader>>, !.chunks = <<NoChunk>>]
  ELSE r

\* One more byte of "HTTP/"; a byte that does not fit starts over.
Find(r, b) ==
  LET n == IF b = Version[r.found + 1] THEN r.found + 1 ELSE 0
  IN  [r EXCEPT !.found = n, !.line = IF n = Len(Version) THEN "version" ELSE "find"]

\* What the words of the first line end at, and what comes then.
AfterSpace == [verb_buf |-> "route", route_buf |-> "find", status_buf |-> "eol"]
AfterBlank == [route |-> "route_buf", status |-> "status_buf"]

LineNext(r, b) ==
  CASE r.line = "verb" ->
         IF b \in Space THEN r
         ELSE IF b \in Verbs THEN [r EXCEPT !.line = "verb_buf"]
         ELSE [r EXCEPT !.stray = TRUE]
    [] r.line = "find" -> Find(r, b)
    [] r.line = "version" ->
         IF b \notin Space THEN r
         ELSE [r EXCEPT !.line = IF r.kind = "request" THEN "eol" ELSE "status"]
    [] r.line \in DOMAIN AfterBlank ->
         IF b \in Space THEN r
         ELSE [r EXCEPT !.line = AfterBlank[r.line],
                        !.status = IF r.line = "status" THEN <<b>> ELSE @]
    [] r.line \in DOMAIN AfterSpace ->
         IF b \in Space THEN [r EXCEPT !.line = AfterSpace[r.line]]
         ELSE [r EXCEPT !.status = IF r.line = "status_buf" THEN Append(@, b) ELSE @]
    [] r.line = "eol" -> IF b = "lf" THEN [r EXCEPT !.line = "done"] ELSE r

\* After the name of a header: its colon, its value, its end.
ValueNext(h, b) ==
  IF ~ h.colon /\ b = ":" THEN [h EXCEPT !.colon = TRUE]
  ELSE IF b = "lf" THEN [h EXCEPT !.at = "complete"]
  ELSE IF h.at = "named" /\ b \notin Space THEN [h EXCEPT !.at = "value", !.text = <<b>>]
  ELSE IF h.at = "value" /\ b = "cr" THEN [h EXCEPT !.at = "ended"]
  ELSE IF h.at = "value" THEN [h EXCEPT !.text = Append(@, b)]
  ELSE h

\* A line without anything but white space ends the headers.
HeaderNext(h, b) ==
  CASE h.at = "start" ->
         IF b = "lf" THEN [h EXCEPT !.at = "complete", !.name = "end"]
         ELSE IF b \in Space THEN h
         ELSE [h EXCEPT !.at = "name", !.text = <<b>>]
    [] h.at = "name" ->
         IF b \notin Space \cup {":"} THEN [h EXCEPT !.text = Append(@, b)]
         ELSE [h EXCEPT !.at = "named", !.colon = b = ":", !.text = <<>>,
                        !.name = IF h.text = <<"L">> THEN "length" ELSE "other"]
    [] h.at \in {"named", "value", "ended"} -> ValueNext(h, b)
    [] OTHER -> h

\* A body is read byte by byte and ends at its size, whatever is in it.
ChunkNext(c, b) ==
  CASE c.at = "start" ->
         IF b \in Space THEN c ELSE [c EXCEPT !.at = "digits", !.header = <<b>>]
    [] c.at = "digits" ->
         IF b \notin Space THEN [c EXCEPT !.header = Append(@, b)]
         ELSE [c EXCEPT !.at = "seek", !.size = Hex(c.header)]
    [] c.at = "seek" ->
         IF b = "lf" THEN [c EXCEPT !.at = "body", !.got = <<0>>] ELSE c
    [] c.at = "body" ->
         IF Less(c.got, c.size)
         THEN [c EXCEPT !.data = Append(@, b), !.got = Increment(@)]
         ELSE IF b = "lf" THEN [c EXCEPT !.at = "complete"] ELSE c
    [] OTHER -> c

\* Mutant: a chunk follows the last one, too.
OneMore(r, c) == [r EXCEPT !.chunks = Append(@, NoChunk), !.nc = @ + 1]

\* What follows a header that is complete, and a chunk that is.
HeaderDone(r, h) ==
  [r EXCEPT !.headers = IF h.name = "end" THEN @ ELSE Append(@, NoHeader),
            !.nh = @ + 1, !.sized = @ \/ h.name = "length"]

ChunkDone(r, c) ==
  [r EXCEPT !.chunks = IF c.size = <<0>> THEN @ ELSE Append(@, NoChunk), !.nc = @ + 1]

\* The length of the header that announces it; its absence was excluded before.
Length(r) ==
  r.headers[SelectInSeq(r.headers, LAMBDA h : h.name = "length")].text

\* A body of announced length needs no size and no end: it is complete when all
\* of it is there at the end of what can be read (BodyRead).
InBody(r, c) ==
  IF r.sized /\ c.at = "start" THEN [c EXCEPT !.at = "body", !.size = Dec(Length(r))]
  ELSE c

\* The chunk, or the header, that is being read has got one more byte.
BodyRead(r, c, last) ==
  LET read == [r EXCEPT !.chunks[r.nc + 1] = c]
  IN  IF r.sized
      THEN IF (last \/ c.at = "complete") /\ c.size = c.got
           THEN [read EXCEPT !.nc = Len(r.chunks)] ELSE read
      ELSE IF c.at = "complete" THEN ChunkDone(read, c) ELSE read

BodyNext(r, c, b, last) ==
  IF c.at = "digits" /\ b \in Space /\ HexFails(c.header)
  THEN [r EXCEPT !.fault = TRUE]
  ELSE BodyRead(r, ChunkNext(c, b), last)

HeaderRead(r, h) ==
  LET read == [r EXCEPT !.headers[r.nh + 1] = h]
  IN  IF h.at = "complete" THEN HeaderDone(read, h) ELSE read

\* One byte, the last one that is there or not.
Advance(r, b, last) ==
  IF r.line # "done" THEN LineNext(r, b)
  ELSE IF r.nh < Len(r.headers)
  THEN HeaderRead(r, HeaderNext(r.headers[r.nh + 1], b))
  ELSE BodyNext(r, InBody(r, r.chunks[r.nc + 1]), b, last)

Stops(r) ==
  \/ r.line = "done" /\ r.nh = Len(r.headers) /\ r.nc = Len(r.chunks)
  \/ r.stray \/ r.fault

\* All of a stream: the reader after it and what it left in the stream.
Step(p, b, last) ==
  IF Stops(p.reader) THEN p
  ELSE [reader |-> Advance(p.reader, b, last), read |-> p.read + 1]

Parse(reader, stream) ==
  LET after[i \in 0..Len(stream)] ==
        IF i = 0 THEN [reader |-> Opened([reader EXCEPT !.stray = FALSE]), read |-> 0]
        ELSE Step(after[i - 1], stream[i], i = Len(stream))
      Result(end) ==
        [reader |-> end.reader, left |-> SubSeq(stream, end.read + 1, Len(stream))]
  IN  Result(after[Len(stream)])

----------------------------------------------------------------------------
\* Writing: the first line, headers and chunks that were not written before.

HeaderText(h) ==
  CASE h.name = "end" -> CrLf
    [] h.name = "length" -> <<"L", ":", "sp">> \o h.text \o CrLf
    [] OTHER -> <<"N", ":", "sp">> \o h.text \o CrLf

ChunkText(c) == Text(c.size) \o CrLf \o c.data \o CrLf

\* The data of a message with a length is its first chunk.
BodyText(m) ==
  IF m.nc = Len(m.chunks) THEN <<>>
  ELSE IF \E i \in DOMAIN m.headers : m.headers[i].name = "length"
  THEN m.chunks[1].data
  ELSE FlattenSeq([i \in 1 .. Len(m.chunks) - m.nc |-> ChunkText(m.chunks[m.nc + i])])

MessageText(m) ==
  (IF m.line THEN <<>> ELSE m.start)
    \o FlattenSeq([i \in 1 .. Len(m.headers) - m.nh |-> HeaderText(m.headers[m.nh + i])])
    \o BodyText(m)

\* Mutants: it forgets the chunks, or the first line.
ChunksAgain(m) == [m EXCEPT !.line = TRUE, !.nh = Len(m.headers)]
LineAgain(m) == [m EXCEPT !.nh = Len(m.headers), !.nc = Len(m.chunks)]

\* The session then remembers what it has written.
Written(m) ==
  [m EXCEPT !.line = TRUE, !.nh = Len(m.headers), !.nc = Len(m.chunks)]

=============================================================================
