---------------------------- MODULE HttpStream ----------------------------
(***************************************************************************)
(* One HTTP message from a session of a controller to its peer's: a PUT    *)
(* that streams results, the 201 that streams the answer, a 404, or a post *)
(* with a Content-Length from outside.  The transport delivers the writes  *)
(* in order, a long one in several parts, and puts a message into the      *)
(* mailbox for each; the main thread then reads what lies in the stream.   *)
(***************************************************************************)
EXTENDS HttpParser

CONSTANTS
  Payloads,   \* data of chunks
  MaxChunks,  \* bound: chunks before the last one with data
  MaxQueue    \* messages that fit into the mailbox

ASSUME StreamAssumption ==
  /\ MaxChunks \in Nat \ {0} /\ MaxQueue \in Nat \ {0}
  /\ \A d \in Payloads :
       d \in Seq(STRING) /\ d # <<>> /\ Len(d) < Power[Width - 1] /\ Len(d) < Decimal

VARIABLES
  kind,      \* "put", "created", "refused" or "post"
  out,       \* the message of the writing session
  ended,     \* its last chunk was pushed
  wire,      \* writes the transport has yet to deliver
  stream,    \* bytes in the stream of the receiving session
  due,       \* messages about them in the mailbox
  accepted,  \* the receiving session is in hs_ or hcs_
  reader,    \* its message
  pos,       \* how many chunks it remembers to have handled
  handled,   \* how many its context has handled
  again,     \* a chunk was handled a second time
  refused,   \* a response other than 201 was routed
  lost,      \* a session was dropped though bytes had arrived
  over       \* the receiver's side of the exchange has ended

sendVars == <<kind, out, ended>>
readVars == <<accepted, reader, pos, handled, again, refused, lost>>
vars == <<sendVars, wire, stream, due, readVars, over>>

----------------------------------------------------------------------------
\* The messages of the program.

Announced(n) == [name |-> "length", text |-> <<Numeral[n + 1]>>]
Common == <<[name |-> "other", text |-> <<"j">>], [name |-> "end", text |-> <<>>]>>
Chunk(d) == [size |-> <<Len(d)>>, data |-> d]
LastChunk == [size |-> <<0>>, data |-> <<>>]

Request(verb) == verb \o <<"sp", "/", "sp">> \o Version \o <<"1">> \o CrLf
Response(status) == Version \o <<"1", "sp">> \o status \o <<"sp", "C">> \o CrLf

Message(start, headers, chunks) ==
  [start |-> start, line |-> FALSE, headers |-> headers, chunks |-> chunks,
   nh |-> 0, nc |-> 0]

Opening(d) ==
  CASE kind = "put" -> Message(Request(<<"P", "U">>), Common, <<Chunk(d)>>)
    [] kind = "created" -> Message(Response(Created), Common, <<Chunk(d)>>)
    [] kind = "refused" -> Message(Response(NotFound), <<Announced(0)>> \o Common, <<LastChunk>>)
    [] kind = "post" -> Message(Request(<<"P", "O">>), <<Announced(Len(d))>> \o Common, <<Chunk(d)>>)

Push(m, chunks) == [m EXCEPT !.chunks = @ \o chunks]
Streams == kind \in {"put", "created"}
IsRequest == kind \in {"put", "post"}

NotOpened == Message(<<>>, <<>>, <<>>)
FromPeer == Blank(IF IsRequest THEN "request" ELSE "response")

Init ==
  /\ kind \in {"put", "created", "refused", "post"}
  /\ out = NotOpened /\ ended = FALSE
  /\ wire = <<>> /\ stream = <<>> /\ due = 0
  /\ accepted = ~ IsRequest /\ reader = FromPeer
  /\ pos = 0 /\ handled = 0 /\ again = FALSE
  /\ refused = FALSE /\ lost = FALSE /\ over = FALSE

----------------------------------------------------------------------------
\* The writing side.

Write(m) ==
  /\ wire' = Append(wire, MessageText(m))
  /\ out' = Written(m)
  /\ UNCHANGED <<kind, stream, due, readVars, over>>

\* The callback of async_connect, or the answer to a request.
Open(d) ==
  /\ out = NotOpened
  /\ Write(Opening(d))
  /\ ended' = ~ Streams

\* A result for the peer.
Update(d) ==
  /\ out # NotOpened /\ ~ ended /\ Len(out.chunks) < MaxChunks
  /\ Write(Push(out, <<Chunk(d)>>))
  /\ UNCHANGED ended

\* The context has stopped: the results of all actions and the end.
Finish(d) ==
  /\ out # NotOpened /\ ~ ended
  /\ Write(Push(out, <<Chunk(d), LastChunk>>))
  /\ ended' = TRUE

(***************************************************************************)
(* The transport.  A receive takes one message, or a part of it if it is   *)
(* longer than the buffer; the first message of a session never is.        *)
(***************************************************************************)
Untouched == reader = FromPeer /\ stream = <<>>

\* Mutant: the IO thread does not wait for room.
NoWait == wire # <<>>
CanDeliver == wire # <<>> /\ due < MaxQueue

Deliver(n) ==
  /\ CanDeliver
  /\ n \in 1..Len(wire[1]) /\ (Untouched => n = Len(wire[1]))
  /\ stream' = stream \o SubSeq(wire[1], 1, n)
  /\ wire' = IF n = Len(wire[1]) THEN Tail(wire)
             ELSE [wire EXCEPT ![1] = SubSeq(@, n + 1, Len(@))]
  /\ due' = due + 1
  /\ UNCHANGED <<sendVars, readVars, over>>

----------------------------------------------------------------------------
\* The reading side: the main thread with one message of the mailbox.

\* The chunks with data up to the end, if that is there.
Ends(r) == {i \in pos + 1 .. r.nc : r.chunks[i].size = <<0>>}
DataUpTo(r) == IF Ends(r) = {} THEN r.nc ELSE Min(Ends(r)) - 1

Handle(r) ==
  /\ handled' = Max({handled, DataUpTo(r)})
  /\ again' = (again \/ (pos < handled /\ pos < DataUpTo(r)))

\* At the end route_request returns before it saves the position.
RouteRequest(r) ==
  /\ Handle(r)
  /\ pos' = IF Ends(r) = {} THEN r.nc ELSE pos
  /\ UNCHANGED <<refused, over>>

\* A new session is kept if the stream began with a request.
ReadRequest ==
  LET p == Parse(FromPeer, stream)
  IN  /\ IsRequest /\ ~ accepted
      /\ stream' = p.left
      /\ accepted' = (p.reader.line # "verb")
      /\ IF accepted'
         THEN reader' = p.reader /\ RouteRequest(p.reader) /\ UNCHANGED lost
         ELSE /\ lost' = (lost \/ stream # <<>>)
              /\ UNCHANGED <<reader, pos, handled, again, refused, over>>

\* More of a request is read while its response is being streamed, which is as
\* long as its session is in a context.
ReadMore ==
  LET p == Parse(reader, stream)
  IN  /\ IsRequest /\ accepted /\ kind = "put" /\ handled > 0 /\ ~ over
      /\ stream' = p.left /\ reader' = p.reader
      /\ RouteRequest(p.reader)
      /\ UNCHANGED <<accepted, lost>>

\* Otherwise it stays where it is.
ReadNothing ==
  /\ accepted = IsRequest
  /\ IsRequest => kind = "post" \/ handled = 0 \/ over
  /\ UNCHANGED <<stream, readVars, over>>

IsCreated(r) == r.line \in {"eol", "done"} /\ r.status = Created

\* The end of a response, and what is no HTTP, close the session.
ReadResponse ==
  LET p == Parse(reader, stream)
  IN  /\ ~ IsRequest /\ accepted
      /\ stream' = p.left /\ reader' = p.reader
      /\ accepted' = (~ p.reader.fault /\ (IsCreated(p.reader) => Ends(p.reader) = {}))
      /\ refused' = (refused \/ ~ (p.reader.fault \/ IsCreated(p.reader)))
      /\ IF IsCreated(p.reader) /\ ~ p.reader.fault /\ ~ over
         THEN Handle(p.reader) ELSE UNCHANGED <<handled, again>>
      /\ pos' = IF IsCreated(p.reader) THEN p.reader.nc ELSE pos
      /\ UNCHANGED <<lost, over>>

\* A request that cannot be parsed ends the process.
CanRead == due > 0 /\ ~ (IsRequest /\ reader.fault)

Read ==
  /\ CanRead
  /\ due' = due - 1
  /\ ReadRequest \/ ReadMore \/ ReadNothing \/ ReadResponse
  /\ UNCHANGED <<sendVars, wire>>

\* The receiver's context has stopped and ended its own half.
Leave ==
  /\ ~ over /\ (IsRequest => handled > 0)
  /\ over' = TRUE
  /\ UNCHANGED <<sendVars, wire, stream, due, readVars>>

----------------------------------------------------------------------------
Writes == \E d \in Payloads : Open(d) \/ Update(d) \/ Finish(d)
Delivers == wire # <<>> /\ \E n \in 1..Len(wire[1]) : Deliver(n)

Next == Writes \/ Delivers \/ Read \/ Leave

Spec == Init /\ [][Next]_vars

\* The network delivers what was written, the main loop comes round to every
\* message; nobody has to write.  This is weak fairness with ENABLED written out.
FairSpec ==
  /\ Spec
  /\ <>[]CanDeliver => []<><<Delivers>>_vars
  /\ <>[]CanRead => []<><<Read>>_vars

----------------------------------------------------------------------------
\* Only the last chunk of a message has no data.
DataOf(chunks) ==
  LET full == IF chunks # <<>> /\ Last(chunks).size = <<0>> THEN Front(chunks) ELSE chunks
  IN  [i \in DOMAIN full |-> full[i].data]

\* What the peer's context has handled is what was written for it, every chunk
\* and no other, in order, however the bytes were cut and piled up; it is all
\* of it in the end, unless the peer leaves (http-requests.cpp 422-1179).  A
\* chunk that is handled a second time is HandledOnce's affair.
Channel ==
  INSTANCE ChunkChannel WITH
    sent <- DataOf(out.chunks),
    taken <- DataOf(SubSeq(reader.chunks, 1, handled)),
    gone <- over
IsChannel == Channel!Spec

\* Types.
TypeOK ==
  /\ kind \in {"put", "created", "refused", "post"}
  /\ Len(out.chunks) <= MaxChunks + 2 /\ out.nc = Len(out.chunks)
  /\ due \in 0..MaxQueue
  /\ reader.nh <= Len(reader.headers) /\ reader.nc <= Len(reader.chunks)
  /\ pos <= reader.nc /\ handled <= reader.nc
  /\ {ended, accepted, again, refused, lost, over} \subseteq BOOLEAN

\* From wherever the reader is, what lies in the stream means the same whether
\* it is read at once or in two reads (http-requests.cpp 615-840, 997-1179:
\* every flag and buffer of the parsers is kept between calls).
SplitAnywhere ==
  ~ reader.fault =>
    \A i \in 0..Len(stream) :
      LET first == Parse(reader, SubSeq(stream, 1, i))
          rest == SubSeq(stream, i + 1, Len(stream))
      IN  Parse(first.reader, first.left \o rest) = Parse(reader, stream)

\* No session is dropped, nothing fails to parse and only a 404 is taken for a
\* refusal (controller-app.cpp 758-812, 1231).
AlwaysUnderstood ==
  /\ ~ lost /\ ~ reader.fault /\ ~ reader.stray
  /\ refused => kind = "refused"

\* The end of a message is seen: a response is closed, a request has no chunk
\* left to read (controller-app.cpp 1056, 1303).
EndIsSeen ==
  ended /\ Streams ~> over \/ (IF IsRequest THEN reader.nc = Len(reader.chunks) /\ accepted
                                ELSE ~ accepted)

\* http-requests.hpp calls pos "the index of the last chunked processed": no
\* chunk is processed twice (controller-app.cpp 1296-1307).
HandledOnce == ~ again

=============================================================================
