------------------------------ MODULE PeerMesh ------------------------------
(***************************************************************************)
(* The controllers that work on one request: the contexts with one UUID,   *)
(* the peers they know, and the streams over which they tell each other    *)
(* their results (controller-app.cpp).                                     *)
(*                                                                         *)
(* A stream is a PUT whose request and whose response both stay open: the  *)
(* client sends results in the chunks of the request, the server in those  *)
(* of the response.  HttpStream and SctpServer are about how chunks get    *)
(* across; here a stream is two queues of chunks that keep their order,    *)
(* unless its association is lost.  ActionScheduler is about the threads   *)
(* of one context; here a context has one execution index, at one action   *)
(* at a time, and any action without a value may be next.  An action's     *)
(* value is abstracted to whether the context has a result.                *)
(***************************************************************************)
EXTENDS Naturals, Sequences, FiniteSets, Functions

CONSTANTS
  Nodes,     \* Controllers, by their SCTP addresses.
  Primary,   \* The one that is asked first, with execution index 0.
  Actions,   \* The actions of the manifest.
  Workers,   \* Those whose executors may get results,
  Failing,   \* and those whose executors may end without; the rest hang.
  MaxFaults  \* How many connects fail and associations are lost.

ASSUME NodeAssumption ==
  /\ Primary \in Nodes /\ IsFiniteSet(Nodes)
  /\ Workers \subseteq Nodes /\ Failing \subseteq Nodes
ASSUME ActionAssumption == Actions # {}
ASSUME FaultAssumption == MaxFaults \in Nat

VARIABLES
  \* Contexts, one on each controller.
  ctx,      \* "live" while in ctx_ptrs.
  peers,    \* The addresses it knows, its own included.
  known,    \* The actions with a result.
  nulled,   \* Whether the other values are "null".
  run,      \* The action whose thread has the execution index.
  stopped,  \* The actions whose threads are stopped.
  failed,   \* History: those whose executors have ended without a result.
  \* Streams, by client and server.
  client,   \* The HttpClientSession.
  server,   \* The HttpSession.
  call,     \* The peers in the request of a connect that is not made yet.
  up,       \* Chunks of the request that have not been handled.
  down,     \* Chunks of the response that have not been handled.
  lost,     \* Whether the association is gone.
  faults,   \* How many faults there have been.
  told      \* History: the peers learnt from a PUT of somebody else.

ctxVars == <<ctx, peers, known, nulled, run, stopped, failed>>
streamVars == <<client, server, call, up, down>>
faultVars == <<lost, faults>>
vars == <<ctxVars, streamVars, faultVars, told>>

Init ==
  /\ ctx = [n \in Nodes |-> "none"]
  /\ peers = [n \in Nodes |-> {}]
  /\ known = [n \in Nodes |-> {}]
  /\ nulled = [n \in Nodes |-> FALSE]
  /\ run = [n \in Nodes |-> CHOOSE a \in Actions : TRUE]
  /\ stopped = [n \in Nodes |-> {}]
  /\ failed = [n \in Nodes |-> {}]
  /\ client = [n \in Nodes |-> [m \in Nodes |-> "none"]]
  /\ server = [n \in Nodes |-> [m \in Nodes |-> "none"]]
  /\ call = [n \in Nodes |-> [m \in Nodes |-> {}]]
  /\ up = [n \in Nodes |-> [m \in Nodes |-> <<>>]]
  /\ down = [n \in Nodes |-> [m \in Nodes |-> <<>>]]
  /\ lost = [n \in Nodes |-> [m \in Nodes |-> FALSE]]
  /\ faults = 0
  /\ told = [n \in Nodes |-> {}]

-----------------------------------------------------------------------------
(* Chunks.                                                                 *)

Put(P) == [is |-> "put", peers |-> P, results |-> {}]
Created(P, R) == [is |-> "created", peers |-> P, results |-> R]
Missing == [is |-> "missing", peers |-> {}, results |-> {}]
Result(R) == [is |-> "result", peers |-> {}, results |-> R]
\* The results, "]" and the chunk of size 0.
Last(R) == [is |-> "last", peers |-> {}, results |-> R]

\* A write to a session whose association is lost goes nowhere.
Sent(q, c, s, m) == IF lost[c][s] THEN q ELSE Append(q, m)

\* The server's sessions are forgotten (a mutation of SendAll).
SendUp(n, m) ==
  /\ up' = [up EXCEPT ![n] = [s \in Nodes |->
              IF client[n][s] = "open" THEN Sent(@[s], n, s, m) ELSE @[s]]]
  /\ UNCHANGED down

\* n sends one chunk on each of the streams in its two lists: as the client
\* and as the server.
SendAll(n, m) ==
  /\ up' = [up EXCEPT ![n] = [s \in Nodes |->
              IF client[n][s] = "open" THEN Sent(@[s], n, s, m) ELSE @[s]]]
  /\ down' = [c \in Nodes |-> [down[c] EXCEPT ![n] =
                IF server[c][n] = "open" THEN Sent(@, c, n, m) ELSE @]]

-----------------------------------------------------------------------------
(* The execution index.                                                    *)

\* is_stopped()
IsStopped(n) == stopped[n] = Actions

\* Only actions without a value can be next.
Incomplete(n) == IF nulled[n] THEN {} ELSE Actions \ known[n]

\* stop_thread and reschedule_actions for each of the actions in R, once R is
\* known: the index moves on if it was at one of them; without a next action
\* all threads are stopped.
Reschedule(n, R) ==
  IF run[n] \in R
  THEN IF Incomplete(n) \ R = {}
       THEN stopped' = [stopped EXCEPT ![n] = Actions] /\ UNCHANGED run
       ELSE /\ stopped' = [stopped EXCEPT ![n] = @ \union R]
            /\ \E a \in Incomplete(n) \ R : run' = [run EXCEPT ![n] = a]
  ELSE stopped' = [stopped EXCEPT ![n] = @ \union R] /\ UNCHANGED run

\* A result takes the place of no value, one in a request that of "null" too.
Learn(n, R, replacesNull) ==
  /\ known' = [known EXCEPT ![n] =
                 IF nulled[n] /\ ~ replacesNull THEN @ ELSE @ \union R]
  /\ Reschedule(n, R)

-----------------------------------------------------------------------------
(* Requests from outside.                                                  *)

\* The execution index is given to a thread.
FirstAction(n) == \E a \in Actions : run' = [run EXCEPT ![n] = a]

\* The first post, without an execution context.
StartPrimary ==
  /\ ctx[Primary] = "none"
  /\ ctx' = [ctx EXCEPT ![Primary] = "live"]
  /\ peers' = [peers EXCEPT ![Primary] = {Primary}]
  /\ FirstAction(Primary)
  /\ UNCHANGED <<known, nulled, stopped, failed, streamVars, faultVars, told>>

\* A post that the primary has made through the API, with its own address.
\* The new context connects to the peers it is told of.
StartSecondary(n) ==
  /\ n # Primary /\ ctx[n] = "none" /\ ctx[Primary] # "none"
  /\ ctx' = [ctx EXCEPT ![n] = "live"]
  /\ peers' = [peers EXCEPT ![n] = {Primary, n}]
  /\ client' = [client EXCEPT ![n][Primary] = "connecting"]
  /\ call' = [call EXCEPT ![n][Primary] = {Primary, n}]
  /\ FirstAction(n)
  /\ UNCHANGED <<known, nulled, stopped, failed, server, up, down, faultVars,
                 told>>

-----------------------------------------------------------------------------
(* The callback of async_connect, on the IO thread.                        *)

\* The session goes into the list of the context, which may be over by now,
\* and the PUT is written.
Connected(c, s) ==
  /\ client[c][s] = "connecting"
  /\ client' = [client EXCEPT ![c][s] = "open"]
  /\ up' = [up EXCEPT ![c][s] = Append(@, Put(call[c][s]))]
  /\ UNCHANGED <<ctxVars, server, call, down, faultVars, told>>

CanFail == faults < MaxFaults

\* The callback does nothing if there is an error.
ConnectFails(c, s) ==
  /\ client[c][s] = "connecting" /\ CanFail
  /\ client' = [client EXCEPT ![c][s] = "failed"]
  /\ faults' = faults + 1
  /\ UNCHANGED <<ctxVars, server, call, up, down, lost, told>>

\* Two controllers have one association for the streams both ways.
Shared(c, s, p, q) == {p, q} = {c, s} /\ client[p][q] \in {"open", "ended"}

\* An association is lost with all that was on its way; the sessions stay in
\* their lists, what they write fails.
Lose(c, s) ==
  /\ Shared(c, s, c, s) /\ ~ lost[c][s] /\ CanFail
  /\ lost' = [p \in Nodes |-> [q \in Nodes |->
                lost[p][q] \/ Shared(c, s, p, q)]]
  /\ up' = [p \in Nodes |-> [q \in Nodes |->
              IF Shared(c, s, p, q) THEN <<>> ELSE up[p][q]]]
  /\ down' = [p \in Nodes |-> [q \in Nodes |->
                IF Shared(c, s, p, q) THEN <<>> ELSE down[p][q]]]
  /\ faults' = faults + 1
  /\ UNCHANGED <<ctxVars, client, server, call, told>>

-----------------------------------------------------------------------------
(* The executor and SCHED_END.                                             *)

\* The thread with the index gets its result and stops.
Finish(n) ==
  /\ n \in Workers
  /\ ctx[n] = "live" /\ run[n] \notin stopped[n]
  /\ known' = [known EXCEPT ![n] = @ \union {run[n]}]
  /\ stopped' = [stopped EXCEPT ![n] = @ \union {run[n]}]
  /\ UNCHANGED <<ctx, peers, nulled, run, failed, streamVars, faultVars, told>>

\* The subprocess gave nothing, or there were no parameters for it: the thread
\* stops without a value.
Fail(n) ==
  /\ n \in Failing
  /\ ctx[n] = "live" /\ run[n] \notin stopped[n]
  /\ failed' = [failed EXCEPT ![n] = @ \union {run[n]}]
  /\ stopped' = [stopped EXCEPT ![n] = @ \union {run[n]}]
  /\ UNCHANGED <<ctx, peers, known, nulled, run, streamVars, faultVars, told>>

\* A stopped thread that still has the index, in a context that is not
\* stopped: the peers are told its result, if it has one, and the index goes to
\* the next action, which may be one that has failed.
Update(n) ==
  /\ ctx[n] = "live" /\ run[n] \in stopped[n] /\ ~ IsStopped(n)
  /\ IF run[n] \in known[n] THEN SendAll(n, Result({run[n]}))
                            ELSE UNCHANGED <<up, down>>
  /\ \E a \in Incomplete(n) : run' = [run EXCEPT ![n] = a]
  /\ UNCHANGED <<ctx, peers, known, nulled, stopped, failed, client, server,
                 call, faultVars, told>>

\* The result of the last action only (a mutation of Results).
LastResult(n) == {run[n]}

\* All values but "null".
Results(n) == known[n]

\* A stopped context is answered: all peers get the results, and the end.
End(n) ==
  /\ ctx[n] = "live" /\ IsStopped(n)
  /\ SendAll(n, Last(Results(n)))
  /\ client' = [client EXCEPT ![n] = [s \in Nodes |->
                  IF @[s] = "open" THEN "ended" ELSE @[s]]]
  /\ server' = [c \in Nodes |-> [server[c] EXCEPT ![n] =
                  IF @ = "open" THEN "finished" ELSE @]]
  /\ ctx' = [ctx EXCEPT ![n] = "ended"]
  /\ UNCHANGED <<peers, known, nulled, run, stopped, failed, call, faultVars,
                 told>>

-----------------------------------------------------------------------------
(* merge_peer_addresses.                                                   *)

Merged(n, m) == peers[n] \union m.peers

\* The list is compared with itself (a mutation of NewPeers).
NothingNew(n, m) == Merged(n, m) \ Merged(n, m)

NewPeers(n, m) == Merged(n, m) \ peers[n]

\* One peer too many (a mutation of Alone).
AlmostAlone(n) == Cardinality(peers[n]) <= 3

\* n has heard of itself and of the primary at most.
Alone(n) == Cardinality(peers[n]) < 3

-----------------------------------------------------------------------------
(* route_request: a chunk of a PUT.                                        *)

Arrives(c, s, kind) ==
  /\ up[c][s] # <<>> /\ Head(up[c][s]).is = kind
  /\ up' = [up EXCEPT ![c][s] = Tail(@)]

\* The first chunk, with a context of this UUID: the peers are merged, the
\* response begins with the peers and the results.
PutFound(c, s) ==
  /\ ctx[s] = "live"
  /\ Arrives(c, s, "put")
  /\ LET m == Head(up[c][s])
     IN  /\ peers' = [peers EXCEPT ![s] = Merged(s, m)]
         /\ told' = [told EXCEPT ![s] = @ \union (NewPeers(s, m) \ {c})]
         /\ down' = [down EXCEPT ![c][s] =
                       Sent(@, c, s, Created(Merged(s, m), known[s]))]
  /\ server' = [server EXCEPT ![c][s] = "open"]
  /\ UNCHANGED <<ctx, known, nulled, run, stopped, failed, client, call,
                 faultVars>>

\* Without one: 404, and the session is closed.
PutMissing(c, s) ==
  /\ ctx[s] # "live"
  /\ Arrives(c, s, "put")
  /\ server' = [server EXCEPT ![c][s] = "closed"]
  /\ down' = [down EXCEPT ![c][s] = Sent(@, c, s, Missing)]
  /\ UNCHANGED <<ctxVars, client, call, faultVars, told>>

\* A further chunk of a session in the list of a context.
RequestResult(c, s) ==
  /\ server[c][s] = "open"
  /\ Arrives(c, s, "result")
  /\ Learn(s, Head(up[c][s]).results, TRUE)
  /\ UNCHANGED <<ctx, peers, nulled, failed, client, server, call, down,
                 faultVars, told>>

\* The last one: "]" takes the session out of the list, the chunk of size 0 is
\* not answered.
RequestLast(c, s) ==
  /\ server[c][s] = "open"
  /\ Arrives(c, s, "last")
  /\ Learn(s, Head(up[c][s]).results, TRUE)
  /\ server' = [server EXCEPT ![c][s] = "erased"]
  /\ UNCHANGED <<ctx, peers, nulled, failed, client, call, down, faultVars,
                 told>>

\* What arrives for a session that is being closed is dropped; an end that is
\* sent after a 404 says nothing new.
RequestDropped(c, s) ==
  /\ server[c][s] \in {"finished", "closed"}
  /\ Arrives(c, s, "result") \/ Arrives(c, s, "last")
  /\ UNCHANGED <<ctxVars, client, server, call, down, faultVars, told>>

-----------------------------------------------------------------------------
(* route_response: a chunk of a response.                                  *)

Returns(c, s, kind) ==
  /\ down[c][s] # <<>> /\ Head(down[c][s]).is = kind
  /\ down' = [down EXCEPT ![c][s] = Tail(@)]

InList(c, s) == ctx[c] = "live" /\ client[c][s] = "open"

\* The first chunk: the peers are merged and the new ones connected to, then
\* the results are taken.
ResponseFirst(c, s) ==
  /\ InList(c, s)
  /\ Returns(c, s, "created")
  /\ LET m == Head(down[c][s])
         new == NewPeers(c, m)
     IN  /\ peers' = [peers EXCEPT ![c] = Merged(c, m)]
         /\ client' = [client EXCEPT ![c] = [p \in Nodes |->
                         IF p \in new THEN "connecting" ELSE @[p]]]
         /\ call' = [call EXCEPT ![c] = [p \in Nodes |->
                         IF p \in new THEN Merged(c, m) ELSE @[p]]]
         /\ Learn(c, m.results, FALSE)
  /\ UNCHANGED <<ctx, nulled, failed, server, up, faultVars, told>>

ResponseResult(c, s) ==
  /\ InList(c, s)
  /\ Returns(c, s, "result")
  /\ Learn(c, Head(down[c][s]).results, FALSE)
  /\ UNCHANGED <<ctx, peers, nulled, failed, client, server, call, up,
                 faultVars, told>>

\* "]" takes the session out of the list, the chunk of size 0 closes it.
ResponseLast(c, s) ==
  /\ InList(c, s)
  /\ Returns(c, s, "last")
  /\ Learn(c, Head(down[c][s]).results, FALSE)
  /\ client' = [client EXCEPT ![c][s] = "closed"]
  /\ UNCHANGED <<ctx, peers, nulled, failed, server, call, up, faultVars, told>>

\* A response to a session of no context: the session is closed, unless its
\* own request has ended and more of the response is to come.
ResponseDropped(c, s) ==
  /\ ~ InList(c, s)
  /\ \E kind \in {"created", "result", "last", "missing"} :
       /\ Returns(c, s, kind)
       /\ client' = [client EXCEPT ![c][s] =
            IF @ = "ended" /\ kind \in {"created", "result"} THEN @ ELSE "closed"]
  /\ UNCHANGED <<ctxVars, server, call, up, faultVars, told>>

\* 404 and fewer than three peers are known: the other one is the primary, and
\* it is over.  The values that are missing become "null", all threads stop.
RefusedAlone(c, s) ==
  /\ InList(c, s)
  /\ Returns(c, s, "missing")
  /\ Alone(c)
  /\ nulled' = [nulled EXCEPT ![c] = TRUE]
  /\ stopped' = [stopped EXCEPT ![c] = Actions]
  /\ UNCHANGED <<ctx, peers, known, run, failed, client, server, call, up,
                 faultVars, told>>

\* 404 and more peers are known: the session is closed.
RefusedInCompany(c, s) ==
  /\ InList(c, s)
  /\ Returns(c, s, "missing")
  /\ ~ Alone(c)
  /\ client' = [client EXCEPT ![c][s] = "closed"]
  /\ UNCHANGED <<ctxVars, server, call, up, faultVars, told>>

-----------------------------------------------------------------------------
Request(c, s) ==
  \/ PutFound(c, s) \/ PutMissing(c, s)
  \/ RequestResult(c, s) \/ RequestLast(c, s) \/ RequestDropped(c, s)

Response(c, s) ==
  \/ ResponseFirst(c, s) \/ ResponseResult(c, s) \/ ResponseLast(c, s)
  \/ ResponseDropped(c, s) \/ RefusedAlone(c, s) \/ RefusedInCompany(c, s)

Fault(c, s) == ConnectFails(c, s) \/ Lose(c, s)

Next ==
  \/ StartPrimary
  \/ \E n \in Nodes :
       StartSecondary(n) \/ Finish(n) \/ Fail(n) \/ Update(n) \/ End(n)
  \/ \E c \in Nodes, s \in Nodes :
       Connected(c, s) \/ Request(c, s) \/ Response(c, s) \/ Fault(c, s)

Spec == Init /\ [][Next]_vars

(***************************************************************************)
(* Main loops and IO threads go on and what is sent arrives; nothing says  *)
(* that a post arrives or that an executor ever gets its result.  When the *)
(* index comes to a thread that has ended nothing signals SCHED_END again, *)
(* so Update need not follow.                                              *)
(***************************************************************************)
FairSpec ==
  /\ Spec
  /\ \A n \in Nodes : WF_vars(End(n))
  /\ \A c \in Nodes, s \in Nodes :
       /\ WF_vars(Connected(c, s))
       /\ WF_vars(Request(c, s))
       /\ WF_vars(Response(c, s))

-----------------------------------------------------------------------------
Chunks ==
  [is : {"put", "created", "missing", "result", "last"},
   peers : SUBSET Nodes, results : SUBSET Actions]

ContextTypes ==
  /\ ctx \in [Nodes -> {"none", "live", "ended"}]
  /\ peers \in [Nodes -> SUBSET Nodes] /\ told \in [Nodes -> SUBSET Nodes]
  /\ known \in [Nodes -> SUBSET Actions]
  /\ nulled \in [Nodes -> BOOLEAN]
  /\ run \in [Nodes -> Actions]
  /\ stopped \in [Nodes -> SUBSET Actions]
  /\ failed \in [Nodes -> SUBSET Actions]

StreamTypes ==
  /\ client \in [Nodes -> [Nodes -> {"none", "connecting", "failed", "open",
                                     "ended", "closed"}]]
  /\ server \in [Nodes -> [Nodes -> {"none", "open", "erased", "finished",
                                     "closed"}]]
  /\ call \in [Nodes -> [Nodes -> SUBSET Nodes]]
  /\ up \in [Nodes -> [Nodes -> Seq(Chunks)]]
  /\ down \in [Nodes -> [Nodes -> Seq(Chunks)]]
  /\ lost \in [Nodes -> [Nodes -> BOOLEAN]]
  /\ faults \in 0 .. MaxFaults

\* Every variable keeps its type.
TypeOK == ContextTypes /\ StreamTypes

Carried(q, kind) == {m \in Range(q) : m.is = kind}

\* A live context that is refused takes the right one of its two ways
\* (controller-app.cpp:1240-1263): it knows fewer than three peers exactly if
\* the primary refuses it.  The primary never refuses a context others know
\* of, and nobody else is asked by one that knows only the primary.
RefusalIsUnderstood ==
  \A c \in Nodes, s \in Nodes :
    ctx[c] = "live" /\ Carried(down[c][s], "missing") # {}
      => (Alone(c) <=> s = Primary)

\* The results that the end of a stream leaves out.
LeftOut(m) == Actions \ m.results

\* The end of a stream that reaches a live context leaves out only results that
\* an executor of the sender ended without (controller-app.cpp:828-853): never
\* one that its sender knew or had not tried, and nothing after a refusal.  So
\* a context whose session with a peer is erased (1318) is over or is left with
\* actions that failed there.
EndIsComplete ==
  \A c \in Nodes, s \in Nodes :
    /\ ctx[s] = "live" =>
         \A m \in Carried(up[c][s], "last") : LeftOut(m) \subseteq failed[c]
    /\ InList(c, s) =>
         \A m \in Carried(down[c][s], "last") : LeftOut(m) \subseteq failed[s]
    /\ server[c][s] = "erased" =>
         ctx[s] = "ended" \/ Actions \ stopped[s] \subseteq failed[c]

\* n is about to be told of m by the primary.
ToBeTold(n, m) ==
  \E msg \in Carried(down[n][Primary], "created") : m \in msg.peers

Linked(n, m) == client[n][m] # "none" \/ client[m][n] # "none"

\* The secondary contexts the primary knows are connected with each other, or
\* will be: the one that came later is told of the other and connects to it
\* (controller-app.cpp:1113-1174).  The exceptions are a context that is over,
\* an association with the primary that was lost, and a context that was told
\* of the other by a third one's PUT, for merging that list connects to nobody
\* (1658) and makes the other an old peer when the response lists it.
OnlyIntroducedAreApart ==
  \A n \in peers[Primary] \ {Primary}, m \in peers[Primary] \ {Primary} :
    \/ n = m
    \/ Linked(n, m) \/ ToBeTold(n, m) \/ ToBeTold(m, n)
    \/ ctx[n] = "ended" \/ ctx[m] = "ended"
    \/ lost[n][Primary] \/ lost[m][Primary]
    \/ m \in told[n] \/ n \in told[m]

\* The contexts promise what SharedResults promises: nothing is known that
\* nobody computed or that was not known where it came from, whatever is lost,
\* reordered between streams or arrives for a context that is over, and a
\* context ends with every result that its executors have not ended without,
\* unless the primary has ended before.
Promise == INSTANCE SharedResults WITH
  phase <- [n \in Nodes |-> IF ctx[n] = "ended" THEN "over" ELSE ctx[n]]

IsShared == Promise!Spec

\* The peer of a context that ended without some result has what it could get.
GotRest(n, m) == known[n] # Actions /\ known[n] \subseteq known[m]

\* One context that is done ends all those it has a stream with, whichever
\* side made the stream and even if their own executors never get a result
\* (controller-app.cpp:880-911, 1316-1324, 1056-1074), unless the association
\* is lost.  If it is over without all results the others get those it has and
\* may go on.
EndSpreads ==
  \A c \in Nodes, s \in Nodes :
    /\ client[c][s] = "ended" ~> ctx[s] = "ended" \/ lost[c][s] \/ GotRest(c, s)
    /\ server[c][s] = "finished"
         ~> ctx[c] = "ended" \/ lost[c][s] \/ GotRest(s, c)

\* A session whose peer has ended the request is kept until its response has
\* been processed (controller-app.cpp:1303-1306): it is finished then.
ErasedIsFinished ==
  \A c \in Nodes, s \in Nodes :
    server[c][s] = "erased" ~> server[c][s] # "erased"

=============================================================================
