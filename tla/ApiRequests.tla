----------------------------- MODULE ApiRequests ----------------------------
(***************************************************************************)
(* The primary context asks the OpenWhisk API to run its action again,     *)
(* once for each further context that works with it: make_api_requests     *)
(* (controller-app.cpp 205-358) on the main thread, over a CurlMultiHandle *)
(* (496-660) that the IO thread drives (controller-io.cpp 214-222).  The   *)
(* mutex of the handle makes each call on it one step; the number of       *)
(* running transfers is written under it and read without it.              *)
(***************************************************************************)
EXTENDS Integers, Sequences, FiniteSets

CONSTANTS
  Contexts,      \* the primary contexts that are posted
  Concurrency,   \* __OW_NUM_CONCURRENCY of the manifest
  ManifestSize   \* its number of actions

ASSUME SizeAssumption ==
  /\ IsFiniteSet(Contexts)
  /\ Concurrency \in Nat /\ Concurrency > 1
  /\ ManifestSize \in Nat \ {0}

\* How many requests a context makes.
Asked == Concurrency - 1

\* The easy handles are numbered as they are made: for each context no more
\* than it needs.
Handles == 1 .. Cardinality(Contexts) * Asked

\* populate_indices: where the other contexts start in the manifest.  The
\* vector has one element less than there are contexts.
StartIndices ==
  [i \in 1 .. Asked |->
     IF ManifestSize < Concurrency THEN i
     ELSE i * (ManifestSize \div Concurrency)]

\* indices[1] is the second element, and not in the vector if there are only two
\* contexts: any number.
Garbage == -1
SecondIndex == IF 2 \in DOMAIN StartIndices THEN StartIndices[2] ELSE Garbage

VARIABLES
  \* make_api_requests, on the main thread.
  main,    \* where it is
  cur,     \* the context it is called for
  called,  \* the contexts it has been called for
  left,    \* msgq_len, the messages left after the last info_read
  handles, \* the handles it has in hand: reusable_handles, then handles
  i,       \* how many it has added
  idx,     \* "idx" of the request data
  \* CurlMultiHandle.
  made,    \* how many handles have been made
  stage,   \* how far the transfer of a handle is
  data,    \* the request a handle carries
  listed,  \* easy_handles_
  num,     \* num_running_multi_handles_
  \* The IO thread.
  io,
  \* History.
  sent     \* the requests that have been sent

mainVars == <<main, cur, called, left, handles, i, idx>>
multiVars == <<made, stage, data, listed, num>>
vars == <<mainVars, multiVars, io, sent>>

NoRequest == [context |-> "none", idx |-> 0]
Request(c, k) == [context |-> c, idx |-> k]

Init ==
  /\ main = "idle" /\ cur \in Contexts /\ called = {} /\ left = 0
  /\ handles = <<>> /\ i = 0 /\ idx = 0
  /\ made = 0 /\ listed = {} /\ num = 0
  /\ stage = [h \in Handles |-> "out"]
  /\ data = [h \in Handles |-> NoRequest]
  /\ io = "loop"
  /\ sent = {}

-----------------------------------------------------------------------------
(* libcurl: a transfer is over when its message can be read.               *)

\* In the multi handle and not over.
Active == {"added", "connecting", "connected", "waiting", "answered"}
Running(st) == {h \in Handles : st[h] \in Active}

\* What curl_multi_perform does for one handle: connect, send the request when
\* it can be written, take the response when it has come.
Performed(s) ==
  CASE s = "added" -> "connecting"
    [] s = "connected" -> "waiting"
    [] s = "answered" -> "over"
    [] OTHER -> s

\* CurlMultiHandle::perform, under the mutex.
Perform ==
  /\ stage' = [h \in Handles |-> Performed(stage[h])]
  /\ num' = Cardinality(Running(stage'))
  /\ sent' = sent \union {data[h] : h \in {g \in Handles : stage[g] = "connected"}}
  /\ UNCHANGED <<made, data, listed>>

\* The network lets a transfer go on: the connection is made, or refused, and
\* the response comes.
Network(h) ==
  /\ \/ stage[h] = "connecting" /\ stage' = [stage EXCEPT ![h] = "connected"]
     \/ stage[h] = "waiting" /\ stage' = [stage EXCEPT ![h] = "answered"]
  /\ UNCHANGED <<mainVars, made, data, listed, num, io, sent>>

-----------------------------------------------------------------------------
(* make_api_requests.                                                      *)

\* A context is posted and is the primary one.
Call(c) ==
  /\ main = "idle" /\ c \notin called
  /\ main' = "read" /\ cur' = c /\ called' = called \union {c}
  /\ handles' = <<>> /\ i' = 0
  /\ UNCHANGED <<left, idx, multiVars, io, sent>>

\* info_read: a message says which transfer is over, msgq_len how many messages
\* are left.
InfoRead ==
  /\ main = "read"
  /\ LET over == {h \in Handles : stage[h] = "over"}
     IN  \/ /\ over = {}
            /\ main' = "build" /\ left' = 0
            /\ UNCHANGED <<handles, stage>>
         \/ \E h \in over :
              /\ main' = "remove" /\ left' = Cardinality(over) - 1
              /\ handles' = Append(handles, h)
              /\ stage' = [stage EXCEPT ![h] = "read"]
  /\ UNCHANGED <<cur, called, i, idx, made, data, listed, num, io, sent>>

\* The handle that was read about.
LastRead == handles[Len(handles)]

TakenOut(h) == stage' = [stage EXCEPT ![h] = "out"]

\* remove_handle; the loop goes on while there are messages.
RemoveHandle ==
  /\ main = "remove"
  /\ TakenOut(LastRead)
  /\ listed' = listed \ {LastRead}
  /\ main' = IF left > 0 THEN "read" ELSE "build"
  /\ UNCHANGED <<cur, called, left, handles, i, idx, made, data, num, io, sent>>

\* Handles are made until there are enough, or none if more can be used again:
\* those that are left over are neither added again nor freed.
Missing == IF Len(handles) < Asked THEN Asked - Len(handles) ELSE 0

Build ==
  /\ main = "build"
  /\ idx' = SecondIndex
  /\ handles' = handles \o [k \in 1 .. Missing |-> made + k]
  /\ made' = made + Missing
  /\ main' = "add"
  /\ UNCHANGED <<cur, called, left, i, stage, data, listed, num, io, sent>>

\* The index of the request is not set again (a mutation of NextIndex).
SameIndex == idx

NextIndex == StartIndices[i + 1]

\* The request is set up, which touches a handle nobody drives, and its handle
\* added.
AddHandle ==
  /\ main = "add"
  /\ LET h == handles[i + 1]
     IN  /\ idx' = NextIndex
         /\ data' = [data EXCEPT ![h] = Request(cur, NextIndex)]
         /\ stage' = [stage EXCEPT ![h] = "added"]
         /\ listed' = listed \union {h}
  /\ main' = "perform"
  /\ UNCHANGED <<cur, called, left, handles, i, made, num, io, sent>>

\* Nothing is started (a mutation of PerformFirst).
PerformLater == UNCHANGED <<multiVars, sent>>

\* What follows each add_handle.
PerformFirst == Perform

\* perform, and on to the next request.
MainPerforms ==
  /\ main = "perform"
  /\ PerformFirst
  /\ i' = i + 1
  /\ main' = IF i + 1 < Asked THEN "add" ELSE "idle"
  /\ UNCHANGED <<cur, called, left, handles, idx, io>>

MakeApiRequests ==
  InfoRead \/ RemoveHandle \/ Build \/ AddHandle \/ MainPerforms

-----------------------------------------------------------------------------
(* The IO thread, between two rounds of the io_context.                    *)

\* The number is read without the mutex.
IoLooks ==
  /\ io = "loop" /\ num # 0
  /\ io' = "perform"
  /\ UNCHANGED <<mainVars, multiVars, sent>>

IoPerforms ==
  /\ io = "perform"
  /\ Perform
  /\ io' = "loop"
  /\ UNCHANGED mainVars

-----------------------------------------------------------------------------
Next ==
  \/ \E c \in Contexts : Call(c)
  \/ MakeApiRequests
  \/ IoLooks \/ IoPerforms
  \/ \E h \in Handles : Network(h)

Spec == Init /\ [][Next]_vars

\* The main thread and the IO thread go on, and the API answers.
FairSpec ==
  /\ Spec
  /\ WF_vars(MakeApiRequests)
  /\ WF_vars(IoLooks) /\ WF_vars(IoPerforms)
  /\ \A h \in Handles : WF_vars(Network(h))

-----------------------------------------------------------------------------
(* Properties.                                                             *)

Stages == Active \union {"out", "over", "read"}
Requests == [context : Contexts, idx : Int]

\* Every variable has its type.
TypeOK ==
  /\ main \in {"idle", "read", "remove", "build", "add", "perform"}
  /\ cur \in Contexts /\ called \subseteq Contexts
  /\ left \in Nat /\ handles \in Seq(Handles) /\ i \in 0 .. Asked /\ idx \in Int
  /\ made \in Nat /\ listed \subseteq Handles /\ num \in Nat
  /\ stage \in [Handles -> Stages]
  /\ data \in [Handles -> Requests \union {NoRequest}]
  /\ io \in {"loop", "perform"}
  /\ sent \subseteq Requests

\* Whatever the IO thread reads without the mutex, it is the number of running
\* transfers, but for the one that is being added (controller-io.cpp:216-221).
CounterIsRight ==
  main # "perform" => num = Cardinality(Running(stage))

\* A handle is set up for a request only while it is in nobody's hand but the
\* main thread's, and carries no other one until it is out again: nobody
\* overwrites what is being sent (controller-app.cpp:254-271, 326-350).
CarriesOne ==
  [][\A h \in Handles : data'[h] # data[h] => stage[h] = "out"]_vars

\* The requests of a context that are being sent or have been, and those it is
\* to make.
Underway(c) ==
  {data[h] : h \in {g \in Running(stage) : data[g].context = c}}
    \union {r \in sent : r.context = c}

ToMake(c) == {Request(c, StartIndices[k]) : k \in 1 .. Asked}

\* Each other context is asked for once and starts apart from all others, where
\* populate_indices has it, although the second index is read where there is
\* none (controller-app.cpp:205-236, 330).
EachIndexOnce ==
  /\ \A k \in 1 .. Asked :
       /\ StartIndices[k] \in Nat \ {0}
       /\ \A l \in 1 .. Asked : StartIndices[k] = StartIndices[l] => k = l
  /\ \A g, h \in Running(stage) : data[g] = data[h] => g = h
  /\ \A h \in Running(stage) :
       data[h] \in sent <=> stage[h] \in {"waiting", "answered"}
  /\ \A c \in Contexts :
       /\ Underway(c) \subseteq ToMake(c)
       /\ c \in called /\ (c # cur \/ main = "idle") => Underway(c) = ToMake(c)

\* Transfers are driven to their end although the IO thread looks only at a
\* number that it reads without the mutex, and sleeps when it is zero.
DrivenToEnd ==
  \A h \in Handles : h \in Running(stage) ~> h \notin Running(stage)

\* Handles are used again or freed: not so if more transfers are over than
\* there are requests to make (controller-app.cpp:329-331).
NoHandleIsLost ==
  main = "idle" => \A h \in 1 .. made : h \in listed

=============================================================================
