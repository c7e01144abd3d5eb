------------------------------ MODULE GrpcSystem ------------------------------
(***************************************************************************)
(* A GrpcUtil::Client and a GrpcUtil::AsynchServer of the same service: the *)
(* calls of the client are the requests of the server.  Either side may be *)
(* stopped at any time and a call may be cancelled.                        *)
(***************************************************************************)
EXTENDS Naturals

CONSTANTS
    Calls, Events, Handlers, NoRequest,
    Cancellable   \* bounds the model: calls that may be cancelled or run out of time

\* There is memory for more handlers than there are calls.
ASSUME SystemAssumption ==
    /\ Events \in [Calls -> Nat \ {0}]
    /\ NoRequest \notin Calls
    /\ Cancellable \subseteq Calls
    /\ \A f \in [Handlers -> Calls] : \E g, h \in Handlers : g # h /\ f[g] = f[h]

VARIABLES
    \* the client
    cRunning, cStopped, cQueueShut, cPending, cReady, cLeft, cCall, cSucceeded,
    cLooper, cStopper, cServed,
    \* the server
    sRunning, sStopped, sUp, sQueueShut, sStatus, sStaged, sReplying, sReady,
    sHandling, sGone, sHandled, sReplied, sLooper, sStopper

Client == INSTANCE GrpcClient WITH
    running <- cRunning, stopped <- cStopped, queueShut <- cQueueShut,
    pending <- cPending, ready <- cReady, left <- cLeft, call <- cCall,
    succeeded <- cSucceeded, looper <- cLooper, stopper <- cStopper,
    served <- cServed

Server == INSTANCE AsynchServer WITH Requests <- Calls,
    running <- sRunning, stopped <- sStopped, up <- sUp, queueShut <- sQueueShut,
    status <- sStatus, staged <- sStaged, replying <- sReplying, ready <- sReady,
    handling <- sHandling, gone <- sGone, handled <- sHandled, replied <- sReplied,
    looper <- sLooper, stopper <- sStopper

cVars == <<cRunning, cStopped, cQueueShut, cPending, cReady, cLeft, cCall, cSucceeded,
           cLooper, cStopper, cServed>>
sVars == <<sRunning, sStopped, sUp, sQueueShut, sStatus, sStaged, sReplying, sReady,
           sHandling, sGone, sHandled, sReplied, sLooper, sStopper>>
vars == <<cVars, sVars>>

Init == Client!Init /\ Server!Init

\* What each side does by itself.
ClientLooper == Client!LooperStep /\ UNCHANGED sVars
ClientStopper == Client!StopperStep /\ UNCHANGED sVars
ServerLooper == Server!LooperStep /\ UNCHANGED cVars
ServerStopper == Server!StopperStep /\ UNCHANGED cVars
AddCall(c) == Client!AddCall(c) /\ UNCHANGED sVars
BuildService == Server!BuildService /\ UNCHANGED cVars
StartAgain == (Client!StartAgain \/ Server!StartAgain) /\ UNCHANGED vars
-----------------------------------------------------------------------------
\* The network

\* The request of a call whose operation is in flight reaches the server.
Arrive(c) ==
    /\ c \in cPending
    /\ \E h \in Handlers : Server!Arrive(h, c) /\ UNCHANGED cVars

\* An event before the last, as the first message of a stream.
Progress(c) ==
    /\ c \in Server!Given /\ c \notin sGone
    /\ cLeft[c] > 1
    /\ Client!Complete(c, TRUE) /\ UNCHANGED sVars

Reply(c) == c \in sReplied /\ Client!Complete(c, TRUE) /\ UNCHANGED sVars

Cancel(c) ==
    /\ cCall[c] = "started"
    /\ c \in Cancellable
    /\ Server!ClientGoes(c) /\ UNCHANGED cVars

\* A call that no server will take is over, ...
Unavailable(c) ==
    /\ c \in cPending
    /\ sUp # "up" /\ c \notin Server!Given /\ sHandled[c] = 0
    /\ Server!ClientGoes(c) /\ UNCHANGED cVars

\* ... and fails, as one that was cancelled, which may be too late for that.
Fail(c) == c \in sGone /\ Client!Complete(c, FALSE) /\ UNCHANGED sVars

ReplySent(h) == Server!ReplySent(h) /\ UNCHANGED cVars

Network ==
    \/ \E c \in Calls : Arrive(c) \/ Progress(c) \/ Reply(c) \/ Unavailable(c) \/ Fail(c)
    \/ \E h \in Handlers : ReplySent(h)
-----------------------------------------------------------------------------
Next ==
    \/ \E c \in Calls : AddCall(c) \/ Cancel(c)
    \/ Network
    \/ ClientLooper \/ ClientStopper \/ ServerLooper \/ ServerStopper
    \/ BuildService \/ StartAgain

Spec == Init /\ [][Next]_vars

\* The two loops run, a stop() that was begun goes on, and the network delivers.
\* Nobody has to build a server, to stop anything or to cancel a call.
FairSpec ==
    /\ Spec
    /\ WF_vars(ClientLooper) /\ WF_vars(ServerLooper)
    /\ WF_vars(cStopper # "new" /\ ClientStopper)
    /\ WF_vars(sStopper # "new" /\ ServerStopper)
    /\ WF_vars(Network)
-----------------------------------------------------------------------------
TypeOK == Client!TypeOK /\ Server!TypeOK

QueueHoldsLiveCalls == Client!QueueHoldsLiveCalls
StopWaitsForDrain == Client!StopWaitsForDrain
TagsAreAlive == Server!TagsAreAlive
OneListens == Server!OneListens
ServesUntilStopped == Server!ServesUntilStopped

\* End to end, a request is processed at most once, and a call that processed a
\* real reply was processed by the server exactly once, although handlers are
\* created, reused and destroyed meanwhile; one that ended without was given up.
RepliesComeFromHandlers ==
    \A c \in Calls :
        /\ sHandled[c] <= 1
        /\ c \in cSucceeded => sHandled[c] = 1 /\ c \in sReplied
        /\ cCall[c] = "destroyed" /\ c \notin cSucceeded => c \in sGone

\* The calls that the drain of the client has thrown away.
Lost == {c \in Calls : cCall[c] = "started" /\ c \notin cPending
                          /\ \A e \in cReady : e.call # c}

CallState(c) == IF c \in Lost THEN "lost" ELSE cCall[c]

RequestState(c) ==
    IF c \in sReplied THEN "answered"
    ELSE IF sHandled[c] = 1 THEN "handled"
    ELSE IF c \in Server!Given THEN "given" ELSE "none"

ClientState == IF cQueueShut THEN "closed" ELSE "open"
ServerState == IF sUp = "closing" THEN "down" ELSE sUp

\* The two sides implement the abstract service: each call is processed at most
\* once, and its client and its handler agree on how it ended.
Rpc == INSTANCE RpcService WITH
    call <- [c \in Calls |-> CallState(c)],
    request <- [c \in Calls |-> RequestState(c)],
    gone <- sGone,
    succeeded <- cSucceeded,
    client <- ClientState,
    server <- ServerState

ImplementsRpcService == Rpc!Spec

ServerLeft == sLooper \in {"drain", "ended", "aborted"}

\* Somebody has what it takes to bring a request on: the handler that holds it has
\* a tag that comes back, or there is one who listens, or will when it has answered.
Carried(c) ==
    \E h \in Handlers :
        sHandling[h] = c /\ (h \in sReplying \/ Server!Event(h, TRUE) \in sReady)
Expected ==
    sStaged # {} \/ \E h \in Handlers : Server!Event(h, TRUE) \in sReady /\ sStatus[h] = "PROCESS"

\* A request that was given to a handler but not processed: the loop still has to,
\* or the drain has thrown it away.
Unprocessed(c) == c \in Server!Given /\ sHandled[c] = 0

\* Its client still waits, and Shutdown() with it.
Deserted(c) == Unprocessed(c) /\ c \notin sGone

\* Its client has gone, so that Shutdown() did not wait for it; then the loop, which was
\* still in Next(), let its handler respawn on the queue that was shut: gRPC aborted.
AbortedBy(c) == sLooper = "aborted" /\ Unprocessed(c) /\ c \in sGone

\* No call is stranded: while the server is up and in its loop, a call in flight
\* that nobody has given up or answered is carried by a handler, or has not been
\* given to one and is expected; and what the server owes a client at any time,
\* for which Shutdown() waits, was not processed or its reply is on its way.
NoCallIsStranded ==
    /\ \A c \in cPending \ (sGone \cup sReplied) :
        sUp = "up" /\ sLooper # "new" /\ ~ServerLeft
            => Carried(c) \/ (c \notin Server!Given /\ sHandled[c] = 0 /\ Expected)
    /\ \A c \in Server!Given \ (sGone \cup sReplied) :
        Deserted(c) \/ \E h \in sReplying : sHandling[h] = c

\* Every call that is added is completed and destroyed, unless the client stops or
\* the server has left its loop, be it stopped or not (ServesUntilStopped).
CallsAreAnswered ==
    <>[](\A c \in Calls : cCall[c] = "started" => cStopper # "new" \/ ServerLeft)

\* stop() of the client returns, with calls in flight too: the server that is
\* still in its loop answers them.
ClientStops == <>[](cStopper = "polling" => ServerLeft)

\* stop() of the server returns, its loop ends and the destructor finds nothing to
\* wait for. There are two exceptions, both by a request that the loop did not get to
\* before it was stopped: one whose client waits (Shutdown() waits as well), and one
\* whose client went in time (the respawn for it aborts the process).
ServerStops ==
    <>[](sStopper \in {"new", "deleted"} \/ \E c \in Calls : Deserted(c) \/ AbortedBy(c))

=============================================================================
