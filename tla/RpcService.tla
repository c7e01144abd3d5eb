------------------------------ MODULE RpcService ------------------------------
(***************************************************************************)
(* What a Client and an AsynchServer promise together, with no queues, no  *)
(* tags, no handlers and no polled flags in sight: a call is made while    *)
(* the client is open, its request is given to the server once, processed  *)
(* once and answered once, and the call is over either with that answer or *)
(* because somebody gave it up; a client that closes may lose calls.       *)
(* GrpcSystem implements this module.                                      *)
(***************************************************************************)
CONSTANT Calls

VARIABLES
    call,       \* per call, to its client: "new", "started", "destroyed" or "lost"
    request,    \* per call, to the server: "none", "given", "handled", "answered"
    gone,       \* calls that were given up: cancelled, or without a server
    succeeded,  \* calls that were over with their answer
    client,     \* "open", then "closed"
    server      \* "none", then "up", then "down"

vars == <<call, request, gone, succeeded, client, server>>

Init ==
    /\ call = [c \in Calls |-> "new"]
    /\ request = [c \in Calls |-> "none"]
    /\ gone = {} /\ succeeded = {}
    /\ client = "open" /\ server = "none"

Begin(c) ==
    /\ call[c] = "new" /\ client = "open"
    /\ call' = [call EXCEPT ![c] = "started"]
    /\ UNCHANGED <<request, gone, succeeded, client, server>>

RequestGoes(c, from, to) ==
    /\ request[c] = from
    /\ request' = [request EXCEPT ![c] = to]
    /\ UNCHANGED <<call, gone, succeeded, client, server>>

\* The server is given only what a client is waiting for.
Give(c) ==
    /\ call[c] = "started" /\ c \notin gone /\ server = "up"
    /\ RequestGoes(c, "none", "given")

Handle(c) == RequestGoes(c, "given", "handled")

Answer(c) == c \notin gone /\ RequestGoes(c, "handled", "answered")

GiveUp(c) ==
    /\ call[c] \in {"started", "lost"} /\ c \notin gone
    /\ gone' = gone \cup {c}
    /\ UNCHANGED <<call, request, succeeded, client, server>>

\* A call is over when it has its answer ...
Succeed(c) ==
    /\ call[c] = "started" /\ request[c] = "answered"
    /\ call' = [call EXCEPT ![c] = "destroyed"]
    /\ succeeded' = succeeded \cup {c}
    /\ UNCHANGED <<request, gone, client, server>>

\* ... or when it was given up, though an answer may be under way.
Fail(c) ==
    /\ call[c] = "started" /\ c \in gone
    /\ call' = [call EXCEPT ![c] = "destroyed"]
    /\ UNCHANGED <<request, gone, succeeded, client, server>>

\* Only a client that closes forgets a call.
Lose(c) ==
    /\ call[c] = "started" /\ client = "closed"
    /\ call' = [call EXCEPT ![c] = "lost"]
    /\ UNCHANGED <<request, gone, succeeded, client, server>>

CloseClient ==
    /\ client = "open" /\ client' = "closed"
    /\ UNCHANGED <<call, request, gone, succeeded, server>>

OpenServer ==
    /\ server = "none" /\ server' = "up"
    /\ UNCHANGED <<call, request, gone, succeeded, client>>

CloseServer ==
    /\ server = "up" /\ server' = "down"
    /\ UNCHANGED <<call, request, gone, succeeded, client>>

Next ==
    \/ \E c \in Calls :
        \/ Begin(c) \/ Give(c) \/ Handle(c) \/ Answer(c)
        \/ GiveUp(c) \/ Succeed(c) \/ Fail(c) \/ Lose(c)
    \/ CloseClient \/ OpenServer \/ CloseServer

Spec == Init /\ [][Next]_vars
=============================================================================
