----------------------------- MODULE AsynchServer -----------------------------
(***************************************************************************)
(* GrpcUtil::AsynchServer and GrpcUtil::Handler of src/util/GrpcUtil: a    *)
(* devoted thread in start() takes tags from the completion queue and lets *)
(* each Handler proceed; another thread calls stop().  The overrides of    *)
(* Handler are those of the BarHandler that the header shows.              *)
(*                                                                         *)
(* gRPC is modelled from its use.  Its server gives each incoming request  *)
(* to a handler that was staged for one; Shutdown() fails the handlers     *)
(* that are staged and returns when every request that was given to one    *)
(* has been answered or its client is gone.  The event of a reply is not   *)
(* ok when the client is gone.                                             *)
(***************************************************************************)
EXTENDS Naturals

CONSTANTS
    Handlers,   \* the memory for handlers: a deleted one may be used again
    Requests,
    NoRequest

VARIABLES
    running, stopped,
    up,         \* grpc::Server: "none", "up", "closing" or "down"
    queueShut,
    status,     \* per handler: Handler::_status, or "none" where there is none
    staged,     \* handlers that gRPC holds for the next request
    replying,   \* handlers that gRPC holds until the reply is sent
    ready,      \* completed events: the handler and its ok
    handling,   \* per handler, the request it was given
    gone,       \* requests whose client has gone
    handled,    \* history: how often each request was processed
    replied,    \* history: requests whose reply went to the wire
    looper,     \* where the devoted thread is in start()
    stopper     \* where another thread is in stop()

loop == <<running, stopped, looper>>
held == <<staged, replying, ready>>
requests == <<handling, gone, handled, replied>>
ending == <<up, queueShut, stopper>>
vars == <<loop, held, requests, ending, status>>

Init ==
    /\ running = FALSE /\ stopped = FALSE /\ looper = "new"
    /\ staged = {} /\ replying = {} /\ ready = {}
    /\ handling = [h \in Handlers |-> NoRequest]
    /\ gone = {} /\ replied = {}
    /\ handled = [r \in Requests |-> 0]
    /\ up = "none" /\ queueShut = FALSE /\ stopper = "new"
    /\ status = [h \in Handlers |-> "none"]

LooperGoes(from, to) == looper = from /\ looper' = to
StopperGoes(from, to) == stopper = from /\ stopper' = to

Event(h, ok) == [handler |-> h, ok |-> ok]
Given == {handling[h] : h \in Handlers} \ {NoRequest}

\* The handler that respawn() makes, in memory that is free; a slip: none.
NoneNew == {}
New == {CHOOSE h \in Handlers : status[h] = "none"}

\* new BarHandler(): proceed() in its constructor stages it.  A server that is
\* shut down fails it at once.  others: the events left in the queue meanwhile.
Stage(hs, others) ==
    IF up = "up"
    THEN staged' = staged \cup hs /\ ready' = others
    ELSE ready' = others \cup {Event(h, FALSE) : h \in hs} /\ UNCHANGED staged

-----------------------------------------------------------------------------
(***************************************************************************)
(* gRPC and the network                                                    *)
(***************************************************************************)

\* A request arrives and is given to the handler that is staged.
Arrive(h, r) ==
    /\ up = "up"
    /\ h \in staged
    /\ r \notin Given /\ handled[r] = 0 /\ r \notin gone
    /\ staged' = staged \ {h}
    /\ handling' = [handling EXCEPT ![h] = r]
    /\ ready' = ready \cup {Event(h, TRUE)}
    /\ UNCHANGED <<loop, replying, gone, handled, replied, ending, status>>

\* The client of r cancels, runs out of time or disconnects, perhaps while the
\* reply is under way.
ClientGoes(r) ==
    /\ r \notin gone
    /\ gone' = gone \cup {r}
    /\ UNCHANGED <<loop, held, handling, handled, replied, ending, status>>

\* The reply of h goes to the wire, or cannot.
ReplySent(h) ==
    LET ok == handling[h] \notin gone IN
    /\ h \in replying
    /\ ready' = ready \cup {Event(h, ok)}
    /\ replied' = IF ok THEN replied \cup {handling[h]} ELSE replied
    /\ replying' = replying \ {h}
    /\ UNCHANGED <<loop, staged, handling, gone, handled, ending, status>>

-----------------------------------------------------------------------------
(***************************************************************************)
(* start()                                                                 *)
(***************************************************************************)

StartAgain == running /\ UNCHANGED vars

\* buildService(), which comes before start() and stop(): the server listens.
BuildService ==
    /\ up = "none"
    /\ up' = "up"
    /\ UNCHANGED <<loop, held, requests, queueShut, stopper, status>>

\* spawnHandlers()
Spawn ==
    /\ ~running /\ ~queueShut /\ up # "none"
    /\ LooperGoes("new", "setRunning")
    /\ status' = [h \in Handlers |-> IF h \in New THEN "PROCESS" ELSE status[h]]
    /\ Stage(New, ready)
    /\ UNCHANGED <<running, stopped, replying, requests, ending>>

SetRunning ==
    /\ LooperGoes("setRunning", "test")
    /\ running' = TRUE
    /\ UNCHANGED <<stopped, held, requests, ending, status>>

\* while (_running): what follows the end of the body, which no other step can
\* tell from the end of the body itself.
Again == IF running THEN "next" ELSE "drain"

TestRunning ==
    /\ LooperGoes("test", Again)
    /\ UNCHANGED <<running, stopped, held, requests, ending, status>>

\* Next() returns this event of h.
Takes(h, ok, state) ==
    /\ looper = "next"
    /\ Event(h, ok) \in ready
    /\ status[h] = state

\* What proceed() leaves in _status; slips: not moved on, and deleted already.
NotMoved == "PROCESS"
Deleted == "none"
Moved == "FINISH"

\* finish(); a slip: left out.
NotSent(h) == {}
Sent(h) == {h}

\* proceed() of a handler that was given a request: respawn(), processRequest(),
\* finish()
Process(h) ==
    /\ Takes(h, TRUE, "PROCESS")
    /\ ~queueShut
    /\ Stage(New, ready \ {Event(h, TRUE)})
    /\ status' = [g \in Handlers |->
                      IF g = h THEN Moved ELSE IF g \in New THEN "PROCESS" ELSE status[g]]
    /\ handled' = [handled EXCEPT ![handling[h]] = @ + 1]
    /\ replying' = replying \cup Sent(h)
    /\ looper' = Again
    /\ UNCHANGED <<running, stopped, handling, gone, replied, ending>>

\* On a queue that is shut down respawn() cannot stage its handler: gRPC aborts.
Abort(h) ==
    /\ Takes(h, TRUE, "PROCESS")
    /\ queueShut
    /\ looper' = "aborted"
    /\ UNCHANGED <<running, stopped, held, requests, ending, status>>

\* proceed() of a handler whose reply is sent: destroy()
Destroy(h) ==
    /\ Takes(h, TRUE, "FINISH")
    /\ ready' = ready \ {Event(h, TRUE)}
    /\ status' = [status EXCEPT ![h] = "none"]
    /\ handling' = [handling EXCEPT ![h] = NoRequest]
    /\ looper' = Again
    /\ UNCHANGED <<running, stopped, staged, replying, gone, handled, replied, ending>>

Drained == queueShut /\ ready = {} /\ staged = {} /\ replying = {}

\* Next() returns an event that is not ok, or false.
BreakNotOk(h) ==
    /\ Takes(h, FALSE, status[h])
    /\ ready' = ready \ {Event(h, FALSE)}
    /\ running' = FALSE
    /\ looper' = "drain"
    /\ UNCHANGED <<stopped, staged, replying, requests, ending, status>>

Break ==
    /\ LooperGoes("next", "drain")
    /\ Drained
    /\ running' = FALSE
    /\ UNCHANGED <<stopped, held, requests, ending, status>>

Ignore(e) ==
    /\ looper = "drain"
    /\ e \in ready
    /\ ready' = ready \ {e}
    /\ UNCHANGED <<loop, staged, replying, requests, ending, status>>

SetStopped ==
    /\ LooperGoes("drain", "ended")
    /\ Drained
    /\ stopped' = TRUE
    /\ UNCHANGED <<running, held, requests, ending, status>>

-----------------------------------------------------------------------------
(***************************************************************************)
(* stop() and the destructor                                               *)
(***************************************************************************)

StopClearRunning ==
    /\ up # "none"
    /\ StopperGoes("new", "shutdown")
    /\ running' = FALSE
    /\ UNCHANGED <<stopped, looper, held, requests, up, queueShut, status>>

\* Shutdown() of the server fails what is staged ...
StopShutdown ==
    /\ StopperGoes("shutdown", "closing")
    /\ up' = "closing"
    /\ ready' = ready \cup {Event(h, FALSE) : h \in staged}
    /\ staged' = {}
    /\ UNCHANGED <<loop, replying, requests, queueShut, status>>

\* ... and returns when no request is open.
ShutdownReturns ==
    /\ StopperGoes("closing", "queue")
    /\ Given \subseteq (replied \cup gone)
    /\ up' = "down"
    /\ UNCHANGED <<loop, held, requests, queueShut, status>>

Shut == TRUE

StopQueue ==
    /\ StopperGoes("queue", "returned")
    /\ queueShut' = Shut
    /\ UNCHANGED <<loop, held, requests, up, status>>

\* ~AsynchServer(), of a server that is stopped and whose start(), if it was
\* called, has returned: Next() returns false at once.
Delete ==
    /\ looper \in {"new", "ended"}
    /\ StopperGoes("returned", "deleted")
    /\ Drained
    /\ UNCHANGED <<loop, held, requests, up, queueShut, status>>

-----------------------------------------------------------------------------
LooperStep ==
    \/ Spawn \/ SetRunning \/ TestRunning \/ Break \/ SetStopped
    \/ \E h \in Handlers : Process(h) \/ Abort(h) \/ Destroy(h) \/ BreakNotOk(h)
    \/ \E e \in ready : Ignore(e)

StopperStep == StopClearRunning \/ StopShutdown \/ ShutdownReturns \/ StopQueue \/ Delete
-----------------------------------------------------------------------------
TypeOK ==
    /\ running \in BOOLEAN /\ stopped \in BOOLEAN /\ queueShut \in BOOLEAN
    /\ up \in {"none", "up", "closing", "down"}
    /\ status \in [Handlers -> {"none", "PROCESS", "FINISH"}]
    /\ staged \subseteq Handlers /\ replying \subseteq Handlers
    /\ ready \subseteq [handler : Handlers, ok : BOOLEAN]
    /\ handling \in [Handlers -> Requests \cup {NoRequest}]
    /\ gone \subseteq Requests /\ replied \subseteq Requests
    /\ handled \in [Requests -> {0, 1}]
    /\ looper \in {"new", "setRunning", "test", "next", "drain", "ended",
                  "aborted"}
    /\ stopper \in {"new", "shutdown", "closing", "queue", "returned", "deleted"}

\* gRPC and the queue refer only to handlers that exist, each by one tag.
TagsAreAlive ==
    \A h \in Handlers :
        LET tags == (IF h \in staged THEN 1 ELSE 0) + (IF h \in replying THEN 1 ELSE 0)
                    + (IF Event(h, TRUE) \in ready THEN 1 ELSE 0)
                    + (IF Event(h, FALSE) \in ready THEN 1 ELSE 0)
        IN  tags <= 1 /\ (tags = 1 => status[h] # "none")

\* In the loop there is always exactly one handler for the next request: staged,
\* or given a request that is still to be processed.
OneListens ==
    looper \in {"setRunning", "test", "next"} =>
        \E h \in Handlers : \A g \in Handlers : status[g] = "PROCESS" <=> g = h

\* "whether it is an event or the queue is shutting down": the loop ends only
\* after stop() was called.
ServesUntilStopped == looper \in {"drain", "ended"} => stopper # "new"
=============================================================================
