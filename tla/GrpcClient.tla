------------------------------ MODULE GrpcClient ------------------------------
(***************************************************************************)
(* GrpcUtil::Client of src/util/GrpcUtil: a devoted thread in start() takes *)
(* tags from the completion queue and lets each Call process its reply;    *)
(* other threads add calls and one thread calls stop().                    *)
(*                                                                         *)
(* A tag is the Call itself.  gRPC's queue is modelled from its use: Next() *)
(* returns false only when the queue is shut down and no operation is left, *)
(* in flight or completed.                                                 *)
(***************************************************************************)
EXTENDS Naturals

CONSTANTS
    Calls,   \* the Call objects, each added at most once
    Events   \* Events[c]: how many events c gets; keepAlive() until the last

VARIABLES
    running, stopped,
    queueShut,   \* _queue->Shutdown() was called
    pending,     \* calls with an operation in flight
    ready,       \* completed events: the call, and whether its reply is a real one
                 \* (read_ok and the status that processReply() looks at)
    left,        \* per call, events still to come
    call,        \* per call: "new", "started" or "destroyed"
    succeeded,   \* history: calls that processed their reply, a real one
    looper,      \* where the devoted thread is in start()
    stopper,     \* where another thread is in stop()
    served       \* history: stop() began after start() had cleared _stopped

loop == <<running, stopped, looper>>
ops == <<pending, ready>>
objects == <<left, call, succeeded>>
ending == <<stopper, served>>
vars == <<loop, ops, objects, ending, queueShut>>

Init ==
    /\ running = FALSE /\ stopped = TRUE /\ looper = "new"
    /\ queueShut = FALSE
    /\ pending = {} /\ ready = {}
    /\ left = Events
    /\ call = [c \in Calls |-> "new"]
    /\ succeeded = {}
    /\ stopper = "new" /\ served = FALSE

LooperGoes(from, to) == looper = from /\ looper' = to
StopperGoes(from, to) == stopper = from /\ stopper' = to

-----------------------------------------------------------------------------
\* addCall(): gRPC does not let a call begin on a queue that is shut down.
AddCall(c) ==
    /\ call[c] = "new"
    /\ ~queueShut
    /\ call' = [call EXCEPT ![c] = "started"]
    /\ pending' = pending \cup {c}
    /\ UNCHANGED <<loop, ready, left, succeeded, ending, queueShut>>

\* gRPC completes an operation of c.
Complete(c, ok) ==
    /\ c \in pending
    /\ pending' = pending \ {c}
    /\ ready' = ready \cup {[call |-> c, ok |-> ok]}
    /\ UNCHANGED <<loop, objects, ending, queueShut>>

-----------------------------------------------------------------------------
(***************************************************************************)
(* start()                                                                 *)
(***************************************************************************)

\* if (_running) return;
StartAgain == running /\ UNCHANGED vars

SetRunning ==
    /\ ~running
    /\ LooperGoes("new", "clearStopped")
    /\ running' = TRUE
    /\ UNCHANGED <<stopped, ops, objects, ending, queueShut>>

\* while (_running): no other step can tell the test from the step before it.
Again == IF running THEN "next" ELSE "shutdown"

ClearStopped ==
    /\ LooperGoes("clearStopped", Again)
    /\ stopped' = FALSE
    /\ UNCHANGED <<running, ops, objects, ending, queueShut>>

\* !keepAlive(), and the slip that does not ask.
NotAsked(c) == TRUE
NotKept(c) == left[c] = 1

\* What processReply() takes for the reply of its call; a slip: _rpcStatus is not
\* looked at.
AnyStatus(e) == left[e.call] = 1
Real(e) == e.ok /\ left[e.call] = 1

\* Next() returns an event: processReply(), and destroy() unless keepAlive().
\* A call that is kept alive has asked for its next event.
Process(e) ==
    LET c == e.call IN
    /\ LooperGoes("next", Again)
    /\ e \in ready
    /\ ready' = ready \ {e}
    /\ left' = [left EXCEPT ![c] = @ - 1]
    /\ succeeded' = IF Real(e) THEN succeeded \cup {c} ELSE succeeded
    /\ pending' = IF left[c] > 1 THEN pending \cup {c} ELSE pending
    /\ call' = IF NotKept(c) THEN [call EXCEPT ![c] = "destroyed"] ELSE call
    /\ UNCHANGED <<running, stopped, ending, queueShut>>

\* Next() returns false; a slip: as soon as nothing has completed.
NoneReady == queueShut /\ ready = {}
Drained == queueShut /\ ready = {} /\ pending = {}

Break ==
    /\ LooperGoes("next", "shutdown")
    /\ Drained
    /\ running' = FALSE
    /\ UNCHANGED <<stopped, ops, objects, ending, queueShut>>

ShutdownQueue ==
    /\ LooperGoes("shutdown", "drain")
    /\ queueShut' = TRUE
    /\ UNCHANGED <<running, stopped, ops, objects, ending>>

\* The tag is ignored: its call is neither told nor destroyed.
Ignore(e) ==
    /\ looper = "drain"
    /\ e \in ready
    /\ ready' = ready \ {e}
    /\ UNCHANGED <<loop, pending, objects, ending, queueShut>>

SetStopped ==
    /\ LooperGoes("drain", "ended")
    /\ Drained
    /\ stopped' = TRUE
    /\ UNCHANGED <<running, ops, objects, ending, queueShut>>

-----------------------------------------------------------------------------
(***************************************************************************)
(* stop()                                                                  *)
(***************************************************************************)

\* _queue->Shutdown(), without which nothing wakes the looper
StopShutdown ==
    /\ StopperGoes("new", "clearRunning")
    /\ queueShut' = TRUE
    /\ served' = (looper \notin {"new", "clearStopped"})
    /\ UNCHANGED <<loop, ops, objects>>

StopClearRunning ==
    /\ StopperGoes("clearRunning", "polling")
    /\ running' = FALSE
    /\ UNCHANGED <<stopped, looper, ops, objects, served, queueShut>>

StopReturns ==
    /\ StopperGoes("polling", "returned")
    /\ stopped
    /\ UNCHANGED <<loop, ops, objects, served, queueShut>>

-----------------------------------------------------------------------------
LooperStep ==
    \/ SetRunning \/ ClearStopped \/ Break \/ ShutdownQueue \/ SetStopped
    \/ \E e \in ready : Process(e) \/ Ignore(e)

StopperStep == StopShutdown \/ StopClearRunning \/ StopReturns
-----------------------------------------------------------------------------
TypeOK ==
    /\ running \in BOOLEAN /\ stopped \in BOOLEAN /\ queueShut \in BOOLEAN
    /\ served \in BOOLEAN
    /\ pending \subseteq Calls
    /\ ready \subseteq [call : Calls, ok : BOOLEAN]
    /\ left \in [Calls -> Nat]
    /\ call \in [Calls -> {"new", "started", "destroyed"}]
    /\ succeeded \subseteq Calls
    /\ looper \in {"new", "clearStopped", "next", "shutdown", "drain", "ended"}
    /\ stopper \in {"new", "clearRunning", "polling", "returned"}

\* gRPC and the queue refer only to calls that still exist, and the other way
\* round a call that exists is known to them, by one tag, and will be destroyed:
\* but for the calls that the drain at the end of start() throws away.
QueueHoldsLiveCalls ==
    \A c \in Calls :
        LET events == {e \in ready : e.call = c} IN
        /\ c \in pending \/ events # {} => call[c] = "started"
        /\ c \in pending => events = {}
        /\ call[c] = "started" /\ looper \notin {"drain", "ended"}
               => c \in pending \/ events # {}

\* When a stop() that found start() under way has returned, start() is at its end
\* and the queue is empty: it can be deleted, whatever was in flight.
StopWaitsForDrain ==
    (served /\ stopper = "returned") => looper = "ended" /\ ready = {} /\ pending = {}
=============================================================================
