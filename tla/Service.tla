-------------------------------- MODULE Service --------------------------------
(***************************************************************************)
(* mondo::Service of src/mondo/Service: a synchronous gRPC service that    *)
(* listens from its construction, a thread that calls start() and stays in *)
(* it, and threads that call stop().  _running and _stopped are plain      *)
(* members that both sides read and write; each access is a step.          *)
(*                                                                         *)
(* grpc::Server is modelled from its use: Shutdown() refuses new calls and *)
(* returns when those in progress have ended, a second Shutdown() returns  *)
(* at once, and Wait() returns when the first has.                         *)
(***************************************************************************)
CONSTANTS
    Starts,        \* calls of start(), one after another on its devoted thread
    Stops,         \* calls of stop(), each on a thread of its own
    Rpcs,          \* calls of StartSession and PollInOut by clients
    StopsInTime    \* stop() is called only when a start() has reached Wait()

ASSUME ServiceAssumption == StopsInTime \in BOOLEAN

VARIABLES
    running, stopped,
    server,    \* grpc::Server: "serving", "closing" or "shut"
    starter,   \* where each call of start() is
    stopper,   \* where each call of stop() is
    rpc,       \* each call: "new", "active", "done" or "refused"
    told       \* history: calls of stop() that found _running set

flags == <<running, stopped>>
vars == <<flags, server, starter, stopper, rpc, told>>

Init ==
    /\ running = FALSE /\ stopped = TRUE
    /\ server = "serving"
    /\ starter = [s \in Starts |-> "new"]
    /\ stopper = [p \in Stops |-> "new"]
    /\ rpc = [r \in Rpcs |-> "new"]
    /\ told = {}

Active == {r \in Rpcs : rpc[r] = "active"}
Inside(s) == starter[s] \in {"setRunning", "clearStopped", "waiting", "leaving"}

-----------------------------------------------------------------------------
\* start()

StarterGoes(s, from, to) ==
    /\ starter[s] = from
    /\ starter' = [starter EXCEPT ![s] = to]
    /\ UNCHANGED <<server, stopper, rpc, told>>

TestNotRunning(s) ==
    /\ \A t \in Starts : ~Inside(t)
    /\ StarterGoes(s, "new", IF running THEN "leaving" ELSE "setRunning")
    /\ UNCHANGED flags

SetRunning(s) ==
    /\ StarterGoes(s, "setRunning", "clearStopped")
    /\ running' = TRUE /\ UNCHANGED stopped

\* A slip: _stopped is left as it is.
LeaveStopped(s) == StarterGoes(s, "clearStopped", "waiting") /\ UNCHANGED flags

ClearStopped(s) ==
    /\ StarterGoes(s, "clearStopped", "waiting")
    /\ stopped' = FALSE /\ UNCHANGED running

WaitReturns(s) ==
    /\ server = "shut"
    /\ StarterGoes(s, "waiting", "leaving")
    /\ UNCHANGED flags

\* _stopped = true is outside the test: a call that found _running set does it
\* as well.
SetStopped(s) ==
    /\ StarterGoes(s, "leaving", "ended")
    /\ stopped' = TRUE /\ UNCHANGED running

-----------------------------------------------------------------------------
\* stop()

StopperGoes(p, from, to) ==
    /\ stopper[p] = from
    /\ stopper' = [stopper EXCEPT ![p] = to]
    /\ UNCHANGED <<stopped, starter, rpc>>

TestRunning(p) ==
    /\ StopsInTime => \E s \in Starts : starter[s] \in {"waiting", "leaving", "ended"}
    /\ StopperGoes(p, "new", IF running THEN "clearRunning" ELSE "polling")
    /\ told' = IF running THEN told \cup {p} ELSE told
    /\ UNCHANGED <<running, server>>

ClearRunning(p) ==
    /\ StopperGoes(p, "clearRunning", "shutdown")
    /\ running' = FALSE /\ UNCHANGED <<server, told>>

\* Slips: the server is not shut down; a server that was shut down closes again.
NoShutdown(p) == StopperGoes(p, "shutdown", "polling") /\ UNCHANGED <<running, server, told>>

ShutdownAgain(p) ==
    /\ StopperGoes(p, "shutdown", "closing")
    /\ server' = "closing" /\ UNCHANGED <<running, told>>

BeginShutdown(p) ==
    /\ StopperGoes(p, "shutdown", IF server = "serving" THEN "closing" ELSE "polling")
    /\ server' = IF server = "serving" THEN "closing" ELSE server
    /\ UNCHANGED <<running, told>>

EndShutdown(p) ==
    /\ Active = {}
    /\ StopperGoes(p, "closing", "polling")
    /\ server' = "shut" /\ UNCHANGED <<running, told>>

\* The loop that sleeps until _stopped is set
StopReturns(p) ==
    /\ stopped
    /\ StopperGoes(p, "polling", "returned")
    /\ UNCHANGED <<running, server, told>>

-----------------------------------------------------------------------------
\* The clients and the threads of gRPC: StartSession() and PollInOut() return
\* Status::OK.

BeginRpc(r) ==
    /\ rpc[r] = "new"
    /\ rpc' = [rpc EXCEPT ![r] = IF server = "serving" THEN "active" ELSE "refused"]
    /\ UNCHANGED <<flags, server, starter, stopper, told>>

EndRpc(r) ==
    /\ rpc[r] = "active"
    /\ rpc' = [rpc EXCEPT ![r] = "done"]
    /\ UNCHANGED <<flags, server, starter, stopper, told>>

-----------------------------------------------------------------------------
StartStep(s) ==
    \/ TestNotRunning(s) \/ SetRunning(s) \/ ClearStopped(s)
    \/ WaitReturns(s) \/ SetStopped(s)

StopStep(p) ==
    \/ TestRunning(p) \/ ClearRunning(p) \/ BeginShutdown(p) \/ EndShutdown(p)
    \/ StopReturns(p)

Next ==
    \/ \E s \in Starts : StartStep(s)
    \/ \E p \in Stops : StopStep(p)
    \/ \E r \in Rpcs : BeginRpc(r) \/ EndRpc(r)

Spec == Init /\ [][Next]_vars

\* A thread in start() or stop() runs on, and handlers return. Nobody has to call
\* any of them.
FairSpec ==
    /\ Spec
    /\ \A s \in Starts : WF_vars(starter[s] # "new" /\ StartStep(s))
    /\ \A p \in Stops : WF_vars(stopper[p] # "new" /\ StopStep(p))
    /\ \A r \in Rpcs : WF_vars(EndRpc(r))
-----------------------------------------------------------------------------
TypeOK ==
    /\ running \in BOOLEAN /\ stopped \in BOOLEAN
    /\ server \in {"serving", "closing", "shut"}
    /\ \A p \in Stops : stopper[p] = "closing" => server = "closing"
    /\ starter \in [Starts -> {"new", "setRunning", "clearStopped", "waiting",
                                 "leaving", "ended"}]
    /\ stopper \in [Stops -> {"new", "clearRunning", "shutdown", "closing", "polling",
                                 "returned"}]
    /\ rpc \in [Rpcs -> {"new", "active", "done", "refused"}]
    /\ told \subseteq Stops

\* "stop() will block until threaded work is done": when a stop() that found the
\* service running has returned, no thread is inside start() any more.
StopBlocks ==
    \A p \in told : stopper[p] = "returned" => \A s \in Starts : ~Inside(s)

\* When any stop() has returned, also one that found another at work, no handler
\* runs and none will: the service may be deleted.
QuietAfterStop ==
    \A p \in Stops : stopper[p] = "returned" =>
        /\ server = "shut"
        /\ Active = {}

\* Every stop() that was called returns, also one that found _running cleared by
\* another, and every start() with it.
StopEndsAll ==
    \A p \in Stops :
        (stopper[p] # "new") ~> (stopper[p] = "returned" /\ \A s \in Starts : ~Inside(s))
=============================================================================
