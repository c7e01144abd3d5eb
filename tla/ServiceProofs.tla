----------------------------- MODULE ServiceProofs -----------------------------
(***************************************************************************)
(* Proofs about Service, for any number of calls of start(), stop() and of *)
(* the handlers.                                                           *)
(***************************************************************************)
EXTENDS Service, TLAPS

\* One thread is inside Shutdown() at most: the first to call it.
OneCloses == \A p, q \in Stops : stopper[p] = "closing" /\ stopper[q] = "closing" => p = q

LEMMA TypeStep == TypeOK /\ OneCloses /\ [Next]_vars => TypeOK' /\ OneCloses'
<1>1. SUFFICES ASSUME TypeOK, OneCloses, [Next]_vars
               PROVE  TypeOK' /\ OneCloses'
    OBVIOUS
<1>2. ASSUME NEW s \in Starts, StartStep(s) PROVE TypeOK' /\ OneCloses'
    <2>1. UNCHANGED <<server, stopper, rpc, told>>
        BY <1>2 DEF StartStep, StarterGoes, TestNotRunning, SetRunning, ClearStopped,
                    WaitReturns, SetStopped
    <2>2. running' \in BOOLEAN /\ stopped' \in BOOLEAN
        BY <1>1, <1>2 DEF StartStep, TypeOK, flags, TestNotRunning, SetRunning,
                          ClearStopped, WaitReturns, SetStopped
    <2>3. starter' \in [Starts -> {"new", "setRunning", "clearStopped", "waiting",
                                   "leaving", "ended"}]
        BY <1>1, <1>2 DEF StartStep, TypeOK, StarterGoes, TestNotRunning, SetRunning,
                          ClearStopped, WaitReturns, SetStopped
    <2> QED BY <1>1, <2>1, <2>2, <2>3 DEF TypeOK, OneCloses
<1>3. ASSUME NEW p \in Stops, StopStep(p) PROVE TypeOK' /\ OneCloses'
    <2>1. CASE TestRunning(p)
        BY <1>1, <2>1 DEF TypeOK, OneCloses, TestRunning, StopperGoes
    <2>2. CASE ClearRunning(p)
        BY <1>1, <2>2 DEF TypeOK, OneCloses, ClearRunning, StopperGoes
    <2>3. CASE BeginShutdown(p)
        BY <1>1, <2>3 DEF TypeOK, OneCloses, BeginShutdown, StopperGoes
    <2>4. CASE EndShutdown(p)
        BY <1>1, <2>4 DEF TypeOK, OneCloses, EndShutdown, StopperGoes
    <2>5. CASE StopReturns(p)
        BY <1>1, <2>5 DEF TypeOK, OneCloses, StopReturns, StopperGoes
    <2> QED BY <1>3, <2>1, <2>2, <2>3, <2>4, <2>5 DEF StopStep
<1>4. ASSUME NEW r \in Rpcs, BeginRpc(r) \/ EndRpc(r) PROVE TypeOK' /\ OneCloses'
    BY <1>1, <1>4 DEF TypeOK, OneCloses, BeginRpc, EndRpc, flags
<1>5. CASE UNCHANGED vars
    BY <1>1, <1>5 DEF TypeOK, OneCloses, vars, flags
<1> QED BY <1>1, <1>2, <1>3, <1>4, <1>5 DEF Next

LEMMA TypeHolds == Spec => [](TypeOK /\ OneCloses)
<1>1. Init => TypeOK /\ OneCloses
    BY DEF Init, TypeOK, OneCloses
<1> QED BY <1>1, TypeStep, PTL DEF Spec

\* TypeOK is an invariant: the server that a stop() is closing has not been shut
\* down by another.
THEOREM TypeCorrect == Spec => []TypeOK
    BY TypeHolds, PTL

-----------------------------------------------------------------------------
(***************************************************************************)
(* A server that is shut down is quiet, and stop() waits for that.         *)
(***************************************************************************)

\* _running is set by a start() that went on, so a start() that finds it set with
\* no other inside comes after the end of one.
RunningWasSet ==
    running => \E s \in Starts : starter[s] \notin {"new", "setRunning"}

LeftIsShut == (\E s \in Starts : starter[s] \in {"leaving", "ended"}) => server = "shut"

ShutIsQuiet == server = "shut" => Active = {}

\* _stopped is set from the beginning, until the first start() clears it, and
\* again when the server is shut down.
StoppedIsShut ==
    stopped /\ server # "shut"
        => \A s \in Starts : starter[s] \in {"new", "setRunning", "clearStopped"}

\* What StopsInTime gives.
StartedBefore ==
    \A p \in Stops : stopper[p] # "new" =>
        \E s \in Starts : starter[s] \in {"waiting", "leaving", "ended"}

ReturnedIsShut == \A p \in Stops : stopper[p] = "returned" => server = "shut"

Inv ==
    /\ TypeOK /\ RunningWasSet /\ LeftIsShut /\ ShutIsQuiet /\ StoppedIsShut
    /\ StartedBefore /\ ReturnedIsShut

LEMMA InvStep ==
    ASSUME StopsInTime, Inv, [Next]_vars, TypeOK' PROVE Inv'
<1> USE DEF Inv
<1>1. ASSUME NEW s \in Starts, StartStep(s) PROVE Inv'
    <2>1. /\ UNCHANGED <<server, stopper, rpc>> /\ UNCHANGED Active
          /\ starter[s] \notin {"ended"}
          /\ \A t \in Starts \ {s} : starter'[t] = starter[t]
        <3>1. UNCHANGED <<server, stopper, rpc>>
            BY <1>1 DEF StartStep, StarterGoes, TestNotRunning, SetRunning, ClearStopped,
                        WaitReturns, SetStopped
        <3>2. /\ starter[s] \notin {"ended"}
              /\ \A t \in Starts \ {s} : starter'[t] = starter[t]
            BY <1>1 DEF StartStep, StarterGoes, TestNotRunning, SetRunning, ClearStopped,
                        WaitReturns, SetStopped, TypeOK
        <3> QED BY <3>1, <3>2 DEF Active
    <2>2. ShutIsQuiet' /\ ReturnedIsShut'
        BY <2>1 DEF ShutIsQuiet, ReturnedIsShut
    <2>3. CASE TestNotRunning(s)
        <3>1. starter[s] = "new" /\ running' = running /\ stopped' = stopped
              /\ starter'[s] = (IF running THEN "leaving" ELSE "setRunning")
              /\ \A t \in Starts : ~Inside(t)
            BY <2>1, <2>3 DEF TestNotRunning, StarterGoes, flags, TypeOK
        <3>2. running => server = "shut"
            BY <2>1, <3>1 DEF RunningWasSet, LeftIsShut, Inside, TypeOK
        <3> QED BY <2>1, <2>2, <3>1, <3>2 DEF RunningWasSet, LeftIsShut, StoppedIsShut, StartedBefore
    <2>4. CASE SetRunning(s)
        <3>1. starter[s] = "setRunning" /\ starter'[s] = "clearStopped" /\ stopped' = stopped
            BY <2>1, <2>4 DEF SetRunning, StarterGoes, TypeOK
        <3> QED BY <2>1, <2>2, <3>1 DEF RunningWasSet, LeftIsShut, StoppedIsShut, StartedBefore
    <2>5. CASE ClearStopped(s)
        <3>1. starter[s] = "clearStopped" /\ starter'[s] = "waiting" /\ ~stopped'
            BY <2>1, <2>5 DEF ClearStopped, StarterGoes, TypeOK
        <3> QED BY <2>1, <2>2, <3>1 DEF RunningWasSet, LeftIsShut, StoppedIsShut, StartedBefore
    <2>6. CASE WaitReturns(s)
        <3>1. starter[s] = "waiting" /\ starter'[s] = "leaving" /\ server = "shut"
            BY <2>1, <2>6 DEF WaitReturns, StarterGoes, TypeOK
        <3> QED BY <2>1, <2>2, <3>1 DEF RunningWasSet, LeftIsShut, StoppedIsShut, StartedBefore
    <2>7. CASE SetStopped(s)
        <3>1. starter[s] = "leaving" /\ starter'[s] = "ended"
            BY <2>1, <2>7 DEF SetStopped, StarterGoes, TypeOK
        <3> QED BY <2>1, <2>2, <3>1 DEF RunningWasSet, LeftIsShut, StoppedIsShut, StartedBefore
    <2> QED BY <1>1, <2>3, <2>4, <2>5, <2>6, <2>7 DEF StartStep
<1>2. ASSUME NEW p \in Stops, StopStep(p) PROVE Inv'
    <2>1. /\ UNCHANGED <<stopped, starter, rpc>> /\ UNCHANGED Active
          /\ running' => running
          /\ server = "shut" => server' = "shut"
          /\ server' = "shut" => server = "shut" \/ Active = {}
          /\ \A q \in Stops \ {p} : stopper'[q] = stopper[q]
        BY <1>2 DEF StopStep, StopperGoes, TestRunning, ClearRunning, BeginShutdown,
                    EndShutdown, StopReturns, TypeOK, Active
    <2>2. RunningWasSet' /\ LeftIsShut' /\ ShutIsQuiet' /\ StoppedIsShut'
        BY <2>1 DEF RunningWasSet, LeftIsShut, ShutIsQuiet, StoppedIsShut
    <2>3. \E s \in Starts : starter[s] \in {"waiting", "leaving", "ended"}
        <3>1. CASE stopper[p] = "new"
            BY <1>2, <3>1 DEF StopStep, StopperGoes, TestRunning, ClearRunning,
                              BeginShutdown, EndShutdown, StopReturns
        <3> QED BY <3>1 DEF StartedBefore
    <2>4. StartedBefore'
        BY <2>1, <2>3 DEF StartedBefore
    <2>5. stopper'[p] = "returned" => server = "shut"
        <3>1. CASE StopReturns(p)
            BY <2>3, <3>1 DEF StopReturns, StoppedIsShut
        <3>2. CASE ~StopReturns(p)
            BY <1>2, <3>2 DEF StopStep, StopperGoes, TestRunning, ClearRunning,
                              BeginShutdown, EndShutdown, TypeOK
        <3> QED BY <3>1, <3>2
    <2>6. ReturnedIsShut'
        BY <2>1, <2>5 DEF ReturnedIsShut
    <2> QED BY <2>2, <2>4, <2>6
<1>3. ASSUME NEW r \in Rpcs, BeginRpc(r) \/ EndRpc(r) PROVE Inv'
    <2>1. UNCHANGED <<running, stopped, server, starter, stopper>>
        BY <1>3 DEF BeginRpc, EndRpc, flags
    <2>2. server = "shut" => Active' \subseteq Active
        BY <1>3 DEF BeginRpc, EndRpc, Active, TypeOK
    <2> QED BY <2>1, <2>2 DEF RunningWasSet, LeftIsShut, ShutIsQuiet, StoppedIsShut,
                              StartedBefore, ReturnedIsShut
<1>4. CASE UNCHANGED vars
    BY <1>4 DEF vars, flags, Active, RunningWasSet, LeftIsShut, ShutIsQuiet, StoppedIsShut,
                StartedBefore, ReturnedIsShut
<1> QED BY <1>1, <1>2, <1>3, <1>4 DEF Next

LEMMA InvHolds == ASSUME StopsInTime PROVE Spec => []Inv
<1>1. Init => Inv
    BY DEF Init, Inv, TypeOK, RunningWasSet, LeftIsShut, ShutIsQuiet, StoppedIsShut,
           StartedBefore, ReturnedIsShut
<1>2. TypeOK /\ TypeOK' /\ Inv /\ [Next]_vars => Inv'
    BY InvStep
<1> QED BY <1>1, <1>2, TypeCorrect, PTL DEF Spec

\* However many threads stop the service, and however start() is called again
\* meanwhile, whoever has returned from stop() may delete it.
THEOREM QuietCorrect == ASSUME StopsInTime PROVE Spec => []QuietAfterStop
<1>1. Inv => QuietAfterStop
    BY DEF Inv, QuietAfterStop, ReturnedIsShut, ShutIsQuiet
<1> QED BY <1>1, InvHolds, PTL

-----------------------------------------------------------------------------
(***************************************************************************)
(* One start(), and a stop() that comes in time: the stop() blocks.        *)
(***************************************************************************)

\* While start() is in Wait() or on its way out of it, _stopped is clear.
StoppedComesLast ==
    \A s \in Starts : starter[s] \in {"waiting", "leaving"} => ~stopped

ReturnedComesLast ==
    \A p \in Stops : stopper[p] = "returned" => \E s \in Starts : starter[s] = "ended"

OnceInv == StoppedComesLast /\ ReturnedComesLast

LEMMA OnceStep ==
    ASSUME \A s, t \in Starts : s = t, Inv, OnceInv, [Next]_vars PROVE OnceInv'
<1> USE DEF Inv, OnceInv
<1>1. ASSUME NEW s \in Starts, StartStep(s) PROVE OnceInv'
    <2>1. UNCHANGED stopper /\ \A t \in Starts : t = s
        BY <1>1 DEF StartStep, StarterGoes, TestNotRunning, SetRunning, ClearStopped,
                    WaitReturns, SetStopped
    <2>2. starter[s] # "ended" /\ (starter'[s] \in {"waiting", "leaving"} => ~stopped')
        <3>1. CASE TestNotRunning(s)
            <4>1. ~running
                BY <2>1, <3>1 DEF TestNotRunning, StarterGoes, RunningWasSet
            <4> QED BY <3>1, <4>1 DEF TestNotRunning, StarterGoes, TypeOK
        <3>2. CASE SetRunning(s) \/ ClearStopped(s) \/ WaitReturns(s) \/ SetStopped(s)
            BY <3>2 DEF SetRunning, ClearStopped, WaitReturns, SetStopped, StarterGoes,
                        TypeOK, flags, StoppedComesLast
        <3> QED BY <1>1, <3>1, <3>2 DEF StartStep
    <2> QED BY <2>1, <2>2 DEF StoppedComesLast, ReturnedComesLast
<1>2. ASSUME NEW p \in Stops, StopStep(p) PROVE OnceInv'
    <2>1. /\ UNCHANGED <<stopped, starter>>
          /\ \A q \in Stops \ {p} : stopper'[q] = stopper[q]
          /\ stopper'[p] = "returned" => stopped /\ stopper[p] # "new"
        BY <1>2 DEF StopStep, StopperGoes, TestRunning, ClearRunning, BeginShutdown,
                    EndShutdown, StopReturns, TypeOK
    <2>2. ASSUME stopper'[p] = "returned"
          PROVE  \E s \in Starts : starter[s] = "ended"
        BY <2>1, <2>2 DEF StartedBefore, StoppedComesLast
    <2> QED BY <2>1, <2>2 DEF StoppedComesLast, ReturnedComesLast
<1>3. ASSUME NEW r \in Rpcs, BeginRpc(r) \/ EndRpc(r) PROVE OnceInv'
    BY <1>3 DEF BeginRpc, EndRpc, flags, StoppedComesLast, ReturnedComesLast
<1>4. CASE UNCHANGED vars
    BY <1>4 DEF vars, flags, StoppedComesLast, ReturnedComesLast
<1> QED BY <1>1, <1>2, <1>3, <1>4 DEF Next

\* "stop() will block until threaded work is done": with one start(), which has
\* reached Wait() when the first of any number of stops is called, no thread is in
\* start() when one of them has returned.
THEOREM StopCorrect ==
    ASSUME StopsInTime, \A s, t \in Starts : s = t PROVE Spec => []StopBlocks
<1>1. Init => OnceInv
    BY DEF Init, OnceInv, StoppedComesLast, ReturnedComesLast
<1>2. Inv /\ OnceInv /\ [Next]_vars => OnceInv'
    BY OnceStep
<1>3. Inv /\ OnceInv => StopBlocks
    BY DEF Inv, TypeOK, OnceInv, ReturnedComesLast, StopBlocks, Inside
<1> QED BY <1>1, <1>2, <1>3, InvHolds, PTL DEF Spec

-----------------------------------------------------------------------------
(***************************************************************************)
(* What stop() polls for is on its way.                                    *)
(***************************************************************************)

\* A stop() that polls _stopped has not been forgotten: it is set, or a start() can
\* go on to set it, or another stop() is still at work on the server.
PollingIsAnswered ==
    \A p \in Stops : stopper[p] = "polling" =>
        \/ stopped
        \/ \E s \in Starts : starter[s] = "leaving" \/ (starter[s] = "waiting" /\ server = "shut")
        \/ \E q \in Stops : stopper[q] \in {"shutdown", "closing"}

StopOnItsWay == \E q \in Stops : stopper[q] = "shutdown"

PollingInv ==
    /\ ~stopped => \E s \in Starts : starter[s] \in {"waiting", "leaving"}
    /\ server = "closing" => \E q \in Stops : stopper[q] = "closing"
    /\ ~running /\ (\E s \in Starts : starter[s] \notin {"new", "setRunning"})
           => server # "serving" \/ StopOnItsWay
    /\ \A p \in Stops : stopper[p] = "polling" => server # "serving" \/ StopOnItsWay

LEMMA PollingStep ==
    ASSUME StopsInTime, Inv, OneCloses, PollingInv, [Next]_vars PROVE PollingInv'
<1> USE DEF PollingInv
<1>1. ASSUME NEW s \in Starts, StartStep(s) PROVE PollingInv'
    <2>1. /\ UNCHANGED <<server, stopper>> /\ StopOnItsWay' = StopOnItsWay
          /\ \A t \in Starts \ {s} : starter'[t] = starter[t]
        BY <1>1 DEF StartStep, StarterGoes, TestNotRunning, SetRunning, ClearStopped,
                    WaitReturns, SetStopped, StopOnItsWay, Inv, TypeOK
    <2>2. CASE TestNotRunning(s)
        BY <2>1, <2>2 DEF TestNotRunning, StarterGoes, Inv, TypeOK, flags
    <2>3. CASE SetRunning(s)
        BY <2>1, <2>3 DEF SetRunning, StarterGoes, Inv, TypeOK
    <2>4. CASE ClearStopped(s)
        BY <2>1, <2>4 DEF ClearStopped, StarterGoes, Inv, TypeOK
    <2>5. CASE WaitReturns(s)
        BY <2>1, <2>5 DEF WaitReturns, StarterGoes, Inv, TypeOK, flags
    <2>6. CASE SetStopped(s)
        BY <2>1, <2>6 DEF SetStopped, StarterGoes, Inv, TypeOK
    <2> QED BY <1>1, <2>2, <2>3, <2>4, <2>5, <2>6 DEF StartStep
<1>2. ASSUME NEW p \in Stops, StopStep(p) PROVE PollingInv'
    <2>1. UNCHANGED <<stopped, starter>> /\ \A q \in Stops \ {p} : stopper'[q] = stopper[q]
        BY <1>2 DEF StopStep, StopperGoes, TestRunning, ClearRunning, BeginShutdown,
                    EndShutdown, StopReturns, Inv, TypeOK
    <2>2. CASE TestRunning(p)
        BY <2>1, <2>2 DEF TestRunning, StopperGoes, StopOnItsWay, Inv, TypeOK
    <2>3. CASE ClearRunning(p)
        BY <2>1, <2>3 DEF ClearRunning, StopperGoes, StopOnItsWay, Inv, TypeOK
    <2>4. CASE BeginShutdown(p)
        BY <2>1, <2>4 DEF BeginShutdown, StopperGoes, StopOnItsWay, Inv, TypeOK
    <2>5. CASE EndShutdown(p)
        BY <2>1, <2>5 DEF EndShutdown, StopperGoes, StopOnItsWay, Inv, TypeOK
    <2>6. CASE StopReturns(p)
        BY <2>1, <2>6 DEF StopReturns, StopperGoes, StopOnItsWay, Inv, TypeOK
    <2> QED BY <1>2, <2>2, <2>3, <2>4, <2>5, <2>6 DEF StopStep
<1>3. ASSUME UNCHANGED <<flags, server, starter, stopper>> PROVE PollingInv'
    BY <1>3 DEF flags, StopOnItsWay
<1> QED BY <1>1, <1>2, <1>3 DEF Next, BeginRpc, EndRpc, vars

\* However many threads stop the service in time, and however start() is called
\* again meanwhile, no stop() polls in vain: the safety half of StopEndsAll.
THEOREM NoStopIsForgotten == ASSUME StopsInTime PROVE Spec => []PollingIsAnswered
<1>1. Init => PollingInv
    BY DEF Init, PollingInv
<1>2. Inv /\ OneCloses /\ PollingInv /\ [Next]_vars => PollingInv'
    BY PollingStep
<1>3. Inv /\ PollingInv => PollingIsAnswered
    BY DEF PollingInv, PollingIsAnswered, StopOnItsWay, Inv, TypeOK
<1> QED BY <1>1, <1>2, <1>3, InvHolds, TypeHolds, PTL DEF Spec

-----------------------------------------------------------------------------
(***************************************************************************)
(* One stop(), whenever it comes                                           *)
(***************************************************************************)

\* A stop() that found the service running leaves it shut down, wherever start()
\* may be.
ToldIsQuiet ==
    \A p \in told : stopper[p] = "returned" => server = "shut" /\ Active = {}

LoneInv ==
    /\ ShutIsQuiet
    /\ \A p \in Stops :
        /\ stopper[p] = "new" => p \notin told
        /\ stopper[p] \in {"new", "clearRunning", "shutdown"} => server = "serving"
        /\ stopper[p] \in {"polling", "returned"} /\ p \in told => server = "shut"

LEMMA LoneStep ==
    ASSUME \A p, q \in Stops : p = q, TypeOK, LoneInv, [Next]_vars PROVE LoneInv'
<1> USE DEF LoneInv
<1>1. ASSUME NEW s \in Starts, StartStep(s) PROVE LoneInv'
    <2>1. UNCHANGED <<server, stopper, rpc, told>>
        BY <1>1 DEF StartStep, StarterGoes, TestNotRunning, SetRunning, ClearStopped,
                    WaitReturns, SetStopped
    <2> QED BY <2>1 DEF ShutIsQuiet, Active
<1>2. ASSUME NEW p \in Stops, StopStep(p) PROVE LoneInv'
    <2>1. UNCHANGED rpc /\ \A q \in Stops : q = p
        BY <1>2 DEF StopStep, StopperGoes, TestRunning, ClearRunning, BeginShutdown,
                    EndShutdown, StopReturns
    <2>2. CASE TestRunning(p)
        BY <2>1, <2>2 DEF TestRunning, StopperGoes, TypeOK, ShutIsQuiet, Active
    <2>3. CASE ClearRunning(p) \/ BeginShutdown(p)
        BY <2>1, <2>3 DEF ClearRunning, BeginShutdown, StopperGoes, TypeOK, ShutIsQuiet, Active
    <2>4. CASE EndShutdown(p) \/ StopReturns(p)
        BY <2>1, <2>4 DEF EndShutdown, StopReturns, StopperGoes, TypeOK, ShutIsQuiet, Active
    <2> QED BY <1>2, <2>2, <2>3, <2>4 DEF StopStep
<1>3. ASSUME NEW r \in Rpcs, BeginRpc(r) \/ EndRpc(r) PROVE LoneInv'
    <2>1. UNCHANGED <<server, stopper, told>>
        BY <1>3 DEF BeginRpc, EndRpc
    <2>2. server = "shut" => Active' \subseteq Active
        BY <1>3 DEF BeginRpc, EndRpc, Active, TypeOK
    <2> QED BY <2>1, <2>2 DEF ShutIsQuiet
<1>4. CASE UNCHANGED vars
    BY <1>4 DEF vars, ShutIsQuiet, Active
<1> QED BY <1>1, <1>2, <1>3, <1>4 DEF Next

\* What is left of the promise when a single stop() may come too early: if it found
\* _running set, the server is shut down and no handler runs when it has returned,
\* though start() may still be inside (StopBlocks fails).
THEOREM LoneStopCorrect ==
    ASSUME \A p, q \in Stops : p = q PROVE Spec => []ToldIsQuiet
<1>1. Init => LoneInv
    BY DEF Init, LoneInv, ShutIsQuiet
<1>2. TypeOK /\ LoneInv /\ [Next]_vars => LoneInv'
    BY LoneStep
<1>3. TypeOK /\ LoneInv => ToldIsQuiet
    BY DEF LoneInv, ToldIsQuiet, ShutIsQuiet, TypeOK
<1> QED BY <1>1, <1>2, <1>3, TypeCorrect, PTL DEF Spec
=============================================================================
