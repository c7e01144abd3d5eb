------------------------------ MODULE GrpcProofs ------------------------------
(***************************************************************************)
(* Proofs about GrpcSystem, for any number of calls, each with any number  *)
(* of events, and any memory for handlers that is larger.                  *)
(***************************************************************************)
EXTENDS GrpcSystem, TLAPS

-----------------------------------------------------------------------------
(***************************************************************************)
(* The client                                                              *)
(***************************************************************************)

\* A call that has been added has one tag, in flight or in the queue, and at least
\* one event to come; a call that has not, or has been destroyed, has none.
CallsHaveTags ==
    \A c \in Calls :
        /\ c \in cPending => cCall[c] = "started" /\ \A e \in cReady : e.call # c
        /\ \A e \in cReady : e.call = c => cCall[c] = "started"
        /\ \A e, f \in cReady : e.call = c /\ f.call = c => e = f
        /\ cCall[c] # "destroyed" => cLeft[c] > 0
        /\ cCall[c] = "started" /\ cLooper \notin {"drain", "ended"}
               => c \in cPending \/ \E e \in cReady : e.call = c

\* _stopped is clear while start() is in its loop, and the queue is empty at its end.
LooperState ==
    /\ cLooper \in {"next", "shutdown", "drain"} => ~cStopped
    /\ cLooper \in {"drain", "ended"} => cQueueShut
    /\ cLooper = "ended" => cReady = {} /\ cPending = {}
    /\ cServed => cLooper \notin {"new", "clearStopped"}
    /\ cServed /\ cStopper = "returned" => cLooper = "ended"

ClientInv == Client!TypeOK /\ CallsHaveTags /\ LooperState

LEMMA ClientAdds ==
    ASSUME ClientInv, NEW c \in Calls, Client!AddCall(c)
    PROVE  ClientInv'
<1> USE DEF ClientInv, Client!AddCall, Client!loop, Client!ending
<1>1. Client!TypeOK'
    BY DEF Client!TypeOK
<1>2. CallsHaveTags'
    BY SystemAssumption DEF CallsHaveTags, Client!TypeOK
<1>3. LooperState'
    BY DEF LooperState
<1> QED BY <1>1, <1>2, <1>3

LEMMA ClientCompletes ==
    ASSUME ClientInv, NEW c \in Calls, NEW ok \in BOOLEAN, Client!Complete(c, ok)
    PROVE  ClientInv'
<1> USE DEF ClientInv, Client!Complete, Client!loop, Client!ending, Client!objects
<1>1. Client!TypeOK'
    BY DEF Client!TypeOK
<1> DEFINE d == [call |-> c, ok |-> ok]
<1>2. /\ d.call = c /\ cReady' = cReady \cup {d}
      /\ cPending' = cPending \ {c} /\ c \in cPending
      /\ UNCHANGED <<cLooper, cCall, cLeft>>
    OBVIOUS
<1>3. CallsHaveTags'
    <2> HIDE DEF d
    <2>1. SUFFICES ASSUME NEW b \in Calls
                   PROVE  /\ b \in cPending' => cCall[b] = "started" /\ \A e \in cReady' : e.call # b
                          /\ \A e \in cReady' : e.call = b => cCall[b] = "started"
                          /\ \A e, f \in cReady' : e.call = b /\ f.call = b => e = f
                          /\ cCall[b] = "started" /\ cLooper \notin {"drain", "ended"}
                                 => b \in cPending' \/ \E e \in cReady' : e.call = b
        BY <1>2 DEF CallsHaveTags
    <2>2. CASE b = c
        BY <1>2, <2>2 DEF CallsHaveTags
    <2>3. CASE b # c
        BY <1>2, <2>3 DEF CallsHaveTags
    <2> QED BY <2>2, <2>3
<1>4. LooperState'
    BY DEF LooperState
<1> QED BY <1>1, <1>3, <1>4

LEMMA ClientProcesses ==
    ASSUME ClientInv, NEW e \in cReady, Client!Process(e)
    PROVE  ClientInv'
<1> USE DEF ClientInv, Client!Process, Client!LooperGoes, Client!Again, Client!NotKept, Client!Real,
            Client!ending
<1> DEFINE c == e.call
<1>1. c \in Calls /\ cCall[c] = "started" /\ cLeft[c] \in Nat /\ cLeft[c] > 0
    BY DEF Client!TypeOK, CallsHaveTags
<1>2. Client!TypeOK'
    BY <1>1 DEF Client!TypeOK
<1>3. CallsHaveTags'
    BY <1>1 DEF CallsHaveTags, Client!TypeOK
<1>4. LooperState'
    BY DEF LooperState
<1> QED BY <1>2, <1>3, <1>4

LEMMA ClientLoops ==
    ASSUME ClientInv, Client!LooperStep PROVE ClientInv'
<1> USE DEF ClientInv
<1>1. CASE \E e \in cReady : Client!Process(e)
    BY <1>1, ClientProcesses
<1>2. CASE \E e \in cReady : Client!Ignore(e)
    BY <1>2 DEF Client!Ignore, Client!loop, Client!objects, Client!ending, Client!TypeOK,
                CallsHaveTags, LooperState
<1>3. CASE Client!SetRunning
    BY <1>3 DEF Client!SetRunning, Client!LooperGoes, Client!ops, Client!objects,
                Client!ending, Client!TypeOK, CallsHaveTags, LooperState
<1>4. CASE Client!ClearStopped
    BY <1>4 DEF Client!ClearStopped, Client!LooperGoes, Client!Again, Client!ops,
                Client!objects, Client!ending, Client!TypeOK, CallsHaveTags, LooperState
<1>5. CASE Client!Break
    BY <1>5 DEF Client!Break, Client!LooperGoes, Client!ops, Client!objects, Client!ending,
                Client!TypeOK, CallsHaveTags, LooperState
<1>6. CASE Client!ShutdownQueue
    BY <1>6 DEF Client!ShutdownQueue, Client!LooperGoes, Client!ops, Client!objects,
                Client!ending, Client!TypeOK, CallsHaveTags, LooperState
<1>7. CASE Client!SetStopped
    BY <1>7 DEF Client!SetStopped, Client!LooperGoes, Client!Drained, Client!ops,
                Client!objects, Client!ending, Client!TypeOK, CallsHaveTags, LooperState
<1> QED BY <1>1, <1>2, <1>3, <1>4, <1>5, <1>6, <1>7 DEF Client!LooperStep

LEMMA ClientIsStopped ==
    ASSUME ClientInv, Client!StopperStep PROVE ClientInv'
<1> USE DEF ClientInv, Client!StopperGoes, Client!loop, Client!ops, Client!objects,
            Client!TypeOK, CallsHaveTags, LooperState
<1>1. CASE Client!StopShutdown
    BY <1>1 DEF Client!StopShutdown
<1>2. CASE Client!StopClearRunning
    BY <1>2 DEF Client!StopClearRunning
<1>3. CASE Client!StopReturns
    BY <1>3 DEF Client!StopReturns
<1> QED BY <1>1, <1>2, <1>3 DEF Client!StopperStep

-----------------------------------------------------------------------------
(***************************************************************************)
(* The server                                                              *)
(***************************************************************************)
\* The handlers with an event that is ok, and with one that is not.
WithEvent(events, ok) == {h \in Handlers : Server!Event(h, ok) \in events}
Completed == WithEvent(sReady, TRUE)
Failed == WithEvent(sReady, FALSE)

LEMMA EventsDiffer ==
    \A g, h \in Handlers, a, b \in BOOLEAN :
        Server!Event(g, a) = Server!Event(h, b) <=> g = h /\ a = b
    BY DEF Server!Event

LEMMA EventAdded ==
    ASSUME NEW events, NEW h \in Handlers, NEW a \in BOOLEAN, NEW b \in BOOLEAN
    PROVE  WithEvent(events \cup {Server!Event(h, b)}, a)
               = IF a = b THEN WithEvent(events, a) \cup {h} ELSE WithEvent(events, a)
<1>1. ASSUME NEW g \in Handlers
      PROVE  Server!Event(g, a) \in events \cup {Server!Event(h, b)}
                 <=> Server!Event(g, a) \in events \/ (g = h /\ a = b)
    BY EventsDiffer
<1> QED BY <1>1 DEF WithEvent

LEMMA EventRemoved ==
    ASSUME NEW events, NEW h \in Handlers, NEW a \in BOOLEAN, NEW b \in BOOLEAN
    PROVE  WithEvent(events \ {Server!Event(h, b)}, a)
               = IF a = b THEN WithEvent(events, a) \ {h} ELSE WithEvent(events, a)
<1>1. ASSUME NEW g \in Handlers
      PROVE  Server!Event(g, a) \in events \ {Server!Event(h, b)}
                 <=> Server!Event(g, a) \in events /\ ~(g = h /\ a = b)
    BY EventsDiffer
<1> QED BY <1>1 DEF WithEvent

ServerEvents == [handler : Handlers, ok : BOOLEAN]

LEMMA EventType == \A h \in Handlers, ok \in BOOLEAN : Server!Event(h, ok) \in ServerEvents
    BY DEF Server!Event, ServerEvents

\* A new handler is staged, or fails at once.
LEMMA StageEffect ==
    ASSUME NEW h \in Handlers, NEW others, Server!Stage({h}, others)
    PROVE  \/ sStaged' = sStaged \cup {h} /\ sReady' = others
           \/ sStaged' = sStaged /\ sReady' = others \cup {Server!Event(h, FALSE)}
<1>1. {Server!Event(g, FALSE) : g \in {h}} = {Server!Event(h, FALSE)}
    OBVIOUS
<1> QED BY <1>1 DEF Server!Stage

LEMMA StageEvents ==
    ASSUME NEW h \in Handlers, NEW others, Server!Stage({h}, others)
    PROVE  /\ Completed' = WithEvent(others, TRUE)
           /\ \/ sStaged' = sStaged \cup {h} /\ Failed' = WithEvent(others, FALSE)
              \/ sStaged' = sStaged /\ Failed' = WithEvent(others, FALSE) \cup {h}
<1>1. CASE sStaged' = sStaged \cup {h} /\ sReady' = others
    BY <1>1 DEF Completed, Failed
<1>2. CASE sStaged' = sStaged /\ sReady' = others \cup {Server!Event(h, FALSE)}
    <2>1. WithEvent(sReady', TRUE) = WithEvent(others, TRUE)
        BY <1>2, EventAdded
    <2>2. WithEvent(sReady', FALSE) = WithEvent(others, FALSE) \cup {h}
        BY <1>2, EventAdded
    <2> QED BY <1>2, <2>1, <2>2 DEF Completed, Failed
<1> QED BY <1>1, <1>2, StageEffect

LEMMA StageType ==
    ASSUME NEW h \in Handlers, NEW others \in SUBSET ServerEvents, sStaged \subseteq Handlers,
           Server!Stage({h}, others)
    PROVE  sStaged' \subseteq Handlers /\ sReady' \subseteq ServerEvents
<1>1. Server!Event(h, FALSE) \in ServerEvents
    BY EventType
<1>2. \/ sStaged' = sStaged \cup {h} /\ sReady' = others
      \/ sStaged' = sStaged /\ sReady' = others \cup {Server!Event(h, FALSE)}
    BY StageEffect
<1> QED BY <1>1, <1>2

\* A handler has at most one tag, which says where it is in its life.
OneTag(h) ==
    /\ h \in sStaged => h \notin sReplying /\ h \notin Completed /\ h \notin Failed
    /\ h \in sReplying => h \notin Completed /\ h \notin Failed
    /\ ~(h \in Completed /\ h \in Failed)
    /\ h \in sStaged => sStatus[h] = "PROCESS" /\ sHandling[h] = NoRequest
    /\ h \in sReplying => sStatus[h] = "FINISH"
    /\ h \in Completed => sHandling[h] # NoRequest
    /\ h \in Failed => sStatus[h] # "none"

HandlersHaveOneTag == \A h \in Handlers : OneTag(h)

\* A handler is given a request of its own, which it processes once.
RequestsHaveHandlers ==
    /\ \A h \in Handlers :
        /\ sStatus[h] = "none" => sHandling[h] = NoRequest
        /\ sStatus[h] = "FINISH" => sHandling[h] # NoRequest /\ sHandled[sHandling[h]] = 1
        /\ sStatus[h] = "PROCESS" /\ sHandling[h] # NoRequest => sHandled[sHandling[h]] = 0
    /\ \A g, h \in Handlers : sHandling[g] # NoRequest /\ sHandling[g] = sHandling[h] => g = h
    /\ \A c \in sReplied : sHandled[c] = 1
    /\ \A h \in Handlers : h \in sReplying => sHandling[h] \notin sReplied

\* The server goes down step by step with the call of stop().
ServerPhases ==
    /\ sStopper = "new" => sUp \in {"none", "up"}
    /\ sStopper = "shutdown" => sUp = "up"
    /\ sStopper = "closing" => sUp = "closing"
    /\ sStopper \in {"queue", "returned", "deleted"} => sUp = "down"

NoHandlerYet == sLooper = "new" => \A h \in Handlers : sStatus[h] = "none"

ServerInv ==
    /\ Server!TypeOK /\ HandlersHaveOneTag /\ RequestsHaveHandlers
    /\ NoHandlerYet /\ OneListens

\* Where every handler in use has a request, there is memory for another.
LEMMA MemoryIsLeft ==
    ASSUME ServerInv,
           \A h \in Handlers : sStatus[h] # "none" => sHandling[h] # NoRequest
    PROVE  \E h \in Handlers : Server!New = {h} /\ sStatus[h] = "none"
<1>1. \E h \in Handlers : sStatus[h] = "none"
    <2>1. SUFFICES ASSUME \A h \in Handlers : sStatus[h] # "none" PROVE FALSE
        OBVIOUS
    <2>2. sHandling \in [Handlers -> Calls]
        BY <2>1 DEF ServerInv, Server!TypeOK
    <2>3. PICK g, h \in Handlers : g # h /\ sHandling[g] = sHandling[h]
        BY <2>2, SystemAssumption
    <2> QED BY <2>1, <2>3 DEF ServerInv, RequestsHaveHandlers
<1> QED BY <1>1 DEF Server!New

LEMMA ProcessFinds ==
    ASSUME ServerInv, NEW h \in Handlers, Server!Process(h)
    PROVE  /\ sStatus[h] = "PROCESS" /\ h \in Completed /\ sLooper = "next"
           /\ sHandling[h] \in Calls /\ sHandling[h] # NoRequest /\ sHandled[sHandling[h]] = 0
           /\ \A g \in Handlers : sStatus[g] = "PROCESS" <=> g = h
           /\ \E g \in Handlers : Server!New = {g} /\ sStatus[g] = "none"
<1> USE DEF ServerInv
<1>1. /\ sStatus[h] = "PROCESS" /\ h \in Completed /\ sLooper = "next"
    BY DEF Server!Process, Server!Takes, Completed, WithEvent
<1>2. sHandling[h] # NoRequest
    BY <1>1 DEF HandlersHaveOneTag, OneTag
<1>3. sHandling[h] \in Calls /\ sHandled[sHandling[h]] = 0
    BY <1>1, <1>2 DEF RequestsHaveHandlers, Server!TypeOK
<1>4. \A g \in Handlers : sStatus[g] = "PROCESS" <=> g = h
    BY <1>1 DEF OneListens, Server!OneListens
<1>5. \A g \in Handlers : sStatus[g] # "none" => sHandling[g] # NoRequest
    BY <1>2, <1>4 DEF RequestsHaveHandlers, Server!TypeOK
<1>6. \E g \in Handlers : Server!New = {g} /\ sStatus[g] = "none"
    BY <1>5, MemoryIsLeft
<1> QED BY <1>1, <1>2, <1>3, <1>4, <1>6

LEMMA ServerTypeStep ==
    ASSUME ServerInv,
           \/ Server!LooperStep \/ Server!StopperStep \/ Server!BuildService
           \/ \E h \in Handlers, c \in Calls : Server!Arrive(h, c)
           \/ \E c \in Calls : Server!ClientGoes(c)
           \/ \E h \in Handlers : Server!ReplySent(h)
    PROVE  Server!TypeOK'
<1> USE DEF ServerInv, Server!loop, Server!held, Server!requests, Server!ending,
        Server!LooperGoes, Server!StopperGoes, Server!Again
<1>0. sReady \subseteq ServerEvents /\ sStaged \subseteq Handlers
    BY DEF Server!TypeOK, ServerEvents
<1>1. ASSUME NEW h \in Handlers, NEW c \in Calls, Server!Arrive(h, c) PROVE Server!TypeOK'
    BY <1>1, EventType DEF Server!Arrive, Server!TypeOK, ServerEvents
<1>2. ASSUME NEW c \in Calls, Server!ClientGoes(c) PROVE Server!TypeOK'
    BY <1>2 DEF Server!ClientGoes, Server!TypeOK
<1>3. ASSUME NEW h \in Handlers, Server!ReplySent(h) PROVE Server!TypeOK'
    <2>1. sHandling[h] \in Calls
        BY <1>3 DEF Server!ReplySent, Server!TypeOK, HandlersHaveOneTag, OneTag, RequestsHaveHandlers
    <2> QED BY <1>3, <2>1, EventType DEF Server!ReplySent, Server!TypeOK, ServerEvents
<1>4. CASE Server!BuildService
    BY <1>4 DEF Server!BuildService, Server!TypeOK
<1>5. CASE Server!StopperStep
    <2>1. CASE Server!StopShutdown
        <3>1. \A h \in sStaged : Server!Event(h, FALSE) \in ServerEvents
            BY EventType DEF Server!TypeOK
        <3>2. sReady' \subseteq ServerEvents
            BY <1>0, <2>1, <3>1 DEF Server!StopShutdown
        <3> QED BY <2>1, <3>2 DEF Server!StopShutdown, ServerEvents, Server!TypeOK
    <2> QED BY <1>5, <2>1 DEF Server!StopperStep, Server!StopClearRunning, Server!Shut,
                              Server!ShutdownReturns, Server!StopQueue, Server!Delete,
                              Server!TypeOK
<1>6. CASE Server!Spawn
    <2>1. PICK h \in Handlers : Server!New = {h}
        <3>1. \A h \in Handlers : sStatus[h] = "none"
            BY <1>6 DEF Server!Spawn, NoHandlerYet
        <3> QED BY <3>1, MemoryIsLeft
    <2>2. sStaged' \subseteq Handlers /\ sReady' \subseteq ServerEvents
        BY <1>0, <1>6, <2>1, StageType DEF Server!Spawn
    <2> QED BY <1>6, <2>2 DEF Server!Spawn, Server!TypeOK, ServerEvents
<1>7. ASSUME NEW h \in Handlers, Server!Process(h) PROVE Server!TypeOK'
    <2>1. sHandling[h] \in Calls /\ sHandled[sHandling[h]] = 0
        BY <1>7, ProcessFinds
    <2>2. PICK g \in Handlers : Server!New = {g}
        BY <1>7, ProcessFinds
    <2>3. /\ sStatus' \in [Handlers -> {"none", "PROCESS", "FINISH"}]
          /\ sHandled' \in [Calls -> {0, 1}]
        BY <1>7, <2>1 DEF Server!Process, Server!Moved, Server!TypeOK
    <2>4. sStaged' \subseteq Handlers /\ sReady' \subseteq ServerEvents
        <3>1. Server!Stage({g}, sReady \ {Server!Event(h, TRUE)})
            BY <1>7, <2>2 DEF Server!Process
        <3>2. sReady \ {Server!Event(h, TRUE)} \in SUBSET ServerEvents
            BY <1>0
        <3> QED BY <1>0, <3>1, <3>2, StageType
    <2> QED BY <1>7, <2>3, <2>4 DEF Server!Process, Server!Sent, Server!TypeOK, ServerEvents
<1>8. ASSUME NEW h \in Handlers, Server!Abort(h) \/ Server!Destroy(h) \/ Server!BreakNotOk(h)
      PROVE  Server!TypeOK'
    BY <1>8 DEF Server!Abort, Server!Destroy, Server!BreakNotOk, Server!Takes, Server!TypeOK
<1>9. CASE \/ Server!SetRunning \/ Server!TestRunning \/ Server!Break \/ Server!SetStopped
           \/ \E e \in sReady : Server!Ignore(e)
    BY <1>9 DEF Server!SetRunning, Server!TestRunning, Server!Break, Server!SetStopped,
                Server!Ignore, Server!TypeOK
<1> QED BY <1>1, <1>2, <1>3, <1>4, <1>5, <1>6, <1>7, <1>8, <1>9 DEF Server!LooperStep

-----------------------------------------------------------------------------
\* Each step of the server, of gRPC below it and of the network keeps ServerInv.

LEMMA ArriveKeeps ==
    ASSUME ServerInv, Server!TypeOK', NEW h \in Handlers, NEW c \in Calls, Server!Arrive(h, c)
    PROVE  ServerInv'
<1> USE SystemAssumption DEF ServerInv
<1>1. Completed' = Completed \cup {h} /\ Failed' = Failed
    BY EventAdded DEF Server!Arrive, Completed, Failed
<1>2. /\ sStaged' = sStaged \ {h} /\ h \in sStaged
      /\ sHandling'[h] = c /\ \A g \in Handlers \ {h} : sHandling'[g] = sHandling[g]
      /\ \A g \in Handlers : sHandling[g] # c
      /\ sHandled[c] = 0 /\ c # NoRequest
      /\ UNCHANGED <<sReplying, sHandled, sReplied, sStatus, sLooper>>
    BY DEF Server!Arrive, Server!Given, Server!TypeOK, Server!loop, Server!ending
<1>3. HandlersHaveOneTag'
    BY <1>1, <1>2 DEF HandlersHaveOneTag, OneTag
<1>4. RequestsHaveHandlers'
    BY <1>2 DEF RequestsHaveHandlers, HandlersHaveOneTag, OneTag
<1>5. NoHandlerYet' /\ OneListens'
    BY <1>2 DEF NoHandlerYet, OneListens, Server!OneListens
<1> QED BY <1>3, <1>4, <1>5

LEMMA ReplyKeeps ==
    ASSUME ServerInv, Server!TypeOK', NEW h \in Handlers, Server!ReplySent(h)
    PROVE  ServerInv'
<1> USE DEF ServerInv
<1>1. \/ Completed' = Completed \cup {h} /\ Failed' = Failed
      \/ Completed' = Completed /\ Failed' = Failed \cup {h}
    BY EventAdded DEF Server!ReplySent, Completed, Failed
<1>2. ~(h \in Completed' /\ h \in Failed')
    <2>1. h \notin Completed /\ h \notin Failed
        BY DEF Server!ReplySent, HandlersHaveOneTag, OneTag
    <2> QED BY <1>1, <2>1
<1>3. /\ sReplying' = sReplying \ {h} /\ h \in sReplying
      /\ sReplied' \subseteq sReplied \cup {sHandling[h]}
      /\ UNCHANGED <<sStaged, sHandling, sHandled, sStatus, sLooper>>
    BY DEF Server!ReplySent, Server!loop
<1>4. sStatus[h] = "FINISH" /\ h \notin sStaged
    BY <1>3 DEF HandlersHaveOneTag, OneTag
<1>5. sHandling[h] # NoRequest /\ sHandled[sHandling[h]] = 1
    BY <1>4 DEF RequestsHaveHandlers
<1>6. ASSUME NEW g \in Handlers PROVE OneTag(g)'
    <2>1. CASE g = h
        BY <1>2, <1>3, <1>4, <1>5, <2>1 DEF OneTag
    <2>2. CASE g # h
        <3>1. OneTag(g)
            BY DEF HandlersHaveOneTag, OneTag
        <3>2. (g \in Completed' <=> g \in Completed) /\ (g \in Failed' <=> g \in Failed)
            BY <1>1, <2>2
        <3>3. g \in sReplying' => g \in sReplying
            BY <1>3
        <3> QED BY <1>3, <3>1, <3>2, <3>3 DEF OneTag
    <2> QED BY <2>1, <2>2
<1>7. RequestsHaveHandlers'
    BY <1>3, <1>5 DEF RequestsHaveHandlers
<1>8. NoHandlerYet' /\ OneListens'
    BY <1>3 DEF NoHandlerYet, OneListens, Server!OneListens
<1> QED BY <1>6, <1>7, <1>8 DEF HandlersHaveOneTag, OneTag

LEMMA SpawnKeeps ==
    ASSUME ServerInv, Server!TypeOK', Server!Spawn PROVE ServerInv'
<1> USE DEF ServerInv
<1>1. \A g \in Handlers : sStatus[g] = "none"
    BY DEF Server!Spawn, Server!LooperGoes, NoHandlerYet
<1>2. PICK h \in Handlers : Server!New = {h}
    BY <1>1, MemoryIsLeft
<1>3. /\ Server!Stage({h}, sReady)
      /\ \A g \in Handlers : sStatus'[g] = IF g = h THEN "PROCESS" ELSE "none"
      /\ UNCHANGED <<sReplying, sHandling, sHandled, sReplied>>
      /\ sLooper' = "setRunning"
    BY <1>1, <1>2 DEF Server!Spawn, Server!requests, Server!LooperGoes
<1>4. \A g \in Handlers : /\ g \notin Completed /\ g \notin Failed /\ g \notin sStaged /\ g \notin sReplying
                          /\ sHandling[g] = NoRequest
    BY <1>1 DEF HandlersHaveOneTag, OneTag, RequestsHaveHandlers
<1>5. \/ sStaged' = sStaged \cup {h} /\ Completed' = Completed /\ Failed' = Failed
      \/ sStaged' = sStaged /\ Completed' = Completed /\ Failed' = Failed \cup {h}
    BY <1>3, StageEvents DEF Completed, Failed
<1>6. /\ \A g \in Handlers : /\ g \notin Completed' /\ g \notin sReplying'
                             /\ g # h => g \notin Failed' /\ g \notin sStaged'
      /\ ~(h \in Failed' /\ h \in sStaged')
    BY <1>3, <1>4, <1>5
<1>7. ASSUME NEW g \in Handlers PROVE OneTag(g)'
    <2>1. sHandling'[g] = NoRequest /\ g \notin Completed' /\ g \notin sReplying'
        BY <1>3, <1>4, <1>6
    <2>2. CASE g = h
        BY <1>3, <1>6, <2>1, <2>2 DEF OneTag
    <2>3. CASE g # h
        BY <1>6, <2>1, <2>3 DEF OneTag
    <2> QED BY <2>2, <2>3
<1>8. RequestsHaveHandlers'
    BY <1>3, <1>4 DEF RequestsHaveHandlers
<1>9. NoHandlerYet' /\ OneListens'
    BY <1>3 DEF NoHandlerYet, OneListens, Server!OneListens
<1> QED BY <1>7, <1>8, <1>9 DEF HandlersHaveOneTag, OneTag

LEMMA ProcessKeeps ==
    ASSUME ServerInv, Server!TypeOK', NEW h \in Handlers, Server!Process(h)
    PROVE  ServerInv'
<1> USE DEF ServerInv
<1>1. /\ sStatus[h] = "PROCESS" /\ h \in Completed /\ sLooper = "next"
      /\ sHandling[h] \in Calls /\ sHandling[h] # NoRequest /\ sHandled[sHandling[h]] = 0
      /\ \A g \in Handlers : sStatus[g] = "PROCESS" <=> g = h
    BY ProcessFinds
<1>2. PICK n \in Handlers : Server!New = {n} /\ sStatus[n] = "none"
    BY ProcessFinds
<1>3. /\ Server!Stage({n}, sReady \ {Server!Event(h, TRUE)})
      /\ \A g \in Handlers : sStatus'[g] = IF g = h THEN "FINISH"
                                           ELSE IF g = n THEN "PROCESS" ELSE sStatus[g]
      /\ sHandled'[sHandling[h]] = 1
      /\ \A c \in Calls : c # sHandling[h] => sHandled'[c] = sHandled[c]
      /\ sReplying' = sReplying \cup {h}
      /\ UNCHANGED <<sHandling, sReplied>>
      /\ sLooper' \in {"next", "drain"}
    BY <1>1, <1>2 DEF Server!Process, Server!Moved, Server!Sent, Server!Again, Server!TypeOK
<1>4. n # h /\ n \notin Completed /\ n \notin Failed /\ n \notin sStaged /\ n \notin sReplying
          /\ sHandling[n] = NoRequest
    BY <1>1, <1>2 DEF HandlersHaveOneTag, OneTag, RequestsHaveHandlers
<1>5. \/ sStaged' = sStaged \cup {n} /\ Completed' = Completed \ {h} /\ Failed' = Failed
      \/ sStaged' = sStaged /\ Completed' = Completed \ {h} /\ Failed' = Failed \cup {n}
    <2> DEFINE others == sReady \ {Server!Event(h, TRUE)}
    <2>1. WithEvent(others, TRUE) = Completed \ {h} /\ WithEvent(others, FALSE) = Failed
        BY EventRemoved DEF Completed, Failed
    <2>2. /\ Completed' = WithEvent(others, TRUE)
          /\ \/ sStaged' = sStaged \cup {n} /\ Failed' = WithEvent(others, FALSE)
             \/ sStaged' = sStaged /\ Failed' = WithEvent(others, FALSE) \cup {n}
        BY <1>3, StageEvents
    <2> HIDE DEF others
    <2> QED BY <2>1, <2>2
<1>6. /\ h \notin Completed' /\ h \notin Failed' /\ h \notin sStaged'
      /\ n \notin Completed' /\ ~(n \in Failed' /\ n \in sStaged')
      /\ \A g \in Handlers \ {h, n} : /\ g \in Completed' <=> g \in Completed
                                      /\ g \in Failed' <=> g \in Failed
                                      /\ g \in sStaged' <=> g \in sStaged
    BY <1>1, <1>4, <1>5 DEF HandlersHaveOneTag, OneTag
<1>7. ASSUME NEW g \in Handlers PROVE OneTag(g)'
    <2>1. CASE g = h
        BY <1>1, <1>3, <1>6, <2>1 DEF OneTag
    <2>2. CASE g = n
        BY <1>3, <1>4, <1>6, <2>2 DEF OneTag
    <2>3. CASE g # h /\ g # n
        <3>1. OneTag(g)
            BY DEF HandlersHaveOneTag, OneTag
        <3>2. /\ g \in Completed' <=> g \in Completed
              /\ g \in Failed' <=> g \in Failed
              /\ g \in sStaged' <=> g \in sStaged
              /\ g \in sReplying' <=> g \in sReplying
              /\ sStatus'[g] = sStatus[g] /\ sHandling'[g] = sHandling[g]
            BY <1>3, <1>6, <2>3
        <3> QED BY <3>1, <3>2 DEF OneTag
    <2> QED BY <2>1, <2>2, <2>3
<1>8. RequestsHaveHandlers'
    <2>1. \A g \in Handlers : g # h /\ sHandling[g] # NoRequest
            => sHandled'[sHandling[g]] = sHandled[sHandling[g]]
        BY <1>3 DEF RequestsHaveHandlers, Server!TypeOK
    <2>2. \A c \in sReplied : sHandled'[c] = 1
        BY <1>1, <1>3 DEF RequestsHaveHandlers, Server!TypeOK
    <2>3. ASSUME NEW g \in Handlers
          PROVE  /\ sStatus'[g] = "none" => sHandling[g] = NoRequest
                 /\ sStatus'[g] = "FINISH" => sHandling[g] # NoRequest /\ sHandled'[sHandling[g]] = 1
                 /\ sStatus'[g] = "PROCESS" /\ sHandling[g] # NoRequest
                        => sHandled'[sHandling[g]] = 0
        <3>1. CASE g = h
            BY <1>1, <1>3, <3>1
        <3>2. CASE g = n
            BY <1>3, <1>4, <3>2
        <3>3. CASE g # h /\ g # n
            BY <1>3, <2>1, <3>3 DEF RequestsHaveHandlers
        <3> QED BY <3>1, <3>2, <3>3
    <2>4. ASSUME NEW g \in Handlers, g \in sReplying' PROVE sHandling[g] \notin sReplied
        BY <1>1, <1>3, <2>4 DEF RequestsHaveHandlers
    <2> QED BY <1>3, <2>2, <2>3, <2>4 DEF RequestsHaveHandlers
<1>9. NoHandlerYet' /\ OneListens'
    BY <1>1, <1>3, <1>4 DEF NoHandlerYet, OneListens, Server!OneListens
<1> QED BY <1>7, <1>8, <1>9 DEF HandlersHaveOneTag, OneTag

\* A step that takes an event out of the queue, or none, and no handler anywhere.
LEMMA QuietKeeps ==
    ASSUME ServerInv, Server!TypeOK',
           Completed' \subseteq Completed, Failed' \subseteq Failed,
           UNCHANGED <<sStaged, sReplying, sHandling, sHandled, sReplied, sStatus>>,
           sLooper' = "new" => sLooper = "new",
           sLooper' \in {"setRunning", "test", "next"}
               => sLooper \in {"setRunning", "test", "next"}
    PROVE  ServerInv'
<1> USE DEF ServerInv
<1>1. ASSUME NEW g \in Handlers PROVE OneTag(g)'
    <2>1. OneTag(g)
        BY DEF HandlersHaveOneTag, OneTag
    <2>2. (g \in Completed' => g \in Completed) /\ (g \in Failed' => g \in Failed)
        OBVIOUS
    <2> QED BY <2>1, <2>2 DEF OneTag
<1>2. RequestsHaveHandlers' /\ NoHandlerYet' /\ OneListens'
    BY DEF RequestsHaveHandlers, NoHandlerYet, OneListens, Server!OneListens
<1> QED BY <1>1, <1>2 DEF HandlersHaveOneTag, OneTag

LEMMA DestroyKeeps ==
    ASSUME ServerInv, Server!TypeOK', NEW h \in Handlers, Server!Destroy(h)
    PROVE  ServerInv'
<1> USE DEF ServerInv
<1>1. /\ sStatus[h] = "FINISH" /\ h \in Completed /\ sLooper = "next"
      /\ sStatus'[h] = "none" /\ sHandling'[h] = NoRequest
      /\ \A g \in Handlers \ {h} : sStatus'[g] = sStatus[g] /\ sHandling'[g] = sHandling[g]
      /\ UNCHANGED <<sStaged, sReplying, sHandled, sReplied>>
      /\ sLooper' \in {"next", "drain"}
    BY DEF Server!Destroy, Server!Takes, Server!Again, Server!TypeOK, Completed, WithEvent
<1>2. Completed' = Completed \ {h} /\ Failed' = Failed
    BY EventRemoved DEF Server!Destroy, Completed, Failed
<1>3. OneTag(h)
    BY DEF HandlersHaveOneTag, OneTag
<1>4. ASSUME NEW g \in Handlers PROVE OneTag(g)'
    <2>1. CASE g = h
        BY <1>1, <1>2, <1>3, <2>1 DEF OneTag
    <2>2. CASE g # h
        <3>1. OneTag(g)
            BY DEF HandlersHaveOneTag, OneTag
        <3> QED BY <1>1, <1>2, <2>2, <3>1 DEF OneTag
    <2> QED BY <2>1, <2>2
<1>5. RequestsHaveHandlers'
    BY <1>1, <1>3 DEF RequestsHaveHandlers, OneTag
<1>6. NoHandlerYet' /\ OneListens'
    BY <1>1 DEF NoHandlerYet, OneListens, Server!OneListens
<1> QED BY <1>4, <1>5, <1>6 DEF HandlersHaveOneTag, OneTag

LEMMA ShutdownKeeps ==
    ASSUME ServerInv, Server!TypeOK', Server!StopShutdown PROVE ServerInv'
<1> USE DEF ServerInv
<1>1. /\ sStaged' = {}
      /\ UNCHANGED <<sReplying, sHandling, sHandled, sReplied, sStatus, sLooper>>
    BY DEF Server!StopShutdown, Server!loop, Server!requests
<1>2. Completed' = Completed /\ Failed' = Failed \cup sStaged
    <2>1. /\ sReady' = sReady \cup {Server!Event(h, FALSE) : h \in sStaged}
          /\ sStaged \subseteq Handlers
        BY DEF Server!StopShutdown, Server!TypeOK
    <2>2. ASSUME NEW g \in Handlers
          PROVE  /\ Server!Event(g, TRUE) \in sReady' <=> Server!Event(g, TRUE) \in sReady
                 /\ Server!Event(g, FALSE) \in sReady'
                        <=> Server!Event(g, FALSE) \in sReady \/ g \in sStaged
        BY <2>1, EventsDiffer
    <2> QED BY <2>1, <2>2 DEF Completed, Failed, WithEvent
<1>3. ASSUME NEW g \in Handlers PROVE OneTag(g)'
    <2>1. OneTag(g)
        BY DEF HandlersHaveOneTag, OneTag
    <2> QED BY <1>1, <1>2, <2>1 DEF OneTag
<1>4. RequestsHaveHandlers' /\ NoHandlerYet' /\ OneListens'
    BY <1>1 DEF RequestsHaveHandlers, NoHandlerYet, OneListens, Server!OneListens
<1> QED BY <1>3, <1>4 DEF HandlersHaveOneTag, OneTag

LEMMA ServerKeeps ==
    ASSUME ServerInv,
           \/ Server!LooperStep \/ Server!StopperStep \/ Server!BuildService
           \/ \E h \in Handlers, c \in Calls : Server!Arrive(h, c)
           \/ \E c \in Calls : Server!ClientGoes(c)
           \/ \E h \in Handlers : Server!ReplySent(h)
    PROVE  ServerInv'
<1>1. Server!TypeOK'
    BY ServerTypeStep
<1> DEFINE Quiet ==
        /\ sReady' \subseteq sReady
        /\ UNCHANGED <<sStaged, sReplying, sHandling, sHandled, sReplied, sStatus>>
        /\ sLooper' = "new" => sLooper = "new"
        /\ sLooper' \in {"setRunning", "test", "next"}
               => sLooper \in {"setRunning", "test", "next"}
<1>2. ASSUME Quiet PROVE ServerInv'
    <2>1. Completed' \subseteq Completed /\ Failed' \subseteq Failed
        BY <1>2 DEF Completed, Failed, WithEvent
    <2> QED BY <1>1, <1>2, <2>1, QuietKeeps
<1>3. CASE Server!BuildService \/ \E c \in Calls : Server!ClientGoes(c)
    BY <1>2, <1>3 DEF Server!BuildService, Server!ClientGoes, Server!loop, Server!held,
                      Server!requests, Server!ending
<1>4. CASE Server!StopperStep /\ ~Server!StopShutdown
    BY <1>2, <1>4 DEF Server!StopperStep, Server!StopClearRunning, Server!ShutdownReturns,
                      Server!StopQueue, Server!Delete, Server!loop, Server!held, Server!requests
<1>5. CASE \E h \in Handlers : Server!Abort(h) \/ Server!BreakNotOk(h)
    BY <1>2, <1>5 DEF Server!Abort, Server!BreakNotOk, Server!Takes, Server!held, Server!requests
<1>6. CASE \/ Server!SetRunning \/ Server!TestRunning \/ Server!Break \/ Server!SetStopped
           \/ \E e \in sReady : Server!Ignore(e)
    BY <1>2, <1>6 DEF Server!SetRunning, Server!TestRunning, Server!Break, Server!SetStopped,
                      Server!Ignore, Server!LooperGoes, Server!Again, Server!loop, Server!held,
                      Server!requests
<1> QED BY <1>1, <1>3, <1>4, <1>5, <1>6, ArriveKeeps, ReplyKeeps, SpawnKeeps, ProcessKeeps,
           DestroyKeeps, ShutdownKeeps DEF Server!LooperStep, Server!StopperStep

-----------------------------------------------------------------------------
(***************************************************************************)
(* The system                                                              *)
(***************************************************************************)

\* A real last event of a call comes from a reply that the server has sent, and an
\* event of a failure from a call that was given up.
RepliesAreReal ==
    /\ \A e \in cReady : e.ok /\ cLeft[e.call] = 1 => e.call \in sReplied
    /\ \A e \in cReady : ~e.ok => e.call \in sGone
    /\ cSucceeded \subseteq sReplied
    /\ \A c \in Calls : cCall[c] = "destroyed" => c \in cSucceeded \cup sGone

Inv == ClientInv /\ ServerInv /\ ServerPhases /\ RepliesAreReal

LEMMA PhasesStep ==
    ASSUME ServerPhases,
           \/ Server!LooperStep \/ Server!StopperStep \/ Server!BuildService
           \/ \E h \in Handlers, c \in Calls : Server!Arrive(h, c)
           \/ \E c \in Calls : Server!ClientGoes(c)
           \/ \E h \in Handlers : Server!ReplySent(h)
    PROVE  ServerPhases'
<1> USE DEF ServerPhases, Server!ending
<1>1. CASE Server!StopperStep
    BY <1>1 DEF Server!StopperStep, Server!StopperGoes, Server!StopClearRunning,
        Server!StopShutdown, Server!ShutdownReturns, Server!StopQueue, Server!Delete
<1>2. CASE Server!BuildService
    BY <1>2 DEF Server!BuildService
<1>3. CASE Server!LooperStep
    BY <1>3 DEF Server!LooperStep, Server!Spawn, Server!Process, Server!Abort, Server!Destroy,
        Server!BreakNotOk, Server!SetRunning, Server!TestRunning, Server!Break,
        Server!SetStopped, Server!Ignore
<1>4. CASE \/ \E h \in Handlers, c \in Calls : Server!Arrive(h, c)
           \/ \E c \in Calls : Server!ClientGoes(c)
           \/ \E h \in Handlers : Server!ReplySent(h)
    BY <1>4 DEF Server!Arrive, Server!ClientGoes, Server!ReplySent
<1> QED BY <1>1, <1>2, <1>3, <1>4

LEMMA InvStep == ASSUME Inv, [Next]_vars PROVE Inv'
<1> USE DEF Inv
<1>1. ASSUME UNCHANGED cVars,
             \/ Server!LooperStep \/ Server!StopperStep \/ Server!BuildService
             \/ \E h \in Handlers, c \in Calls : Server!Arrive(h, c)
             \/ \E c \in Calls : Server!ClientGoes(c)
             \/ \E h \in Handlers : Server!ReplySent(h)
      PROVE  Inv'
    <2>1. ServerInv'
        BY <1>1, ServerKeeps
    <2>2. ClientInv'
        BY <1>1 DEF cVars, ClientInv, Client!TypeOK, CallsHaveTags, LooperState
    <2>3. sReplied \subseteq sReplied' /\ sGone \subseteq sGone'
        BY <1>1 DEF Server!LooperStep, Server!StopperStep, Server!BuildService, Server!Arrive,
            Server!ClientGoes, Server!ReplySent, Server!Spawn, Server!Process, Server!Abort,
            Server!Destroy, Server!BreakNotOk, Server!SetRunning, Server!TestRunning,
            Server!Break, Server!SetStopped, Server!Ignore, Server!StopClearRunning,
            Server!StopShutdown, Server!ShutdownReturns, Server!StopQueue, Server!Delete,
            Server!requests
    <2>4. RepliesAreReal'
        BY <1>1, <2>3 DEF cVars, RepliesAreReal
    <2>5. ServerPhases'
        BY <1>1, PhasesStep
    <2> QED BY <2>1, <2>2, <2>4, <2>5
<1>2. ASSUME UNCHANGED sVars, ClientInv', RepliesAreReal' PROVE Inv'
    <2>1. Completed' = Completed /\ Failed' = Failed
        BY <1>2 DEF sVars, Completed, Failed, WithEvent
    <2>2. Server!TypeOK'
        BY <1>2 DEF sVars, ServerInv, Server!TypeOK
    <2>3. ServerInv'
        BY <1>2, <2>1, <2>2, QuietKeeps DEF sVars
    <2>4. ServerPhases'
        BY <1>2 DEF sVars, ServerPhases
    <2> QED BY <1>2, <2>3, <2>4
<1>3. CASE ClientLooper
    <2>1. ClientInv' /\ UNCHANGED sVars
        BY <1>3, ClientLoops DEF ClientLooper
    <2>2. CASE \E e \in cReady : Client!Process(e)
        <3>1. PICK e \in cReady : Client!Process(e)
            BY <2>2
        <3>2. /\ e.call \in Calls /\ cLeft \in [Calls -> Nat]
              /\ \A d \in cReady \ {e} : d.call \in Calls /\ d.call # e.call
            BY DEF ClientInv, Client!TypeOK, CallsHaveTags
        <3>3. /\ cReady' = cReady \ {e}
              /\ \A c \in Calls : c # e.call => cLeft'[c] = cLeft[c]
              /\ cSucceeded \subseteq cSucceeded'
              /\ cSucceeded' \subseteq cSucceeded \cup {c \in {e.call} : e.ok /\ cLeft[c] = 1}
            BY <3>1, <3>2 DEF Client!Process, Client!Real
        <3>4. \A c \in Calls : cCall'[c] = "destroyed" =>
                  \/ cCall[c] = "destroyed"
                  \/ c = e.call /\ (e.ok => c \in cSucceeded')
            BY <3>1, <3>2 DEF Client!Process, Client!NotKept, Client!Real, ClientInv, Client!TypeOK
        <3>5. \A c \in Calls : cCall'[c] = "destroyed" => c \in cSucceeded' \cup sGone
            BY <3>3, <3>4 DEF RepliesAreReal, ClientInv, Client!TypeOK
        <3>6. RepliesAreReal'
            BY <2>1, <3>2, <3>3, <3>5 DEF RepliesAreReal, sVars
        <3> QED BY <1>2, <2>1, <3>6
    <2>3. CASE ~\E e \in cReady : Client!Process(e)
        <3>1. cReady' \subseteq cReady /\ UNCHANGED <<cLeft, cSucceeded, cCall>>
            BY <1>3, <2>3 DEF ClientLooper, Client!LooperStep, Client!SetRunning,
                Client!ClearStopped, Client!Break, Client!ShutdownQueue, Client!SetStopped,
                Client!Ignore, Client!ops, Client!objects
        <3>2. RepliesAreReal'
            BY <2>1, <3>1 DEF RepliesAreReal, sVars
        <3> QED BY <1>2, <2>1, <3>2
    <2> QED BY <2>2, <2>3
<1>4. ASSUME ClientStopper \/ \E c \in Calls : AddCall(c) PROVE Inv'
    <2>1. ClientInv' /\ UNCHANGED sVars
        BY <1>4, ClientIsStopped, ClientAdds DEF ClientStopper, AddCall
    <2>2. /\ UNCHANGED <<cReady, cLeft, cSucceeded>>
          /\ \A c \in Calls : cCall'[c] = "destroyed" => cCall[c] = "destroyed"
        BY <1>4 DEF ClientInv, Client!TypeOK, ClientStopper, AddCall, Client!StopperStep, Client!StopShutdown,
            Client!StopClearRunning, Client!StopReturns, Client!AddCall, Client!ops,
            Client!objects
    <2>3. RepliesAreReal'
        BY <2>1, <2>2 DEF RepliesAreReal, sVars
    <2> QED BY <1>2, <2>1, <2>3
<1>5. ASSUME NEW c \in Calls, Progress(c) \/ Reply(c) \/ Fail(c) PROVE Inv'
    <2>1. PICK ok \in BOOLEAN :
            /\ Client!Complete(c, ok) /\ UNCHANGED sVars
            /\ ok /\ cLeft[c] = 1 => c \in sReplied
            /\ ~ok => c \in sGone
        <3>1. CASE Progress(c)
            <4>1. cLeft[c] \in Nat /\ cLeft[c] > 1
                BY <3>1 DEF Progress, ClientInv, Client!TypeOK
            <4>2. ~(cLeft[c] = 1)
                BY <4>1
            <4> QED BY <3>1, <4>2 DEF Progress
        <3>2. CASE Reply(c)
            BY <3>2 DEF Reply
        <3>3. CASE Fail(c)
            BY <3>3 DEF Fail
        <3> QED BY <1>5, <3>1, <3>2, <3>3
    <2>2. ClientInv'
        BY <2>1, ClientCompletes
    <2>3. /\ cReady' = cReady \cup {[call |-> c, ok |-> ok]}
          /\ UNCHANGED <<cLeft, cSucceeded, cCall, sReplied, sGone>>
        BY <2>1 DEF Client!Complete, Client!objects, sVars
    <2>4. RepliesAreReal'
        BY <2>1, <2>3 DEF RepliesAreReal
    <2> QED BY <1>2, <2>1, <2>2, <2>4
<1>6. CASE UNCHANGED vars
    <2>1. ClientInv' /\ RepliesAreReal' /\ UNCHANGED sVars
        BY <1>6 DEF vars, cVars, sVars, ClientInv, Client!TypeOK, CallsHaveTags, LooperState,
                    RepliesAreReal
    <2> QED BY <1>2, <2>1
<1> QED BY <1>1, <1>3, <1>4, <1>5, <1>6
        DEF Next, Network, Arrive, Cancel, Unavailable, ReplySent, ServerLooper, ServerStopper, BuildService,
            StartAgain

LEMMA InitHolds == Init => Inv
<1> SUFFICES ASSUME Init PROVE Inv
    OBVIOUS
<1> USE SystemAssumption DEF Init, Client!Init, Server!Init
<1>1. ClientInv
    <2>1. ASSUME NEW c \in Calls PROVE cLeft[c] \in Nat /\ cLeft[c] > 0
        <3>1. Events[c] \in Nat \ {0} /\ cLeft = Events
            OBVIOUS
        <3>2. Events[c] \in Nat /\ Events[c] > 0
            BY <3>1, SMT
        <3> QED BY <3>1, <3>2
    <2>2. Client!TypeOK
        BY <2>1 DEF Client!TypeOK
    <2>3. CallsHaveTags
        BY <2>1 DEF CallsHaveTags
    <2>4. LooperState
        BY DEF LooperState
    <2> QED BY <2>2, <2>3, <2>4 DEF ClientInv
<1>2. Server!TypeOK
    BY DEF Server!TypeOK
<1>3. HandlersHaveOneTag
    BY DEF HandlersHaveOneTag, OneTag, Completed, Failed, WithEvent
<1>4. RequestsHaveHandlers /\ NoHandlerYet /\ OneListens
    BY DEF RequestsHaveHandlers, NoHandlerYet, OneListens, Server!OneListens
<1>5. RepliesAreReal /\ ServerPhases
    BY DEF RepliesAreReal, ServerPhases
<1> QED BY <1>1, <1>2, <1>3, <1>4, <1>5 DEF Inv, ServerInv

LEMMA InvHolds == Spec => []Inv
<1>1. Inv /\ [Next]_vars => Inv'
    BY InvStep
<1> QED BY <1>1, InitHolds, PTL DEF Spec

-----------------------------------------------------------------------------
\* Every variable of both sides keeps its type; that there is memory for the next
\* handler, and that no request is processed twice, is part of it.
THEOREM TypeCorrect == Spec => []TypeOK
<1>1. Inv => TypeOK
    BY DEF Inv, ClientInv, ServerInv, TypeOK
<1> QED BY <1>1, InvHolds, PTL

\* The completion queue of the client holds calls that still exist, one tag each,
\* and only the drain loses one.
THEOREM QueueCorrect == Spec => []QueueHoldsLiveCalls
<1>1. Inv => QueueHoldsLiveCalls
    BY DEF Inv, ClientInv, CallsHaveTags, QueueHoldsLiveCalls, Client!QueueHoldsLiveCalls
<1> QED BY <1>1, InvHolds, PTL

\* A stop() of the client that found start() under way returns at the end of it.
THEOREM StopCorrect == Spec => []StopWaitsForDrain
<1>1. Inv => StopWaitsForDrain
    BY DEF Inv, ClientInv, LooperState, StopWaitsForDrain, Client!StopWaitsForDrain
<1> QED BY <1>1, InvHolds, PTL

\* gRPC and the queue of the server hold handlers that still exist, one tag each:
\* the loop never uses a handler that deleted itself.
THEOREM TagsCorrect == Spec => []TagsAreAlive
<1>1. ASSUME Inv, NEW h \in Handlers
      PROVE  LET tags == (IF h \in sStaged THEN 1 ELSE 0) + (IF h \in sReplying THEN 1 ELSE 0)
                         + (IF Server!Event(h, TRUE) \in sReady THEN 1 ELSE 0)
                         + (IF Server!Event(h, FALSE) \in sReady THEN 1 ELSE 0)
             IN  tags <= 1 /\ (tags = 1 => sStatus[h] # "none")
    <2> DEFINE done == Server!Event(h, TRUE) \in sReady
               failed == Server!Event(h, FALSE) \in sReady
               Tag(b) == IF b THEN 1 ELSE 0
    <2>1. /\ h \in Completed <=> done
          /\ h \in Failed <=> failed
          /\ sStatus[h] = "none" => sHandling[h] = NoRequest
          /\ OneTag(h)
        BY <1>1 DEF Inv, ServerInv, HandlersHaveOneTag, OneTag, Completed, Failed, WithEvent,
                    RequestsHaveHandlers
    <2>2. /\ h \in sStaged => h \notin sReplying /\ ~done /\ ~failed
          /\ h \in sReplying => ~done /\ ~failed
          /\ ~(done /\ failed)
          /\ h \in sStaged \/ h \in sReplying \/ done \/ failed => sStatus[h] # "none"
        BY <2>1 DEF OneTag
    <2> HIDE DEF done, failed
    <2>3. LET tags == Tag(h \in sStaged) + Tag(h \in sReplying) + Tag(done) + Tag(failed)
          IN  tags <= 1 /\ (tags = 1 => sStatus[h] # "none")
        BY <2>2
    <2> QED BY <2>3 DEF done, failed
<1>2. Inv => TagsAreAlive
    BY <1>1 DEF TagsAreAlive, Server!TagsAreAlive
<1> QED BY <1>2, InvHolds, PTL

\* In its loop the server always has exactly one handler for the next request.
THEOREM ListenerCorrect == Spec => []OneListens
<1>1. Inv => OneListens
    BY DEF Inv, ServerInv
<1> QED BY <1>1, InvHolds, PTL

\* End to end: a request is processed at most once, and a reply that the client
\* took for real comes from a handler that processed its request exactly once.
THEOREM RepliesCorrect == Spec => []RepliesComeFromHandlers
<1>1. ASSUME Inv PROVE RepliesComeFromHandlers
    <2>1. ASSUME NEW c \in Calls PROVE sHandled[c] <= 1
        <3>1. sHandled[c] \in {0, 1}
            BY <1>1 DEF Inv, ServerInv, Server!TypeOK
        <3> QED BY <3>1
    <2>2. \A c \in cSucceeded : c \in sReplied /\ sHandled[c] = 1
        BY <1>1 DEF Inv, RepliesAreReal, ServerInv, RequestsHaveHandlers
    <2>3. \A c \in Calls : cCall[c] = "destroyed" => c \in cSucceeded \cup sGone
        BY <1>1 DEF Inv, RepliesAreReal
    <2> QED BY <2>1, <2>2, <2>3 DEF RepliesComeFromHandlers
<1> QED BY <1>1, InvHolds, PTL

-----------------------------------------------------------------------------
(***************************************************************************)
(* No call is stranded                                                     *)
(***************************************************************************)

\* A reply is on its way until the request is answered or given up, and no request
\* is forgotten before; while the server is in its loop, a handler that has still to
\* process one is staged or has an event to come back with.
RequestsAreCarried ==
    /\ sUp = "none" => sLooper = "new"
    /\ \A h \in Handlers : h \in Completed /\ sStatus[h] = "FINISH" => sHandling[h] \in sReplied
    /\ \A c \in Calls : sHandled[c] = 1 =>
           c \in sReplied \cup sGone \/ \E h \in Handlers : sHandling[h] = c
    /\ \A h \in Handlers :
        sStatus[h] = "FINISH" => h \in sReplying \/ sHandling[h] \in sReplied \cup sGone
    /\ ~ServerLeft => \A h \in Handlers :
        /\ sStatus[h] = "PROCESS" /\ sHandling[h] # NoRequest => h \in Completed
        /\ sStatus[h] = "PROCESS" /\ sHandling[h] = NoRequest /\ sUp = "up" => h \in sStaged

LEMMA CarriedByArrive ==
    ASSUME ServerInv, RequestsAreCarried, NEW h \in Handlers, NEW c \in Calls,
           Server!Arrive(h, c)
    PROVE  RequestsAreCarried'
<1> USE SystemAssumption
<1>1. Completed' = Completed \cup {h}
    BY EventAdded DEF Server!Arrive, Completed
<1>2. /\ sStaged' = sStaged \ {h} /\ sHandling'[h] = c
      /\ sStatus[h] = "PROCESS" /\ sHandling[h] = NoRequest
      /\ \A g \in Handlers \ {h} : sHandling'[g] = sHandling[g]
      /\ UNCHANGED <<sReplying, sHandled, sReplied, sGone, sStatus, sLooper, sUp>>
    BY DEF Server!Arrive, Server!loop, Server!ending, ServerInv, Server!TypeOK,
           HandlersHaveOneTag, OneTag
<1> QED BY <1>1, <1>2 DEF RequestsAreCarried, ServerLeft

LEMMA CarriedByReply ==
    ASSUME ServerInv, RequestsAreCarried, NEW h \in Handlers, Server!ReplySent(h)
    PROVE  RequestsAreCarried'
<1> DEFINE ok == sHandling[h] \notin sGone
<1>1. Completed' = IF ok THEN Completed \cup {h} ELSE Completed
    BY EventAdded DEF Server!ReplySent, Completed
<1>2. /\ sReplying' = sReplying \ {h} /\ sStatus[h] = "FINISH"
      /\ sReplied' = IF ok THEN sReplied \cup {sHandling[h]} ELSE sReplied
      /\ UNCHANGED <<sStaged, sHandling, sHandled, sGone, sStatus, sLooper, sUp>>
    BY DEF Server!ReplySent, Server!loop, Server!ending, ServerInv, HandlersHaveOneTag, OneTag
<1> QED BY <1>1, <1>2 DEF RequestsAreCarried, ServerLeft

LEMMA CarriedBySpawn ==
    ASSUME ServerInv, RequestsAreCarried, Server!Spawn PROVE RequestsAreCarried'
<1>1. \A g \in Handlers : sStatus[g] = "none" /\ sHandling[g] = NoRequest /\ g \notin Completed
    BY DEF Server!Spawn, Server!LooperGoes, ServerInv, NoHandlerYet, RequestsHaveHandlers,
           HandlersHaveOneTag, OneTag
<1>2. PICK h \in Handlers : Server!New = {h}
    BY <1>1, MemoryIsLeft DEF ServerInv
<1>3. /\ Server!Stage({h}, sReady)
      /\ \A g \in Handlers : sStatus'[g] = IF g = h THEN "PROCESS" ELSE "none"
      /\ UNCHANGED <<sReplying, sHandling, sHandled, sReplied, sGone, sUp>>
      /\ sUp # "none"
    BY <1>1, <1>2 DEF Server!Spawn, Server!requests, Server!ending
<1>4. Completed' = Completed
    BY <1>3, StageEvents DEF Completed
<1>5. sUp = "up" => h \in sStaged'
    BY <1>3 DEF Server!Stage
<1> QED BY <1>1, <1>3, <1>4, <1>5 DEF RequestsAreCarried

LEMMA CarriedByProcess ==
    ASSUME ServerInv, RequestsAreCarried, NEW h \in Handlers, Server!Process(h)
    PROVE  RequestsAreCarried'
<1>1. /\ sStatus[h] = "PROCESS" /\ sLooper = "next" /\ sHandling[h] \in Calls
      /\ \A g \in Handlers : sStatus[g] = "PROCESS" <=> g = h
    BY ProcessFinds
<1>2. PICK n \in Handlers : Server!New = {n} /\ sStatus[n] = "none"
    BY ProcessFinds
<1>3. /\ Server!Stage({n}, sReady \ {Server!Event(h, TRUE)})
      /\ \A g \in Handlers : sStatus'[g] = IF g = h THEN "FINISH"
                                           ELSE IF g = n THEN "PROCESS" ELSE sStatus[g]
      /\ \A c \in Calls : sHandled'[c] = 1 => c = sHandling[h] \/ sHandled[c] = 1
      /\ sReplying' = sReplying \cup {h}
      /\ UNCHANGED <<sHandling, sReplied, sGone, sUp>>
    BY <1>1, <1>2 DEF Server!Process, Server!Moved, Server!Sent, Server!ending,
                      ServerInv, Server!TypeOK
<1>4. sHandling[n] = NoRequest /\ n # h
    BY <1>1, <1>2 DEF ServerInv, RequestsHaveHandlers
<1>5. Completed' = Completed \ {h}
    <2>1. Completed' = WithEvent(sReady \ {Server!Event(h, TRUE)}, TRUE)
        BY <1>3, StageEvents
    <2> QED BY <2>1, EventRemoved DEF Completed
<1>6. sUp = "up" => n \in sStaged'
    BY <1>3 DEF Server!Stage
<1>7. ~ServerLeft /\ sUp # "none"
    BY <1>1 DEF ServerLeft, RequestsAreCarried
<1> QED BY <1>1, <1>3, <1>4, <1>5, <1>6, <1>7 DEF RequestsAreCarried

LEMMA CarriedByDestroy ==
    ASSUME ServerInv, RequestsAreCarried, NEW h \in Handlers, Server!Destroy(h)
    PROVE  RequestsAreCarried'
<1>1. /\ sStatus[h] = "FINISH" /\ h \in Completed /\ sLooper = "next"
      /\ sStatus'[h] = "none" /\ sHandling'[h] = NoRequest
      /\ \A g \in Handlers \ {h} : sStatus'[g] = sStatus[g] /\ sHandling'[g] = sHandling[g]
      /\ UNCHANGED <<sStaged, sReplying, sHandled, sReplied, sGone, sUp>>
    BY DEF Server!Destroy, Server!Takes, Server!ending, ServerInv, Server!TypeOK, Completed,
           WithEvent
<1>2. Completed' = Completed \ {h}
    BY EventRemoved DEF Server!Destroy, Completed
<1>3. ~ServerLeft /\ sUp # "none" /\ sHandling[h] \in sReplied
    BY <1>1 DEF ServerLeft, RequestsAreCarried
<1> QED BY <1>1, <1>2, <1>3 DEF RequestsAreCarried

\* A step that leaves the handlers and their requests alone.
LEMMA CarriedByQuiet ==
    ASSUME RequestsAreCarried,
           UNCHANGED <<sReplying, sHandling, sHandled, sReplied, sStatus>>,
           sGone \subseteq sGone', Completed' \subseteq Completed,
           ~ServerLeft' => ~ServerLeft /\ Completed' = Completed,
           sUp' = "up" => sUp = "up" /\ sStaged' = sStaged,
           sUp' = "none" => sUp = "none" /\ sLooper' = sLooper
    PROVE  RequestsAreCarried'
    BY DEF RequestsAreCarried

LEMMA CarriedByServer ==
    ASSUME ServerInv, ServerPhases, RequestsAreCarried,
           \/ Server!LooperStep \/ Server!StopperStep \/ Server!BuildService
           \/ \E h \in Handlers, c \in Calls : Server!Arrive(h, c)
           \/ \E c \in Calls : Server!ClientGoes(c)
           \/ \E h \in Handlers : Server!ReplySent(h)
    PROVE  RequestsAreCarried'
<1>1. ASSUME sReady' \subseteq sReady,
             UNCHANGED <<sStaged, sReplying, sHandling, sHandled, sReplied, sStatus>>,
             sGone \subseteq sGone',
             ~ServerLeft' => ~ServerLeft /\ sReady' = sReady,
             sUp' = "up" => sUp = "up",
             sUp' = "none" => sUp = "none" /\ sLooper' = sLooper
      PROVE  RequestsAreCarried'
    <2>1. /\ Completed' \subseteq Completed
          /\ sReady' = sReady => Completed' = Completed
        BY <1>1 DEF Completed, WithEvent
    <2> QED BY <1>1, <2>1, CarriedByQuiet
<1>2. CASE \E c \in Calls : Server!ClientGoes(c)
    BY <1>1, <1>2 DEF Server!ClientGoes, Server!loop, Server!held, Server!ending, ServerLeft
<1>3. CASE Server!BuildService
    <2>1. sUp = "none" /\ sLooper = "new" /\ sUp' = "up"
          /\ UNCHANGED <<sHandled, sHandling, sStatus, sReplied, sGone, sReady>>
        BY <1>3 DEF Server!BuildService, RequestsAreCarried, Server!held, Server!requests
    <2>2. Completed' = Completed /\ \A g \in Handlers : sStatus[g] = "none"
        BY <2>1 DEF Completed, ServerInv, NoHandlerYet
    <2> QED BY <2>1, <2>2 DEF RequestsAreCarried
<1>4. CASE Server!StopShutdown
    <2>1. /\ UNCHANGED <<sReplying, sHandling, sHandled, sReplied, sStatus, sGone, sLooper>>
          /\ sUp' = "closing"
        BY <1>4 DEF Server!StopShutdown, Server!loop, Server!requests
    <2>2. Completed' = Completed
        <3>1. ASSUME NEW g \in Handlers
              PROVE  Server!Event(g, TRUE) \in sReady' <=> Server!Event(g, TRUE) \in sReady
            <4>1. /\ sReady' = sReady \cup {Server!Event(h, FALSE) : h \in sStaged}
                  /\ sStaged \subseteq Handlers
                BY <1>4 DEF Server!StopShutdown, ServerInv, Server!TypeOK
            <4> QED BY <4>1, EventsDiffer
        <3> QED BY <3>1 DEF Completed, WithEvent
    <2> QED BY <2>1, <2>2, CarriedByQuiet DEF ServerLeft
<1>5. CASE Server!StopperStep /\ ~Server!StopShutdown
    BY <1>1, <1>5 DEF Server!StopperStep, Server!StopperGoes, Server!StopClearRunning,
        Server!ShutdownReturns, Server!StopQueue, Server!Delete, Server!loop, Server!held,
        Server!requests, ServerLeft, ServerPhases
<1>6. CASE \/ Server!SetRunning \/ Server!TestRunning \/ Server!Break \/ Server!SetStopped
           \/ \E h \in Handlers : Server!Abort(h) \/ Server!BreakNotOk(h)
           \/ \E e \in sReady : Server!Ignore(e)
    <2>1. sLooper # "new" /\ sUp # "none"
        BY <1>6 DEF Server!SetRunning, Server!TestRunning, Server!Break, Server!SetStopped,
            Server!Abort, Server!BreakNotOk, Server!Ignore, Server!LooperGoes, Server!Takes,
            RequestsAreCarried
    <2> QED BY <1>1, <1>6, <2>1 DEF Server!SetRunning, Server!TestRunning, Server!Break,
            Server!SetStopped, Server!Abort, Server!BreakNotOk, Server!Ignore, Server!LooperGoes,
            Server!Takes, Server!Again, Server!loop, Server!held, Server!requests,
            Server!ending, ServerLeft
<1> QED BY <1>2, <1>3, <1>4, <1>5, <1>6, CarriedByArrive, CarriedByReply, CarriedBySpawn,
           CarriedByProcess, CarriedByDestroy DEF Server!LooperStep, Server!StopperStep

LEMMA CarriedHolds == Spec => []RequestsAreCarried
<1>1. Init => RequestsAreCarried
    <2> SUFFICES ASSUME Init PROVE RequestsAreCarried
        OBVIOUS
    <2> USE DEF Init, Server!Init
    <2>1. Completed = {} /\ \A c \in Calls : sHandled[c] = 0
        BY DEF Completed, WithEvent
    <2>2. \A h \in Handlers : sStatus[h] = "none"
        OBVIOUS
    <2> QED BY <2>1, <2>2 DEF RequestsAreCarried
<1>2. Inv /\ RequestsAreCarried /\ [Next]_vars => RequestsAreCarried'
    <2> SUFFICES ASSUME Inv, RequestsAreCarried, [Next]_vars PROVE RequestsAreCarried'
        OBVIOUS
    <2>1. CASE UNCHANGED sVars
        <3>1. Completed' = Completed
            BY <2>1 DEF sVars, Completed, WithEvent
        <3> QED BY <2>1, <3>1 DEF sVars, RequestsAreCarried, ServerLeft
    <2>2. CASE \/ Server!LooperStep \/ Server!StopperStep \/ Server!BuildService
               \/ \E h \in Handlers, c \in Calls : Server!Arrive(h, c)
               \/ \E c \in Calls : Server!ClientGoes(c)
               \/ \E h \in Handlers : Server!ReplySent(h)
        BY <2>2, CarriedByServer DEF Inv
    <2> QED BY <2>1, <2>2 DEF Next, Network, Arrive, Progress, Reply, Fail, Cancel, Unavailable,
            ReplySent, ServerLooper, ServerStopper, BuildService, StartAgain, ClientLooper,
            ClientStopper, AddCall, vars
<1> QED BY <1>1, <1>2, InvHolds, PTL DEF Spec

\* While the server is up and in its loop, every call in flight is answered, given
\* up, with a handler that will be called again, or has one to go to; and at any
\* time, also in the drain, nothing but a request that was never processed keeps
\* Shutdown() waiting for more than the network.
THEOREM NoneStranded == Spec => []NoCallIsStranded
<1>1. ASSUME Inv, RequestsAreCarried, NEW c \in Server!Given \ (sGone \cup sReplied)
      PROVE  Deserted(c) \/ \E h \in sReplying : sHandling[h] = c
    <2>1. PICK h \in Handlers : sHandling[h] = c /\ c # NoRequest
        BY <1>1 DEF Server!Given
    <2>2. CASE sStatus[h] = "FINISH"
        BY <1>1, <2>1, <2>2 DEF RequestsAreCarried
    <2>3. CASE sStatus[h] # "FINISH"
        <3>1. sStatus[h] = "PROCESS"
            BY <1>1, <2>1, <2>3 DEF Inv, ServerInv, Server!TypeOK, RequestsHaveHandlers
        <3>2. sHandled[c] = 0
            BY <1>1, <2>1, <3>1 DEF Inv, ServerInv, RequestsHaveHandlers
        <3> QED BY <1>1, <3>2 DEF Deserted, Unprocessed
    <2> QED BY <2>2, <2>3
<1>2. ASSUME Inv, RequestsAreCarried PROVE NoCallIsStranded
    <2> SUFFICES ASSUME NEW c \in cPending \ (sGone \cup sReplied),
                        sUp = "up", sLooper # "new", ~ServerLeft
                 PROVE  Carried(c) \/ (c \notin Server!Given /\ sHandled[c] = 0 /\ Expected)
        BY <1>1, <1>2 DEF NoCallIsStranded
    <2> USE SystemAssumption
    <2>1. c \in Calls /\ c # NoRequest /\ sHandled[c] \in {0, 1}
        BY <1>2 DEF Inv, ClientInv, Client!TypeOK, ServerInv, Server!TypeOK
    <2>2. ASSUME NEW h \in Handlers, sHandling[h] = c PROVE Carried(c)
        <3>1. sStatus[h] \in {"PROCESS", "FINISH"}
            BY <1>2, <2>1, <2>2 DEF Inv, ServerInv, RequestsHaveHandlers, Server!TypeOK
        <3>2. h \in sReplying \/ h \in Completed
            BY <1>2, <2>1, <2>2, <3>1 DEF RequestsAreCarried
        <3> QED BY <2>2, <3>2 DEF Carried, Completed, WithEvent
    <2>3. CASE \A h \in Handlers : sHandling[h] # c
        <3>1. c \notin Server!Given /\ sHandled[c] = 0
            BY <1>2, <2>1, <2>3 DEF Server!Given, RequestsAreCarried
        <3>2. PICK h \in Handlers : sStatus[h] = "PROCESS"
            <4>1. sLooper \in {"setRunning", "test", "next"}
                BY <1>2 DEF ServerLeft, Inv, ServerInv, Server!TypeOK
            <4> QED BY <1>2, <4>1 DEF Inv, ServerInv, OneListens, Server!OneListens
        <3>3. h \in sStaged \/ h \in Completed
            BY <1>2, <3>2 DEF RequestsAreCarried
        <3> QED BY <3>1, <3>2, <3>3 DEF Expected, Completed, WithEvent
    <2> QED BY <2>2, <2>3
<1> QED BY <1>2, InvHolds, CarriedHolds, PTL

-----------------------------------------------------------------------------
(***************************************************************************)
(* What the two stop() wait for                                            *)
(***************************************************************************)

\* A stop() of the client that polls has the queue shut and a loop that is on its way
\* to the end, or the end; a server that goes down holds no handler for a request
\* that will not come; and the queue that its loop and its destructor drain is shut.
StopsAreHeard ==
    /\ cStopper = "polling" =>
           cStopped \/ (cQueueShut /\ cLooper \in {"next", "shutdown", "drain"})
    /\ sUp \in {"closing", "down"} => sStaged = {}
    /\ sStopper \in {"returned", "deleted"} => sQueueShut

HearingInv ==
    /\ ~cStopped => cLooper \in {"next", "shutdown", "drain"}
    /\ cStopper # "new" => cQueueShut
    /\ sUp \in {"closing", "down"} => sStaged = {}
    /\ sStopper \in {"returned", "deleted"} => sQueueShut

LEMMA ClientHears ==
    ASSUME HearingInv, UNCHANGED sVars,
           \/ Client!LooperStep \/ Client!StopperStep
           \/ \E c \in Calls : Client!AddCall(c) \/ \E ok \in BOOLEAN : Client!Complete(c, ok)
    PROVE  HearingInv'
<1> USE DEF HearingInv, sVars, Client!LooperGoes, Client!StopperGoes, Client!loop, Client!ending
<1>1. CASE Client!LooperStep
    BY <1>1 DEF Client!LooperStep, Client!SetRunning, Client!ClearStopped, Client!Again,
                Client!Break, Client!ShutdownQueue, Client!SetStopped, Client!Process,
                Client!Ignore
<1>2. CASE Client!StopperStep
    BY <1>2 DEF Client!StopperStep, Client!StopShutdown, Client!StopClearRunning,
                Client!StopReturns
<1>3. CASE \E c \in Calls : Client!AddCall(c) \/ \E ok \in BOOLEAN : Client!Complete(c, ok)
    BY <1>3 DEF Client!AddCall, Client!Complete
<1> QED BY <1>1, <1>2, <1>3

LEMMA ServerHears ==
    ASSUME HearingInv, ServerPhases, UNCHANGED cVars,
           \/ Server!LooperStep \/ Server!StopperStep \/ Server!BuildService
           \/ \E h \in Handlers, c \in Calls : Server!Arrive(h, c)
           \/ \E c \in Calls : Server!ClientGoes(c)
           \/ \E h \in Handlers : Server!ReplySent(h)
    PROVE  HearingInv'
<1> USE DEF HearingInv, cVars, Server!loop, Server!held, Server!ending
<1>1. CASE Server!LooperStep
    BY <1>1 DEF Server!LooperStep, Server!Spawn, Server!Stage, Server!Process, Server!Abort,
                Server!Destroy, Server!BreakNotOk, Server!SetRunning, Server!TestRunning,
                Server!Break, Server!SetStopped, Server!Ignore
<1>2. CASE Server!StopperStep
    BY <1>2 DEF Server!StopperStep, Server!StopperGoes, Server!StopClearRunning,
                Server!StopShutdown, Server!ShutdownReturns, Server!StopQueue, Server!Shut,
                Server!Delete, ServerPhases
<1>3. CASE Server!BuildService
    BY <1>3 DEF Server!BuildService
<1>4. CASE \/ \E h \in Handlers, c \in Calls : Server!Arrive(h, c)
           \/ \E c \in Calls : Server!ClientGoes(c)
           \/ \E h \in Handlers : Server!ReplySent(h)
    BY <1>4 DEF Server!Arrive, Server!ClientGoes, Server!ReplySent
<1> QED BY <1>1, <1>2, <1>3, <1>4

\* All that the polling of the client waits for are calls in flight and their events,
\* and all that the loop of a server that went down and its destructor wait for are
\* events and replies under way; what Shutdown() waits for is in NoneStranded.
THEOREM StopsHeard == Spec => []StopsAreHeard
<1>1. Init => HearingInv
    BY DEF Init, Client!Init, Server!Init, HearingInv
<1>2. ASSUME Inv, HearingInv, [Next]_vars PROVE HearingInv'
    <2> USE <1>2
    <2>1. CASE ClientLooper \/ ClientStopper \/ \E c \in Calls : AddCall(c) \/ Progress(c) \/ Reply(c) \/ Fail(c)
        BY <2>1, ClientHears DEF ClientLooper, ClientStopper, AddCall, Progress, Reply, Fail
    <2>2. CASE \/ ServerLooper \/ ServerStopper \/ BuildService
               \/ \E c \in Calls : Arrive(c) \/ Cancel(c) \/ Unavailable(c)
               \/ \E h \in Handlers : ReplySent(h)
        BY <2>2, ServerHears DEF ServerLooper, ServerStopper, BuildService, Arrive, Cancel,
            Unavailable, ReplySent, Inv
    <2>3. CASE UNCHANGED vars
        BY <2>3 DEF vars, cVars, sVars, HearingInv
    <2> QED BY <2>1, <2>2, <2>3 DEF Next, Network, StartAgain
<1>3. HearingInv => StopsAreHeard
    BY DEF HearingInv, StopsAreHeard
<1> QED BY <1>1, <1>2, <1>3, InvHolds, PTL DEF Spec

-----------------------------------------------------------------------------
(***************************************************************************)
(* When the server aborts                                                  *)
(***************************************************************************)

\* The loop aborts the process only in the end of stop(), over a request whose client
\* has gone.
AbortsAreExcused ==
    sLooper = "aborted" => sStopper = "returned" /\ \E c \in Calls : AbortedBy(c)

AbortInv ==
    /\ sQueueShut <=> sStopper \in {"returned", "deleted"}
    /\ sStopper = "deleted" => sLooper \in {"new", "ended"}
    /\ sUp = "down" => Server!Given \subseteq (sReplied \cup sGone)
    /\ sLooper = "aborted" =>
           /\ sStopper = "returned" /\ sUp = "down"
           /\ \E h \in Handlers : sStatus[h] = "PROCESS" /\ sHandling[h] # NoRequest

LEMMA AbortStep ==
    ASSUME ServerInv, ServerPhases, AbortInv,
           \/ Server!LooperStep \/ Server!StopperStep \/ Server!BuildService
           \/ \E h \in Handlers, c \in Calls : Server!Arrive(h, c)
           \/ \E c \in Calls : Server!ClientGoes(c)
           \/ \E h \in Handlers : Server!ReplySent(h)
    PROVE  AbortInv'
<1> USE DEF AbortInv, Server!loop, Server!held, Server!requests, Server!ending
<1>1. ASSUME UNCHANGED <<sHandling, sStatus, sUp, sQueueShut, sStopper>>,
             sReplied \subseteq sReplied', sGone \subseteq sGone',
             sLooper' = "aborted" => sLooper = "aborted",
             sLooper' = sLooper \/ sLooper \notin {"new", "ended"}
      PROVE  AbortInv'
    BY <1>1 DEF Server!Given
<1>2. CASE \/ \E c \in Calls : Server!ClientGoes(c)
           \/ \E h \in Handlers : Server!ReplySent(h)
    BY <1>1, <1>2 DEF Server!ClientGoes, Server!ReplySent
<1>3. CASE \/ Server!SetRunning \/ Server!TestRunning \/ Server!Break \/ Server!SetStopped
           \/ \E h \in Handlers : Server!BreakNotOk(h)
           \/ \E e \in sReady : Server!Ignore(e)
    BY <1>1, <1>3 DEF Server!SetRunning, Server!TestRunning, Server!Break, Server!SetStopped,
        Server!BreakNotOk, Server!Ignore, Server!LooperGoes, Server!Takes, Server!Again
<1>4. CASE Server!Spawn \/ \E h \in Handlers : Server!Process(h)
    <2>1. /\ UNCHANGED <<sUp, sQueueShut, sStopper, sHandling, sReplied, sGone>>
          /\ sLooper' # "aborted" /\ ~sQueueShut
        BY <1>4 DEF Server!Spawn, Server!Process, Server!LooperGoes, Server!Again
    <2> QED BY <2>1 DEF Server!Given
<1>5. ASSUME NEW h \in Handlers, Server!Destroy(h) PROVE AbortInv'
    <2>1. /\ UNCHANGED <<sUp, sQueueShut, sStopper, sReplied, sGone>>
          /\ sLooper' # "aborted" /\ sLooper = "next" /\ sHandling' = [sHandling EXCEPT ![h] = NoRequest]
        BY <1>5 DEF Server!Destroy, Server!Takes, Server!Again
    <2>2. \A g \in Handlers : sHandling'[g] \in {sHandling[g], NoRequest}
        BY <2>1 DEF ServerInv, Server!TypeOK
    <2>3. Server!Given' \subseteq Server!Given
        BY <2>2 DEF Server!Given
    <2> QED BY <2>1, <2>3
<1>6. ASSUME NEW h \in Handlers, Server!Abort(h) PROVE AbortInv'
    <2>1. /\ UNCHANGED <<sUp, sQueueShut, sStopper, sHandling, sStatus, sReplied, sGone>>
          /\ sQueueShut /\ sStatus[h] = "PROCESS" /\ h \in Completed /\ sLooper = "next"
        BY <1>6 DEF Server!Abort, Server!Takes, Completed, WithEvent
    <2>2. sHandling[h] # NoRequest
        BY <2>1 DEF ServerInv, HandlersHaveOneTag, OneTag
    <2>3. sStopper \in {"returned", "deleted"} /\ sUp = "down"
        BY <2>1 DEF ServerPhases
    <2>4. sStopper # "deleted"
        BY <2>1
    <2> QED BY <2>1, <2>2, <2>3, <2>4 DEF Server!Given
<1>7. CASE Server!StopperStep
    <2>1. UNCHANGED <<sLooper, sHandling, sStatus, sReplied, sGone>> /\ Server!Given' = Server!Given
        BY <1>7 DEF Server!StopperStep, Server!StopClearRunning, Server!StopShutdown,
            Server!ShutdownReturns, Server!StopQueue, Server!Delete, Server!Given
    <2>2. CASE Server!StopClearRunning \/ Server!StopShutdown
        <3>1. /\ sStopper \in {"new", "shutdown"} /\ sStopper' \in {"shutdown", "closing"}
              /\ sQueueShut' = sQueueShut /\ sUp' \in {sUp, "closing"}
            BY <2>2 DEF Server!StopClearRunning, Server!StopShutdown, Server!StopperGoes
        <3>2. sUp # "down" /\ sLooper # "aborted" /\ ~sQueueShut
            BY <3>1 DEF ServerPhases
        <3> QED BY <2>1, <3>1, <3>2
    <2>3. CASE Server!ShutdownReturns
        BY <2>1, <2>3 DEF Server!ShutdownReturns, Server!StopperGoes
    <2>4. CASE Server!StopQueue \/ Server!Delete
        BY <2>1, <2>4 DEF Server!StopQueue, Server!Shut, Server!Delete, Server!StopperGoes
    <2> QED BY <1>7, <2>2, <2>3, <2>4 DEF Server!StopperStep
<1>8. CASE \/ Server!BuildService
           \/ \E h \in Handlers, c \in Calls : Server!Arrive(h, c)
    <2>1. /\ UNCHANGED <<sLooper, sStopper, sQueueShut>>
          /\ sUp \in {"none", "up"} /\ sUp' = "up"
        BY <1>8 DEF Server!BuildService, Server!Arrive
    <2> QED BY <2>1
<1> QED BY <1>2, <1>3, <1>4, <1>5, <1>6, <1>7, <1>8 DEF Server!LooperStep

\* The server aborts the process only after Shutdown() has returned, and over a request
\* that was given up before the loop got to it: the second exception of ServerStops is
\* no wider than that.
THEOREM AbortIsExcused == Spec => []AbortsAreExcused
<1>1. Init => AbortInv
    BY DEF Init, Server!Init, AbortInv
<1>2. ASSUME Inv, AbortInv, [Next]_vars PROVE AbortInv'
    <2>1. CASE UNCHANGED sVars
        BY <1>2, <2>1 DEF sVars, AbortInv, Server!Given
    <2>2. CASE \/ Server!LooperStep \/ Server!StopperStep \/ Server!BuildService
               \/ \E h \in Handlers, c \in Calls : Server!Arrive(h, c)
               \/ \E c \in Calls : Server!ClientGoes(c)
               \/ \E h \in Handlers : Server!ReplySent(h)
        BY <1>2, <2>2, AbortStep DEF Inv
    <2> QED BY <1>2, <2>1, <2>2 DEF Next, Network, Arrive, Progress, Reply, Fail, Cancel,
            Unavailable, ReplySent, ServerLooper, ServerStopper, BuildService, StartAgain,
            ClientLooper, ClientStopper, AddCall, vars
<1>3. ASSUME Inv, AbortInv PROVE AbortsAreExcused
    <2> SUFFICES ASSUME sLooper = "aborted"
                 PROVE  sStopper = "returned" /\ \E c \in Calls : AbortedBy(c)
        BY DEF AbortsAreExcused
    <2>1. PICK h \in Handlers : sStatus[h] = "PROCESS" /\ sHandling[h] # NoRequest
        BY <1>3 DEF AbortInv
    <2>2. sHandling[h] \in Calls /\ sHandled[sHandling[h]] = 0 /\ sHandling[h] \in Server!Given
        BY <1>3, <2>1 DEF Inv, ServerInv, Server!TypeOK, RequestsHaveHandlers, Server!Given
    <2>3. sHandling[h] \notin sReplied
        BY <1>3, <2>2 DEF Inv, ServerInv, RequestsHaveHandlers
    <2>4. sStopper = "returned" /\ sHandling[h] \in sGone
        BY <1>3, <2>2, <2>3 DEF AbortInv
    <2> QED BY <2>2, <2>4 DEF AbortedBy, Unprocessed
<1> QED BY <1>1, <1>2, <1>3, InvHolds, PTL DEF Spec

-----------------------------------------------------------------------------
(***************************************************************************)
(* The abstract service                                                    *)
(***************************************************************************)

\* What the service sees of either side does not change while that side rests.
LEMMA ServerRests ==
    ASSUME UNCHANGED sVars
    PROVE  /\ \A c \in Calls : RequestState(c)' = RequestState(c)
           /\ UNCHANGED <<ServerState, sGone>>
    BY DEF sVars, RequestState, Server!Given, ServerState

LEMMA ClientRests ==
    ASSUME UNCHANGED cVars
    PROVE  /\ \A c \in Calls : CallState(c)' = CallState(c)
           /\ UNCHANGED <<ClientState, cSucceeded>>
<1>1. Lost' = Lost
    BY DEF cVars, Lost
<1> QED BY <1>1 DEF cVars, CallState, ClientState

\* A call that gRPC or the queue knows is not lost.
LEMMA TaggedIsStarted ==
    ASSUME Inv, NEW c \in Calls, c \in cPending \/ \E e \in cReady : e.call = c
    PROVE  CallState(c) = "started" /\ cCall[c] = "started"
    BY DEF Inv, ClientInv, CallsHaveTags, CallState, Lost

LEMMA RpcCalls ==
    ASSUME Inv, NEW c \in Calls, AddCall(c) PROVE Rpc!Begin(c)
<1>1. /\ cCall[c] = "new" /\ ~cQueueShut /\ cQueueShut' = cQueueShut
      /\ cPending' = cPending \cup {c} /\ cReady' = cReady /\ cSucceeded' = cSucceeded
      /\ \A d \in Calls : cCall'[d] = IF d = c THEN "started" ELSE cCall[d]
    BY DEF AddCall, Client!AddCall, Inv, ClientInv, Client!TypeOK
<1>2. \A d \in Calls : CallState(d)' = IF d = c THEN "started" ELSE CallState(d)
    BY <1>1 DEF CallState, Lost
<1>3. CallState(c) = "new"
    BY <1>1 DEF CallState, Lost
<1>4. ClientState = "open" /\ ClientState' = ClientState
    BY <1>1 DEF ClientState
<1>5. /\ \A d \in Calls : RequestState(d)' = RequestState(d)
      /\ UNCHANGED <<ServerState, sGone>>
    BY ServerRests DEF AddCall
<1> QED BY <1>1, <1>2, <1>3, <1>4, <1>5 DEF Rpc!Begin

LEMMA RpcEnds ==
    ASSUME Inv, NEW e \in cReady, Client!Process(e), UNCHANGED sVars
    PROVE  UNCHANGED Rpc!vars \/ Rpc!Succeed(e.call) \/ Rpc!Fail(e.call)
<1> DEFINE c == e.call
<1>1. /\ c \in Calls /\ cCall[c] = "started" /\ CallState(c) = "started"
      /\ cLeft[c] \in Nat /\ cLeft[c] > 0 /\ e.ok \in BOOLEAN
      /\ \A f \in cReady \ {e} : f.call # c
    BY TaggedIsStarted DEF Inv, ClientInv, CallsHaveTags, Client!TypeOK
<1>2. /\ \A d \in Calls : RequestState(d)' = RequestState(d)
      /\ UNCHANGED <<ServerState, sGone>>
    BY ServerRests
<1>3. cQueueShut' = cQueueShut /\ ClientState' = ClientState /\ cReady' = cReady \ {e}
    BY DEF Client!Process, ClientState
<1>4. CASE cLeft[c] > 1
    <2>1. cCall' = cCall /\ cPending' = cPending \cup {c} /\ cSucceeded' = cSucceeded
        BY <1>1, <1>4 DEF Client!Process, Client!NotKept, Client!Real
    <2>2. Lost' = Lost
        BY <1>1, <1>3, <2>1 DEF Lost
    <2>3. \A d \in Calls : CallState(d)' = CallState(d)
        BY <2>1, <2>2 DEF CallState
    <2> QED BY <1>2, <1>3, <2>1, <2>3 DEF Rpc!vars
<1>5. CASE cLeft[c] = 1
    <2>1. /\ \A d \in Calls : cCall'[d] = IF d = c THEN "destroyed" ELSE cCall[d]
          /\ cPending' = cPending
          /\ cSucceeded' = IF e.ok THEN cSucceeded \cup {c} ELSE cSucceeded
        BY <1>1, <1>5 DEF Client!Process, Client!NotKept, Client!Real, Inv, ClientInv, Client!TypeOK
    <2>2. \A d \in Calls : CallState(d)' = IF d = c THEN "destroyed" ELSE CallState(d)
        BY <1>1, <1>3, <2>1 DEF CallState, Lost
    <2>3. CASE e.ok
        <3>1. RequestState(c) = "answered"
            BY <1>5, <2>3 DEF Inv, RepliesAreReal, RequestState
        <3> QED BY <1>1, <1>2, <1>3, <2>1, <2>2, <2>3, <3>1 DEF Rpc!Succeed
    <2>4. CASE ~e.ok
        <3>1. c \in sGone
            BY <2>4 DEF Inv, RepliesAreReal
        <3> QED BY <1>1, <1>2, <1>3, <2>1, <2>2, <2>4, <3>1 DEF Rpc!Fail
    <2> QED BY <2>3, <2>4
<1> QED BY <1>1, <1>4, <1>5

LEMMA RpcLoses ==
    ASSUME Inv, NEW e \in cReady, Client!Ignore(e), UNCHANGED sVars
    PROVE  Rpc!Lose(e.call)
<1> DEFINE c == e.call
<1>1. /\ c \in Calls /\ cCall[c] = "started" /\ CallState(c) = "started"
      /\ c \notin cPending /\ \A f \in cReady \ {e} : f.call # c
      /\ cLooper = "drain" /\ cQueueShut
    BY TaggedIsStarted
    DEF Inv, ClientInv, CallsHaveTags, Client!TypeOK, Client!Ignore, LooperState
<1>2. /\ \A d \in Calls : RequestState(d)' = RequestState(d)
      /\ UNCHANGED <<ServerState, sGone>>
    BY ServerRests
<1>3. cReady' = cReady \ {e} /\ UNCHANGED <<cPending, cCall, cSucceeded, cQueueShut>>
    BY DEF Client!Ignore, Client!objects
<1>4. \A d \in Calls : CallState(d)' = IF d = c THEN "lost" ELSE CallState(d)
    BY <1>1, <1>3 DEF CallState, Lost
<1>5. ClientState = "closed" /\ ClientState' = ClientState
    BY <1>1, <1>3 DEF ClientState
<1> QED BY <1>1, <1>2, <1>3, <1>4, <1>5 DEF Rpc!Lose

\* The other steps of the client close it or are its own affair.
LEMMA RpcCloses ==
    ASSUME Inv, UNCHANGED sVars, UNCHANGED <<cCall, cSucceeded>>,
           Lost' = Lost, cQueueShut' \in BOOLEAN, cQueueShut => cQueueShut'
    PROVE  UNCHANGED Rpc!vars \/ Rpc!CloseClient
<1>1. /\ \A d \in Calls : RequestState(d)' = RequestState(d)
      /\ \A d \in Calls : CallState(d)' = CallState(d)
      /\ UNCHANGED <<ServerState, sGone, cSucceeded>>
    BY ServerRests DEF CallState
<1>2. CASE cQueueShut' = cQueueShut
    BY <1>1, <1>2 DEF ClientState, Rpc!vars
<1>3. CASE cQueueShut' /\ ~cQueueShut
    BY <1>1, <1>3 DEF ClientState, Rpc!CloseClient
<1> QED BY <1>2, <1>3 DEF Inv, ClientInv, Client!TypeOK

LEMMA RpcClientStep ==
    ASSUME Inv, ClientLooper \/ ClientStopper PROVE [Rpc!Next]_(Rpc!vars)
<1> USE DEF ClientLooper, ClientStopper
<1>1. UNCHANGED sVars
    OBVIOUS
<1>2. ASSUME NEW e \in cReady, Client!Process(e) PROVE [Rpc!Next]_(Rpc!vars)
    <2>1. e.call \in Calls
        BY DEF Inv, ClientInv, Client!TypeOK
    <2> QED BY <1>1, <1>2, <2>1, RpcEnds DEF Rpc!Next
<1>3. ASSUME NEW e \in cReady, Client!Ignore(e) PROVE [Rpc!Next]_(Rpc!vars)
    <2>1. e.call \in Calls
        BY DEF Inv, ClientInv, Client!TypeOK
    <2> QED BY <1>1, <1>3, <2>1, RpcLoses DEF Rpc!Next
<1>4. CASE ~\E e \in cReady : Client!Process(e) \/ Client!Ignore(e)
    <2>1. /\ UNCHANGED <<cCall, cSucceeded, cPending, cReady>>
          /\ cQueueShut' \in BOOLEAN /\ (cQueueShut => cQueueShut')
        BY <1>4 DEF Client!LooperStep, Client!StopperStep, Client!SetRunning,
            Client!ClearStopped, Client!Break, Client!ShutdownQueue, Client!SetStopped,
            Client!StopShutdown, Client!StopClearRunning, Client!StopReturns,
            Client!ops, Client!objects, Inv, ClientInv, Client!TypeOK
    <2>2. Lost' = Lost
        BY <2>1 DEF Lost
    <2> QED BY <1>1, <2>1, <2>2, RpcCloses DEF Rpc!Next
<1> QED BY <1>2, <1>3, <1>4

\* An event leaves its call where the service sees it.
LEMMA RpcEvent ==
    ASSUME Inv, NEW c \in Calls, NEW ok \in BOOLEAN, Client!Complete(c, ok), UNCHANGED sVars
    PROVE  UNCHANGED Rpc!vars
<1> DEFINE d == [call |-> c, ok |-> ok]
<1>1. /\ c \in cPending /\ cPending' = cPending \ {c} /\ cReady' = cReady \cup {d}
      /\ d.call = c /\ UNCHANGED <<cCall, cSucceeded, cQueueShut>>
    BY DEF Client!Complete, Client!objects
<1>2. Lost' = Lost
    <2> HIDE DEF d
    <2> QED BY <1>1 DEF Lost
<1>3. /\ \A b \in Calls : CallState(b)' = CallState(b)
      /\ UNCHANGED <<ClientState, cSucceeded>>
    BY <1>1, <1>2 DEF CallState, ClientState
<1> QED BY <1>3, ServerRests DEF Rpc!vars

LEMMA RpcGivesUp ==
    ASSUME Inv, NEW c \in Calls, cCall[c] = "started", Server!ClientGoes(c), UNCHANGED cVars
    PROVE  Rpc!GiveUp(c)
<1>1. /\ c \notin sGone /\ sGone' = sGone \cup {c}
      /\ UNCHANGED <<sReplied, sHandled, sHandling, sUp>>
    BY DEF Server!ClientGoes, Server!ending
<1>2. CallState(c) \in {"started", "lost"}
    BY DEF CallState
<1>3. /\ \A d \in Calls : RequestState(d)' = RequestState(d)
      /\ ServerState' = ServerState
    BY <1>1 DEF RequestState, Server!Given, ServerState
<1> QED BY <1>1, <1>2, <1>3, ClientRests DEF Rpc!GiveUp

LEMMA RpcArrives ==
    ASSUME Inv, NEW c \in Calls, Arrive(c) PROVE Rpc!Give(c)
<1> USE SystemAssumption
<1>1. PICK h \in Handlers : Server!Arrive(h, c) /\ UNCHANGED cVars
    BY DEF Arrive
<1>2. /\ c \in cPending /\ sUp = "up" /\ c \notin sGone /\ c \notin Server!Given /\ sHandled[c] = 0
      /\ h \in sStaged /\ sHandling'[h] = c
      /\ \A g \in Handlers \ {h} : sHandling'[g] = sHandling[g]
      /\ UNCHANGED <<sReplied, sHandled, sGone, sUp>>
    BY <1>1 DEF Arrive, Server!Arrive, Server!ending, Inv, ServerInv, Server!TypeOK
<1>3. sHandling[h] = NoRequest /\ c \notin sReplied
    BY <1>2 DEF Inv, ServerInv, HandlersHaveOneTag, OneTag, RequestsHaveHandlers
<1>4. CallState(c) = "started"
    BY <1>2, TaggedIsStarted
<1>5. \A d \in Calls : d \in Server!Given' <=> d = c \/ d \in Server!Given
    BY <1>2, <1>3 DEF Server!Given
<1>6. \A d \in Calls : RequestState(d)' = IF d = c THEN "given" ELSE RequestState(d)
    BY <1>2, <1>3, <1>5 DEF RequestState
<1>7. RequestState(c) = "none"
    BY <1>2, <1>3 DEF RequestState
<1>8. ServerState = "up" /\ ServerState' = ServerState
    BY <1>2 DEF ServerState
<1> QED BY <1>1, <1>2, <1>4, <1>6, <1>7, <1>8, ClientRests DEF Rpc!Give, Rpc!RequestGoes

LEMMA RpcHandles ==
    ASSUME Inv, NEW h \in Handlers, Server!Process(h), UNCHANGED cVars
    PROVE  \E c \in Calls : Rpc!Handle(c)
<1> DEFINE c == sHandling[h]
<1>1. c \in Calls /\ c # NoRequest /\ sHandled[c] = 0 /\ c \in Server!Given
    BY ProcessFinds DEF Inv, Server!Given
<1>2. /\ \A d \in Calls : sHandled'[d] = IF d = c THEN 1 ELSE sHandled[d]
      /\ UNCHANGED <<sReplied, sGone, sHandling, sUp>>
    BY <1>1 DEF Server!Process, Server!ending, Inv, ServerInv, Server!TypeOK
<1>3. c \notin sReplied
    BY <1>1 DEF Inv, ServerInv, RequestsHaveHandlers
<1>4. Server!Given' = Server!Given
    BY <1>2 DEF Server!Given
<1>5. RequestState(c) = "given"
    BY <1>1, <1>3 DEF RequestState
<1>6. \A d \in Calls : RequestState(d)' = IF d = c THEN "handled" ELSE RequestState(d)
    BY <1>2, <1>3, <1>4 DEF RequestState
<1>7. ServerState' = ServerState
    BY <1>2 DEF ServerState
<1>8. PICK d \in Calls : d = c
    BY <1>1
<1>9. Rpc!Handle(d)
    BY <1>2, <1>5, <1>6, <1>7, <1>8, ClientRests DEF Rpc!Handle, Rpc!RequestGoes
<1> QED BY <1>9

LEMMA RpcAnswers ==
    ASSUME Inv, NEW h \in Handlers, ReplySent(h)
    PROVE  UNCHANGED Rpc!vars \/ \E c \in Calls : Rpc!Answer(c)
<1> DEFINE c == sHandling[h]
<1>1. Server!ReplySent(h) /\ UNCHANGED cVars
    BY DEF ReplySent
<1>2. sStatus[h] = "FINISH" /\ h \in sReplying
    BY <1>1 DEF Server!ReplySent, Inv, ServerInv, HandlersHaveOneTag, OneTag
<1>3. c \in Calls /\ sHandled[c] = 1 /\ c \notin sReplied
    BY <1>2 DEF Inv, ServerInv, RequestsHaveHandlers, Server!TypeOK
<1>4. /\ UNCHANGED <<sGone, sHandled, sHandling, sUp>>
      /\ sReplied' = IF c \notin sGone THEN sReplied \cup {c} ELSE sReplied
    BY <1>1 DEF Server!ReplySent, Server!ending
<1>5. Server!Given' = Server!Given /\ ServerState' = ServerState
    BY <1>4 DEF Server!Given, ServerState
<1>6. CASE c \in sGone
    <2>1. \A d \in Calls : RequestState(d)' = RequestState(d)
        BY <1>4, <1>5, <1>6 DEF RequestState
    <2> QED BY <1>1, <1>4, <1>5, <2>1, ClientRests DEF Rpc!vars
<1>7. CASE c \notin sGone
    <2>1. RequestState(c) = "handled"
        BY <1>3 DEF RequestState
    <2>2. \A d \in Calls : RequestState(d)' = IF d = c THEN "answered" ELSE RequestState(d)
        BY <1>4, <1>5, <1>7 DEF RequestState
    <2>3. PICK d \in Calls : d = c
        BY <1>3
    <2>4. Rpc!Answer(d)
        BY <1>1, <1>4, <1>5, <1>7, <2>1, <2>2, <2>3, ClientRests DEF Rpc!Answer, Rpc!RequestGoes
    <2> QED BY <2>4
<1> QED BY <1>6, <1>7

\* A request whose handler is deleted had been processed.
LEMMA RpcForgets ==
    ASSUME Inv, NEW h \in Handlers, Server!Destroy(h), UNCHANGED cVars
    PROVE  UNCHANGED Rpc!vars
<1>1. sStatus[h] = "FINISH"
    BY DEF Server!Destroy, Server!Takes
<1>2. sHandled[sHandling[h]] = 1 /\ sHandling[h] \in Calls
    BY <1>1 DEF Inv, ServerInv, RequestsHaveHandlers, Server!TypeOK
<1>3. /\ \A g \in Handlers : sHandling'[g] = IF g = h THEN NoRequest ELSE sHandling[g]
      /\ UNCHANGED <<sGone, sHandled, sReplied, sUp>>
    BY DEF Server!Destroy, Server!ending, Inv, ServerInv, Server!TypeOK
<1>4. \A d \in Calls : sHandled[d] # 1 => (d \in Server!Given' <=> d \in Server!Given)
    BY <1>2, <1>3 DEF Server!Given
<1>5. \A d \in Calls : RequestState(d)' = RequestState(d)
    BY <1>3, <1>4 DEF RequestState
<1>6. ServerState' = ServerState
    BY <1>3 DEF ServerState
<1> QED BY <1>3, <1>5, <1>6, ClientRests DEF Rpc!vars

LEMMA RpcServerStep ==
    ASSUME Inv, ServerLooper \/ ServerStopper \/ BuildService PROVE [Rpc!Next]_(Rpc!vars)
<1> USE DEF ServerLooper, ServerStopper, BuildService
<1>1. UNCHANGED cVars
    OBVIOUS
<1>2. ASSUME UNCHANGED <<sReplied, sHandled, sHandling, sGone>>
      PROVE  /\ \A d \in Calls : RequestState(d)' = RequestState(d)
             /\ ServerState' = ServerState => UNCHANGED Rpc!vars
    <2>1. \A d \in Calls : RequestState(d)' = RequestState(d)
        BY <1>2 DEF RequestState, Server!Given
    <2> QED BY <1>1, <1>2, <2>1, ClientRests DEF Rpc!vars
<1>3. CASE BuildService
    <2>1. /\ UNCHANGED <<sReplied, sHandled, sHandling, sGone>>
          /\ ServerState = "none" /\ ServerState' = "up"
        BY <1>3 DEF Server!BuildService, Server!requests, ServerState
    <2>2. Rpc!OpenServer
        BY <1>1, <1>2, <2>1, ClientRests DEF Rpc!OpenServer
    <2> QED BY <2>2 DEF Rpc!Next
<1>4. CASE Server!StopShutdown
    <2>1. /\ UNCHANGED <<sReplied, sHandled, sHandling, sGone>>
          /\ ServerState = "up" /\ ServerState' = "down"
        BY <1>4 DEF Server!StopShutdown, Server!StopperGoes, Server!requests, ServerState,
                    Inv, ServerPhases
    <2>2. Rpc!CloseServer
        BY <1>1, <1>2, <2>1, ClientRests DEF Rpc!CloseServer
    <2> QED BY <2>2 DEF Rpc!Next
<1>5. CASE Server!StopperStep /\ ~Server!StopShutdown
    <2>1. UNCHANGED <<sReplied, sHandled, sHandling, sGone, ServerState>>
        BY <1>5 DEF Server!StopperStep, Server!StopperGoes, Server!StopClearRunning,
            Server!ShutdownReturns, Server!StopQueue, Server!Delete, Server!requests,
            ServerState, Inv, ServerPhases
    <2> QED BY <1>2, <2>1
<1>6. CASE \E h \in Handlers : Server!Process(h)
    BY <1>1, <1>6, RpcHandles DEF Rpc!Next
<1>7. CASE \E h \in Handlers : Server!Destroy(h)
    BY <1>1, <1>7, RpcForgets
<1>8. CASE \/ Server!Spawn \/ Server!SetRunning \/ Server!TestRunning \/ Server!Break
           \/ Server!SetStopped
           \/ \E h \in Handlers : Server!Abort(h) \/ Server!BreakNotOk(h)
           \/ \E e \in sReady : Server!Ignore(e)
    <2>1. UNCHANGED <<sReplied, sHandled, sHandling, sGone, ServerState>>
        BY <1>8 DEF Server!Spawn, Server!SetRunning, Server!TestRunning, Server!Break,
            Server!SetStopped, Server!Abort, Server!BreakNotOk, Server!Ignore,
            Server!requests, Server!ending, ServerState
    <2> QED BY <1>2, <2>1
<1> QED BY <1>3, <1>4, <1>5, <1>6, <1>7, <1>8 DEF Server!LooperStep

LEMMA RpcStep == Inv /\ [Next]_vars => [Rpc!Next]_(Rpc!vars)
<1> SUFFICES ASSUME Inv, [Next]_vars PROVE [Rpc!Next]_(Rpc!vars)
    OBVIOUS
<1>1. ASSUME NEW c \in Calls, AddCall(c) PROVE [Rpc!Next]_(Rpc!vars)
    BY <1>1, RpcCalls DEF Rpc!Next
<1>2. ASSUME NEW c \in Calls, Cancel(c) \/ Unavailable(c) PROVE [Rpc!Next]_(Rpc!vars)
    <2>1. cCall[c] = "started" /\ Server!ClientGoes(c) /\ UNCHANGED cVars
        BY <1>2, TaggedIsStarted DEF Cancel, Unavailable
    <2> QED BY <2>1, RpcGivesUp DEF Rpc!Next
<1>3. ASSUME NEW c \in Calls, Arrive(c) PROVE [Rpc!Next]_(Rpc!vars)
    BY <1>3, RpcArrives DEF Rpc!Next
<1>4. ASSUME NEW c \in Calls, Progress(c) \/ Reply(c) \/ Fail(c)
      PROVE  [Rpc!Next]_(Rpc!vars)
    BY <1>4, RpcEvent DEF Progress, Reply, Fail
<1>5. ASSUME NEW h \in Handlers, ReplySent(h) PROVE [Rpc!Next]_(Rpc!vars)
    BY <1>5, RpcAnswers DEF Rpc!Next
<1>6. CASE UNCHANGED vars
    <2>1. UNCHANGED cVars /\ UNCHANGED sVars
        BY <1>6 DEF vars
    <2> QED BY <2>1, ClientRests, ServerRests DEF Rpc!vars
<1> QED BY <1>1, <1>2, <1>3, <1>4, <1>5, <1>6, RpcClientStep, RpcServerStep
        DEF Next, Network, StartAgain

LEMMA RpcInit == Init => Rpc!Init
<1> SUFFICES ASSUME Init PROVE Rpc!Init
    OBVIOUS
<1> USE SystemAssumption DEF Init, Client!Init, Server!Init
<1>1. \A c \in Calls : CallState(c) = "new"
    BY DEF CallState, Lost
<1>2. \A c \in Calls : RequestState(c) = "none"
    <2> SUFFICES ASSUME NEW c \in Calls PROVE RequestState(c) = "none"
        OBVIOUS
    <2>1. c \notin sReplied /\ sHandled[c] = 0
        OBVIOUS
    <2>2. Server!Given = {}
        BY DEF Server!Given
    <2> QED BY <2>1, <2>2 DEF RequestState
<1>3. ClientState = "open" /\ ServerState = "none" /\ sGone = {} /\ cSucceeded = {}
    BY DEF ClientState, ServerState
<1> HIDE DEF Init
<1> QED BY <1>1, <1>2, <1>3 DEF Rpc!Init

\* The client and the server, with their queues, tags and handlers, implement the
\* abstract service: both sides agree on how each call ended.
THEOREM Refinement == Spec => ImplementsRpcService
BY RpcInit, RpcStep, InvHolds, PTL DEF Spec, ImplementsRpcService, Rpc!Spec
=============================================================================
