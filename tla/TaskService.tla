----------------------------- MODULE TaskService -----------------------------
(***************************************************************************)
(* What a ThreadPool promises to the code that owns it, with no threads,   *)
(* no mutex and no condition variable in sight: tasks are accepted while   *)
(* the service is open, started in the order of acceptance with at most    *)
(* Slots of them active at a time, and the service closes only when every  *)
(* accepted task has been run.  ThreadPool implements this module.         *)
(***************************************************************************)
EXTENDS Naturals, Sequences, FiniteSets

CONSTANTS
    Tasks,  \* the tasks that may ever be submitted
    Needs,  \* Needs[t]: the tasks on whose futures t blocks
    Spawns, \* Spawns[t]: the tasks that t itself submits while it is active
    Slots   \* how many tasks can be active at once

VARIABLES
    backlog,  \* accepted tasks that have not been started, oldest first
    active,   \* tasks that have been started and have not ended
    status,   \* per task: what its submitter can observe
    phase     \* "open", then "closing", then "closed"

vars == <<backlog, active, status, phase>>

Init ==
    /\ backlog = <<>>
    /\ active = {}
    /\ status = [t \in Tasks |-> "none"]
    /\ phase = "open"

\* A task is accepted only while the service is open.
Submit(t) ==
    /\ phase = "open"
    /\ status[t] = "none"
    /\ \A u \in Needs[t] \ Spawns[t] : status[u] \in {"pending", "ready"}
    /\ backlog' = Append(backlog, t)
    /\ status' = [status EXCEPT ![t] = "pending"]
    /\ UNCHANGED <<active, phase>>

\* Once closing has begun a submission is refused for good.
Refuse(t) ==
    /\ phase = "closing"
    /\ status[t] = "none"
    /\ status' = [status EXCEPT ![t] = "rejected"]
    /\ UNCHANGED <<backlog, active, phase>>

\* The oldest accepted task gets the next free slot.
Start ==
    /\ backlog # <<>>
    /\ Cardinality(active) < Slots
    /\ active' = active \cup {Head(backlog)}
    /\ backlog' = Tail(backlog)
    /\ UNCHANGED <<status, phase>>

End(t) ==
    /\ t \in active
    /\ active' = active \ {t}
    /\ status' = [status EXCEPT ![t] = "ready"]
    /\ UNCHANGED <<backlog, phase>>

\* A task ends by itself when those it waits for are ready; it waits for its own
\* only if they were accepted.
EndAfterNeeds(t) ==
    /\ \A u \in Needs[t] : status[u] = "ready" \/ (u \in Spawns[t] /\ status[u] # "pending")
    /\ End(t)

BeginClose ==
    /\ phase = "open"
    /\ phase' = "closing"
    /\ UNCHANGED <<backlog, active, status>>

EndClose ==
    /\ phase = "closing"
    /\ backlog = <<>>
    /\ active = {}
    /\ phase' = "closed"
    /\ UNCHANGED <<backlog, active, status>>

Next ==
    \/ \E t \in Tasks : Submit(t) \/ Refuse(t) \/ End(t)
    \/ Start
    \/ BeginClose
    \/ EndClose

Spec == Init /\ [][Next]_vars

FairSpec ==
    /\ Spec
    /\ WF_vars(Start)
    /\ \A t \in Tasks : WF_vars(EndAfterNeeds(t))
    /\ WF_vars(EndClose)
=============================================================================
