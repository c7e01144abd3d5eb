--------------------------- MODULE ThreadPoolProofs ---------------------------
(***************************************************************************)
(* Theorems about ThreadPool, for any number of workers, clients and tasks *)
(* and any relation of waiting and spawning between the tasks.             *)
(***************************************************************************)
EXTENDS ThreadPool, SequenceTheorems, FiniteSetTheorems, WellFoundedInduction, TLAPS

USE DEF queue, ending, Goes, Popped, ToNotify, Open, Leave, AllWaiting

\* A set of natural numbers that is not empty has a least element.
LEMMA NatLeast ==
    ASSUME NEW S \in SUBSET Nat, NEW n \in S
    PROVE  \E m \in S : \A k \in S : m <= k
<1> DEFINE R == OpToRel(<, Nat)
<1>1. IsWellFoundedOn(R, Nat)
  BY NatLessThanWellFounded
<1>2. PICK m \in S : \A k \in S : <<k, m>> \notin R
  <2> HIDE DEF R
  <2> QED BY <1>1, WFMin
<1>3. \A k \in S : ~(k < m)
  BY <1>2 DEF OpToRel
<1> QED BY <1>3

\* What the phases of the destructor say of stop and of the workers.
ShutdownState ==
    /\ stop <=> dtor # "idle"
    /\ \A w \in Workers : workerPc[w] = "returned" => stop /\ tasks = <<>>
    /\ dtor = "done" => \A w \in Workers : workerPc[w] = "returned"

\* A worker is inside enqueue() only while it runs a task.
WorkersNotifyFromTasks ==
    \A w \in Workers : notifying[w] # NoTask => workerPc[w] = "running"

\* A task has been accepted exactly when its future is pending or ready, ...
AcceptedHaveFutures ==
    \A t \in Tasks :
        future[t] \in {"pending", "ready"} <=> \E i \in 1..Len(accepted) : accepted[i] = t

\* ... and once, ...
AcceptedOnce == \A i, j \in 1..Len(accepted) : accepted[i] = accepted[j] => i = j

\* ... and what it waits for, except what it enqueues itself, before it.
AcceptedAfterNeeds ==
    \A i \in 1..Len(accepted) : \A u \in Needs[accepted[i]] \ Spawns[accepted[i]] :
        \E j \in 1..(i - 1) : accepted[j] = u

\* The inductive invariant.
Inv ==
    /\ TypeOK
    /\ FifoDispatch
    /\ PendingHasOneCarrier
    /\ ShutdownState
    /\ WorkersNotifyFromTasks
    /\ NoLostWakeup
    /\ AcceptedHaveFutures
    /\ AcceptedOnce
    /\ AcceptedAfterNeeds

-----------------------------------------------------------------------------
(***************************************************************************)
(* Types                                                                   *)
(***************************************************************************)

LEMMA TypeInit == Init => TypeOK
<1> SUFFICES ASSUME Init PROVE TypeOK
  OBVIOUS
<1>1. <<>> \in Seq(Tasks)
  BY EmptySeq
<1>2. future \in [Tasks -> {"none", "pending", "ready", "rejected"}]
  BY DEF Init
<1> QED BY <1>1, <1>2 DEF Init, TypeOK

LEMMA TypeStep == TypeOK /\ [Next]_vars => TypeOK'
<1> SUFFICES ASSUME TypeOK, [Next]_vars PROVE TypeOK'
  OBVIOUS
<1> USE TasksAssumption
<1>1. ASSUME NEW p \in Enqueuers, NEW t \in Tasks, Accept(p, t) PROVE TypeOK'
  <2>1. Append(tasks, t) \in Seq(Tasks) /\ Append(accepted, t) \in Seq(Tasks)
    BY AppendProperties DEF TypeOK
  <2> QED BY <1>1, <2>1 DEF Accept, TypeOK
<1>2. ASSUME NEW p \in Enqueuers, NEW t \in Tasks, Reject(p, t) PROVE TypeOK'
  BY <1>2 DEF Reject, TypeOK
<1>3. ASSUME NEW p \in Enqueuers, NotifyOne(p) PROVE TypeOK'
  BY <1>3 DEF NotifyOne, Wake, Waiting, TypeOK
<1>4. ASSUME NEW w \in Workers, TakeTask(w) PROVE TypeOK'
  <2>1. Head(tasks) \in Tasks /\ Tail(tasks) \in Seq(Tasks)
    BY <1>4, HeadTailProperties DEF TypeOK, TakeTask
  <2>2. Append(started, Head(tasks)) \in Seq(Tasks)
    BY <2>1, AppendProperties DEF TypeOK
  <2> QED BY <1>4, <2>1, <2>2 DEF TakeTask, TypeOK
<1>5. ASSUME NEW w \in Workers, WaitForWork(w) PROVE TypeOK'
  BY <1>5 DEF WaitForWork, TypeOK
<1>6. ASSUME NEW w \in Workers, SpuriousWake(w) PROVE TypeOK'
  BY <1>6 DEF SpuriousWake, Wake, TypeOK
<1>7. ASSUME NEW w \in Workers, WorkerReturns(w) PROVE TypeOK'
  BY <1>7 DEF WorkerReturns, TypeOK
<1>8. ASSUME NEW w \in Workers, EndTask(w) PROVE TypeOK'
  BY <1>8 DEF EndTask, TypeOK
<1>9. CASE SetStop BY <1>9 DEF SetStop, TypeOK
<1>10. CASE NotifyAll BY <1>10 DEF NotifyAll, Wake, Waiting, TypeOK
<1>11. CASE JoinWorkers BY <1>11 DEF JoinWorkers, TypeOK
<1>12. CASE UNCHANGED vars BY <1>12 DEF vars, TypeOK
<1> QED
  BY <1>1, <1>2, <1>3, <1>4, <1>5, <1>6, <1>7, <1>8, <1>9, <1>10, <1>11, <1>12
  DEF Next, ReturnFromTask, ThrowFromTask, Destroyed

\* The variables keep their types and a worker holds a task exactly while it
\* runs one: no front() of an empty queue.
THEOREM TypeCorrect == Spec => []TypeOK
BY TypeInit, TypeStep, PTL DEF Spec

-----------------------------------------------------------------------------
(***************************************************************************)
(* Order                                                                   *)
(***************************************************************************)

LEMMA HeadConcatTail ==
    ASSUME NEW T, NEW q \in Seq(T), q # <<>>
    PROVE  <<Head(q)>> \o Tail(q) = q
<1> DEFINE r == <<Head(q)>> \o Tail(q)
<1>1. Head(q) \in T /\ <<Head(q)>> \in Seq(T) /\ Tail(q) \in Seq(T)
  BY HeadTailProperties
<1>2. /\ r \in Seq(T)
      /\ Len(r) = 1 + Len(Tail(q))
      /\ \A i \in 1..(1 + Len(Tail(q))) :
            r[i] = IF i <= 1 THEN <<Head(q)>>[i] ELSE Tail(q)[i - 1]
  BY <1>1, ConcatProperties
<1>3. Len(r) = Len(q) /\ Len(q) \in Nat
  BY <1>2, HeadTailProperties, LenProperties
<1>4. ASSUME NEW i \in 1..Len(q) PROVE r[i] = q[i]
  <2>1. CASE i = 1 BY <2>1, <1>2, <1>3
  <2>2. CASE i # 1
    <3>1. r[i] = Tail(q)[i - 1] /\ i - 1 \in 1..Len(Tail(q))
      BY <1>2, <1>3, <2>2
    <3> QED BY <3>1, HeadTailProperties
  <2> QED BY <2>1, <2>2
<1> QED BY <1>2, <1>3, <1>4, SeqEqual

LEMMA FifoStep ==
    TypeOK /\ FifoDispatch /\ [Next]_vars => FifoDispatch'
<1> SUFFICES ASSUME TypeOK, FifoDispatch, [Next]_vars PROVE FifoDispatch'
  OBVIOUS
<1> USE DEF FifoDispatch
<1>0. tasks \in Seq(Tasks) /\ started \in Seq(Tasks)
  BY DEF TypeOK
<1>1. ASSUME NEW p \in Enqueuers, NEW t \in Tasks, Accept(p, t) PROVE FifoDispatch'
  <2>1. accepted' = Append(started \o tasks, t) /\ tasks' = Append(tasks, t)
    BY <1>1 DEF Accept
  <2>2. Append(started \o tasks, t) = (started \o tasks) \o <<t>>
    BY <1>0, ConcatProperties, AppendIsConcat
  <2>3. Append(tasks, t) = tasks \o <<t>> /\ <<t>> \in Seq(Tasks)
    BY <1>0, AppendIsConcat
  <2>4. started' = started
    BY <1>1 DEF Accept
  <2> QED BY <1>0, <2>1, <2>2, <2>3, <2>4, ConcatAssociative
<1>2. ASSUME NEW w \in Workers, TakeTask(w) PROVE FifoDispatch'
  <2>1. /\ tasks # <<>> /\ tasks' = Tail(tasks) /\ accepted' = accepted
        /\ started' = Append(started, Head(tasks))
    BY <1>2 DEF TakeTask
  <2>2. Head(tasks) \in Tasks /\ Tail(tasks) \in Seq(Tasks) /\ <<Head(tasks)>> \in Seq(Tasks)
    BY <1>0, <2>1, HeadTailProperties
  <2>3. started' = started \o <<Head(tasks)>>
    BY <1>0, <2>1, <2>2, AppendIsConcat
  <2>4. started' \o tasks' = started \o (<<Head(tasks)>> \o Tail(tasks))
    BY <1>0, <2>1, <2>2, <2>3, ConcatAssociative
  <2>5. <<Head(tasks)>> \o Tail(tasks) = tasks
    BY <1>0, <2>1, HeadConcatTail
  <2> QED BY <2>1, <2>4, <2>5
<1>3. CASE UNCHANGED <<tasks, accepted, started>>
  BY <1>3
<1> QED
  BY <1>1, <1>2, <1>3
  DEF Next, vars, Reject, NotifyOne, WaitForWork, SpuriousWake, WorkerReturns, EndTask,
      ReturnFromTask, ThrowFromTask, SetStop, NotifyAll, JoinWorkers, Destroyed

-----------------------------------------------------------------------------
(***************************************************************************)
(* Carriers of a pending future                                            *)
(***************************************************************************)

LEMMA CarrierStep ==
    TypeOK /\ PendingHasOneCarrier /\ [Next]_vars => PendingHasOneCarrier'
<1> SUFFICES ASSUME TypeOK, PendingHasOneCarrier, [Next]_vars
             PROVE  PendingHasOneCarrier'
  OBVIOUS
<1> USE TasksAssumption DEF PendingHasOneCarrier, Queued, HeldBy
<1>0. tasks \in Seq(Tasks) /\ Len(tasks) \in Nat
  BY LenProperties DEF TypeOK
<1>1. ASSUME NEW p \in Enqueuers, NEW t \in Tasks, Accept(p, t)
      PROVE  PendingHasOneCarrier'
  <2>1. /\ future[t] = "none" /\ future' = [future EXCEPT ![t] = "pending"]
        /\ tasks' = Append(tasks, t) /\ task' = task
    BY <1>1 DEF Accept, Calls
  <2>2. /\ Len(tasks') = Len(tasks) + 1
        /\ \A i \in 1..Len(tasks) : tasks'[i] = tasks[i]
        /\ tasks'[Len(tasks) + 1] = t
    BY <1>0, <2>1, AppendProperties
  <2>3. \A i \in 1..Len(tasks) : tasks[i] # t
    BY <2>1
  <2>4. \A i, j \in 1..Len(tasks') : tasks'[i] = tasks'[j] => i = j
    BY <1>0, <2>2, <2>3
  <2>5. \A u \in Tasks : Queued(u)' <=> Queued(u) \/ u = t
    BY <1>0, <2>2
  <2>6. \A u \in Tasks : HeldBy(u)' = HeldBy(u)
    BY <2>1
  <2>7. HeldBy(t) = {}
    BY <2>1
  <2>8. \A u \in Tasks : future'[u] = IF u = t THEN "pending" ELSE future[u]
    BY <2>1 DEF TypeOK
  <2> HIDE DEF Queued, HeldBy
  <2> QED BY <2>4, <2>5, <2>6, <2>7, <2>8
<1>2. ASSUME NEW p \in Enqueuers, NEW t \in Tasks, Reject(p, t)
      PROVE  PendingHasOneCarrier'
  BY <1>2 DEF Reject, Calls, TypeOK
<1>3. ASSUME NEW w \in Workers, TakeTask(w) PROVE PendingHasOneCarrier'
  <2> DEFINE h == Head(tasks)
  <2>1. /\ tasks # <<>> /\ tasks' = Tail(tasks) /\ future' = future
        /\ task' = [task EXCEPT ![w] = h] /\ task[w] = NoTask
    BY <1>3 DEF TakeTask, TypeOK
  <2>2. /\ h \in Tasks
        /\ Len(tasks') = Len(tasks) - 1
        /\ \A i \in 1..Len(tasks') : tasks'[i] = tasks[i + 1]
    BY <1>0, <2>1, HeadTailProperties
  <2>3. h = tasks[1] /\ Len(tasks) >= 1
    BY <1>0, <2>1, EmptySeq
  <2>4. \A i, j \in 1..Len(tasks') : tasks'[i] = tasks'[j] => i = j
    BY <1>0, <2>2
  <2>5. \A u \in Tasks : Queued(u)' <=> Queued(u) /\ u # h
    <3> SUFFICES ASSUME NEW u \in Tasks PROVE Queued(u)' <=> Queued(u) /\ u # h
      OBVIOUS
    <3>1. Queued(u)' => Queued(u) /\ u # h
      BY <1>0, <2>2, <2>3
    <3>2. ASSUME Queued(u), u # h PROVE Queued(u)'
      <4>1. PICK i \in 1..Len(tasks) : tasks[i] = u
        BY <3>2
      <4>2. i - 1 \in 1..Len(tasks') /\ tasks'[i - 1] = u
        BY <1>0, <2>2, <2>3, <3>2, <4>1
      <4> QED BY <4>2
    <3> QED BY <3>1, <3>2
  <2>6. \A u \in Tasks : HeldBy(u)' = IF u = h THEN HeldBy(u) \cup {w} ELSE HeldBy(u)
    BY <2>1 DEF TypeOK
  <2>7. Queued(h) /\ HeldBy(h) = {} /\ future[h] = "pending"
    BY <1>0, <2>2, <2>3
  <2> HIDE DEF Queued, HeldBy, h
  <2> QED BY <2>1, <2>2, <2>4, <2>5, <2>6, <2>7
<1>4. ASSUME NEW w \in Workers, EndTask(w) PROVE PendingHasOneCarrier'
  <2> DEFINE e == task[w]
  <2>1. /\ e \in Tasks /\ tasks' = tasks
        /\ future' = [future EXCEPT ![e] = "ready"]
        /\ task' = [task EXCEPT ![w] = NoTask]
    BY <1>4 DEF EndTask, TypeOK
  <2>2. w \in HeldBy(e)
    OBVIOUS
  <2>3. \A u \in Tasks : Queued(u)' <=> Queued(u)
    BY <2>1
  <2>4. \A u \in Tasks : HeldBy(u)' = IF u = e THEN {} ELSE HeldBy(u)
    BY <2>1, <2>2 DEF TypeOK
  <2>5. \A u \in Tasks : future'[u] = IF u = e THEN "ready" ELSE future[u]
    BY <2>1 DEF TypeOK
  <2>6. \A i, j \in 1..Len(tasks') : tasks'[i] = tasks'[j] => i = j
    BY <2>1
  <2>7. ~Queued(e)
    BY <2>1, <2>2
  <2> HIDE DEF Queued, HeldBy, e
  <2> QED BY <2>3, <2>4, <2>5, <2>6, <2>7
<1>5. CASE UNCHANGED <<tasks, task, future>>
  BY <1>5
<1> QED
  BY <1>1, <1>2, <1>3, <1>4, <1>5
  DEF Next, vars, NotifyOne, WaitForWork, SpuriousWake, WorkerReturns,
      ReturnFromTask, ThrowFromTask, SetStop, NotifyAll, JoinWorkers, Destroyed

-----------------------------------------------------------------------------
(***************************************************************************)
(* Shutdown                                                                *)
(***************************************************************************)

LEMMA ShutdownStep ==
    /\ TypeOK /\ ShutdownState /\ WorkersNotifyFromTasks /\ [Next]_vars
    => ShutdownState' /\ WorkersNotifyFromTasks'
<1> SUFFICES ASSUME TypeOK, ShutdownState, WorkersNotifyFromTasks, [Next]_vars
             PROVE  ShutdownState' /\ WorkersNotifyFromTasks'
  OBVIOUS
<1> USE WorkersAssumption, ClientsAssumption, TasksAssumption
    DEF ShutdownState, WorkersNotifyFromTasks, TypeOK, Enqueuers
<1> DEFINE Goal == ShutdownState' /\ WorkersNotifyFromTasks'
<1>1. ASSUME NEW p \in Enqueuers, NEW t \in Tasks, Accept(p, t) PROVE Goal
  <2>1. \A w \in Workers : notifying'[w] # NoTask => workerPc[w] = "running"
    BY <1>1 DEF Accept, Calls
  <2>2. UNCHANGED <<stop, workerPc, dtor>> /\ ~stop
    BY <1>1 DEF Accept
  <2>3. \A w \in Workers : workerPc[w] # "returned"
    BY <2>2
  <2> QED BY <2>1, <2>2, <2>3
<1>2. ASSUME NEW p \in Enqueuers, NEW t \in Tasks, Reject(p, t) PROVE Goal
  BY <1>2 DEF Reject
<1>3. ASSUME NEW p \in Enqueuers, NotifyOne(p) PROVE Goal
  BY <1>3 DEF NotifyOne, Wake, Waiting
<1>4. ASSUME NEW w \in Workers, TakeTask(w) PROVE Goal
  BY <1>4 DEF TakeTask
<1>5. ASSUME NEW w \in Workers, WaitForWork(w) PROVE Goal
  BY <1>5 DEF WaitForWork
<1>6. ASSUME NEW w \in Workers, SpuriousWake(w) PROVE Goal
  BY <1>6 DEF SpuriousWake, Wake
<1>7. ASSUME NEW w \in Workers, WorkerReturns(w) PROVE Goal
  BY <1>7 DEF WorkerReturns
<1>8. ASSUME NEW w \in Workers, EndTask(w) PROVE Goal
  BY <1>8 DEF EndTask
<1>9. CASE SetStop
  BY <1>9 DEF SetStop
<1>10. CASE NotifyAll
  BY <1>10 DEF NotifyAll, Wake, Waiting
<1>11. CASE JoinWorkers
  BY <1>11 DEF JoinWorkers
<1>12. CASE UNCHANGED vars
  BY <1>12 DEF vars
<1> HIDE DEF Goal
<1> QED
  BY <1>1, <1>2, <1>3, <1>4, <1>5, <1>6, <1>7, <1>8, <1>9, <1>10, <1>11, <1>12
  DEF Next, ReturnFromTask, ThrowFromTask, Destroyed, Goal

\* When the joins have returned no worker is left to carry a pending future.
LEMMA DrainedLemma ==
    /\ TypeOK /\ PendingHasOneCarrier /\ ShutdownState /\ WorkersNotifyFromTasks
    => DrainedWhenDestroyed
<1> SUFFICES ASSUME TypeOK, PendingHasOneCarrier, ShutdownState, WorkersNotifyFromTasks,
                    dtor = "done"
             PROVE  /\ tasks = <<>>
                    /\ \A t \in Tasks : future[t] # "pending"
                    /\ \A w \in Workers : workerPc[w] = "returned" /\ notifying[w] = NoTask
  BY DEF DrainedWhenDestroyed
<1>1. \A w \in Workers : workerPc[w] = "returned"
  BY DEF ShutdownState
<1>2. tasks = <<>>
  BY <1>1, WorkersAssumption DEF ShutdownState
<1>3. \A w \in Workers : notifying[w] = NoTask
  BY <1>1 DEF WorkersNotifyFromTasks
<1>4. \A t \in Tasks : HeldBy(t) = {}
  BY <1>1, TasksAssumption DEF HeldBy, TypeOK
<1>5. \A t \in Tasks : ~Queued(t)
  BY <1>2, EmptySeq DEF Queued
<1> QED BY <1>1, <1>2, <1>3, <1>4, <1>5 DEF PendingHasOneCarrier

-----------------------------------------------------------------------------
(***************************************************************************)
(* Wake-ups                                                                *)
(***************************************************************************)

LEMMA AwakeAndNotifyingFinite ==
    /\ IsFiniteSet(Awake) /\ Cardinality(Awake) \in Nat
    /\ IsFiniteSet(Notifying) /\ Cardinality(Notifying) \in Nat
<1>1. IsFiniteSet(Enqueuers)
  BY WorkersAssumption, ClientsAssumption, FS_Union DEF Enqueuers
<1>2. Awake \in SUBSET Workers /\ Notifying \in SUBSET Enqueuers
  BY DEF Awake, Notifying
<1> QED BY <1>1, <1>2, WorkersAssumption, FS_Subset, FS_CardinalityType

\* After notify_all() nobody goes to sleep any more.
LEMMA NobodySleepsOn ==
    ASSUME TypeOK, ShutdownState, NoLostWakeup, [Next]_vars, Waiting' # {}, dtor' # "stopped"
    PROVE  dtor' = "idle"
<1> USE DEF Waiting, TypeOK
<1>1. CASE NotifyAll
  BY <1>1 DEF NotifyAll, Wake, AllWaiting
<1>2. CASE SetStop
  BY <1>2 DEF SetStop
<1>3. CASE JoinWorkers
  BY <1>3 DEF JoinWorkers
<1>4. ASSUME NEW w \in Workers, WaitForWork(w) PROVE dtor' = "idle"
  BY <1>4 DEF WaitForWork, Goes, ShutdownState
<1>5. CASE Waiting' \subseteq Waiting /\ UNCHANGED dtor
  BY <1>5 DEF NoLostWakeup
<1>6. ASSUME NEW p \in Enqueuers, NotifyOne(p) PROVE dtor' = "idle"
  BY <1>5, <1>6 DEF NotifyOne, Wake, ending
<1>7. ASSUME NEW w \in Workers,
             TakeTask(w) \/ SpuriousWake(w) \/ WorkerReturns(w) \/ EndTask(w)
      PROVE  dtor' = "idle"
  BY <1>5, <1>7 DEF TakeTask, SpuriousWake, WorkerReturns, Goes, EndTask, ending
<1>8. ASSUME NEW p \in Enqueuers, NEW t \in Tasks, Accept(p, t) \/ Reject(p, t)
      PROVE  dtor' = "idle"
  BY <1>5, <1>8 DEF Accept, Reject, ending
<1>9. CASE UNCHANGED vars
  BY <1>5, <1>9 DEF vars, ending
<1> QED
  BY <1>1, <1>2, <1>3, <1>4, <1>6, <1>7, <1>8, <1>9
  DEF Next, ReturnFromTask, ThrowFromTask, Destroyed

LEMMA WakeupStep ==
    TypeOK /\ ShutdownState /\ NoLostWakeup /\ [Next]_vars => NoLostWakeup'
<1> SUFFICES ASSUME TypeOK, ShutdownState, NoLostWakeup, [Next]_vars,
                    Waiting' # {}, dtor' # "stopped"
             PROVE  Len(tasks') <= Cardinality(Awake') + Cardinality(Notifying')
  BY NobodySleepsOn DEF NoLostWakeup
<1> DEFINE Goal == Len(tasks') <= Cardinality(Awake') + Cardinality(Notifying')
<1>0. /\ tasks \in Seq(Tasks) /\ Len(tasks) \in Nat
      /\ Waiting # {} /\ dtor # "stopped"
            => Len(tasks) <= Cardinality(Awake) + Cardinality(Notifying)
  BY LenProperties DEF TypeOK, NoLostWakeup
<1> USE TasksAssumption, AwakeAndNotifyingFinite
<1>1. ASSUME NEW p \in Enqueuers, NEW t \in Tasks, Accept(p, t) PROVE Goal
  <2>1. /\ Waiting' = Waiting /\ Awake' = Awake /\ dtor' = dtor
        /\ p \notin Notifying /\ Notifying' = Notifying \cup {p}
    BY <1>1 DEF Accept, Calls, Waiting, Awake, Notifying, TypeOK
  <2>2. Cardinality(Notifying') = Cardinality(Notifying) + 1
    BY <2>1, FS_AddElement
  <2>3. Len(tasks') = Len(tasks) + 1
    BY <1>0, <1>1, AppendProperties DEF Accept
  <2> QED BY <1>0, <2>1, <2>2, <2>3
<1>2. ASSUME NEW p \in Enqueuers, NotifyOne(p) PROVE Goal
  <2>1. Waiting # {}
    BY <1>2 DEF NotifyOne, Waiting
  <2>2. PICK w \in Waiting : Wake({w})
    BY <1>2, <2>1 DEF NotifyOne
  <2>3. w \notin Awake /\ Awake' = Awake \cup {w}
    BY <2>2 DEF Wake, Waiting, Awake, TypeOK
  <2>4. p \in Notifying /\ Notifying' = Notifying \ {p}
    BY <1>2 DEF NotifyOne, Notifying, TypeOK
  <2>5. /\ Cardinality(Awake') = Cardinality(Awake) + 1
        /\ Cardinality(Notifying') = Cardinality(Notifying) - 1
    BY <2>3, <2>4, FS_AddElement, FS_RemoveElement
  <2>6. tasks' = tasks /\ dtor' = dtor
    BY <1>2 DEF NotifyOne
  <2> QED BY <1>0, <2>1, <2>5, <2>6
<1>3. ASSUME NEW w \in Workers, TakeTask(w) PROVE Goal
  <2>1. /\ w \in Awake /\ Awake' = Awake \ {w}
        /\ Waiting' = Waiting /\ Notifying' = Notifying /\ dtor' = dtor
    BY <1>3 DEF TakeTask, Awake, Waiting, Notifying, TypeOK
  <2>2. Cardinality(Awake') = Cardinality(Awake) - 1
    BY <2>1, FS_RemoveElement
  <2>3. Len(tasks') = Len(tasks) - 1
    BY <1>0, <1>3, HeadTailProperties DEF TakeTask
  <2> QED BY <1>0, <2>1, <2>2, <2>3
<1>4. ASSUME NEW w \in Workers, WaitForWork(w) PROVE Goal
  <2>1. Len(tasks') = 0
    BY <1>4, EmptySeq DEF WaitForWork
  <2>2. Awake' = Awake \ {w} /\ Notifying' = Notifying
    BY <1>4 DEF WaitForWork, Awake, Notifying, TypeOK
  <2>3. Cardinality(Awake') \in Nat
    BY <2>2, FS_RemoveElement, FS_CardinalityType
  <2> QED BY <2>1, <2>2, <2>3
<1>5. ASSUME NEW w \in Workers, SpuriousWake(w) PROVE Goal
  <2>1. /\ w \in Waiting /\ w \notin Awake /\ Awake' = Awake \cup {w}
        /\ Notifying' = Notifying /\ tasks' = tasks /\ dtor' = dtor
    BY <1>5 DEF SpuriousWake, Wake, Awake, Waiting, Notifying, TypeOK
  <2>2. Cardinality(Awake') = Cardinality(Awake) + 1
    BY <2>1, FS_AddElement
  <2> QED BY <1>0, <2>1, <2>2
<1>6. ASSUME NEW w \in Workers, WorkerReturns(w) PROVE Goal
  <2>1. Len(tasks') = 0
    BY <1>6, EmptySeq DEF WorkerReturns
  <2>2. Awake' = Awake \ {w} /\ Notifying' = Notifying
    BY <1>6 DEF WorkerReturns, Awake, Notifying, TypeOK
  <2>3. Cardinality(Awake') \in Nat
    BY <2>2, FS_RemoveElement, FS_CardinalityType
  <2> QED BY <2>1, <2>2, <2>3
<1>7. ASSUME NEW w \in Workers, EndTask(w) PROVE Goal
  <2>1. /\ w \notin Awake /\ Awake' = Awake \cup {w} /\ Waiting' = Waiting
        /\ Notifying' = Notifying /\ tasks' = tasks /\ dtor' = dtor
    BY <1>7 DEF EndTask, Awake, Waiting, Notifying, TypeOK
  <2>2. Cardinality(Awake') = Cardinality(Awake) + 1
    BY <2>1, FS_AddElement
  <2> QED BY <1>0, <2>1, <2>2
<1>8. CASE NotifyAll
  BY <1>8 DEF NotifyAll, Wake, Waiting
<1>9. CASE JoinWorkers
  BY <1>0, <1>9 DEF JoinWorkers, Waiting, Awake, Notifying
<1>10. CASE UNCHANGED <<tasks, workerPc, notifying, dtor>>
  BY <1>0, <1>10 DEF Waiting, Awake, Notifying
<1>11. ~SetStop
  BY DEF SetStop
<1> HIDE DEF Goal
<1> QED
  BY <1>1, <1>2, <1>3, <1>4, <1>5, <1>6, <1>7, <1>8, <1>9, <1>10, <1>11
  DEF Next, vars, Reject, ReturnFromTask, ThrowFromTask, Destroyed, Goal

-----------------------------------------------------------------------------
(***************************************************************************)
(* What was accepted, and before what                                      *)
(***************************************************************************)

LEMMA AcceptedStep ==
    /\ TypeOK /\ PendingHasOneCarrier /\ AcceptedHaveFutures
    /\ AcceptedOnce /\ AcceptedAfterNeeds /\ [Next]_vars
    => AcceptedHaveFutures' /\ AcceptedOnce' /\ AcceptedAfterNeeds'
<1> SUFFICES ASSUME TypeOK, PendingHasOneCarrier, AcceptedHaveFutures, AcceptedOnce,
                    AcceptedAfterNeeds, [Next]_vars
             PROVE  AcceptedHaveFutures' /\ AcceptedOnce' /\ AcceptedAfterNeeds'
  OBVIOUS
<1> USE TasksAssumption DEF AcceptedHaveFutures, AcceptedOnce, AcceptedAfterNeeds
<1>0. accepted \in Seq(Tasks) /\ Len(accepted) \in Nat
  BY LenProperties DEF TypeOK
<1>1. ASSUME NEW p \in Enqueuers, NEW t \in Tasks, Accept(p, t)
      PROVE  AcceptedHaveFutures' /\ AcceptedOnce' /\ AcceptedAfterNeeds'
  <2>1. /\ \A u \in Needs[t] \ Spawns[t] : future[u] \in {"pending", "ready"}
        /\ future[t] = "none" /\ future' = [future EXCEPT ![t] = "pending"]
        /\ accepted' = Append(accepted, t)
    BY <1>1 DEF Accept, Calls, HasReturned
  <2>2. /\ Len(accepted') = Len(accepted) + 1
        /\ \A i \in 1..Len(accepted) : accepted'[i] = accepted[i]
        /\ accepted'[Len(accepted) + 1] = t
    BY <1>0, <2>1, AppendProperties
  <2>3. \A u \in Tasks : future'[u] = IF u = t THEN "pending" ELSE future[u]
    BY <2>1 DEF TypeOK
  <2>4. AcceptedHaveFutures'
    <3>1. ASSUME NEW u \in Tasks
          PROVE  (\E i \in 1..Len(accepted') : accepted'[i] = u)
                 <=> (u = t \/ \E i \in 1..Len(accepted) : accepted[i] = u)
      BY <1>0, <2>2
    <3> QED BY <2>3, <3>1
  <2>5. ASSUME NEW i \in 1..Len(accepted'), NEW u \in Needs[accepted'[i]] \ Spawns[accepted'[i]]
        PROVE  \E j \in 1..(i - 1) : accepted'[j] = u
    <3>1. CASE i \in 1..Len(accepted)
      <4>1. PICK j \in 1..(i - 1) : accepted[j] = u
        BY <2>2, <2>5, <3>1
      <4>2. j \in 1..Len(accepted)
        BY <1>0, <3>1
      <4> QED BY <2>2, <4>1, <4>2
    <3>2. CASE i = Len(accepted) + 1
      <4>1. u \in Tasks /\ future[u] \in {"pending", "ready"}
        BY <2>1, <2>2, <2>5, <3>2
      <4>2. PICK j \in 1..Len(accepted) : accepted[j] = u
        BY <4>1
      <4>3. j \in 1..(i - 1)
        BY <1>0, <3>2
      <4> QED BY <2>2, <4>2, <4>3
    <3> QED BY <1>0, <2>2, <2>5, <3>1, <3>2
  <2>6. AcceptedOnce'
    <3>1. \A i \in 1..Len(accepted) : accepted[i] # t
      BY <2>1
    <3> QED BY <1>0, <2>2, <3>1
  <2> QED BY <2>4, <2>5, <2>6
<1>2. ASSUME NEW p \in Enqueuers, NEW t \in Tasks, Reject(p, t)
      PROVE  AcceptedHaveFutures' /\ AcceptedOnce' /\ AcceptedAfterNeeds'
  <2>1. /\ future[t] = "none" /\ future' = [future EXCEPT ![t] = "rejected"]
        /\ accepted' = accepted
    BY <1>2 DEF Reject, Calls
  <2>2. \A u \in Tasks : future'[u] = IF u = t THEN "rejected" ELSE future[u]
    BY <2>1 DEF TypeOK
  <2> QED BY <2>1, <2>2
<1>3. ASSUME NEW w \in Workers, EndTask(w)
      PROVE  AcceptedHaveFutures' /\ AcceptedOnce' /\ AcceptedAfterNeeds'
  <2> DEFINE e == task[w]
  <2>1. /\ e \in Tasks /\ future' = [future EXCEPT ![e] = "ready"] /\ accepted' = accepted
    BY <1>3 DEF EndTask, TypeOK
  <2>2. future[e] = "pending"
    BY <2>1 DEF PendingHasOneCarrier, HeldBy
  <2>3. \A u \in Tasks : future'[u] = IF u = e THEN "ready" ELSE future[u]
    BY <2>1 DEF TypeOK
  <2> HIDE DEF e
  <2> QED BY <2>1, <2>2, <2>3
<1>4. CASE UNCHANGED <<accepted, future>>
  <2>1. accepted' = accepted /\ future' = future
    BY <1>4
  <2>2. AcceptedHaveFutures' /\ AcceptedOnce'
    BY <2>1
  <2>3. AcceptedAfterNeeds'
    BY <2>1
  <2> QED BY <2>2, <2>3
<1> QED
  BY <1>1, <1>2, <1>3, <1>4
  DEF Next, vars, NotifyOne, TakeTask, WaitForWork, SpuriousWake, WorkerReturns,
      ReturnFromTask, ThrowFromTask, SetStop, NotifyAll, JoinWorkers, Destroyed

-----------------------------------------------------------------------------
(***************************************************************************)
(* The invariant and what follows from it                                  *)
(***************************************************************************)

LEMMA InvInit == Init => Inv
<1> SUFFICES ASSUME Init PROVE Inv
  OBVIOUS
<1>1. TypeOK
  BY TypeInit
<1>2. FifoDispatch
  BY ConcatEmptySeq, EmptySeq DEF Init, FifoDispatch
<1>3. PendingHasOneCarrier
  BY EmptySeq, TasksAssumption DEF Init, PendingHasOneCarrier, Queued, HeldBy
<1>4. ShutdownState
  BY WorkersAssumption DEF Init, ShutdownState
<1>5. WorkersNotifyFromTasks
  BY DEF Init, WorkersNotifyFromTasks, Enqueuers
<1>6. NoLostWakeup
  BY DEF Init, NoLostWakeup, Waiting
<1>7. AcceptedHaveFutures /\ AcceptedOnce /\ AcceptedAfterNeeds
  BY EmptySeq DEF Init, AcceptedHaveFutures, AcceptedOnce, AcceptedAfterNeeds
<1> QED BY <1>1, <1>2, <1>3, <1>4, <1>5, <1>6, <1>7 DEF Inv

LEMMA InvStep == Inv /\ [Next]_vars => Inv'
BY TypeStep, FifoStep, CarrierStep, ShutdownStep, WakeupStep, AcceptedStep DEF Inv

LEMMA InvHolds == Spec => []Inv
BY InvInit, InvStep, PTL DEF Spec

\* Whatever the schedule, the workers take the accepted tasks in the order of
\* acceptance, each exactly once.
THEOREM FifoCorrect == Spec => []FifoDispatch
BY InvHolds, PTL DEF Inv

\* Every pending future is carried by one place in the queue or one worker.
THEOREM CarrierCorrect == Spec => []PendingHasOneCarrier
BY InvHolds, PTL DEF Inv

\* notify_one() outside the mutex loses no wake-up.
THEOREM NoWakeupIsLost == Spec => []NoLostWakeup
BY InvHolds, PTL DEF Inv

\* The destructor's joins leave no task, no pending future and no worker.
THEOREM DestructorDrains == Spec => []DrainedWhenDestroyed
<1>1. Inv => DrainedWhenDestroyed
  BY DrainedLemma DEF Inv
<1> QED BY <1>1, InvHolds, PTL

-----------------------------------------------------------------------------
(***************************************************************************)
(* Tasks that wait for one another                                         *)
(***************************************************************************)

\* D contains the tasks that wait for one they enqueue themselves, and those that
\* wait for a task of D: all that may wait for the end of the queue.
ContainsDeepWaits(D) ==
    \A t \in Tasks \ D : Needs[t] \cap Spawns[t] = {} /\ Needs[t] \cap D = {}

\* No tasks of D wait for one another in a circle.
NoCircle(D) ==
    \A S \in SUBSET D : S # {} => \E t \in S : Needs[t] \cap S = {}

Pending == {t \in Tasks : future[t] = "pending"}
CanReturn == \E w \in Workers : workerPc[w] = "running" /\ ~Blocks(task[w])

\* What blocks an accepted task is pending.
LEMMA BlockedByPending ==
    ASSUME Inv, NEW t \in Pending, Blocks(t)
    PROVE  \E u \in Needs[t] : u \in Pending
<1> USE TasksAssumption DEF Pending
<1>1. PICK u \in Needs[t] : ~Ready(u) /\ (u \in Spawns[t] => future[u] = "pending")
  BY DEF Blocks
<1>2. u \in Tasks
  OBVIOUS
<1>3. CASE u \in Spawns[t]
  BY <1>1, <1>2, <1>3
<1>4. CASE u \notin Spawns[t]
  <2>1. PICK i \in 1..Len(accepted) : accepted[i] = t
    BY DEF Inv, AcceptedHaveFutures
  <2>2. PICK j \in 1..(i - 1) : accepted[j] = u
    BY <1>4, <2>1 DEF Inv, AcceptedAfterNeeds
  <2>3. j \in 1..Len(accepted)
    BY LenProperties DEF Inv, TypeOK
  <2>4. future[u] \in {"pending", "ready"}
    BY <1>2, <2>2, <2>3 DEF Inv, AcceptedHaveFutures
  <2> QED BY <1>1, <1>2, <2>4 DEF Ready
<1> QED BY <1>3, <1>4

\* The tasks held by a worker were taken from the queue: they come before all
\* that are still in it.
LEMMA HeldAreRunning ==
    ASSUME Inv, NEW t \in Pending, ~Queued(t)
    PROVE  \E w \in Workers : task[w] = t /\ workerPc[w] = "running"
<1>1. HeldBy(t) # {}
  BY DEF Inv, PendingHasOneCarrier, Pending
<1> QED BY <1>1, TasksAssumption DEF HeldBy, Pending, Inv, TypeOK

LEMMA QueuedAreLast ==
    ASSUME Inv, NEW i \in 1..Len(accepted), Queued(accepted[i]),
           NEW j \in 1..Len(accepted), accepted[j] \in Pending, ~Queued(accepted[j])
    PROVE  j < i
<1>1. /\ tasks \in Seq(Tasks) /\ started \in Seq(Tasks) /\ accepted = started \o tasks
      /\ Len(tasks) \in Nat /\ Len(started) \in Nat
  BY LenProperties DEF Inv, TypeOK, FifoDispatch
<1>2. /\ Len(accepted) = Len(started) + Len(tasks)
      /\ \A k \in 1..Len(accepted) :
            accepted[k] = IF k <= Len(started) THEN started[k] ELSE tasks[k - Len(started)]
  BY <1>1, ConcatProperties
<1>3. j <= Len(started)
  <2>1. SUFFICES ASSUME ~(j <= Len(started)) PROVE FALSE
    OBVIOUS
  <2>2. accepted[j] = tasks[j - Len(started)] /\ j - Len(started) \in 1..Len(tasks)
    BY <1>1, <1>2, <2>1
  <2> QED BY <2>2 DEF Queued
<1>4. i > Len(started)
  <2>1. PICK k \in 1..Len(tasks) : tasks[k] = accepted[i]
    BY DEF Queued
  <2>2. Len(started) + k \in 1..Len(accepted) /\ accepted[Len(started) + k] = accepted[i]
    BY <1>1, <1>2, <2>1
  <2>3. Len(started) + k = i
    BY <2>2 DEF Inv, AcceptedOnce
  <2> QED BY <1>1, <2>1, <2>3
<1> QED BY <1>1, <1>3, <1>4


\* A task outside D that runs or is behind one that runs: among those that are
\* pending the first to be accepted runs, and nothing blocks it.
LEMMA ShallowCanReturn ==
    ASSUME NEW D \in SUBSET Tasks, ContainsDeepWaits(D), Inv,
           NEW s \in Pending \ D, ~Queued(s)
    PROVE  CanReturn
<1> USE TasksAssumption
<1> DEFINE Index == {i \in 1..Len(accepted) : accepted[i] \in Pending \ D}
<1>0. Len(accepted) \in Nat
  BY LenProperties DEF Inv, TypeOK
<1>1. PICK k \in 1..Len(accepted) : accepted[k] = s
  BY DEF Inv, AcceptedHaveFutures, Pending
<1>2. Index \in SUBSET Nat /\ k \in Index
  BY <1>0, <1>1
<1>3. PICK i \in Index : \A j \in Index : i <= j
  <2> HIDE DEF Index
  <2> QED BY <1>2, NatLeast
<1> DEFINE t == accepted[i]
<1>4. t \in Pending \ D /\ t \in Tasks /\ i <= k
  BY <1>2, <1>3 DEF Pending
<1>5. ~Queued(t)
  BY <1>1, <1>3, <1>4, <1>0, QueuedAreLast
<1>6. ~Blocks(t)
  <2>1. SUFFICES ASSUME Blocks(t) PROVE FALSE
    OBVIOUS
  <2>2. PICK u \in Needs[t] : u \in Pending
    BY <1>4, <2>1, BlockedByPending
  <2>3. u \notin Spawns[t] /\ u \notin D
    BY <1>4, <2>2 DEF ContainsDeepWaits
  <2>4. PICK j \in 1..(i - 1) : accepted[j] = u
    BY <1>3, <2>2, <2>3 DEF Inv, AcceptedAfterNeeds
  <2>5. j \in Index /\ j < i
    BY <1>0, <1>3, <2>2, <2>3, <2>4
  <2> QED BY <1>0, <1>3, <2>5
<1>7. PICK w \in Workers : task[w] = t /\ workerPc[w] = "running"
  BY <1>4, <1>5, HeldAreRunning
<1> QED BY <1>6, <1>7 DEF CanReturn

\* If nothing is queued, a pending task of D that waits for no pending task runs.
LEMMA DeepCanReturn ==
    ASSUME NEW D \in SUBSET Tasks, NoCircle(D), Inv, tasks = <<>>,
           Pending # {}, Pending \subseteq D
    PROVE  CanReturn
<1>1. PICK t \in Pending : Needs[t] \cap Pending = {}
  BY DEF NoCircle
<1>2. ~Blocks(t)
  BY <1>1, BlockedByPending
<1>3. ~Queued(t)
  BY EmptySeq DEF Queued
<1>4. PICK w \in Workers : task[w] = t /\ workerPc[w] = "running"
  BY <1>3, HeldAreRunning
<1> QED BY <1>2, <1>4 DEF CanReturn

\* Not all workers can be running tasks of D.
LEMMA SomeTaskIsShallow ==
    ASSUME NEW D \in SUBSET Tasks, Cardinality(D) < Cardinality(Workers), Inv,
           \A w \in Workers : workerPc[w] = "running"
    PROVE  \E w \in Workers : task[w] \in Pending \ D /\ ~Queued(task[w])
<1> USE TasksAssumption, WorkersAssumption
<1>1. ASSUME NEW w \in Workers
      PROVE  /\ task[w] \in Pending /\ ~Queued(task[w])
             /\ HeldBy(task[w]) = {w}
  <2>1. task[w] \in Tasks /\ w \in HeldBy(task[w])
    BY DEF Inv, TypeOK, HeldBy
  <2> QED BY <2>1 DEF Inv, PendingHasOneCarrier, Pending
<1>2. SUFFICES ASSUME \A w \in Workers : task[w] \in D PROVE FALSE
  BY <1>1
<1>3. task \in Injection(Workers, D)
  <2>1. task \in [Workers -> D]
    BY <1>2 DEF Inv, TypeOK
  <2>2. ASSUME NEW v \in Workers, NEW w \in Workers, task[v] = task[w] PROVE v = w
    BY <1>1, <2>2
  <2> QED BY <2>1, <2>2 DEF Injection, IsInjective
<1>4. IsFiniteSet(D)
  BY FS_Subset
<1>5. Cardinality(Workers) <= Cardinality(D)
  BY <1>3, <1>4, FS_Injection
<1>6. Cardinality(Workers) \in Nat /\ Cardinality(D) \in Nat
  BY <1>4, FS_CardinalityType
<1> QED BY <1>5, <1>6

LEMMA CanGoOnLemma ==
    ASSUME NEW D \in SUBSET Tasks, ContainsDeepWaits(D), NoCircle(D),
           Cardinality(D) < Cardinality(Workers), Inv
    PROVE  PoolCanGoOn
<1> SUFFICES ASSUME Pending # {}, ~CanReturn
             PROVE  /\ tasks # <<>>
                    /\ \/ Awake # {}
                       \/ Waiting # {} /\ (Notifying # {} \/ dtor = "stopped")
  BY DEF PoolCanGoOn, Pending, CanReturn
<1>1. tasks # <<>>
  <2>1. SUFFICES ASSUME tasks = <<>> PROVE FALSE
    OBVIOUS
  <2>2. \A t \in Tasks : ~Queued(t)
    BY <2>1, EmptySeq DEF Queued
  <2>3. Pending \subseteq D
    BY <2>2, ShallowCanReturn DEF Pending
  <2> QED BY <2>1, <2>3, DeepCanReturn
<1>2. SUFFICES ASSUME Awake = {} PROVE Waiting # {} /\ (Notifying # {} \/ dtor = "stopped")
  BY <1>1
<1>3. \A w \in Workers : workerPc[w] \in {"waiting", "running"}
  BY <1>1, <1>2 DEF Awake, Inv, ShutdownState, TypeOK
<1>4. Waiting # {}
  <2>1. SUFFICES ASSUME Waiting = {} PROVE FALSE
    OBVIOUS
  <2>2. PICK w \in Workers : task[w] \in Pending \ D /\ ~Queued(task[w])
    BY <1>3, <2>1, SomeTaskIsShallow DEF Waiting
  <2> QED BY <2>2, ShallowCanReturn
<1>5. SUFFICES ASSUME Notifying = {}, dtor # "stopped" PROVE FALSE
  BY <1>4
<1>6. Len(tasks) <= 0
  BY <1>2, <1>4, <1>5, FS_EmptySet DEF Inv, NoLostWakeup
<1> QED BY <1>1, <1>6, EmptySeq, LenProperties DEF Inv, TypeOK

\* The pool does not come to a halt as long as the tasks that may wait for the end
\* of the queue are fewer than its workers and do not wait in a circle; all other
\* tasks may wait, in any number, for those that were accepted before them.
THEOREM TasksNeverHaltPool ==
    ASSUME NEW D \in SUBSET Tasks, ContainsDeepWaits(D), NoCircle(D),
           Cardinality(D) < Cardinality(Workers)
    PROVE  Spec => []PoolCanGoOn
<1>1. Inv => PoolCanGoOn
  BY CanGoOnLemma
<1> QED BY <1>1, InvHolds, PTL

\* A single worker is enough where no task waits for one that it enqueues itself.
THEOREM EarlierTasksNeverHaltPool ==
    ASSUME \A t \in Tasks : Needs[t] \cap Spawns[t] = {}
    PROVE  Spec => []PoolCanGoOn
<1>1. ContainsDeepWaits({}) /\ NoCircle({})
  BY DEF ContainsDeepWaits, NoCircle
<1>2. Cardinality({}) < Cardinality(Workers)
  BY WorkersAssumption, FS_EmptySet, FS_CardinalityType
<1>3. Inv => PoolCanGoOn
  BY <1>1, <1>2, CanGoOnLemma
<1> QED BY <1>3, InvHolds, PTL

-----------------------------------------------------------------------------
(***************************************************************************)
(* The abstract service                                                    *)
(***************************************************************************)

\* The tasks that the workers hold, and the workers that hold one.
Active == {t \in Tasks : HeldBy(t) # {}}
Running == {w \in Workers : task[w] # NoTask}

\* A worker that is free makes a slot free: every active task has its own worker.
LEMMA SlotIsFree ==
    ASSUME TypeOK, NEW w \in Workers, task[w] = NoTask
    PROVE  Cardinality(Active) < Cardinality(Workers)
<1>1. Running \in SUBSET (Workers \ {w})
  BY DEF Running
<1>2. /\ IsFiniteSet(Workers \ {w}) /\ Cardinality(Workers) \in Nat
      /\ Cardinality(Workers \ {w}) = Cardinality(Workers) - 1
  BY WorkersAssumption, FS_RemoveElement, FS_CardinalityType
<1>3. IsFiniteSet(Running) /\ Cardinality(Running) <= Cardinality(Workers) - 1
  BY <1>1, <1>2, FS_Subset
<1> DEFINE f == [v \in Running |-> task[v]]
<1>4. f \in Surjection(Running, Active)
  BY TasksAssumption DEF Surjection, Running, Active, HeldBy, TypeOK
<1>5. IsFiniteSet(Active) /\ Cardinality(Active) <= Cardinality(Running)
  BY <1>3, <1>4, FS_Surjection
<1>6. Cardinality(Active) \in Nat /\ Cardinality(Running) \in Nat
  BY <1>3, <1>5, FS_CardinalityType
<1> QED BY <1>2, <1>3, <1>5, <1>6

LEMMA ServiceInit == Init => Service!Init
<1> SUFFICES ASSUME Init PROVE Service!Init
  OBVIOUS
<1>1. \A t \in Tasks : HeldBy(t) = {}
  BY TasksAssumption DEF Init, HeldBy
<1> QED BY <1>1 DEF Init, Service!Init

LEMMA ServiceStep == Inv /\ [Next]_vars => [Service!Next]_(Service!vars)
<1> SUFFICES ASSUME Inv, [Next]_vars PROVE [Service!Next]_(Service!vars)
  OBVIOUS
<1> USE TasksAssumption
<1>0. TypeOK /\ PendingHasOneCarrier /\ ShutdownState /\ WorkersNotifyFromTasks
  BY DEF Inv
<1>1. ASSUME UNCHANGED <<tasks, task, future, stop>>, dtor' = "done" <=> dtor = "done"
      PROVE  UNCHANGED Service!vars
  <2>1. \A t \in Tasks : HeldBy(t)' = HeldBy(t)
    BY <1>1 DEF HeldBy
  <2> QED BY <1>1, <2>1 DEF Service!vars
<1>2. CASE \/ \E p \in Enqueuers : NotifyOne(p)
           \/ \E w \in Workers : WaitForWork(w) \/ SpuriousWake(w) \/ WorkerReturns(w)
           \/ NotifyAll \/ UNCHANGED vars
  <2>1. UNCHANGED <<tasks, task, future, stop>> /\ (dtor' = "done" <=> dtor = "done")
    BY <1>2 DEF NotifyOne, WaitForWork, SpuriousWake, WorkerReturns, NotifyAll, vars
  <2> QED BY <1>1, <2>1
<1>3. ASSUME NEW p \in Enqueuers, NEW t \in Tasks, Accept(p, t) PROVE Service!Submit(t)
  <2>1. /\ future[t] = "none" /\ dtor # "done" /\ ~stop
        /\ \A u \in Needs[t] \ Spawns[t] : future[u] \in {"pending", "ready"}
        /\ tasks' = Append(tasks, t) /\ future' = [future EXCEPT ![t] = "pending"]
        /\ UNCHANGED <<task, stop, dtor>>
    BY <1>3 DEF Accept, Calls, HasReturned
  <2>2. \A u \in Tasks : HeldBy(u)' = HeldBy(u)
    BY <2>1 DEF HeldBy
  <2> QED BY <2>1, <2>2 DEF Service!Submit
<1>4. ASSUME NEW p \in Enqueuers, NEW t \in Tasks, Reject(p, t) PROVE Service!Refuse(t)
  <2>1. /\ future[t] = "none" /\ dtor # "done" /\ stop
        /\ future' = [future EXCEPT ![t] = "rejected"]
        /\ UNCHANGED <<tasks, task, stop, dtor>>
    BY <1>4 DEF Reject, Calls
  <2>2. \A u \in Tasks : HeldBy(u)' = HeldBy(u)
    BY <2>1 DEF HeldBy
  <2> QED BY <2>1, <2>2 DEF Service!Refuse
<1>5. ASSUME NEW w \in Workers, TakeTask(w) PROVE Service!Start
  <2> DEFINE h == Head(tasks)
  <2>1. /\ tasks # <<>> /\ tasks' = Tail(tasks) /\ task' = [task EXCEPT ![w] = h]
        /\ task[w] = NoTask /\ UNCHANGED <<future, stop, dtor>>
    BY <1>0, <1>5 DEF TakeTask, TypeOK
  <2>2. h \in Tasks
    BY <1>0, <2>1, HeadTailProperties DEF TypeOK
  <2>3. Cardinality(Active) < Cardinality(Workers)
    BY <1>0, <2>1, SlotIsFree
  <2>4. \A u \in Tasks : HeldBy(u)' = IF u = h THEN HeldBy(u) \cup {w} ELSE HeldBy(u)
    BY <1>0, <2>1 DEF HeldBy, TypeOK
  <2>5. {t \in Tasks : HeldBy(t)' # {}} = {t \in Tasks : HeldBy(t) # {}} \cup {h}
    BY <2>2, <2>4
  <2>6. Cardinality({t \in Tasks : HeldBy(t) # {}}) < Cardinality(Workers)
    BY <2>3 DEF Active
  <2> DEFINE A == {t \in Tasks : HeldBy(t) # {}}
  <2>7. Service!Cardinality(A) = Cardinality(A)
    BY DEF Cardinality, Service!Cardinality
  <2>8. /\ tasks # <<>> /\ Cardinality(A) < Cardinality(Workers)
        /\ A' = A \cup {h} /\ tasks' = Tail(tasks)
    BY <2>1, <2>5, <2>6
  <2> HIDE DEF A
  <2> QED BY <2>1, <2>7, <2>8 DEF Service!Start, A
<1>6. ASSUME NEW w \in Workers, EndTask(w) PROVE \E t \in Tasks : Service!End(t)
  <2> DEFINE e == task[w]
  <2>1. /\ e \in Tasks /\ w \in HeldBy(e) /\ task' = [task EXCEPT ![w] = NoTask]
        /\ future' = [future EXCEPT ![e] = "ready"] /\ UNCHANGED <<tasks, stop, dtor>>
    BY <1>0, <1>6 DEF EndTask, TypeOK, HeldBy
  <2>2. HeldBy(e) = {w}
    BY <1>0, <2>1 DEF PendingHasOneCarrier
  <2>3. \A u \in Tasks : HeldBy(u)' = IF u = e THEN {} ELSE HeldBy(u)
    BY <1>0, <2>1, <2>2 DEF HeldBy, TypeOK
  <2>4. {t \in Tasks : HeldBy(t)' # {}} = {t \in Tasks : HeldBy(t) # {}} \ {e}
    BY <2>1, <2>3
  <2>5. e \in {t \in Tasks : HeldBy(t) # {}}
    BY <2>1
  <2>6. PICK t \in Tasks : t = e
    BY <2>1
  <2>7. Service!End(t)
    BY <2>1, <2>4, <2>5, <2>6 DEF Service!End
  <2> QED BY <2>7
<1>7. CASE SetStop
  <2>1. /\ dtor = "idle" /\ ~stop /\ stop' /\ dtor' = "stopped" /\ UNCHANGED <<tasks, task, future>>
    BY <1>0, <1>7 DEF SetStop, ShutdownState, TypeOK
  <2>2. \A u \in Tasks : HeldBy(u)' = HeldBy(u)
    BY <2>1 DEF HeldBy
  <2> QED BY <2>1, <2>2 DEF Service!Next, Service!BeginClose
<1>8. CASE JoinWorkers
  <2>1. /\ dtor = "joining" /\ stop /\ dtor' = "done" /\ UNCHANGED <<tasks, task, future, stop>>
        /\ \A w \in Workers : workerPc[w] = "returned"
    BY <1>0, <1>8 DEF JoinWorkers, ShutdownState
  <2>2. tasks = <<>> /\ \A w \in Workers : task[w] = NoTask
    BY <1>0, <2>1, WorkersAssumption DEF ShutdownState, TypeOK
  <2>3. \A u \in Tasks : HeldBy(u) = {} /\ HeldBy(u)' = {}
    BY <2>1, <2>2 DEF HeldBy
  <2> QED BY <2>1, <2>2, <2>3 DEF Service!Next, Service!EndClose
<1> QED BY <1>2, <1>3, <1>4, <1>5, <1>6, <1>7, <1>8
        DEF Next, ReturnFromTask, ThrowFromTask, Destroyed, Service!Next

\* The pool with its threads, mutex and condition variable does what the service
\* promises: it starts accepted tasks in order, no more at a time than it has
\* workers, refuses tasks only once it closes, and closes only when all are done.
THEOREM Implementation == Spec => Service!Spec
BY ServiceInit, ServiceStep, InvHolds, PTL DEF Spec, Service!Spec
=============================================================================
