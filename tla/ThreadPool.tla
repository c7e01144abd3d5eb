------------------------------ MODULE ThreadPool ------------------------------
(***************************************************************************)
(* The pool of src/util/ThreadPool.h: worker threads that take callables   *)
(* from a queue guarded by a mutex and a condition variable, enqueue() as  *)
(* called by other threads and by running tasks, and the destructor that   *)
(* stops the pool, wakes everyone and joins the workers.                   *)
(*                                                                         *)
(* tasks and stop are read and written only while _queuMutex is held, and  *)
(* nothing blocks while holding it except condition.wait, which releases   *)
(* it; so every critical section is one action.  What happens outside the  *)
(* mutex (notify_one, notify_all, running a task, joining) is an action of *)
(* its own.                                                                *)
(***************************************************************************)
EXTENDS Naturals, Sequences, FiniteSets

CONSTANTS
    Workers,  \* the threads launched by the constructor
    Clients,  \* the other threads that call enqueue()
    Tasks,    \* the callables; each is enqueued at most once
    Needs,    \* Needs[t]: tasks whose std::future t was given and get()s
    Spawns,   \* Spawns[t]: tasks that t itself enqueues while it runs
    NoTask    \* "no task"

ASSUME WorkersAssumption == IsFiniteSet(Workers) /\ Workers # {}
ASSUME ClientsAssumption == IsFiniteSet(Clients) /\ Clients \cap Workers = {}
ASSUME TasksAssumption ==
    /\ IsFiniteSet(Tasks)
    /\ Needs \in [Tasks -> SUBSET Tasks]
    /\ Spawns \in [Tasks -> SUBSET Tasks]
    /\ NoTask \notin Tasks

VARIABLES
    tasks,      \* the queue
    stop,       \* set once, by the destructor
    workerPc,   \* "loop": about to lock and test the predicate; "waiting":
                \* blocked in condition.wait; "running"; "returned"
    task,       \* the worker's local variable
    notifying,  \* the task whose enqueue() has unlocked but not yet notified
    future,     \* what the future of a task would show
    dtor,       \* "idle", "stopped", "joining", "done"
    accepted,   \* history: tasks in the order they entered the queue
    started     \* history: tasks in the order they were taken from it

queue == <<tasks, accepted, started>>
ending == <<stop, dtor>>
vars == <<queue, ending, workerPc, task, notifying, future>>

Enqueuers == Clients \cup Workers

Init ==
    /\ tasks = <<>> /\ accepted = <<>> /\ started = <<>>
    /\ stop = FALSE /\ dtor = "idle"
    /\ workerPc = [w \in Workers |-> "loop"]
    /\ task = [w \in Workers |-> NoTask]
    /\ notifying = [p \in Enqueuers |-> NoTask]
    /\ future = [t \in Tasks |-> "none"]

-----------------------------------------------------------------------------
(***************************************************************************)
(* enqueue()                                                               *)
(***************************************************************************)

Ready(t) == future[t] = "ready"

\* A task can be handed the future of another one only after the enqueue()
\* that made it has returned.
HasReturned(t) ==
    /\ future[t] \in {"pending", "ready"}
    /\ \A p \in Enqueuers : notifying[p] # t

\* p reaches the critical section of enqueue(t): a client with a task no other
\* task spawns, or a worker on behalf of the task it is running.
Calls(p, t) ==
    /\ notifying[p] = NoTask
    /\ future[t] = "none"
    /\ dtor # "done"
    /\ \A u \in Needs[t] \ Spawns[t] : HasReturned(u)
    /\ \/ p \in Clients /\ \A u \in Tasks : t \notin Spawns[u]
       \/ p \in Workers /\ workerPc[p] = "running" /\ t \in Spawns[task[p]]

\* The test of stop, and the slip that leaves it out.
OpenAlways == TRUE
Open == ~stop

\* enqueue(t) is to notify a worker, and the slip that forgets it.
ToNotifyNone(t) == NoTask
ToNotify(t) == t

Accept(p, t) ==
    /\ Calls(p, t)
    /\ Open
    /\ tasks' = Append(tasks, t) /\ accepted' = Append(accepted, t)
    /\ future' = [future EXCEPT ![t] = "pending"]
    /\ notifying' = [notifying EXCEPT ![p] = ToNotify(t)]
    /\ UNCHANGED <<started, ending, workerPc, task>>

\* throw std::runtime_error("enqueue on stopped ThreadPool")
Reject(p, t) ==
    /\ Calls(p, t)
    /\ ~Open
    /\ future' = [future EXCEPT ![t] = "rejected"]
    /\ UNCHANGED <<queue, ending, workerPc, task, notifying>>

Waiting == {w \in Workers : workerPc[w] = "waiting"}

Wake(ws) == workerPc' = [w \in Workers |-> IF w \in ws THEN "loop" ELSE workerPc[w]]

\* condition.notify_one() wakes one waiting worker, if there is any.
NotifyOne(p) ==
    /\ notifying[p] # NoTask
    /\ \/ Waiting = {} /\ UNCHANGED workerPc
       \/ \E w \in Waiting : Wake({w})
    /\ notifying' = [notifying EXCEPT ![p] = NoTask]
    /\ UNCHANGED <<queue, ending, task, future>>

-----------------------------------------------------------------------------
(***************************************************************************)
(* The worker's loop                                                       *)
(***************************************************************************)

\* tasks.pop(), and the slip that forgets it.
NotPopped == tasks
Popped == Tail(tasks)

TakeTask(w) ==
    /\ workerPc[w] = "loop"
    /\ tasks # <<>>
    /\ task' = [task EXCEPT ![w] = Head(tasks)]
    /\ tasks' = Popped
    /\ started' = Append(started, Head(tasks))
    /\ workerPc' = [workerPc EXCEPT ![w] = "running"]
    /\ UNCHANGED <<accepted, ending, notifying, future>>

\* A worker's step that leaves everything else as it is.
Goes(w, from, to) ==
    /\ workerPc[w] = from
    /\ workerPc' = [workerPc EXCEPT ![w] = to]
    /\ UNCHANGED <<queue, ending, task, notifying, future>>

WaitForWork(w) == ~stop /\ tasks = <<>> /\ Goes(w, "loop", "waiting")

\* A condition variable may wake a thread for no reason; a slip: the predicate
\* is not tested again.
WakeIntoTask(w) == Goes(w, "waiting", "running")
SpuriousWake(w) == Goes(w, "waiting", "loop")

\* When a worker may leave, and the slip that lets it leave queued tasks behind.
LeaveAtOnce == stop
Leave == stop /\ tasks = <<>>

WorkerReturns(w) == Leave /\ Goes(w, "loop", "returned")

\* The packaged_task stores the value or the exception; the worker loops.
EndTask(w) ==
    /\ workerPc[w] = "running"
    /\ notifying[w] = NoTask
    /\ future' = [future EXCEPT ![task[w]] = "ready"]
    /\ task' = [task EXCEPT ![w] = NoTask]
    /\ workerPc' = [workerPc EXCEPT ![w] = "loop"]
    /\ UNCHANGED <<queue, ending, notifying>>

\* get() of a future that t was given, or that t got from its own enqueue(),
\* blocks until it is ready.
Blocks(t) == \E u \in Needs[t] : ~Ready(u) /\ (u \in Spawns[t] => future[u] = "pending")

\* A callable returns when no get() blocks it ...
ReturnFromTask(w) == workerPc[w] = "running" /\ ~Blocks(task[w]) /\ EndTask(w)

\* ... but an exception may end it before that.
ThrowFromTask(w) == workerPc[w] = "running" /\ Blocks(task[w]) /\ EndTask(w)

-----------------------------------------------------------------------------
(***************************************************************************)
(* ~ThreadPool()                                                           *)
(***************************************************************************)

SetStop ==
    /\ dtor = "idle"
    /\ stop' = TRUE /\ dtor' = "stopped"
    /\ UNCHANGED <<queue, workerPc, task, notifying, future>>

\* Those whom notify_all() wakes; a slip: notify_one().
OneWaiting == IF Waiting = {} THEN {} ELSE {CHOOSE w \in Waiting : TRUE}
AllWaiting == Waiting

NotifyAll ==
    /\ dtor = "stopped"
    /\ Wake(AllWaiting)
    /\ dtor' = "joining"
    /\ UNCHANGED <<queue, stop, task, notifying, future>>

\* The joins return once every worker has returned.  The members are destroyed
\* only then, and the object's lifetime obliges the clients to have left
\* enqueue() by that time.
JoinWorkers ==
    /\ dtor = "joining"
    /\ \A w \in Workers : workerPc[w] = "returned"
    /\ \A c \in Clients : notifying[c] = NoTask
    /\ dtor' = "done"
    /\ UNCHANGED <<queue, stop, workerPc, task, notifying, future>>

\* The pool is gone: nothing is left to do.
Destroyed == dtor = "done" /\ UNCHANGED vars

-----------------------------------------------------------------------------
Next ==
    \/ \E p \in Enqueuers, t \in Tasks : Accept(p, t) \/ Reject(p, t)
    \/ \E p \in Enqueuers : NotifyOne(p)
    \/ \E w \in Workers :
        \/ TakeTask(w) \/ WaitForWork(w) \/ SpuriousWake(w) \/ WorkerReturns(w)
        \/ ReturnFromTask(w) \/ ThrowFromTask(w)
    \/ SetStop \/ NotifyAll \/ JoinWorkers
    \/ Destroyed

Spec == Init /\ [][Next]_vars

\* A thread that can take a step takes it.  Nobody is obliged to call enqueue()
\* or the destructor, and no spurious wake-up or exception is relied upon.
Fairness ==
    /\ \A p \in Enqueuers : WF_vars(NotifyOne(p))
    /\ \A w \in Workers : WF_vars(TakeTask(w) \/ WaitForWork(w) \/ WorkerReturns(w))
    /\ \A w \in Workers : WF_vars(ReturnFromTask(w))
    /\ WF_vars(NotifyAll)
    /\ WF_vars(JoinWorkers)

FairSpec == Spec /\ Fairness
-----------------------------------------------------------------------------
TypeOK ==
    /\ tasks \in Seq(Tasks)
    /\ stop \in BOOLEAN
    /\ workerPc \in [Workers -> {"loop", "waiting", "running", "returned"}]
    /\ task \in [Workers -> Tasks \cup {NoTask}]
    /\ notifying \in [Enqueuers -> Tasks \cup {NoTask}]
    /\ future \in [Tasks -> {"none", "pending", "ready", "rejected"}]
    /\ dtor \in {"idle", "stopped", "joining", "done"}
    /\ accepted \in Seq(Tasks)
    /\ started \in Seq(Tasks)
    /\ \A w \in Workers : workerPc[w] = "running" <=> task[w] # NoTask

\* No task overtakes, disappears or is run twice: at any time the tasks taken by
\* the workers, in the order they took them, followed by the queue, are exactly
\* the tasks enqueue() accepted, in the order it accepted them.
FifoDispatch == accepted = started \o tasks

Queued(t) == \E i \in 1..Len(tasks) : tasks[i] = t
HeldBy(t) == {w \in Workers : task[w] = t}

\* A future that is still pending has exactly one carrier that will make it
\* ready: one worker that is running the task or else one place in the queue.
PendingHasOneCarrier ==
    /\ \A i, j \in 1..Len(tasks) : tasks[i] = tasks[j] => i = j
    /\ \A t \in Tasks :
        /\ Queued(t) => future[t] = "pending" /\ HeldBy(t) = {}
        /\ \A w \in HeldBy(t) : future[t] = "pending" /\ HeldBy(t) = {w}
        /\ future[t] = "pending" => Queued(t) \/ HeldBy(t) # {}

Awake == {w \in Workers : workerPc[w] = "loop"}
Notifying == {p \in Enqueuers : notifying[p] # NoTask}

\* No wake-up is lost: while some worker sleeps and the destructor is not about
\* to wake everyone, each queued task is matched by a worker on its way to the
\* queue or by a notify_one() that is still to come; and nobody sleeps on while the
\* destructor joins.
NoLostWakeup ==
    (Waiting # {} /\ dtor # "stopped")
        => Len(tasks) <= Cardinality(Awake) + Cardinality(Notifying) /\ dtor = "idle"

\* Tasks that wait for one another do not bring the pool to a halt: while a
\* future is pending, some task that runs can return, or the queue has a task and
\* somebody is on the way to it: a worker, or one that is about to be woken.
PoolCanGoOn ==
    (\E t \in Tasks : future[t] = "pending") =>
        \/ \E w \in Workers : workerPc[w] = "running" /\ ~Blocks(task[w])
        \/ tasks # <<>> /\ Awake # {}
        \/ tasks # <<>> /\ Waiting # {} /\ (Notifying # {} \/ dtor = "stopped")

\* The destructor drains the pool: when its last join has returned no accepted
\* task is left unrun, no future is left pending, and no worker can touch the
\* queue, the mutex or the condition variable any more.
DrainedWhenDestroyed ==
    dtor = "done" =>
        /\ tasks = <<>>
        /\ \A t \in Tasks : future[t] # "pending"
        /\ \A w \in Workers : workerPc[w] = "returned" /\ notifying[w] = NoTask

\* Every task enqueue() accepted has its future made ready, even when tasks
\* block on tasks accepted before them and on tasks they enqueued themselves, as
\* long as the tasks that block are fewer than the workers.
AcceptedTasksComplete == \A t \in Tasks : future[t] = "pending" ~> Ready(t)

\* The destructor returns once it has been called.
DestructorReturns == dtor = "stopped" ~> dtor = "done"

\* All that was accepted, and the pool with it, comes to its end.
AcceptedWorkEnds == AcceptedTasksComplete /\ DestructorReturns

\* The pool implements the abstract service.
Service == INSTANCE TaskService WITH
    backlog <- tasks,
    active <- {t \in Tasks : HeldBy(t) # {}},
    status <- future,
    phase <- IF dtor = "done" THEN "closed" ELSE IF stop THEN "closing" ELSE "open",
    Slots <- Cardinality(Workers)

ImplementsFairService == Service!FairSpec
=============================================================================
