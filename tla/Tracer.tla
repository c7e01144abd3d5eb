-------------------------------- MODULE Tracer --------------------------------
(***************************************************************************)
(* The Tracer singleton of src/util/TraceUtil, the spans of class Context  *)
(* and the consumers of class WriteToFile.  Threads record events while    *)
(* tracing is enabled, the main loop calls advanceConsumers() every so     *)
(* often and shutdown() at the end, and other threads add and remove       *)
(* consumers.                                                              *)
(*                                                                         *)
(* A critical section of _eventMutex takes no other lock and is one        *)
(* action.  _consumerMutex is held by advanceConsumers() over many steps,  *)
(* with _eventMutex taken inside.  _events and _consumers are also tested  *)
(* for emptiness without any lock, and _enabled is an atomic that is       *)
(* tested before _eventMutex is taken: those tests are actions.            *)
(***************************************************************************)
EXTENDS Integers, Sequences, SequencesExt

CONSTANTS
    Spanners,    \* threads that record the spans of a Context
    Counters,    \* threads that record events with args
    Consumers,   \* WriteToFile objects, each added at most once
    Writable,    \* those whose file can be opened
    Lifetime,    \* _lifetime of all of them, in milliseconds
    MaxEvents,   \* bound of the model: events ever recorded
    MaxMeta,     \* bound of the model: meta-events ever recorded
    MaxTicks     \* bound of the model: how often the clock advances

ASSUME TracerAssumption ==
    /\ Lifetime \in Nat /\ MaxEvents \in Nat /\ MaxMeta \in Nat /\ MaxTicks \in Nat
    /\ IsFiniteSet(Consumers) /\ Writable \subseteq Consumers

VARIABLES
    enabled, events, args, metaEvents, consumers,
    state,     \* Consumer::_state; "new" and "dated" until it is added
    expiry,    \* Consumer::_expiry
    stream,    \* WriteToFile::_stream: "unopened", "open" or "closed"
    file,      \* the lines that were written to it
    doing,     \* per thread: the phase of the event that it may record, or "none"
    inSpan,    \* per thread: a Context is alive
    main,      \* where the main loop is in advanceConsumers()
    closing,   \* advanceConsumers() was called by shutdown()
    batch,     \* its locals: the events and args that were swapped out,
    now, i, expired,
    clock,
    recorded,  \* history: how many events were ever recorded
    joined     \* history: how many had been recorded when the consumer was added

Recorders == Spanners \cup Counters

buffers == <<events, args, metaEvents, recorded>>
threads == <<doing, inSpan>>
list == <<enabled, consumers, joined>>
clients == <<state, expiry, stream, file>>
round == <<main, closing, batch, now, i, expired>>
vars == <<buffers, threads, list, clients, round, clock>>

StartTime == Lifetime + 1   \* the time of day is far beyond any lifetime
NoBatch == [events |-> <<>>, args |-> <<>>]

Init ==
    /\ events = <<>> /\ args = <<>> /\ metaEvents = 0 /\ recorded = 0
    /\ doing = [r \in Recorders |-> "none"] /\ inSpan = [r \in Spanners |-> FALSE]
    /\ enabled = FALSE /\ consumers = <<>> /\ joined = [c \in Consumers |-> 0]
    /\ state = [c \in Consumers |-> "new"] /\ expiry = [c \in Consumers |-> 0]
    /\ stream = [c \in Consumers |-> "unopened"] /\ file = [c \in Consumers |-> <<>>]
    /\ main = "idle" /\ closing = FALSE
    /\ batch = NoBatch /\ now = 0 /\ i = 1 /\ expired = <<>>
    /\ clock = StartTime

Registered == Range(consumers)
locked == main = "sweep"   \* advanceConsumers() holds _consumerMutex

\* _consumers[k] = _consumers.back(); _consumers.pop_back()
SwapRemove(s, k) ==
    LET last == Len(s) IN [j \in 1..(last - 1) |-> IF j = k THEN s[last] ELSE s[j]]

-----------------------------------------------------------------------------
(***************************************************************************)
(* Recording: addEvent() from the constructor and the destructor of        *)
(* Context, setCounter() and addEventWithArgs(), addMetaEvent().           *)
(***************************************************************************)

\* if (_enabled): the thread goes on to record an event of phase ph.
Passes(r, ph) == doing' = [doing EXCEPT ![r] = IF enabled THEN ph ELSE "none"]

EnterSpan(r) ==
    /\ doing[r] = "none" /\ ~inSpan[r]
    /\ Passes(r, "B")
    /\ inSpan' = [inSpan EXCEPT ![r] = TRUE]
    /\ UNCHANGED <<buffers, list, clients, round, clock>>

\* A slip, made in TRACE_END: the span ends with a second beginning.
LeaveSpanWithB(r) ==
    /\ doing[r] = "none" /\ inSpan[r]
    /\ Passes(r, "B")
    /\ inSpan' = [inSpan EXCEPT ![r] = FALSE]
    /\ UNCHANGED <<buffers, list, clients, round, clock>>

LeaveSpan(r) ==
    /\ doing[r] = "none" /\ inSpan[r]
    /\ Passes(r, "E")
    /\ inSpan' = [inSpan EXCEPT ![r] = FALSE]
    /\ UNCHANGED <<buffers, list, clients, round, clock>>

Count(r) ==
    /\ doing[r] = "none" /\ enabled
    /\ Passes(r, "C")
    /\ UNCHANGED <<buffers, inSpan, list, clients, round, clock>>

HasArgs(ph) == ph = "C"

\* The index of the args before they are pushed; the slip takes it after.
ArgsIndexLate(ph) == IF HasArgs(ph) THEN Len(args) + 1 ELSE -1
ArgsIndex(ph) == IF HasArgs(ph) THEN Len(args) ELSE -1

\* An event is known by the number it is recorded as; its args are that number.
Record(r) ==
    /\ doing[r] # "none"
    /\ recorded < MaxEvents
    /\ recorded' = recorded + 1
    /\ events' = Append(events, [id |-> recorded', by |-> r, ph |-> doing[r],
                                 args_index |-> ArgsIndex(doing[r])])
    /\ args' = IF HasArgs(doing[r]) THEN Append(args, recorded') ELSE args
    /\ doing' = [doing EXCEPT ![r] = "none"]
    /\ UNCHANGED <<metaEvents, inSpan, list, clients, round, clock>>

AddMetaEvent ==
    /\ metaEvents < MaxMeta
    /\ metaEvents' = metaEvents + 1
    /\ UNCHANGED <<events, args, recorded, threads, list, clients, round, clock>>

-----------------------------------------------------------------------------
(***************************************************************************)
(* WriteToFile(), addConsumer(), removeConsumer()                          *)
(***************************************************************************)

\* WriteToFile(): a file that cannot be opened is given up.
Opened(c) == IF c \in Writable THEN "open" ELSE "unopened"

\* The constructor opens the file; addConsumer() dates the consumer before it
\* takes _consumerMutex.
UpdateExpiry(c) ==
    /\ state[c] = "new"
    /\ state' = [state EXCEPT ![c] = "dated"]
    /\ expiry' = [expiry EXCEPT ![c] = clock + Lifetime]
    /\ stream' = [stream EXCEPT ![c] = Opened(c)]
    /\ UNCHANGED <<buffers, threads, list, file, round, clock>>

AddConsumer(c) ==
    /\ state[c] = "dated" /\ ~locked
    /\ state' = [state EXCEPT ![c] = "ACTIVE"]
    /\ consumers' = Append(consumers, c)
    /\ enabled' = TRUE
    /\ joined' = [joined EXCEPT ![c] = recorded]
    /\ UNCHANGED <<buffers, threads, expiry, stream, file, round, clock>>

\* A client calls updateExpiry() of its consumer "to change expiry on the fly".
Extend(c) ==
    /\ c \in Registered
    /\ expiry' = [expiry EXCEPT ![c] = clock + Lifetime]
    /\ UNCHANGED <<buffers, threads, list, state, stream, file, round, clock>>

Drop(k) ==
    /\ consumers' = SwapRemove(consumers, k)
    /\ enabled' = (enabled /\ consumers' # <<>>)
    /\ UNCHANGED joined

RemoveConsumer(c) ==
    /\ c \in Registered /\ ~locked
    /\ Drop(CHOOSE k \in DOMAIN consumers : consumers[k] = c)
    /\ UNCHANGED <<buffers, threads, clients, round, clock>>

-----------------------------------------------------------------------------
(***************************************************************************)
(* advanceConsumers()                                                      *)
(***************************************************************************)

Return ==
    /\ main' = IF closing THEN "returned" ELSE "idle"
    /\ batch' = NoBatch /\ now' = 0 /\ i' = 1 /\ expired' = <<>>
    /\ UNCHANGED closing

AtEntry == main \in {"idle", "entering"}

\* if (_events.empty()) return;
ReturnAtOnce ==
    /\ AtEntry /\ events = <<>>
    /\ Return
    /\ UNCHANGED <<buffers, threads, list, clients, clock>>

\* Nobody else takes events out: the test without the lock and the swap under
\* it are one step when the test finds an event.
SwapOut ==
    /\ AtEntry /\ events # <<>>
    /\ main' = "check"
    /\ batch' = [events |-> events, args |-> args]
    /\ events' = <<>> /\ args' = <<>>
    /\ UNCHANGED <<metaEvents, recorded, threads, list, clients, closing, now, i, expired, clock>>

\* if (_consumers.empty()) return; the batch is dropped.
DropBatch ==
    /\ main = "check" /\ consumers = <<>>
    /\ Return
    /\ UNCHANGED <<buffers, threads, list, clients, clock>>

FormatBatch ==
    /\ main = "check" /\ consumers # <<>>
    /\ main' = "lock"
    /\ now' = clock
    /\ UNCHANGED <<buffers, threads, list, clients, closing, batch, i, expired, clock>>

\* The line of an event in a file; args 0 stands for none and -1 for what lies
\* beyond the end of the vector.  Meta-events and the end of the trace have id 0.
\* The slip takes index 0 for none.
LineUnlessFirst(e) ==
    LET k == e.args_index + 1
    IN  [id |-> e.id, by |-> e.by, ph |-> e.ph,
         args |-> IF k <= 1 THEN 0 ELSE IF k \in DOMAIN batch.args THEN batch.args[k] ELSE -1]
Line(e) ==
    LET k == e.args_index + 1
    IN  [id |-> e.id, by |-> e.by, ph |-> e.ph,
         args |-> IF k = 0 THEN 0 ELSE IF k \in DOMAIN batch.args THEN batch.args[k] ELSE -1]
Mark(ph) == [id |-> 0, by |-> "main", ph |-> ph, args |-> 0]

\* event_strings; the slip starts with the second event.
LinesButFirst == [k \in 1..(Len(batch.events) - 1) |-> Line(batch.events[k + 1])]
Lines == [k \in 1..Len(batch.events) |-> Line(batch.events[k])]

ConsumeEvents(c, lines) == IF stream[c] = "open" THEN file[c] \o lines ELSE file[c]

\* checkExpiry(); a slip: a millisecond of grace.
IsOverLate(c) == now > expiry[c] + 1
IsOver(c) == now > expiry[c]

\* The sweep starts when _consumerMutex is free and keeps it.
AtSweep == main \in {"lock", "sweep"}

SweepActive ==
    /\ AtSweep /\ i <= Len(consumers)
    /\ ~IsOver(consumers[i])
    /\ main' = "sweep"
    /\ file' = [file EXCEPT ![consumers[i]] = ConsumeEvents(consumers[i], Lines)]
    /\ i' = i + 1
    /\ UNCHANGED <<buffers, threads, list, state, expiry, stream, closing, batch, now, expired,
                   clock>>

\* Where the sweep goes on after a removal; the slip passes over the consumer
\* that was moved into the hole.
NextAfterHole(k) == k + 1
NextAfterRemoval(k) == k

SweepExpired ==
    /\ AtSweep /\ i <= Len(consumers)
    /\ IsOver(consumers[i])
    /\ main' = "sweep"
    /\ file' = [file EXCEPT ![consumers[i]] = ConsumeEvents(consumers[i], Lines)]
    /\ state' = [state EXCEPT ![consumers[i]] = "EXPIRED"]
    /\ expired' = Append(expired, consumers[i])
    /\ Drop(i)
    /\ i' = NextAfterRemoval(i)
    /\ UNCHANGED <<buffers, threads, expiry, stream, closing, batch, now, clock>>

\* The consumers that finish() is called for; the slip calls it for none.
FinishedNone == {}
Finished == Range(expired)

\* finish(): the meta-events and end_of_trace.
LastLines == Append([k \in 1..metaEvents |-> Mark("M")], Mark("X"))

\* Under both locks every expired consumer gets the meta-events, is complete,
\* and closes its file with the end_of_trace event.
FinishExpired ==
    /\ AtSweep /\ i > Len(consumers)
    /\ file' = [c \in Consumers |-> IF c \in Finished THEN ConsumeEvents(c, LastLines) ELSE file[c]]
    /\ state' = [c \in Consumers |-> IF c \in Finished THEN "COMPLETE" ELSE state[c]]
    /\ stream' = [c \in Consumers |-> IF c \in Finished /\ stream[c] = "open" THEN "closed"
                                      ELSE stream[c]]
    /\ Return
    /\ UNCHANGED <<buffers, threads, list, expiry, clock>>

\* shutdown(): updateExpiry(0) of every consumer, then advanceConsumers().
Shutdown ==
    /\ main = "idle"
    /\ main' = "entering" /\ closing' = TRUE
    /\ expiry' = [c \in Consumers |-> IF c \in Registered THEN Lifetime ELSE expiry[c]]
    /\ UNCHANGED <<buffers, threads, list, state, stream, file, batch, now, i, expired, clock>>

Tick ==
    /\ clock < StartTime + MaxTicks
    /\ clock' = clock + 1
    /\ UNCHANGED <<buffers, threads, list, clients, round>>

-----------------------------------------------------------------------------
Advance ==
    \/ ReturnAtOnce \/ SwapOut \/ DropBatch \/ FormatBatch
    \/ SweepActive \/ SweepExpired \/ FinishExpired

Next ==
    \/ \E r \in Spanners : EnterSpan(r) \/ LeaveSpan(r)
    \/ \E r \in Counters : Count(r)
    \/ \E r \in Recorders : Record(r)
    \/ AddMetaEvent
    \/ \E c \in Consumers : UpdateExpiry(c) \/ AddConsumer(c) \/ Extend(c) \/ RemoveConsumer(c)
    \/ Advance
    \/ Shutdown
    \/ Tick

Spec == Init /\ [][Next]_vars

\* The main loop keeps calling advanceConsumers(); time passes.
FairSpec == Spec /\ WF_vars(Advance) /\ WF_vars(Tick)
-----------------------------------------------------------------------------
Event == [id : 1..MaxEvents, by : Recorders, ph : {"B", "E", "C"}, args_index : -1..(MaxEvents - 1)]
LineType == [id : 0..MaxEvents, by : Recorders \cup {"main"}, ph : {"B", "E", "C", "M", "X"},
             args : -1..MaxEvents]

TypeOK ==
    /\ events \in Seq(Event) /\ args \in Seq(1..MaxEvents)
    /\ metaEvents \in 0..MaxMeta /\ recorded \in 0..MaxEvents
    /\ doing \in [Recorders -> {"none", "B", "E", "C"}] /\ inSpan \in [Spanners -> BOOLEAN]
    /\ enabled \in BOOLEAN /\ consumers \in Seq(Consumers)
    /\ joined \in [Consumers -> 0..MaxEvents]
    /\ state \in [Consumers -> {"new", "dated", "ACTIVE", "EXPIRED", "COMPLETE"}]
    /\ expiry \in [Consumers -> Nat]
    /\ stream \in [Consumers -> {"unopened", "open", "closed"}]
    /\ file \in [Consumers -> Seq(LineType)]
    /\ main \in {"idle", "entering", "check", "lock", "sweep", "returned"}
    /\ closing \in BOOLEAN /\ now \in Nat /\ clock \in Nat /\ i \in Nat \ {0}
    /\ batch \in [events : Seq(Event), args : Seq(1..MaxEvents)] /\ expired \in Seq(Consumers)

\* A consumer is given a contiguous run of the recorded events, in order, that
\* starts no later than with the first one recorded after it was added: while it
\* is registered it misses none and gets none twice, whoever comes and goes next
\* to it in the list.
NoGapNoRepeat ==
    \A c \in Consumers : \A k \in DOMAIN file[c] :
        file[c][k].id > 0 =>
            IF k = 1 THEN file[c][k].id <= joined[c] + 1
            ELSE file[c][k - 1].id > 0 /\ file[c][k].id = file[c][k - 1].id + 1

\* Neighbours among lines that are ordered by the numbers of their events differ.
Alternate(S) ==
    \A d, e \in S :
        d.id < e.id /\ (\A m \in S : m.id <= d.id \/ e.id <= m.id) => d.ph # e.ph

\* Context: among the events recorded since a consumer was added, the beginnings
\* and ends of each thread's spans alternate, although both test _enabled on
\* their own and other consumers come and go in between.
SpansPair ==
    \A c \in Consumers, r \in Spanners :
        Alternate({l \in Range(file[c]) : l.id > joined[c] /\ l.by = r /\ l.ph \in {"B", "E"}})

\* Events keep their own args from recording to consumption, although args are
\* found by index in a vector that is swapped out together with the events.
ArgsFollowTheirEvent ==
    \A c \in Consumers : \A k \in DOMAIN file[c] :
        file[c][k].args = IF HasArgs(file[c][k].ph) THEN file[c][k].id ELSE 0

\* When the sweep ends, no registered consumer is left whose time was up as the
\* sweep began, unless it was given more meanwhile, and every one whose file is open
\* has been given the batch to its end: also one that was moved into the place of an
\* expired one.
SweepReachesAll ==
    [][FinishExpired => \A c \in Registered :
           /\ now <= expiry[c]
           /\ stream[c] = "open" => file[c] # <<>> /\ Last(file[c]).id = Last(batch.events).id]_vars

\* Whenever _consumerMutex is free, tracing is on exactly while somebody is
\* registered, and the consumers that were added are either registered and
\* active, or removed, or finished once and for all with their file closed by
\* the end_of_trace event: none is stuck between expiry and completion.
NoneStuckExpired ==
    ~locked => (enabled <=> consumers # <<>>) /\ \A c \in Consumers :
        /\ state[c] # "EXPIRED"
        /\ c \in Registered => state[c] = "ACTIVE"
        /\ state[c] = "COMPLETE" => stream[c] # "open"
        /\ stream[c] = "closed" <=> \E k \in DOMAIN file[c] : file[c][k].ph = "X"

\* A consumer whose time is up completes at the next round that has an event to
\* deliver, unless it is given more time, is removed or the main loop has ended.
ExpiredCompletes ==
    \A c \in Consumers :
        (c \in Registered /\ clock > expiry[c] /\ events # <<>>)
            ~> (c \notin Registered \/ clock <= expiry[c] \/ main = "returned")

\* "clean shutdown of active consumers": when shutdown() has returned, no
\* consumer that it made expire is left in the list.
ShutdownCompletes ==
    main = "returned" => \A c \in Registered : expiry[c] # Lifetime
=============================================================================
