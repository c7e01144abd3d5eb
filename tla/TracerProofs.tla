----------------------------- MODULE TracerProofs -----------------------------
(***************************************************************************)
(* Proofs about Tracer, for any number of threads, consumers, events and   *)
(* ticks.                                                                  *)
(***************************************************************************)
EXTENDS Tracer, SequenceTheorems, TLAPS

-----------------------------------------------------------------------------
(***************************************************************************)
(* Sequences                                                               *)
(***************************************************************************)

LEMMA AppendedTo ==
    ASSUME NEW S, NEW s \in Seq(S), NEW x \in S
    PROVE  /\ Append(s, x) \in Seq(S)
           /\ Len(s) \in Nat /\ Len(Append(s, x)) = Len(s) + 1
           /\ Append(s, x)[Len(s) + 1] = x
           /\ \A k \in 1..Len(s) : Append(s, x)[k] = s[k]
    OBVIOUS

LEMMA SwapRemoved ==
    ASSUME NEW S, NEW s \in Seq(S), NEW k \in 1..Len(s)
    PROVE  /\ SwapRemove(s, k) \in Seq(S)
           /\ Len(s) \in Nat /\ Len(s) > 0 /\ Len(SwapRemove(s, k)) = Len(s) - 1
           /\ \A j \in 1..(Len(s) - 1) :
                  SwapRemove(s, k)[j] = IF j = k THEN s[Len(s)] ELSE s[j]
<1>1. Len(s) \in Nat /\ Len(s) > 0 /\ Len(s) - 1 \in Nat
    OBVIOUS
<1>2. \A j \in 1..Len(s) : s[j] \in S
    OBVIOUS
<1> QED BY <1>1, <1>2 DEF SwapRemove

\* A sequence that has lost its k-th entry in this way has no other entries, and
\* none twice that was not there twice.
Distinct(s) == \A j, k \in 1..Len(s) : s[j] = s[k] => j = k

LEMMA SwapRemovedEntries ==
    ASSUME NEW S, NEW s \in Seq(S), NEW k \in 1..Len(s), Distinct(s)
    PROVE  /\ Distinct(SwapRemove(s, k))
           /\ \A j \in 1..Len(SwapRemove(s, k)) :
                  SwapRemove(s, k)[j] # s[k]
                  /\ \E m \in 1..Len(s) : SwapRemove(s, k)[j] = s[m] /\ (j < k => m = j)
                                          /\ (j >= k => m >= k)
<1>1. /\ Len(s) \in Nat /\ Len(s) > 0 /\ Len(SwapRemove(s, k)) = Len(s) - 1
      /\ \A j \in 1..(Len(s) - 1) : SwapRemove(s, k)[j] = IF j = k THEN s[Len(s)] ELSE s[j]
    BY SwapRemoved
<1>2. Distinct(SwapRemove(s, k))
    BY <1>1 DEF Distinct
<1>3. ASSUME NEW j \in 1..Len(SwapRemove(s, k))
      PROVE  SwapRemove(s, k)[j] # s[k]
             /\ \E m \in 1..Len(s) : SwapRemove(s, k)[j] = s[m] /\ (j < k => m = j)
                                     /\ (j >= k => m >= k)
    BY <1>1 DEF Distinct
<1> QED BY <1>2, <1>3

-----------------------------------------------------------------------------
(***************************************************************************)
(* Types                                                                   *)
(***************************************************************************)

\* The args that wait to be swapped out belong to events that were recorded.
ArgsAreRecorded == Len(args) <= recorded

LEMMA EntriesType == ASSUME TypeOK PROVE \A k \in 1..Len(consumers) : consumers[k] \in Consumers
    BY ElementOfSeq DEF TypeOK

LEMMA LinesType ==
    ASSUME TypeOK
    PROVE  /\ Lines \in Seq(LineType) /\ Len(Lines) = Len(batch.events)
           /\ Len(batch.events) \in Nat
           /\ \A k \in 1..Len(batch.events) : Lines[k] = Line(batch.events[k])
<1>1. batch.events \in Seq(Event) /\ batch.args \in Seq(1..MaxEvents)
    BY DEF TypeOK
<1>2. ASSUME NEW e \in Event PROVE Line(e) \in LineType
    <2> DEFINE as == batch.args
    <2>1. as \in Seq(1..MaxEvents)
        BY <1>1
    <2>2. MaxEvents \in Nat
        BY TracerAssumption
    <2> HIDE DEF as
    <2>3. DOMAIN as = 1..Len(as) /\ \A k \in DOMAIN as : as[k] \in 1..MaxEvents
        BY <2>1, LenProperties, ElementOfSeq
    <2>4. Line(e) = [id |-> e.id, by |-> e.by, ph |-> e.ph,
                     args |-> IF e.args_index + 1 = 0 THEN 0
                              ELSE IF e.args_index + 1 \in DOMAIN as THEN as[e.args_index + 1]
                              ELSE -1]
        BY DEF Line, as
    <2> DEFINE k == e.args_index + 1
               a == IF k = 0 THEN 0 ELSE IF k \in DOMAIN as THEN as[k] ELSE -1
    <2>5. a \in -1..MaxEvents
        <3> HIDE DEF k
        <3>1. CASE k \in DOMAIN as
            <4>1. as[k] \in 1..MaxEvents
                BY <2>3, <3>1
            <4>2. (\A x \in 1..MaxEvents : x \in -1..MaxEvents) /\ 0 \in -1..MaxEvents
                BY <2>2
            <4>3. a = as[k] \/ a = 0
                BY <3>1
            <4> HIDE DEF a
            <4> QED BY <4>1, <4>2, <4>3
        <3>2. CASE k \notin DOMAIN as
            BY <2>2, <3>2
        <3> QED BY <3>1, <3>2
    <2>6. Line(e) = [id |-> e.id, by |-> e.by, ph |-> e.ph, args |-> a]
        BY <2>4
    <2>7. e.id \in 0..MaxEvents /\ e.by \in Recorders \cup {"main"}
          /\ e.ph \in {"B", "E", "C", "M", "X"}
        BY <1>2, <2>2 DEF Event
    <2> HIDE DEF a
    <2> QED BY <2>5, <2>6, <2>7 DEF LineType
<1>3. \A k \in 1..Len(batch.events) : Line(batch.events[k]) \in LineType
    BY <1>1, <1>2
<1>4. Len(batch.events) \in Nat
    BY <1>1
<1> QED BY <1>3, <1>4 DEF Lines

LEMMA LastLinesType ==
    ASSUME TypeOK
    PROVE  /\ LastLines \in Seq(LineType) /\ Len(LastLines) = metaEvents + 1
           /\ LastLines[metaEvents + 1] = Mark("X")
           /\ \A k \in 1..metaEvents : LastLines[k] = Mark("M")
<1>1. metaEvents \in Nat /\ MaxEvents \in Nat
    BY TracerAssumption DEF TypeOK
<1>2. Mark("M") \in LineType /\ Mark("X") \in LineType
    BY <1>1 DEF Mark, LineType
<1> DEFINE ms == [k \in 1..metaEvents |-> Mark("M")]
<1>3. ms \in Seq(LineType) /\ Len(ms) = metaEvents /\ \A k \in 1..metaEvents : ms[k] = Mark("M")
    BY <1>1, <1>2
<1> HIDE DEF ms
<1>4. LastLines = Append(ms, Mark("X"))
    BY DEF LastLines, ms
<1> QED BY <1>2, <1>3, <1>4, AppendedTo

LEMMA FileType ==
    ASSUME TypeOK, NEW c \in Consumers
    PROVE  /\ file[c] \in Seq(LineType)
           /\ ConsumeEvents(c, Lines) \in Seq(LineType)
           /\ ConsumeEvents(c, LastLines) \in Seq(LineType)
<1>1. file[c] \in Seq(LineType)
    BY DEF TypeOK
<1> QED BY <1>1, LinesType, LastLinesType, ConcatProperties DEF ConsumeEvents

LEMMA DropType ==
    ASSUME TypeOK, NEW k \in 1..Len(consumers), Drop(k)
    PROVE  consumers' \in Seq(Consumers) /\ enabled' \in BOOLEAN /\ UNCHANGED joined
    BY SwapRemoved DEF Drop, TypeOK

LEMMA RemoveDrops ==
    ASSUME TypeOK, NEW c \in Consumers, RemoveConsumer(c)
    PROVE  \E k \in 1..Len(consumers) : Drop(k)
<1> DEFINE k == CHOOSE k \in DOMAIN consumers : consumers[k] = c
<1>1. DOMAIN consumers = 1..Len(consumers)
    BY DEF TypeOK
<1>2. \E j \in DOMAIN consumers : consumers[j] = c
    BY DEF RemoveConsumer, Registered, Range
<1>3. k \in DOMAIN consumers /\ Drop(k)
    BY <1>2 DEF RemoveConsumer
<1> QED BY <1>1, <1>3

LEMMA TypeStep == TypeOK /\ ArgsAreRecorded /\ [Next]_vars => TypeOK' /\ ArgsAreRecorded'
<1>1. SUFFICES ASSUME TypeOK, ArgsAreRecorded, [Next]_vars
               PROVE  TypeOK' /\ ArgsAreRecorded'
    OBVIOUS
<1> USE <1>1, TracerAssumption
<1> USE DEF buffers, threads, list, clients, round
<1>2. ASSUME NEW r \in Recorders, Record(r) PROVE TypeOK' /\ ArgsAreRecorded'
    <2>1. recorded \in Nat /\ recorded < MaxEvents /\ recorded' = recorded + 1
          /\ MaxEvents \in Nat /\ args \in Seq(1..MaxEvents) /\ Len(args) \in Nat
        BY <1>2 DEF Record, TypeOK
    <2>2. ArgsIndex(doing[r]) \in -1..(MaxEvents - 1)
        BY <2>1 DEF ArgsIndex, ArgsAreRecorded
    <2>3. doing[r] \in {"B", "E", "C"}
        BY <1>2 DEF Record, TypeOK
    <2> DEFINE e == [id |-> recorded', by |-> r, ph |-> doing[r],
                     args_index |-> ArgsIndex(doing[r])]
    <2>4. e \in Event
        BY <2>1, <2>2, <2>3 DEF Event
    <2>5. events' = Append(events, e)
        BY <1>2 DEF Record
    <2> HIDE DEF e
    <2>6. events' \in Seq(Event)
        BY <2>4, <2>5, AppendedTo DEF TypeOK
    <2>7. /\ args' \in Seq(1..MaxEvents)
          /\ Len(args') <= Len(args) + 1
        <3>1. recorded' \in 1..MaxEvents
            BY <2>1
        <3>2. /\ Append(args, recorded') \in Seq(1..MaxEvents)
              /\ Len(Append(args, recorded')) = Len(args) + 1
            BY <2>1, <3>1, AppendedTo
        <3>3. args' = Append(args, recorded') \/ args' = args
            BY <1>2 DEF Record
        <3> QED BY <2>1, <3>2, <3>3
    <2>8. recorded' \in 0..MaxEvents /\ ArgsAreRecorded'
        <3>1. Len(args') \in Nat
            BY <2>7
        <3> QED BY <2>1, <2>7, <3>1 DEF ArgsAreRecorded
    <2> QED BY <1>2, <2>6, <2>7, <2>8 DEF Record, TypeOK
<1>3. ASSUME NEW r \in Spanners, EnterSpan(r) \/ LeaveSpan(r) PROVE TypeOK' /\ ArgsAreRecorded'
    BY <1>3 DEF EnterSpan, LeaveSpan, Passes, TypeOK, ArgsAreRecorded
<1>4. ASSUME NEW r \in Counters, Count(r) PROVE TypeOK' /\ ArgsAreRecorded'
    BY <1>4 DEF Count, Passes, TypeOK, ArgsAreRecorded
<1>5. CASE AddMetaEvent
    BY <1>5 DEF AddMetaEvent, TypeOK, ArgsAreRecorded
<1>6. ASSUME NEW c \in Consumers, UpdateExpiry(c) \/ Extend(c) PROVE TypeOK' /\ ArgsAreRecorded'
    <2>1. /\ expiry' = [expiry EXCEPT ![c] = clock + Lifetime]
          /\ UNCHANGED <<events, args, metaEvents, recorded, doing, inSpan, enabled, consumers,
                        joined, file, main, closing, batch, now, i, expired, clock>>
          /\ \/ state' = [state EXCEPT ![c] = "dated"] /\ stream' = [stream EXCEPT ![c] = Opened(c)]
             \/ UNCHANGED <<state, stream>>
        BY <1>6 DEF UpdateExpiry, Extend
    <2>2. clock + Lifetime \in Nat /\ expiry' \in [Consumers -> Nat]
        BY <2>1 DEF TypeOK
    <2>3. /\ state' \in [Consumers -> {"new", "dated", "ACTIVE", "EXPIRED", "COMPLETE"}]
          /\ stream' \in [Consumers -> {"unopened", "open", "closed"}]
        BY <2>1 DEF Opened, TypeOK
    <2> QED BY <2>1, <2>2, <2>3 DEF TypeOK, ArgsAreRecorded
<1>7. ASSUME NEW c \in Consumers, AddConsumer(c) PROVE TypeOK' /\ ArgsAreRecorded'
    <2>1. consumers' \in Seq(Consumers)
        BY <1>7, AppendedTo DEF AddConsumer, TypeOK
    <2> QED BY <1>7, <2>1 DEF AddConsumer, TypeOK, ArgsAreRecorded
<1>8. ASSUME NEW c \in Consumers, RemoveConsumer(c) PROVE TypeOK' /\ ArgsAreRecorded'
    <2>1. PICK k \in 1..Len(consumers) : Drop(k)
        BY <1>8, RemoveDrops
    <2>2. consumers' \in Seq(Consumers) /\ enabled' \in BOOLEAN /\ UNCHANGED joined
        BY <2>1, DropType
    <2> QED BY <1>8, <2>2 DEF RemoveConsumer, TypeOK, ArgsAreRecorded
<1>9. CASE ReturnAtOnce \/ DropBatch
    <2>1. /\ batch' = NoBatch /\ now' = 0 /\ i' = 1 /\ expired' = <<>>
          /\ main' \in {"idle", "returned"}
          /\ UNCHANGED <<events, args, metaEvents, recorded, doing, inSpan, enabled, consumers,
                        joined, state, expiry, stream, file, closing, clock>>
        BY <1>9 DEF ReturnAtOnce, DropBatch, Return
    <2>2. batch' \in [events : Seq(Event), args : Seq(1..MaxEvents)]
        BY <2>1 DEF NoBatch
    <2> QED BY <2>1, <2>2 DEF TypeOK, ArgsAreRecorded
<1>10. CASE SwapOut
    BY <1>10 DEF SwapOut, TypeOK, ArgsAreRecorded
<1>11. CASE FormatBatch
    BY <1>11 DEF FormatBatch, TypeOK, ArgsAreRecorded
<1>12. CASE SweepActive
    <2>1. i \in 1..Len(consumers)
        BY <1>12 DEF SweepActive, TypeOK
    <2>2. consumers[i] \in Consumers
        BY <2>1 DEF TypeOK
    <2>3. file' \in [Consumers -> Seq(LineType)]
        BY <1>12, <2>2, FileType DEF SweepActive, TypeOK
    <2>4. i' \in Nat \ {0}
        BY <1>12 DEF SweepActive, TypeOK
    <2> QED BY <1>12, <2>3, <2>4 DEF SweepActive, TypeOK, ArgsAreRecorded
<1>13. CASE SweepExpired
    <2>1. i \in 1..Len(consumers) /\ Drop(i)
        BY <1>13 DEF SweepExpired, TypeOK
    <2>2. consumers[i] \in Consumers
        BY <2>1 DEF TypeOK
    <2>3. consumers' \in Seq(Consumers) /\ enabled' \in BOOLEAN /\ UNCHANGED joined
        BY <2>1, DropType
    <2>4. file' \in [Consumers -> Seq(LineType)]
        BY <1>13, FileType DEF SweepExpired, TypeOK
    <2>5. expired' \in Seq(Consumers)
        BY <1>13, <2>2, AppendedTo DEF SweepExpired, TypeOK
    <2>6. i' \in Nat \ {0} /\ state' \in [Consumers -> {"new", "dated", "ACTIVE", "EXPIRED", "COMPLETE"}]
        BY <1>13 DEF SweepExpired, NextAfterRemoval, TypeOK
    <2> QED BY <1>13, <2>3, <2>4, <2>5, <2>6 DEF SweepExpired, TypeOK, ArgsAreRecorded
<1>14. CASE FinishExpired
    <2>1. file' \in [Consumers -> Seq(LineType)]
        BY <1>14, FileType DEF FinishExpired
    <2>2. state' \in [Consumers -> {"new", "dated", "ACTIVE", "EXPIRED", "COMPLETE"}]
          /\ stream' \in [Consumers -> {"unopened", "open", "closed"}]
        BY <1>14 DEF FinishExpired, TypeOK
    <2> QED BY <1>14, <2>1, <2>2 DEF FinishExpired, Return, NoBatch, TypeOK, ArgsAreRecorded
<1>15. CASE Shutdown
    BY <1>15 DEF Shutdown, TypeOK, ArgsAreRecorded
<1>16. CASE Tick
    BY <1>16 DEF Tick, TypeOK, ArgsAreRecorded
<1>17. CASE UNCHANGED vars
    BY <1>17 DEF vars, TypeOK, ArgsAreRecorded
<1> QED BY <1>2, <1>3, <1>4, <1>5, <1>6, <1>7, <1>8, <1>9, <1>10, <1>11, <1>12, <1>13, <1>14,
           <1>15, <1>16, <1>17 DEF Next, Advance

LEMMA TypeHolds == Spec => [](TypeOK /\ ArgsAreRecorded)
<1>1. ASSUME Init PROVE TypeOK /\ ArgsAreRecorded
    <2> USE <1>1, TracerAssumption DEF Init
    <2>1. /\ events \in Seq(Event) /\ args \in Seq(1..MaxEvents) /\ Len(args) = 0
          /\ consumers \in Seq(Consumers) /\ expired \in Seq(Consumers)
          /\ batch \in [events : Seq(Event), args : Seq(1..MaxEvents)]
        BY DEF NoBatch
    <2>2. clock \in Nat /\ metaEvents \in 0..MaxMeta /\ recorded \in 0..MaxEvents
        BY DEF StartTime
    <2>3. /\ joined \in [Consumers -> 0..MaxEvents] /\ expiry \in [Consumers -> Nat]
          /\ file \in [Consumers -> Seq(LineType)]
        OBVIOUS
    <2>4. /\ doing \in [Recorders -> {"none", "B", "E", "C"}] /\ inSpan \in [Spanners -> BOOLEAN]
          /\ state \in [Consumers -> {"new", "dated", "ACTIVE", "EXPIRED", "COMPLETE"}]
          /\ stream \in [Consumers -> {"unopened", "open", "closed"}]
        OBVIOUS
    <2>5. /\ enabled \in BOOLEAN /\ closing \in BOOLEAN
          /\ main \in {"idle", "entering", "check", "lock", "sweep", "returned"}
        OBVIOUS
    <2>6. now \in Nat /\ i \in Nat \ {0}
        OBVIOUS
    <2>7. ArgsAreRecorded
        BY <2>1 DEF ArgsAreRecorded
    <2> QED BY <2>1, <2>2, <2>3, <2>4, <2>5, <2>6, <2>7 DEF TypeOK
<1> QED BY <1>1, TypeStep, PTL DEF Spec

\* TypeOK is an invariant: indices of args and numbers of events stay in range.
THEOREM TypeCorrect == Spec => []TypeOK
    BY TypeHolds, PTL

-----------------------------------------------------------------------------
(***************************************************************************)
(* The list of consumers and their states                                  *)
(***************************************************************************)

\* The list holds active consumers, each once; those that have expired and are not
\* finished are the ones that the sweep under way has put aside.
ListInv ==
    /\ enabled <=> consumers # <<>>
    /\ Distinct(consumers)
    /\ \A k \in 1..Len(consumers) : state[consumers[k]] = "ACTIVE"
    /\ \A c \in Consumers : state[c] = "EXPIRED" <=> \E k \in 1..Len(expired) : expired[k] = c
    /\ main # "sweep" => i = 1 /\ expired = <<>>

LEMMA DropKeeps ==
    ASSUME TypeOK, ListInv, NEW k \in 1..Len(consumers), Drop(k)
    PROVE  /\ enabled' <=> consumers' # <<>>
           /\ Distinct(consumers')
           /\ \A j \in 1..Len(consumers') :
                  consumers'[j] # consumers[k]
                  /\ \E m \in 1..Len(consumers) : consumers'[j] = consumers[m]
                         /\ (j < k => m = j) /\ (j >= k => m >= k)
<1>1. consumers' = SwapRemove(consumers, k) /\ consumers \in Seq(Consumers)
    BY DEF Drop, TypeOK
<1>2. enabled' <=> consumers' # <<>>
    <2>1. consumers # <<>>
        BY <1>1
    <2> QED BY <2>1 DEF Drop, ListInv, TypeOK
<1> QED BY <1>1, <1>2, SwapRemovedEntries DEF ListInv

LEMMA ListStep == ASSUME TypeOK, TypeOK', ListInv, [Next]_vars PROVE ListInv'
<1> USE DEF buffers, threads, list, clients, round
<1>1. ASSUME UNCHANGED <<enabled, consumers, state, expired, i>>, main' # "sweep" => main # "sweep"
      PROVE  ListInv'
    BY <1>1 DEF ListInv, Distinct
<1>2. CASE \/ \E r \in Spanners : EnterSpan(r) \/ LeaveSpan(r)
           \/ \E r \in Counters : Count(r)
           \/ \E r \in Recorders : Record(r)
           \/ AddMetaEvent \/ Shutdown \/ Tick \/ SwapOut \/ FormatBatch
           \/ \E c \in Consumers : Extend(c)
           \/ UNCHANGED vars
    BY <1>1, <1>2 DEF EnterSpan, LeaveSpan, Count, Record, AddMetaEvent, Shutdown, Tick, SwapOut,
                      FormatBatch, Extend, AtEntry, vars
<1>3. CASE ReturnAtOnce \/ DropBatch
    <2>1. main # "sweep" /\ i' = 1 /\ expired' = <<>> /\ UNCHANGED <<enabled, consumers, state>>
        BY <1>3 DEF ReturnAtOnce, DropBatch, Return, AtEntry
    <2> QED BY <1>1, <2>1 DEF ListInv
<1>4. ASSUME NEW c \in Consumers, UpdateExpiry(c) PROVE ListInv'
    <2>1. /\ state[c] = "new" /\ state'[c] = "dated"
          /\ \A d \in Consumers \ {c} : state'[d] = state[d]
          /\ UNCHANGED <<enabled, consumers, expired, i, main>>
          /\ consumers \in Seq(Consumers)
        BY <1>4 DEF UpdateExpiry, TypeOK
    <2> QED BY <2>1 DEF ListInv, Distinct
<1>5. ASSUME NEW c \in Consumers, AddConsumer(c) PROVE ListInv'
    <2>1. /\ state[c] = "dated" /\ state'[c] = "ACTIVE" /\ enabled' = TRUE
          /\ \A d \in Consumers \ {c} : state'[d] = state[d]
          /\ UNCHANGED <<expired, i, main>>
          /\ consumers' = Append(consumers, c) /\ consumers \in Seq(Consumers)
        BY <1>5 DEF AddConsumer, TypeOK
    <2>2. /\ Len(consumers) \in Nat /\ Len(consumers') = Len(consumers) + 1
          /\ consumers'[Len(consumers) + 1] = c
          /\ \A k \in 1..Len(consumers) : consumers'[k] = consumers[k] /\ consumers[k] \in Consumers
        BY <2>1, AppendedTo
    <2>3. \A k \in 1..Len(consumers) : consumers[k] # c
        BY <2>1 DEF ListInv
    <2>4. consumers' # <<>> /\ Distinct(consumers')
        BY <2>2, <2>3 DEF ListInv, Distinct
    <2> QED BY <2>1, <2>2, <2>3, <2>4 DEF ListInv
<1>6. ASSUME NEW c \in Consumers, RemoveConsumer(c) PROVE ListInv'
    <2>1. PICK k \in 1..Len(consumers) : Drop(k)
        BY <1>6, RemoveDrops
    <2>2. UNCHANGED <<state, expired, i, main>>
        BY <1>6 DEF RemoveConsumer
    <2> QED BY <2>1, <2>2, DropKeeps DEF ListInv
<1>7. CASE SweepActive
    BY <1>7 DEF SweepActive, ListInv, Distinct
<1>8. CASE SweepExpired
    <2>1. /\ i \in 1..Len(consumers) /\ Drop(i)
          /\ state' = [state EXCEPT ![consumers[i]] = "EXPIRED"]
          /\ expired' = Append(expired, consumers[i]) /\ expired \in Seq(Consumers)
          /\ main' = "sweep"
        BY <1>8 DEF SweepExpired, TypeOK
    <2>2. /\ consumers[i] \in Consumers /\ state'[consumers[i]] = "EXPIRED"
          /\ \A d \in Consumers : d # consumers[i] => state'[d] = state[d]
        BY <2>1, EntriesType DEF TypeOK
    <2>3. /\ Len(expired) \in Nat /\ Len(expired') = Len(expired) + 1
          /\ expired'[Len(expired) + 1] = consumers[i]
          /\ \A k \in 1..Len(expired) : expired'[k] = expired[k]
        BY <2>1, <2>2, AppendedTo
    <2>4. \A k \in 1..Len(consumers') : state'[consumers'[k]] = "ACTIVE"
        <3>1. \A k \in 1..Len(consumers') : consumers'[k] \in Consumers
            <4>1. consumers' \in Seq(Consumers)
                BY DEF TypeOK
            <4> QED BY <4>1, ElementOfSeq
        <3> QED BY <2>1, <2>2, <3>1, DropKeeps DEF ListInv
    <2>5. \A c \in Consumers : state'[c] = "EXPIRED" <=> \E k \in 1..Len(expired') : expired'[k] = c
        BY <2>2, <2>3 DEF ListInv
    <2> QED BY <2>1, <2>4, <2>5, DropKeeps DEF ListInv
<1>9. CASE FinishExpired
    <2>1. /\ UNCHANGED <<enabled, consumers>>
          /\ \A c \in Consumers : state'[c] = IF c \in Finished THEN "COMPLETE" ELSE state[c]
          /\ i' = 1 /\ expired' = <<>>
        BY <1>9 DEF FinishExpired, Return
    <2>2. \A c \in Consumers : c \in Finished <=> \E k \in 1..Len(expired) : expired[k] = c
        <3>1. DOMAIN expired = 1..Len(expired)
            BY DEF TypeOK
        <3> QED BY <3>1 DEF Finished, Range
    <2>3. \A k \in 1..Len(consumers) : consumers[k] \in Consumers
        BY EntriesType
    <2>4. \A c \in Consumers : state'[c] # "EXPIRED"
        BY <2>1, <2>2 DEF ListInv
    <2>5. \A k \in 1..Len(consumers) : state'[consumers[k]] = "ACTIVE"
        BY <2>1, <2>2, <2>3 DEF ListInv
    <2> QED BY <2>1, <2>4, <2>5 DEF ListInv, Distinct
<1> QED BY <1>2, <1>3, <1>4, <1>5, <1>6, <1>7, <1>8, <1>9 DEF Next, Advance

-----------------------------------------------------------------------------
(***************************************************************************)
(* The events that wait and the batch under way                            *)
(***************************************************************************)

\* How many events were ever swapped out, and how many of them before the batch.
Swapped == recorded - Len(events)
Handed == Swapped - Len(batch.events)

\* The events are numbered without gaps through the batch to the last recorded, and
\* only a round under way has a batch.
NumbersInv ==
    /\ Len(events) + Len(batch.events) <= recorded
    /\ \A k \in 1..Len(events) : events[k].id = Swapped + k
    /\ \A k \in 1..Len(batch.events) : batch.events[k].id = Handed + k
    /\ main \in {"check", "lock", "sweep"} <=> Len(batch.events) > 0

\* Each event finds its args in the vector next to it.
ArgsInv ==
    /\ \A k \in 1..Len(events) :
           IF HasArgs(events[k].ph)
           THEN /\ events[k].args_index + 1 \in 1..Len(args)
                /\ args[events[k].args_index + 1] = events[k].id
           ELSE events[k].args_index = -1
    /\ \A k \in 1..Len(batch.events) :
           IF HasArgs(batch.events[k].ph)
           THEN /\ batch.events[k].args_index + 1 \in 1..Len(batch.args)
                /\ batch.args[batch.events[k].args_index + 1] = batch.events[k].id
           ELSE batch.events[k].args_index = -1

LEMMA Lengths ==
    ASSUME TypeOK
    PROVE  /\ Len(events) \in Nat /\ Len(batch.events) \in Nat /\ Len(args) \in Nat
           /\ recorded \in Nat /\ Len(consumers) \in Nat /\ Len(expired) \in Nat
           /\ \A k \in 1..Len(events) : events[k] \in Event
           /\ \A k \in 1..Len(batch.events) : batch.events[k] \in Event
<1>1. /\ events \in Seq(Event) /\ batch.events \in Seq(Event) /\ args \in Seq(1..MaxEvents)
      /\ consumers \in Seq(Consumers) /\ expired \in Seq(Consumers) /\ recorded \in 0..MaxEvents
    BY DEF TypeOK
<1> QED BY <1>1, LenProperties, ElementOfSeq

LEMMA RecordKeeps ==
    ASSUME TypeOK, TypeOK', NumbersInv, ArgsInv, NEW r \in Recorders, Record(r)
    PROVE  NumbersInv' /\ ArgsInv' /\ Swapped' = Swapped /\ Handed' = Handed
<1> USE DEF list, clients, round
<1> DEFINE e == [id |-> recorded', by |-> r, ph |-> doing[r], args_index |-> ArgsIndex(doing[r])]
<1>1. /\ events' = Append(events, e) /\ recorded' = recorded + 1
      /\ args' = IF HasArgs(doing[r]) THEN Append(args, recorded') ELSE args
      /\ UNCHANGED <<batch, main>>
      /\ e.id = recorded' /\ e.ph = doing[r] /\ e.args_index = ArgsIndex(doing[r])
    BY DEF Record
<1>2. e \in Event /\ recorded' \in 1..MaxEvents
    <2>1. doing[r] \in {"B", "E", "C"} /\ recorded \in Nat /\ MaxEvents \in Nat
        BY TracerAssumption DEF Record, TypeOK
    <2>2. recorded' \in 1..MaxEvents
        BY <1>1, <2>1 DEF Record
    <2>3. events' \in Seq(Event)
        BY DEF TypeOK
    <2>4. Len(events) \in Nat /\ Len(events') = Len(events) + 1 /\ events'[Len(events) + 1] = e
        <3>1. events \in Seq(Event \cup {e})
            BY SeqMonotonic DEF TypeOK
        <3> QED BY <1>1, <3>1, AppendedTo
    <2>5. events'[Len(events) + 1] \in Event
        BY <2>3, <2>4, ElementOfSeq
    <2> QED BY <2>2, <2>4, <2>5
<1> HIDE DEF e
<1>3. /\ Len(events) \in Nat /\ Len(events') = Len(events) + 1 /\ events'[Len(events) + 1] = e
      /\ \A k \in 1..Len(events) : events'[k] = events[k]
    BY <1>1, <1>2, AppendedTo DEF TypeOK
<1>4. /\ Len(args) \in Nat
      /\ HasArgs(doing[r]) => Len(args') = Len(args) + 1 /\ args'[Len(args) + 1] = recorded'
      /\ ~HasArgs(doing[r]) => args' = args
      /\ \A k \in 1..Len(args) : args'[k] = args[k]
      /\ Len(args') >= Len(args)
    <2>1. args \in Seq(1..MaxEvents)
        BY DEF TypeOK
    <2> QED BY <1>1, <1>2, <2>1, AppendedTo
<1>5. /\ recorded \in Nat /\ Len(batch.events) \in Nat
      /\ Swapped' = Swapped /\ Handed' = Handed /\ Swapped \in Nat
    BY <1>1, <1>3, Lengths DEF Swapped, Handed, NumbersInv
<1>6. NumbersInv'
    <2>1. ASSUME NEW k \in 1..Len(events') PROVE events'[k].id = Swapped + k
        <3>1. CASE k = Len(events) + 1
            BY <1>1, <1>3, <1>5, <3>1 DEF Swapped
        <3>2. CASE k # Len(events) + 1
            BY <1>3, <2>1, <3>2 DEF NumbersInv
        <3> QED BY <3>1, <3>2
    <2>2. Len(events') + Len(batch'.events) <= recorded'
        <3>1. Len(events) + Len(batch.events) <= recorded
            BY DEF NumbersInv
        <3>2. batch'.events = batch.events
            BY <1>1
        <3> HIDE DEF NumbersInv, Swapped, Handed
        <3>3. Len(events) \in Nat /\ Len(batch.events) \in Nat /\ recorded \in Nat
            BY Lengths
        <3>4. recorded' = recorded + 1 /\ Len(events') = Len(events) + 1
            BY <1>1, <1>3
        <3>5. (Len(events) + 1) + Len(batch.events) <= recorded + 1
            <4>1. \A x, y, z \in Nat : x + y <= z => (x + 1) + y <= z + 1
                OBVIOUS
            <4> QED BY <3>1, <3>3, <4>1
        <3> QED BY <3>2, <3>4, <3>5
    <2>3. \A k \in 1..Len(batch'.events) : batch'.events[k].id = Handed' + k
        BY <1>1, <1>5 DEF NumbersInv
    <2>4. main' \in {"check", "lock", "sweep"} <=> Len(batch'.events) > 0
        BY <1>1 DEF NumbersInv
    <2>5. \A k \in 1..Len(events') : events'[k].id = Swapped' + k
        BY <1>5, <2>1
    <2> HIDE DEF Swapped, Handed
    <2> QED BY <2>2, <2>3, <2>4, <2>5 DEF NumbersInv
<1>7. ArgsInv'
    <2>1. ASSUME NEW k \in 1..Len(events')
          PROVE  IF HasArgs(events'[k].ph)
                 THEN /\ events'[k].args_index + 1 \in 1..Len(args')
                      /\ args'[events'[k].args_index + 1] = events'[k].id
                 ELSE events'[k].args_index = -1
        <3>1. CASE k = Len(events) + 1
            <4>1. events'[k] = e
                BY <1>3, <3>1
            <4>2. CASE HasArgs(doing[r])
                BY <1>1, <1>4, <4>1, <4>2 DEF ArgsIndex
            <4>3. CASE ~HasArgs(doing[r])
                BY <1>1, <4>1, <4>3 DEF ArgsIndex
            <4> QED BY <4>2, <4>3
        <3>2. CASE k # Len(events) + 1
            <4>1. k \in 1..Len(events) /\ events'[k] = events[k]
                BY <1>3, <3>2
            <4> QED BY <1>4, <4>1 DEF ArgsInv
        <3> QED BY <3>1, <3>2
    <2> QED BY <1>1, <2>1 DEF ArgsInv
<1> QED BY <1>5, <1>6, <1>7

\* The round takes the events over, and gives its batch up when it returns.
LEMMA SwapKeeps ==
    ASSUME TypeOK, TypeOK', NumbersInv, ArgsInv, SwapOut
    PROVE  NumbersInv' /\ ArgsInv' /\ Handed' = Handed
<1>1. /\ events' = <<>> /\ args' = <<>> /\ batch'.events = events /\ batch'.args = args
      /\ recorded' = recorded /\ main' = "check" /\ main \in {"idle", "entering"}
      /\ Len(events) > 0
    BY EmptySeq DEF SwapOut, AtEntry, TypeOK
<1>2. Len(batch.events) = 0 /\ Len(events) \in Nat /\ recorded \in Nat /\ Len(events') = 0
    BY <1>1, Lengths DEF NumbersInv
<1>3. Swapped' = recorded /\ Handed' = Swapped /\ Handed = Swapped
    BY <1>1, <1>2 DEF Swapped, Handed
<1>4. NumbersInv'
    BY <1>1, <1>2, <1>3 DEF NumbersInv
<1>5. ArgsInv'
    BY <1>1, <1>2 DEF ArgsInv
<1> QED BY <1>3, <1>4, <1>5

LEMMA ReturnKeeps ==
    ASSUME TypeOK, TypeOK', NumbersInv, ArgsInv, Return, UNCHANGED <<events, args, recorded>>
    PROVE  NumbersInv' /\ ArgsInv' /\ Handed' = Swapped /\ Swapped' = Swapped
<1>1. batch'.events = <<>> /\ main' \in {"idle", "returned"} /\ Len(batch'.events) = 0
    BY DEF Return, NoBatch
<1>2. Swapped' = Swapped /\ Swapped \in Nat
    BY Lengths DEF Swapped, NumbersInv
<1>3. Handed' = Swapped
    BY <1>1, <1>2 DEF Handed
<1>4. NumbersInv'
    BY <1>1, <1>2, Lengths DEF NumbersInv, Swapped
<1>5. ArgsInv'
    BY <1>1 DEF ArgsInv
<1> QED BY <1>2, <1>3, <1>4, <1>5

LEMMA NumbersStep ==
    ASSUME TypeOK, TypeOK', ListInv, NumbersInv, ArgsInv, [Next]_vars
    PROVE  NumbersInv' /\ ArgsInv'
<1> USE DEF buffers, threads, list, clients, round
<1>1. ASSUME UNCHANGED <<events, args, batch, recorded>>,
             main' \in {"check", "lock", "sweep"} <=> main \in {"check", "lock", "sweep"}
      PROVE  NumbersInv' /\ ArgsInv'
    BY <1>1 DEF NumbersInv, ArgsInv, Swapped, Handed
<1>2. CASE \/ \E r \in Spanners : EnterSpan(r) \/ LeaveSpan(r)
           \/ \E r \in Counters : Count(r)
           \/ AddMetaEvent \/ Shutdown \/ Tick
           \/ \E c \in Consumers :
                  UpdateExpiry(c) \/ AddConsumer(c) \/ Extend(c) \/ RemoveConsumer(c)
           \/ UNCHANGED vars
    BY <1>1, <1>2 DEF EnterSpan, LeaveSpan, Count, AddMetaEvent, Shutdown, Tick, UpdateExpiry,
                      AddConsumer, Extend, RemoveConsumer, vars
<1>3. CASE FormatBatch \/ SweepActive \/ SweepExpired
    BY <1>1, <1>3 DEF FormatBatch, SweepActive, SweepExpired, AtSweep
<1>4. ASSUME NEW r \in Recorders, Record(r) PROVE NumbersInv' /\ ArgsInv'
    BY <1>4, RecordKeeps
<1>5. CASE SwapOut
    BY <1>5, SwapKeeps
<1>6. CASE ReturnAtOnce \/ DropBatch \/ FinishExpired
    BY <1>6, ReturnKeeps DEF ReturnAtOnce, DropBatch, FinishExpired
<1> QED BY <1>2, <1>3, <1>4, <1>5, <1>6 DEF Next, Advance

LEMMA Counts ==
    ASSUME TypeOK, NumbersInv
    PROVE  /\ Handed \in Nat /\ Swapped \in Nat /\ Swapped = Handed + Len(batch.events)
           /\ Swapped <= recorded
    BY Lengths DEF Handed, Swapped, NumbersInv

-----------------------------------------------------------------------------
(***************************************************************************)
(* The files                                                               *)
(***************************************************************************)

Chained(f, from) ==
    \A k \in 1..Len(f) : f[k].id > 0 =>
        IF k = 1 THEN f[k].id <= from ELSE f[k - 1].id > 0 /\ f[k].id = f[k - 1].id + 1

Argued(f) == \A k \in 1..Len(f) : f[k].args = IF HasArgs(f[k].ph) THEN f[k].id ELSE 0

OnlyEvents(f) == \A k \in 1..Len(f) : f[k].id > 0 /\ f[k].ph # "X"

\* The file that has been given all events up to number n, of those after `from`.
UpTo(f, n, from) == IF Len(f) = 0 THEN n <= from ELSE f[Len(f)].id = n

LEMMA Concat ==
    ASSUME NEW S, NEW f \in Seq(S), NEW g \in Seq(S)
    PROVE  /\ f \o g \in Seq(S) /\ Len(f) \in Nat /\ Len(g) \in Nat
           /\ Len(f \o g) = Len(f) + Len(g)
           /\ \A k \in 1..Len(f) : (f \o g)[k] = f[k]
           /\ \A k \in 1..Len(g) : (f \o g)[Len(f) + k] = g[k]
           /\ \A k \in 1..Len(f \o g) : k \notin 1..Len(f) =>
                  k - Len(f) \in 1..Len(g) /\ (f \o g)[k] = g[k - Len(f)]
    BY ConcatProperties

\* A batch that starts where the file ends continues it.
LEMMA EventsContinue ==
    ASSUME NEW f \in Seq(LineType), NEW g \in Seq(LineType), NEW from \in Nat, NEW n \in Nat,
           Chained(f, from + 1), Argued(f), OnlyEvents(f), UpTo(f, n, from),
           Argued(g), \A k \in 1..Len(g) : g[k].id = n + k /\ g[k].ph # "X", Len(g) > 0
    PROVE  /\ Chained(f \o g, from + 1) /\ Argued(f \o g) /\ OnlyEvents(f \o g)
           /\ Len(f \o g) > 0 /\ (f \o g)[Len(f \o g)].id = n + Len(g)
<1> DEFINE fg == f \o g
<1>1. /\ fg \in Seq(LineType) /\ Len(f) \in Nat /\ Len(g) \in Nat /\ Len(fg) = Len(f) + Len(g)
      /\ \A k \in 1..Len(f) : fg[k] = f[k]
      /\ \A k \in 1..Len(g) : fg[Len(f) + k] = g[k]
      /\ \A k \in 1..Len(fg) : k \notin 1..Len(f) =>
             k - Len(f) \in 1..Len(g) /\ fg[k] = g[k - Len(f)]
    BY Concat
<1> HIDE DEF fg
<1>2. Len(fg) > 0 /\ fg[Len(fg)].id = n + Len(g)
    <2>1. Len(g) \in 1..Len(g)
        BY <1>1
    <2>2. fg[Len(f) + Len(g)] = g[Len(g)] /\ g[Len(g)].id = n + Len(g)
        BY <1>1, <2>1
    <2>3. fg[Len(fg)].id = n + Len(g)
        BY <1>1, <2>2
    <2>4. Len(fg) > 0
        BY <1>1, <2>1
    <2> QED BY <2>3, <2>4
<1>3. Argued(fg) /\ OnlyEvents(fg)
    <2>1. Argued(fg)
        BY <1>1 DEF Argued, HasArgs
    <2>2. ASSUME NEW k \in 1..Len(fg) PROVE fg[k].id > 0 /\ fg[k].ph # "X"
        <3>1. CASE k \in 1..Len(f)
            BY <1>1, <3>1 DEF OnlyEvents
        <3>2. CASE k \notin 1..Len(f)
            <4>1. PICK j \in 1..Len(g) : fg[k] = g[j]
                BY <1>1, <3>2
            <4>2. g[j].id = n + j /\ g[j].ph # "X" /\ n + j > 0
                BY <1>1
            <4> QED BY <4>1, <4>2
        <3> QED BY <3>1, <3>2
    <2> QED BY <2>1, <2>2 DEF OnlyEvents
<1>4. Chained(fg, from + 1)
    <2>1. ASSUME NEW k \in 1..Len(fg)
          PROVE  IF k = 1 THEN fg[k].id <= from + 1
                 ELSE fg[k - 1].id > 0 /\ fg[k].id = fg[k - 1].id + 1
        <3>1. CASE k \in 1..Len(f)
            <4>1. f[k].id > 0 /\ fg[k] = f[k]
                BY <1>1, <3>1 DEF OnlyEvents
            <4>2. k # 1 => k - 1 \in 1..Len(f)
                BY <1>1, <3>1
            <4> QED BY <1>1, <3>1, <4>1, <4>2 DEF Chained
        <3>2. CASE k = Len(f) + 1
            <4>1. fg[k].id = n + 1
                BY <1>1, <3>2
            <4>2. CASE Len(f) = 0
                BY <3>2, <4>1, <4>2 DEF UpTo
            <4>3. CASE Len(f) # 0
                <5>1. k - 1 = Len(f) /\ k # 1 /\ Len(f) \in 1..Len(f)
                    BY <1>1, <3>2, <4>3
                <5>2. fg[k - 1] = f[Len(f)] /\ f[Len(f)].id = n /\ f[Len(f)].id > 0
                    BY <1>1, <4>3, <5>1 DEF UpTo, OnlyEvents
                <5> QED BY <4>1, <5>1, <5>2
            <4> QED BY <4>2, <4>3
        <3>3. CASE k \notin 1..Len(f) /\ k # Len(f) + 1
            <4>1. /\ k - Len(f) \in 1..Len(g) /\ k - Len(f) # 1 /\ k # 1
                  /\ (k - 1) - Len(f) \in 1..Len(g) /\ k - 1 \in 1..Len(fg) /\ k - 1 \notin 1..Len(f)
                <5>1. k \in Nat /\ k <= Len(f) + Len(g) /\ k > Len(f) + 1 /\ Len(f) \in Nat /\ Len(g) \in Nat
                    BY <1>1, <3>3
                <5>2. Len(fg) = Len(f) + Len(g)
                    BY <1>1
                <5> QED BY <5>1, <5>2
            <4>2. fg[k].id = n + (k - Len(f)) /\ fg[k - 1].id = n + ((k - 1) - Len(f))
                BY <1>1, <3>3, <4>1
            <4> QED BY <1>1, <4>1, <4>2
        <3> QED BY <3>1, <3>2, <3>3
    <2> QED BY <2>1 DEF Chained
<1> QED BY <1>2, <1>3, <1>4 DEF fg

\* Marks do not break the chain of the events.
LEMMA MarksFollow ==
    ASSUME NEW f \in Seq(LineType), NEW g \in Seq(LineType), NEW from,
           Chained(f, from), Argued(f), Argued(g), \A k \in 1..Len(g) : g[k].id = 0
    PROVE  Chained(f \o g, from) /\ Argued(f \o g)
<1> DEFINE fg == f \o g
<1>1. /\ fg \in Seq(LineType) /\ Len(f) \in Nat /\ Len(g) \in Nat /\ Len(fg) = Len(f) + Len(g)
      /\ \A k \in 1..Len(f) : fg[k] = f[k]
      /\ \A k \in 1..Len(fg) : k \notin 1..Len(f) =>
             k - Len(f) \in 1..Len(g) /\ fg[k] = g[k - Len(f)]
    BY Concat
<1> HIDE DEF fg
<1>2. Argued(fg)
    BY <1>1 DEF Argued, HasArgs
<1>3. Chained(fg, from)
    <2>1. ASSUME NEW k \in 1..Len(fg), fg[k].id > 0
          PROVE  IF k = 1 THEN fg[k].id <= from
                 ELSE fg[k - 1].id > 0 /\ fg[k].id = fg[k - 1].id + 1
        <3>1. k \in 1..Len(f)
            BY <1>1, <2>1
        <3>2. k # 1 => k - 1 \in 1..Len(f)
            BY <1>1, <3>1
        <3> QED BY <1>1, <2>1, <3>1, <3>2 DEF Chained
    <2> QED BY <2>1 DEF Chained
<1> QED BY <1>2, <1>3 DEF fg

\* The lines of the batch under way, and those of finish().
LEMMA BatchLines ==
    ASSUME TypeOK, NumbersInv, ArgsInv
    PROVE  /\ Lines \in Seq(LineType) /\ Len(Lines) = Len(batch.events) /\ Argued(Lines)
           /\ \A k \in 1..Len(Lines) : Lines[k].id = Handed + k /\ Lines[k].ph # "X"
<1>1. /\ Lines \in Seq(LineType) /\ Len(Lines) = Len(batch.events)
      /\ \A k \in 1..Len(batch.events) : Lines[k] = Line(batch.events[k])
    BY LinesType
<1>2. ASSUME NEW k \in 1..Len(batch.events)
      PROVE  /\ Lines[k].id = Handed + k /\ Lines[k].ph # "X"
             /\ Lines[k].args = IF HasArgs(Lines[k].ph) THEN Lines[k].id ELSE 0
    <2> DEFINE e == batch.events[k]
               as == batch.args
    <2>1. e \in Event /\ e.id = Handed + k
        BY Lengths DEF NumbersInv
    <2>2. IF HasArgs(e.ph) THEN e.args_index + 1 \in 1..Len(as) /\ as[e.args_index + 1] = e.id
          ELSE e.args_index = -1
        BY DEF ArgsInv
    <2>3. DOMAIN as = 1..Len(as) /\ Len(as) \in Nat
        BY DEF TypeOK
    <2>4. Lines[k] = [id |-> e.id, by |-> e.by, ph |-> e.ph,
                      args |-> IF e.args_index + 1 = 0 THEN 0
                               ELSE IF e.args_index + 1 \in DOMAIN as THEN as[e.args_index + 1]
                               ELSE -1]
        BY <1>1 DEF Line
    <2>5. e.ph \in {"B", "E", "C"} /\ e.args_index \in Int
        BY <2>1, TracerAssumption DEF Event
    <2> HIDE DEF e, as
    <2>6. CASE HasArgs(e.ph)
        <3>1. e.args_index + 1 \in 1..Len(as) /\ as[e.args_index + 1] = e.id
            BY <2>2, <2>6
        <3>2. e.args_index + 1 # 0 /\ e.args_index + 1 \in DOMAIN as
            <4>1. \A x \in 1..Len(as) : x # 0
                BY <2>3
            <4>2. e.args_index + 1 \in DOMAIN as
                BY Zenon, <2>3, <3>1
            <4> QED BY <3>1, <4>1, <4>2
        <3>3. Lines[k] = [id |-> e.id, by |-> e.by, ph |-> e.ph, args |-> e.id]
            BY <2>4, <3>1, <3>2
        <3> QED BY <2>1, <2>5, <2>6, <3>3
    <2>7. CASE ~HasArgs(e.ph)
        <3>1. e.args_index + 1 = 0
            BY <2>2, <2>7
        <3>2. Lines[k] = [id |-> e.id, by |-> e.by, ph |-> e.ph, args |-> 0]
            BY <2>4, <3>1
        <3> QED BY <2>1, <2>5, <2>7, <3>2
    <2> QED BY <2>6, <2>7
<1> QED BY <1>1, <1>2 DEF Argued

LEMMA FinishLines ==
    ASSUME TypeOK
    PROVE  /\ LastLines \in Seq(LineType) /\ Argued(LastLines)
           /\ \A k \in 1..Len(LastLines) : LastLines[k].id = 0
           /\ Len(LastLines) \in 1..Len(LastLines) /\ LastLines[Len(LastLines)].ph = "X"
<1>1. /\ LastLines \in Seq(LineType) /\ Len(LastLines) = metaEvents + 1 /\ metaEvents \in Nat
      /\ LastLines[metaEvents + 1] = Mark("X")
      /\ \A k \in 1..metaEvents : LastLines[k] = Mark("M")
    BY LastLinesType DEF TypeOK
<1>2. \A k \in 1..Len(LastLines) : LastLines[k] = Mark("X") \/ LastLines[k] = Mark("M")
    BY <1>1
<1>3. \A k \in 1..Len(LastLines) : LastLines[k].id = 0 /\ LastLines[k].args = 0
                                   /\ LastLines[k].ph # "C"
    BY <1>2 DEF Mark
<1>4. Len(LastLines) \in 1..Len(LastLines) /\ LastLines[Len(LastLines)].ph = "X"
    BY <1>1 DEF Mark
<1> QED BY <1>1, <1>3, <1>4 DEF Argued, HasArgs

\* A consumer's file: events until it is closed, and closed when it is complete.
FileInv(c) ==
    /\ Chained(file[c], joined[c] + 1) /\ Argued(file[c])
    /\ stream[c] # "closed" => OnlyEvents(file[c])
    /\ stream[c] = "closed" =>
           state[c] = "COMPLETE" /\ \E k \in 1..Len(file[c]) : file[c][k].ph = "X"
    /\ state[c] = "COMPLETE" => stream[c] # "open"
    /\ state[c] = "new" => stream[c] = "unopened"
    /\ (state[c] \in {"new", "dated"} \/ stream[c] = "unopened") => Len(file[c]) = 0

FilesInv == \A c \in Consumers : FileInv(c)

\* Registered consumers have been given everything up to the batch, and those that
\* the sweep has passed the batch too.
DeliveredInv ==
    \A k \in 1..Len(consumers) : stream[consumers[k]] = "open" =>
        IF k < i THEN Len(file[consumers[k]]) > 0 /\ UpTo(file[consumers[k]], Swapped, 0)
        ELSE UpTo(file[consumers[k]], Handed, joined[consumers[k]])

\* The consumer whose turn it is gets the batch.
LEMMA SweepFile ==
    ASSUME TypeOK, TypeOK', ListInv, NumbersInv, ArgsInv, FilesInv, DeliveredInv,
           SweepActive \/ SweepExpired
    PROVE  /\ i \in 1..Len(consumers) /\ consumers[i] \in Consumers
           /\ \A c \in Consumers : c # consumers[i] => file'[c] = file[c] /\ state'[c] = state[c]
           /\ state[consumers[i]] = "ACTIVE" /\ state'[consumers[i]] \in {"ACTIVE", "EXPIRED"}
           /\ UNCHANGED <<stream, joined, Swapped, Handed>> /\ i' \in {i, i + 1}
           /\ Chained(file'[consumers[i]], joined[consumers[i]] + 1) /\ Argued(file'[consumers[i]])
           /\ stream[consumers[i]] # "closed" /\ OnlyEvents(file'[consumers[i]])
           /\ stream[consumers[i]] = "open" =>
                  Len(file'[consumers[i]]) > 0 /\ UpTo(file'[consumers[i]], Swapped, 0)
           /\ stream[consumers[i]] # "open" => file'[consumers[i]] = file[consumers[i]]
<1> USE DEF buffers, threads, list, clients, round
<1> DEFINE c == consumers[i]
           f == file[c]
<1>1. /\ i \in 1..Len(consumers) /\ AtSweep
      /\ file' = [file EXCEPT ![c] = ConsumeEvents(c, Lines)]
      /\ \/ state' = state \/ state' = [state EXCEPT ![c] = "EXPIRED"]
      /\ UNCHANGED <<stream, joined, events, batch, recorded>> /\ i' \in {i, i + 1}
    <2>1. i \in 1..Len(consumers)
        BY DEF SweepActive, SweepExpired, TypeOK
    <2>2. CASE SweepActive
        BY <2>1, <2>2 DEF SweepActive
    <2>3. CASE SweepExpired
        BY <2>1, <2>3 DEF SweepExpired, NextAfterRemoval, Drop
    <2> QED BY <2>2, <2>3
<1>2. c \in Consumers /\ state[c] = "ACTIVE"
    BY <1>1, EntriesType DEF ListInv
<1> HIDE DEF c
<1>3. /\ \A d \in Consumers : d # c => file'[d] = file[d] /\ state'[d] = state[d]
      /\ state'[c] \in {"ACTIVE", "EXPIRED"}
      /\ file'[c] = IF stream[c] = "open" THEN f \o Lines ELSE f
    BY <1>1, <1>2 DEF ConsumeEvents, TypeOK
<1>4. /\ Chained(f, joined[c] + 1) /\ Argued(f) /\ stream[c] # "closed" /\ OnlyEvents(f)
    BY <1>2 DEF FilesInv, FileInv
<1>5. f \in Seq(LineType) /\ joined[c] \in Nat
    BY <1>2, TracerAssumption DEF TypeOK
<1>6. UNCHANGED <<Swapped, Handed>>
    BY <1>1 DEF Swapped, Handed
<1>7. CASE stream[c] = "open"
    <2>1. UpTo(f, Handed, joined[c])
        BY <1>1, <1>7 DEF DeliveredInv, c
    <2>2. Len(batch.events) > 0
        BY <1>1 DEF NumbersInv, AtSweep
    <2>3. /\ Handed \in Nat /\ Swapped = Handed + Len(batch.events)
        BY Counts
    <2> DEFINE g == Lines
    <2>4. /\ g \in Seq(LineType) /\ Len(g) = Len(batch.events) /\ Argued(g)
          /\ \A k \in 1..Len(g) : g[k].id = Handed + k /\ g[k].ph # "X"
        BY BatchLines
    <2>5. file'[c] = f \o g
        BY <1>3, <1>7
    <2> HIDE DEF g, f
    <2>6. /\ Chained(f \o g, joined[c] + 1) /\ Argued(f \o g) /\ OnlyEvents(f \o g)
          /\ Len(f \o g) > 0 /\ (f \o g)[Len(f \o g)].id = Handed + Len(g)
        BY <1>4, <1>5, <2>1, <2>2, <2>3, <2>4, EventsContinue
    <2>7. UpTo(f \o g, Swapped, 0)
        BY <2>3, <2>4, <2>6 DEF UpTo
    <2> QED BY <1>1, <1>2, <1>3, <1>4, <1>6, <1>7, <2>5, <2>6, <2>7 DEF c
<1>8. CASE stream[c] # "open"
    BY <1>1, <1>2, <1>3, <1>4, <1>6, <1>8 DEF c
<1> QED BY <1>7, <1>8

LEMMA FilesStep ==
    ASSUME TypeOK, TypeOK', ListInv, NumbersInv, ArgsInv, FilesInv, DeliveredInv, [Next]_vars
    PROVE  FilesInv'
<1> USE DEF buffers, threads, list, clients, round
<1>1. ASSUME NEW c \in Consumers, file'[c] = file[c],
             joined'[c] = joined[c], stream'[c] = stream[c], state'[c] = state[c]
      PROVE  FileInv(c)'
    BY <1>1 DEF FilesInv, FileInv
<1>2. ASSUME UNCHANGED <<file, joined, stream, state>> PROVE FilesInv'
    BY <1>1, <1>2 DEF FilesInv
<1>3. CASE \/ \E r \in Spanners : EnterSpan(r) \/ LeaveSpan(r)
           \/ \E r \in Counters : Count(r)
           \/ \E r \in Recorders : Record(r)
           \/ AddMetaEvent \/ Shutdown \/ Tick
           \/ \E c \in Consumers : Extend(c)
           \/ \E c \in Consumers : RemoveConsumer(c)
           \/ ReturnAtOnce \/ SwapOut \/ DropBatch \/ FormatBatch
           \/ UNCHANGED vars
    BY <1>2, <1>3 DEF EnterSpan, LeaveSpan, Count, Record, AddMetaEvent, Shutdown, Tick, Extend,
                      RemoveConsumer, Drop, ReturnAtOnce, SwapOut, DropBatch, FormatBatch, vars
<1>4. ASSUME NEW c \in Consumers, UpdateExpiry(c) PROVE FilesInv'
    <2>1. /\ state[c] = "new" /\ state'[c] = "dated" /\ stream'[c] \in {"open", "unopened"}
          /\ UNCHANGED <<file, joined>>
          /\ \A d \in Consumers : d # c => state'[d] = state[d] /\ stream'[d] = stream[d]
        BY <1>4 DEF UpdateExpiry, Opened, TypeOK
    <2>2. FileInv(c)'
        BY <2>1 DEF FilesInv, FileInv, OnlyEvents
    <2> QED BY <1>1, <2>1, <2>2 DEF FilesInv
<1>5. ASSUME NEW c \in Consumers, AddConsumer(c) PROVE FilesInv'
    <2>1. /\ state[c] = "dated" /\ state'[c] = "ACTIVE" /\ UNCHANGED <<file, stream>>
          /\ \A d \in Consumers : d # c => state'[d] = state[d] /\ joined'[d] = joined[d]
        BY <1>5 DEF AddConsumer, TypeOK
    <2>2. Len(file[c]) = 0
        BY <2>1 DEF FilesInv, FileInv
    <2>3. FileInv(c)'
        BY <2>1, <2>2 DEF FilesInv, FileInv, Chained
    <2> QED BY <1>1, <2>1, <2>3 DEF FilesInv
<1>6. CASE SweepActive \/ SweepExpired
    <2>0. PICK c \in Consumers : c = consumers[i]
        BY <1>6, SweepFile
    <2>1. /\ state[c] = "ACTIVE" /\ state'[c] \in {"ACTIVE", "EXPIRED"}
          /\ \A d \in Consumers : d # c => file'[d] = file[d] /\ state'[d] = state[d]
          /\ UNCHANGED <<stream, joined>>
          /\ Chained(file'[c], joined[c] + 1) /\ Argued(file'[c])
          /\ stream[c] # "closed" /\ OnlyEvents(file'[c])
          /\ stream[c] # "open" => file'[c] = file[c]
        BY <1>6, <2>0, SweepFile
    <2>2. FileInv(c)
        BY <2>1 DEF FilesInv
    <2>3. FileInv(c)'
        <3>1. /\ state'[c] \notin {"new", "dated", "COMPLETE"}
              /\ stream'[c] = stream[c] /\ joined'[c] = joined[c]
            BY <2>1
        <3>2. stream[c] = "unopened" => Len(file'[c]) = 0
            BY <2>1, <2>2 DEF FileInv
        <3> QED BY <2>1, <3>1, <3>2 DEF FileInv
    <2>4. ASSUME NEW d \in Consumers PROVE FileInv(d)'
        <3>1. CASE d = c
            BY <2>3, <3>1
        <3>2. CASE d # c
            BY <1>1, <2>1, <3>2
        <3> QED BY <3>1, <3>2
    <2> QED BY <2>4 DEF FilesInv
<1>7. CASE FinishExpired
    <2>1. /\ UNCHANGED joined
          /\ \A c \in Consumers :
                /\ c \notin Finished => UNCHANGED <<file[c], state[c], stream[c]>>
                /\ c \in Finished =>
                      /\ state'[c] = "COMPLETE"
                      /\ file'[c] = IF stream[c] = "open" THEN file[c] \o LastLines ELSE file[c]
                      /\ stream'[c] = IF stream[c] = "open" THEN "closed" ELSE stream[c]
        BY <1>7 DEF FinishExpired, ConsumeEvents
    <2>2. ASSUME NEW c \in Consumers, c \in Finished PROVE FileInv(c)'
        <3>1. state[c] = "EXPIRED"
            <4>1. DOMAIN expired = 1..Len(expired)
                BY DEF TypeOK
            <4> QED BY <2>2, <4>1 DEF Finished, Range, ListInv
        <3>2. FileInv(c) /\ file[c] \in Seq(LineType)
            BY DEF FilesInv, TypeOK
        <3>3. CASE stream[c] = "open"
            <4> DEFINE f == file[c]
                       g == LastLines
            <4>1. /\ g \in Seq(LineType) /\ Argued(g)
                  /\ \A k \in 1..Len(g) : g[k].id = 0
                  /\ Len(g) \in 1..Len(g) /\ g[Len(g)].ph = "X"
                BY FinishLines
            <4>2. /\ file'[c] = f \o g /\ stream'[c] = "closed" /\ state'[c] = "COMPLETE"
                  /\ joined'[c] = joined[c]
                BY <2>1, <2>2, <3>3
            <4>3. f \in Seq(LineType) /\ Chained(f, joined[c] + 1) /\ Argued(f)
                BY <3>2 DEF FileInv
            <4> HIDE DEF f, g
            <4>4. Chained(f \o g, joined[c] + 1) /\ Argued(f \o g)
                BY <4>1, <4>3, MarksFollow
            <4>5. \E k \in 1..Len(f \o g) : (f \o g)[k].ph = "X"
                <5>1. /\ Len(f) \in Nat /\ Len(g) \in Nat /\ Len(f \o g) = Len(f) + Len(g)
                      /\ (f \o g)[Len(f) + Len(g)] = g[Len(g)]
                    BY <4>1, <4>3, Concat
                <5>2. Len(f) + Len(g) \in 1..Len(f \o g)
                    BY <4>1, <5>1
                <5> QED BY <4>1, <5>1, <5>2
            <4> QED BY <4>2, <4>4, <4>5 DEF FileInv
        <3>4. CASE stream[c] # "open"
            BY <2>1, <2>2, <3>1, <3>2, <3>4 DEF FileInv, TypeOK
        <3> QED BY <3>3, <3>4
    <2> QED BY <1>1, <2>1, <2>2 DEF FilesInv
<1> QED BY <1>3, <1>4, <1>5, <1>6, <1>7 DEF Next, Advance

LEMMA NotFinished ==
    ASSUME TypeOK, ListInv
    PROVE  \A c \in Consumers : c \in Finished <=> state[c] = "EXPIRED"
<1>1. DOMAIN expired = 1..Len(expired)
    BY DEF TypeOK
<1> QED BY <1>1 DEF Finished, Range, ListInv

LEMMA DeliveredStep ==
    ASSUME TypeOK, TypeOK', ListInv, NumbersInv, ArgsInv, FilesInv, DeliveredInv, [Next]_vars
    PROVE  DeliveredInv'
<1> USE DEF buffers, threads, list, clients, round
<1>1. /\ \A k \in 1..Len(consumers) : consumers[k] \in Consumers
      /\ Len(consumers) \in Nat /\ Handed \in Nat /\ Swapped \in Nat
      /\ Swapped = Handed + Len(batch.events) /\ Swapped <= recorded /\ recorded \in Nat
      /\ Len(batch.events) \in Nat
    BY EntriesType, Lengths, Counts
<1>2. ASSUME UNCHANGED <<consumers, stream, file, joined, i>>, Swapped' = Swapped, Handed' = Handed
      PROVE  DeliveredInv'
    BY <1>2 DEF DeliveredInv, UpTo
<1>3. CASE \/ \E r \in Spanners : EnterSpan(r) \/ LeaveSpan(r)
           \/ \E r \in Counters : Count(r)
           \/ AddMetaEvent \/ Shutdown \/ Tick \/ FormatBatch
           \/ \E c \in Consumers : Extend(c)
           \/ UNCHANGED vars
    <2>1. UNCHANGED <<consumers, stream, file, joined, i, events, batch, recorded>>
        BY <1>3 DEF EnterSpan, LeaveSpan, Count, AddMetaEvent, Shutdown, Tick, Extend,
                    FormatBatch, vars
    <2> QED BY <1>2, <2>1 DEF Swapped, Handed
<1>4. ASSUME NEW r \in Recorders, Record(r) PROVE DeliveredInv'
    <2>1. UNCHANGED <<consumers, stream, file, joined, i>>
        BY <1>4 DEF Record
    <2> QED BY <1>2, <1>4, <2>1, RecordKeeps
<1>5. ASSUME NEW c \in Consumers, UpdateExpiry(c) PROVE DeliveredInv'
    <2>1. /\ state[c] = "new" /\ UNCHANGED <<consumers, file, joined, i, events, batch, recorded>>
          /\ \A d \in Consumers : d # c => stream'[d] = stream[d]
        BY <1>5 DEF UpdateExpiry, TypeOK
    <2>2. \A k \in 1..Len(consumers) : stream'[consumers[k]] = stream[consumers[k]]
        BY <1>1, <2>1 DEF ListInv
    <2> QED BY <2>1, <2>2 DEF DeliveredInv, UpTo, Swapped, Handed
<1>6. ASSUME NEW c \in Consumers, AddConsumer(c) PROVE DeliveredInv'
    <2>1. /\ state[c] = "dated" /\ main # "sweep" /\ consumers' = Append(consumers, c)
          /\ UNCHANGED <<file, stream, i, events, batch, recorded>>
          /\ joined'[c] = recorded /\ \A d \in Consumers : d # c => joined'[d] = joined[d]
        BY <1>6 DEF AddConsumer, locked, TypeOK
    <2>2. /\ Len(consumers') = Len(consumers) + 1 /\ consumers'[Len(consumers) + 1] = c
          /\ \A k \in 1..Len(consumers) : consumers'[k] = consumers[k]
        BY <2>1, AppendedTo DEF TypeOK
    <2>3. Handed' = Handed /\ Swapped' = Swapped /\ i' = 1 /\ i = 1
        BY <2>1 DEF Swapped, Handed, ListInv
    <2>4. ASSUME NEW k \in 1..Len(consumers'), stream'[consumers'[k]] = "open"
          PROVE  UpTo(file'[consumers'[k]], Handed', joined'[consumers'[k]])
        <3>1. CASE k = Len(consumers) + 1
            <4>1. Len(file[c]) = 0
                BY <2>1 DEF FilesInv, FileInv
            <4> QED BY <1>1, <2>1, <2>2, <2>3, <3>1, <4>1 DEF UpTo
        <3>2. CASE k # Len(consumers) + 1
            <4>1. /\ k \in 1..Len(consumers) /\ consumers'[k] = consumers[k]
                  /\ consumers[k] # c /\ consumers[k] \in Consumers
                BY <1>1, <2>1, <2>2, <3>2 DEF ListInv
            <4>2. UpTo(file[consumers[k]], Handed, joined[consumers[k]])
                BY <2>1, <2>3, <2>4, <4>1 DEF DeliveredInv
            <4> QED BY <2>1, <2>3, <4>1, <4>2
        <3> QED BY <3>1, <3>2
    <2> QED BY <2>3, <2>4 DEF DeliveredInv
<1>7. ASSUME NEW c \in Consumers, RemoveConsumer(c) PROVE DeliveredInv'
    <2>1. PICK k \in 1..Len(consumers) : Drop(k)
        BY <1>7, RemoveDrops
    <2>2. /\ main # "sweep" /\ UNCHANGED <<file, stream, joined, i, events, batch, recorded>>
        BY <1>7, <2>1 DEF RemoveConsumer, locked, Drop
    <2>3. Handed' = Handed /\ Swapped' = Swapped /\ i' = 1 /\ i = 1
        BY <2>2 DEF Swapped, Handed, ListInv
    <2>4. ASSUME NEW j \in 1..Len(consumers'), stream'[consumers'[j]] = "open"
          PROVE  UpTo(file'[consumers'[j]], Handed', joined'[consumers'[j]])
        <3>1. PICK m \in 1..Len(consumers) : consumers'[j] = consumers[m]
            BY <2>1, DropKeeps
        <3> QED BY <2>2, <2>3, <2>4, <3>1 DEF DeliveredInv
    <2>5. \A j \in 1..Len(consumers') : ~(j < 1)
        OBVIOUS
    <2> QED BY <2>3, <2>4, <2>5 DEF DeliveredInv
<1>8. CASE ReturnAtOnce
    <2>1. /\ main # "sweep" /\ i' = 1 /\ Len(batch.events) = 0
          /\ UNCHANGED <<consumers, file, stream, joined>>
          /\ Swapped' = Swapped /\ Handed' = Swapped
        BY <1>1, <1>8, ReturnKeeps DEF ReturnAtOnce, Return, AtEntry, NumbersInv
    <2>2. i = 1 /\ Handed' = Handed
        BY <1>1, <2>1 DEF ListInv
    <2> QED BY <1>2, <2>1, <2>2
<1>9. CASE DropBatch
    <2>1. consumers' = <<>>
        BY <1>9 DEF DropBatch
    <2> QED BY <2>1 DEF DeliveredInv
<1>10. CASE SwapOut
    <2>1. main # "sweep" /\ UNCHANGED <<consumers, file, stream, joined, i>> /\ Handed' = Handed
        BY <1>10, SwapKeeps DEF SwapOut, AtEntry
    <2>2. i = 1
        BY <2>1 DEF ListInv
    <2>3. \A k \in 1..Len(consumers) : ~(k < 1)
        BY <1>1
    <2>4. \A k \in 1..Len(consumers) : stream[consumers[k]] = "open" =>
              UpTo(file[consumers[k]], Handed, joined[consumers[k]])
        BY <2>2, <2>3 DEF DeliveredInv
    <2> QED BY <2>1, <2>2, <2>3, <2>4 DEF DeliveredInv
<1>11. CASE SweepActive
    <2>1. PICK c \in Consumers : c = consumers[i]
        BY <1>11, SweepFile
    <2>2. /\ i \in 1..Len(consumers) /\ \A d \in Consumers : d # c => file'[d] = file[d]
          /\ UNCHANGED <<stream, joined, Swapped, Handed>>
          /\ stream[c] = "open" => Len(file'[c]) > 0 /\ UpTo(file'[c], Swapped, 0)
        BY <1>11, <2>1, SweepFile
    <2>3. i' = i + 1 /\ consumers' = consumers
        BY <1>11 DEF SweepActive
    <2>4. ASSUME NEW k \in 1..Len(consumers), stream[consumers[k]] = "open"
          PROVE  IF k < i + 1 THEN Len(file'[consumers[k]]) > 0 /\ UpTo(file'[consumers[k]], Swapped, 0)
                 ELSE UpTo(file'[consumers[k]], Handed, joined[consumers[k]])
        <3>1. CASE k = i
            BY <2>1, <2>2, <2>4, <3>1
        <3>2. CASE k # i
            <4>1. consumers[k] # c /\ consumers[k] \in Consumers /\ (k < i + 1 <=> k < i)
                BY <1>1, <2>1, <2>2, <3>2 DEF ListInv, Distinct
            <4>2. file'[consumers[k]] = file[consumers[k]]
                BY <2>2, <4>1
            <4> QED BY <2>4, <4>1, <4>2 DEF DeliveredInv
        <3> QED BY <3>1, <3>2
    <2> QED BY <2>2, <2>3, <2>4 DEF DeliveredInv
<1>12. CASE SweepExpired
    <2>1. PICK c \in Consumers : c = consumers[i]
        BY <1>12, SweepFile
    <2>2. /\ i \in 1..Len(consumers) /\ \A d \in Consumers : d # c => file'[d] = file[d]
          /\ UNCHANGED <<stream, joined, Swapped, Handed>>
        BY <1>12, <2>1, SweepFile
    <2>3. i' = i /\ Drop(i)
        BY <1>12 DEF SweepExpired, NextAfterRemoval
    <2>4. ASSUME NEW j \in 1..Len(consumers'), stream[consumers'[j]] = "open"
          PROVE  IF j < i THEN Len(file'[consumers'[j]]) > 0 /\ UpTo(file'[consumers'[j]], Swapped, 0)
                 ELSE UpTo(file'[consumers'[j]], Handed, joined[consumers'[j]])
        <3>1. PICK m \in 1..Len(consumers) : /\ consumers'[j] = consumers[m] /\ consumers[m] # c
                                             /\ (j < i => m = j) /\ (j >= i => m >= i)
            BY <2>1, <2>2, <2>3, DropKeeps
        <3>2. file'[consumers[m]] = file[consumers[m]]
            BY <1>1, <2>2, <3>1
        <3>3. j \in Nat /\ m \in Nat /\ i \in Nat /\ (j < i <=> m < i)
            <4>1. j \in Nat /\ m \in Nat /\ i \in Nat
                BY <2>2
            <4> QED BY <3>1, <4>1
        <3> QED BY <2>4, <3>1, <3>2, <3>3 DEF DeliveredInv
    <2> QED BY <2>2, <2>3, <2>4 DEF DeliveredInv
<1>13. CASE FinishExpired
    <2>1. /\ UNCHANGED <<consumers, joined, events, args, recorded>> /\ Return /\ i' = 1
          /\ i > Len(consumers)
          /\ \A c \in Consumers : c \notin Finished => file'[c] = file[c] /\ stream'[c] = stream[c]
        BY <1>13 DEF FinishExpired, Return
    <2>2. Handed' = Swapped /\ Swapped' = Swapped
        BY <2>1, ReturnKeeps
    <2>3. ASSUME NEW k \in 1..Len(consumers), stream'[consumers[k]] = "open"
          PROVE  UpTo(file'[consumers[k]], Handed', joined[consumers[k]])
        <3>1. consumers[k] \in Consumers /\ consumers[k] \notin Finished
            BY <1>1, NotFinished DEF ListInv
        <3>2. k < i
            BY <1>1, <2>1 DEF TypeOK
        <3>3. Len(file[consumers[k]]) > 0 /\ UpTo(file[consumers[k]], Swapped, 0)
            BY <2>1, <2>3, <3>1, <3>2 DEF DeliveredInv
        <3> QED BY <2>1, <2>2, <3>1, <3>3 DEF UpTo
    <2>4. \A k \in 1..Len(consumers) : ~(k < 1)
        BY <1>1
    <2> QED BY <2>1, <2>3, <2>4 DEF DeliveredInv
<1> QED BY <1>3, <1>4, <1>5, <1>6, <1>7, <1>8, <1>9, <1>10, <1>11, <1>12, <1>13 DEF Next, Advance

-----------------------------------------------------------------------------
(***************************************************************************)
(* Spans                                                                   *)
(***************************************************************************)

\* What an event and its line have in common.
Key(l) == [id |-> l.id, by |-> l.by, ph |-> l.ph]
Entries(s) == {Key(s[k]) : k \in 1..Len(s)}

Spans(T, r, from) == {l \in T : l.id > from /\ l.by = r /\ l.ph \in {"B", "E"}}

\* All that the k-th consumer has been given and what waits for it.
Trail(k) ==
    Entries(file[consumers[k]]) \cup Entries(events)
        \cup (IF k < i THEN {} ELSE Entries(batch.events))

\* The phase of the last span event that a thread has recorded.
LastPhase(r) ==
    IF doing[r] = "B" THEN "E" ELSE IF doing[r] = "E" THEN "B"
    ELSE IF inSpan[r] THEN "B" ELSE "E"

EndsIn(S, ph) == \A d \in S : (\A m \in S : m.id <= d.id) => d.ph = ph

\* A thread that is to record a beginning is in its span, one that is to record an
\* end has left it.
DoingInv == \A r \in Spanners :
    (doing[r] = "B" => inSpan[r]) /\ (doing[r] = "E" => ~inSpan[r])

TrailInv ==
    \A k \in 1..Len(consumers) : stream[consumers[k]] = "open" => \A r \in Spanners :
        LET S == Spans(Trail(k), r, joined[consumers[k]])
        IN  Alternate(S) /\ EndsIn(S, LastPhase(r))

PairsInv ==
    /\ \A c \in Consumers : joined[c] <= recorded
    /\ \A c \in Consumers : \A l \in Entries(file[c]) : l.id <= Swapped
    /\ \A c \in Consumers, r \in Spanners : Alternate(Spans(Entries(file[c]), r, joined[c]))

LEMMA KeyFields == ASSUME NEW l PROVE Key(l).id = l.id /\ Key(l).by = l.by /\ Key(l).ph = l.ph
    BY DEF Key

LEMMA EntriesOfConcat ==
    ASSUME NEW S, NEW f \in Seq(S), NEW g \in Seq(S)
    PROVE  Entries(f \o g) = Entries(f) \cup Entries(g)
<1> DEFINE fg == f \o g
<1>1. /\ Len(f) \in Nat /\ Len(g) \in Nat /\ Len(fg) = Len(f) + Len(g)
      /\ \A k \in 1..Len(f) : fg[k] = f[k]
      /\ \A k \in 1..Len(g) : fg[Len(f) + k] = g[k]
      /\ \A k \in 1..Len(fg) : k \notin 1..Len(f) =>
             k - Len(f) \in 1..Len(g) /\ fg[k] = g[k - Len(f)]
    BY Concat
<1> HIDE DEF fg
<1>2. ASSUME NEW k \in 1..Len(fg) PROVE Key(fg[k]) \in Entries(f) \cup Entries(g)
    <2>1. \/ \E j \in 1..Len(f) : fg[k] = f[j]
          \/ \E j \in 1..Len(g) : fg[k] = g[j]
        BY <1>1
    <2> QED BY <2>1 DEF Entries
<1>3. ASSUME NEW k \in 1..Len(f) PROVE Key(f[k]) \in Entries(fg)
    <2>1. k \in 1..Len(fg) /\ fg[k] = f[k]
        BY <1>1
    <2> QED BY <2>1 DEF Entries
<1>4. ASSUME NEW k \in 1..Len(g) PROVE Key(g[k]) \in Entries(fg)
    <2>1. Len(f) + k \in 1..Len(fg) /\ fg[Len(f) + k] = g[k]
        BY <1>1
    <2> QED BY <2>1 DEF Entries
<1>5. Entries(fg) \subseteq Entries(f) \cup Entries(g)
    BY <1>2 DEF Entries
<1>6. Entries(f) \subseteq Entries(fg) /\ Entries(g) \subseteq Entries(fg)
    BY <1>3, <1>4 DEF Entries
<1> QED BY <1>5, <1>6 DEF fg

LEMMA EntriesOfAppend ==
    ASSUME NEW S, NEW s \in Seq(S), NEW e \in S
    PROVE  Entries(Append(s, e)) = Entries(s) \cup {Key(e)}
<1> DEFINE t == Append(s, e)
<1>1. Len(s) \in Nat /\ Len(t) = Len(s) + 1 /\ t[Len(s) + 1] = e /\ \A k \in 1..Len(s) : t[k] = s[k]
    BY AppendedTo
<1> HIDE DEF t
<1>2. ASSUME NEW k \in 1..Len(t) PROVE Key(t[k]) \in Entries(s) \cup {Key(e)}
    <2>1. t[k] = e \/ \E j \in 1..Len(s) : t[k] = s[j]
        BY <1>1
    <2> QED BY <2>1 DEF Entries
<1>3. ASSUME NEW k \in 1..Len(s) PROVE Key(s[k]) \in Entries(t)
    <2>1. k \in 1..Len(t) /\ t[k] = s[k]
        BY <1>1
    <2> QED BY <2>1 DEF Entries
<1>4. Key(e) \in Entries(t)
    <2>1. Len(s) + 1 \in 1..Len(t)
        BY <1>1
    <2> QED BY <1>1, <2>1 DEF Entries
<1>5. Entries(t) \subseteq Entries(s) \cup {Key(e)}
    BY <1>2 DEF Entries
<1>6. Entries(s) \subseteq Entries(t)
    BY <1>3 DEF Entries
<1> QED BY <1>4, <1>5, <1>6 DEF t

LEMMA NoEntries == ASSUME NEW s, Len(s) = 0 PROVE Entries(s) = {}
    BY DEF Entries

\* A recorded span event continues the alternation.
LEMMA SpanRecorded ==
    ASSUME NEW S, NEW e, NEW n \in Nat, NEW ph,
           \A d \in S : d.id \in Nat /\ d.id <= n,
           e.id = n + 1, e.ph # ph, Alternate(S), EndsIn(S, ph)
    PROVE  Alternate(S \cup {e}) /\ EndsIn(S \cup {e}, e.ph)
<1>1. ASSUME NEW d \in S \cup {e}, NEW f \in S \cup {e}, d.id < f.id,
             \A m \in S \cup {e} : m.id <= d.id \/ f.id <= m.id
      PROVE  d.ph # f.ph
    <2>1. d \in S
        <3>1. CASE d = e
            BY <1>1, <3>1
        <3> QED BY <1>1, <3>1
    <2>2. CASE f \in S
        BY <1>1, <2>1, <2>2 DEF Alternate
    <2>3. CASE f = e /\ f \notin S
        <3>1. \A m \in S : m.id <= d.id
            BY <1>1, <2>1, <2>3
        <3> QED BY <2>1, <2>3, <3>1 DEF EndsIn
    <2> QED BY <1>1, <2>2, <2>3
<1>2. ASSUME NEW d \in S \cup {e}, \A m \in S \cup {e} : m.id <= d.id PROVE d.ph = e.ph
    <2>1. e.id <= d.id
        BY <1>2
    <2>2. CASE d \in S
        <3>1. d.id \in Nat /\ d.id <= n
            BY <2>2
        <3> QED BY <2>1, <3>1
    <2> QED BY <1>2, <2>2
<1> QED BY <1>1, <1>2 DEF Alternate, EndsIn

\* What comes before a number alternates if all does.
LEMMA PrefixAlternates ==
    ASSUME NEW S, NEW P \in SUBSET S, NEW n \in Nat, Alternate(S),
           \A d \in P : d.id \in Int /\ d.id <= n, \A d \in S \ P : d.id \in Int /\ d.id > n
    PROVE  Alternate(P)
<1>1. ASSUME NEW d \in P, NEW e \in P, d.id < e.id, \A m \in P : m.id <= d.id \/ e.id <= m.id
      PROVE  d.ph # e.ph
    <2>1. ASSUME NEW m \in S PROVE m.id <= d.id \/ e.id <= m.id
        <3>1. CASE m \in P
            BY <1>1, <3>1
        <3>2. CASE m \notin P
            <4>1. m.id \in Int /\ m.id > n /\ e.id \in Int /\ e.id <= n
                BY <3>2
            <4> QED BY <4>1
        <3> QED BY <3>1, <3>2
    <2> QED BY <1>1, <2>1 DEF Alternate
<1> QED BY <1>1 DEF Alternate

LEMMA DoingStep == ASSUME TypeOK, DoingInv, [Next]_vars PROVE DoingInv'
<1> USE DEF buffers, threads, list, clients, round
<1>1. ASSUME UNCHANGED <<doing, inSpan>> PROVE DoingInv'
    BY <1>1 DEF DoingInv
<1>2. ASSUME NEW r \in Spanners, EnterSpan(r) \/ LeaveSpan(r) PROVE DoingInv'
    <2>1. /\ doing[r] = "none"
          /\ \/ doing'[r] \in {"none", "B"} /\ inSpan'[r] = TRUE
             \/ doing'[r] \in {"none", "E"} /\ inSpan'[r] = FALSE
          /\ \A q \in Spanners : q # r => doing'[q] = doing[q] /\ inSpan'[q] = inSpan[q]
        <3>1. r \in Recorders /\ \A q \in Spanners : q \in Recorders
            BY DEF Recorders
        <3> QED BY <1>2, <3>1 DEF EnterSpan, LeaveSpan, Passes, TypeOK
    <2> QED BY <2>1 DEF DoingInv
<1>3. ASSUME NEW r \in Recorders, Count(r) \/ Record(r) PROVE DoingInv'
    <2>1. /\ doing'[r] \in {"none", "C"} /\ inSpan' = inSpan
          /\ \A q \in Recorders : q # r => doing'[q] = doing[q]
        BY <1>3 DEF Count, Record, Passes, TypeOK
    <2>2. \A q \in Spanners : q \in Recorders
        BY DEF Recorders
    <2> QED BY <2>1, <2>2 DEF DoingInv
<1>4. CASE \/ AddMetaEvent \/ Shutdown \/ Tick \/ Advance
           \/ \E c \in Consumers :
                  UpdateExpiry(c) \/ AddConsumer(c) \/ Extend(c) \/ RemoveConsumer(c)
           \/ UNCHANGED vars
    BY <1>1, <1>4 DEF AddMetaEvent, Shutdown, Tick, UpdateExpiry, AddConsumer, Extend,
                      RemoveConsumer, Advance, ReturnAtOnce, SwapOut, DropBatch, FormatBatch,
                      SweepActive, SweepExpired, FinishExpired, vars
<1> QED BY <1>2, <1>3, <1>4 DEF Next, Recorders

LEMMA TrailIds ==
    ASSUME TypeOK, NumbersInv, PairsInv
    PROVE  /\ \A k \in 1..Len(consumers) : \A l \in Trail(k) : l.id \in Nat /\ l.id <= recorded
           /\ \A l \in Entries(events) : l.id \in Nat /\ l.id > Swapped
           /\ \A l \in Entries(batch.events) : l.id \in Nat /\ l.id <= Swapped
           /\ \A c \in Consumers : \A l \in Entries(file[c]) : l.id \in Nat /\ l.id <= Swapped
<1>1. /\ Len(events) \in Nat /\ Len(batch.events) \in Nat /\ recorded \in Nat
      /\ Handed \in Nat /\ Swapped \in Nat /\ Swapped = Handed + Len(batch.events)
      /\ Swapped <= recorded /\ recorded = Swapped + Len(events)
    <2>1. recorded = Swapped + Len(events)
        BY Lengths DEF Swapped
    <2> QED BY <2>1, Lengths, Counts
<1>2. ASSUME NEW l \in Entries(events) PROVE l.id \in Nat /\ l.id > Swapped /\ l.id <= recorded
    <2>1. PICK k \in 1..Len(events) : l.id = Swapped + k
        BY KeyFields DEF Entries, NumbersInv
    <2> QED BY <1>1, <2>1
<1>3. ASSUME NEW l \in Entries(batch.events)
      PROVE  l.id \in Nat /\ l.id <= Swapped /\ l.id <= recorded
    <2>1. PICK k \in 1..Len(batch.events) : l.id = Handed + k
        BY KeyFields DEF Entries, NumbersInv
    <2> QED BY <1>1, <2>1
<1>4. ASSUME NEW c \in Consumers, NEW l \in Entries(file[c])
      PROVE  l.id \in Nat /\ l.id <= Swapped /\ l.id <= recorded
    <2>1. file[c] \in Seq(LineType) /\ MaxEvents \in Nat
        BY TracerAssumption DEF TypeOK
    <2>2. PICK k \in 1..Len(file[c]) : l = Key(file[c][k])
        BY DEF Entries
    <2>3. file[c][k] \in LineType
        BY <2>1, <2>2, ElementOfSeq
    <2>4. l.id \in 0..MaxEvents
        BY <2>2, <2>3, KeyFields DEF LineType
    <2>5. l.id <= Swapped
        BY DEF PairsInv
    <2> QED BY <1>1, <2>1, <2>4, <2>5
<1>5. ASSUME NEW k \in 1..Len(consumers), NEW l \in Trail(k) PROVE l.id \in Nat /\ l.id <= recorded
    <2>1. consumers[k] \in Consumers
        BY EntriesType
    <2>2. \/ l \in Entries(events) \/ l \in Entries(batch.events)
          \/ l \in Entries(file[consumers[k]])
        BY DEF Trail
    <2> QED BY <1>2, <1>3, <1>4, <2>1, <2>2
<1> QED BY <1>2, <1>3, <1>4, <1>5

\* What has the same trail and the same last phases stays paired.
LEMMA TrailKept ==
    ASSUME TrailInv, \A r \in Spanners : LastPhase(r)' = LastPhase(r),
           \A j \in 1..Len(consumers') : stream'[consumers'[j]] = "open" =>
               \E k \in 1..Len(consumers) :
                   /\ consumers'[j] = consumers[k] /\ stream[consumers[k]] = "open"
                   /\ Trail(j)' = Trail(k) /\ joined'[consumers[k]] = joined[consumers[k]]
    PROVE  TrailInv'
<1>1. ASSUME NEW j \in 1..Len(consumers'), stream'[consumers'[j]] = "open", NEW r \in Spanners
      PROVE  /\ Alternate(Spans(Trail(j)', r, joined'[consumers'[j]]))
             /\ EndsIn(Spans(Trail(j)', r, joined'[consumers'[j]]), LastPhase(r)')
    <2>1. PICK k \in 1..Len(consumers) :
                   /\ consumers'[j] = consumers[k] /\ stream[consumers[k]] = "open"
                   /\ Trail(j)' = Trail(k) /\ joined'[consumers[k]] = joined[consumers[k]]
        BY <1>1
    <2>2. /\ Alternate(Spans(Trail(k), r, joined[consumers[k]]))
          /\ EndsIn(Spans(Trail(k), r, joined[consumers[k]]), LastPhase(r))
        BY <2>1 DEF TrailInv
    <2>3. LastPhase(r)' = LastPhase(r)
        OBVIOUS
    <2>4. joined'[consumers'[j]] = joined[consumers[k]]
        BY <2>1
    <2> QED BY Zenon, <2>1, <2>2, <2>3, <2>4
<1> QED BY <1>1 DEF TrailInv

LEMMA TrailRecorded ==
    ASSUME TypeOK, TypeOK', NumbersInv, ArgsInv, PairsInv, TrailInv, DoingInv,
           NEW q \in Recorders, Record(q)
    PROVE  TrailInv'
<1> USE DEF list, clients, round
<1> DEFINE e == [id |-> recorded', by |-> q, ph |-> doing[q], args_index |-> ArgsIndex(doing[q])]
<1>1. /\ events' = Append(events, e) /\ doing' = [doing EXCEPT ![q] = "none"]
      /\ recorded' = recorded + 1 /\ recorded \in Nat
      /\ UNCHANGED <<consumers, file, stream, joined, i, batch, inSpan>>
    BY Lengths DEF Record
<1>2. Key(e) = [id |-> recorded + 1, by |-> q, ph |-> doing[q]]
    BY <1>1 DEF Key
<1> HIDE DEF e
<1>3. Entries(events') = Entries(events) \cup {Key(e)}
    <2>1. events \in Seq(Event \cup {e})
        BY SeqMonotonic DEF TypeOK
    <2> QED BY <1>1, <2>1, EntriesOfAppend
<1>4. ASSUME NEW k \in 1..Len(consumers) PROVE Trail(k)' = Trail(k) \cup {Key(e)}
    BY <1>1, <1>3 DEF Trail
<1>5. ASSUME NEW r \in Spanners
      PROVE  /\ ~(q = r /\ doing[q] \in {"B", "E"}) => LastPhase(r)' = LastPhase(r)
             /\ q = r /\ doing[q] \in {"B", "E"} =>
                    LastPhase(r)' = doing[q] /\ LastPhase(r) # doing[q]
    <2>1. r \in Recorders
        BY DEF Recorders
    <2>2. CASE q = r
        BY <1>1, <2>1, <2>2 DEF LastPhase, DoingInv, TypeOK
    <2>3. CASE q # r
        BY <1>1, <2>1, <2>3 DEF LastPhase, TypeOK
    <2> QED BY <2>2, <2>3
<1>6. ASSUME NEW k \in 1..Len(consumers), stream[consumers[k]] = "open", NEW r \in Spanners
      PROVE  /\ Alternate(Spans(Trail(k)', r, joined[consumers[k]]))
             /\ EndsIn(Spans(Trail(k)', r, joined[consumers[k]]), LastPhase(r)')
    <2> DEFINE from == joined[consumers[k]]
               S == Spans(Trail(k), r, from)
               T == Spans(Trail(k) \cup {Key(e)}, r, from)
    <2>1. Alternate(S) /\ EndsIn(S, LastPhase(r))
        BY <1>6 DEF TrailInv
    <2>2. \A d \in S : d.id \in Nat /\ d.id <= recorded
        BY TrailIds DEF Spans
    <2>3. from \in Nat /\ from <= recorded
        <3>1. consumers[k] \in Consumers /\ MaxEvents \in Nat
            BY EntriesType, TracerAssumption
        <3>2. joined[consumers[k]] \in 0..MaxEvents
            BY <3>1 DEF TypeOK
        <3>3. joined[consumers[k]] <= recorded
            BY <3>1 DEF PairsInv
        <3> QED BY <3>1, <3>2, <3>3
    <2>4. CASE q = r /\ doing[q] \in {"B", "E"}
        <3>1. T = S \cup {Key(e)}
            BY <1>1, <1>2, <2>3, <2>4 DEF Spans
        <3>2. Key(e).id = recorded + 1 /\ Key(e).ph = doing[q]
            BY <1>2
        <3>3. LastPhase(r)' = doing[q] /\ LastPhase(r) # doing[q]
            BY <1>5, <2>4
        <3> HIDE DEF S, T
        <3>4. Alternate(T) /\ EndsIn(T, doing[q])
            BY <1>1, <2>1, <2>2, <3>1, <3>2, <3>3, SpanRecorded
        <3> QED BY <1>4, <3>3, <3>4 DEF T
    <2>5. CASE ~(q = r /\ doing[q] \in {"B", "E"})
        <3>1. T = S
            BY <1>2, <2>5 DEF Spans
        <3>2. LastPhase(r)' = LastPhase(r)
            BY <1>5, <2>5
        <3> QED BY <1>4, <2>1, <3>1, <3>2
    <2> QED BY <2>4, <2>5
<1> QED BY <1>1, <1>6 DEF TrailInv

LEMMA TrailAdded ==
    ASSUME TypeOK, TypeOK', ListInv, NumbersInv, PairsInv, FilesInv, TrailInv,
           NEW c \in Consumers, AddConsumer(c)
    PROVE  TrailInv'
<1> USE DEF buffers, threads, round
<1>1. /\ state[c] = "dated" /\ main # "sweep" /\ consumers' = Append(consumers, c)
      /\ UNCHANGED <<file, stream, i, events, batch, recorded, doing, inSpan>>
      /\ joined'[c] = recorded /\ \A d \in Consumers : d # c => joined'[d] = joined[d]
    BY DEF AddConsumer, locked, TypeOK
<1>2. /\ Len(consumers) \in Nat /\ Len(consumers') = Len(consumers) + 1
      /\ consumers'[Len(consumers) + 1] = c
      /\ \A k \in 1..Len(consumers) : consumers'[k] = consumers[k]
      /\ \A k \in 1..Len(consumers) : consumers[k] \in Consumers /\ consumers[k] # c
    <2>1. consumers \in Seq(Consumers)
        BY DEF TypeOK
    <2>2. \A k \in 1..Len(consumers) : consumers[k] # c
        BY <1>1 DEF ListInv
    <2> QED BY <1>1, <2>1, <2>2, AppendedTo, EntriesType
<1>3. \A r \in Spanners : LastPhase(r)' = LastPhase(r)
    BY <1>1 DEF LastPhase
<1>4. Entries(file[c]) = {}
    BY <1>1, NoEntries DEF FilesInv, FileInv
<1>5. ASSUME NEW k \in 1..Len(consumers'), stream'[consumers'[k]] = "open", NEW r \in Spanners
      PROVE  /\ Alternate(Spans(Trail(k)', r, joined'[consumers'[k]]))
             /\ EndsIn(Spans(Trail(k)', r, joined'[consumers'[k]]), LastPhase(r)')
    <2>1. CASE k = Len(consumers) + 1
        <3>1. consumers'[k] = c /\ joined'[consumers'[k]] = recorded /\ recorded \in Nat
            BY <1>1, <1>2, <2>1, Lengths
        <3>2. \A l \in Entries(events) \cup Entries(batch.events) : l.id \in Nat /\ l.id <= recorded
            <4>1. /\ \A l \in Entries(events) : l.id \in Nat /\ l.id <= recorded
                <5>1. ASSUME NEW j \in 1..Len(events) PROVE events[j].id \in Nat /\ events[j].id <= recorded
                    <6>1. events[j].id = Swapped + j /\ Swapped \in Nat /\ Len(events) \in Nat
                        BY Counts, Lengths DEF NumbersInv
                    <6>2. Swapped + Len(events) = recorded
                        BY Lengths DEF Swapped
                    <6> QED BY <6>1, <6>2
                <5> QED BY <5>1, KeyFields DEF Entries
            <4>2. Swapped \in Nat /\ Swapped <= recorded /\ recorded \in Nat
                BY Counts, Lengths
            <4>3. \A l \in Entries(batch.events) : l.id \in Nat /\ l.id <= Swapped
                BY TrailIds
            <4>4. \A l \in Entries(batch.events) : l.id \in Nat /\ l.id <= recorded
                BY <4>2, <4>3
            <4> QED BY <4>1, <4>4
        <3>3. Trail(k)' \subseteq Entries(events) \cup Entries(batch.events)
            BY <1>1, <1>4, <3>1 DEF Trail
        <3>4. Spans(Trail(k)', r, joined'[consumers'[k]]) = {}
            BY <3>1, <3>2, <3>3 DEF Spans
        <3> QED BY <3>4 DEF Alternate, EndsIn
    <2>2. CASE k # Len(consumers) + 1
        <3>1. /\ k \in 1..Len(consumers) /\ consumers'[k] = consumers[k]
              /\ joined'[consumers'[k]] = joined[consumers[k]]
            BY <1>1, <1>2, <2>2
        <3>2. Trail(k)' = Trail(k)
            BY <1>1, <3>1 DEF Trail
        <3>3. /\ Alternate(Spans(Trail(k), r, joined[consumers[k]]))
              /\ EndsIn(Spans(Trail(k), r, joined[consumers[k]]), LastPhase(r))
            BY <1>1, <1>5, <3>1 DEF TrailInv
        <3>4. LastPhase(r)' = LastPhase(r)
            BY <1>3
        <3> QED BY Zenon, <3>1, <3>2, <3>3, <3>4
    <2> QED BY <2>1, <2>2
<1> QED BY <1>5 DEF TrailInv

LEMMA BatchEntries ==
    ASSUME TypeOK, NumbersInv, ArgsInv PROVE Entries(Lines) = Entries(batch.events)
<1>1. /\ Len(Lines) = Len(batch.events)
      /\ \A k \in 1..Len(batch.events) : Lines[k] = Line(batch.events[k])
    BY LinesType
<1>2. ASSUME NEW k \in 1..Len(batch.events) PROVE Key(Lines[k]) = Key(batch.events[k])
    <2> DEFINE e == batch.events[k]
    <2>1. Lines[k] = Line(e)
        BY <1>1
    <2> HIDE DEF e
    <2>2. Line(e).id = e.id /\ Line(e).by = e.by /\ Line(e).ph = e.ph
        BY DEF Line
    <2> QED BY <2>1, <2>2 DEF Key, e
<1> QED BY <1>1, <1>2 DEF Entries

\* The file of the consumer whose turn it is.
LEMMA SweepEntries ==
    ASSUME TypeOK, TypeOK', ListInv, NumbersInv, ArgsInv, FilesInv, DeliveredInv,
           SweepActive \/ SweepExpired, NEW c \in Consumers, c = consumers[i]
    PROVE  /\ stream[c] = "open" => Entries(file'[c]) = Entries(file[c]) \cup Entries(batch.events)
           /\ stream[c] # "open" => Entries(file'[c]) = {}
<1>1. /\ file' = [file EXCEPT ![c] = ConsumeEvents(c, Lines)]
    BY DEF SweepActive, SweepExpired
<1>2. file[c] \in Seq(LineType) /\ Lines \in Seq(LineType)
    BY LinesType DEF TypeOK
<1>3. stream[c] = "open" => file'[c] = file[c] \o Lines
    BY <1>1 DEF ConsumeEvents, TypeOK
<1>4. Entries(file[c] \o Lines) = Entries(file[c]) \cup Entries(batch.events)
    BY <1>2, EntriesOfConcat, BatchEntries
<1>5. stream[c] # "open" => Len(file'[c]) = 0
    <2>1. stream[c] # "closed" /\ (stream[c] # "open" => file'[c] = file[c])
        BY SweepFile
    <2>2. stream[c] # "open" => stream[c] = "unopened"
        BY <2>1 DEF TypeOK
    <2> QED BY <2>1, <2>2 DEF FilesInv, FileInv
<1> QED BY <1>3, <1>4, <1>5, NoEntries

LEMMA TrailSpanned ==
    ASSUME TypeOK, TypeOK', ListInv, TrailInv, NEW r \in Recorders,
           \/ r \in Spanners /\ (EnterSpan(r) \/ LeaveSpan(r))
           \/ Count(r)
    PROVE  TrailInv'
<1> USE DEF buffers, list, clients, round
<1>1. UNCHANGED <<consumers, stream, joined, file, events, batch, i>>
    BY DEF EnterSpan, LeaveSpan, Count
<1>2. ASSUME Len(consumers) > 0, NEW q \in Spanners PROVE LastPhase(q)' = LastPhase(q)
    <2>1. enabled
        BY <1>2 DEF ListInv
    <2>2. \A p \in Spanners : p \in Recorders
        BY DEF Recorders
    <2>3. doing[r] = "none"
        BY DEF EnterSpan, LeaveSpan, Count
    <2>4. \/ r \in Spanners /\ doing'[r] = "B" /\ ~inSpan[r]
          \/ r \in Spanners /\ doing'[r] = "E" /\ inSpan[r]
          \/ doing'[r] = "C" /\ inSpan' = inSpan
        BY <2>1, <2>2 DEF EnterSpan, LeaveSpan, Count, Passes, TypeOK
    <2>5. /\ \A p \in Recorders : p # r => doing'[p] = doing[p]
          /\ \A p \in Spanners : p # r => inSpan'[p] = inSpan[p]
        BY <2>2 DEF EnterSpan, LeaveSpan, Count, Passes, TypeOK
    <2>6. CASE q = r
        BY <2>2, <2>3, <2>4, <2>6 DEF LastPhase
    <2>7. CASE q # r
        BY <2>2, <2>5, <2>7 DEF LastPhase
    <2> QED BY <2>6, <2>7
<1>3. \A k \in 1..Len(consumers) : Trail(k)' = Trail(k)
    BY <1>1 DEF Trail
<1>4. Len(consumers) \in Nat
    BY Lengths
<1>5. CASE Len(consumers) > 0
    BY <1>1, <1>2, <1>3, <1>5, TrailKept
<1>6. CASE ~(Len(consumers) > 0)
    <2>1. \A k \in 1..Len(consumers') : FALSE
        BY <1>1, <1>4, <1>6
    <2> QED BY <2>1 DEF TrailInv
<1> QED BY <1>5, <1>6

LEMMA TrailStep ==
    ASSUME TypeOK, TypeOK', ListInv, NumbersInv, ArgsInv, FilesInv, DeliveredInv,
           DoingInv, PairsInv, TrailInv, [Next]_vars
    PROVE  TrailInv'
<1> USE DEF buffers, threads, list, clients, round
<1>1. ASSUME UNCHANGED <<doing, inSpan>> PROVE \A r \in Spanners : LastPhase(r)' = LastPhase(r)
    BY <1>1 DEF LastPhase
<1>2. /\ \A k \in 1..Len(consumers) : consumers[k] \in Consumers
      /\ Len(consumers) \in Nat
    BY EntriesType, Lengths
<1>3. CASE \/ AddMetaEvent \/ Shutdown \/ Tick \/ FormatBatch
           \/ \E c \in Consumers : Extend(c)
           \/ UNCHANGED vars
    <2>1. UNCHANGED <<consumers, stream, joined, file, events, batch, i, doing, inSpan>>
        BY <1>3 DEF AddMetaEvent, Shutdown, Tick, FormatBatch, Extend, vars
    <2>2. \A k \in 1..Len(consumers) : Trail(k)' = Trail(k)
        BY <2>1 DEF Trail
    <2> QED BY <1>1, <2>1, <2>2, TrailKept
<1>4. CASE \/ \E r \in Spanners : EnterSpan(r) \/ LeaveSpan(r)
           \/ \E r \in Counters : Count(r)
    BY <1>4, TrailSpanned DEF Recorders
<1>5. ASSUME NEW r \in Recorders, Record(r) PROVE TrailInv'
    BY <1>5, TrailRecorded
<1>6. ASSUME NEW c \in Consumers, UpdateExpiry(c) PROVE TrailInv'
    <2>1. /\ state[c] = "new"
          /\ UNCHANGED <<consumers, joined, file, events, batch, i, doing, inSpan>>
          /\ \A d \in Consumers : d # c => stream'[d] = stream[d]
        BY <1>6 DEF UpdateExpiry, TypeOK
    <2>2. \A k \in 1..Len(consumers) : stream'[consumers[k]] = stream[consumers[k]]
        BY <1>2, <2>1 DEF ListInv
    <2>3. \A k \in 1..Len(consumers) : Trail(k)' = Trail(k)
        BY <2>1 DEF Trail
    <2> QED BY <1>1, <2>1, <2>2, <2>3, TrailKept
<1>7. ASSUME NEW c \in Consumers, AddConsumer(c) PROVE TrailInv'
    BY <1>7, TrailAdded
<1>8. ASSUME NEW c \in Consumers, RemoveConsumer(c) PROVE TrailInv'
    <2>1. PICK k \in 1..Len(consumers) : Drop(k)
        BY <1>8, RemoveDrops
    <2>2. /\ main # "sweep"
          /\ UNCHANGED <<file, stream, joined, i, events, batch, doing, inSpan>>
        BY <1>8, <2>1 DEF RemoveConsumer, locked, Drop
    <2>3. i' = 1 /\ i = 1
        BY <2>2 DEF ListInv
    <2>4. ASSUME NEW j \in 1..Len(consumers')
          PROVE  \E m \in 1..Len(consumers) : consumers'[j] = consumers[m] /\ Trail(j)' = Trail(m)
        <3>1. PICK m \in 1..Len(consumers) : consumers'[j] = consumers[m]
            BY <2>1, DropKeeps
        <3>2. ~(j < 1) /\ ~(m < 1)
            OBVIOUS
        <3> QED BY <2>2, <2>3, <3>1, <3>2 DEF Trail
    <2> QED BY <1>1, <2>2, <2>4, TrailKept
<1>9. CASE ReturnAtOnce \/ DropBatch
    <2>1. /\ main # "sweep" /\ i' = 1
          /\ UNCHANGED <<consumers, file, stream, joined, events, doing, inSpan>>
          /\ batch'.events = <<>> /\ Len(batch'.events) = 0
          /\ Len(batch.events) = 0 \/ consumers = <<>>
        BY <1>9, Lengths DEF ReturnAtOnce, DropBatch, Return, NoBatch, AtEntry, NumbersInv
    <2>2. i = 1
        BY <2>1 DEF ListInv
    <2>3. CASE Len(batch.events) = 0
        <3>1. Entries(batch'.events) = {} /\ Entries(batch.events) = {}
            BY <2>1, <2>3, NoEntries
        <3>2. \A k \in 1..Len(consumers) : Trail(k)' = Trail(k)
            BY <2>1, <2>2, <3>1 DEF Trail
        <3> QED BY <1>1, <2>1, <3>2, TrailKept
    <2>4. CASE consumers = <<>>
        BY <2>1, <2>4 DEF TrailInv
    <2> QED BY <2>1, <2>3, <2>4
<1>10. CASE SwapOut
    <2>1. /\ main # "sweep" /\ i' = i /\ events' = <<>> /\ batch'.events = events
          /\ UNCHANGED <<consumers, file, stream, joined, doing, inSpan>>
          /\ Len(batch.events) = 0 /\ Len(events') = 0
        BY <1>10, Lengths DEF SwapOut, AtEntry, NumbersInv
    <2>2. i = 1
        BY <2>1 DEF ListInv
    <2>3. Entries(events') = {} /\ Entries(batch.events) = {}
        BY <2>1, NoEntries
    <2>4. \A k \in 1..Len(consumers) : ~(k < 1)
        BY <1>2
    <2>5. \A k \in 1..Len(consumers) : Trail(k)' = Trail(k)
        BY <2>1, <2>2, <2>3, <2>4 DEF Trail
    <2> QED BY <1>1, <2>1, <2>5, TrailKept
<1>11. CASE SweepActive \/ SweepExpired
    <2>1. PICK c \in Consumers : c = consumers[i]
        BY <1>11, SweepFile
    <2>2. /\ i \in 1..Len(consumers) /\ \A d \in Consumers : d # c => file'[d] = file[d]
          /\ UNCHANGED <<stream, joined>>
        BY <1>11, <2>1, SweepFile
    <2>3. UNCHANGED <<events, batch, doing, inSpan>>
        BY <1>11 DEF SweepActive, SweepExpired
    <2>4. CASE SweepActive
        <3>1. i' = i + 1 /\ consumers' = consumers
            BY <2>4 DEF SweepActive
        <3>2. ASSUME NEW k \in 1..Len(consumers), stream[consumers[k]] = "open"
              PROVE  Trail(k)' = Trail(k)
            <4>1. CASE k = i
                <5>1. Entries(file'[c]) = Entries(file[c]) \cup Entries(batch.events)
                    BY <1>11, <2>1, <3>2, <4>1, SweepEntries
                <5>2. k < i + 1 /\ ~(k < i)
                    BY <4>1, <2>2
                <5> QED BY <2>1, <2>3, <3>1, <4>1, <5>1, <5>2 DEF Trail
            <4>2. CASE k # i
                <5>1. consumers[k] # c /\ consumers[k] \in Consumers /\ (k < i + 1 <=> k < i)
                    BY <1>2, <2>1, <2>2, <4>2 DEF ListInv, Distinct
                <5> QED BY <2>2, <2>3, <3>1, <5>1 DEF Trail
            <4> QED BY <4>1, <4>2
        <3> QED BY <1>1, <2>2, <2>3, <3>1, <3>2, TrailKept
    <2>5. CASE SweepExpired
        <3>1. i' = i /\ Drop(i)
            BY <2>5 DEF SweepExpired, NextAfterRemoval
        <3>2. ASSUME NEW j \in 1..Len(consumers')
              PROVE  \E m \in 1..Len(consumers) : consumers'[j] = consumers[m] /\ Trail(j)' = Trail(m)
            <4>1. PICK m \in 1..Len(consumers) : /\ consumers'[j] = consumers[m] /\ consumers[m] # c
                                                 /\ (j < i => m = j) /\ (j >= i => m >= i)
                BY <2>1, <2>2, <3>1, DropKeeps
            <4>2. file'[consumers[m]] = file[consumers[m]]
                BY <1>2, <2>2, <4>1
            <4>3. j < i <=> m < i
                <5>1. j \in Nat /\ m \in Nat /\ i \in Nat
                    BY <2>2
                <5> QED BY <4>1, <5>1
            <4> QED BY <2>3, <3>1, <4>1, <4>2, <4>3 DEF Trail
        <3> QED BY <1>1, <2>2, <2>3, <3>2, TrailKept
    <2> QED BY <1>11, <2>4, <2>5
<1>12. CASE FinishExpired
    <2>1. /\ UNCHANGED <<consumers, joined, events, doing, inSpan>> /\ i' = 1
          /\ i > Len(consumers) /\ Len(batch'.events) = 0
          /\ \A c \in Consumers : c \notin Finished => file'[c] = file[c] /\ stream'[c] = stream[c]
        BY <1>12 DEF FinishExpired, Return, NoBatch
    <2>2. Entries(batch'.events) = {}
        BY <2>1, NoEntries
    <2>3. ASSUME NEW k \in 1..Len(consumers)
          PROVE  stream'[consumers[k]] = stream[consumers[k]] /\ Trail(k)' = Trail(k)
        <3>1. consumers[k] \in Consumers /\ consumers[k] \notin Finished
            BY <1>2, NotFinished DEF ListInv
        <3>2. k < i /\ ~(k < 1)
            BY <1>2, <2>1 DEF TypeOK
        <3> QED BY <2>1, <2>2, <3>1, <3>2 DEF Trail
    <2> QED BY <1>1, <2>1, <2>3, TrailKept
<1> QED BY <1>3, <1>4, <1>5, <1>6, <1>7, <1>8, <1>9, <1>10, <1>11, <1>12 DEF Next, Advance

LEMMA PairsStep ==
    ASSUME TypeOK, TypeOK', ListInv, NumbersInv, ArgsInv, FilesInv, DeliveredInv,
           PairsInv, TrailInv, [Next]_vars
    PROVE  PairsInv'
<1> USE DEF buffers, threads, list, clients, round
<1>1. /\ Swapped \in Nat /\ Swapped <= recorded /\ recorded \in Nat /\ Len(events) \in Nat
      /\ \A c \in Consumers : \A l \in Entries(file[c]) : l.id \in Nat /\ l.id <= Swapped
    BY Counts, Lengths, TrailIds
<1>2. ASSUME UNCHANGED <<file, joined>>, Swapped' \in Nat, Swapped <= Swapped',
             recorded' \in Nat, recorded <= recorded'
      PROVE  PairsInv'
    <2>1. ASSUME NEW c \in Consumers PROVE joined'[c] <= recorded'
        <3>1. joined[c] <= recorded /\ joined[c] \in Nat
            BY TracerAssumption DEF PairsInv, TypeOK
        <3> QED BY <1>1, <1>2, <3>1
    <2>2. ASSUME NEW c \in Consumers, NEW l \in Entries(file'[c]) PROVE l.id <= Swapped'
        <3>1. l.id \in Nat /\ l.id <= Swapped
            BY <1>1, <1>2
        <3> HIDE DEF Swapped
        <3> QED BY <1>1, <1>2, <3>1
    <2>3. \A c \in Consumers, r \in Spanners : Alternate(Spans(Entries(file'[c]), r, joined'[c]))
        BY <1>2 DEF PairsInv
    <2> QED BY <2>1, <2>2, <2>3 DEF PairsInv
<1>3. CASE \/ \E r \in Spanners : EnterSpan(r) \/ LeaveSpan(r)
           \/ \E r \in Counters : Count(r)
           \/ AddMetaEvent \/ Shutdown \/ Tick \/ FormatBatch \/ ReturnAtOnce \/ DropBatch
           \/ \E c \in Consumers : UpdateExpiry(c) \/ Extend(c) \/ RemoveConsumer(c)
           \/ UNCHANGED vars
    <2>1. UNCHANGED <<file, joined, events, recorded>>
        BY <1>3 DEF EnterSpan, LeaveSpan, Count, AddMetaEvent, Shutdown, Tick, FormatBatch,
                    ReturnAtOnce, DropBatch, UpdateExpiry, Extend, RemoveConsumer, Drop, vars
    <2>2. Swapped' = Swapped
        BY <2>1 DEF Swapped
    <2> QED BY <1>1, <1>2, <2>1, <2>2
<1>4. ASSUME NEW r \in Recorders, Record(r) PROVE PairsInv'
    <2>1. UNCHANGED <<file, joined>> /\ recorded' = recorded + 1
        BY <1>4 DEF Record
    <2>2. Swapped' = Swapped
        BY <1>4, RecordKeeps
    <2> QED BY <1>1, <1>2, <2>1, <2>2
<1>5. ASSUME NEW c \in Consumers, AddConsumer(c) PROVE PairsInv'
    <2>1. /\ state[c] = "dated" /\ UNCHANGED <<file, events, recorded>>
          /\ joined'[c] = recorded /\ \A d \in Consumers : d # c => joined'[d] = joined[d]
        BY <1>5 DEF AddConsumer, TypeOK
    <2>2. Entries(file[c]) = {}
        BY <2>1, NoEntries DEF FilesInv, FileInv
    <2>3. Swapped' = Swapped
        BY <2>1 DEF Swapped
    <2>4. ASSUME NEW d \in Consumers, NEW r \in Spanners
          PROVE  Alternate(Spans(Entries(file'[d]), r, joined'[d]))
        <3>1. CASE d = c
            <4>1. Spans(Entries(file'[d]), r, joined'[d]) = {}
                BY <2>1, <2>2, <3>1 DEF Spans
            <4> QED BY <4>1 DEF Alternate
        <3>2. CASE d # c
            BY <2>1, <3>2 DEF PairsInv
        <3> QED BY <3>1, <3>2
    <2>5. \A d \in Consumers : joined'[d] <= recorded'
        <3>1. recorded' <= recorded'
            BY <1>1, <2>1
        <3>2. \A d \in Consumers : d # c => joined'[d] <= recorded'
            BY <2>1 DEF PairsInv
        <3> QED BY <2>1, <3>1, <3>2
    <2>6. \A d \in Consumers : \A l \in Entries(file'[d]) : l.id <= Swapped'
        BY <2>1, <2>3 DEF PairsInv
    <2> QED BY <2>4, <2>5, <2>6 DEF PairsInv
<1>6. CASE SwapOut
    <2>1. UNCHANGED <<file, joined, recorded>> /\ Len(events') = 0
        BY <1>6 DEF SwapOut
    <2>2. Swapped' = recorded
        BY <1>1, <2>1 DEF Swapped
    <2> QED BY <1>1, <1>2, <2>1, <2>2
<1>7. CASE SweepActive \/ SweepExpired
    <2>1. PICK c \in Consumers : c = consumers[i]
        BY <1>7, SweepFile
    <2>2. /\ i \in 1..Len(consumers) /\ \A d \in Consumers : d # c => file'[d] = file[d]
          /\ UNCHANGED joined /\ Swapped' = Swapped
        BY <1>7, <2>1, SweepFile
    <2>3. recorded' = recorded
        BY <1>7 DEF SweepActive, SweepExpired
    <2>4. /\ stream[c] = "open" => Entries(file'[c]) = Entries(file[c]) \cup Entries(batch.events)
          /\ stream[c] # "open" => Entries(file'[c]) = {}
        BY <1>7, <2>1, SweepEntries
    <2>5. \A l \in Entries(file'[c]) : l.id \in Nat /\ l.id <= Swapped
        BY <2>4, TrailIds
    <2>6. ASSUME NEW r \in Spanners PROVE Alternate(Spans(Entries(file'[c]), r, joined[c]))
        <3>1. CASE stream[c] = "open"
            <4> DEFINE S == Spans(Trail(i), r, joined[c])
                       P == Spans(Entries(file'[c]), r, joined[c])
            <4>1. Trail(i) = Entries(file'[c]) \cup Entries(events)
                <5>1. ~(i < i)
                    BY <2>2
                <5> QED BY <2>1, <2>4, <3>1, <5>1 DEF Trail
            <4>2. Alternate(S)
                BY <2>1, <2>2, <3>1 DEF TrailInv
            <4>3. P \in SUBSET S /\ \A d \in P : d.id \in Int /\ d.id <= Swapped
                BY <2>5, <4>1 DEF Spans
            <4>4. \A d \in S \ P : d.id \in Int /\ d.id > Swapped
                <5>1. \A d \in S \ P : d \in Entries(events)
                    BY <4>1 DEF Spans
                <5> HIDE DEF S, P
                <5> QED BY <5>1, TrailIds
            <4> HIDE DEF S, P
            <4>5. Alternate(P)
                BY <1>1, <4>2, <4>3, <4>4, PrefixAlternates
            <4> QED BY <4>5 DEF P
        <3>2. CASE stream[c] # "open"
            <4>1. Spans(Entries(file'[c]), r, joined[c]) = {}
                BY <2>4, <3>2 DEF Spans
            <4> QED BY <4>1 DEF Alternate
        <3> QED BY <3>1, <3>2
    <2>7. ASSUME NEW d \in Consumers
          PROVE  /\ \A l \in Entries(file'[d]) : l.id <= Swapped
                 /\ \A r \in Spanners : Alternate(Spans(Entries(file'[d]), r, joined[d]))
        BY <2>2, <2>5, <2>6 DEF PairsInv
    <2> HIDE DEF Swapped
    <2> QED BY <2>2, <2>3, <2>7 DEF PairsInv
<1>8. CASE FinishExpired
    <2>1. /\ UNCHANGED <<joined, events, recorded>>
          /\ \A c \in Consumers : file'[c] = file[c] \/ file'[c] = file[c] \o LastLines
        BY <1>8 DEF FinishExpired, ConsumeEvents
    <2>2. Swapped' = Swapped
        BY <2>1 DEF Swapped
    <2>3. \A l \in Entries(LastLines) : l.id = 0
        BY FinishLines, KeyFields DEF Entries
    <2>4. ASSUME NEW d \in Consumers
          PROVE  /\ \A l \in Entries(file'[d]) : l.id <= Swapped
                 /\ \A r \in Spanners : Alternate(Spans(Entries(file'[d]), r, joined[d]))
        <3>1. CASE file'[d] = file[d]
            BY <3>1 DEF PairsInv
        <3>2. CASE file'[d] = file[d] \o LastLines
            <4>1. Entries(file'[d]) = Entries(file[d]) \cup Entries(LastLines)
                <5>1. file[d] \in Seq(LineType) /\ LastLines \in Seq(LineType)
                    BY FinishLines DEF TypeOK
                <5> QED BY <3>2, <5>1, EntriesOfConcat
            <4>2. joined[d] \in Nat
                BY TracerAssumption DEF TypeOK
            <4>3. ASSUME NEW r \in Spanners
                  PROVE  Spans(Entries(file'[d]), r, joined[d]) = Spans(Entries(file[d]), r, joined[d])
                BY <2>3, <4>1, <4>2 DEF Spans
            <4>4. \A r \in Spanners : Alternate(Spans(Entries(file'[d]), r, joined[d]))
                BY <4>3 DEF PairsInv
            <4>5. \A l \in Entries(file'[d]) : l.id <= Swapped
                <5> HIDE DEF Swapped
                <5> QED BY <1>1, <2>3, <4>1
            <4> QED BY <4>4, <4>5
        <3> QED BY <2>1, <3>1, <3>2
    <2> HIDE DEF Swapped
    <2> QED BY <2>1, <2>2, <2>4 DEF PairsInv
<1> QED BY <1>3, <1>4, <1>5, <1>6, <1>7, <1>8 DEF Next, Advance

-----------------------------------------------------------------------------
(***************************************************************************)
(* The theorems                                                            *)
(***************************************************************************)

Inv == TypeOK /\ ListInv /\ NumbersInv /\ ArgsInv /\ FilesInv /\ DeliveredInv
       /\ DoingInv /\ TrailInv /\ PairsInv

LEMMA InvHolds == Spec => []Inv
<1>1. ASSUME Init, TypeOK PROVE Inv
    <2> USE <1>1 DEF Init
    <2>1. ListInv
        BY DEF ListInv, Distinct
    <2>2. Len(events) = 0 /\ Len(batch.events) = 0 /\ recorded = 0
        BY DEF NoBatch
    <2>3. NumbersInv /\ ArgsInv
        BY <2>2 DEF NumbersInv, ArgsInv
    <2>4. FilesInv /\ DeliveredInv
        BY DEF FilesInv, FileInv, DeliveredInv, Chained, Argued, OnlyEvents
    <2>5. DoingInv /\ TrailInv
        BY DEF DoingInv, TrailInv, Recorders
    <2>6. PairsInv
        <3>1. /\ \A c \in Consumers : joined[c] = 0 /\ Len(file[c]) = 0
              /\ recorded = 0
            OBVIOUS
        <3>2. \A c \in Consumers : Entries(file[c]) = {}
            BY <3>1, NoEntries
        <3> QED BY <3>1, <3>2 DEF PairsInv, Spans, Alternate
    <2> QED BY <2>1, <2>3, <2>4, <2>5, <2>6 DEF Inv
<1>2. ASSUME Inv, TypeOK', [Next]_vars PROVE Inv'
    BY <1>2, ListStep, NumbersStep, FilesStep, DeliveredStep, DoingStep, TrailStep, PairsStep DEF Inv
<1> QED BY <1>1, <1>2, TypeCorrect, PTL DEF Spec

\* What a consumer is given is a run of the recorded events without gaps and
\* repetitions, from no later than the first one after it was added: consumers that
\* come, go and expire around it change nothing.
THEOREM GapFree == Spec => []NoGapNoRepeat
<1>1. ASSUME Inv PROVE NoGapNoRepeat
    <2>1. \A c \in Consumers : DOMAIN file[c] = 1..Len(file[c])
        BY <1>1 DEF Inv, TypeOK
    <2> QED BY <1>1, <2>1 DEF Inv, FilesInv, FileInv, Chained, NoGapNoRepeat
<1> QED BY <1>1, InvHolds, PTL

\* Events keep their own args through the two swaps.
THEOREM ArgsCorrect == Spec => []ArgsFollowTheirEvent
<1>1. ASSUME Inv PROVE ArgsFollowTheirEvent
    <2>1. \A c \in Consumers : DOMAIN file[c] = 1..Len(file[c])
        BY <1>1 DEF Inv, TypeOK
    <2> QED BY <1>1, <2>1 DEF Inv, FilesInv, FileInv, Argued, ArgsFollowTheirEvent, HasArgs
<1> QED BY <1>1, InvHolds, PTL

\* Outside the sweep no consumer is between expiry and completion, tracing is on
\* exactly while one is registered, and the files of the complete ones are closed.
THEOREM NoneStuck == Spec => []NoneStuckExpired
<1>1. ASSUME Inv PROVE NoneStuckExpired
    <2>1. ASSUME ~locked, NEW c \in Consumers
          PROVE  /\ state[c] # "EXPIRED"
                 /\ c \in Registered => state[c] = "ACTIVE"
                 /\ state[c] = "COMPLETE" => stream[c] # "open"
                 /\ stream[c] = "closed" <=> \E k \in DOMAIN file[c] : file[c][k].ph = "X"
        <3>1. state[c] # "EXPIRED"
            <4>1. Len(expired) = 0
                BY <1>1, <2>1 DEF Inv, ListInv, locked
            <4>2. ~ \E k \in 1..Len(expired) : expired[k] = c
                BY <4>1
            <4> QED BY <1>1, <4>2 DEF Inv, ListInv
        <3>2. c \in Registered => state[c] = "ACTIVE"
            <4>1. DOMAIN consumers = 1..Len(consumers)
                BY <1>1 DEF Inv, TypeOK
            <4> QED BY <1>1, <4>1 DEF Inv, ListInv, Registered, Range
        <3>3. DOMAIN file[c] = 1..Len(file[c])
            BY <1>1 DEF Inv, TypeOK
        <3> QED BY <1>1, <3>1, <3>2, <3>3 DEF Inv, FilesInv, FileInv, OnlyEvents
    <2> QED BY <1>1, <2>1 DEF Inv, ListInv, NoneStuckExpired
<1> QED BY <1>1, InvHolds, PTL

\* The beginnings and ends of a thread's spans alternate in what a consumer is given
\* of the events since it was added.
THEOREM SpansCorrect == Spec => []SpansPair
<1>1. ASSUME Inv, NEW c \in Consumers, NEW r \in Spanners
      PROVE  Alternate({l \in Range(file[c]) : l.id > joined[c] /\ l.by = r /\ l.ph \in {"B", "E"}})
    <2> DEFINE L == {l \in Range(file[c]) : l.id > joined[c] /\ l.by = r /\ l.ph \in {"B", "E"}}
               S == Spans(Entries(file[c]), r, joined[c])
    <2>1. DOMAIN file[c] = 1..Len(file[c])
        BY <1>1 DEF Inv, TypeOK
    <2>2. \A l \in Range(file[c]) : Key(l) \in Entries(file[c])
        BY <2>1 DEF Range, Entries
    <2>3. \A l \in L : Key(l) \in S
        BY <2>2, KeyFields DEF Spans
    <2>4. \A d \in S : \E l \in L : d = Key(l)
        BY <2>1, KeyFields DEF Spans, Range, Entries
    <2>5. Alternate(S)
        BY <1>1 DEF Inv, PairsInv
    <2> HIDE DEF L, S
    <2>6. ASSUME NEW d \in L, NEW e \in L, d.id < e.id, \A m \in L : m.id <= d.id \/ e.id <= m.id
          PROVE  d.ph # e.ph
        <3>1. \A m \in S : m.id <= Key(d).id \/ Key(e).id <= m.id
            BY <2>4, <2>6, KeyFields
        <3>2. Key(d) \in S /\ Key(e) \in S /\ Key(d).id < Key(e).id
            BY <2>3, <2>6, KeyFields
        <3>3. Key(d).ph # Key(e).ph
            BY <2>5, <3>1, <3>2 DEF Alternate
        <3> QED BY <3>3, KeyFields
    <2> QED BY <2>6 DEF Alternate, L
<1>2. ASSUME Inv PROVE SpansPair
    BY <1>1, <1>2 DEF SpansPair
<1> QED BY <1>2, InvHolds, PTL

\* Whom the sweep has passed had time left when it began.
PassedHaveTime ==
    /\ main \in {"lock", "sweep"} => now <= clock
    /\ \A k \in 1..Len(consumers) : k < i => now <= expiry[consumers[k]]

LEMMA PassedStep ==
    ASSUME TypeOK, TypeOK', ListInv, PassedHaveTime, [Next]_vars PROVE PassedHaveTime'
<1> USE DEF buffers, threads, list, clients, round
<1>1. /\ Len(consumers) \in Nat /\ i \in Nat /\ now \in Nat /\ clock \in Nat
      /\ \A k \in 1..Len(consumers) : consumers[k] \in Consumers
      /\ \A c \in Consumers : expiry[c] \in Nat /\ expiry'[c] \in Nat
    <2>1. Len(consumers) \in Nat /\ i \in Nat /\ now \in Nat /\ clock \in Nat
        BY DEF TypeOK
    <2>2. \A c \in Consumers : expiry[c] \in Nat /\ expiry'[c] \in Nat
        <3>1. expiry \in [Consumers -> Nat] /\ expiry' \in [Consumers -> Nat]
            BY DEF TypeOK
        <3> QED BY <3>1
    <2> QED BY <2>1, <2>2, EntriesType
<1>2. ASSUME UNCHANGED <<consumers, expiry, i, now>>, clock' \in {clock, clock + 1},
             main' \in {main, "idle", "entering", "check", "returned"}
      PROVE  PassedHaveTime'
    BY <1>1, <1>2 DEF PassedHaveTime
<1>3. CASE \/ \E r \in Spanners : EnterSpan(r) \/ LeaveSpan(r)
           \/ \E r \in Counters : Count(r)
           \/ \E r \in Recorders : Record(r)
           \/ AddMetaEvent \/ Tick \/ SwapOut \/ UNCHANGED vars
    <2>1. /\ UNCHANGED <<consumers, expiry, i, now>> /\ clock' \in {clock, clock + 1}
          /\ main' \in {main, "check"}
        BY <1>3 DEF EnterSpan, LeaveSpan, Count, Record, AddMetaEvent, Tick, SwapOut, vars
    <2> QED BY <1>2, <2>1
<1>4. CASE ReturnAtOnce \/ DropBatch \/ FinishExpired
    <2>1. i' = 1 /\ main' \in {"idle", "returned"}
        BY <1>4 DEF ReturnAtOnce, DropBatch, FinishExpired, Return
    <2> QED BY <2>1 DEF PassedHaveTime
<1>5. CASE FormatBatch
    <2>1. i = 1 /\ i' = i /\ now' = clock /\ clock' = clock
        BY <1>5 DEF FormatBatch, ListInv
    <2> QED BY <1>1, <2>1 DEF PassedHaveTime
<1>6. CASE Shutdown
    <2>1. i = 1 /\ i' = i /\ main' = "entering"
        BY <1>6 DEF Shutdown, ListInv
    <2> QED BY <2>1 DEF PassedHaveTime
<1>7. ASSUME NEW c \in Consumers, UpdateExpiry(c) \/ Extend(c) PROVE PassedHaveTime'
    <2>1. /\ UNCHANGED <<consumers, i, now, clock, main>> /\ clock + Lifetime >= clock
          /\ expiry'[c] = clock + Lifetime
          /\ \A d \in Consumers : d # c => expiry'[d] = expiry[d]
        <3>1. /\ UNCHANGED <<consumers, i, now, clock, main>>
              /\ expiry' = [expiry EXCEPT ![c] = clock + Lifetime]
            BY <1>7 DEF UpdateExpiry, Extend
        <3>2. expiry \in [Consumers -> Nat]
            BY DEF TypeOK
        <3>3. expiry'[c] = clock + Lifetime /\ \A d \in Consumers : d # c => expiry'[d] = expiry[d]
            BY <3>1, <3>2
        <3>4. clock + Lifetime >= clock
            BY <1>1, TracerAssumption
        <3> QED BY <3>1, <3>3, <3>4
    <2>2. ASSUME NEW k \in 1..Len(consumers), k < i PROVE now <= expiry'[consumers[k]]
        <3>1. main = "sweep"
            BY <2>2 DEF ListInv
        <3> QED BY <1>1, <2>1, <2>2, <3>1 DEF PassedHaveTime
    <2> QED BY <2>1, <2>2 DEF PassedHaveTime
<1>8. ASSUME NEW c \in Consumers, AddConsumer(c) \/ RemoveConsumer(c) PROVE PassedHaveTime'
    <2>1. UNCHANGED <<i, now, clock, main>> /\ i = 1
        BY <1>8 DEF AddConsumer, RemoveConsumer, locked, ListInv
    <2> QED BY <2>1 DEF PassedHaveTime
<1>9. CASE SweepActive
    <2>1. /\ UNCHANGED <<consumers, expiry, now, clock>> /\ i' = i + 1 /\ AtSweep
          /\ ~(now > expiry[consumers[i]]) /\ i \in 1..Len(consumers)
        BY <1>1, <1>9 DEF SweepActive, IsOver, TypeOK
    <2>2. \A k \in 1..Len(consumers) : k < i + 1 => now <= expiry[consumers[k]]
        BY <1>1, <2>1 DEF PassedHaveTime
    <2> QED BY <2>1, <2>2 DEF PassedHaveTime, AtSweep
<1>10. CASE SweepExpired
    <2>1. /\ UNCHANGED <<expiry, now, clock>> /\ i' = i /\ AtSweep /\ Drop(i)
          /\ i \in 1..Len(consumers)
        BY <1>1, <1>10 DEF SweepExpired, NextAfterRemoval, TypeOK
    <2>2. ASSUME NEW j \in 1..Len(consumers'), j < i PROVE now <= expiry[consumers'[j]]
        BY <2>1, <2>2, DropKeeps DEF PassedHaveTime
    <2> QED BY <2>1, <2>2 DEF PassedHaveTime, AtSweep
<1> QED BY <1>3, <1>4, <1>5, <1>6, <1>7, <1>8, <1>9, <1>10 DEF Next, Advance

LEMMA PassedHolds == Spec => []PassedHaveTime
<1>1. Init => PassedHaveTime
    BY DEF Init, PassedHaveTime
<1>2. Inv /\ TypeOK' /\ PassedHaveTime /\ [Next]_vars => PassedHaveTime'
    BY PassedStep DEF Inv
<1> QED BY <1>1, <1>2, TypeCorrect, InvHolds, PTL DEF Spec

\* A sweep ends when every registered consumer with an open file has the whole batch
\* and none is left whose time was up, whoever was moved where meanwhile.
THEOREM SweepIsComplete == Spec => SweepReachesAll
<1>1. ASSUME Inv, PassedHaveTime, FinishExpired, NEW c \in Registered
      PROVE  /\ now <= expiry[c]
             /\ stream[c] = "open" => file[c] # <<>> /\ Last(file[c]).id = Last(batch.events).id
    <2>1. PICK k \in 1..Len(consumers) : consumers[k] = c
        <3>1. DOMAIN consumers = 1..Len(consumers)
            BY <1>1 DEF Inv, TypeOK
        <3> QED BY <3>1 DEF Registered, Range
    <2>2. k < i
        BY <1>1, Lengths DEF Inv, TypeOK, FinishExpired
    <2>3. now <= expiry[c]
        BY <1>1, <2>1, <2>2 DEF PassedHaveTime
    <2>4. ASSUME stream[c] = "open" PROVE file[c] # <<>> /\ Last(file[c]).id = Last(batch.events).id
        <3>1. Len(file[c]) > 0 /\ UpTo(file[c], Swapped, 0)
            BY <1>1, <2>1, <2>2, <2>4 DEF Inv, DeliveredInv
        <3>2. c \in Consumers /\ file[c] \in Seq(LineType)
            BY <1>1, <2>1, EntriesType DEF Inv, TypeOK
        <3>3. file[c][Len(file[c])].id = Swapped /\ file[c] # <<>>
            BY <3>1, <3>2 DEF UpTo
        <3>4. Len(batch.events) > 0 /\ Len(batch.events) \in Nat
            BY <1>1, Lengths DEF Inv, NumbersInv, FinishExpired, AtSweep
        <3>5. batch.events[Len(batch.events)].id = Handed + Len(batch.events)
            BY <1>1, <3>4 DEF Inv, NumbersInv
        <3>6. Swapped = Handed + Len(batch.events)
            BY <1>1, Counts DEF Inv
        <3> QED BY <3>3, <3>5, <3>6 DEF Last
    <2> QED BY <2>3, <2>4
<1>2. ASSUME Inv, PassedHaveTime, [Next]_vars
      PROVE  [FinishExpired => \A c \in Registered :
                 /\ now <= expiry[c]
                 /\ stream[c] = "open" => file[c] # <<>> /\ Last(file[c]).id = Last(batch.events).id]_vars
    BY <1>1, <1>2
<1> QED BY <1>2, InvHolds, PassedHolds, PTL DEF Spec, SweepReachesAll
=============================================================================
