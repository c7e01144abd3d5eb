---------------------------- MODULE RecentHistory ----------------------------
(***************************************************************************)
(* RecentHistory<Event> of src/util/RecentHistory.h: a ring of recent      *)
(* events, the "snake" between tail and head, a 32-bit version number that *)
(* counts every event ever pushed, and consumers that catch up from the    *)
(* version they are at or are told that what they need is lost.            *)
(*                                                                         *)
(* The class has no lock and no thread; each of its methods is one action. *)
(***************************************************************************)
EXTENDS Integers, Sequences

CONSTANTS
    Events,        \* what is pushed
    Consumers,     \* objects of class Consumer
    RingCapacity,  \* the constructor's argument
    MaxRingSize,   \* MAX_RING_SIZE, 512
    Modulus,       \* versions are uint32_t: 2^32
    MaxVersion,    \* bound of the model: changes ever recorded
    ClearVersions, \* bound of the model: arguments of clearAndSetVersion()
    NoEvent        \* a default-constructed Event

ASSUME RingAssumption ==
    /\ RingCapacity \in Nat \ {0}
    /\ MaxRingSize \in Nat \ {0}
    /\ Modulus \in Nat /\ MaxRingSize < Modulus
    /\ MaxVersion \in Nat /\ ClearVersions \subseteq 0..MaxVersion

Capacity == IF RingCapacity > MaxRingSize THEN MaxRingSize ELSE RingCapacity

VARIABLES
    tail, head, version, events,
    consumerVersion,  \* Consumer::_version
    result,           \* what advanceConsumer() last returned, since setVersion()
    log,              \* history: every change, NoEvent for skipped versions
    base,             \* history: Len(log) at the last clearAndSetVersion()
    position,         \* history: consumerVersion before it was cut to 32 bits
    joined,           \* history: position given by the last setVersion()
    seen              \* history: events consumed since then

ring == <<tail, head, version, events>>
consumer == <<consumerVersion, result, position, joined, seen>>
vars == <<ring, consumer, log, base>>

Init ==
    /\ tail = 0 /\ head = 0 /\ version = 0
    /\ events = [i \in 0..(Capacity - 1) |-> NoEvent]
    /\ consumerVersion = [c \in Consumers |-> 0]
    /\ result = [c \in Consumers |-> "none"]
    /\ log = <<>> /\ base = 0
    /\ position = [c \in Consumers |-> 0] /\ joined = [c \in Consumers |-> 0]
    /\ seen = [c \in Consumers |-> <<>>]

\* getSize()
Size == IF head >= tail THEN head - tail ELSE Capacity - (tail - head)

\* "It is the duty of external logic to not push changes faster than it advances
\* its consumers": no consumer is left behind, or sent ahead, so far that its
\* version number comes round again.
InReach(p, length) ==
    /\ length - p < Modulus - Capacity
    /\ p - length < Modulus - Capacity

-----------------------------------------------------------------------------
(***************************************************************************)
(* Recording changes                                                       *)
(***************************************************************************)

\* The slip does not wrap around.
NextSlotUnwrapped(i) == i + 1
NextSlot(i) == (i + 1) % Capacity

\* advanceHead(): the snake does not eat its tail.
AdvanceHead ==
    /\ version' = (version + 1) % Modulus
    /\ head' = NextSlot(head)
    /\ tail' = IF head' = tail THEN NextSlot(tail) ELSE tail

\* The slot that is written; the slip advances the head before.
SlotAfterHead == (head + 1) % Capacity
SlotOfHead == head

\* copy(), swap() and take() do the same to the history; they differ in what the
\* caller's own object holds afterwards.
Push(e) ==
    /\ Len(log) < MaxVersion /\ \A c \in Consumers : InReach(position[c], Len(log) + 1)
    /\ events' = [events EXCEPT ![SlotOfHead] = e]
    /\ AdvanceHead
    /\ log' = Append(log, e)
    /\ UNCHANGED <<consumer, base>>

\* clearAndSetVersion() with the version of a change that is not in the past.
ClearAndSetVersion(v) ==
    /\ v >= Len(log) /\ \A c \in Consumers : InReach(position[c], v)
    /\ head' = 0 /\ tail' = 0
    /\ version' = v % Modulus
    /\ log' = log \o [i \in 1..(v - Len(log)) |-> NoEvent]
    /\ base' = v
    /\ UNCHANGED <<events, consumer>>

-----------------------------------------------------------------------------
(***************************************************************************)
(* Consumers                                                               *)
(***************************************************************************)

\* setVersion() called from outside: the consumer claims to have the changes up
\* to the v-th, which may be old, current, or not reached yet.
SetVersion(c, v) ==
    /\ InReach(v, Len(log))
    /\ consumerVersion' = [consumerVersion EXCEPT ![c] = v % Modulus]
    /\ position' = [position EXCEPT ![c] = v]
    /\ joined' = [joined EXCEPT ![c] = v]
    /\ seen' = [seen EXCEPT ![c] = <<>>]
    /\ result' = [result EXCEPT ![c] = "none"]
    /\ UNCHANGED <<ring, log, base>>

\* Slips of the test for lost history: off by one, and left out.
AcceptsTooLittle(c) ==
    consumerVersion[c] <= version /\ consumerVersion[c] > (version - Size) % Modulus
AcceptsTooMuch(c) == consumerVersion[c] <= version

\* Neither early return of advanceConsumer() is taken.
Accepts(c) ==
    /\ consumerVersion[c] <= version
    /\ consumerVersion[c] >= (version - Size) % Modulus

\* The slot of the n-th latest event.
Slot(n) == IF n > head THEN Capacity + head - n ELSE head - n

\* The events from slot idx up to the head.
ReadFrom(idx) ==
    [k \in 1..((head - idx) % Capacity) |-> events[(idx + k - 1) % Capacity]]

Missed(c) == (version - consumerVersion[c]) % Modulus

\* setVersion(_version); the slip leaves it out.
VersionKept(c) == consumerVersion[c]
VersionReached(c) == version

AdvanceConsumer(c) ==
    /\ Accepts(c)
    /\ seen' = [seen EXCEPT ![c] = @ \o ReadFrom(Slot(Missed(c)))]
    /\ consumerVersion' = [consumerVersion EXCEPT ![c] = VersionReached(c)]
    /\ position' = [position EXCEPT ![c] = Len(log)]
    /\ result' = [result EXCEPT ![c] = "true"]
    /\ UNCHANGED <<ring, joined, log, base>>

RefuseConsumer(c) ==
    /\ ~Accepts(c)
    /\ result' = [result EXCEPT ![c] = "false"]
    /\ UNCHANGED <<ring, consumerVersion, position, joined, seen, log, base>>

-----------------------------------------------------------------------------
Next ==
    \/ \E e \in Events : Push(e)
    \/ \E v \in ClearVersions : ClearAndSetVersion(v)
    \/ \E c \in Consumers :
        \/ AdvanceConsumer(c) \/ RefuseConsumer(c)
        \/ \E v \in 0..MaxVersion : SetVersion(c, v)

Spec == Init /\ [][Next]_vars
-----------------------------------------------------------------------------
TypeOK ==
    /\ tail \in 0..(Capacity - 1)
    /\ head \in 0..(Capacity - 1)
    /\ version \in 0..(Modulus - 1)
    /\ events \in [0..(Capacity - 1) -> Events \cup {NoEvent}]
    /\ consumerVersion \in [Consumers -> 0..(Modulus - 1)]
    /\ result \in [Consumers -> {"none", "true", "false"}]
    /\ log \in Seq(Events \cup {NoEvent}) /\ Len(log) <= MaxVersion
    /\ base \in 0..Len(log)
    /\ position \in [Consumers -> 0..MaxVersion]
    /\ joined \in [Consumers -> 0..MaxVersion]
    /\ seen \in [Consumers -> Seq(Events \cup {NoEvent})]

\* The ring holds the recent past: the slot a consumer that misses n changes
\* starts reading at holds the n-th latest change, for every n it may miss.
RingMirrorsLog == \A n \in 1..Size : events[Slot(n)] = log[Len(log) - n + 1]

\* What must be readable: changes since the last clear, at most Capacity - 1.
Readable(c) ==
    /\ position[c] <= Len(log)
    /\ position[c] >= base
    /\ Len(log) - position[c] <= Capacity - 1

\* advanceConsumer() refuses a consumer exactly when it asks for the future or
\* for what was overwritten or cleared, except that it refuses everybody after
\* the version number has come round, until it exceeds the length of the snake.
RefusesOnlyLostOrFuture ==
    \A c \in Consumers : Accepts(c) <=> Readable(c) /\ Size <= version

\* However a consumer alternates between catching up, being refused and falling
\* behind, it has been given every change since it joined exactly once, in order.
ConsumersSeeTheLog ==
    \A c \in Consumers : seen[c] = SubSeq(log, joined[c] + 1, position[c])

\* The ring implements the abstract log with a window of Capacity - 1.
Log == INSTANCE EventLog WITH Window <- Capacity - 1, Period <- Modulus

ImplementsEventLog == Log!Spec
=============================================================================
