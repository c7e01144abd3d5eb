------------------------------- MODULE EventLog -------------------------------
(***************************************************************************)
(* What a RecentHistory promises: an append-only log of which only the     *)
(* last Window entries (and none older than the last reset) can be read,   *)
(* and readers that either receive every entry they miss, in order, or are *)
(* refused and receive nothing.  No ring, no indices, no version numbers   *)
(* of limited width; but after every Period entries it may refuse everyone *)
(* until Window more are written.                                          *)
(***************************************************************************)
EXTENDS Naturals, Sequences

CONSTANTS Events, Consumers, Window, Period, MaxVersion, NoEvent

VARIABLES
    log,       \* every change so far; NoEvent where a reset skipped versions
    base,      \* Len(log) at the last reset
    position,  \* per consumer: the entries it has, or claims to have
    seen,      \* per consumer: what it was given since it set its position
    result     \* per consumer: what its last read returned, since it set its position

vars == <<log, base, position, seen, result>>

Init ==
    /\ log = <<>>
    /\ base = 0
    /\ position = [c \in Consumers |-> 0]
    /\ seen = [c \in Consumers |-> <<>>]
    /\ result = [c \in Consumers |-> "none"]

Write(e) ==
    /\ Len(log) < MaxVersion
    /\ log' = Append(log, e)
    /\ UNCHANGED <<base, position, seen, result>>

Reset(v) ==
    /\ v >= Len(log)
    /\ log' = log \o [i \in 1..(v - Len(log)) |-> NoEvent]
    /\ base' = v
    /\ UNCHANGED <<position, seen, result>>

Seek(c, v) ==
    /\ position' = [position EXCEPT ![c] = v]
    /\ seen' = [seen EXCEPT ![c] = <<>>]
    /\ result' = [result EXCEPT ![c] = "none"]
    /\ UNCHANGED <<log, base>>

Readable(c) ==
    /\ position[c] <= Len(log)
    /\ position[c] >= base
    /\ Len(log) - position[c] <= Window

Read(c) ==
    /\ Readable(c)
    /\ seen' = [seen EXCEPT ![c] = @ \o SubSeq(log, position[c] + 1, Len(log))]
    /\ position' = [position EXCEPT ![c] = Len(log)]
    /\ result' = [result EXCEPT ![c] = "true"]
    /\ UNCHANGED <<log, base>>

Refuse(c) ==
    /\ ~Readable(c) \/ Len(log) % Period < Window
    /\ result' = [result EXCEPT ![c] = "false"]
    /\ UNCHANGED <<log, base, position, seen>>

Next ==
    \/ \E e \in Events : Write(e)
    \/ \E v \in 0..MaxVersion : Reset(v)
    \/ \E c \in Consumers : Read(c) \/ Refuse(c) \/ \E v \in 0..MaxVersion : Seek(c, v)

Spec == Init /\ [][Next]_vars
=============================================================================
