------------------------- MODULE RecentHistoryProofs -------------------------
(***************************************************************************)
(* Theorems about RecentHistory, for every ring capacity, every set of     *)
(* events and consumers, and version numbers of every width, which wrap    *)
(* around any number of times.                                             *)
(***************************************************************************)
EXTENDS RecentHistory, SequenceTheorems, TLAPS

USE DEF NextSlot, SlotOfHead, VersionReached

Entries == Events \cup {NoEvent}

\* Version numbers are lengths of the log cut to their width, and no consumer is so
\* far away that this says too little.
VersionsAgree ==
    /\ version = Len(log) % Modulus
    /\ \A c \in Consumers : /\ consumerVersion[c] = position[c] % Modulus
                            /\ InReach(position[c], Len(log))

\* A consumer is ahead of the log only if it was put there.
PositionsReached ==
    \A c \in Consumers :
        /\ joined[c] <= position[c]
        /\ position[c] <= Len(log) \/ position[c] = joined[c]

\* The snake covers the changes since the last clear, up to Capacity - 1.
SizeIsWindow ==
    Size = IF Len(log) - base < Capacity THEN Len(log) - base ELSE Capacity - 1

Inv ==
    /\ TypeOK
    /\ VersionsAgree
    /\ PositionsReached
    /\ SizeIsWindow
    /\ RingMirrorsLog
    /\ ConsumersSeeTheLog

-----------------------------------------------------------------------------
(***************************************************************************)
(* Arithmetic and sequences                                                *)
(***************************************************************************)

LEMMA ModOnce ==
    ASSUME NEW C \in Nat \ {0}, NEW x \in Nat, x < C + C
    PROVE  x % C = IF x < C THEN x ELSE x - C
OBVIOUS

LEMMA ModNegative ==
    ASSUME NEW C \in Nat \ {0}, NEW x \in Int, x < 0, x + C >= 0
    PROVE  x % C = x + C
OBVIOUS

LEMMA ModUnique ==
    ASSUME NEW m \in Nat \ {0}, NEW q \in Int, NEW r \in 0..(m - 1)
    PROVE  (m * q + r) % m = r
OBVIOUS

LEMMA ModParts ==
    ASSUME NEW m \in Nat \ {0}, NEW x \in Int
    PROVE  /\ x % m \in 0..(m - 1) /\ x \div m \in Int
           /\ x = m * (x \div m) + (x % m)
OBVIOUS

\* Two numbers less than m apart: what is left of one modulo m determines what is
\* left of the other.
LEMMA ModShift ==
    ASSUME NEW m \in Nat \ {0}, NEW x \in Int, NEW d \in Int, -m < d, d < m
    PROVE  LET r == x % m
               y == x - d
           IN  y % m = IF d > r THEN r - d + m ELSE IF r - d >= m THEN r - d - m ELSE r - d
<1> DEFINE q == x \div m
           r == x % m
           y == x - d
<1>1. r \in 0..(m - 1) /\ q \in Int /\ x = m * q + r
  BY ModParts
<1>2. y = m * q + (r - d)
  BY <1>1
<1> HIDE DEF q, r, y
<1>3. CASE d > r
  <2>1. r - d + m \in 0..(m - 1) /\ q - 1 \in Int
    BY <1>1, <1>3
  <2>2. y = m * (q - 1) + (r - d + m)
    BY <1>1, <1>2
  <2>3. y % m = r - d + m
    BY <2>1, <2>2, ModUnique
  <2> QED BY <2>3, <1>3 DEF r, y
<1>4. CASE r - d >= m
  <2>1. r - d - m \in 0..(m - 1) /\ q + 1 \in Int /\ ~(d > r)
    BY <1>1, <1>4
  <2>2. y = m * (q + 1) + (r - d - m)
    BY <1>1, <1>2
  <2>3. y % m = r - d - m
    BY <2>1, <2>2, ModUnique
  <2> QED BY <2>1, <2>3, <1>4 DEF r, y
<1>5. CASE d <= r /\ r - d < m
  <2>1. r - d \in 0..(m - 1) /\ ~(d > r) /\ ~(r - d >= m)
    BY <1>1, <1>5
  <2>2. y % m = r - d
    BY <1>1, <1>2, <2>1, ModUnique
  <2> QED BY <2>1, <2>2 DEF r, y
<1> QED BY <1>1, <1>3, <1>4, <1>5

LEMMA ClearVersionType == \A v \in ClearVersions : v \in 0..MaxVersion
BY RingAssumption

LEMMA CapacityType == Capacity \in Nat \ {0} /\ Capacity < Modulus /\ Modulus \in Nat
BY RingAssumption DEF Capacity

\* Extending a sequence leaves the slices of the old part as they were.
LEMMA SliceOfPrefix ==
    ASSUME NEW S, NEW s \in Seq(S), NEW r \in Seq(S), Len(s) <= Len(r),
           \A i \in 1..Len(s) : r[i] = s[i],
           NEW m \in Nat \ {0}, NEW n \in 0..Len(s)
    PROVE  SubSeq(r, m, n) = SubSeq(s, m, n)
<1>0. Len(s) \in Nat /\ Len(r) \in Nat
  BY LenProperties
<1>1. \A i \in m..n : r[i] = s[i] /\ r[i] \in S /\ s[i] \in S
  BY <1>0, ElementOfSeq
<1>2. /\ SubSeq(s, m, n) \in Seq(S)
      /\ Len(SubSeq(s, m, n)) = IF m <= n THEN n - m + 1 ELSE 0
      /\ \A i \in 1..(n - m + 1) : SubSeq(s, m, n)[i] = s[m + i - 1]
  BY <1>0, <1>1, SubSeqProperties
<1>3. /\ SubSeq(r, m, n) \in Seq(S)
      /\ Len(SubSeq(r, m, n)) = IF m <= n THEN n - m + 1 ELSE 0
      /\ \A i \in 1..(n - m + 1) : SubSeq(r, m, n)[i] = r[m + i - 1]
  BY <1>0, <1>1, SubSeqProperties
<1>4. \A i \in 1..Len(SubSeq(s, m, n)) : SubSeq(r, m, n)[i] = SubSeq(s, m, n)[i]
  BY <1>0, <1>1, <1>2, <1>3
<1> QED BY <1>2, <1>3, <1>4, SeqEqual

\* The history grows by one change, or by the changes that a clear skips.
LEMMA PushLog ==
    ASSUME TypeOK, NEW e \in Events, Push(e)
    PROVE  /\ log' \in Seq(Entries)
           /\ Len(log) \in Nat
           /\ Len(log') = Len(log) + 1
           /\ \A i \in 1..Len(log) : log'[i] = log[i]
           /\ log'[Len(log) + 1] = e
<1>1. log' = Append(log, e)
  BY DEF Push
<1>2. log \in Seq(Entries) /\ e \in Entries
  BY DEF TypeOK, Entries
<1> QED BY <1>1, <1>2, AppendProperties, LenProperties

LEMMA ClearLog ==
    ASSUME TypeOK, NEW v \in ClearVersions, ClearAndSetVersion(v)
    PROVE  /\ log' \in Seq(Entries)
           /\ Len(log) \in Nat
           /\ Len(log') = v /\ Len(log) <= v
           /\ \A i \in 1..Len(log) : log'[i] = log[i]
<1> DEFINE gap == [i \in 1..(v - Len(log)) |-> NoEvent]
<1>1. log' = log \o gap /\ v >= Len(log)
  BY DEF ClearAndSetVersion
<1>2. log \in Seq(Entries) /\ Len(log) \in Nat
  BY LenProperties DEF TypeOK, Entries
<1>3. v \in Nat /\ v - Len(log) \in Nat
  BY <1>1, <1>2, RingAssumption, ClearVersionType
<1>4. gap \in Seq(Entries)
  BY <1>3, IsASeq DEF Entries
<1>5. Len(gap) = v - Len(log)
  BY <1>3, <1>4, LenProperties
<1> HIDE DEF gap
<1> QED BY <1>1, <1>2, <1>3, <1>4, <1>5, ConcatProperties

-----------------------------------------------------------------------------
(***************************************************************************)
(* The ring                                                                *)
(***************************************************************************)

LEMMA HeadAdvances ==
    ASSUME TypeOK, AdvanceHead
    PROVE  /\ head' = IF head + 1 = Capacity THEN 0 ELSE head + 1
           /\ tail' = IF head' = tail
                      THEN (IF tail + 1 = Capacity THEN 0 ELSE tail + 1) ELSE tail
           /\ head' \in 0..(Capacity - 1) /\ tail' \in 0..(Capacity - 1)
           /\ Size \in 0..(Capacity - 1)
           /\ Size' = IF Size = Capacity - 1 THEN Size ELSE Size + 1
<1>1. /\ Capacity \in Nat \ {0}
      /\ head \in 0..(Capacity - 1) /\ tail \in 0..(Capacity - 1)
  BY CapacityType DEF TypeOK
<1>2. ASSUME NEW i \in 0..(Capacity - 1)
      PROVE  (i + 1) % Capacity = IF i + 1 = Capacity THEN 0 ELSE i + 1
  <2> DEFINE x == i + 1
  <2>1. x \in Nat /\ x < Capacity + Capacity
    BY <1>1
  <2> HIDE DEF x
  <2>2. x % Capacity = IF x < Capacity THEN x ELSE x - Capacity
    BY <1>1, <2>1, ModOnce
  <2> USE DEF x
  <2> QED BY <1>1, <2>2
<1>4. /\ head' = IF head + 1 = Capacity THEN 0 ELSE head + 1
      /\ tail' = IF head' = tail
                 THEN (IF tail + 1 = Capacity THEN 0 ELSE tail + 1) ELSE tail
  BY <1>1, <1>2 DEF AdvanceHead
<1>5. Size' = IF head' >= tail' THEN head' - tail' ELSE Capacity - (tail' - head')
  BY CapacityType DEF Size, Capacity
<1>6. CASE head' = tail
  BY <1>1, <1>4, <1>5, <1>6 DEF Size
<1>7. CASE head' # tail
  BY <1>1, <1>4, <1>5, <1>7 DEF Size
<1> QED BY <1>1, <1>4, <1>6, <1>7 DEF Size

\* The event read for the n-th latest change does not depend on the loop: it is
\* in Slot(n), and reading on from there passes through Slot(n - 1), ..., Slot(1).
LEMMA ReadFromSlot ==
    ASSUME TypeOK, NEW n \in 0..(Capacity - 1)
    PROVE  /\ Slot(n) \in 0..(Capacity - 1)
           /\ (head - Slot(n)) % Capacity = n
           /\ \A k \in 1..n : (Slot(n) + k - 1) % Capacity = Slot(n - k + 1)
<1>1. Capacity \in Nat \ {0} /\ head \in 0..(Capacity - 1)
  BY CapacityType DEF TypeOK
<1>2. Slot(n) = IF n > head THEN Capacity + head - n ELSE head - n
  BY DEF Slot
<1>3. Slot(n) \in 0..(Capacity - 1)
  BY <1>1, <1>2
<1>4. (head - Slot(n)) % Capacity = n
  <2>1. CASE n > head
    <3>1. head - Slot(n) = n - Capacity /\ n - Capacity \in (-Capacity)..(-1)
      BY <1>1, <1>2, <2>1
    <3> QED BY <1>1, <3>1, ModNegative
  <2>2. CASE n <= head
    <3>1. head - Slot(n) = n /\ n \in 0..(Capacity + Capacity - 1)
      BY <1>1, <1>2, <2>2
    <3> QED BY <1>1, <3>1, ModOnce
  <2> QED BY <1>1, <2>1, <2>2
<1>5. ASSUME NEW k \in 1..n PROVE (Slot(n) + k - 1) % Capacity = Slot(n - k + 1)
  <2> DEFINE x == Slot(n) + k - 1
  <2>1. x \in Nat /\ x < Capacity + Capacity
    BY <1>1, <1>3
  <2> HIDE DEF x
  <2>2. x % Capacity = IF x < Capacity THEN x ELSE x - Capacity
    BY <1>1, <2>1, ModOnce
  <2> USE DEF x
  <2> QED BY <1>1, <1>2, <2>2 DEF Slot
<1> QED BY <1>3, <1>4, <1>5

\* Every step but a push or a clear leaves the ring and the log alone.
LEMMA RingUnchanged ==
    ASSUME [Next]_vars,
           ~(\E e \in Events : Push(e)), ~(\E v \in ClearVersions : ClearAndSetVersion(v))
    PROVE  UNCHANGED <<tail, head, version, events, log, base>>
BY DEF Next, vars, ring, AdvanceConsumer, RefuseConsumer, SetVersion

LEMMA WindowStep ==
    TypeOK /\ SizeIsWindow /\ [Next]_vars => SizeIsWindow'
<1> SUFFICES ASSUME TypeOK, SizeIsWindow, [Next]_vars PROVE SizeIsWindow'
  OBVIOUS
<1> USE CapacityType DEF SizeIsWindow
<1>0. Capacity' = Capacity /\ Len(log) \in Nat /\ base \in 0..Len(log)
  BY LenProperties DEF Capacity, TypeOK
<1>1. ASSUME NEW e \in Events, Push(e) PROVE SizeIsWindow'
  <2>1. Size' = IF Size = Capacity - 1 THEN Size ELSE Size + 1
    BY <1>1, HeadAdvances DEF Push
  <2>2. Len(log') = Len(log) + 1 /\ base' = base
    BY <1>1, PushLog DEF Push
  <2> QED BY <1>0, <2>1, <2>2
<1>2. ASSUME NEW v \in ClearVersions, ClearAndSetVersion(v) PROVE SizeIsWindow'
  <2>1. Size' = 0 /\ base' = v
    BY <1>2 DEF ClearAndSetVersion, Size
  <2>2. Len(log') = v
    BY <1>2, ClearLog
  <2> QED BY <1>0, <2>1, <2>2, RingAssumption, ClearVersionType
<1>3. CASE UNCHANGED <<tail, head, version, events, log, base>>
  BY <1>0, <1>3 DEF Size
<1> QED BY <1>1, <1>2, <1>3, RingUnchanged

LEMMA RingStep ==
    TypeOK /\ SizeIsWindow /\ RingMirrorsLog /\ [Next]_vars => RingMirrorsLog'
<1> SUFFICES ASSUME TypeOK, SizeIsWindow, RingMirrorsLog, [Next]_vars
             PROVE  RingMirrorsLog'
  OBVIOUS
<1>0. /\ Capacity \in Nat \ {0} /\ Capacity' = Capacity
      /\ head \in 0..(Capacity - 1)
  BY CapacityType DEF Capacity, TypeOK
<1>1. ASSUME NEW e \in Events, Push(e) PROVE RingMirrorsLog'
  <2>1. /\ head' = IF head + 1 = Capacity THEN 0 ELSE head + 1
        /\ Size \in 0..(Capacity - 1)
        /\ Size' = IF Size = Capacity - 1 THEN Size ELSE Size + 1
    BY <1>1, HeadAdvances DEF Push
  <2>2. /\ events' = [events EXCEPT ![head] = e]
        /\ events \in [0..(Capacity - 1) -> Events \cup {NoEvent}]
    BY <1>1 DEF Push, TypeOK
  <2>3. SUFFICES ASSUME NEW n \in 1..Size'
                 PROVE  events'[Slot(n)'] = log'[Len(log') - n + 1]
    BY DEF RingMirrorsLog
  <2>4. Slot(n)' = IF n > head' THEN Capacity + head' - n ELSE head' - n
    BY <1>0 DEF Slot
  <2>5. CASE n = 1
    <3>1. Slot(n)' = head
      BY <1>0, <2>1, <2>4, <2>5
    <3>2. Len(log') - n + 1 = Len(log) + 1 /\ log'[Len(log) + 1] = e
      BY <1>1, <2>5, PushLog
    <3> QED BY <1>0, <2>2, <3>1, <3>2
  <2>6. CASE n # 1
    <3> DEFINE m == n - 1
    <3>1. m \in 1..Size
      BY <2>1, <2>6
    <3>2. Slot(n)' = Slot(m) /\ Slot(m) # head /\ Slot(m) \in 0..(Capacity - 1)
      BY <1>0, <2>1, <2>4, <3>1 DEF Slot
    <3>3. events[Slot(m)] = log[Len(log) - m + 1]
      BY <3>1 DEF RingMirrorsLog
    <3>4. Len(log') - n + 1 = Len(log) - m + 1
      BY <1>1, <2>1, PushLog
    <3>5. Len(log) \in Nat /\ base \in 0..Len(log) /\ m <= Len(log) - base
      BY <1>0, <3>1, LenProperties DEF TypeOK, SizeIsWindow
    <3>6. log'[Len(log) - m + 1] = log[Len(log) - m + 1]
      BY <1>1, <3>1, <3>5, PushLog
    <3> HIDE DEF m
    <3> QED BY <1>0, <2>2, <3>2, <3>3, <3>4, <3>6
  <2> QED BY <2>5, <2>6
<1>2. ASSUME NEW v \in ClearVersions, ClearAndSetVersion(v) PROVE RingMirrorsLog'
  <2>1. Size' = 0
    BY <1>2 DEF ClearAndSetVersion, Size
  <2> QED BY <2>1 DEF RingMirrorsLog
<1>3. CASE UNCHANGED <<tail, head, version, events, log, base>>
  BY <1>0, <1>3 DEF RingMirrorsLog, Size, Slot
<1> QED BY <1>1, <1>2, <1>3, RingUnchanged

-----------------------------------------------------------------------------
(***************************************************************************)
(* Catching up                                                             *)
(***************************************************************************)

\* Facts every proof about a consumer starts from.
LEMMA Basics ==
    ASSUME Inv
    PROVE  /\ Capacity \in Nat \ {0} /\ Capacity < Modulus /\ Modulus \in Nat
           /\ log \in Seq(Entries) /\ Len(log) \in Nat
           /\ base \in 0..Len(log)
           /\ version \in 0..(Modulus - 1)
           /\ Size \in 0..(Capacity - 1) /\ Size <= Len(log) - base
           /\ \A c \in Consumers : /\ position[c] \in 0..MaxVersion /\ position[c] \in Nat
                                   /\ joined[c] \in 0..MaxVersion
                                   /\ consumerVersion[c] \in Int
<1>1. Capacity \in Nat \ {0} /\ Capacity < Modulus /\ Modulus \in Nat
  BY CapacityType
<1>2. log \in Seq(Entries) /\ Len(log) \in Nat
  BY LenProperties DEF Inv, TypeOK, Entries
<1>3. base \in 0..Len(log) /\ version \in 0..(Modulus - 1)
  BY DEF Inv, TypeOK
<1>4. Size \in 0..(Capacity - 1) /\ Size <= Len(log) - base
  BY <1>1, <1>2, <1>3 DEF Inv, SizeIsWindow
<1> QED BY <1>1, <1>2, <1>3, <1>4, RingAssumption DEF Inv, TypeOK

\* Where the version of a consumer lies that is d changes behind, or ahead if d is
\* negative.
LEMMA VersionOfConsumer ==
    ASSUME Inv, NEW c \in Consumers
    PROVE  LET d == Len(log) - position[c]
           IN  /\ d \in Int /\ d < Modulus - Capacity /\ -d < Modulus - Capacity
               /\ consumerVersion[c] = IF d > version THEN version - d + Modulus
                                       ELSE IF version - d >= Modulus THEN version - d - Modulus
                                       ELSE version - d
<1> DEFINE l == Len(log)
           p == position[c]
           d == l - p
           m == Modulus
           C == Capacity
<1>1. /\ l \in Int /\ p \in Int /\ m \in Nat \ {0} /\ C \in Nat \ {0} /\ C < m
      /\ version \in 0..(m - 1)
  BY Basics, RingAssumption
<1>2. d < m - C /\ p - l < m - C /\ version = l % m /\ consumerVersion[c] = p % m
  BY DEF Inv, VersionsAgree, InReach
<1> HIDE DEF l, p, m, C
<1>3. d \in Int /\ -m < d /\ d < m /\ -d < m - C /\ l - d = p
  BY <1>1, <1>2
<1> HIDE DEF d
<1>4. (l - d) % m = IF d > (l % m) THEN (l % m) - d + m
                    ELSE IF (l % m) - d >= m THEN (l % m) - d - m ELSE (l % m) - d
  BY <1>1, <1>3, ModShift
<1> QED BY <1>2, <1>3, <1>4 DEF l, p, d, m, C

\* The oldest version that advanceConsumer() takes to be in the ring.
LEMMA OldestVersion ==
    ASSUME Inv
    PROVE  (version - Size) % Modulus = IF Size <= version THEN version - Size
                                        ELSE version - Size + Modulus
<1> DEFINE x == version - Size
           m == Modulus
<1>1. /\ m \in Nat \ {0} /\ x \in Int /\ x < m /\ x + m >= 0 /\ x < m + m
      /\ Size \in Int /\ version \in Int
  BY Basics
<1>2. x < 0 <=> ~(Size <= version)
  BY <1>1
<1> HIDE DEF x, m
<1>3. CASE x < 0
  BY <1>1, <1>2, <1>3, ModNegative DEF x, m
<1>4. CASE x >= 0
  <2>1. x \in Nat
    BY <1>1, <1>4
  <2>2. x % m = x
    BY <1>1, <2>1, ModOnce
  <2> QED BY <1>1, <1>2, <1>4, <2>2 DEF x, m
<1> QED BY <1>1, <1>3, <1>4

\* advanceConsumer()'s two tests say exactly whether the missing changes are in
\* the ring, and that the version number has not come round just now.
LEMMA AcceptsIffReadable ==
    ASSUME Inv, NEW c \in Consumers
    PROVE  Accepts(c) <=> Readable(c) /\ Size <= version
<1> DEFINE l == Len(log)
           p == position[c]
           d == l - p
           m == Modulus
           C == Capacity
           z == Size
           cv == consumerVersion[c]
           old == (version - Size) % Modulus
<1>1. /\ C \in Nat \ {0} /\ m \in Nat /\ C < m /\ l \in Nat /\ p \in Nat
      /\ base \in 0..l /\ version \in 0..(m - 1) /\ z \in 0..(C - 1) /\ z <= l - base
      /\ cv \in Int
  BY Basics
<1>2. z = IF l - base < C THEN l - base ELSE C - 1
  BY DEF Inv, SizeIsWindow
<1>3. /\ d \in Int /\ d < m - C /\ -d < m - C
      /\ cv = IF d > version THEN version - d + m
              ELSE IF version - d >= m THEN version - d - m ELSE version - d
  BY VersionOfConsumer
<1>4. old = IF z <= version THEN version - z ELSE version - z + m
  BY OldestVersion
<1>5. Accepts(c) <=> cv <= version /\ cv >= old
  BY DEF Accepts
<1>6. Readable(c) <=> p <= l /\ p >= base /\ l - p <= C - 1
  BY DEF Readable
<1> HIDE DEF l, p, m, C, z, cv, old
<1>7. (p <= l /\ p >= base /\ l - p <= C - 1) <=> d \in 0..z
  BY <1>1, <1>2
<1> HIDE DEF d
<1>8. CASE z > version
  <2>1. ~(cv <= version /\ cv >= old)
    BY <1>1, <1>4, <1>8
  <2> QED BY <1>5, <1>6, <2>1, <1>8, <1>1 DEF z
<1>9. CASE z <= version
  <2>1. cv <= version /\ cv >= version - z <=> d \in 0..z
    BY <1>1, <1>3, <1>9
  <2> QED BY <1>4, <1>5, <1>6, <1>7, <2>1, <1>9 DEF z
<1> QED BY <1>1, <1>8, <1>9

\* What the loop of advanceConsumer() hands out is the slice of the log that the
\* consumer misses.
LEMMA DeliveredSlice ==
    ASSUME Inv, NEW c \in Consumers, Accepts(c)
    PROVE  /\ position[c] \in 0..Len(log)
           /\ ReadFrom(Slot(Missed(c))) = SubSeq(log, position[c] + 1, Len(log))
           /\ SubSeq(log, position[c] + 1, Len(log)) \in Seq(Entries)
<1> DEFINE n == Len(log) - position[c]
           slice == SubSeq(log, position[c] + 1, Len(log))
<1>0. /\ Capacity \in Nat \ {0} /\ Modulus \in Nat /\ Len(log) \in Nat /\ Capacity < Modulus
      /\ base \in 0..Len(log) /\ version \in 0..(Modulus - 1) /\ log \in Seq(Entries)
      /\ Size \in 0..(Capacity - 1)
      /\ position[c] \in Nat
  BY Basics
<1>1. Readable(c) /\ Size <= version
  BY AcceptsIffReadable
<1>2. position[c] \in 0..Len(log) /\ n \in 0..Size /\ n \in 0..(Capacity - 1)
  BY <1>0, <1>1 DEF Readable, Inv, SizeIsWindow
<1>3. Missed(c) = n
  <2> DEFINE x == version - consumerVersion[c]
             m == Modulus
  <2>0. consumerVersion[c] = version - n
    <3>1. consumerVersion[c] = IF n > version THEN version - n + Modulus
                               ELSE IF version - n >= Modulus THEN version - n - Modulus
                               ELSE version - n
      BY VersionOfConsumer
    <3> HIDE DEF n
    <3> QED BY <1>0, <1>1, <1>2, <3>1
  <2>1. x = n /\ x \in Nat /\ x < m /\ x < m + m /\ m \in Nat \ {0}
    BY <1>0, <1>2, <2>0
  <2> HIDE DEF x, n, m
  <2>2. x % m = n
    BY <2>1, ModOnce
  <2> QED BY <2>2 DEF Missed, x, m
<1>4. /\ (head - Slot(n)) % Capacity = n
      /\ \A k \in 1..n : (Slot(n) + k - 1) % Capacity = Slot(n - k + 1)
  BY <1>2, ReadFromSlot DEF Inv
<1>5. ReadFrom(Slot(n)) = [k \in 1..n |-> events[Slot(n - k + 1)]]
  BY <1>4 DEF ReadFrom
<1>6. \A k \in 1..n : events[Slot(n - k + 1)] = log[position[c] + k]
  <2> SUFFICES ASSUME NEW k \in 1..n
               PROVE  events[Slot(n - k + 1)] = log[position[c] + k]
    OBVIOUS
  <2> DEFINE p == position[c]
             l == Len(log)
             z == Size
  <2>0. p \in Nat /\ l \in Nat /\ z \in Nat /\ n = l - p /\ n <= z /\ n \in Nat /\ k \in 1..n
    BY <1>0, <1>2
  <2> HIDE DEF p, l, n, z
  <2>1. n - k + 1 \in 1..z /\ l - (n - k + 1) + 1 = p + k
    BY <2>0
  <2> USE DEF p, l, z
  <2> QED BY <2>1 DEF Inv, RingMirrorsLog
<1>7. \A i \in (position[c] + 1)..Len(log) : log[i] \in Entries
  BY <1>0, <1>2, ElementOfSeq
<1>8. /\ slice \in Seq(Entries)
      /\ Len(slice) = n
      /\ \A k \in 1..n : slice[k] = log[position[c] + k]
  <2> DEFINE a == position[c] + 1
             b == Len(log)
  <2>1. a \in Int /\ b \in Int
    BY <1>0
  <2> HIDE DEF a, b
  <2>2. /\ SubSeq(log, a, b) \in Seq(Entries)
        /\ Len(SubSeq(log, a, b)) = IF a <= b THEN b - a + 1 ELSE 0
        /\ \A k \in 1..(b - a + 1) : SubSeq(log, a, b)[k] = log[a + k - 1]
    BY <1>7, <2>1, SubSeqProperties DEF a, b
  <2>3. b - a + 1 = n /\ (IF a <= b THEN b - a + 1 ELSE 0) = n
    BY <1>0, <1>2 DEF a, b
  <2>4. \A k \in 1..n : a + k - 1 = position[c] + k
    BY <1>0, <1>2 DEF a
  <2> HIDE DEF n
  <2> QED BY <2>2, <2>3, <2>4 DEF a, b
<1>9. slice = [k \in 1..n |-> slice[k]]
  BY <1>8, LenProperties
<1> HIDE DEF n, slice
<1>10. [k \in 1..n |-> events[Slot(n - k + 1)]] = [k \in 1..n |-> slice[k]]
  BY <1>6, <1>8
<1> QED BY <1>2, <1>3, <1>5, <1>8, <1>9, <1>10 DEF slice

LEMMA TypeStep == Inv /\ [Next]_vars => TypeOK'
<1> SUFFICES ASSUME Inv, [Next]_vars PROVE TypeOK'
  OBVIOUS
<1>0. TypeOK /\ Capacity \in Nat \ {0} /\ Capacity' = Capacity /\ Modulus \in Nat \ {0}
  BY Basics DEF Inv, Capacity
<1> USE RingAssumption
<1>1. ASSUME NEW e \in Events, Push(e) PROVE TypeOK'
  <2>1. head' \in 0..(Capacity - 1) /\ tail' \in 0..(Capacity - 1)
    BY <1>0, <1>1, HeadAdvances DEF Push
  <2>2. log' \in Seq(Events \cup {NoEvent}) /\ Len(log') = Len(log) + 1 /\ Len(log) \in Nat
    BY <1>0, <1>1, PushLog DEF Entries
  <2>3. version' \in 0..(Modulus - 1)
    BY <1>0, <1>1 DEF Push, AdvanceHead, TypeOK
  <2>4. Len(log) < MaxVersion /\ events' = [events EXCEPT ![head] = e]
        /\ UNCHANGED <<consumerVersion, result, position, joined, seen, base>>
    BY <1>1 DEF Push, consumer
  <2>5. events' \in [0..(Capacity - 1) -> Events \cup {NoEvent}]
    BY <1>0, <2>4 DEF TypeOK
  <2>6. Len(log') <= MaxVersion /\ base' \in 0..Len(log')
    BY <1>0, <2>2, <2>4 DEF TypeOK
  <2>7. /\ consumerVersion' \in [Consumers -> 0..(Modulus - 1)]
        /\ result' \in [Consumers -> {"none", "true", "false"}]
        /\ position' \in [Consumers -> 0..MaxVersion]
        /\ joined' \in [Consumers -> 0..MaxVersion]
        /\ seen' \in [Consumers -> Seq(Events \cup {NoEvent})]
    BY <1>0, <2>4 DEF TypeOK
  <2> QED BY <1>0, <2>1, <2>2, <2>3, <2>5, <2>6, <2>7 DEF TypeOK
<1>2. ASSUME NEW v \in ClearVersions, ClearAndSetVersion(v) PROVE TypeOK'
  <2>1. log' \in Seq(Events \cup {NoEvent}) /\ Len(log') = v
    BY <1>0, <1>2, ClearLog DEF Entries
  <2>2. /\ head' = 0 /\ tail' = 0 /\ version' = v % Modulus /\ base' = v
        /\ UNCHANGED <<events, consumerVersion, result, position, joined, seen>>
    BY <1>2 DEF ClearAndSetVersion, consumer
  <2>3. v \in 0..MaxVersion /\ v % Modulus \in 0..(Modulus - 1)
    BY <1>0, ClearVersionType, ModParts
  <2> QED BY <1>0, <2>1, <2>2, <2>3 DEF TypeOK
<1>3. ASSUME NEW c \in Consumers, AdvanceConsumer(c) PROVE TypeOK'
  <2>1. ReadFrom(Slot(Missed(c))) \in Seq(Entries)
    BY <1>3, DeliveredSlice DEF AdvanceConsumer
  <2>3. Len(log) \in 0..MaxVersion /\ version \in 0..(Modulus - 1)
    BY <1>0, LenProperties DEF TypeOK
  <2>2. seen[c] \o ReadFrom(Slot(Missed(c))) \in Seq(Entries)
    BY <1>0, <2>1, ConcatProperties DEF TypeOK, Entries
  <2> DEFINE more == seen[c] \o ReadFrom(Slot(Missed(c)))
  <2>4. /\ UNCHANGED <<tail, head, version, events, joined, log, base>>
        /\ seen' = [seen EXCEPT ![c] = more]
        /\ consumerVersion' = [consumerVersion EXCEPT ![c] = version]
        /\ position' = [position EXCEPT ![c] = Len(log)]
        /\ result' = [result EXCEPT ![c] = "true"]
    BY <1>3 DEF AdvanceConsumer, ring
  <2> HIDE DEF more
  <2> QED BY <1>0, <2>2, <2>3, <2>4 DEF TypeOK, Entries, more
<1>4. ASSUME NEW c \in Consumers, RefuseConsumer(c) PROVE TypeOK'
  BY <1>0, <1>4 DEF RefuseConsumer, TypeOK, ring
<1>5. ASSUME NEW c \in Consumers, NEW v \in 0..MaxVersion, SetVersion(c, v) PROVE TypeOK'
  <2>1. <<>> \in Seq(Events \cup {NoEvent})
    BY EmptySeq
  <2>2. v % Modulus \in 0..(Modulus - 1)
    BY <1>0, ModParts
  <2> DEFINE w == v % Modulus
  <2>3. /\ UNCHANGED <<tail, head, version, events, log, base>>
        /\ seen' = [seen EXCEPT ![c] = <<>>]
        /\ consumerVersion' = [consumerVersion EXCEPT ![c] = w]
        /\ position' = [position EXCEPT ![c] = v]
        /\ joined' = [joined EXCEPT ![c] = v]
        /\ result' = [result EXCEPT ![c] = "none"]
    BY <1>5 DEF SetVersion, ring
  <2>4. w \in 0..(Modulus - 1)
    BY <2>2
  <2> HIDE DEF w
  <2> QED BY <1>0, <2>1, <2>3, <2>4 DEF TypeOK
<1>6. CASE UNCHANGED vars
  BY <1>0, <1>6 DEF vars, ring, consumer, TypeOK
<1> QED BY <1>1, <1>2, <1>3, <1>4, <1>5, <1>6 DEF Next

LEMMA VersionsStep ==
    Inv /\ [Next]_vars => VersionsAgree' /\ PositionsReached'
<1> SUFFICES ASSUME Inv, [Next]_vars
             PROVE  VersionsAgree' /\ PositionsReached'
  OBVIOUS
<1> DEFINE Goal == VersionsAgree' /\ PositionsReached'
<1>0. /\ TypeOK /\ VersionsAgree /\ PositionsReached
      /\ Capacity \in Nat \ {0} /\ Capacity < Modulus /\ Modulus \in Nat \ {0}
      /\ Len(log) \in Nat /\ MaxVersion \in Nat /\ Capacity' = Capacity
      /\ joined \in [Consumers -> 0..MaxVersion] /\ position \in [Consumers -> 0..MaxVersion]
      /\ consumerVersion \in [Consumers -> 0..(Modulus - 1)]
  BY Basics, RingAssumption DEF Inv, TypeOK, Capacity
<1>i. \A q, length : InReach(q, length)' <=> InReach(q', length')
  BY DEF InReach, Capacity
<1> USE DEF VersionsAgree, PositionsReached
<1>1. ASSUME NEW e \in Events, Push(e) PROVE Goal
  <2>1. Len(log') = Len(log) + 1
    BY <1>0, <1>1, PushLog DEF Push
  <2>2. /\ version' = (version + 1) % Modulus /\ UNCHANGED <<consumerVersion, position, joined>>
        /\ \A c \in Consumers : InReach(position[c], Len(log) + 1)
    BY <1>1 DEF Push, AdvanceHead, consumer
  <2> DEFINE x == Len(log)
             m == Modulus
             y == version + 1
  <2>3. /\ x \in Int /\ m \in Nat \ {0} /\ -m < -1 /\ -1 < m /\ -1 \in Int
        /\ version \in 0..(m - 1) /\ version = x % m
        /\ y \in Nat /\ y < m + m /\ y = version + 1
    BY <1>0 DEF TypeOK
  <2> HIDE DEF x, m, y
  <2>4. (x - (-1)) % m = IF -1 > version THEN version - (-1) + m
                         ELSE IF version - (-1) >= m THEN version - (-1) - m
                         ELSE version - (-1)
    BY <2>3, ModShift
  <2>5. y % m = IF y < m THEN y ELSE y - m
    BY <2>3, ModOnce
  <2>6. (x - (-1)) % m = y % m /\ x - (-1) = x + 1
    BY <2>3, <2>4, <2>5
  <2>7. version' = Len(log') % Modulus
    BY <2>1, <2>2, <2>6 DEF x, m, y
  <2>8. \A c \in Consumers : InReach(position'[c], Len(log'))
    BY <2>1, <2>2
  <2> QED BY <1>0, <1>i, <2>1, <2>2, <2>7, <2>8
<1>2. ASSUME NEW v \in ClearVersions, ClearAndSetVersion(v) PROVE Goal
  <2>1. Len(log') = v /\ Len(log) <= v
    BY <1>0, <1>2, ClearLog
  <2>2. /\ version' = v % Modulus /\ UNCHANGED <<consumerVersion, position, joined>>
        /\ \A c \in Consumers : InReach(position[c], v)
    BY <1>2 DEF ClearAndSetVersion, consumer
  <2>3. v \in Nat
    BY <1>0, ClearVersionType
  <2> QED BY <1>0, <1>i, <2>1, <2>2, <2>3
<1>3. ASSUME NEW c \in Consumers, AdvanceConsumer(c) PROVE Goal
  <2>1. position[c] <= Len(log)
    BY <1>3, AcceptsIffReadable DEF AdvanceConsumer, Readable
  <2>2. /\ consumerVersion' = [consumerVersion EXCEPT ![c] = version]
        /\ position' = [position EXCEPT ![c] = Len(log)]
        /\ UNCHANGED <<version, joined, log>>
    BY <1>3 DEF AdvanceConsumer, ring
  <2>3. InReach(Len(log), Len(log))
    BY <1>0 DEF InReach
  <2> QED BY <1>0, <1>i, <2>1, <2>2, <2>3
<1>4. ASSUME NEW c \in Consumers, NEW v \in 0..MaxVersion, SetVersion(c, v) PROVE Goal
  <2> DEFINE w == v % Modulus
  <2>2. /\ consumerVersion' = [consumerVersion EXCEPT ![c] = w]
        /\ position' = [position EXCEPT ![c] = v]
        /\ joined' = [joined EXCEPT ![c] = v]
        /\ UNCHANGED <<version, log>> /\ InReach(v, Len(log))
    BY <1>4 DEF SetVersion, ring
  <2>3. w = v % Modulus
    OBVIOUS
  <2> HIDE DEF w
  <2>4. VersionsAgree'
    BY <1>0, <1>i, <2>2, <2>3
  <2>5. PositionsReached'
    BY <1>0, <2>2
  <2> QED BY <2>4, <2>5
<1>5. CASE UNCHANGED <<version, consumerVersion, position, joined, log>>
  BY <1>0, <1>i, <1>5
<1> HIDE DEF Goal
<1> QED
  BY <1>1, <1>2, <1>3, <1>4, <1>5
  DEF Next, vars, ring, consumer, RefuseConsumer, Goal

LEMMA ConsumersStep ==
    Inv /\ [Next]_vars => ConsumersSeeTheLog'
<1> SUFFICES ASSUME Inv, [Next]_vars, NEW c \in Consumers
             PROVE  seen'[c] = SubSeq(log', joined'[c] + 1, position'[c])
  BY DEF ConsumersSeeTheLog
<1> DEFINE Goal == seen'[c] = SubSeq(log', joined'[c] + 1, position'[c])
<1>0. /\ TypeOK /\ log \in Seq(Entries) /\ Len(log) \in Nat
      /\ seen[c] = SubSeq(log, joined[c] + 1, position[c])
      /\ joined[c] \in Nat /\ position[c] \in Nat /\ joined[c] <= position[c]
      /\ position[c] <= Len(log) \/ position[c] = joined[c]
  BY Basics, RingAssumption DEF Inv, ConsumersSeeTheLog, PositionsReached
\* A longer log shows an unmoved consumer the same slice.
<1>1. ASSUME log' \in Seq(Entries), Len(log) <= Len(log'),
             \A i \in 1..Len(log) : log'[i] = log[i],
             UNCHANGED <<seen, joined, position>>
      PROVE  Goal
  <2>1. CASE position[c] <= Len(log)
    <3>0. joined[c] + 1 \in Nat \ {0} /\ position[c] \in 0..Len(log)
      BY <1>0, <2>1
    <3>1. SubSeq(log', joined[c] + 1, position[c]) = SubSeq(log, joined[c] + 1, position[c])
      BY <1>0, <1>1, <3>0, SliceOfPrefix
    <3> QED BY <1>0, <1>1, <3>1
  <2>2. CASE position[c] = joined[c]
    <3>1. position[c] < joined[c] + 1 /\ position[c] \in Int /\ joined[c] + 1 \in Int
      BY <1>0, <2>2
    <3>2. /\ SubSeq(log', joined[c] + 1, position[c]) = <<>>
          /\ SubSeq(log, joined[c] + 1, position[c]) = <<>>
      BY <3>1, SubSeqEmpty
    <3> QED BY <1>0, <1>1, <3>2
  <2> QED BY <1>0, <2>1, <2>2
<1>2. ASSUME NEW e \in Events, Push(e) PROVE Goal
  <2>1. UNCHANGED <<seen, joined, position>>
    BY <1>2 DEF Push, consumer
  <2>2. /\ log' \in Seq(Entries) /\ Len(log) <= Len(log')
        /\ \A i \in 1..Len(log) : log'[i] = log[i]
    BY <1>0, <1>2, PushLog
  <2> QED BY <1>1, <2>1, <2>2
<1>3. ASSUME NEW v \in ClearVersions, ClearAndSetVersion(v) PROVE Goal
  <2>1. UNCHANGED <<seen, joined, position>>
    BY <1>3 DEF ClearAndSetVersion, consumer
  <2>2. /\ log' \in Seq(Entries) /\ Len(log) <= Len(log')
        /\ \A i \in 1..Len(log) : log'[i] = log[i]
    BY <1>0, <1>3, ClearLog
  <2> QED BY <1>1, <2>1, <2>2
<1>4. ASSUME NEW d \in Consumers, AdvanceConsumer(d) PROVE Goal
  <2>1. /\ seen' = [seen EXCEPT ![d] = seen[d] \o ReadFrom(Slot(Missed(d)))]
        /\ position' = [position EXCEPT ![d] = Len(log)]
        /\ UNCHANGED <<log, joined>> /\ Accepts(d)
    BY <1>4 DEF AdvanceConsumer
  <2>2. /\ position \in [Consumers -> 0..MaxVersion]
        /\ seen \in [Consumers -> Seq(Events \cup {NoEvent})]
    BY <1>0 DEF TypeOK
  <2>3. CASE c = d
    <3>1. /\ position[c] \in 0..Len(log)
          /\ ReadFrom(Slot(Missed(c))) = SubSeq(log, position[c] + 1, Len(log))
      BY <2>1, <2>3, DeliveredSlice
    <3>2. /\ joined[c] + 1 \in 1..(Len(log) + 1)
          /\ position[c] \in ((joined[c] + 1) - 1)..Len(log)
          /\ Len(log) \in position[c]..Len(log)
      BY <1>0, <3>1
    <3>3. SubSeq(log, joined[c] + 1, position[c]) \o SubSeq(log, position[c] + 1, Len(log))
            = SubSeq(log, joined[c] + 1, Len(log))
      BY <1>0, <3>2, ConcatAdjacentSubSeq
    <3> QED BY <1>0, <2>1, <2>2, <2>3, <3>1, <3>3
  <2>4. CASE c # d
    BY <1>0, <2>1, <2>2, <2>4
  <2> QED BY <2>3, <2>4
<1>5. ASSUME NEW d \in Consumers, NEW v \in 0..MaxVersion, SetVersion(d, v) PROVE Goal
  <2>1. /\ seen' = [seen EXCEPT ![d] = <<>>]
        /\ position' = [position EXCEPT ![d] = v]
        /\ joined' = [joined EXCEPT ![d] = v] /\ UNCHANGED log
    BY <1>5 DEF SetVersion
  <2>2. /\ position \in [Consumers -> 0..MaxVersion] /\ joined \in [Consumers -> 0..MaxVersion]
        /\ seen \in [Consumers -> Seq(Events \cup {NoEvent})]
    BY <1>0 DEF TypeOK
  <2>3. CASE c = d
    <3>1. SubSeq(log, v + 1, v) = <<>>
      <4>1. v \in Int /\ v + 1 \in Int /\ v < v + 1
        BY RingAssumption
      <4> QED BY <4>1, SubSeqEmpty
    <3> QED BY <2>1, <2>2, <2>3, <3>1
  <2>4. CASE c # d
    BY <1>0, <2>1, <2>2, <2>4
  <2> QED BY <2>3, <2>4
<1>6. CASE UNCHANGED <<log, seen, joined, position>>
  BY <1>0, <1>6
<1> HIDE DEF Goal
<1> QED
  BY <1>2, <1>3, <1>4, <1>5, <1>6 DEF Next, vars, consumer, RefuseConsumer, Goal

-----------------------------------------------------------------------------
(***************************************************************************)
(* The theorems                                                            *)
(***************************************************************************)

LEMMA InvInit == Init => Inv
<1> SUFFICES ASSUME Init PROVE Inv
  OBVIOUS
<1> USE CapacityType, RingAssumption DEF Init
<1>1. \A S : <<>> \in Seq(S) /\ Len(<<>>) = 0
  BY EmptySeq
<1>2. TypeOK
  BY <1>1 DEF TypeOK
<1>3. VersionsAgree /\ PositionsReached
  BY <1>1 DEF VersionsAgree, PositionsReached, InReach
<1>4. Size = 0
  BY DEF Size
<1>5. SizeIsWindow
  BY <1>1, <1>4 DEF SizeIsWindow
<1>6. RingMirrorsLog
  BY <1>4 DEF RingMirrorsLog
<1>7. ConsumersSeeTheLog
  <2>1. SubSeq(<<>>, 0 + 1, 0) = <<>>
    BY SubSeqEmpty
  <2> QED BY <2>1 DEF ConsumersSeeTheLog
<1> QED BY <1>2, <1>3, <1>5, <1>6, <1>7 DEF Inv

LEMMA InvStep == Inv /\ [Next]_vars => Inv'
<1> SUFFICES ASSUME Inv, [Next]_vars PROVE Inv'
  OBVIOUS
<1>1. TypeOK'
  BY TypeStep
<1>2. VersionsAgree' /\ PositionsReached'
  BY VersionsStep
<1>3. SizeIsWindow' /\ RingMirrorsLog'
  BY WindowStep, RingStep DEF Inv
<1>4. ConsumersSeeTheLog'
  BY ConsumersStep
<1> QED BY <1>1, <1>2, <1>3, <1>4 DEF Inv

LEMMA InvHolds == Spec => []Inv
<1>1. Inv /\ [Next]_vars => Inv'
  BY InvStep
<1> QED BY <1>1, InvInit, PTL DEF Spec

\* The variables keep their types: no index leaves the ring.
THEOREM TypeCorrect == Spec => []TypeOK
<1>1. Inv => TypeOK
  BY DEF Inv
<1> QED BY <1>1, InvHolds, PTL

\* The ring holds the recent past at the slots a late consumer starts from.
THEOREM RingCorrect == Spec => []RingMirrorsLog
<1>1. Inv => RingMirrorsLog
  BY DEF Inv
<1> QED BY <1>1, InvHolds, PTL

\* A consumer is refused exactly when what it asks for is lost or still to come, or
\* the version number has come round and does not exceed the length of the snake yet.
THEOREM RefusalCorrect == Spec => []RefusesOnlyLostOrFuture
<1>1. Inv => RefusesOnlyLostOrFuture
  BY AcceptsIffReadable, Basics DEF RefusesOnlyLostOrFuture
<1> QED BY <1>1, InvHolds, PTL

\* Every consumer gets every change since it joined exactly once, in order.
THEOREM ConsumersCorrect == Spec => []ConsumersSeeTheLog
<1>1. Inv => ConsumersSeeTheLog
  BY DEF Inv
<1> QED BY <1>1, InvHolds, PTL

LEMMA LogStep == Inv /\ [Next]_vars => [Log!Next]_(Log!vars)
<1> SUFFICES ASSUME Inv, [Next]_vars PROVE [Log!Next]_(Log!vars)
  OBVIOUS
<1>1. ASSUME NEW e \in Events, Push(e) PROVE Log!Next
  <2>1. Log!Write(e)
    BY <1>1 DEF Push, consumer, Log!Write
  <2> QED BY <2>1 DEF Log!Next
<1>2. ASSUME NEW v \in ClearVersions, ClearAndSetVersion(v) PROVE Log!Next
  <2>1. Log!Reset(v) /\ v \in 0..MaxVersion
    BY <1>2, ClearVersionType DEF ClearAndSetVersion, consumer, Log!Reset
  <2> QED BY <2>1 DEF Log!Next
<1>3. ASSUME NEW c \in Consumers, AdvanceConsumer(c) PROVE Log!Next
  <2>1. Log!Readable(c)
    BY <1>3, AcceptsIffReadable DEF AdvanceConsumer, Readable, Log!Readable
  <2>2. ReadFrom(Slot(Missed(c))) = SubSeq(log, position[c] + 1, Len(log))
    BY <1>3, DeliveredSlice DEF AdvanceConsumer
  <2>3. Log!Read(c)
    BY <1>3, <2>1, <2>2 DEF AdvanceConsumer, Log!Read
  <2> QED BY <2>3 DEF Log!Next
<1>4. ASSUME NEW c \in Consumers, RefuseConsumer(c) PROVE Log!Next
  <2>1. ~Log!Readable(c) \/ Size > version
    BY <1>4, AcceptsIffReadable, Basics DEF RefuseConsumer, Readable, Log!Readable
  <2>2. Size > version => Len(log) % Modulus < Capacity - 1
    BY Basics DEF Inv, VersionsAgree
  <2>3. Log!Refuse(c)
    BY <1>4, <2>1, <2>2 DEF RefuseConsumer, Log!Refuse
  <2> QED BY <2>3 DEF Log!Next
<1>5. ASSUME NEW c \in Consumers, NEW v \in 0..MaxVersion, SetVersion(c, v) PROVE Log!Next
  <2>1. Log!Seek(c, v)
    BY <1>5 DEF SetVersion, Log!Seek
  <2> QED BY <2>1 DEF Log!Next
<1>6. CASE UNCHANGED vars
  BY <1>6 DEF vars, ring, consumer, Log!vars
<1> QED BY <1>1, <1>2, <1>3, <1>4, <1>5, <1>6 DEF Next

\* The ring implements the unbounded log with a window of Capacity - 1.
THEOREM Refinement == Spec => ImplementsEventLog
<1>1. Init => Log!Init
  BY DEF Init, Log!Init
<1>2. Inv /\ [Next]_vars => [Log!Next]_(Log!vars)
  BY LogStep
<1> QED BY <1>1, <1>2, InvHolds, PTL DEF Spec, ImplementsEventLog, Log!Spec
=============================================================================
