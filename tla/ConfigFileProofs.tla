--------------------------- MODULE ConfigFileProofs ---------------------------
(***************************************************************************)
(* Proofs about ConfigFile, for any number of configs, threads and writes, *)
(* with overrides that take the mutex or do not.                           *)
(***************************************************************************)
EXTENDS ConfigFile, TLAPS

LEMMA TypeStep == TypeOK /\ [Next]_vars => TypeOK'
<1>1. SUFFICES ASSUME TypeOK, [Next]_vars PROVE TypeOK'
    OBVIOUS
<1> USE ConfigFileAssumption DEF content, disk, call, memory, mtime, NoText, Text, Inside
<1>2. ASSUME NEW t \in Threads, NEW v \in Values, SetValue(t, v) \/ UpdateJsonString(t, v)
      PROVE  TypeOK'
    <2>1. Assign(ConfigOf[t], v) /\ Changes(t)
        BY <1>2 DEF SetValue, UpdateJsonString
    <2>2. value' \in [Configs -> Values] /\ version' \in [Configs -> Nat]
        BY <1>1, <2>1 DEF TypeOK, Assign
    <2>3. sets' \in 0..MaxSets
        BY <1>1, <2>1 DEF TypeOK, Changes
    <2> QED BY <1>1, <2>1, <2>2, <2>3 DEF TypeOK, Changes
<1>3. ASSUME NEW c \in Configs, SetFilename(c) PROVE TypeOK'
    BY <1>1, <1>3 DEF TypeOK, SetFilename
<1>4. CASE Remove
    <2>1. file' \in [exists : BOOLEAN, mtime : Nat, text : Text]
        BY <1>1, <1>4 DEF TypeOK, Remove
    <2>2. writes' \in 0..MaxWrites
        BY <1>1, <1>4 DEF TypeOK, Remove
    <2> QED BY <1>1, <1>4, <2>1, <2>2 DEF TypeOK, Remove
<1>5. ASSUME NEW t \in Threads, ReadStep(t) PROVE TypeOK'
    <2>1. CASE NothingToRead(t)
        BY <1>1, <2>1 DEF TypeOK, NothingToRead, vars
    <2>2. CASE SampleTime(t)
        BY <1>1, <2>2 DEF TypeOK, SampleTime, Goes
    <2>3. CASE LockToRead(t)
        BY <1>1, <2>3 DEF TypeOK, LockToRead, Goes, Lock
    <2>4. CASE ReadFails(t)
        BY <1>1, <2>4 DEF TypeOK, ReadFails, Throw, Return, Goes, Unlock
    <2>5. CASE Parse(t)
        BY <1>1, <2>5 DEF TypeOK, Parse, Goes, HoldOn
    <2>6. CASE Update(t)
        BY <1>1, <2>6 DEF TypeOK, Update, Return, Goes, Unlock, Assign, TimeRead
    <2> QED BY <1>5, <2>1, <2>2, <2>3, <2>4, <2>5, <2>6 DEF ReadStep
<1>6. ASSUME NEW t \in Threads, WriteStep(t) \/ LockToWrite(t) \/ NothingToWrite(t)
      PROVE  TypeOK'
    <2>1. CASE NothingToWrite(t)
        BY <1>1, <2>1 DEF TypeOK, NothingToWrite, vars
    <2>2. CASE LockToWrite(t)
        BY <1>1, <2>2 DEF TypeOK, LockToWrite, Goes, Lock
    <2>3. CASE OpenToWrite(t)
        BY <1>1, <2>3 DEF TypeOK, OpenToWrite, Goes
    <2>4. CASE OpenFails(t)
        BY <1>1, <2>4 DEF TypeOK, OpenFails, Return, Goes, Unlock
    <2>5. CASE WriteAndClose(t)
        BY <1>1, <2>5 DEF TypeOK, WriteAndClose, Goes
    <2>6. CASE RememberTime(t)
        BY <1>1, <2>6 DEF TypeOK, RememberTime, Return, Goes, Unlock
    <2>7. CASE RememberFails(t)
        BY <1>1, <2>7 DEF TypeOK, RememberFails, Return, Goes, Unlock
    <2> QED BY <1>6, <2>1, <2>2, <2>3, <2>4, <2>5, <2>6, <2>7 DEF WriteStep
<1>7. CASE UNCHANGED vars
    BY <1>1, <1>7 DEF TypeOK, vars
<1> QED BY <1>1, <1>2, <1>3, <1>4, <1>5, <1>6, <1>7 DEF Next

\* TypeOK is an invariant: a thread holds the mutex of its config exactly while it
\* is between taking and releasing it, exceptions included.
THEOREM TypeCorrect == Spec => []TypeOK
<1>1. Init => TypeOK
    BY ConfigFileAssumption DEF Init, TypeOK, NoText, Text, Inside
<1> QED BY <1>1, TypeStep, PTL DEF Spec

-----------------------------------------------------------------------------
(***************************************************************************)
(* What is remembered is never newer than what was read.                   *)
(***************************************************************************)
Stamp == file.text.stamp

\* Modification times that were sampled lie in the past, and so do the writes whose
\* texts were read.
TimesArePast ==
    /\ \A c \in Configs : lastFileWrite[c] <= mtime /\ loaded[c] <= mtime
    /\ \A t \in Threads : sample[t] <= mtime /\ parsed[t].stamp <= mtime
    /\ Stamp <= mtime
    /\ file.exists => mtime > 0

\* A text in the file is the newest of all.
FileIsNewest ==
    Stamp # 0 =>
        /\ \A c \in Configs : loaded[c] <= Stamp
        /\ \A t \in Threads : parsed[t].stamp <= Stamp

\* A thread that is about to apply what it parsed holds the mutex: its config has
\* nothing newer, ...
ReadsForward ==
    \A t \in Threads : pc[t] = "update" => loaded[ConfigOf[t]] <= parsed[t].stamp

\* ... and if the file has not changed since it sampled the time, it has the text.
ReadsWhatIsThere ==
    \A t \in Threads :
        pc[t] = "update" /\ file.exists /\ sample[t] = mtime => parsed[t].stamp = Stamp

\* ConfigHasSeenFile, which does not depend on the mutex.
SeenFile ==
    \A c \in Configs :
        file.exists /\ lastFileWrite[c] = mtime /\ ~overtaken[c] => loaded[c] = Stamp

Inv == TypeOK /\ TimesArePast /\ FileIsNewest /\ ReadsForward /\ ReadsWhatIsThere /\ SeenFile

\* Steps that change neither the file nor what is remembered of it.
LEMMA QuietSteps ==
    ASSUME Inv, TypeOK',
           UNCHANGED <<file, lastFileWrite, loaded, overtaken>>,
           \A t \in Threads :
               /\ pc'[t] = "update" => pc[t] = "update" /\ sample'[t] = sample[t]
                                       /\ parsed'[t] = parsed[t]
               /\ sample'[t] \in {sample[t], 0, mtime}
               /\ parsed'[t] \in {parsed[t], NoText}
    PROVE  Inv'
<1> USE DEF Inv
<1>1. /\ mtime \in Nat /\ mtime' = mtime /\ Stamp' = Stamp /\ Stamp \in Nat
      /\ UNCHANGED <<file, lastFileWrite, loaded, overtaken>>
      /\ \A t \in Threads : /\ parsed'[t].stamp \in {parsed[t].stamp, 0}
                            /\ sample'[t] \in {sample[t], 0, mtime}
    BY DEF Stamp, NoText, TypeOK, Text, mtime
<1>2. TimesArePast'
    BY <1>1 DEF TimesArePast
<1>3. FileIsNewest'
    BY <1>1 DEF FileIsNewest
<1>4. ReadsForward' /\ ReadsWhatIsThere' /\ SeenFile'
    BY <1>1 DEF ReadsForward, ReadsWhatIsThere, SeenFile
<1> QED BY <1>2, <1>3, <1>4

\* The file changes at a time of its own.
LEMMA WriteSteps ==
    ASSUME Inv, TypeOK', NEW t \in Threads, OpenToWrite(t) \/ WriteAndClose(t)
    PROVE  Inv'
<1> USE ConfigFileAssumption DEF Inv, TypeOK, Text, mtime
<1> DEFINE c == ConfigOf[t]
<1>1. /\ mtime \in Nat /\ mtime' = mtime + 1 /\ Stamp \in Nat /\ Stamp' \in {0, mtime + 1}
      /\ file'.exists
      /\ UNCHANGED <<lastFileWrite, overtaken, sample, parsed>>
      /\ \A u \in Threads : parsed[u].stamp \in Nat /\ sample[u] \in Nat
      /\ \A d \in Configs : loaded[d] \in Nat /\ lastFileWrite[d] \in Nat
    BY DEF Stamp, NoText, OpenToWrite, WriteAndClose, memory
<1>2. /\ \A d \in Configs : loaded'[d] = loaded[d] \/ (d = c /\ loaded'[d] = mtime + 1)
      /\ Stamp' = 0 => loaded' = loaded
      /\ \A u \in Threads : pc'[u] = "update" => pc[u] = "update" /\ u # t
    BY DEF Stamp, NoText, OpenToWrite, WriteAndClose, memory, Goes
<1>3. mutex[c] = t
    BY DEF OpenToWrite, WriteAndClose, Goes, Inside
<1>4. \A u \in Threads : pc[u] = "update" => mutex[ConfigOf[u]] = u
    BY DEF Inside
<1> HIDE DEF TypeOK, mtime
<1>5. TimesArePast'
    BY <1>1, <1>2 DEF TimesArePast
<1>6. FileIsNewest'
    BY <1>1, <1>2 DEF FileIsNewest, TimesArePast
<1>7. ReadsForward'
    BY <1>1, <1>2, <1>3, <1>4 DEF ReadsForward
<1>8. ReadsWhatIsThere' /\ SeenFile'
    BY <1>1, <1>2 DEF ReadsWhatIsThere, SeenFile, TimesArePast
<1> QED BY <1>5, <1>6, <1>7, <1>8

LEMMA InvStep == ASSUME Inv, [Next]_vars, TypeOK' PROVE Inv'
<1> USE ConfigFileAssumption
<1>1. ASSUME NEW t \in Threads, NEW v \in Values, SetValue(t, v) \/ UpdateJsonString(t, v)
      PROVE  Inv'
    <2>1. UNCHANGED <<file, lastFileWrite, loaded, overtaken, pc, sample, parsed>>
        BY <1>1 DEF SetValue, UpdateJsonString, Changes, disk, call, memory
    <2> QED BY <2>1, QuietSteps
<1>2. ASSUME NEW c \in Configs, SetFilename(c) PROVE Inv'
    <2>1. /\ UNCHANGED <<file, loaded, overtaken, pc, sample, parsed>>
          /\ \A d \in Configs : lastFileWrite'[d] = lastFileWrite[d] \/ lastFileWrite'[d] = 0
          /\ mtime \in Nat
        BY <1>2 DEF SetFilename, disk, call, Inv, TypeOK, mtime
    <2> QED BY <2>1 DEF Inv, TimesArePast, FileIsNewest, ReadsForward, ReadsWhatIsThere,
                        SeenFile, Stamp, mtime
<1>3. CASE Remove
    <2>1. /\ UNCHANGED <<lastFileWrite, loaded, overtaken, pc, sample, parsed>>
          /\ ~file'.exists /\ mtime' = mtime /\ mtime \in Nat /\ Stamp' = 0
        BY <1>3 DEF Remove, memory, call, Inv, TypeOK, mtime, Stamp, NoText
    <2> QED BY <2>1 DEF Inv, TimesArePast, FileIsNewest, ReadsForward, ReadsWhatIsThere,
                        SeenFile
<1>4. ASSUME NEW t \in Threads, ReadStep(t) PROVE Inv'
    <2>1. CASE NothingToRead(t)
        BY <2>1, QuietSteps DEF NothingToRead, vars, disk, call, memory
    <2>2. CASE SampleTime(t)
        <3>1. /\ UNCHANGED <<file, lastFileWrite, loaded, overtaken, parsed>>
              /\ pc[t] = "idle" /\ pc'[t] = "lockToRead" /\ sample'[t] = mtime
              /\ \A u \in Threads \ {t} : pc'[u] = pc[u] /\ sample'[u] = sample[u]
            BY <2>2 DEF SampleTime, Goes, disk, memory, Inv, TypeOK
        <3> QED BY <3>1, QuietSteps
    <2>3. CASE LockToRead(t)
        <3>1. /\ UNCHANGED <<file, lastFileWrite, loaded, overtaken, parsed, sample>>
              /\ pc'[t] = "read" /\ \A u \in Threads \ {t} : pc'[u] = pc[u]
            BY <2>3 DEF LockToRead, Goes, disk, memory, Inv, TypeOK
        <3> QED BY <3>1, QuietSteps
    <2>4. CASE ReadFails(t)
        <3>1. /\ UNCHANGED <<file, lastFileWrite, loaded, overtaken>> /\ Return(t, "read")
            BY <2>4 DEF ReadFails, Throw, disk, memory
        <3> QED BY <3>1, QuietSteps DEF Return, Goes, Inv, TypeOK
    <2>5. CASE Parse(t)
        <3>1. /\ UNCHANGED <<file, lastFileWrite, loaded, overtaken, sample>>
              /\ parsed'[t].stamp = Stamp /\ Stamp # 0 /\ Stamp \in Nat
              /\ \A u \in Threads \ {t} : pc'[u] = pc[u] /\ parsed'[u] = parsed[u]
              /\ mtime' = mtime /\ Stamp' = Stamp
            BY <2>5 DEF Parse, Goes, disk, memory, Inv, TypeOK, Text, Stamp, mtime
        <3> QED BY <3>1 DEF Inv, TimesArePast, FileIsNewest, ReadsForward,
                            ReadsWhatIsThere, SeenFile
    <2>6. CASE Update(t)
        <3> DEFINE c == ConfigOf[t]
        <3>1. /\ UNCHANGED file /\ mtime' = mtime /\ Stamp' = Stamp /\ Stamp \in Nat
              /\ loaded'[c] = parsed[t].stamp /\ lastFileWrite'[c] = sample[t]
              /\ \A d \in Configs \ {c} : /\ loaded'[d] = loaded[d]
                                          /\ lastFileWrite'[d] = lastFileWrite[d]
                                          /\ overtaken'[d] = overtaken[d]
            BY <2>6 DEF Update, disk, Inv, TypeOK, Text, Stamp, mtime, TimeRead
        <3>2. /\ pc[t] = "update" /\ pc'[t] = "idle" /\ sample'[t] = 0 /\ parsed'[t].stamp = 0
              /\ \A u \in Threads \ {t} : /\ pc'[u] = pc[u] /\ sample'[u] = sample[u]
                                          /\ parsed'[u] = parsed[u]
            BY <2>6 DEF Update, Return, Goes, Inv, TypeOK, NoText
        <3>3. \A u \in Threads \ {t} : pc[u] = "update" => ConfigOf[u] # c
            BY <3>2 DEF Inv, TypeOK, Inside
        <3>4. mtime \in Nat /\ \A u \in Threads : parsed[u].stamp \in Nat /\ sample[u] \in Nat
            BY DEF Inv, TypeOK, Text, mtime
        <3>5. TimesArePast'
            BY <3>1, <3>2, <3>4 DEF Inv, TimesArePast
        <3>6. FileIsNewest'
            BY <3>1, <3>2, <3>4 DEF Inv, FileIsNewest
        <3>7. ReadsForward' /\ ReadsWhatIsThere'
            BY <3>1, <3>2, <3>3 DEF Inv, ReadsForward, ReadsWhatIsThere
        <3>8. SeenFile'
            BY <3>1, <3>2 DEF Inv, SeenFile, ReadsWhatIsThere
        <3> QED BY <3>5, <3>6, <3>7, <3>8 DEF Inv
    <2> QED BY <1>4, <2>1, <2>2, <2>3, <2>4, <2>5, <2>6 DEF ReadStep
<1>5. ASSUME NEW t \in Threads, WriteStep(t) \/ LockToWrite(t) \/ NothingToWrite(t)
      PROVE  Inv'
    <2>1. CASE NothingToWrite(t)
        BY <2>1, QuietSteps DEF NothingToWrite, vars, disk, call, memory
    <2>2. CASE LockToWrite(t)
        <3>1. /\ UNCHANGED <<file, lastFileWrite, loaded, overtaken, parsed, sample>>
              /\ pc'[t] = "open" /\ \A u \in Threads \ {t} : pc'[u] = pc[u]
            BY <2>2 DEF LockToWrite, Goes, memory, Inv, TypeOK
        <3> QED BY <3>1, QuietSteps
    <2>3. CASE OpenToWrite(t) \/ WriteAndClose(t)
        BY <2>3, WriteSteps
    <2>4. CASE OpenFails(t) \/ RememberFails(t)
        <3>1. /\ UNCHANGED <<file, lastFileWrite, loaded, overtaken>>
              /\ Return(t, "open") \/ Return(t, "remember")
            BY <2>4 DEF OpenFails, RememberFails, disk, memory
        <3> QED BY <3>1, QuietSteps DEF Return, Goes, Inv, TypeOK
    <2>5. CASE RememberTime(t)
        <3> DEFINE c == ConfigOf[t]
        <3>1. /\ UNCHANGED <<file, loaded>> /\ mtime' = mtime /\ Stamp' = Stamp
              /\ lastFileWrite'[c] = mtime /\ overtaken'[c] = (Stamp # loaded[c])
              /\ \A d \in Configs \ {c} : /\ lastFileWrite'[d] = lastFileWrite[d]
                                          /\ overtaken'[d] = overtaken[d]
            BY <2>5 DEF RememberTime, disk, Inv, TypeOK, Stamp, mtime
        <3>2. /\ pc'[t] = "idle" /\ sample'[t] = 0 /\ parsed'[t].stamp = 0
              /\ \A u \in Threads \ {t} : /\ pc'[u] = pc[u] /\ sample'[u] = sample[u]
                                          /\ parsed'[u] = parsed[u]
            BY <2>5 DEF RememberTime, Return, Goes, Inv, TypeOK, NoText
        <3>3. mtime \in Nat /\ Stamp \in Nat
            BY DEF Inv, TypeOK, Text, mtime, Stamp
        <3>4. TimesArePast' /\ FileIsNewest'
            BY <3>1, <3>2, <3>3 DEF Inv, TimesArePast, FileIsNewest
        <3>5. ReadsForward' /\ ReadsWhatIsThere'
            BY <3>1, <3>2 DEF Inv, ReadsForward, ReadsWhatIsThere
        <3>6. ASSUME NEW d \in Configs, file'.exists, lastFileWrite'[d] = mtime', ~overtaken'[d]
              PROVE  loaded'[d] = Stamp'
            <4>1. CASE d = c
                BY <3>1, <3>6, <4>1
            <4>2. CASE d # c
                BY <3>1, <3>6, <4>2 DEF Inv, SeenFile
            <4> QED BY <4>1, <4>2
        <3> QED BY <3>4, <3>5, <3>6 DEF Inv, SeenFile
    <2> QED BY <1>5, <2>1, <2>2, <2>3, <2>4, <2>5 DEF WriteStep
<1>6. CASE UNCHANGED vars
    BY <1>6, QuietSteps DEF vars, disk, call, memory
<1> QED BY <1>1, <1>2, <1>3, <1>4, <1>5, <1>6 DEF Next

LEMMA InvHolds == Spec => []Inv
<1>1. Init => TypeOK
    BY ConfigFileAssumption DEF Init, TypeOK, NoText, Text, Inside
<1>2. Init => Inv
    BY <1>1, ConfigFileAssumption DEF Init, Inv, TimesArePast, FileIsNewest, ReadsForward,
       ReadsWhatIsThere, SeenFile, NoText, Stamp, mtime
<1>3. TypeOK /\ TypeOK' /\ Inv /\ [Next]_vars => Inv'
    BY InvStep
<1> QED BY <1>2, <1>3, TypeCorrect, PTL DEF Spec

\* A config that takes itself to be up to date with the file is, whatever fell
\* between the sampling of the time, the lock, the parse and the update.
THEOREM SeenCorrect == Spec => []ConfigHasSeenFile
<1>1. Inv => ConfigHasSeenFile
    BY DEF Inv, SeenFile, ConfigHasSeenFile, Stamp
<1> QED BY <1>1, InvHolds, PTL

\* No config ever goes back to an older text.
THEOREM NeverOlder == Spec => NeverAnOlderText
<1>1. Inv /\ [Next]_vars => [\A c \in Configs : loaded'[c] >= loaded[c]]_loaded
    <2>1. SUFFICES ASSUME Inv, [Next]_vars, loaded' # loaded, NEW c \in Configs
                   PROVE  loaded'[c] >= loaded[c]
        OBVIOUS
    <2>2. PICK t \in Threads : Update(t) \/ WriteAndClose(t)
        BY <2>1 DEF Next, ReadStep, WriteStep, vars, memory, SetValue, UpdateJsonString,
                    Changes, SetFilename, Remove, NothingToRead, SampleTime, LockToRead,
                    ReadFails, Parse, NothingToWrite, LockToWrite, OpenToWrite, OpenFails,
                    RememberTime, RememberFails
    <2>3. /\ loaded[c] \in Nat /\ loaded[c] <= mtime /\ mtime \in Nat
          /\ parsed[t].stamp \in Nat
        BY <2>1 DEF Inv, TypeOK, Text, TimesArePast, mtime
    <2>4. CASE Update(t)
        <3>1. loaded'[c] = IF c = ConfigOf[t] THEN parsed[t].stamp ELSE loaded[c]
            BY <2>1, <2>4 DEF Update, Inv, TypeOK
        <3>2. loaded[ConfigOf[t]] <= parsed[t].stamp
            BY <2>1, <2>4 DEF Update, Return, Goes, Inv, ReadsForward
        <3> QED BY <2>3, <3>1, <3>2
    <2>5. CASE WriteAndClose(t)
        <3>1. loaded'[c] = IF c = ConfigOf[t] THEN mtime + 1 ELSE loaded[c]
            BY <2>1, <2>5 DEF WriteAndClose, Inv, TypeOK
        <3> QED BY <2>3, <3>1
    <2> QED BY <2>2, <2>4, <2>5
<1> QED BY <1>1, InvHolds, PTL DEF Spec, NeverAnOlderText

-----------------------------------------------------------------------------
(***************************************************************************)
(* Overrides that take the mutex their caller holds                        *)
(***************************************************************************)

\* Nothing is ever written, and no config gets a text out of the file: threads do not
\* get beyond getJson().
NothingIsWritten ==
    /\ Stamp = 0 /\ \A c \in Configs : loaded[c] = 0
    /\ \A t \in Threads : pc[t] \notin {"update", "remember"}

\* A thread that has opened the file to write it stays where it is, with the mutex
\* of its config.
WritersHang ==
    [][\A t \in Threads : pc[t] = "write" => pc'[t] = "write" /\ mutex'[ConfigOf[t]] = t]_vars

\* With overrides like those of the repository writeFile() never writes a text,
\* whichever configs share the file: it is cut to nothing at most.
THEOREM OverridesWriteNothing == ASSUME OverridesLock PROVE Spec => []NothingIsWritten
<1> USE DEF NothingIsWritten, Stamp
<1>1. Init => NothingIsWritten
    BY DEF Init, NoText
<1>2. ASSUME TypeOK, NothingIsWritten, [Next]_vars, OverridesLock PROVE NothingIsWritten'
    <2> USE <1>2
    <2>1. ASSUME NEW t \in Threads, NEW v \in Values, SetValue(t, v) \/ UpdateJsonString(t, v)
          PROVE  NothingIsWritten'
        BY <2>1 DEF SetValue, UpdateJsonString, Changes, disk, call, memory
    <2>2. ASSUME NEW c \in Configs, SetFilename(c) PROVE NothingIsWritten'
        BY <2>2 DEF SetFilename, disk, call
    <2>3. CASE Remove
        BY <2>3 DEF Remove, call, memory, NoText, TypeOK
    <2>4. ASSUME NEW t \in Threads, ReadStep(t) PROVE NothingIsWritten'
        <3>1. ~Parse(t) /\ ~Update(t)
            BY DEF Parse, Update, OverrideProceeds
        <3> QED BY <2>4, <3>1 DEF ReadStep, NothingToRead, SampleTime, LockToRead, ReadFails,
                   Throw, Return, Goes, vars, disk, call, memory, TypeOK
    <2>5. ASSUME NEW t \in Threads, WriteStep(t) \/ LockToWrite(t) \/ NothingToWrite(t)
          PROVE  NothingIsWritten'
        <3>1. ~WriteAndClose(t) /\ ~RememberTime(t) /\ ~RememberFails(t)
            BY DEF WriteAndClose, RememberTime, RememberFails, Return, Goes, OverrideProceeds
        <3>2. CASE OpenToWrite(t)
            BY <3>2 DEF OpenToWrite, Goes, NoText, memory, TypeOK
        <3> QED BY <2>5, <3>1, <3>2 DEF WriteStep, LockToWrite, NothingToWrite, OpenFails,
                   Return, Goes, vars, disk, call, memory, TypeOK
    <2>6. CASE UNCHANGED vars
        BY <2>6 DEF vars, disk, call, memory
    <2> QED BY <2>1, <2>2, <2>3, <2>4, <2>5, <2>6 DEF Next
<1> QED BY <1>1, <1>2, TypeCorrect, PTL DEF Spec

\* The hang is for good, and takes along every thread that needs the mutex.
THEOREM OverridesHang == ASSUME OverridesLock PROVE Spec => WritersHang
<1>1. ASSUME TypeOK, TypeOK', [Next]_vars, OverridesLock, NEW t \in Threads, pc[t] = "write"
      PROVE  pc'[t] = "write" /\ mutex'[ConfigOf[t]] = t
    <2>1. pc'[t] = "write"
        <3> USE <1>1
        <3>1. CASE \E u \in Threads : ReadStep(u) \/ WriteStep(u) \/ LockToWrite(u) \/ NothingToWrite(u)
            <4>1. PICK u \in Threads : ReadStep(u) \/ WriteStep(u) \/ LockToWrite(u) \/ NothingToWrite(u)
                BY <3>1
            <4>2. ~WriteAndClose(u)
                BY DEF WriteAndClose, OverrideProceeds
            <4> QED BY <4>1, <4>2 DEF ReadStep, WriteStep, NothingToRead, SampleTime, LockToRead,
                       ReadFails, Throw, Parse, Update, Return, Goes, LockToWrite, NothingToWrite,
                       OpenToWrite, OpenFails, RememberTime, RememberFails, vars, call, TypeOK
        <3>2. CASE UNCHANGED pc
            BY <3>2
        <3> QED BY <3>1, <3>2 DEF Next, SetValue, UpdateJsonString, Changes, SetFilename, Remove,
                   vars, call
    <2> QED BY <1>1, <2>1 DEF TypeOK, Inside
<1>2. ASSUME TypeOK, TypeOK', [Next]_vars, OverridesLock
      PROVE  [\A t \in Threads : pc[t] = "write" => pc'[t] = "write" /\ mutex'[ConfigOf[t]] = t]_vars
    BY <1>1, <1>2
<1> QED BY <1>2, TypeCorrect, PTL DEF Spec, WritersHang
=============================================================================
