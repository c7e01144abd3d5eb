------------------------------ MODULE ConfigFile ------------------------------
(***************************************************************************)
(* ConfigInterface of src/util/ConfigUtil: configs that share one file,    *)
(* each used by threads that change it, write it and poll the file.  A     *)
(* config may live in another process: an editor of the file is a config   *)
(* that sets and writes.                                                   *)
(*                                                                         *)
(* getJson() and updateJson() are supplied by the subclass.  Those in the  *)
(* repository take _mutex, which readFileIfChanged() and writeFile()       *)
(* already hold; OverridesLock says whether the subclass does so.          *)
(*                                                                         *)
(* Every change of the file gets a modification time of its own.  A read   *)
(* that finds nothing to parse, as between open() and close() of a write,  *)
(* throws.  A shorter text written over a longer one by two writers at     *)
(* once still parses as the shorter: the parser of operator>> stops at the *)
(* end of the object.                                                      *)
(***************************************************************************)
EXTENDS Naturals

CONSTANTS
    Threads,
    Configs,
    ConfigOf,        \* ConfigOf[t]: the config that thread t uses
    Writers,         \* the threads that set and write
    Readers,         \* the threads that call readFileIfChanged()
    Values,          \* what a config can say
    InitialValue,
    Free,            \* no thread: a mutex that nobody holds
    OverridesLock,   \* the overrides of getJson() and updateJson() take _mutex
    MaxSets,         \* bound of the model: calls of setters and setFilename()
    MaxWrites        \* bound of the model: calls of writeFile(), and removals

ASSUME ConfigFileAssumption ==
    /\ ConfigOf \in [Threads -> Configs]
    /\ Writers \subseteq Threads /\ Readers \subseteq Threads
    /\ InitialValue \in Values /\ Free \notin Threads
    /\ OverridesLock \in BOOLEAN
    /\ MaxSets \in Nat /\ MaxWrites \in Nat

VARIABLES
    file,     \* whether it exists, its mtime (if so), the value in it and the
              \* stamp of that value: the mtime of the write it came from (0: none)
    named,    \* per config: whether _filePath is set
    value, version, lastFileWrite,
    mutex,    \* per config: the thread that holds _mutex, or Free
    pc,       \* per thread: where it is
    sample,   \* per thread: last_write in readFileIfChanged()
    parsed,   \* per thread: json_obj, with the stamp of what was read
    loaded,   \* history: stamp of the text a config last read or wrote
    overtaken,\* history: the config took for its own write a later change
    sets, writes

content == <<value, version>>
disk == <<file, writes>>
call == <<pc, sample, parsed>>
memory == <<lastFileWrite, loaded, overtaken>>
vars == <<content, disk, call, memory, named, mutex, sets>>

NoText == [stamp |-> 0, value |-> InitialValue]
mtime == file.mtime

Init ==
    /\ file = [exists |-> FALSE, mtime |-> 0, text |-> NoText]
    /\ named = [c \in Configs |-> FALSE]
    /\ value = [c \in Configs |-> InitialValue]
    /\ version = [c \in Configs |-> 0]
    /\ lastFileWrite = [c \in Configs |-> 0]
    /\ mutex = [c \in Configs |-> Free]
    /\ pc = [t \in Threads |-> "idle"]
    /\ sample = [t \in Threads |-> 0]
    /\ parsed = [t \in Threads |-> NoText]
    /\ loaded = [c \in Configs |-> 0]
    /\ overtaken = [c \in Configs |-> FALSE]
    /\ sets = 0 /\ writes = 0

Goes(t, from, to) == pc[t] = from /\ pc' = [pc EXCEPT ![t] = to]
Lock(t) ==
    /\ mutex[ConfigOf[t]] = Free
    /\ mutex' = [mutex EXCEPT ![ConfigOf[t]] = t]
Unlock(t) == mutex' = [mutex EXCEPT ![ConfigOf[t]] = Free]

\* The call returns: the lock is released and the locals are gone.
Return(t, from) ==
    /\ Goes(t, from, "idle")
    /\ sample' = [sample EXCEPT ![t] = 0]
    /\ parsed' = [parsed EXCEPT ![t] = NoText]
    /\ Unlock(t)

\* The override of getJson() or updateJson() proceeds: not when it takes the
\* mutex that its caller holds.
OverrideProceeds == ~OverridesLock

Assign(c, v) ==
    /\ value' = [value EXCEPT ![c] = v]
    /\ version' = [version EXCEPT ![c] = @ + 1]
-----------------------------------------------------------------------------
(***************************************************************************)
(* Changes from outside                                                    *)
(***************************************************************************)

Changes(t) ==
    /\ t \in Writers /\ pc[t] = "idle" /\ mutex[ConfigOf[t]] = Free
    /\ sets < MaxSets /\ sets' = sets + 1
    /\ UNCHANGED <<disk, call, memory, named, mutex>>

\* A setter bumps the version if the value differs ...
SetValue(t, v) == v # value[ConfigOf[t]] /\ Assign(ConfigOf[t], v) /\ Changes(t)

\* ... and updateJsonString() if the text has a known field.
UpdateJsonString(t, v) == Assign(ConfigOf[t], v) /\ Changes(t)

\* setFilename(), while no other thread uses the config: it takes no lock.
SetFilename(c) ==
    /\ \A t \in Threads : ConfigOf[t] = c => pc[t] = "idle"
    /\ sets < MaxSets /\ sets' = sets + 1
    /\ named' = [named EXCEPT ![c] = TRUE]
    /\ lastFileWrite' = [lastFileWrite EXCEPT ![c] = 0]
    /\ UNCHANGED <<content, disk, call, mutex, loaded, overtaken>>

\* Somebody removes the file, while nobody is writing it.
Remove ==
    /\ file.exists /\ \A t \in Threads : pc[t] # "write"
    /\ writes < MaxWrites /\ writes' = writes + 1
    /\ file' = [file EXCEPT !.exists = FALSE, !.text = NoText]
    /\ UNCHANGED <<content, call, memory, named, mutex, sets>>

-----------------------------------------------------------------------------
(***************************************************************************)
(* readFileIfChanged()                                                     *)
(***************************************************************************)

Unchanged(c) == ~named[c] \/ ~file.exists \/ mtime = lastFileWrite[c]

\* There is no path, no file (last_write_time() throws), or nothing new in it.
NothingToRead(t) ==
    /\ t \in Readers /\ pc[t] = "idle"
    /\ Unchanged(ConfigOf[t])
    /\ UNCHANGED vars

SampleTime(t) ==
    /\ t \in Readers /\ ~Unchanged(ConfigOf[t])
    /\ Goes(t, "idle", "lockToRead")
    /\ sample' = [sample EXCEPT ![t] = mtime]
    /\ UNCHANGED <<content, disk, memory, named, mutex, parsed, sets>>

LockToRead(t) ==
    /\ Goes(t, "lockToRead", "read")
    /\ Lock(t)
    /\ UNCHANGED <<content, disk, memory, named, sample, parsed, sets>>

\* Slip: the mutex is not released when the parser throws.
ThrowAndHold(t) == Goes(t, "read", "idle") /\ UNCHANGED <<mutex, sample, parsed>>
Throw(t) == Return(t, "read")

\* The file cannot be opened any more, or holds nothing that parses.
ReadFails(t) ==
    /\ ~file.exists \/ file.text.stamp = 0
    /\ Throw(t)
    /\ UNCHANGED <<content, disk, memory, named, sets>>

\* Slip: the mutex is released once the text is read.
LetGo(t) == Unlock(t)
HoldOn(t) == UNCHANGED mutex

Parse(t) ==
    /\ file.exists /\ file.text.stamp # 0
    /\ Goes(t, "read", "update")
    /\ parsed' = [parsed EXCEPT ![t] = file.text]
    /\ HoldOn(t)
    /\ UNCHANGED <<content, disk, memory, named, sample, sets>>

\* What is remembered; a slip: the time is sampled again after the read.
TimeNow(t) == mtime
TimeRead(t) == sample[t]

\* updateJson() bumps the version of every object that has a known field.
Update(t) ==
    LET c == ConfigOf[t] IN
    /\ OverrideProceeds
    /\ Return(t, "update")
    /\ Assign(c, parsed[t].value)
    /\ loaded' = [loaded EXCEPT ![c] = parsed[t].stamp]
    /\ lastFileWrite' = [lastFileWrite EXCEPT ![c] = TimeRead(t)]
    /\ overtaken' = [overtaken EXCEPT ![c] = FALSE]
    /\ UNCHANGED <<disk, named, sets>>

-----------------------------------------------------------------------------
(***************************************************************************)
(* writeFile()                                                             *)
(***************************************************************************)

\* There is no path.
NothingToWrite(t) ==
    /\ t \in Writers /\ pc[t] = "idle" /\ ~named[ConfigOf[t]]
    /\ UNCHANGED vars

LockToWrite(t) ==
    /\ t \in Writers /\ named[ConfigOf[t]]
    /\ writes < MaxWrites /\ writes' = writes + 1
    /\ Goes(t, "idle", "open")
    /\ Lock(t)
    /\ UNCHANGED <<content, file, memory, named, sample, parsed, sets>>

\* open() creates the file or cuts it to nothing.
OpenToWrite(t) ==
    /\ Goes(t, "open", "write")
    /\ file' = [exists |-> TRUE, mtime |-> mtime + 1, text |-> NoText]
    /\ UNCHANGED <<content, writes, memory, named, mutex, sample, parsed, sets>>

\* open() fails: the file is not writable.
OpenFails(t) == Return(t, "open") /\ UNCHANGED <<content, disk, memory, named, sets>>

\* getJsonString(), operator<< and close()
WriteAndClose(t) ==
    LET c == ConfigOf[t] IN
    /\ OverrideProceeds
    /\ Goes(t, "write", "remember")
    /\ file' = [exists |-> TRUE, mtime |-> mtime + 1,
                text |-> [stamp |-> mtime + 1, value |-> value[c]]]
    /\ loaded' = [loaded EXCEPT ![c] = mtime + 1]
    /\ UNCHANGED <<content, writes, lastFileWrite, overtaken, named, mutex, sample,
                   parsed, sets>>

\* The modification time is that of the file as it is now.
RememberTime(t) ==
    LET c == ConfigOf[t] IN
    /\ file.exists
    /\ Return(t, "remember")
    /\ lastFileWrite' = [lastFileWrite EXCEPT ![c] = mtime]
    /\ overtaken' = [overtaken EXCEPT ![c] = file.text.stamp # loaded[c]]
    /\ UNCHANGED <<content, disk, loaded, named, sets>>

\* last_write_time() throws.
RememberFails(t) ==
    /\ ~file.exists
    /\ Return(t, "remember")
    /\ UNCHANGED <<content, disk, memory, named, sets>>

-----------------------------------------------------------------------------
ReadStep(t) ==
    \/ NothingToRead(t) \/ SampleTime(t) \/ LockToRead(t)
    \/ ReadFails(t) \/ Parse(t) \/ Update(t)

WriteStep(t) ==
    \/ OpenToWrite(t) \/ OpenFails(t) \/ WriteAndClose(t)
    \/ RememberTime(t) \/ RememberFails(t)

Next ==
    \/ \E t \in Threads :
        \/ ReadStep(t)
        \/ WriteStep(t) \/ LockToWrite(t) \/ NothingToWrite(t)
        \/ \E v \in Values : SetValue(t, v) \/ UpdateJsonString(t, v)
    \/ \E c \in Configs : SetFilename(c)
    \/ Remove

Spec == Init /\ [][Next]_vars

\* Readers keep polling, and a call that has begun goes on.
FairSpec ==
    /\ Spec
    /\ \A t \in Threads : WF_vars(ReadStep(t)) /\ WF_vars(WriteStep(t))
-----------------------------------------------------------------------------
Text == [stamp : Nat, value : Values]
Inside == {"read", "update", "open", "write", "remember"}

TypeOK ==
    /\ file \in [exists : BOOLEAN, mtime : Nat, text : Text]
    /\ named \in [Configs -> BOOLEAN] /\ overtaken \in [Configs -> BOOLEAN]
    /\ value \in [Configs -> Values] /\ version \in [Configs -> Nat]
    /\ lastFileWrite \in [Configs -> Nat] /\ loaded \in [Configs -> Nat]
    /\ mutex \in [Configs -> Threads \cup {Free}]
    /\ pc \in [Threads -> Inside \cup {"idle", "lockToRead"}]
    /\ sample \in [Threads -> Nat] /\ parsed \in [Threads -> Text]
    /\ sets \in 0..MaxSets /\ writes \in 0..MaxWrites
    /\ \A t \in Threads : pc[t] \in Inside <=> mutex[ConfigOf[t]] = t

\* A config that takes itself to be up to date with the file is: the text it last
\* read or wrote is the one in the file, whatever was written while it read.  The
\* one exception is a change by another between its own close() and the sampling
\* of the time in writeFile(), which it takes for its own until the next change.
ConfigHasSeenFile ==
    \A c \in Configs :
        (mutex[c] = Free /\ file.exists /\ lastFileWrite[c] = mtime /\ ~overtaken[c])
            => loaded[c] = file.text.stamp

\* Two threads may poll for the same config and a third write it: the config
\* never goes back to a text older than the one it holds.
NeverAnOlderText == [][\A c \in Configs : loaded'[c] >= loaded[c]]_loaded

\* When writing ends, every config that is polled comes to hold what is in the
\* file, unless the last write failed half way or the config took it for its own.
ConfigsCatchUp ==
    \A t \in Readers :
        LET c == ConfigOf[t] IN
            <>[](named[c] /\ file.exists /\ file.text.stamp # 0 /\ ~overtaken[c]
                    => loaded[c] = file.text.stamp)

\* "bool success = config_A.writeFile(); EXPECT_TRUE(success)": a write returns.
WriteReturns == \A t \in Writers : pc[t] = "write" ~> pc[t] = "idle"
=============================================================================
