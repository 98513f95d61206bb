----------------------------- MODULE SettingsStore -----------------------------
(***************************************************************************)
(* The server's settings file store (src/server/settings/store.ts) and the *)
(* routes that call it (src/server/routes/settings.ts).                    *)
(*                                                                         *)
(* Writes run one at a time on a promise chain: the step applies the write *)
(* to the in-memory settings, makes the directory, writes <file>.tmp,      *)
(* renames it over <file>, and on any failure restores the memory.  Every  *)
(* await is a step of its own here, so a crash can fall between any two.   *)
(* calls is the chain: call chainDone + 1 is the one running when phase is *)
(* not "idle", the later ones are queued behind it.                        *)
(***************************************************************************)
EXTENDS Naturals, Sequences, SettingsValues

CONSTANTS
    Unknowns,   \* the top-level keys of a file that the schema does not know
    NoUnknown,  \* the file has none
    Defaults,   \* SettingsSchema.parse({})
    Missing,    \* there is no such file
    Corrupt,    \* unparseable or half-written content
    MaxCalls,   \* bound: write calls in a behaviour
    MaxCrashes, \* bound: crashes of the process
    MaxEdits    \* bound: edits of the file by hand

Contents == [settings : Settings, unknown : Unknowns]

ASSUME StoreAssumption ==
    /\ Defaults \in Settings
    /\ NoUnknown \in Unknowns
    /\ Missing \notin Contents
    /\ Corrupt \notin Contents \cup Settings
    /\ Missing # Corrupt
    /\ MaxCalls \in Nat /\ MaxCrashes \in Nat /\ MaxEdits \in Nat

VARIABLES
    file,       \* what is on disk at filePath
    tmp,        \* what is on disk at tmpPath
    settings,   \* this.settings
    unknown,    \* this.unknownTopLevelKeys
    access,     \* "refused" when this.writesRefusedReason # null, else "writable"
    previous,   \* the running step's captured settings
    calls,      \* the writes called so far, in call order
    outcome,    \* what became of each
    chainDone,  \* how many of them the chain has settled
    phase,      \* where the running step is, or "idle", or "down"
    crashes,    \* crashes so far
    edits       \* edits by hand so far

memory == <<settings, unknown, access>>
disk == <<file, tmp>>
queue == <<calls, outcome, chainDone>>
counters == <<crashes, edits>>
vars == <<file, tmp, settings, unknown, access, previous, calls, outcome, chainDone,
          phase, crashes, edits>>

Files == Contents \cup {Missing, Corrupt}

Phases == {"down", "idle", "mkdir", "create", "write", "rename", "cleanup", "renamed"}

Outcomes == {"open", "applied", "acked", "failed", "refused", "lost"}

TypeOK ==
    /\ file \in Files
    /\ tmp \in Files
    /\ settings \in Settings
    /\ unknown \in Unknowns
    /\ access \in {"writable", "refused"}
    /\ previous \in Settings
    /\ calls \in Seq(Writes)
    /\ outcome \in Seq(Outcomes)
    /\ Len(outcome) = Len(calls)
    /\ chainDone \in 0..Len(calls)
    /\ phase \in Phases
    /\ crashes \in Nat
    /\ edits \in Nat

Current == chainDone + 1
Running == phase \notin {"down", "idle"}

Init ==
    /\ file \in Files
    /\ tmp = Missing
    /\ settings = Defaults /\ unknown = NoUnknown /\ access = "writable"
    /\ previous = Defaults
    /\ calls = <<>> /\ outcome = <<>> /\ chainDone = 0
    /\ phase = "down"
    /\ crashes = 0 /\ edits = 0

-------------------------------------------------------------------------------
(* Boot.  Requests are served only once the onReady hook has loaded the file. *)

LoadMissing ==
    /\ phase = "down"
    /\ file = Missing
    /\ settings' = Defaults /\ unknown' = NoUnknown /\ access' = "writable"
    /\ phase' = "idle"
    /\ UNCHANGED <<disk, previous, queue, counters>>

LoadGood ==
    /\ phase = "down"
    /\ file \in Contents
    /\ settings' = file.settings /\ unknown' = file.unknown /\ access' = "writable"
    /\ phase' = "idle"
    /\ UNCHANGED <<disk, previous, queue, counters>>

\* The content does not parse or validate, or reading the file fails.
LoadRefused ==
    /\ phase = "down"
    /\ file # Missing
    /\ settings' = Defaults /\ unknown' = NoUnknown /\ access' = "refused"
    /\ phase' = "idle"
    /\ UNCHANGED <<disk, previous, queue, counters>>

-------------------------------------------------------------------------------
(* The write chain. *)

\* A route's patch() or setPlacement() call, accepted while the server is up.
EnqueueWrite(w) ==
    /\ phase # "down"
    /\ Len(calls) < MaxCalls
    /\ calls' = Append(calls, w)
    /\ outcome' = Append(outcome, "open")
    /\ UNCHANGED <<disk, memory, previous, chainDone, phase, counters>>

\* The running step answers its caller and the chain moves to the next one.
Settle(answer) ==
    /\ outcome' = [outcome EXCEPT ![Current] = answer]
    /\ chainDone' = Current
    /\ phase' = "idle"
    /\ UNCHANGED calls

\* assertWritable throws: the route answers 503.
StepRefused ==
    /\ phase = "idle" /\ chainDone < Len(calls)
    /\ access = "refused"
    /\ Settle("refused")
    /\ UNCHANGED <<disk, memory, previous, counters>>

StartWrite(base) ==
    /\ phase = "idle" /\ chainDone < Len(calls)
    /\ access = "writable"
    /\ previous' = settings
    /\ settings' = Merge(base, calls[Current])
    /\ phase' = "mkdir"
    /\ UNCHANGED <<disk, unknown, access, queue, counters>>

\* Mutants of BeginWrite: the base was captured before the step ahead had finished;
\* a step runs only when the one ahead of it succeeded.
BeginWriteStale == StartWrite(previous)

BeginWriteWedged ==
    /\ chainDone > 0 => outcome[chainDone] # "failed"
    /\ StartWrite(settings)

\* The step merges onto the settings it finds when it runs, not when it was called.
BeginWrite == StartWrite(settings)

MakeDirectory ==
    /\ phase = "mkdir"
    /\ phase' = "create"
    /\ UNCHANGED <<disk, memory, previous, queue, counters>>

\* writeFile opens tmpPath for writing, which truncates it ...
CreateTmp ==
    /\ phase = "create"
    /\ tmp' = Corrupt
    /\ phase' = "write"
    /\ UNCHANGED <<file, memory, previous, queue, counters>>

\* Mutants of WriteTmp: the unknown keys are not spliced back.
WriteTmpKnownOnly ==
    /\ phase = "write"
    /\ tmp' = [settings |-> settings, unknown |-> NoUnknown]
    /\ phase' = "rename"
    /\ UNCHANGED <<file, memory, previous, queue, counters>>

\* ... and later has written all of it.
WriteTmp ==
    /\ phase = "write"
    /\ tmp' = [settings |-> settings, unknown |-> unknown]
    /\ phase' = "rename"
    /\ UNCHANGED <<file, memory, previous, queue, counters>>

\* rename(2) is atomic: the new content replaces the old in one step.
Rename ==
    /\ phase = "rename"
    /\ file' = tmp
    /\ tmp' = Missing
    /\ outcome' = [outcome EXCEPT ![Current] = "applied"]
    /\ phase' = "renamed"
    /\ UNCHANGED <<memory, previous, calls, chainDone, counters>>

RenameFails ==
    /\ phase = "rename"
    /\ phase' = "cleanup"
    /\ UNCHANGED <<disk, memory, previous, queue, counters>>

Answer ==
    /\ phase = "renamed"
    /\ Settle("acked")
    /\ UNCHANGED <<disk, memory, previous, counters>>

\* Mutant of Rollback: the failed write stays in memory.
RollbackForgotten ==
    /\ Settle("failed")
    /\ UNCHANGED <<memory, file, previous, counters>>

\* persistOrRollback's catch, the outcome a rejected promise: the route answers 500.
Rollback ==
    /\ settings' = previous
    /\ Settle("failed")
    /\ UNCHANGED <<unknown, access, file, previous, counters>>

\* mkdir or writeFile rejects; what writeFile had written of the tmp file stays.
WriteFails ==
    /\ phase \in {"mkdir", "create", "write"}
    /\ Rollback
    /\ UNCHANGED tmp

\* The best-effort unlink after a failed rename, which may fail too.
Cleanup ==
    /\ phase = "cleanup"
    /\ Rollback
    /\ tmp' \in {Missing, tmp}

-------------------------------------------------------------------------------
(* The world. *)

\* The process dies.  Memory, queued steps and unsent answers are gone; the disk stays.
Crash ==
    /\ phase # "down"
    /\ crashes < MaxCrashes
    /\ crashes' = crashes + 1
    /\ phase' = "down"
    /\ settings' = Defaults /\ unknown' = NoUnknown /\ access' = "writable"
    /\ previous' = Defaults
    /\ outcome' = [i \in DOMAIN outcome |->
                      IF outcome[i] \in {"open", "applied"} THEN "lost" ELSE outcome[i]]
    /\ chainDone' = Len(calls)
    /\ UNCHANGED <<disk, calls, edits>>

\* A person repairs or replaces the file: with the server stopped, or while it refuses writes.
EditByHand ==
    /\ phase = "down" \/ access = "refused"
    /\ edits < MaxEdits
    /\ edits' = edits + 1
    /\ file' \in Files
    /\ UNCHANGED <<tmp, memory, previous, queue, phase, crashes>>

-------------------------------------------------------------------------------

Load == LoadMissing \/ LoadGood \/ LoadRefused

WriteStep ==
    \/ StepRefused \/ BeginWrite \/ MakeDirectory \/ CreateTmp \/ WriteTmp
    \/ Rename \/ RenameFails \/ Answer \/ WriteFails \/ Cleanup

Next ==
    \/ Load
    \/ \E w \in Writes : EnqueueWrite(w)
    \/ WriteStep
    \/ Crash
    \/ EditByHand

Spec == Init /\ [][Next]_vars

\* A supervisor restarts the process, and every file system call completes or fails.
FairSpec == Spec /\ WF_vars(Load) /\ WF_vars(WriteStep)

-------------------------------------------------------------------------------
(* Correctness. *)

\* What the file on disk says, when it says anything.
Usable == file \in Contents \cup {Missing}
OnDisk == IF file = Missing THEN Defaults ELSE file.settings
UnknownOnDisk(f) == IF f = Missing THEN NoUnknown ELSE f.unknown

\* Between writes a store that accepts writes serves exactly what is on disk, and a
\* running write rolls back to exactly what is on disk until its rename: after any
\* sequence of writes, failures, crashes and restarts (persistOrRollback, load).
MemoryMatchesDisk ==
    phase # "down" /\ access = "writable" =>
        /\ Usable
        /\ unknown = UnknownOnDisk(file)
        /\ phase \in {"idle", "renamed"} => settings = OnDisk
        /\ phase \notin {"idle", "renamed"} => previous = OnDisk

\* Only a person ever replaces a file the server refuses to write over, and every
\* replacement by the server is a whole settings file that keeps the top-level keys
\* the schema does not know (extractUnknownTopLevelKeys, refuse, the tmp-and-rename).
FileIsNeverDamaged ==
    [][file' # file =>
         \/ edits' # edits
         \/ /\ access = "writable" /\ Usable
            /\ file' \in Contents
            /\ file'.unknown = UnknownOnDisk(file)]_vars

\* The store implements the register: each call takes effect on the durable settings
\* at most once, whole, in call order, merged onto what is durable at that moment; an
\* acknowledged call has taken effect and a failed or refused one never does.
DurableValue == IF Usable THEN OnDisk ELSE Corrupt
Register == INSTANCE SettingsRegister WITH Unusable <- Corrupt, value <- DurableValue
ImplementsRegister == Register!RegSpec

\* No failure wedges the chain: every call is answered, or lost in a crash.
Waiting(i) == i \in DOMAIN outcome /\ outcome[i] \in {"open", "applied"}
EveryCallSettles == \A i \in 1..MaxCalls : Waiting(i) ~> ~Waiting(i)

===============================================================================
