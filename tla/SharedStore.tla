------------------------------ MODULE SharedStore ------------------------------
(***************************************************************************)
(* The settings page's write-capable view of the shared settings           *)
(* (src/web/settings/sharedStore.ts), against the server that holds them   *)
(* and the other devices that write them.                                  *)
(*                                                                         *)
(* An edit is applied to the device's copy at once and sent; the poll of   *)
(* GET /api/settings runs independently of it.  A field with a write in    *)
(* flight is pending: a snapshot merged meanwhile leaves it alone.         *)
(* Requests reach the server in any order and their answers come back in   *)
(* any order, late, or never.                                              *)
(***************************************************************************)
EXTENDS Naturals, Sequences, FiniteSets

CONSTANTS
    Fields,      \* the top-level fields but placements
    Values,      \* what a field holds
    Cameras,
    Spots,       \* where a camera can be placed, or Nowhere
    Nowhere,
    Initial,     \* SettingsSchema.parse({}), on the server and on the device
    Edits,       \* the changes a person makes, see Changes
    NoOverride,  \* the device follows the shared value of the field
    None,        \* no value yet
    MaxWrites,   \* bound: writes the device sends
    MaxFailures, \* bound: answers that are errors or get lost
    MaxOthers    \* bound: writes of other devices

AllFields == Fields \cup {"placements"}

SettingsObjects == {s \in [AllFields -> Values \cup [Cameras -> Spots]] :
                      /\ \A f \in Fields : s[f] \in Values
                      /\ s["placements"] \in [Cameras -> Spots]}

\* A patch of some fields, or a camera put at a spot (Nowhere: the placement deleted).
Changes == [kind : {"patch"}, values : UNION {[F -> Values] : F \in SUBSET Fields}]
             \cup [kind : {"place"}, camera : Cameras, spot : Spots]

ASSUME ChangesAssumption ==
    /\ Initial \in SettingsObjects /\ Edits \subseteq Changes
    /\ "placements" \notin Fields
    /\ {MaxWrites, MaxFailures, MaxOthers} \subseteq Nat

VARIABLES
    server,     \* the settings the server's store holds in memory
    serving,    \* the write the server's write chain is persisting, or 0
    undo,       \* what it restores when persisting fails
    state,      \* the device's copy: current in the source
    pending,    \* pendingFields: writes in flight that touch the field
    override,   \* localOverrides of the device
    login,      \* "in" when the session holds a password
    writes,     \* the writes this device has sent, oldest first
    poll,       \* the newest poll: its stage and the snapshot it carries
    lastData,   \* what the newest successful poll brought
    failures,   \* errors so far
    others      \* writes of other devices so far

vars == <<server, serving, undo, state, pending, override, login, writes, poll, lastData,
          failures, others>>

serverVars == <<server, serving, undo>>
deviceVars == <<state, pending, override, login>>
pollVars == <<poll, lastData>>

Stages == {"sent", "serving", "ok", "bad", "denied", "saved", "failed"}

Touched(change) == IF change.kind = "patch" THEN DOMAIN change.values ELSE {"placements"}

\* withFields and optimisticPlacements on the device, the spread on the server.
Apply(change, s) ==
    [f \in AllFields |->
        IF f \notin Touched(change) THEN s[f]
        ELSE IF change.kind = "patch" THEN change.values[f]
        ELSE [s[f] EXCEPT ![change.camera] = change.spot]]

\* A write is in flight from its optimistic edit until its answer has been handled.
InFlight(i) == i \in DOMAIN writes /\ writes[i].stage \notin {"saved", "failed"}
InFlightOn(f) == {i \in DOMAIN writes : InFlight(i) /\ f \in Touched(writes[i].change)}

WriteRecords ==
    [change : Edits, before : SettingsObjects, stage : Stages, auth : {"in", "out"},
     answer : SettingsObjects \cup {None}]

TypeOK ==
    /\ server \in SettingsObjects /\ undo \in SettingsObjects \cup {None}
    /\ state \in SettingsObjects
    /\ serving \in 0..Len(writes)
    /\ pending \in [AllFields -> 0..MaxWrites]
    /\ override \in [Fields -> Values \cup {NoOverride}]
    /\ login \in {"in", "out"}
    /\ writes \in Seq(WriteRecords)
    /\ poll \in [stage : {"idle", "sent", "answered"}, snapshot : SettingsObjects \cup {None}]
    /\ lastData \in SettingsObjects \cup {None}
    /\ failures \in 0..MaxFailures /\ others \in 0..MaxOthers

NoPoll == [stage |-> "idle", snapshot |-> None]

Init ==
    /\ server = Initial /\ serving = 0 /\ undo = None
    /\ state = Initial
    /\ pending = [f \in AllFields |-> 0]
    /\ override = [f \in Fields |-> NoOverride]
    /\ login \in {"in", "out"}
    /\ writes = <<>>
    /\ poll = NoPoll /\ lastData = None
    /\ failures = 0 /\ others = 0

-------------------------------------------------------------------------------
(* The person at the device. *)

\* Logged in, an edit goes to the shared settings; a placement always does.  The fields
\* become pending and show the edit at once.
SendWrite(change) ==
    /\ change.kind = "patch" => login = "in"
    /\ Len(writes) < MaxWrites
    /\ writes' = Append(writes, [change |-> change, before |-> state, stage |-> "sent",
                                 auth |-> login, answer |-> None])
    /\ pending' = [f \in AllFields |-> IF f \in Touched(change) THEN pending[f] + 1
                                                               ELSE pending[f]]
    /\ state' = Apply(change, state)
    /\ UNCHANGED <<serverVars, override, login, pollVars, failures, others>>

\* Logged out, a patch becomes this device's own override.
PatchLocally(change) ==
    /\ change.kind = "patch" /\ login = "out"
    /\ override' = [f \in Fields |-> IF f \in Touched(change) THEN change.values[f]
                                                             ELSE override[f]]
    /\ UNCHANGED <<serverVars, state, pending, login, writes, pollVars, failures, others>>

\* clearOverride of one field, or clearAllOverrides.
ClearOverrides(cleared) ==
    /\ \E f \in cleared : override[f] # NoOverride
    /\ override' = [f \in Fields |-> IF f \in cleared THEN NoOverride ELSE override[f]]
    /\ UNCHANGED <<serverVars, state, pending, login, writes, pollVars, failures, others>>

\* A confirmed login, or an explicit logout.
ToggleLogin ==
    /\ login' = IF login = "in" THEN "out" ELSE "in"
    /\ UNCHANGED <<serverVars, state, pending, override, writes, pollVars, failures, others>>

-------------------------------------------------------------------------------
(* The server: see SettingsStore for the write chain behind it. *)

SetStage(i, stage) == writes' = [writes EXCEPT ![i].stage = stage]

CountFailure ==
    /\ failures < MaxFailures
    /\ failures' = failures + 1

\* A request reaches the head of the write chain: memory changes before the disk does.
Serve(i) ==
    /\ i \in DOMAIN writes /\ writes[i].stage = "sent" /\ writes[i].auth = "in"
    /\ serving = 0
    /\ serving' = i /\ undo' = server
    /\ server' = Apply(writes[i].change, server)
    /\ SetStage(i, "serving")
    /\ UNCHANGED <<deviceVars, pollVars, failures, others>>

\* The file is replaced, and the answer carries the settings as they are now.
Persisted ==
    /\ serving # 0
    /\ writes' = [writes EXCEPT ![serving].stage = "ok", ![serving].answer = server]
    /\ serving' = 0 /\ undo' = None
    /\ UNCHANGED <<server, deviceVars, pollVars, failures, others>>

\* Persisting fails: memory is restored and the answer is an error.
NotPersisted ==
    /\ serving # 0
    /\ CountFailure
    /\ SetStage(serving, "bad")
    /\ server' = undo
    /\ serving' = 0 /\ undo' = None
    /\ UNCHANGED <<deviceVars, pollVars, others>>

\* The request never arrives, or is refused; no password, or no longer the right one, is 401.
Refuse(i) ==
    /\ i \in DOMAIN writes /\ writes[i].stage = "sent"
    /\ \/ CountFailure /\ SetStage(i, "bad")
       \/ CountFailure /\ SetStage(i, "denied")
       \/ writes[i].auth = "out" /\ SetStage(i, "denied") /\ UNCHANGED failures
    /\ UNCHANGED <<serverVars, deviceVars, pollVars, others>>

\* The write is done, but its answer does not reach the device or does not parse.
LoseAnswer(i) ==
    /\ i \in DOMAIN writes /\ writes[i].stage = "ok"
    /\ CountFailure
    /\ SetStage(i, "bad")
    /\ UNCHANGED <<serverVars, deviceVars, pollVars, others>>

\* Another device's write, or a hand edit of the file and a restart.
OtherWrite(change) ==
    /\ serving = 0 /\ others < MaxOthers
    /\ others' = others + 1
    /\ server' = Apply(change, server)
    /\ UNCHANGED <<serving, undo, deviceVars, writes, pollVars, failures>>

-------------------------------------------------------------------------------
(* Answers to the device's writes. *)

\* Mutant of Release: a path out of a write on which nothing is released.
ReleaseNothing(i) == pending

\* decrementPending of every touched field, once per write.
Release(i) == [f \in AllFields |-> IF f \in Touched(writes[i].change) THEN pending[f] - 1
                                                                      ELSE pending[f]]

\* Mutant of MergeSnapshot: the snapshot replaces everything.
MergeSnapshotWhole(snapshot, pend) == snapshot

\* mergeServerSnapshot: pending fields keep the device's value.
MergeSnapshot(snapshot, pend) ==
    [f \in AllFields |-> IF pend[f] > 0 THEN state[f] ELSE snapshot[f]]

\* The write is settled; what it no longer needs is forgotten.
Settle(i, stage) ==
    writes' = [writes EXCEPT ![i].stage = stage, ![i].before = Initial, ![i].answer = None]

\* Mutant of Saved: the override of a saved field stays.
SavedKeepsOverride(i) ==
    /\ i \in DOMAIN writes /\ writes[i].stage = "ok"
    /\ pending' = Release(i)
    /\ state' = MergeSnapshot(writes[i].answer, pending')
    /\ Settle(i, "saved")
    /\ UNCHANGED <<serverVars, override, login, pollVars, failures, others>>

Saved(i) ==
    /\ i \in DOMAIN writes /\ writes[i].stage = "ok"
    /\ pending' = Release(i)
    /\ state' = MergeSnapshot(writes[i].answer, pending')
    /\ override' = [f \in Fields |->
                       IF writes[i].change.kind = "patch" /\ f \in Touched(writes[i].change)
                         THEN NoOverride ELSE override[f]]
    /\ Settle(i, "saved")
    /\ UNCHANGED <<serverVars, login, pollVars, failures, others>>

\* rollback() puts the touched fields back as they were when this write began.
Failed(i) ==
    /\ i \in DOMAIN writes /\ writes[i].stage \in {"bad", "denied"}
    /\ state' = [f \in AllFields |-> IF f \in Touched(writes[i].change)
                                       THEN writes[i].before[f] ELSE state[f]]
    /\ pending' = Release(i)
    /\ login' = IF writes[i].stage = "denied" THEN "out" ELSE login
    /\ Settle(i, "failed")
    /\ UNCHANGED <<serverVars, override, pollVars, failures, others>>

-------------------------------------------------------------------------------
(* The poll: one load at a time matters, the newest (resource.ts's generation). *)

PollStart ==
    /\ poll = NoPoll
    /\ poll' = [stage |-> "sent", snapshot |-> None]
    /\ UNCHANGED <<serverVars, deviceVars, writes, lastData, failures, others>>

\* GET answers with the store's memory, whether or not it is on disk yet.
PollServe ==
    /\ poll.stage = "sent"
    /\ poll' = [stage |-> "answered", snapshot |-> server]
    /\ UNCHANGED <<serverVars, deviceVars, writes, lastData, failures, others>>

PollReady ==
    /\ poll.stage = "answered"
    /\ state' = MergeSnapshot(poll.snapshot, pending)
    /\ lastData' = poll.snapshot
    /\ poll' = NoPoll
    /\ UNCHANGED <<serverVars, pending, override, login, writes, failures, others>>

\* A failed poll publishes an error that carries lastData, and the effect merges that.
PollError ==
    /\ poll.stage # "idle"
    /\ CountFailure
    /\ state' = IF lastData = None THEN state ELSE MergeSnapshot(lastData, pending)
    /\ poll' = NoPoll
    /\ UNCHANGED <<serverVars, pending, override, login, writes, lastData, others>>

-------------------------------------------------------------------------------

Person ==
    \/ \E change \in Edits : SendWrite(change) \/ PatchLocally(change) \/ OtherWrite(change)
    \/ \E f \in Fields : ClearOverrides({f})
    \/ ClearOverrides(Fields)
    \/ ToggleLogin

Network(i) == Serve(i) \/ Refuse(i) \/ LoseAnswer(i)

Answered(i) == Saved(i) \/ Failed(i)

Poll == PollStart \/ PollServe \/ PollReady \/ PollError

Next ==
    \/ Person
    \/ \E i \in 1..MaxWrites : Network(i) \/ Answered(i)
    \/ Persisted \/ NotPersisted
    \/ Poll

Spec == Init /\ [][Next]_vars

\* Requests are answered or fail, answers are handled, the server's disk answers, and the
\* page keeps polling.  Nothing makes the person do anything.
Fairness ==
    /\ \A i \in 1..MaxWrites : WF_vars(Network(i)) /\ WF_vars(Answered(i))
    /\ WF_vars(Persisted \/ NotPersisted)
    /\ WF_vars(Poll)

FairSpec == Spec /\ Fairness

-------------------------------------------------------------------------------
(* Correctness. *)

\* What a control renders: the shared settings with the device's overrides laid over them.
Effective(f) == IF f \in Fields /\ override[f] # NoOverride THEN override[f] ELSE state[f]

\* No rollback happens in this step: what changes the copy is an edit or a snapshot.
NoRollback ==
    \A i \in DOMAIN writes : writes'[i].stage = "failed" => writes[i].stage = "failed"

\* A snapshot, of a poll or of another write's answer, that arrives while a field has a
\* write in flight leaves that field as it is (mergeServerSnapshot, the header comment).
SnapshotsSpareEdits ==
    [][ Len(writes') = Len(writes) /\ NoRollback =>
          \A f \in AllFields :
              InFlightOn(f) \cap InFlightOn(f)' # {} => state'[f] = state[f] ]_vars

\* When the server confirms an edit and nothing else of the field is in flight, the
\* device shows what the server answered, and not an override left over from before.
SavedEditIsShown ==
    [][ \A i \in DOMAIN writes : \A f \in Touched(writes[i].change) :
          writes'[i].stage = "saved" /\ writes[i].stage = "ok" /\ InFlightOn(f) = {i} =>
              Effective(f)' = writes[i].answer[f] ]_vars

\* Once the writes and the errors are over, the device comes to show the shared settings
\* and goes on doing so, whatever overlapped, failed or got lost before.
Converges == <>[](state = server)

\* The header comment's requirement (lines 10-14), of any step and not only of a snapshot:
\* a field with unflushed edits keeps the value of the newest of them.
InFlightEditKept ==
    \A f \in AllFields : \A i \in InFlightOn(f) :
        (\A j \in InFlightOn(f) : j <= i) => state[f] = Apply(writes[i].change, state)[f]

\* A poll that brings nothing leaves what is shown alone: the last-known-good value.
FailedPollKeepsState ==
    [][ poll.stage # "idle" /\ poll' = NoPoll /\ failures' # failures => state' = state ]_vars

===============================================================================
