---------------------------- MODULE SharedStoreProofs ----------------------------
(***************************************************************************)
(* Proofs about SharedStore, for any fields, values and edits, and any     *)
(* number of writes, failures and writes of other devices: the count of    *)
(* writes in flight on a field is right, so a snapshot spares what has     *)
(* been edited and a saved edit is shown.                                  *)
(***************************************************************************)
EXTENDS SharedStore, FiniteSetTheorems, TLAPS

\* pendingFields counts the writes in flight on a field.
PendingInv == \A f \in AllFields : pending[f] = Cardinality(InFlightOn(f))

\* What a stage says of the settings that are carried.
CarriedInv ==
    /\ Len(writes) <= MaxWrites
    /\ \A i \in DOMAIN writes : writes[i].stage = "ok" => writes[i].answer \in SettingsObjects
    /\ serving # 0 => undo \in SettingsObjects /\ writes[serving].stage = "serving"
    /\ poll.stage = "answered" => poll.snapshot \in SettingsObjects

StoreInv == TypeOK /\ PendingInv /\ CarriedInv

-------------------------------------------------------------------------------
(* The operators. *)

\* An edit, laid over settings, gives settings.
LEMMA ApplyType ==
    ASSUME NEW change \in Edits, NEW s \in SettingsObjects
    PROVE  Apply(change, s) \in SettingsObjects
<1> USE ChangesAssumption
<1> DEFINE t == Apply(change, s)
<1>1. change \in Changes
  OBVIOUS
<1>2. CASE change \in [kind : {"patch"}, values : UNION {[F -> Values] : F \in SUBSET Fields}]
  <2>1. PICK F \in SUBSET Fields : change.kind = "patch" /\ change.values \in [F -> Values]
    BY <1>2
  <2>2. Touched(change) = F
    BY <2>1 DEF Touched
  <2>3. t = [f \in AllFields |-> IF f \notin F THEN s[f] ELSE change.values[f]]
    BY <2>1, <2>2 DEF Apply
  <2>4. /\ \A f \in Fields : t[f] \in Values
        /\ t["placements"] \in [Cameras -> Spots]
    BY <2>1, <2>3 DEF AllFields, SettingsObjects
  <2>5. \A f \in AllFields : t[f] \in Values \cup [Cameras -> Spots]
    BY <2>4 DEF AllFields
  <2>6. t \in [AllFields -> Values \cup [Cameras -> Spots]]
    BY <2>3, <2>5
  <2> QED
    BY <2>4, <2>6 DEF SettingsObjects
<1>3. CASE change \in [kind : {"place"}, camera : Cameras, spot : Spots]
  <2>1. Touched(change) = {"placements"} /\ change.kind = "place"
    BY <1>3 DEF Touched
  <2>2. t = [f \in AllFields |-> IF f # "placements" THEN s[f] ELSE [s[f] EXCEPT ![change.camera] = change.spot]]
    BY <2>1 DEF Apply
  <2>3. [s["placements"] EXCEPT ![change.camera] = change.spot] \in [Cameras -> Spots]
    BY <1>3 DEF SettingsObjects
  <2>4. /\ \A f \in Fields : t[f] \in Values
        /\ t["placements"] \in [Cameras -> Spots]
    BY <2>2, <2>3 DEF AllFields, SettingsObjects
  <2>5. \A f \in AllFields : t[f] \in Values \cup [Cameras -> Spots]
    BY <2>4 DEF AllFields
  <2>6. t \in [AllFields -> Values \cup [Cameras -> Spots]]
    BY <2>2, <2>5
  <2> QED
    BY <2>4, <2>6 DEF SettingsObjects
<1> QED
  BY <1>1, <1>2, <1>3 DEF Changes

\* Choosing field by field between two settings gives settings.
LEMMA ChoiceType ==
    ASSUME NEW s \in SettingsObjects, NEW t \in SettingsObjects, NEW F
    PROVE  [f \in AllFields |-> IF f \in F THEN s[f] ELSE t[f]] \in SettingsObjects
BY DEF SettingsObjects, AllFields

LEMMA InFlightIsFinite ==
    ASSUME TypeOK, NEW f \in AllFields
    PROVE  IsFiniteSet(InFlightOn(f)) /\ Cardinality(InFlightOn(f)) \in 0..Len(writes)
<1>1. Len(writes) \in Nat /\ DOMAIN writes = 1..Len(writes)
  BY DEF TypeOK
<1>2. IsFiniteSet(1..Len(writes)) /\ Cardinality(1..Len(writes)) = Len(writes)
  <2>1. /\ IsFiniteSet(1..Len(writes))
        /\ Cardinality(1..Len(writes)) = IF 1 > Len(writes) THEN 0 ELSE Len(writes) - 1 + 1
    BY <1>1, FS_Interval
  <2> QED
    BY <1>1, <2>1
<1>3. InFlightOn(f) \in SUBSET (1..Len(writes))
  BY <1>1 DEF InFlightOn
<1> QED
  BY <1>1, <1>2, <1>3, FS_Subset, FS_CardinalityType

\* What becomes of the writes when one of them goes on to another stage.
LEMMA Restaged ==
    ASSUME TypeOK, NEW i \in DOMAIN writes, NEW w \in WriteRecords,
           writes' = [writes EXCEPT ![i] = w], w.change = writes[i].change
    PROVE  /\ writes' \in Seq(WriteRecords) /\ Len(writes') = Len(writes)
           /\ writes'[i] = w /\ \A j \in DOMAIN writes \ {i} : writes'[j] = writes[j]
           /\ \A f : InFlightOn(f)' = IF f \in Touched(w.change) /\ w.stage \notin {"saved", "failed"}
                                      THEN InFlightOn(f) \cup {i} ELSE InFlightOn(f) \ {i}
<1>1. /\ writes' \in Seq(WriteRecords) /\ Len(writes') = Len(writes) /\ DOMAIN writes' = DOMAIN writes
      /\ writes'[i] = w /\ \A j \in DOMAIN writes \ {i} : writes'[j] = writes[j]
  BY DEF TypeOK
<1>2. ASSUME NEW f
      PROVE  InFlightOn(f)' = IF f \in Touched(w.change) /\ w.stage \notin {"saved", "failed"}
                             THEN InFlightOn(f) \cup {i} ELSE InFlightOn(f) \ {i}
  <2>1. \A j \in DOMAIN writes \ {i} : j \in InFlightOn(f)' <=> j \in InFlightOn(f)
    BY <1>1 DEF InFlightOn, InFlight
  <2>2. i \in InFlightOn(f)' <=> f \in Touched(w.change) /\ w.stage \notin {"saved", "failed"}
    BY <1>1 DEF InFlightOn, InFlight
  <2>3. InFlightOn(f)' \subseteq DOMAIN writes /\ InFlightOn(f) \subseteq DOMAIN writes
    BY <1>1 DEF InFlightOn
  <2> QED
    BY <2>1, <2>2, <2>3
<1> QED
  BY <1>1, <1>2

\* One that is in flight stays in flight until it is saved or has failed.
LEMMA StaysInFlight ==
    ASSUME TypeOK, PendingInv, NEW i \in DOMAIN writes, NEW w \in WriteRecords,
           writes' = [writes EXCEPT ![i] = w], w.change = writes[i].change, UNCHANGED pending,
           w.stage \notin {"saved", "failed"}, writes[i].stage \notin {"saved", "failed"}
    PROVE  PendingInv'
<1>1. ASSUME NEW f \in AllFields PROVE InFlightOn(f)' = InFlightOn(f)
  <2>1. i \in InFlightOn(f) <=> f \in Touched(w.change)
    BY DEF InFlightOn, InFlight
  <2>2. InFlightOn(f)' = IF f \in Touched(w.change) /\ w.stage \notin {"saved", "failed"}
                         THEN InFlightOn(f) \cup {i} ELSE InFlightOn(f) \ {i}
    BY Restaged
  <2> QED
    BY <2>1, <2>2
<1> QED
  BY <1>1 DEF PendingInv

\* A settled write is counted no more.
LEMMA SettledIsReleased ==
    ASSUME TypeOK, PendingInv, NEW i \in DOMAIN writes, writes[i].stage \notin {"saved", "failed"},
           NEW stage \in {"saved", "failed"}, Settle(i, stage), pending' = Release(i)
    PROVE  /\ PendingInv'
           /\ writes' \in Seq(WriteRecords) /\ Len(writes') = Len(writes)
           /\ writes'[i].stage = stage /\ \A j \in DOMAIN writes \ {i} : writes'[j] = writes[j]
           /\ pending' \in [AllFields -> 0..MaxWrites]
           /\ \A f \in AllFields : InFlightOn(f)' = InFlightOn(f) \ {i} /\ pending'[f] = Cardinality(InFlightOn(f)')
<1> USE ChangesAssumption
<1> DEFINE w == [writes[i] EXCEPT !.stage = stage, !.before = Initial, !.answer = None]
<1>1. w \in WriteRecords /\ w.change = writes[i].change /\ w.stage = stage
  <2>1. writes[i] \in WriteRecords
    BY DEF TypeOK
  <2> QED
    BY <2>1 DEF WriteRecords, Stages
<1>2. writes' = [writes EXCEPT ![i] = w]
  BY DEF Settle, TypeOK
<1> HIDE DEF w
<1>3. /\ writes' \in Seq(WriteRecords) /\ Len(writes') = Len(writes)
      /\ writes'[i] = w /\ \A j \in DOMAIN writes \ {i} : writes'[j] = writes[j]
      /\ \A f : InFlightOn(f)' = InFlightOn(f) \ {i}
  BY <1>1, <1>2, Restaged
<1>4. ASSUME NEW f \in AllFields
      PROVE  pending'[f] = Cardinality(InFlightOn(f)') /\ pending'[f] \in 0..MaxWrites
  <2>1. i \in InFlightOn(f) <=> f \in Touched(writes[i].change)
    BY DEF InFlightOn, InFlight
  <2>2. Cardinality(InFlightOn(f) \ {i}) = IF i \in InFlightOn(f) THEN Cardinality(InFlightOn(f)) - 1 ELSE Cardinality(InFlightOn(f))
    BY InFlightIsFinite, FS_RemoveElement
  <2>3. pending[f] = Cardinality(InFlightOn(f)) /\ pending[f] \in 0..MaxWrites
    BY DEF PendingInv, TypeOK
  <2>4. i \in InFlightOn(f) => pending[f] > 0
    BY <2>3, InFlightIsFinite, FS_EmptySet
  <2>5. pending'[f] = IF i \in InFlightOn(f) THEN pending[f] - 1 ELSE pending[f]
    BY <2>1 DEF Release
  <2>6. InFlightOn(f)' = InFlightOn(f) \ {i}
    BY <1>3
  <2>7. pending'[f] = Cardinality(InFlightOn(f)')
    BY <2>2, <2>3, <2>5, <2>6
  <2> QED
    BY <2>3, <2>4, <2>5, <2>7
<1>5. pending' \in [AllFields -> 0..MaxWrites]
  BY <1>4 DEF Release
<1> QED
  BY <1>1, <1>3, <1>4, <1>5 DEF PendingInv

-------------------------------------------------------------------------------
(* The steps. *)

LEMMA InitInv == Init => StoreInv
<1> SUFFICES ASSUME Init PROVE StoreInv
  OBVIOUS
<1> USE ChangesAssumption DEF Init, NoPoll
<1>1. TypeOK
  BY DEF TypeOK
<1>2. PendingInv
  <2>1. \A f : InFlightOn(f) = {}
    BY DEF InFlightOn, InFlight
  <2> QED
    BY <2>1, FS_EmptySet DEF PendingInv
<1>3. CarriedInv
  BY DEF CarriedInv
<1> QED
  BY <1>1, <1>2, <1>3 DEF StoreInv

\* An edit that is sent is counted, and laid over the copy.
LEMMA SendWriteInv ==
    ASSUME StoreInv, NEW change \in Edits, SendWrite(change)
    PROVE  StoreInv'
<1> USE ChangesAssumption DEF StoreInv, SendWrite, serverVars, pollVars
<1> DEFINE w == [change |-> change, before |-> state, stage |-> "sent", auth |-> login, answer |-> None]
           n == Len(writes) + 1
<1>1. w \in WriteRecords
  BY DEF TypeOK, WriteRecords, Stages
<1>2. writes' = Append(writes, w)
  OBVIOUS
<1> HIDE DEF w
<1>3. /\ writes' \in Seq(WriteRecords) /\ Len(writes') = n /\ n \in 1..MaxWrites /\ writes'[n] = w
      /\ DOMAIN writes = 1..Len(writes) /\ DOMAIN writes' = DOMAIN writes \cup {n}
      /\ \A i \in DOMAIN writes : writes'[i] = writes[i]
  BY <1>1, <1>2 DEF TypeOK
<1>4. ASSUME NEW f \in AllFields
      PROVE  pending'[f] = Cardinality(InFlightOn(f)') /\ pending'[f] \in 0..MaxWrites
  <2>1. InFlightOn(f)' = IF f \in Touched(change) THEN InFlightOn(f) \cup {n} ELSE InFlightOn(f)
    <3>1. w.change = change /\ w.stage = "sent"
      BY DEF w
    <3>2. \A i \in DOMAIN writes : i \in InFlightOn(f)' <=> i \in InFlightOn(f)
      BY <1>3 DEF InFlightOn, InFlight
    <3>3. n \in InFlightOn(f)' <=> f \in Touched(change)
      BY <1>3, <3>1 DEF InFlightOn, InFlight
    <3>4. InFlightOn(f)' \subseteq DOMAIN writes \cup {n} /\ InFlightOn(f) \subseteq DOMAIN writes
      BY <1>3 DEF InFlightOn
    <3>5. n \notin InFlightOn(f)
      BY <1>3 DEF InFlightOn
    <3>6. CASE f \in Touched(change)
      BY <3>2, <3>3, <3>4, <3>6
    <3>7. CASE f \notin Touched(change)
      <4>1. InFlightOn(f)' \subseteq DOMAIN writes
        BY <3>3, <3>4, <3>7
      <4>2. InFlightOn(f)' = InFlightOn(f)
        BY <3>2, <3>4, <4>1
      <4> QED
        BY <3>7, <4>2
    <3> QED
      BY <3>6, <3>7
  <2>2. n \notin InFlightOn(f)
    BY <1>3 DEF InFlightOn
  <2>3. IsFiniteSet(InFlightOn(f)) /\ Cardinality(InFlightOn(f)) \in 0..Len(writes)
    BY InFlightIsFinite
  <2>4. Cardinality(InFlightOn(f) \cup {n}) = Cardinality(InFlightOn(f)) + 1
    BY <2>2, <2>3, FS_AddElement
  <2>5. pending[f] = Cardinality(InFlightOn(f))
    BY DEF PendingInv
  <2>6. pending'[f] = IF f \in Touched(change) THEN pending[f] + 1 ELSE pending[f]
    OBVIOUS
  <2>7. pending'[f] = Cardinality(InFlightOn(f)')
    BY <2>1, <2>4, <2>5, <2>6
  <2> QED
    BY <1>3, <2>3, <2>5, <2>6, <2>7 DEF TypeOK
<1>5. TypeOK'
  <2>1. state' \in SettingsObjects
    BY ApplyType DEF TypeOK
  <2>2. pending' \in [AllFields -> 0..MaxWrites]
    BY <1>4
  <2>3. serving' \in 0..Len(writes')
    BY <1>3 DEF TypeOK
  <2> QED
    BY <1>3, <2>1, <2>2, <2>3 DEF TypeOK
<1>6. PendingInv'
  BY <1>4 DEF PendingInv
<1>7. CarriedInv'
  <2>1. w.stage = "sent"
    BY DEF w
  <2>2. serving # 0 => serving \in DOMAIN writes
    BY <1>3 DEF TypeOK
  <2> QED
    BY <1>3, <2>1, <2>2 DEF CarriedInv
<1> QED
  BY <1>5, <1>6, <1>7

\* What a person does otherwise, on this device or another, is no write in flight here.
LEMMA PersonInv ==
    ASSUME StoreInv,
           \/ \E change \in Edits : PatchLocally(change) \/ OtherWrite(change)
           \/ \E F \in SUBSET Fields : ClearOverrides(F)
           \/ ToggleLogin
    PROVE  StoreInv'
<1> USE ChangesAssumption DEF StoreInv, serverVars, deviceVars, pollVars
<1>1. UNCHANGED <<writes, pending, serving, undo, state, poll, lastData, failures>>
  BY DEF PatchLocally, OtherWrite, ClearOverrides, ToggleLogin
<1>2. server' \in SettingsObjects /\ others' \in 0..MaxOthers
  BY ApplyType DEF TypeOK, PatchLocally, OtherWrite, ClearOverrides, ToggleLogin
<1>3. override' \in [Fields -> Values \cup {NoOverride}]
  <2>1. ASSUME NEW change \in Edits, PatchLocally(change) PROVE override' \in [Fields -> Values \cup {NoOverride}]
    <3>1. change.kind = "patch" /\ \A f \in Touched(change) : change.values[f] \in Values
      BY <2>1 DEF PatchLocally, Changes, Touched
    <3> QED
      BY <2>1, <3>1 DEF PatchLocally, TypeOK
  <2> QED
    BY <2>1 DEF TypeOK, OtherWrite, ClearOverrides, ToggleLogin
<1>4. login' \in {"in", "out"}
  BY DEF TypeOK, PatchLocally, OtherWrite, ClearOverrides, ToggleLogin
<1>5. TypeOK'
  BY <1>1, <1>2, <1>3, <1>4 DEF TypeOK
<1>6. PendingInv'
  BY <1>1 DEF PendingInv, InFlightOn, InFlight
<1>7. CarriedInv'
  BY <1>1 DEF CarriedInv
<1> QED
  BY <1>5, <1>6, <1>7

\* A write that goes on to a stage of which it is in flight still.
LEMMA StageInv ==
    ASSUME StoreInv, NEW i \in DOMAIN writes, NEW w \in WriteRecords,
           writes' = [writes EXCEPT ![i] = w], w.change = writes[i].change,
           w.stage \notin {"saved", "failed"}, writes[i].stage \notin {"saved", "failed"},
           w.stage = "ok" => w.answer \in SettingsObjects,
           server' \in SettingsObjects, undo' \in SettingsObjects \cup {None},
           serving' \in 0..Len(writes), failures' \in 0..MaxFailures,
           serving' # 0 => undo' \in SettingsObjects /\ writes'[serving'].stage = "serving",
           UNCHANGED <<deviceVars, pollVars, others>>
    PROVE  StoreInv'
<1> USE ChangesAssumption DEF StoreInv, deviceVars, pollVars
<1>1. /\ writes' \in Seq(WriteRecords) /\ Len(writes') = Len(writes) /\ DOMAIN writes' = DOMAIN writes
      /\ writes'[i] = w /\ \A j \in DOMAIN writes \ {i} : writes'[j] = writes[j]
  BY DEF TypeOK
<1>2. TypeOK'
  BY <1>1 DEF TypeOK
<1>3. PendingInv'
  BY StaysInFlight
<1>4. CarriedInv'
  BY <1>1 DEF CarriedInv
<1> QED
  BY <1>2, <1>3, <1>4

\* The network and the server, between an edit's sending and its answer.
LEMMA NetworkInv ==
    ASSUME StoreInv, NEW i \in 1..MaxWrites, Network(i)
    PROVE  StoreInv'
<1> USE ChangesAssumption DEF StoreInv
<1>1. i \in DOMAIN writes
  BY DEF Network, Serve, Refuse, LoseAnswer
<1>2. writes[i] \in WriteRecords /\ i \in 1..Len(writes)
  BY <1>1 DEF TypeOK
<1>3. ASSUME NEW stage \in {"serving", "bad", "denied"}, SetStage(i, stage)
      PROVE  /\ [writes[i] EXCEPT !.stage = stage] \in WriteRecords
             /\ writes' = [writes EXCEPT ![i] = [writes[i] EXCEPT !.stage = stage]]
             /\ [writes[i] EXCEPT !.stage = stage].stage = stage
             /\ [writes[i] EXCEPT !.stage = stage].change = writes[i].change
  <2>1. [writes[i] EXCEPT !.stage = stage] \in WriteRecords
    BY <1>2 DEF WriteRecords, Stages
  <2>2. [writes[i] EXCEPT !.stage = stage].stage = stage
    BY <1>2 DEF WriteRecords
  <2> QED
    BY <1>3, <2>1, <2>2 DEF SetStage
<1>4. CASE Serve(i)
  <2>1. /\ SetStage(i, "serving") /\ writes[i].stage = "sent" /\ serving' = i /\ undo' = server
        /\ UNCHANGED <<deviceVars, pollVars, failures, others>>
    BY <1>4 DEF Serve
  <2>2. server' \in SettingsObjects
    BY <1>2, <1>4, ApplyType DEF Serve, TypeOK, WriteRecords
  <2> DEFINE w == [writes[i] EXCEPT !.stage = "serving"]
  <2>3. w \in WriteRecords /\ writes' = [writes EXCEPT ![i] = w] /\ w.change = writes[i].change /\ w.stage = "serving"
    BY <1>3, <2>1
  <2> HIDE DEF w
  <2>4. writes'[i].stage = "serving" /\ serving' # 0 /\ serving' = i
    BY <1>1, <1>2, <2>1, <2>3
  <2>5. serving' \in 0..Len(writes) /\ undo' \in SettingsObjects /\ failures' \in 0..MaxFailures
    BY <1>2, <2>1 DEF TypeOK
  <2>6. UNCHANGED <<deviceVars, pollVars, others>>
    BY <2>1
  <2> HIDE DEF StoreInv
  <2> QED
    BY <1>1, <2>1, <2>2, <2>3, <2>4, <2>5, <2>6, StageInv
<1>5. ASSUME NEW stage \in {"bad", "denied"}, SetStage(i, stage), writes[i].stage \in {"sent", "ok"},
             failures' \in 0..MaxFailures, UNCHANGED <<serverVars, deviceVars, pollVars, others>>
      PROVE  StoreInv'
  <2>1. serving # 0 => undo \in SettingsObjects /\ writes[serving].stage = "serving" /\ serving \in DOMAIN writes /\ serving # i
    BY <1>5 DEF CarriedInv, TypeOK
  <2> DEFINE w == [writes[i] EXCEPT !.stage = stage]
  <2>2. w \in WriteRecords /\ writes' = [writes EXCEPT ![i] = w] /\ w.change = writes[i].change /\ w.stage = stage
    BY <1>3, <1>5
  <2> HIDE DEF w
  <2>3. serving # 0 => writes'[serving].stage = "serving"
    BY <1>1, <2>1, <2>2 DEF TypeOK
  <2>4. /\ server' \in SettingsObjects /\ undo' \in SettingsObjects \cup {None} /\ serving' \in 0..Len(writes)
        /\ serving' = serving /\ undo' = undo
    BY <1>5 DEF TypeOK, serverVars
  <2>5. UNCHANGED <<deviceVars, pollVars, others>>
    BY <1>5
  <2> HIDE DEF StoreInv
  <2> QED
    BY <1>1, <1>5, <2>1, <2>2, <2>3, <2>4, <2>5, StageInv
<1>6. CASE Refuse(i)
  <2>1. PICK stage \in {"bad", "denied"} : SetStage(i, stage)
    BY <1>6 DEF Refuse
  <2>2. failures' \in 0..MaxFailures
    BY <1>6 DEF Refuse, CountFailure, TypeOK
  <2> QED
    BY <1>5, <1>6, <2>1, <2>2 DEF Refuse
<1>7. CASE LoseAnswer(i)
  <2>1. failures' \in 0..MaxFailures
    BY <1>7 DEF LoseAnswer, CountFailure, TypeOK
  <2> QED
    BY <1>5, <1>7, <2>1 DEF LoseAnswer
<1> QED
  BY <1>4, <1>6, <1>7 DEF Network

\* The write that is being persisted is, or memory is restored.
LEMMA PersistInv ==
    ASSUME StoreInv, Persisted \/ NotPersisted
    PROVE  StoreInv'
<1> USE ChangesAssumption DEF StoreInv
<1>1. serving \in DOMAIN writes /\ undo \in SettingsObjects /\ writes[serving].stage = "serving"
  BY DEF Persisted, NotPersisted, TypeOK, CarriedInv
<1>2. writes[serving] \in WriteRecords /\ server \in SettingsObjects
  BY <1>1 DEF TypeOK
<1>3. CASE Persisted
  <2> DEFINE w == [writes[serving] EXCEPT !.stage = "ok", !.answer = server]
  <2>1. w \in WriteRecords /\ w.change = writes[serving].change /\ w.stage = "ok" /\ w.answer = server
    BY <1>2 DEF WriteRecords, Stages
  <2>2. writes' = [writes EXCEPT ![serving] = w]
    BY <1>1, <1>3 DEF Persisted, TypeOK
  <2>3. serving' = 0 /\ undo' = None /\ UNCHANGED <<server, deviceVars, pollVars, failures, others>>
    BY <1>3 DEF Persisted
  <2>4. /\ server' \in SettingsObjects /\ undo' \in SettingsObjects \cup {None} /\ serving' \in 0..Len(writes)
        /\ failures' \in 0..MaxFailures
    BY <1>1, <1>2, <2>3 DEF TypeOK
  <2>5. UNCHANGED <<deviceVars, pollVars, others>>
    BY <2>3
  <2> HIDE DEF w, StoreInv
  <2> QED
    BY <1>1, <1>2, <2>1, <2>2, <2>3, <2>4, <2>5, StageInv
<1>4. CASE NotPersisted
  <2> DEFINE w == [writes[serving] EXCEPT !.stage = "bad"]
  <2>1. w \in WriteRecords /\ w.change = writes[serving].change /\ w.stage = "bad"
    BY <1>2 DEF WriteRecords, Stages
  <2>2. writes' = [writes EXCEPT ![serving] = w]
    BY <1>4 DEF NotPersisted, SetStage
  <2>3. /\ serving' = 0 /\ undo' = None /\ server' = undo /\ UNCHANGED <<deviceVars, pollVars, others>>
        /\ failures' \in 0..MaxFailures
    BY <1>4 DEF NotPersisted, CountFailure, TypeOK
  <2>4. /\ server' \in SettingsObjects /\ undo' \in SettingsObjects \cup {None} /\ serving' \in 0..Len(writes)
        /\ failures' \in 0..MaxFailures
    BY <1>1, <1>2, <2>3 DEF TypeOK
  <2>5. UNCHANGED <<deviceVars, pollVars, others>>
    BY <2>3
  <2> HIDE DEF w, StoreInv
  <2> QED
    BY <1>1, <1>2, <2>1, <2>2, <2>3, <2>4, <2>5, StageInv
<1> QED
  BY <1>3, <1>4

\* The answer to a write releases its fields, once.
LEMMA AnsweredInv ==
    ASSUME StoreInv, NEW i \in 1..MaxWrites, Answered(i)
    PROVE  StoreInv'
<1> USE ChangesAssumption DEF StoreInv
<1>1. PICK stage \in {"saved", "failed"} : Settle(i, stage)
  BY DEF Answered, Saved, Failed
<1>2. /\ i \in DOMAIN writes /\ writes[i].stage \in {"ok", "bad", "denied"} /\ pending' = Release(i)
      /\ writes[i].stage = "ok" => writes[i].answer \in SettingsObjects
      /\ UNCHANGED <<serverVars, pollVars, failures, others>>
  BY DEF Answered, Saved, Failed, CarriedInv
<1>3. writes[i] \in WriteRecords
  BY <1>2 DEF TypeOK
<1>4. /\ PendingInv' /\ pending' \in [AllFields -> 0..MaxWrites]
      /\ writes' \in Seq(WriteRecords) /\ Len(writes') = Len(writes) /\ DOMAIN writes' = DOMAIN writes
      /\ writes'[i].stage = stage /\ \A j \in DOMAIN writes \ {i} : writes'[j] = writes[j]
  <2>1. TypeOK /\ PendingInv
    OBVIOUS
  <2> HIDE DEF StoreInv
  <2> QED
    BY <1>1, <1>2, <2>1, SettledIsReleased
<1>5. state' \in SettingsObjects
  <2>1. CASE Saved(i)
    <3>1. state' = [f \in AllFields |-> IF f \in {g \in AllFields : pending'[g] > 0} THEN state[f] ELSE writes[i].answer[f]]
      BY <2>1 DEF Saved, MergeSnapshot
    <3>2. writes[i].answer \in SettingsObjects /\ state \in SettingsObjects
      BY <1>2, <2>1 DEF Saved, TypeOK
    <3> HIDE DEF StoreInv
    <3> QED
      BY <3>1, <3>2, ChoiceType
  <2>2. CASE Failed(i)
    <3>1. state' = [f \in AllFields |-> IF f \in Touched(writes[i].change) THEN writes[i].before[f] ELSE state[f]]
      BY <2>2 DEF Failed
    <3>2. writes[i].before \in SettingsObjects /\ state \in SettingsObjects
      BY <1>3 DEF TypeOK, WriteRecords
    <3> HIDE DEF StoreInv
    <3> QED
      BY <3>1, <3>2, ChoiceType
  <2> QED
    BY <2>1, <2>2 DEF Answered
<1>6. override' \in [Fields -> Values \cup {NoOverride}] /\ login' \in {"in", "out"}
  BY DEF Answered, Saved, Failed, TypeOK
<1>7. TypeOK'
  BY <1>2, <1>4, <1>5, <1>6 DEF TypeOK, serverVars, pollVars
<1>8. CarriedInv'
  <2>1. serving # 0 => serving \in DOMAIN writes \ {i} /\ writes[serving].stage = "serving"
    BY <1>2 DEF CarriedInv, TypeOK
  <2> QED
    BY <1>1, <1>2, <1>4, <2>1 DEF CarriedInv, serverVars, pollVars
<1> QED
  BY <1>4, <1>7, <1>8

\* A snapshot spares the fields that are pending.
LEMMA PollInv ==
    ASSUME StoreInv, Poll
    PROVE  StoreInv'
<1> USE ChangesAssumption DEF StoreInv
<1>1. UNCHANGED <<serverVars, pending, override, login, writes, others>> /\ failures' \in 0..MaxFailures
  BY DEF Poll, PollStart, PollServe, PollReady, PollError, CountFailure, TypeOK, deviceVars
<1>2. /\ poll' \in [stage : {"idle", "sent", "answered"}, snapshot : SettingsObjects \cup {None}]
      /\ poll'.stage = "answered" => poll'.snapshot \in SettingsObjects
      /\ lastData' \in SettingsObjects \cup {None}
  BY DEF Poll, PollStart, PollServe, PollReady, PollError, NoPoll, TypeOK, CarriedInv
<1>3. state' \in SettingsObjects
  <2>1. ASSUME NEW s \in SettingsObjects, state' = MergeSnapshot(s, pending) PROVE state' \in SettingsObjects
    <3>1. state' = [f \in AllFields |-> IF f \in {g \in AllFields : pending[g] > 0} THEN state[f] ELSE s[f]]
      BY <2>1 DEF MergeSnapshot
    <3>2. state \in SettingsObjects
      BY DEF TypeOK
    <3> HIDE DEF StoreInv
    <3> QED
      BY <3>1, <3>2, ChoiceType
  <2>2. poll.stage = "answered" => poll.snapshot \in SettingsObjects
    BY DEF CarriedInv
  <2>3. lastData \in SettingsObjects \cup {None} /\ state \in SettingsObjects
    BY DEF TypeOK
  <2> QED
    BY <2>1, <2>2, <2>3 DEF Poll, PollStart, PollServe, PollReady, PollError, deviceVars
<1>4. TypeOK'
  BY <1>1, <1>2, <1>3 DEF TypeOK, serverVars
<1>5. PendingInv'
  BY <1>1 DEF PendingInv, InFlightOn, InFlight
<1>6. CarriedInv'
  BY <1>1, <1>2 DEF CarriedInv, serverVars
<1> QED
  BY <1>4, <1>5, <1>6

LEMMA StepInv == StoreInv /\ [Next]_vars => StoreInv'
<1> SUFFICES ASSUME StoreInv, [Next]_vars PROVE StoreInv'
  OBVIOUS
<1>1. CASE Person
  <2>1. \A f \in Fields : {f} \in SUBSET Fields
    OBVIOUS
  <2> QED
    BY <1>1, <2>1, SendWriteInv, PersonInv DEF Person
<1>2. CASE \E i \in 1..MaxWrites : Network(i) \/ Answered(i)
  BY <1>2, NetworkInv, AnsweredInv
<1>3. CASE Persisted \/ NotPersisted
  BY <1>3, PersistInv
<1>4. CASE Poll
  BY <1>4, PollInv
<1>5. CASE UNCHANGED vars
  <2>1. UNCHANGED <<serverVars, deviceVars, writes, pollVars, failures, others>>
    BY <1>5 DEF vars, serverVars, deviceVars, pollVars
  <2>2. TypeOK'
    BY <2>1 DEF StoreInv, TypeOK, serverVars, deviceVars, pollVars
  <2>3. PendingInv' /\ CarriedInv'
    BY <2>1 DEF StoreInv, PendingInv, CarriedInv, InFlightOn, InFlight, serverVars, deviceVars, pollVars
  <2> QED
    BY <2>2, <2>3 DEF StoreInv
<1> QED
  BY <1>1, <1>2, <1>3, <1>4, <1>5 DEF Next

-------------------------------------------------------------------------------
(* What the store promises of every step. *)

LEMMA Invariance == Spec => []StoreInv
BY InitInv, StepInv, PTL DEF Spec

\* A field with a write in flight has a count above zero.
LEMMA InFlightIsPending ==
    ASSUME StoreInv, NEW f \in AllFields, InFlightOn(f) # {}
    PROVE  pending[f] > 0
BY InFlightIsFinite, FS_EmptySet DEF StoreInv, PendingInv

LEMMA StepSparesEdits ==
    ASSUME StoreInv, StoreInv', [Next]_vars, Len(writes') = Len(writes), NoRollback,
           NEW f \in AllFields, InFlightOn(f) \cap InFlightOn(f)' # {}
    PROVE  state'[f] = state[f]
<1>1. pending[f] > 0 /\ pending'[f] > 0
  <2>1. InFlightOn(f) # {} /\ InFlightOn(f)' # {}
    OBVIOUS
  <2>2. pending[f] > 0
    BY <2>1, InFlightIsPending
  <2>3. IsFiniteSet(InFlightOn(f)') /\ pending'[f] = Cardinality(InFlightOn(f)') /\ Cardinality(InFlightOn(f)') \in Nat
    <3>1. IsFiniteSet(InFlightOn(f)')
      <4>1. InFlightOn(f)' \subseteq 1..Len(writes') /\ Len(writes') \in Nat
        BY DEF StoreInv, TypeOK, InFlightOn
      <4>2. IsFiniteSet(1..Len(writes'))
        BY <4>1, FS_Interval
      <4> QED
        BY <4>1, <4>2, FS_Subset
    <3> QED
      BY <3>1, FS_CardinalityType DEF StoreInv, PendingInv
  <2>4. Cardinality(InFlightOn(f)') # 0
    BY <2>1, <2>3, FS_EmptySet
  <2> QED
    BY <2>2, <2>3, <2>4
<1>2. ASSUME NEW change \in Edits, SendWrite(change) PROVE FALSE
  BY <1>2 DEF SendWrite, StoreInv, TypeOK
<1>3. ASSUME NEW i \in 1..MaxWrites, Failed(i) PROVE FALSE
  BY <1>3 DEF Failed, Settle, NoRollback, StoreInv, TypeOK
<1>4. ASSUME NEW i \in 1..MaxWrites, Saved(i) PROVE state'[f] = state[f]
  BY <1>1, <1>4 DEF Saved, MergeSnapshot
<1>5. CASE Poll
  BY <1>1, <1>5 DEF Poll, PollStart, PollServe, PollReady, PollError, MergeSnapshot, deviceVars
<1>6. CASE UNCHANGED state
  BY <1>6
<1> QED
  BY <1>2, <1>3, <1>4, <1>5, <1>6
  DEF Next, Person, Network, Answered, PatchLocally, OtherWrite, ClearOverrides, ToggleLogin, Serve, Refuse,
      LoseAnswer, Persisted, NotPersisted, vars, deviceVars

\* A snapshot that arrives while a field has a write in flight, be it a poll's or another
\* write's answer, leaves the field as it is, whatever else is in flight or has been lost:
\* mergeServerSnapshot with pendingFields keeps the header comment of sharedStore.ts.
THEOREM SnapshotsAreMerged == Spec => SnapshotsSpareEdits
<1> DEFINE Spares ==
        Len(writes') = Len(writes) /\ NoRollback =>
          \A f \in AllFields : InFlightOn(f) \cap InFlightOn(f)' # {} => state'[f] = state[f]
<1>1. StoreInv /\ StoreInv' /\ [Next]_vars => [Spares]_vars
  BY StepSparesEdits
<1> QED
  BY <1>1, Invariance, PTL DEF Spec, SnapshotsSpareEdits

LEMMA StepShowsSaved ==
    ASSUME StoreInv, StoreInv', [Next]_vars, NEW i \in DOMAIN writes, NEW f \in Touched(writes[i].change),
           writes'[i].stage = "saved", writes[i].stage = "ok", InFlightOn(f) = {i}
    PROVE  Effective(f)' = writes[i].answer[f]
<1> USE ChangesAssumption
<1>1. writes[i] \in WriteRecords /\ i \in 1..MaxWrites /\ f \in AllFields
  <2>1. writes[i] \in WriteRecords /\ i \in 1..MaxWrites
    BY DEF StoreInv, TypeOK, CarriedInv
  <2> QED
    BY <2>1 DEF WriteRecords, Changes, Touched, AllFields
<1>2. Saved(i)
  <2>1. ASSUME NEW j \in 1..MaxWrites, Saved(j) PROVE j = i
    BY <2>1 DEF Saved, Settle, StoreInv, TypeOK
  <2>2. ASSUME NEW j \in 1..MaxWrites, Failed(j) PROVE FALSE
    BY <2>2 DEF Failed, Settle, StoreInv, TypeOK
  <2>3. ASSUME NEW change \in Edits, SendWrite(change) PROVE FALSE
    BY <2>3 DEF SendWrite, StoreInv, TypeOK
  <2>4. ASSUME NEW j, NEW stage \in {"serving", "bad", "denied"}, SetStage(j, stage) PROVE FALSE
    BY <2>4 DEF SetStage, StoreInv, TypeOK
  <2>5. ASSUME NEW j \in 1..MaxWrites, Network(j) PROVE FALSE
    BY <2>4, <2>5 DEF Network, Serve, Refuse, LoseAnswer
  <2>6. CASE Persisted \/ NotPersisted
    <3>1. serving \in DOMAIN writes
      BY <2>6 DEF Persisted, NotPersisted, StoreInv, TypeOK
    <3>2. CASE NotPersisted
      BY <2>4, <3>2 DEF NotPersisted
    <3>3. CASE Persisted
      <4>1. writes[serving] \in WriteRecords
        BY <3>1 DEF StoreInv, TypeOK
      <4>2. writes' = [writes EXCEPT ![serving] = [writes[serving] EXCEPT !.stage = "ok", !.answer = server]]
        BY <3>1, <3>3 DEF Persisted
      <4>3. writes'[i].stage = "ok"
        BY <3>1, <4>1, <4>2 DEF WriteRecords
      <4> QED
        BY <4>3
    <3> QED
      BY <2>6, <3>2, <3>3
  <2>7. CASE UNCHANGED writes
    BY <2>7
  <2> QED
    BY <2>1, <2>2, <2>3, <2>5, <2>6, <2>7
    DEF Next, Person, Answered, PatchLocally, OtherWrite, ClearOverrides, ToggleLogin,
        Poll, PollStart, PollServe, PollReady, PollError, vars
<1>3. pending'[f] = 0
  <2>1. pending[f] = 1
    BY <1>1, FS_Singleton DEF StoreInv, PendingInv
  <2> QED
    BY <1>1, <1>2, <2>1 DEF Saved, Release
<1>4. state'[f] = writes[i].answer[f]
  BY <1>1, <1>2, <1>3 DEF Saved, MergeSnapshot
<1>5. f \in Fields => override'[f] = NoOverride
  <2>1. f \in Fields => writes[i].change.kind = "patch"
    BY <1>1 DEF WriteRecords, Changes, Touched
  <2> QED
    BY <1>2, <2>1 DEF Saved
<1> QED
  BY <1>4, <1>5 DEF Effective

\* When the server confirms an edit and nothing else of the field is in flight, what the control
\* renders is what the server answered: neither an older snapshot nor an override hides it.
THEOREM SavedEditsAreShown == Spec => SavedEditIsShown
<1> DEFINE Shown ==
        \A i \in DOMAIN writes : \A f \in Touched(writes[i].change) :
          writes'[i].stage = "saved" /\ writes[i].stage = "ok" /\ InFlightOn(f) = {i} =>
              Effective(f)' = writes[i].answer[f]
<1>1. StoreInv /\ StoreInv' /\ [Next]_vars => [Shown]_vars
  BY StepShowsSaved
<1> QED
  BY <1>1, Invariance, PTL DEF Spec, SavedEditIsShown

\* Every variable of the store keeps its type, and pendingFields counts exactly the writes in
\* flight on each field, on every path out of a write.
THEOREM PendingCountsWrites == Spec => [](TypeOK /\ PendingInv)
<1>1. StoreInv => TypeOK /\ PendingInv
  BY DEF StoreInv
<1> QED
  BY <1>1, Invariance, PTL

===============================================================================
