-------------------------- MODULE SettingsStoreProofs --------------------------
(***************************************************************************)
(* The settings store keeps memory and disk together, never damages the    *)
(* file and implements the register, for every set of keys, values and     *)
(* writes, any number of calls, crashes and edits by hand.                 *)
(***************************************************************************)
EXTENDS SettingsStore, SequenceTheorems, TLAPS

\* The chain: settled calls have their final answer, queued ones wait, and the one
\* running is applied exactly when its rename is done.
ChainShape ==
    /\ \A i \in 1..chainDone : outcome[i] \notin {"open", "applied"}
    /\ \A i \in (chainDone + 1)..Len(calls) :
          outcome[i] = IF i = Current /\ phase = "renamed" THEN "applied" ELSE "open"
    /\ Running => chainDone < Len(calls) /\ access = "writable"
    /\ phase = "down" => chainDone = Len(calls)

\* The running write: what it put in memory, and what it put in the temporary file.
WriteInFlight ==
    /\ Running => settings = Merge(previous, calls[Current])
    /\ phase = "rename" => tmp = [settings |-> settings, unknown |-> unknown]

IInv == TypeOK /\ MemoryMatchesDisk /\ ChainShape /\ WriteInFlight

LEMMA MergeType ==
    ASSUME NEW s \in Settings, NEW w \in Writes
    PROVE  Merge(s, w) \in Settings
BY WritesAssumption DEF Merge, Settings

LEMMA InitInv == Init => IInv
<1> SUFFICES ASSUME Init PROVE IInv
    OBVIOUS
<1>1. TypeOK
    BY StoreAssumption DEF Init, TypeOK, Files, Phases, Outcomes
<1>2. MemoryMatchesDisk
    BY DEF Init, MemoryMatchesDisk
<1>3. ChainShape /\ WriteInFlight
    BY DEF Init, ChainShape, WriteInFlight, Running
<1>4. QED
    BY <1>1, <1>2, <1>3 DEF IInv

\* Rewriting one answer, or every answer, leaves a sequence of answers of the same length.
LEMMA AnswerType ==
    ASSUME NEW i \in 1..Len(outcome), NEW answer \in Outcomes,
           outcome \in Seq(Outcomes)
    PROVE  /\ [outcome EXCEPT ![i] = answer] \in Seq(Outcomes)
           /\ Len([outcome EXCEPT ![i] = answer]) = Len(outcome)
BY ExceptSeq

LEMMA LostType ==
    ASSUME outcome \in Seq(Outcomes),
           outcome' = [i \in DOMAIN outcome |->
                         IF outcome[i] \in {"open", "applied"} THEN "lost" ELSE outcome[i]]
    PROVE  outcome' \in Seq(Outcomes) /\ Len(outcome') = Len(outcome)
<1>1. DOMAIN outcome = 1..Len(outcome) /\ Len(outcome) \in Nat
    OBVIOUS
<1>2. \A i \in 1..Len(outcome) : outcome'[i] \in Outcomes
    BY <1>1 DEF Outcomes
<1>3. QED
    BY <1>1, <1>2

LEMMA NextInv == IInv /\ [Next]_vars => IInv'
<1> SUFFICES ASSUME IInv, [Next]_vars PROVE IInv'
    OBVIOUS
<1> USE StoreAssumption
<1> USE DEF IInv, disk, memory, queue, counters
<1>1. ASSUME LoadMissing PROVE IInv'
  <2>1. TypeOK'
      BY <1>1, MergeType DEF LoadMissing, TypeOK, Files, Phases, Contents, Current
  <2>2. MemoryMatchesDisk'
      BY <1>1 DEF LoadMissing, TypeOK, MemoryMatchesDisk, ChainShape, WriteInFlight, Running,
         Usable, OnDisk, UnknownOnDisk, Files, Contents, Current
  <2>3. ChainShape'
      BY <1>1 DEF LoadMissing, TypeOK, ChainShape, Running, Current
  <2>4. WriteInFlight'
      BY <1>1 DEF LoadMissing, TypeOK, ChainShape, WriteInFlight, Running, Current
  <2>5. QED
      BY <2>1, <2>2, <2>3, <2>4
<1>2. ASSUME LoadGood PROVE IInv'
  <2>1. TypeOK'
      BY <1>2, MergeType DEF LoadGood, TypeOK, Files, Phases, Contents, Current
  <2>2. MemoryMatchesDisk'
      BY <1>2 DEF LoadGood, TypeOK, MemoryMatchesDisk, ChainShape, WriteInFlight, Running,
         Usable, OnDisk, UnknownOnDisk, Files, Contents, Current
  <2>3. ChainShape'
      BY <1>2 DEF LoadGood, TypeOK, ChainShape, Running, Current
  <2>4. WriteInFlight'
      BY <1>2 DEF LoadGood, TypeOK, ChainShape, WriteInFlight, Running, Current
  <2>5. QED
      BY <2>1, <2>2, <2>3, <2>4
<1>3. ASSUME LoadRefused PROVE IInv'
  <2>1. TypeOK'
      BY <1>3, MergeType DEF LoadRefused, TypeOK, Files, Phases, Contents, Current
  <2>2. MemoryMatchesDisk'
      BY <1>3 DEF LoadRefused, TypeOK, MemoryMatchesDisk, ChainShape, WriteInFlight, Running,
         Usable, OnDisk, UnknownOnDisk, Files, Contents, Current
  <2>3. ChainShape'
      BY <1>3 DEF LoadRefused, TypeOK, ChainShape, Running, Current
  <2>4. WriteInFlight'
      BY <1>3 DEF LoadRefused, TypeOK, ChainShape, WriteInFlight, Running, Current
  <2>5. QED
      BY <2>1, <2>2, <2>3, <2>4
<1>4. ASSUME NEW w \in Writes, EnqueueWrite(w) PROVE IInv'
  <2>1. TypeOK'
      BY <1>4, MergeType DEF EnqueueWrite, TypeOK, Files, Phases, Contents, Current, Outcomes
  <2>2. MemoryMatchesDisk'
      BY <1>4 DEF EnqueueWrite, TypeOK, MemoryMatchesDisk, ChainShape, WriteInFlight, Running,
         Usable, OnDisk, UnknownOnDisk, Files, Contents, Current
  <2>3. ChainShape'
      BY <1>4 DEF EnqueueWrite, TypeOK, ChainShape, Running, Current
  <2>4. WriteInFlight'
      BY <1>4 DEF EnqueueWrite, TypeOK, ChainShape, WriteInFlight, Running, Current
  <2>5. QED
      BY <2>1, <2>2, <2>3, <2>4
<1>5. ASSUME StepRefused PROVE IInv'
  <2>1. TypeOK'
    <3>1. outcome' = [outcome EXCEPT ![Current] = "refused"]
        BY <1>5 DEF StepRefused, Settle
    <3>2. Current \in 1..Len(outcome)
        BY <1>5 DEF StepRefused, Settle, TypeOK, ChainShape, Running, Current
    <3>3. outcome' \in Seq(Outcomes) /\ Len(outcome') = Len(outcome)
        BY <3>1, <3>2, AnswerType DEF TypeOK, Outcomes
    <3>4. QED
        BY <1>5, <3>2, <3>3 DEF StepRefused, Settle, TypeOK, Files, Phases, Contents, Current
  <2>2. MemoryMatchesDisk'
      BY <1>5 DEF StepRefused, Settle, TypeOK, MemoryMatchesDisk, ChainShape, WriteInFlight, Running,
         Usable, OnDisk, UnknownOnDisk, Files, Contents, Current
  <2>3. ChainShape'
      BY <1>5 DEF StepRefused, Settle, TypeOK, ChainShape, Running, Current
  <2>4. WriteInFlight'
      BY <1>5 DEF StepRefused, Settle, TypeOK, ChainShape, WriteInFlight, Running, Current
  <2>5. QED
      BY <2>1, <2>2, <2>3, <2>4
<1>6. ASSUME BeginWrite PROVE IInv'
  <2>1. TypeOK'
      BY <1>6, MergeType DEF BeginWrite, StartWrite, TypeOK, Files, Phases, Contents, Current
  <2>2. MemoryMatchesDisk'
      BY <1>6 DEF BeginWrite, StartWrite, TypeOK, MemoryMatchesDisk, ChainShape, WriteInFlight, Running,
         Usable, OnDisk, UnknownOnDisk, Files, Contents, Current
  <2>3. ChainShape'
      BY <1>6 DEF BeginWrite, StartWrite, TypeOK, ChainShape, Running, Current
  <2>4. WriteInFlight'
      BY <1>6 DEF BeginWrite, StartWrite, TypeOK, ChainShape, WriteInFlight, Running, Current
  <2>5. QED
      BY <2>1, <2>2, <2>3, <2>4
<1>7. ASSUME MakeDirectory PROVE IInv'
  <2>1. TypeOK'
      BY <1>7, MergeType DEF MakeDirectory, TypeOK, Files, Phases, Contents, Current
  <2>2. MemoryMatchesDisk'
      BY <1>7 DEF MakeDirectory, TypeOK, MemoryMatchesDisk, ChainShape, WriteInFlight, Running,
         Usable, OnDisk, UnknownOnDisk, Files, Contents, Current
  <2>3. ChainShape'
      BY <1>7 DEF MakeDirectory, TypeOK, ChainShape, Running, Current
  <2>4. WriteInFlight'
      BY <1>7 DEF MakeDirectory, TypeOK, ChainShape, WriteInFlight, Running, Current
  <2>5. QED
      BY <2>1, <2>2, <2>3, <2>4
<1>8. ASSUME CreateTmp PROVE IInv'
  <2>1. TypeOK'
      BY <1>8, MergeType DEF CreateTmp, TypeOK, Files, Phases, Contents, Current
  <2>2. MemoryMatchesDisk'
      BY <1>8 DEF CreateTmp, TypeOK, MemoryMatchesDisk, ChainShape, WriteInFlight, Running,
         Usable, OnDisk, UnknownOnDisk, Files, Contents, Current
  <2>3. ChainShape'
      BY <1>8 DEF CreateTmp, TypeOK, ChainShape, Running, Current
  <2>4. WriteInFlight'
      BY <1>8 DEF CreateTmp, TypeOK, ChainShape, WriteInFlight, Running, Current
  <2>5. QED
      BY <2>1, <2>2, <2>3, <2>4
<1>9. ASSUME WriteTmp PROVE IInv'
  <2>1. TypeOK'
      BY <1>9, MergeType DEF WriteTmp, TypeOK, Files, Phases, Contents, Current
  <2>2. MemoryMatchesDisk'
      BY <1>9 DEF WriteTmp, TypeOK, MemoryMatchesDisk, ChainShape, WriteInFlight, Running,
         Usable, OnDisk, UnknownOnDisk, Files, Contents, Current
  <2>3. ChainShape'
      BY <1>9 DEF WriteTmp, TypeOK, ChainShape, Running, Current
  <2>4. WriteInFlight'
      BY <1>9 DEF WriteTmp, TypeOK, ChainShape, WriteInFlight, Running, Current
  <2>5. QED
      BY <2>1, <2>2, <2>3, <2>4
<1>10. ASSUME Rename PROVE IInv'
  <2>1. TypeOK'
    <3>1. outcome' = [outcome EXCEPT ![Current] = "applied"]
        BY <1>10 DEF Rename
    <3>2. Current \in 1..Len(outcome)
        BY <1>10 DEF Rename, TypeOK, ChainShape, Running, Current
    <3>3. outcome' \in Seq(Outcomes) /\ Len(outcome') = Len(outcome)
        BY <3>1, <3>2, AnswerType DEF TypeOK, Outcomes
    <3>4. QED
        BY <1>10, <3>2, <3>3 DEF Rename, TypeOK, Files, Phases, Contents, Current
  <2>2. MemoryMatchesDisk'
      BY <1>10 DEF Rename, TypeOK, MemoryMatchesDisk, ChainShape, WriteInFlight, Running,
         Usable, OnDisk, UnknownOnDisk, Files, Contents, Current
  <2>3. ChainShape'
      BY <1>10 DEF Rename, TypeOK, ChainShape, Running, Current
  <2>4. WriteInFlight'
      BY <1>10 DEF Rename, TypeOK, ChainShape, WriteInFlight, Running, Current
  <2>5. QED
      BY <2>1, <2>2, <2>3, <2>4
<1>11. ASSUME RenameFails PROVE IInv'
  <2>1. TypeOK'
      BY <1>11, MergeType DEF RenameFails, TypeOK, Files, Phases, Contents, Current
  <2>2. MemoryMatchesDisk'
      BY <1>11 DEF RenameFails, TypeOK, MemoryMatchesDisk, ChainShape, WriteInFlight, Running,
         Usable, OnDisk, UnknownOnDisk, Files, Contents, Current
  <2>3. ChainShape'
      BY <1>11 DEF RenameFails, TypeOK, ChainShape, Running, Current
  <2>4. WriteInFlight'
      BY <1>11 DEF RenameFails, TypeOK, ChainShape, WriteInFlight, Running, Current
  <2>5. QED
      BY <2>1, <2>2, <2>3, <2>4
<1>12. ASSUME Answer PROVE IInv'
  <2>1. TypeOK'
    <3>1. outcome' = [outcome EXCEPT ![Current] = "acked"]
        BY <1>12 DEF Answer, Settle
    <3>2. Current \in 1..Len(outcome)
        BY <1>12 DEF Answer, Settle, TypeOK, ChainShape, Running, Current
    <3>3. outcome' \in Seq(Outcomes) /\ Len(outcome') = Len(outcome)
        BY <3>1, <3>2, AnswerType DEF TypeOK, Outcomes
    <3>4. QED
        BY <1>12, <3>2, <3>3 DEF Answer, Settle, TypeOK, Files, Phases, Contents, Current
  <2>2. MemoryMatchesDisk'
      BY <1>12 DEF Answer, Settle, TypeOK, MemoryMatchesDisk, ChainShape, WriteInFlight, Running,
         Usable, OnDisk, UnknownOnDisk, Files, Contents, Current
  <2>3. ChainShape'
      BY <1>12 DEF Answer, Settle, TypeOK, ChainShape, Running, Current
  <2>4. WriteInFlight'
      BY <1>12 DEF Answer, Settle, TypeOK, ChainShape, WriteInFlight, Running, Current
  <2>5. QED
      BY <2>1, <2>2, <2>3, <2>4
<1>13. ASSUME WriteFails PROVE IInv'
  <2>1. TypeOK'
    <3>1. outcome' = [outcome EXCEPT ![Current] = "failed"]
        BY <1>13 DEF WriteFails, Rollback, Settle
    <3>2. Current \in 1..Len(outcome)
        BY <1>13 DEF WriteFails, Rollback, Settle, TypeOK, ChainShape, Running, Current
    <3>3. outcome' \in Seq(Outcomes) /\ Len(outcome') = Len(outcome)
        BY <3>1, <3>2, AnswerType DEF TypeOK, Outcomes
    <3>4. QED
        BY <1>13, <3>2, <3>3 DEF WriteFails, Rollback, Settle, TypeOK, Files, Phases, Contents, Current
  <2>2. MemoryMatchesDisk'
      BY <1>13 DEF WriteFails, Rollback, Settle, TypeOK, MemoryMatchesDisk, ChainShape, WriteInFlight, Running,
         Usable, OnDisk, UnknownOnDisk, Files, Contents, Current
  <2>3. ChainShape'
      BY <1>13 DEF WriteFails, Rollback, Settle, TypeOK, ChainShape, Running, Current
  <2>4. WriteInFlight'
      BY <1>13 DEF WriteFails, Rollback, Settle, TypeOK, ChainShape, WriteInFlight, Running, Current
  <2>5. QED
      BY <2>1, <2>2, <2>3, <2>4
<1>14. ASSUME Cleanup PROVE IInv'
  <2>1. TypeOK'
    <3>1. outcome' = [outcome EXCEPT ![Current] = "failed"]
        BY <1>14 DEF Cleanup, Rollback, Settle
    <3>2. Current \in 1..Len(outcome)
        BY <1>14 DEF Cleanup, Rollback, Settle, TypeOK, ChainShape, Running, Current
    <3>3. outcome' \in Seq(Outcomes) /\ Len(outcome') = Len(outcome)
        BY <3>1, <3>2, AnswerType DEF TypeOK, Outcomes
    <3>4. QED
        BY <1>14, <3>2, <3>3 DEF Cleanup, Rollback, Settle, TypeOK, Files, Phases, Contents, Current
  <2>2. MemoryMatchesDisk'
      BY <1>14 DEF Cleanup, Rollback, Settle, TypeOK, MemoryMatchesDisk, ChainShape, WriteInFlight, Running,
         Usable, OnDisk, UnknownOnDisk, Files, Contents, Current
  <2>3. ChainShape'
      BY <1>14 DEF Cleanup, Rollback, Settle, TypeOK, ChainShape, Running, Current
  <2>4. WriteInFlight'
      BY <1>14 DEF Cleanup, Rollback, Settle, TypeOK, ChainShape, WriteInFlight, Running, Current
  <2>5. QED
      BY <2>1, <2>2, <2>3, <2>4
<1>15. ASSUME Crash PROVE IInv'
  <2>1. TypeOK'
    <3>1. outcome' \in Seq(Outcomes) /\ Len(outcome') = Len(outcome)
        BY <1>15, LostType DEF Crash, TypeOK
    <3>2. QED
        BY <1>15, <3>1 DEF Crash, TypeOK, Phases
  <2>2. MemoryMatchesDisk'
      BY <1>15 DEF Crash, TypeOK, MemoryMatchesDisk, ChainShape, WriteInFlight, Running,
         Usable, OnDisk, UnknownOnDisk, Files, Contents, Current
  <2>3. ChainShape'
      BY <1>15 DEF Crash, TypeOK, ChainShape, Running, Current
  <2>4. WriteInFlight'
      BY <1>15 DEF Crash, TypeOK, ChainShape, WriteInFlight, Running, Current
  <2>5. QED
      BY <2>1, <2>2, <2>3, <2>4
<1>16. ASSUME EditByHand PROVE IInv'
  <2>1. TypeOK'
      BY <1>16, MergeType DEF EditByHand, TypeOK, Files, Phases, Contents, Current
  <2>2. MemoryMatchesDisk'
      BY <1>16 DEF EditByHand, TypeOK, MemoryMatchesDisk, ChainShape, WriteInFlight, Running,
         Usable, OnDisk, UnknownOnDisk, Files, Contents, Current
  <2>3. ChainShape'
      BY <1>16 DEF EditByHand, TypeOK, ChainShape, Running, Current
  <2>4. WriteInFlight'
      BY <1>16 DEF EditByHand, TypeOK, ChainShape, WriteInFlight, Running, Current
  <2>5. QED
      BY <2>1, <2>2, <2>3, <2>4
<1>17. CASE UNCHANGED vars
    BY <1>17 DEF vars, TypeOK, MemoryMatchesDisk, ChainShape, WriteInFlight, Running, Usable,
       OnDisk, UnknownOnDisk, Current
<1>18. QED
    BY <1>1, <1>2, <1>3, <1>4, <1>5, <1>6, <1>7, <1>8, <1>9, <1>10, <1>11, <1>12, <1>13, <1>14, <1>15, <1>16, <1>17 DEF Next, Load, WriteStep

\* Every reachable state is well typed, and satisfies the strengthened invariant.
THEOREM Invariance == Spec => []IInv
BY InitInv, NextInv, PTL DEF Spec

\* TypeOK holds of every reachable state.
THEOREM TypeCorrect == Spec => []TypeOK
<1>1. IInv => TypeOK
    BY DEF IInv
<1>2. QED
    BY <1>1, Invariance, PTL

\* MemoryMatchesDisk: the settings served are the settings on disk, whatever failed,
\* crashed or restarted before, and a running write can always be rolled back to them.
THEOREM MemoryIsDurable == Spec => []MemoryMatchesDisk
<1>1. IInv => MemoryMatchesDisk
    BY DEF IInv
<1>2. QED
    BY <1>1, Invariance, PTL

\* FileIsNeverDamaged: only Rename and EditByHand touch the file, and Rename puts
\* a whole settings file there with the unknown top-level keys it found.
THEOREM FileSafety == Spec => FileIsNeverDamaged
<1>1. IInv /\ [Next]_vars =>
        [file' # file =>
           \/ edits' # edits
           \/ /\ access = "writable" /\ Usable
              /\ file' \in Contents
              /\ file'.unknown = UnknownOnDisk(file)]_vars
  <2> SUFFICES ASSUME IInv, Next, file' # file
               PROVE  \/ edits' # edits
                      \/ /\ access = "writable" /\ Usable
                         /\ file' \in Contents
                         /\ file'.unknown = UnknownOnDisk(file)
      OBVIOUS
  <2>1. CASE Rename
      BY <2>1 DEF IInv, Rename, TypeOK, ChainShape, WriteInFlight, MemoryMatchesDisk,
         Running, Contents
  <2>2. CASE EditByHand
      BY <2>2 DEF IInv, EditByHand, TypeOK
  <2>3. ASSUME ~Rename, ~EditByHand PROVE file' = file
      BY <2>3 DEF Next, Load, WriteStep, LoadMissing, LoadGood, LoadRefused, EnqueueWrite,
         StepRefused, BeginWrite, StartWrite, MakeDirectory, CreateTmp, WriteTmp,
         RenameFails, Answer, WriteFails, Cleanup, Rollback, Crash, disk
  <2>4. QED
      BY <2>1, <2>2, <2>3
<1>2. QED
    BY <1>1, Invariance, PTL DEF Spec, FileIsNeverDamaged

\* Every initial state of the store is one of the register.
LEMMA InitRefines == Init => Register!RegInit
BY StoreAssumption
   DEF Init, Register!RegInit, DurableValue, Usable, OnDisk, Files, Contents,
       Register!Settings, Settings

\* Every step of the store is a step of the register, or leaves the register alone.
LEMMA StepRefines == IInv /\ [Next]_vars => [Register!RegNext]_(Register!regVars)
<1> SUFFICES ASSUME IInv, [Next]_vars
             PROVE  Register!RegNext \/ UNCHANGED Register!regVars
    OBVIOUS
<1>1. CASE \/ Load \/ BeginWrite \/ MakeDirectory \/ CreateTmp \/ WriteTmp \/ RenameFails
           \/ UNCHANGED vars
    BY <1>1 DEF Load, LoadMissing, LoadGood, LoadRefused, BeginWrite, StartWrite,
       MakeDirectory, CreateTmp, WriteTmp, RenameFails, vars, disk, queue,
       Register!regVars, DurableValue, Usable, OnDisk
<1>2. ASSUME NEW w \in Writes, EnqueueWrite(w) PROVE Register!RegNext
  <2>1. Register!Call(w)
      BY <1>2 DEF EnqueueWrite, Register!Call, disk, DurableValue, Usable, OnDisk
  <2>2. QED
      BY <2>1 DEF Register!RegNext
<1>3. ASSUME NEW answer \in {"failed", "refused"}, Settle(answer),
             file' = file, chainDone < Len(calls), phase # "renamed"
      PROVE  Register!RegNext
  <2>1. Current \in DOMAIN calls /\ outcome[Current] = "open"
      BY <1>3 DEF IInv, TypeOK, ChainShape, Current
  <2>2. Register!Reject(Current)
      BY <1>3, <2>1 DEF Settle, Register!Reject, DurableValue, Usable, OnDisk
  <2>3. QED
      BY <2>1, <2>2 DEF Register!RegNext
<1>4. CASE StepRefused \/ WriteFails \/ Cleanup
    BY <1>3, <1>4 DEF StepRefused, WriteFails, Cleanup, Rollback, disk, IInv, ChainShape,
       Running
<1>5. CASE Rename
  <2>1. /\ Current \in DOMAIN calls /\ outcome[Current] = "open"
        /\ \A j \in 1..(Current - 1) : outcome[j] # "open"
      BY <1>5 DEF IInv, TypeOK, ChainShape, Current, Running, Rename
  <2>2. /\ DurableValue = previous
        /\ DurableValue' = Merge(previous, calls[Current])
      BY <1>5, StoreAssumption DEF IInv, TypeOK, MemoryMatchesDisk, ChainShape, WriteInFlight, Rename,
         Running, DurableValue, Usable, OnDisk, Contents
  <2>3. Register!Merge(previous, calls[Current]) = Merge(previous, calls[Current])
      BY DEF Register!Merge, Merge
  <2>4. previous \in Register!Settings
      BY DEF IInv, TypeOK, Settings, Register!Settings
  <2>5. Register!Apply(Current)
      BY <1>5, <2>1, <2>2, <2>3, <2>4 DEF Rename, Register!Apply
  <2>6. QED
      BY <2>1, <2>5 DEF Register!RegNext
<1>6. CASE Answer
  <2>1. Current \in DOMAIN calls /\ outcome[Current] = "applied"
      BY <1>6 DEF IInv, TypeOK, ChainShape, Current, Running, Answer
  <2>2. Register!Acknowledge(Current)
      BY <1>6, <2>1 DEF Answer, Settle, Register!Acknowledge, disk, DurableValue, Usable,
         OnDisk
  <2>3. QED
      BY <2>1, <2>2 DEF Register!RegNext
<1>7. CASE Crash
  <2>1. Register!LoseAnswers
      BY <1>7 DEF Crash, Register!LoseAnswers, disk, DurableValue, Usable, OnDisk
  <2>2. QED
      BY <2>1 DEF Register!RegNext
<1>8. CASE EditByHand
  <2>1. DurableValue' \in Register!Settings \cup {Corrupt}
      BY <1>8, StoreAssumption DEF EditByHand, DurableValue, Usable, OnDisk, Files,
         Contents, Settings, Register!Settings
  <2>2. UNCHANGED <<calls, outcome>>
      BY <1>8 DEF EditByHand, queue
  <2>3. Register!EditByHand
      BY <2>1, <2>2 DEF Register!EditByHand
  <2>4. QED
      BY <2>3 DEF Register!RegNext
<1>9. QED
    BY <1>1, <1>2, <1>4, <1>5, <1>6, <1>7, <1>8 DEF Next, WriteStep

\* ImplementsRegister: the store's behaviours, seen as durable settings, calls and
\* their outcomes, are behaviours of the register.
THEOREM Refinement == Spec => ImplementsRegister
<1>1. QED
    BY InitRefines, StepRefines, Invariance, PTL
       DEF Spec, ImplementsRegister, Register!RegSpec

===============================================================================
