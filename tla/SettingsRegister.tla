--------------------------- MODULE SettingsRegister ---------------------------
(***************************************************************************)
(* What the settings file store promises its callers, with no mention of   *)
(* memory, temporary files or a write chain: one durable value, and write  *)
(* calls that take effect on it one at a time, in call order, each at most *)
(* once.  A call that is acknowledged took effect; one that is refused or  *)
(* fails did not; one whose answer is lost in a crash may or may not have. *)
(* SettingsStore implements this (SettingsStore!Register).                 *)
(***************************************************************************)
EXTENDS Naturals, Sequences, SettingsValues

CONSTANT
    Unusable    \* the durable value of a file nobody can parse

VARIABLES
    value,      \* the durable settings, or Unusable
    calls,      \* every write ever called, in call order
    outcome     \* outcome[i]: what became of calls[i]

regVars == <<value, calls, outcome>>

Outcomes == {"open", "applied", "acked", "failed", "refused", "lost"}

RegTypeOK ==
    /\ value \in Settings \cup {Unusable}
    /\ calls \in Seq(Writes)
    /\ outcome \in Seq(Outcomes)
    /\ Len(outcome) = Len(calls)

RegInit ==
    /\ value \in Settings \cup {Unusable}
    /\ calls = <<>>
    /\ outcome = <<>>

Call(w) ==
    /\ calls' = Append(calls, w)
    /\ outcome' = Append(outcome, "open")
    /\ UNCHANGED value

\* Call i takes effect, after every earlier call has taken effect or never will.
Apply(i) ==
    /\ outcome[i] = "open"
    /\ \A j \in 1..(i - 1) : outcome[j] # "open"
    /\ value \in Settings
    /\ value' = Merge(value, calls[i])
    /\ outcome' = [outcome EXCEPT ![i] = "applied"]
    /\ UNCHANGED calls

Acknowledge(i) ==
    /\ outcome[i] = "applied"
    /\ outcome' = [outcome EXCEPT ![i] = "acked"]
    /\ UNCHANGED <<value, calls>>

Reject(i) ==
    /\ outcome[i] = "open"
    /\ \E answer \in {"failed", "refused"} :
           outcome' = [outcome EXCEPT ![i] = answer]
    /\ UNCHANGED <<value, calls>>

\* The process dies: no call still waiting for its answer will get one.
LoseAnswers ==
    /\ outcome' = [i \in DOMAIN outcome |->
                      IF outcome[i] \in {"open", "applied"} THEN "lost" ELSE outcome[i]]
    /\ UNCHANGED <<value, calls>>

\* A person replaces the file.
EditByHand ==
    /\ value' \in Settings \cup {Unusable}
    /\ UNCHANGED <<calls, outcome>>

RegNext ==
    \/ \E w \in Writes : Call(w)
    \/ \E i \in DOMAIN calls : Apply(i) \/ Acknowledge(i) \/ Reject(i)
    \/ LoseAnswers
    \/ EditByHand

RegSpec == RegInit /\ [][RegNext]_regVars

===============================================================================
