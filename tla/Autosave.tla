------------------------------- MODULE Autosave -------------------------------
(***************************************************************************)
(* The typed fields of the settings page                                   *)
(* (src/web/components/NumberField.ts and TimeField.ts), each with its     *)
(* autosave (src/web/settings/autosave.ts): a debounce, a flush when the   *)
(* field is left, a write that may be overtaken by a newer one and a       *)
(* status.  Several of them write one setting as a whole from a shared     *)
(* draft, as the home view and the night hours do                          *)
(* (src/web/pages/settings/Map.ts and Display.ts).  How the store keeps    *)
(* snapshots from edits is SharedStore's; here it is one setting.          *)
(***************************************************************************)
EXTENDS Integers, FiniteSets

CONSTANTS
    Fields,   \* the fields of the setting
    Values,   \* what each may hold
    Nil,      \* no field, nothing typed
    MaxEdits, MaxWrites, MaxOthers \* bounds: what is typed, sent, and set by another device

ASSUME AutosaveAssumption ==
    /\ Fields # {} /\ Values # {} /\ Nil \notin Fields /\ Nil \notin Values /\ "invalid" \notin Values
    /\ {MaxEdits, MaxWrites, MaxOthers} \subseteq Nat

VARIABLES
    focus,     \* document.activeElement, of these fields
    shown,     \* what the focused input says: a value, or something else
    committed, \* of each field
    pending,   \* the fields whose debounce runs
    draft,     \* the setting as the section composes it
    store,     \* as the page's store has it
    server,    \* as the server has it
    newest,    \* inFlightToken of each field
    writes,    \* the writes in flight
    status,    \* of each field's autosave
    owed,      \* history: what was typed in a field and is to be sent
    answered,  \* history: how the newest write of each field that was answered went
    edits, others \* history: for the bounds

saveVars == <<focus, shown, committed, pending, draft, store, server, newest, writes, status, owed, answered,
              edits, others>>

SaveTypeOK ==
    /\ focus \in Fields \cup {Nil} /\ shown \in Values \cup {"invalid", Nil} /\ pending \subseteq Fields
    /\ {committed, draft, store, server} \subseteq [Fields -> Values]
    /\ newest \in [Fields -> Nat]
    /\ writes \subseteq [field : Fields, token : Nat, value : [Fields -> Values], previous : [Fields -> Values]]
    /\ status \in [Fields -> {"idle", "pending", "saving", "saved", "error"}]

-------------------------------------------------------------------------------
(* The section. *)

\* Mutant of Emitted: what the store says is shown in the field that is typed in too.
EmittedToAll(value) ==
    /\ store' = value
    /\ draft' = value
    /\ committed' = value

\* The section's effect on the store: the field in focus, and its part of the draft, are left.
Emitted(value) ==
    /\ store' = value
    /\ draft' = [f \in Fields |-> IF f = focus' THEN draft[f] ELSE value[f]]
    /\ committed' = [f \in Fields |-> IF f = focus' THEN committed[f] ELSE value[f]]

\* runWrite, with the field's value as its input has left it in `typed`.
RunWrite(f, typed) ==
    LET sent == [draft EXCEPT ![f] = typed]
    IN  /\ newest' = [newest EXCEPT ![f] = @ + 1]
        /\ writes' = writes \cup {[field |-> f, token |-> newest[f] + 1, value |-> sent, previous |-> store]}
        /\ store' = sent
        /\ draft' = [g \in Fields |-> IF g = focus' /\ g # f THEN draft[g] ELSE sent[g]]
        /\ committed' = [g \in Fields |-> IF g = focus' THEN committed[g] ELSE sent[g]]
        /\ status' = [status EXCEPT ![f] = "saving"]
        /\ pending' = pending \ {f}
        /\ owed' = [owed EXCEPT ![f] = IF typed = @ THEN Nil ELSE @]

SaveInit ==
    /\ focus = Nil /\ shown = Nil /\ pending = {} /\ writes = {} /\ edits = 0 /\ others = 0
    /\ server \in [Fields -> Values] /\ committed = server /\ draft = server /\ store = server
    /\ newest = [f \in Fields |-> 0] /\ status = [f \in Fields |-> "idle"]
    /\ owed = [f \in Fields |-> Nil] /\ answered = [f \in Fields |-> [token |-> 0, how |-> "none"]]

-------------------------------------------------------------------------------
(* The field. *)

Enter(f) ==
    /\ focus = Nil /\ focus' = f /\ shown' = committed[f]
    /\ UNCHANGED <<committed, pending, draft, store, server, newest, writes, status, owed, answered, edits, others>>

Edit == edits < MaxEdits /\ edits' = edits + 1

\* A keystroke that leaves a value the schema takes.
TypeValid(v) ==
    /\ Edit /\ focus # Nil /\ v # shown /\ shown' = v
    /\ committed' = [committed EXCEPT ![focus] = v]
    /\ pending' = pending \cup {focus} /\ status' = [status EXCEPT ![focus] = "pending"]
    /\ owed' = [owed EXCEPT ![focus] = v]
    /\ UNCHANGED <<focus, draft, store, server, newest, writes, answered, others>>

\* One that leaves anything else: what was typed before is not sent any more.
TypeInvalid ==
    /\ Edit /\ focus # Nil /\ shown # "invalid" /\ shown' = "invalid"
    /\ pending' = pending \ {focus}
    /\ status' = IF focus \in pending THEN [status EXCEPT ![focus] = "idle"] ELSE status
    /\ owed' = [owed EXCEPT ![focus] = Nil]
    /\ UNCHANGED <<focus, committed, draft, store, server, newest, writes, answered, others>>

Writes == Cardinality(writes) < MaxWrites

DebounceFires(f) ==
    /\ Writes /\ f \in pending /\ UNCHANGED focus /\ RunWrite(f, committed[f])
    /\ UNCHANGED <<shown, server, answered, edits, others>>

\* blur, or Enter: an invalid input goes back to what is committed, and what is pending is sent.
Leave ==
    /\ focus # Nil /\ focus' = Nil /\ shown' = Nil
    /\ IF focus \in pending
       THEN Writes /\ RunWrite(focus, committed[focus])
       ELSE UNCHANGED <<committed, pending, draft, store, newest, writes, status, owed>>
    /\ UNCHANGED <<server, answered, edits, others>>

-------------------------------------------------------------------------------
(* Answers. *)

Superseded(w) == w.token # newest[w.field]

Settled(w, how) ==
    /\ writes' = writes \ {w}
    /\ status' = IF Superseded(w) THEN status ELSE [status EXCEPT ![w.field] = how]
    /\ answered' = [answered EXCEPT ![w.field] =
                       IF w.token > @.token THEN [token |-> w.token, how |-> how] ELSE @]
    /\ UNCHANGED <<focus, shown, pending, newest, owed, edits, others>>

\* The server's document comes back; a newer write in flight keeps its own value on the page.
WriteSucceeds(w) ==
    /\ w \in writes /\ Settled(w, "saved")
    /\ server' = w.value /\ Emitted(IF writes = {w} THEN w.value ELSE store)

\* It is refused, and the store goes back to what it had.
WriteFails(w) ==
    /\ w \in writes /\ Settled(w, "error")
    /\ Emitted(w.previous) /\ UNCHANGED server

\* The status line forgets a success.
SavedExpires(f) ==
    /\ status[f] = "saved" /\ status' = [status EXCEPT ![f] = "idle"]
    /\ UNCHANGED <<focus, shown, committed, pending, draft, store, server, newest, writes, owed, answered, edits, others>>

\* retry, from the status of a write that failed: it sends what is committed by then.
Retry(f) ==
    /\ Edit /\ Writes /\ status[f] = "error" /\ UNCHANGED focus /\ RunWrite(f, committed[f])
    /\ UNCHANGED <<shown, server, answered, others>>

\* The poll brings what the server has.
Poll ==
    /\ UNCHANGED focus /\ Emitted(IF writes = {} THEN server ELSE store)
    /\ UNCHANGED <<shown, pending, server, newest, writes, status, owed, answered, edits, others>>

OtherDevice(value) ==
    /\ others < MaxOthers /\ others' = others + 1 /\ value # server /\ server' = value
    /\ UNCHANGED <<focus, shown, committed, pending, draft, store, newest, writes, status, owed, answered, edits>>

SaveNext ==
    \/ \E f \in Fields : Enter(f) \/ DebounceFires(f) \/ SavedExpires(f) \/ Retry(f)
    \/ \E v \in Values : TypeValid(v)
    \/ TypeInvalid \/ Leave \/ Poll
    \/ \E w \in writes : WriteSucceeds(w) \/ WriteFails(w)
    \/ \E value \in [Fields -> Values] : OtherDevice(value)

SaveSpec == SaveInit /\ [][SaveNext]_saveVars

-------------------------------------------------------------------------------
(* Correctness. *)

\* What is typed and left as it is reaches the server as typed: until it is sent its debounce
\* runs, the field is still the one in focus, and no snapshot or answer has changed it.
TypedIsSent ==
    \A f \in Fields : owed[f] # Nil => f \in pending /\ f = focus /\ committed[f] = owed[f]

\* The status of a field whose debounce does not run is that of its newest write: an older one
\* that comes back late, having failed or not, says nothing.
StatusIsTheNewestWrites ==
    \A f \in Fields \ pending :
        /\ status[f] \in {"saved", "error"} => answered[f] = [token |-> newest[f], how |-> status[f]]
        /\ status[f] = "saving" => \E w \in writes : w.field = f /\ w.token = newest[f]

\* Both: an edit is sent as it was typed, and the status line tells how that went.
EditsAreKept == TypedIsSent /\ StatusIsTheNewestWrites

===============================================================================
