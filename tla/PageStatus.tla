------------------------------ MODULE PageStatus ------------------------------
(***************************************************************************)
(* What the pages tell the masthead and the footer                         *)
(* (src/web/shell/page-status.ts): slots any page may write, of which      *)
(* during a slide two pages are alive and want to.  The map is the one     *)
(* that says most: it loads its code after it has been rendered, and adds  *)
(* up what its live layers report (src/web/pages/map/layers.ts).  The      *)
(* masthead opens its list of what is drawn from the listing slot.         *)
(***************************************************************************)
EXTENDS Integers, FiniteSets

CONSTANTS
    Slots,     \* ALL_SLOTS, "listing" and "counts" among them
    Publishes, \* the pages, each with the slots it writes by itself
    Map,       \* the map among them
    Groups,    \* LIVE_LAYER_GROUP_IDS
    Null,      \* no page, nothing in a slot, no list open
    MaxClaims, MaxSaid \* bounds: how often pages are rendered, and what one says

ASSUME PageStatusAssumption ==
    /\ {"listing", "counts"} \subseteq Slots /\ Map \in DOMAIN Publishes
    /\ \A p \in DOMAIN Publishes : Publishes[p] \subseteq Slots
    /\ MaxClaims \in Nat /\ MaxSaid \in Nat

\* "(map only)": no other page has anything to list.
ASSUME OnlyMapAssumption ==
    \A p \in DOMAIN Publishes \ {Map} : "listing" \notin Publishes[p] /\ "counts" \notin Publishes[p]

ASSUME NullAssumption ==
    /\ Null \notin Nat /\ Null \notin Groups /\ Null \notin [Groups -> Nat]
    /\ Null \notin [page : DOMAIN Publishes, claim : Nat, phase : {"loading", "layers", "up", "failed"}]

VARIABLES
    generation, \* statusGeneration
    slots,      \* what each slot holds, and the generation that wrote it
    screen,     \* the page that is mounted
    incoming,   \* the one that slides in
    activeMap,  \* activeMapInstance, by the claim of its page
    counts,     \* what the layers of the live map have reported
    openGroup,  \* the group whose list the masthead has open
    said        \* history: the last each page alive meant a slot to hold

statusVars == <<generation, slots, screen, incoming, activeMap, counts, openGroup, said>>

Silent == [s \in Slots |-> Null]
Empty == [value |-> Null, writtenAt |-> 0]
NoCounts == [g \in Groups |-> 0]

Alive == {p \in {screen, incoming} : p # Null}
Newest == IF incoming = Null THEN screen ELSE incoming

-------------------------------------------------------------------------------
(* Slots. *)

\* write: only the newest claim is heard.
Written(all, claim, s, value) ==
    IF claim # generation THEN all ELSE [all EXCEPT ![s] = [value |-> value, writtenAt |-> generation]]

\* Mutant of Released: a release clears every slot.
ReleasedAll(all, claim) == [s \in Slots |-> Empty]

\* release: a slot a later page has written to is spared.
Released(all, claim) ==
    [s \in Slots |-> IF all[s].writtenAt > claim THEN all[s] ELSE Empty]

\* The masthead's effect on the listing: off the map its list closes.
Shut(all) == IF all["listing"].value = Null THEN Null ELSE openGroup

-------------------------------------------------------------------------------
(* Pages. *)

Rendered(page, claim) ==
    [page |-> page, claim |-> claim, phase |-> IF page = Map THEN "loading" ELSE "up"]

\* The pages that are disposed of in turn, and what is left in the slots.
Unmount(gone, all) ==
    /\ slots' = all /\ openGroup' = Shut(all)
    /\ activeMap' = IF activeMap \in {p.claim : p \in gone} THEN Null ELSE activeMap
    /\ counts' = IF \E p \in gone : p.page = Map THEN NoCounts ELSE counts

PageInit ==
    /\ generation = 1 /\ slots = [s \in Slots |-> Empty]
    /\ \E p \in DOMAIN Publishes : screen = Rendered(p, 1)
    /\ incoming = Null /\ activeMap = Null /\ counts = NoCounts /\ openGroup = Null
    /\ said = [c \in {1} |-> Silent]

Claims == generation < MaxClaims /\ generation' = generation + 1

\* slideTo: the incoming page claims the slots while the other is on screen.
StartSlide(p) ==
    /\ Claims /\ incoming = Null /\ p # screen.page
    /\ incoming' = Rendered(p, generation')
    /\ said' = [c \in DOMAIN said \cup {generation'} |-> IF c = generation' THEN Silent ELSE said[c]]
    /\ UNCHANGED <<slots, screen, activeMap, counts, openGroup>>

\* The slide's end.
FinishSlide ==
    /\ incoming # Null
    /\ Unmount({screen}, Released(slots, screen.claim))
    /\ screen' = incoming /\ incoming' = Null
    /\ said' = [c \in {incoming.claim} |-> said[c]]
    /\ UNCHANGED generation

\* mountNow, alone or once a slide has been cancelled: what there was is disposed of first.
MountNow(p) ==
    /\ Claims
    /\ LET first == IF incoming = Null THEN slots ELSE Released(slots, incoming.claim)
       IN  Unmount(Alive, Released(first, screen.claim))
    /\ screen' = Rendered(p, generation') /\ incoming' = Null
    /\ said' = [c \in {generation'} |-> Silent]

Live(p) == p \in Alive /\ p.phase = "up"

\* A page other than the map writes a slot of its own: a credit, how fresh its answer is, the
\* login line, or null again.
Publish(p, s, value) ==
    /\ Live(p) /\ p.page # Map /\ s \in Publishes[p.page]
    /\ slots' = Written(slots, p.claim, s, value) /\ said' = [said EXCEPT ![p.claim][s] = value]
    /\ openGroup' = Shut(slots')
    /\ UNCHANGED <<generation, screen, incoming, activeMap, counts>>

-------------------------------------------------------------------------------
(* The map. *)

TheMap == {p \in Alive : p.page = Map}
InPhase(p, phase) == IF p = Null THEN Null ELSE IF p.page = Map THEN [p EXCEPT !.phase = phase] ELSE p

\* Leaflet and the settings of the map have come.
MapLoads ==
    /\ \E p \in TheMap : p.phase = "loading" /\ activeMap' = p.claim
    /\ screen' = InPhase(screen, "layers") /\ incoming' = InPhase(incoming, "layers")
    /\ UNCHANGED <<generation, slots, counts, openGroup, said>>

\* The code of the layers has: they are mounted and say that there is nothing yet.
LayersMount ==
    \E p \in TheMap :
        /\ p.phase = "layers"
        /\ slots' = Written(Written(slots, p.claim, "counts", NoCounts), p.claim, "listing", NoCounts)
        /\ said' = [said EXCEPT ![p.claim]["counts"] = NoCounts, ![p.claim]["listing"] = NoCounts]
        /\ screen' = InPhase(screen, "up") /\ incoming' = InPhase(incoming, "up")
        /\ UNCHANGED <<generation, activeMap, counts, openGroup>>

\* Either has not: the map is cleaned up, and its page says that it is unavailable.
MapFails ==
    /\ \E p \in TheMap : p.phase \in {"loading", "layers"}
    /\ screen' = InPhase(screen, "failed") /\ incoming' = InPhase(incoming, "failed")
    /\ activeMap' = Null
    /\ UNCHANGED <<generation, slots, counts, openGroup, said>>

\* reportCount and reportItems of one layer, which go together.
LayerReports(g, n) ==
    \E p \in TheMap :
        /\ p.phase = "up" /\ counts[g] # n /\ counts' = [counts EXCEPT ![g] = n]
        /\ slots' = Written(Written(slots, p.claim, "counts", counts'), p.claim, "listing", counts')
        /\ said' = [said EXCEPT ![p.claim]["counts"] = counts', ![p.claim]["listing"] = counts']
        /\ UNCHANGED <<generation, screen, incoming, activeMap, openGroup>>

\* toggleGroup, and a row of the list that is open: a count that is shown can be tapped.
ToggleGroup(g) ==
    /\ IF slots["counts"].value = Null THEN FALSE ELSE slots["counts"].value[g] > 0
    /\ openGroup' = IF openGroup = g THEN Null ELSE g
    /\ UNCHANGED <<generation, slots, screen, incoming, activeMap, counts, said>>

PageNext ==
    \/ \E p \in DOMAIN Publishes : StartSlide(p)
    \/ \E p \in DOMAIN Publishes : MountNow(p)
    \/ FinishSlide \/ MapLoads \/ LayersMount \/ MapFails
    \/ \E p \in Alive, s \in Slots, value \in 0..MaxSaid \cup {Null} : Publish(p, s, value)
    \/ \E g \in Groups, n \in 0..MaxSaid : LayerReports(g, n)
    \/ \E g \in Groups : ToggleGroup(g)

PageSpec == PageInit /\ [][PageNext]_statusVars

-------------------------------------------------------------------------------
(* Correctness. *)

\* Through slides, slides cut short and late loads the slots hold what the newest page has last
\* said, none of a page that is gone, and in between only what the page still on screen said
\* before.  The list that is open is of a map that is alive.
StatusIsTheLivePages ==
    /\ \A s \in Slots :
        LET value == slots[s].value IN
        IF said[Newest.claim][s] # Null THEN value = said[Newest.claim][s]
        ELSE value = Null \/ (incoming # Null /\ slots[s].writtenAt = screen.claim)
    /\ openGroup # Null => TheMap # {}
    /\ activeMap \in {Null} \cup {p.claim : p \in TheMap}

===============================================================================
