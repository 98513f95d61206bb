-------------------------------- MODULE Species --------------------------------
(***************************************************************************)
(* The species layer between GBIF's occurrence search and the sightings    *)
(* that are served (src/server/species/gbif.ts, occurrences.ts and         *)
(* routes/species.ts).  A search is the sequence of pages that GBIF would  *)
(* answer with, each Absent where the request for it fails; the number of  *)
(* matches on a page is Absent where it cannot be read.                    *)
(***************************************************************************)
EXTENDS StaleCache, SequencesExt, FiniteSetsExt, Lists, Viewports

CONSTANTS
    PageLimit,     \* GBIF_PAGE_LIMIT
    MaxRawRecords, \* GBIF_MAX_RAW_RECORDS
    SightingsCap,  \* SIGHTINGS_CAP
    PlaceStep      \* 10^-GROUP_POSITION_DECIMALS

ValidDays == <<7, 30, 90, 365>>
DefaultDays == 30

\* The nearest window on offer, the shorter of two as near; none asked for is a month.
ParseDaysParam(value) ==
    LET far(i) == IF value > ValidDays[i] THEN value - ValidDays[i] ELSE ValidDays[i] - value
    IN  IF value = Absent THEN DefaultDays
        ELSE ValidDays[CHOOSE i \in 1..4 : \A j \in 1..4 : far(i) < far(j) \/ (far(i) = far(j) /\ i <= j)]

-------------------------------------------------------------------------------
(* fetchGbifOccurrences. *)

With(records, page) == records \o page.results

\* The records of the first k pages.
Upto(pages, k) ==
    LET records[j \in 0..k] == IF j = 0 THEN <<>> ELSE With(records[j - 1], pages[j])
    IN  records[k]

\* A number of matches that cannot be read is taken for none.
Matches(page) == IF page.count = Absent THEN 0 ELSE page.count

\* The match is covered, enough has been read, or GBIF has no more.
Stops(pages, k) ==
    \/ Len(Upto(pages, k)) >= Matches(pages[k])
    \/ Len(Upto(pages, k)) >= MaxRawRecords
    \/ Len(pages[k].results) < PageLimit

\* The last page read: the first to stop at, or the one before the first that fails.
LastPage(pages) ==
    CHOOSE k \in DOMAIN pages :
        /\ \A j \in 1..k : pages[j] # Absent
        /\ \A j \in 1..(k - 1) : ~Stops(pages, j)
        /\ Stops(pages, k) \/ pages[k + 1] = Absent

\* The first page failing fails the search; a later one ends it with what there is.  The total
\* is what the last page read says it is.
FetchGbifOccurrences(pages) ==
    IF pages[1] = Absent THEN Absent
    ELSE [records |-> Upto(pages, LastPage(pages)), total |-> Matches(pages[LastPage(pages)])]

-------------------------------------------------------------------------------
(* mapOccurrences. *)

\* A record needs a species, a date that can be read, a place and a name.
Normalized(r) == r.readable /\ r.species # Absent /\ r.date # Absent /\ r.point # Absent

RoundForGrouping(v) == (2 * v + PlaceStep) \div (2 * PlaceStep)
GroupId(r) == <<r.species, RoundForGrouping(r.point[1]), RoundForGrouping(r.point[2])>>

LicenseRank(license) ==
    CASE license = "CC0" -> 0
      [] license = "CC BY" -> 1
      [] license \in {"CC BY-NC", "CC BY-SA", "CC BY-NC-SA"} -> 2
      [] license = "CC BY-NC-ND" -> 3
      [] OTHER -> 4

\* Of the places I of a list, the one with the newest record, the first listed of two as new.
NewestOf(records, I) ==
    CHOOSE i \in I :
        \A j \in I : \/ records[j].date < records[i].date
                     \/ (records[j].date = records[i].date /\ i <= j)

\* The individuals of the records that tell how many.
Individuals(records) ==
    LET counted == {i \in DOMAIN records : records[i].individuals # Absent /\ records[i].individuals > 0}
    IN  IF counted = {} THEN Absent ELSE MapThenSumSet(LAMBDA i : records[i].individuals, counted)

\* What is known of how far the newest place may be wrong.
Uncertainty(records) ==
    LET told == {i \in DOMAIN records : records[i].uncertainty # Absent}
    IN  IF told = {} THEN Absent ELSE records[NewestOf(records, told)].uncertainty

\* The newest record speaks for its group; counts add up, and no reuse right is granted that one
\* of the records withholds.
Sighting(id, records) ==
    LET of == Kept(records, {r \in ToSet(records) : GroupId(r) = id})
        newest == of[NewestOf(of, DOMAIN of)]
    IN  [id |-> id, observedAt |-> newest.date, point |-> newest.point, count |-> Len(of),
         individualCount |-> Individuals(of), uncertainty |-> Uncertainty(of),
         license |-> Max({LicenseRank(of[i].license) : i \in DOMAIN of}),
         datasets |-> {of[i].dataset : i \in DOMAIN of}]

\* SightingSchema: the newest record's place is on Earth, and no distance is below zero.
IsSighting(s) ==
    /\ Within([lat |-> s.point[1], lng |-> s.point[2]], Earth)
    /\ s.uncertainty = Absent \/ s.uncertainty >= 0

\* Mutant of Truncated: only the groups that were cut count.
TruncatedByCap(total, fetched, groups) == groups > SightingsCap

Truncated(total, fetched, groups) == total > fetched \/ groups > SightingsCap

\* The newest groups up to the cap, those found first when as new, of the ones the contract
\* takes; the others are gone whole, and before the cap is counted.
MapOccurrences(records, total) ==
    LET good == Kept(records, {r \in ToSet(records) : Normalized(r)})
        found(id) == CHOOSE i \in DOMAIN good : GroupId(good[i]) = id /\ \A j \in 1..(i - 1) : GroupId(good[j]) # id
        all == {Sighting(GroupId(r), good) : r \in ToSet(good)}
        groups == {s \in all : IsSighting(s)}
        before(s, t) == s.observedAt > t.observedAt \/ (s.observedAt = t.observedAt /\ found(s.id) < found(t.id))
    IN  [sightings |-> {s \in groups : Cardinality({t \in groups : before(t, s)}) < SightingsCap},
         truncated |-> Truncated(total, Len(records), Cardinality(groups)),
         refused |-> all \ groups, dropped |-> Len(records) - Len(good)]

===============================================================================
