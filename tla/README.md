# Formal models of area-overview

area-overview is a public information display. A Fastify server (`src/src/server`)
proxies and caches weather, tide, aurora, traffic, ships, aircraft and warnings, and
keeps a small file of shared settings. A browser app (`src/src/web`) runs on a wall
kiosk and on visitors' phones: it cycles through pages, draws live layers on a map and
edits the settings. This directory holds TLA+ specifications of its stateful parts, the
TLC configurations that check them on small instances, and proofs that TLAPS checks for
every value of the constants.

Paths in this file are relative to `src/src/`. "Window", "page", "load" and the like
mean what the code means by them; a `Max...` constant is a bound of the model.

## 1. The system

| part | state it keeps | operations | what is hard | correct means |
| --- | --- | --- | --- | --- |
| Settings file store (`server/settings/store.ts`, `server/routes/settings.ts`) | settings in memory, the file, its `.tmp`, a promise chain of writes, a reason to refuse writes | load, patch, setPlacement, the step of the chain, rollback | writes that overlap, a file system call that fails half way, a crash between two awaits, a file repaired by hand | memory and disk agree between writes, the file is always whole, every call is answered, one write's effect is never lost under another's |
| Settings page (`web/settings/sharedStore.ts`, `localOverrides.ts`, `session.ts`) | optimistic copy, pending count per field, device overrides, login | update, setPlacement, merge of a snapshot, rollback, clear an override | polls, writes and answers cross on the network; answers are lost; another device writes | counts are exact, an edit in flight is not overwritten, the page ends up showing what the server holds |
| Autosave (`web/settings/autosave.ts`, `web/components/NumberField.ts`, `TimeField.ts`, `web/pages/settings/Map.ts`, `Display.ts`) | focus, the committed value and the debounce of each field, a draft shared by the fields of one setting, a token and a status per field | type, leave, debounce, write, retry | a slow write overtaken by a newer one; snapshots that arrive while somebody types | what is typed is sent as typed, the status shown is that of the newest write |
| Outbound gate (`server/outbound-gate.ts`) | tokens, time of the last refill | tryTake | a wall clock that is stepped back | every window of calls is within the budget |
| Cache and cached routes (`server/cache.ts`, `server/route-helpers.ts`, `server/routes/*.ts`) | LRU map with expiry, loads in flight | get, getOrLoad, set, serveCached, a transform per request | requests interleave at every await, loads fail, entries expire and are evicted under a reader | one load per key, fresh means fresh, a failed load answers everyone, the private weather station stays private |
| Ships snapshot and token (`server/ships/*.ts`) | the nationwide snapshot, last attempt, last failure, OAuth token | ships(), fetch, one retry after a 401 | callers arrive during a fetch; a token expires or is revoked between check and use | one attempt per window, a bound on the age of what is served, recovery |
| Trails (`server/trails/*.ts`) | recent points and last fix of each vessel | record, trailFor, latestIn, poll | the poller and the routes record at once, in any order | who is remembered, for how long, in what order |
| Aircraft (`server/aircraft/provider.ts`, `flight-routes.ts`) | the OpenSky slot and its last answer, the known flight routes | the two feeds, the slot, the merge of two networks, the lookups | two callers share one account-wide slot and want different viewports | one call per interval, an answer covers what was asked |
| Warnings (`server/routes/warnings.ts`, `server/warnings/*.ts`) | caches of the MET half, the regional roster and each region | load with stale fallback, clip, pin | halves and regions fail one by one | incompleteness is always reported, a danger is not forgotten |
| Roads, species, transit (`server/roads`, `server/species`, `server/transit`, their routes) | what upstream sent, held for a TTL | group, classify, page, cap, thin out | records reorder, end, age and fail to parse while they are held | what is served is right when it is served, and says when it is short |
| Signals, resource, router (`web/core/*.ts`, `web/pages/map/liveLayerMount.ts`) | a generation and a timer per resource, the current route | load, refresh, refetch after a move, dispose | overlapping loads, visibility changes, back-off; effects that track more than they name | no stale result is published, one timer at most |
| Live layers and follow mode (`web/pages/map/*.ts`) | the last answer, what is drawn, the open popup or dialog, the follow | redraw, open, choose, follow, gesture, zoom, switch off | answers, settings and taps redraw under an open popup; layers go while followed | what is listed is drawn, popups tell the truth, a follow ends |
| Trails on the map (`web/pages/map/trailLayer.ts`) | points, segments and head of each vessel | update, animate, forget | points age while nothing new is heard | nothing outdated stays drawn |
| Page status (`web/shell/page-status.ts`, `web/pages/map/layers.ts`, `web/shell/Masthead.ts`) | a generation, a slot per message and who wrote it | claim, write, release, late loading of the map | two pages are alive during a slide, a third may have been cut short | the masthead speaks of the newest page |
| Shell (`web/shell/AppShell.ts`, `autoCycle.ts`, `idle.ts`) | mounted page, slide in flight, slideshow timer, idle timer, pause, holds | mount, slide, cycle, navigate, idle reset | every timer, tap, poll and queued event may fall inside a slide | each page rendered is disposed of once, what is shown is what the address says, timers run when they should |
| Night overlay, pages, wording | one timer, DOM | render | presentation | see section 8 |

How they interact: routes call the cache, whose loads call an upstream client behind a
gate; ships and aircraft routes also record into the trail store, which the poller feeds
too, through the same ships snapshot. The settings page writes through the settings
routes onto the store's chain and polls the result back; the resulting settings drive
the shell's two timers and the map's layers. A layer's resource polls its route; the
layer draws the answers, reports to the masthead through page status, and a follow on it
takes a hold on the slideshow.

`PROJECT.json` lists every component with its status, and every hazard at its line.

## 2. The modules

| module | extends / instantiates | what it specifies |
| --- | --- | --- |
| `SettingsValues` | | settings as functions from keys to values, and the merge of a write |
| `SettingsRegister` | `SettingsValues` | abstract: a register of durable settings with ordered, at-most-once writes |
| `SettingsStore` | `SettingsValues`, instance of `SettingsRegister` | the file store and the routes that call it |
| `SharedStore` | | the settings page, the network, the server and the other devices |
| `Autosave` | | the typed fields above that store |
| `OutboundGate` | | the token bucket; also the abstract specification of a gated client |
| `ProxiedRoute` | `OutboundGate` | a gated cached route: cache, `serveCached`, transform |
| `ShipsSnapshot` | | the snapshot, its fetch and its token |
| `Lists` | | what a filter keeps of a sequence, as a recursive function |
| `TrailStore` | `Lists` | the trail store with its poller and its routes |
| `Viewports` | | rectangles and points: clamping, snapping, margins, radius queries |
| `Geo` | `Viewports` | a region's outline clipped to a viewport, and its pin |
| `StaleCache` | | a clock, and a load that falls back on what is held |
| `Warnings` | `Geo`, `StaleCache` | the warnings route with its two halves |
| `Roads`, `Species`, `Transit` | `StaleCache`; the first two `Lists` | from upstream's records to what those layers serve |
| `LayerRoutes` | `Roads`, `Species`, `Transit` | their cached routes |
| `Aircraft` | `OutboundGate`, `Viewports` | the aircraft providers behind the gate, and the flight routes |
| `Shell` | | shell, slideshow, idle reset and router |
| `Resource` | | the polled resource as a live layer holds it |
| `Glyphs` | `Lists` | pure: age, motion, clustering and trails of vessels |
| `LiveLayer` | `Glyphs` | one live layer with its popups, and follow mode |
| `TrailLayer` | `Glyphs` | the trails drawn behind vessels |
| `PageStatus` | | what the pages tell the masthead |
| `SettingsStoreProofs`, `SharedStoreProofs`, `TrailStoreProofs`, `ShellProofs` | the module of the name, TLAPS | the theorems about that module |
| `UpstreamProofs` | `ProxiedRoute`, `ShipsSnapshot`, TLAPS | the gate, the cached route behind it, the snapshot of ships |
| `LayersProofs` | `Warnings`, `LayerRoutes`, `Aircraft`, `ListProofs` | the server's live layers and the viewports they are asked for |
| `WebProofs` | `Resource`, `Autosave`, `PageStatus`, `LiveLayer`, `TrailLayer`, `ListProofs` | what the browser keeps for its pages |
| `ListProofs` | `Lists`, TLAPS | lemmas about filters and counts, by induction |
| `MC...` | its module | the small instance TLC checks |

`MCLayers` and `MCWeb` each hold several modules at once. The parts in them share code or a
page, not state, so a behaviour picks one part at the start (`which`) and the others stand
still: the run covers each part on its own, not their product. `UpstreamProofs`,
`LayersProofs` and `WebProofs` hold the proofs about several modules in the same way; each
theorem in them is about the specification of one module.

### SettingsStore

The promise chain is `calls` with `outcome`; `chainDone` says how far it has settled and
`phase` where the running step stands. Each `await` of a step is a separate action
(`MakeDirectory`, `CreateTmp`, `WriteTmp`, `Rename`, `Answer`, and the failures
`WriteFails`, `RenameFails`, `Cleanup`), so `Crash` may fall between any two of them and
`EnqueueWrite` may add to the chain at any time. `BeginWrite` merges onto the settings it
finds when it runs, which is what the chain exists for. `CreateTmp` truncates the
temporary file before `WriteTmp` fills it, and a crash leaves it as it is. `Load...`
models the three ways to boot, among them the refusal to overwrite a file that does not
parse; `EditByHand` repairs such a file, with the server down or refusing.

The abstract `SettingsRegister` knows only durable values and outcomes. The refinement
maps its value to what the disk says, so a call takes effect at the `Rename` and nowhere
else.

### SharedStore

`SendWrite` applies an edit to the copy, counts its fields pending and sends it;
`Network(i)` carries a request to the server or loses it, `Answered(i)` handles what
comes back, in any order. The server applies a write in memory (`Serve`) before it is
durable (`Persisted`, `NotPersisted`), so a poll can see a value that is rolled back
later. `Poll` is the resource's fetch with its snapshot taken at a moment of its own,
and may fail. Edits, polls and the writes of other devices are not ordered in any way.

### OutboundGate and ProxiedRoute

`credit` counts tokens in milliseconds so that fractions of a token stay exact. `now` is
the wall clock and may step back; `travel` is a history variable, the distance the clock
has moved forward. `ProxiedRoute` extends the gate: a miss that starts a load is a `Take`
of the gate, one that is refused a `Refuse`. A request is a record that goes from
`waiting` (on a load it owns or joined) to `loaded` or `recovered` (the stale path), and
through the transform to its answer. The weather route's station filter is the
transform, which may also throw. Unique documents carry the moment they were produced.

### ShipsSnapshot

Moments are kept as ages that saturate at a cap beyond which nothing in the code looks,
so time runs for ever in a finite model. `Ask` is `ships()`; `FetchStep` goes through
token, request, a 401, a second token and a second request. Only `MaxTrouble` bounds the
upstream: it may fail or revoke a token at any point of a fetch.

### TrailStore

A load (`StartPoll`, `StartVisit`) is answered by the upstream with what it knows at that
moment (`Report`), or by the upstream's client with the answer it holds (`Reuse`), and recorded
later (`Record`), so loads overlap and complete in any order. `held` is that answer: the
poller and the routes of the ships ask one `ShipsSnapshot`, which gives the same ships out
inside its window and, through failed refreshes, until they are `MaxServed` old; that age is
`ServedAgeBound` of `ShipsSnapshot`, where it is proved. A load is over within `MaxFlight`,
which for the ships is up to four upstream timeouts: token, request, and both again. The poller stamps a report with the
start of its poll, a route with the moment it records, and neither with the age of the answer:
`StampOf`. `seenAt` keeps the latter, so `ForgottenInTime` counts from when upstream knew the
vessel. Fixes may carry a timestamp that does not parse.

### Shell

`hash` is the address and `events` the hashchange events queued; a listener reads the
address at dispatch, not at the assignment. `live` counts how often each page is
rendered and not disposed of. `slide` is `slideTo`'s two timers. `tracked` says whether
the route effect also listens to the position, as it does when the page it rendered
read it (`core/signal.ts` tracks whatever is read while the effect runs); a change of the
position then runs the effect again with an unchanged route. Each signal that changes
runs the effects that read it within the same step, as `signal.set` does: an action that
changes the route, the settings, the pause or the hold also runs `RunCycleEffect`, and
one that changes the route runs `RunRouteEffect`. Timers are ticks left; `Tick` waits
until all that is due has fired.

### Viewports, Geo, StaleCache and the other layers of the server

Coordinates are whole numbers of a unit that divides the grid. `Viewports` clamps and
snaps a query as `server/layers/bbox.ts` does, and `Geo` is the Sutherland-Hodgman clip of
`server/warnings/geo.ts`, in whole numbers: a crossing is rounded down, where the code has a
double, and is exact on the rings of the instance. `StaleCache` is a load seen
from one request: fresh from the cache, from upstream, or stale. `Warnings` builds its
answer in the steps of the route (`WarningsSpec`): `Ask`, the MET half, the roster, one region after another,
`Combine`; the day may change between. A warning is made only of what `schemas/warnings.ts` takes
(`IsWeatherWarning`, `IsAvalancheWarning`), so a danger without a day is not shown. The regions'
cache is an LRU of `MaxRegional` entries; a request uses fewer, and a region it has used is not
let go for another of its own, but which of the others goes is left open (`Displaced`). `Roads` and `Species` are operators on records with
the fields the code branches on; `LayerRoutes` holds what upstream sent (situations,
vehicles) or what was mapped (cameras, species), and answers from that.

### Aircraft

A caller asks the gate and the community feed, then takes, shares or is refused the OpenSky
slot, in the order of `openSkyAircraftWithin`. `snapshot` is OpenSky's last answer with the
viewport it covers. A request may be out for longer than the interval of the slot, as the
timeout is configuration; then a caller finds the slot open and joins it, whatever it covers.
Those who wait resume in one step, `OpenSkyAnswers`; in the code they are consecutive microtasks,
and nothing runs between. A merge keeps the fresher fix of each aircraft; `Respond` starts lookups
for callsigns nobody knows. It leaves open whether the call was the poller's, which starts none,
whether what a failed call is answered with comes from the cache, and which vessels the store
remembers. `routes` is an LRU cache of `MaxCallsigns` answers: `since[f]` are the callsigns used
after `f` was, which is the order of the `Map` and, for a callsign that was let go, how many
were used since. The clock may step back for the gate and the slot alike.

### Resource

`timers` keeps the intervals that run apart from the handle in `timer`, so that an interval
left running shows. A fetch out carries how many were sent after it (`behind`), which is the
generation check, and what it asked for. `renewing` tells layers that make a new resource
when the poll setting changes from those that do not.

### LiveLayer, Glyphs and TrailLayer

`drawn` is what is on the map: the entries with the time each was last given, the clusters,
and the popup with what it shows. An answer, a setting, a zoom or a follow runs the layer's
effect within the same step (`RunEffect`), as `signal.set` does; a popup that stays open is built
anew where its entry changed (`PopupAfter`), and where the follow target did
(`RefreshOpenPopup`), and otherwise goes on showing what it did. `closure` is what the
follow's closure over a layer that has since gone still answers (`Holding`); the fields `lost`
and `off` of `follow` are history, the time since its vessel was last in an answer and since
its layer was switched off. `FollowVessel(id)` is a tap on the button of the popup that tells
of that vessel. `Pass` is a
second on the watchdog's clock. `TrailLayer` keeps points and drawn segments apart, as a
redraw happens only when the array changed.

### PageStatus

A slot holds a value and the claim that wrote it. `StartSlide`, `FinishSlide` and `MountNow`
render and dispose of pages in the shell's order; the map goes through loading its code,
mounting its layers, and hearing their reports, at any distance from its rendering.

### Autosave

`committed` and `pending` are a field's, `draft` the section's. `RunWrite` sends the whole
setting with the field's value in it. `Emitted` is the section's effect on the store, which
leaves the field in focus alone. How the store keeps snapshots from edits is `SharedStore`'s;
here a poll brings the server's value when no write is in flight.

## 3. Runs

| run | instance and bounds | what it shows |
| --- | --- | --- |
| `settings_store` | one field, one camera's placement, one unknown key; 3 writes, 1 crash, 1 edit by hand | `MemoryMatchesDisk`, `FileIsNeverDamaged`, refinement of the register, `EveryCallSettles`. Three writes are one running and two queued, the least that tells a dropped from a delayed step |
| `shared_store` | one field with two values, one camera; 2 writes, 1 failure, 1 write elsewhere | snapshots spare edits in flight, a confirmed edit shows, and the page converges. Two writes of one field, or of two, are every overlap the counts distinguish |
| `proxied_route` | 3 keys for a cache of 2, 4 requests, TTL 1, a gate of burst 1 | no orphaned waiter, single flight, freshness, eviction of the least recently used, the station filter on both paths |
| `ships_snapshot` | window 2, staleness 4, token life 5, a fetch may take 3; 4 troubles | the bound on age, no failure a retry should absorb, recovery. A fetch outlasts the window, so callers find it in flight past the window's end |
| `trail_store` | one vessel, two places, two loads in flight, 2 reports of it, clock to 4; an answer is given again until it is 1 old | how long a vessel is remembered, the window of what is shown, order while only the poller records. Vessels do not interact, so one is enough. Two reports never fill a trail; that it is capped is in the proof, for every `MaxPoints` |
| `shell` | three cycling pages and the settings page, six settings, two ticks to a slide of the slideshow; 3 acts of visitors, pollers and positions | no page leaks, page and address agree when nothing is under way, holds end with the map, pages get their interval, the idle reset comes. Three acts suffice for a tap, a pause and a change of settings inside one slide; polls that change nothing are not counted |
| `layers` | warnings: two regions, a concave outline and one off the earth, a danger without a day, five queries, a cache of two regions, TTLs of 1 and 2 on a clock to 2 with a change of day. Roads, species, transit: the answers of `MCLayers`, picked so that each branch of the mapping is taken. Aircraft: two callers, two viewports, three configurations (the one with both networks with calls that start no lookup: the lookups and the slot share no state), a clock to 2 that steps back, two calls answered before the last begins; a request may be out for the interval of the slot, so that it is joined, an answer starts one lookup where two are wanted, and the cache of routes holds one callsign, so that it is let go | what is unmarked is fresh and whole, today's danger stays, the viewport is covered exactly, what is held is told for the moment of serving, the order of records does not matter, an answer short of the matches says so, OpenSky's account and the gate keep their budgets, a known route is left alone |
| `web` | resource: intervals of 1 and 2, a fetch of at most 1, back-off to 4, 4 acts. Layer: seven kinds, two vessels, four answers, 2 taps, clock to 4. Trails: two vessels, 3 points. Pages: three pages, 5 claims. Fields: two fields, 3 edits, 2 writes in flight, 1 write elsewhere | one timer, on its pace, at rest the place in sight; what is listed is drawn, popups tell the truth, a follow lets go and holds once; no outdated segment; the slots are the newest page's; edits are kept |
| `shared_store_rollback`, `shell_lost_navigation`, `layers_together`, `web_switched_off` | as above | one divergence each: section 6 |

Two vessels, two fields and two callers are the least that can disturb one another, and every
bound on acts lets two of them meet one failure; the proofs of section 4 do without bounds.

`PROJECT.json` names, for each property of each run, a mutated definition that breaks it;
the mutants stand in the modules beside what they mutate, marked "Mutant of". The type
invariants are proved, where a module has proofs, and not checked by a run of their own.

`CHECK_DEADLOCK FALSE` stands in the configurations of `settings_store`, `proxied_route`,
`trail_store`, `layers` and `web`, whose bounds on calls, requests, acts or the clock let a
behaviour end; the others never stop. `proxied_route` uses symmetry over the keys,
`trail_store` over places and load slots, `layers` over the callers; none of them checks a
liveness property.

### Fairness

- `SettingsStore`: `WF(Load)`, as the container restarts the process; `WF(WriteStep)`, as
  a file system call completes or fails. Callers and crashes are free.
- `SharedStore`: requests are answered or time out, their answers are handled, the
  server's disk answers, and the page polls for as long as it is open. People are free.
- `ShipsSnapshot`: the trail poller asks for ever (`trails/support.ts` starts it), requests
  are answered or given up after `upstreamTimeoutMs`, time passes.
- `Shell`: the browser dispatches queued events and fires due timers, time passes.
  Visitors and pollers are free; that the poll re-arms nothing is what
  `IdleResetComes` shows.

All fairness is weak: every action concerned stays enabled until it is taken or until
what it would do has been overtaken. `Resource`, `LiveLayer` and `Aircraft` state how soon a
thing happens on a clock that waits for what is due, so their deadlines are safety properties
and need no fairness.

## 4. What is proved

Each theorem holds for every value of the constants that the module's ASSUME allows:
numbers in their range, special values distinct, the settings, queries and sightings offered
within their type. Some of those assumptions are about the upstreams:

- `RostersAssumption` (`Warnings`): a roster names no region twice, as the id is NVE's own key and
  the code keys its cache by it without looking for a second; it has no more regions than the cache
  takes (46 for 64 places, `routes/warnings.ts:55`); a region has finitely many rings of points, as a
  document does.
- `SituationsAssumption` (`LayerRoutes`): a situation that could be read has times. The code refuses
  a whole situation in which one of them cannot be read (`situations.ts:441`), and the model leaves
  those out.
- `ReadingsAssumption`: a reading of a road camera's site has its time, or none.
- `SearchesAssumption`: the pages of one search of GBIF state the same number of matches, or one that
  cannot be read, and hold no more records than match between them. It also says that a search is told as far as
  it would be read, which is a matter of writing it down. A match that changes between two pages
  is outside it: the code compares what it has read with the last page's number.
- `FlightsAssumption` (`Aircraft`): callsigns of a flight's pattern are finitely many, as they have
  seven characters at most. Nothing is assumed of how long a request to OpenSky takes.
- `FeedsAssumption` (`LiveLayer`): an answer names no item twice. Upstream sends one record for each
  ship, camera, vehicle and warning, and the server groups or merges the others by their id.

| module | theorems | argument |
| --- | --- | --- |
| `SettingsStoreProofs` | `TypeCorrect`, `MemoryIsDurable`, `FileSafety`, `Refinement` | `IInv` adds two facts to the invariant: `ChainShape`, that settled calls have a final outcome, queued ones none and the running one is applied exactly after its rename; and `WriteInFlight`, that memory is the previous settings with the running call merged, and the temporary file holds them just before the rename. Without the second a rename could replace the file with anything. Refinement then maps the rename to the register's write and every other step to an answer, a call, or a stutter |
| `SharedStoreProofs` | `PendingCountsWrites`, `SnapshotsAreMerged`, `SavedEditsAreShown` | `PendingInv`: a field's count is the number of writes in flight that touch it. Every step that starts or settles a write moves one write in or out of that set for the fields it touches, and no other. So a merge that skips the fields with a count skips those with a write in flight; `CarriedInv` says that what writes and polls carry are settings |
| `UpstreamProofs`, the gate | `RateIsBounded`, `RouteKeepsGate`, `RouteRateIsBounded` | That no past window is over budget says nothing of what the bucket still holds. `Potential` does: for every past call, the calls since and the credit left were paid for by a full bucket and the time since. `ClockInv` says that the time the bucket believes in did pass. Each step of a cached route is a step of its gate or leaves it alone, so the bound carries over |
| `UpstreamProofs`, the cached route | `NobodyIsOrphaned`, `StationIsPrivate`, `CachedStaysFresh`, `LruIsEvicted` | `RouteInv` relates both ends of a wait: a load in flight is owned by a request that waits for it, and a waiting request waits for the load in flight for its key. `LruInv` says that the entries stand in the order of their last uses, which is the history `uses`; so no key has two entries, and the one in front is the one to drop. `DocsInv` dates the entries: a load in flight for a key was begun once the entry it will replace had expired (`Overdue`), so what replaces an entry is newer |
| `UpstreamProofs`, ships | `TypeCorrect`, `ServedAgeIsBounded`, `AttemptSpacing`, `FailureHasCause` | `AgeInv` bounds the held snapshot's age by the age of the last attempt between fetches, and by the fetch's duration during one; `RetryInv` says that the token of a retry is younger than the fetch, so it can only be refused if it was revoked |
| `TrailStoreProofs` | `MemoryIsKept`, `MemoryIsBounded`, `TrailsAreSound`, `StoreIsTyped` | `LoadInv` bounds the age of a load by its requests' timeouts, and of what it was answered with by `MaxServed`; `MemoryInv` says that an entry's stamp is within one load's time of the newest report recorded, also when a slow poll writes an older stamp over a newer one, or later than it by a load's time and `MaxServed` when an answer was given again. For the trails, `WorldInv` and `OrderInv`: one poll is out at a time, and while only polls have recorded, every remembered point is older than what that poll will record and than what the upstream knows |
| `LayersProofs`, viewports | `ViewportCoversScreen` | Snapping moves an edge outward by less than a step, clamping keeps the middle, and both stay on the earth |
| `LayersProofs`, warnings | `UnmarkedIsAlwaysFresh`, `DangersAreShown`, `WarningsCoverTheScreen` | `RequestInv` says of each step of a request what the halves and regions loaded so far have left: a region that did not fail is held and, unless the answer is already marked, fresh, and it has an entry exactly when it is a danger. `CachesInv` says that what is held was fetched in the past, so a stale fallback cannot pass for a fresh one. `UsedKeys` are the entries the request has used so far: a cache of as many regions as a roster has lets none of them go before the request answers |
| `LayersProofs`, aircraft | `OneSlotForAll`, `CallsignsAreLeftAlone`, `AircraftIsGated` | `SlotInv`: the wall clock, which may be stepped back, believes no more time to have passed since the last request than did, so while the request in the air is younger than an interval the slot is shut, and who waits for it has asked for what it covers; nothing is assumed of how long a request may take. `NamesInv` says the same of the known routes, and `Remembers` what the cache has let go: a callsign that was answered and is not held has had as many others used after it as the cache holds, for which the order of uses is shown to be one (`since`) |
| `LayersProofs`, situations and vehicles | `HeldIsServedForNow` | `LayersInv` says only that what is held is what upstream sent; that the answer is right for its moment is a property of the mapping, whose filters are `Lists`' and whose main record is one of the listed ones |
| `LayersProofs`, sightings | `CutsAreTold` | `MadeInv`: what is held and answered is the mapping of something upstream sent. The rest is counting: a search that covered the match has read as many records as there are (`Upto`, page by page), a filter keeps and drops all of a list (`KeptCount`), and the groups of what it kept add up to it (`TallyIsComplete`), since each record has one group and no group is cut |
| `LayersProofs`, order of records | `OrderDoesNotMatter` | A shuffled list has the same members, as often. So a filter keeps the same members, and what is read of them as a set is the same; what is picked, the record that speaks for a situation and a site's newest reading, is the same because no other is as good. These two conditions, `OneSpeaks` and `OneIsNewest`, stand in the property: without them the order does decide, between two main records or two readings of one time |
| `LayersProofs`, outlines | `ClippedToTheView`, `AskedAboutTheView` | A clip against one side keeps the corners inside it and adds crossings, which lie on the side (`HalfPlaneClips`) and between the corners they separate (`CrossingIsBetween`), rounded or not; so a later clip cannot undo an earlier one. The first theorem is about every ring of whole coordinates and every viewport. `ViewInv` says that the regions asked about are those of the roster held that intersect the viewport of the request, which no step of that request changes |
| `ShellProofs` | `TypeCorrect`, `PagesAreDisposed`, `PageMeetsAddress`, `HoldsEnd`, `TimerRunsWhenItMay`, `PagesKeepTheirTime` | `PagesInv`: what `mountedRoute` is in each phase of a slide, and what is alive. `RouteInv`: the route is the slide's target from its publication on, and the address's with no event queued. `ArmInv`: the armed key is the present inputs' key, so that an unchanged key means an unchanged right to run. `IntervalInv`: ticks left and ticks shown add up to at least the interval |
| `WebProofs`, resources | `ResourceTypeCorrect`, `OneIntervalRuns`, `PollsInTime`, `ViewSettles` | `PaceInv`: exactly one interval runs while the layer is in sight, and the time since the last fetch and what is left of the interval add up to no more than the promise. A success while backing off restarts the interval, so it needs `FlightInv`: an answer that will be heeded was sent at most a latency ago, and for the place in sight unless the map is about to be refetched. `ViewInv` says that at rest what is shown is of that place or such an answer is on its way |
| `WebProofs`, fields | `AutosaveTypeCorrect`, `TypedEditsAreKept` | `TokenInv`: the writes of a field have tokens of their own, none ahead of the newest, and no answer is noted before it has come; so an answer that is not superseded is the newest write's, and a status "saving" has a write to wait for |
| `WebProofs`, page status | `StatusFollowsThePages` | `PagesInv`: the newest page has the last claim, and during a slide one other is alive. `SlotsInv`: a slot was written by the newest page, is empty, or was written by the page still on screen while the newest has said nothing. `MapInv`: the map's two slots are written together, and by a map that is alive |
| `WebProofs`, live layers | `FollowsEnd`, `PopupsAreTrue`, `OffLeavesNothing` | `LostInv` bounds how long a followed vessel can have been missing twice: by what the watchdog has counted, and by the age of the fix the layer remembers. `Shaped` and `Tells` say that a popup stands on something drawn and tells of it, which each redraw, choice and follow re-establishes in the same step. None of them depends on what the clustering returns |
| `WebProofs`, listed and drawn | `ClustersArePartition`, `WhatIsListedIsDrawn` | A clustering joins the clusters near a point into one with it and leaves the others, so that, by induction over the points, it stays a partition of those seen (`Parted`). `ListedInv` relates what the layer keeps: what the masthead lists is drawn, what is drawn of a ready answer follows the filter, no item is named twice, and nothing drawn was seen later than now, so that an item of the last answer has not coasted away |
| `WebProofs`, trails | `OutdatedIsErased` | `TrailsInv` adds to the property that the points are a sequence of at most `MaxPoints`; then an update that leaves the array the same has dropped no point (`KeptLength`) |

The proofs rest on no axioms beyond these assumptions and the library's theorems on
sequences, functions, finite sets and well-founded relations. What a filter keeps is proved
by induction: the library's theorem of induction takes an operator, which no prover here
instantiates, so `ListProofs` proves induction over a set of numbers from the well-foundedness
of `<` (`SetInduction`), and the lemmas about `Kept` (`KeptPasses`, `KeptKeeps`, `KeptLength`,
`KeptIsTheEnd`, `KeptIsFiltered`, `KeptCount`) from it. `TallyIsComplete` and `GreatestNumber` are
proved in the same way. The modules write a filter that a proof looks into with `Kept`, for this
reason, and others with `SelectSeq`; `Upto` of `Species` and the clusters of `Glyphs` are recursive
functions for it too, and `FlattenSeq`, the one recursion of the library that a proof unfolds, is
unfolded through the function it is defined by. `PowersAssumption` of `Resource` states three facts of
the powers of two that the back-off relies on; TLC evaluates it for the factor of the run.

Proving `FollowsEnd` corrected the model: the history `lost` went on counting over a change of
settings in which the layer answered for its vessel again. The code was right.

## 5. What is only model-checked

- Liveness: `EveryCallSettles`, `Converges`, `Recovers`, `IdleResetComes`.
- `ViewIsWhole` of `Warnings` has three parts. `AskedIsCovered` and `RegionsInView` are proved, for
  every roster and query; `ClipIsExact`, that the area of the clipped outline is the one shared
  with the viewport and that the pin lies in the view, is left to the run. Both are statements
  about sums along a ring, which the code and the model take by folding an operator that the
  provers do not see into; and they are exact of the run's outlines, which follow the grid, and
  of others only up to rounding.
- What a recursive definition returns for every input, other than the filters, counts and clips above:
  the Douglas-Peucker line of `Roads`, a centroid.
- The four runs of section 6, which have counterexamples.

Proved and checked by no run, as each is a part of a checked property's argument or adds one
to it: `AttemptsAreSpaced`, `SlideshowIsArmed`, `PendingInv`, `AskedIsCovered`,
`RegionsInView`, `OffIsEmpty`, and the type invariants.

## 6. Where the code and what it says of itself part

Four runs check a statement of a comment and find a behaviour against it.

1. `shared_store_rollback` -- `InFlightEditKept`. A field with an unflushed edit "must keep
   its local, in-flight value" (`web/settings/sharedStore.ts:10-14`), but `rollback()` of an
   older write (line 216) puts back the value from before that write over a newer edit in
   flight. What does hold is `SnapshotsSpareEdits`.
2. `shell_lost_navigation` -- `NavigationIsKept`. A navigation in mid-slide "is never
   silently lost" (`web/shell/AppShell.ts:34-37`); if its hashchange is still queued when
   the prewarm timer publishes the auto-cycle's route (line 167), the address is
   overwritten and the listener reads the new one. `QuietMeansShown` holds: page and
   address agree even then.
3. `layers_together` -- `TogetherShareOneRequest`. "Two callers arriving together share one
   request" to OpenSky (`server/aircraft/provider.ts:495`); the interval gate (line 546), shut
   by the first of them, is asked before the request in flight is looked for (line 554), so
   the second gets the old snapshot or nothing. The quota is kept: `SlotIsShared` holds.
4. `web_switched_off` -- `SwitchedOffLetsGo`. "A layer switched off in settings simply stops
   answering and the follow lets go after `LOSE_AFTER_MS`" (`web/pages/map/follow.ts:226-228`);
   a disposed layer's last answer goes on placing the vessel until its fix is older than
   `maxAgeMinutes`. `FollowLetsGo` holds of a vessel that is in no answer.

The modules state more sentences of comments and of `docs/ARCHITECTURE.md` that the code does not
keep. To see a
behaviour, put the name in the place of the properties of the configuration given.

- `FailedPollKeepsState` (`SharedStore`, `MCSharedStore.cfg`). A failed poll serves the last-known-good value (`web/settings-resource.ts:5-9`); the store merges it once
  more (`sharedStore.ts:151`) and undoes an edit confirmed since, until the next poll.
- `PastMaxStaleIsError` (`ShipsSnapshot`, `MCShipsSnapshot.cfg`). "Past `maxStaleMs` the error
  surfaces instead" (`server/ships/snapshot.ts:30`); a refresh that fails just within it keeps
  the snapshot for the whole next window. What does hold, and is proved, is `ServedAgeBound`.
- `TrailIsOldestFirst` (`TrailStore`, `MCTrailStore.cfg`). `trailFor` is "oldest first"
  (`server/trails/store.ts:37`); a poll and a route that overlap record an older report last.
  The poller's own guard does its part: `PollAloneKeepsOrder`, of `TrailIsSound`, holds.
- `OnlyGapsCoast` (`LiveLayer`, `MCWeb.cfg`). "Only a genuine gap in the feed coasts"
  (`canvasGlyphLayer.ts:438`); an aircraft that lands and is filtered out by `showOnGround`
  (`aircraft.ts:382-385`) is not passed on to the canvas either, and coasts as well.
- `SeededIsDrawn` (`TrailLayer`, `MCWeb.cfg`). A remembered trail is "on screen at once"
  (`trailLayer.ts:273-275`); when the first fix adds nothing to it, the array is the same and
  nothing is drawn (line 299).
- `SimplifiedStaysClose` (`LayerRoutes`, `MCLayers.cfg`, with `MCSpurAnswers` for
  `SituationAnswers`). A point is left out of a road's line only where it is near
  (`server/roads/simplify.ts`); the far end of an out-and-back spur is near the line through the
  chord, not near the chord, and is left out.
- `ForgottenOnTime` (`TrailStore`, `MCTrailStore.cfg`). The store "forgets a vessel unseen for an
  hour" (`docs/ARCHITECTURE.md:176-177`); `record` stamps what the ships' snapshot gives again with
  the time of the load, so a vessel BarentsWatch no longer knew when its last answer was new is
  kept for up to the snapshot's age longer, 10 minutes and a window. What does hold, and is proved,
  is `ForgottenInTime`.
- `WaitersAreCovered` (`Aircraft`, `MCLayers.cfg`). "Containment is checked explicitly on every read"
  of OpenSky's answer (`server/aircraft/provider.ts:483-484`); who joins a request that has been out
  for the interval of the slot is answered out of the viewport of whoever sent it (line 554). That
  takes an upstream timeout above half of 45 seconds. `FlightCoversWaiters`, of `SlotIsShared`, is
  what holds.
- `EveryDangerIsShown` (`Warnings`, `MCLayers.cfg`). A region's warning is left out for "no entry at
  all", one "not assessed" or a level off the scale (`server/warnings/avalanche.ts:167-170`); one
  whose `ValidFrom` is missing or unreadable is left out as well, uncounted and unlogged (line 195).
- `TruncationIsHonest` (`LayerRoutes`, `MCLayers.cfg`). The total serves "to report `truncated`
  honestly" (`server/species/gbif.ts:143`); a `count` that cannot be read is taken for 0 (line 126),
  the paging stops after that page, and nothing is marked. `TruncationIsTold` is of searches whose
  last page can be counted.

`AskedOnceEver` (`Aircraft`, `MCLayers.cfg`) has a behaviour against it too, but nothing in the source
promises it: a callsign the full cache has let go is asked about again within its TTL.
`AskedOnce`, which counts the callsigns used since, is what holds.

Met while reading and not stated as properties, as no source says what is right: the memory
of a followed vessel is dropped when the other layer's follow starts (`ships.ts:488`,
`aircraft.ts:322`); an answer in flight sets "saved" while a newer edit waits for its debounce
(`autosave.ts:94`); a valid value that was made invalid before its debounce ran stays on show
after the field is left, and is never sent; a retry sends what the rollback has put back; and
a field in focus during a poll keeps its part of the draft, so that a sibling's write puts
back what another device has changed (`web/pages/settings/Map.ts:163-165`).

## 7. Plan

Done, in this order: the settings store and its register, the settings page, gate and
cached route, ships, trails, shell; then resource, live layers with follow mode, trails on
the map, page status, autosave, aircraft, warnings and the other server layers. Next:

1. Proofs: the area of a clipped outline and its pin, with the sums of `Geo` as recursive functions
   and a clip shown to cut the area along one line.
2. Follow mode composed with the slideshow's holds of `Shell`, instead of the one hold each
   module keeps of the other.
3. The ships route's fallback to the trail store, and the poller's stop at shutdown.
4. Night schedule and staleness as pure operators, with the overlay's one timer.

## 8. What is not modelled

- Presentation: DOM, charts, Leaflet and canvas drawing, wording and translation. The
  pages' documents are opaque; a transform is what it may let through.
- The schemas of upstream documents, except for what makes a record unreadable; text fields
  that are only copied; HTTP headers (`ETag`, `Cache-Control`, `X-Cache`); the browser's cache.
- Server assembly, environment parsing, static files: no state after boot.
- Clocks stepped back, outside the gate and the aircraft providers: the snapshot, the token,
  the cache and the trail store are modelled on a clock that only moves forward. Stepped
  back, the refresh window lasts until the clock has caught up.
- How old OpenSky's answer may be when it is given again: `openSkyAircraftWithin` has no bound
  (`provider.ts:549`, `576`), so for aircraft with OpenSky credentials there is no `MaxServed`, and
  `ForgottenInTime` is of the ships and of the community feed alone. Nor is the trail of an aircraft
  that two networks report in turn in order, even when only polls record: `PollAloneKeepsOrder` is
  of one upstream.
- The cache of dataset titles (`server/species/dataset-titles.ts`), which changes no sighting but the
  wording of its sources; situations of which one time cannot be read.
- Floating-point noise: the rounding of `bbox.ts` absorbs it, the model's units have none.
- In the shell: its own disposal, which `main.ts` never calls; camera ids inside a route; a
  change of language, which re-renders through the same effect as a change of position. A
  page's own failure to render.
- In the settings page: disposal of the store, a `localStorage` that throws, and the
  `storage` event of another tab; the toggles and lists, which write at once.
- The trail poller's stop at shutdown, and the ships route's fallback to the trail store.
- The night overlay (`web/shell/DisplayOverlay.ts`, `night-schedule.ts`, `staleness.ts`): one timer
  over pure functions of the clock, tested at their boundaries.
- Two live layers on the map at once: they share nothing but the follow target and the map.
