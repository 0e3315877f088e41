# Harmonixia server: TLA+ models

Harmonixia is a self-hosted music and podcast server (Rust, axum, tokio,
PostgreSQL). It imports files into a catalog, serves them as they are or
transcoded by ffmpeg, keeps one shared playback session per account and drives
Sonos speakers. Most of it is SQL and JSON; what is hard is what happens between
two awaits or two statements. This directory models that part.

Paths below are relative to the repository; `state.rs` is `src/state.rs`.

## 1. Inventory

| Component | State it keeps | Operations | What is hard | What makes it correct |
|---|---|---|---|---|
| Transcoding (`transcode.rs`, `api/media.rs`) | slot counter and limit behind one mutex; a table of generation guards; output directories; ffmpeg children | direct stream, HLS rendition, prepared download, change of the limit | handlers are dropped at any await when the client disconnects; waiters of a generation; renames and removals that outlive their handler; ffmpeg failing after its rendition is published | the counter is the number of slots; one generation per rendition; no lost wake-up; what is published is complete or watched |
| Playback session (`state.rs`, `api/playback.rs`) | one session per account behind one lock, an event sequence | queue and state updates, attach, detach, transfer request and confirmation, Sonos start, progress reports | handlers preview the session, await the speaker, then write the preview whole; events leave after the lock is released | the queue cursor is inside the queue; a stale transfer cannot override a newer one; clients converge |
| Sonos sessions (`sonos.rs`, `api/sonos.rs`) | one managed session per target, a transport guard per target, the reconciler task, URL authorizations | play, stop, pause, resume, seek, next, previous, volume; one reconcile pass every few seconds | commands and passes interleave over network calls that may time out after they were applied; skips and resumes change the session before they hold the guard; rollbacks; the reconnect window | what was stopped stays stopped and silent; a URL validates only for the session it was signed for; a lost session is found or removed in time |
| Import jobs (`pipeline.rs`, `storage.rs`, `catalog.rs`) | `import_jobs`, `quarantine_items`, `media_files`, canonical associations; in-memory locks of a run | enqueue (scan, repair, retry), claim, import a file, publish, quarantine, settle, end | many files at once; a statement may fail between two others; crashes; retries that race scans | one copy of a song is published; a resolved item is published; jobs end; what is published can be browsed |
| Import of a file (`pipeline.rs`, `media.rs`, `providers.rs`) | the library on disk, the rows of the catalog | group by tags, folders and providers; lock; move to the managed path; publish | the move and the transaction are two steps; names collide; the next scan reads what the last one wrote into folders | no file is lost; every library file is known; what a tag states wins; scans come to rest |
| Catalog queries (`catalog.rs`, `api/catalog.rs`) | none of their own | listings by cursor, search, one item | the catalog changes between two pages; two predicates say what is visible | what stands still is listed once; what is listed opens, plays and is found |
| Background services (`services.rs`) | the watcher's fingerprints | import worker, dropbox watcher, provider recheck | files that still grow; a job that is already running takes in the new request | every stable file is imported at last |
| Accounts (`auth.rs`, `api/accounts.rs`, `storage.rs`, `state.rs`) | accounts, a cache of verified credentials | bootstrap, create, reset, delete, authenticate | stale cache entries; two first admins; the last admin; table and row locks in two orders | a request acts for an account its credentials opened; somebody can administer; nobody waits for ever |
| Playlists, favorites, home, sync (`api/…`, `storage.rs`, `state.rs`) | rows; the screens of the clients | create, rename, delete, add, remove, reorder, list; favorites; progress and history | a listing changes the rows it lists; announcing is four steps after the commit | an ordered list; no item is lost; screens come to show the database |
| Event stream (`api/events.rs`) | a broadcast channel | publish, receive, lag marker | slow receivers | a client that lagged refetches |
| System configuration, provider settings and health (`api/config.rs`, `state.rs`, `pipeline.rs`) | one row and one copy in memory, the transcode limit; per provider a row of settings and one of health | update, check, repair; what a file asks and records | whole rows are read, merged and written back by many; save, publish and set_limit are three steps | backoff ends; a provider that is off is not asked; a restart runs what is stored |
| Artwork, OpenAPI, admin UI, migrations | none of their own | reads | none | (not modelled) |

How they interact: the HTTP handlers of playback call into the Sonos sessions
(load, stop, seek) and then commit to the playback session; the reconciler
reports progress back to it. Sonos speakers fetch media by signed URL, which
`state.rs` validates against the managed session, through the same media
handlers and the same transcode slots as every client. The import worker writes
the catalog that all of them read, asks the providers whose health the settings
decide, and publishes events. Listings of playlists delete what the catalog no
longer shows. The configuration sets the transcode limit while slots are taken.

## 2. Modules

| Module | What it models | Kind |
|---|---|---|
| `TranscodeAdmission` | the slot pool of `transcode.rs`: try_acquire, drop, set_limit | abstract specification |
| `MediaTranscoding` | the handlers, ffmpeg, its reaper, generation guards and output paths; EXTENDS the pool and implements it | detailed specification |
| `PlaybackSession` | the playback session of `state.rs` and the handlers of `api/playback.rs` | detailed specification |
| `SonosSession` | one target of `sonos.rs`, its requests, its reconciler, the speaker and the clock | detailed specification |
| `ImportJobs` | enqueueing, the worker, the files of a job, quarantine and retries | detailed specification |
| `CatalogStore` | the tables of `catalog.rs` as one value and the import transaction as a function of it | operators |
| `CatalogBrowse` | listings, cursors, search and the queries of one item, over `CatalogStore` that imports change | specification |
| `FileGrouping` | which song a file is taken for and which path it goes to (`pipeline.rs`) | operators, over `CatalogStore` |
| `CatalogFiles` | a job between the disk and the catalog: probe, locks, move, transaction, failures, crashes | specification |
| `PlaylistOrder` | what a playlist is: a list without repetitions, changed by one request after the other | abstract specification |
| `PlaylistItems` | the rows of one playlist and the transactions on them; implements `PlaylistOrder` | detailed specification |
| `LibraryScreens` | what follows a commit: projection, event number, broadcast, lag, the client's screens; EXTENDS `PlaylistItems` | composition |
| `AccountAccess` | accounts, bootstrap, authentication with its cache, deletion, PostgreSQL's locks | specification |
| `ServerSettings` | configuration, provider settings and health, and the import job that asks the providers | specification |
| `MediaTranscodingProofs`, `PlaybackSessionProofs`, `SonosSessionProofs`, `ImportJobsProofs`, `CatalogProofs`, `LibraryScreensProofs`, `AccountAccessProofs`, `ServerSettingsProofs` | theorems (section 5), each about the module it is named after; the first also about `TranscodeAdmission`, `CatalogProofs` about `CatalogFiles` and `CatalogBrowse`, `LibraryScreensProofs` also about `PlaylistItems` and `PlaylistOrder` | proofs |
| `MC*` | instances for TLC | model checking |

### How state and actions correspond to the code

* **MediaTranscoding.** `limit`, `in_use` are `TranscodeAdmissionState`;
  `slots` is the set of live `TranscodeSlot`s, which the code does not have.
  `generations` is the coordinator's map, `pc` the await a handler stands at.
  One action is what a handler does between two awaits. `Cancel` is a
  disconnect: guards and slots are released by their drops, ffmpeg is killed,
  and a rename or removal handed to the blocking pool goes on (`orphan`).
* **PlaybackSession.** `session` is the map behind the lock, `eventSeq` the
  counter a revision is drawn from, `phase`/`job` what a handler keeps across
  its awaits (the preview, the transfer, the speaker), `screen` the newest
  snapshot a client has. `newest` is a history variable. A queue item is its
  duration, the only part of it that decides anything here.
* **SonosSession.** `managed` is the `ManagedSonosSession`, `guard` the
  transport guard, `device` what the speaker really does. A call to the
  speaker is applied or not and answered or not (`Outcomes`), and a call that
  is not answered may have been applied. `now` and `snap` of a job are the
  time and the snapshot a pass read before it asked others. `ended`, `quiet`
  and `outage` are history variables.
* **ImportJobs.** `jobs`, `items`, `media`, `canonical` are the rows;
  `request`, `worker`, `task`, `lock` are in memory and lost in a crash. A step
  is one statement or transaction; one that fails is `Errs`, `SettlesNothing`
  or `Abandons`. The report of work items is left out except that it may fail.
* **CatalogStore.** A row is known by what the unique index of its table
  compares, a name by its normalization (a number; 0 is a name of which nothing
  is left). An import is one step of it, because the row locks of its upserts
  are held to the commit. Search text is a sequence of opaque words.
* **CatalogBrowse.** A page is one statement: what is left of the listing behind
  the cursor (`Rest`), of which the first rows by their keys are returned, one
  more than asked for to see whether a page follows. `Rows` is the *set* of the
  answers the database may give, so that nothing is assumed of rows with equal
  keys; that there are none is proved. A key ends in the id of its row, which the
  model does not have: it ends in the names the row is known by. `steady` is
  history: what has been in a reader's listing under one key since it began; so
  is `written`: the songs for which an import has ever written the projections,
  and those for which the last one did. An import whose plan leaves the
  projections alone (`rebuild` FALSE) writes everything else.
* **FileGrouping.** `Clean` is what `sanitize_path_component` makes of a name, as
  a function that the instance gives by what it does. It is not idempotent: it
  takes the dots off both ends and leaves a blank beside them
  (`catalog.rs:5980`), so that "A .." becomes "A " and a second cleaning takes
  off the blank as well.
* **CatalogFiles.** `disk` is the file system, `worker` the import of one file
  from probe to transaction. The keys of `acquire_import_locks` are taken at
  once: the code takes them in sorted order, so that nobody waits in a circle.
  `attempt` counts what `retry_file_operation` does: after any error the whole
  move is tried again, from the choice of a free name on, and the attempt before
  may have left a copy, whole or half (`Halves`). Only a copy that stops shows a
  half: one that goes on is a step. `dropped`, `stray`, `moved`, `replaced` and
  `unmoved` are history variables: what was dropped, where a failed attempt, a
  failed import, a crash or a late duplicate left something, what a job took
  away from its row, what lost its row to another file, and what was published
  where it never was moved. Files are dropped between jobs only, where nothing
  lies; a job has listed its files before, so that a file dropped later is as
  one dropped after it. A place can be used again when its file has been moved.
* **PlaylistOrder, PlaylistItems, LibraryScreens.** `PlaylistOrder` says what may
  become of the list and not how: entries are dropped, one is placed where it was
  asked for, or all that is left takes the order that was asked for. A fact of
  the database is the number of times it was written (what the catalog shows is
  one of them: the cards of Home and the favorites leave out what it does not),
  and the row of the playlist that number with whether it is there; the items
  are a function from ids to the item and its position. `work` is what the open transaction has made
  of them. An event
  has the contents its handler read *before* it took its number. `unsettled`
  and `crossed` are history: the screens that no event has brought up to date.
* **AccountAccess.** `tableLock` is `LOCK TABLE … IN EXCLUSIVE MODE`, `rowLocks`
  the rows a transaction holds; a deadlock is resolved by `Aborts`, as
  PostgreSQL does. `seen` is what a request keeps of its transaction: the
  account, the time, the row and the playlists it has read. `rightful` is
  history: the accounts that were open to the credentials of a request since it
  came.
* **ServerSettings.** `stored`, `memory`, `limit` are the three places of the
  configuration. `rows` is what an actor has read of the health and is about to
  write back whole. The worker polls whether there is a job or not, and each
  poll reconciles the health. `raced` and `enabledSince` are history variables.

The assumptions on the constants are what the code makes sure of, and no more:
queues that reach the Sonos session are not empty (`QueuesAreNotEmpty`), an
answer was given by a speaker that applied the call, a grouping is of music or of
a podcast, a podcast has no artists and names are of the names there are
(`ImportsAssumption`), the rows the workloads start from are rows the tables
accept (`AccountsAreThere`, `WorkloadsAssumption`), the ids in an order that is
asked for are distinct (`ScreensAssumption`), and `None` is none of the values.
TLC evaluates them.

Definitions whose comment begins with "Mutant of" (or ends "for the mutants")
are deliberate mistakes: replacing the named definition by one of them must
break a property.

## 3. Runs

| Run | Question | Bounds, and why they are enough |
|---|---|---|
| `transcode_safety` | Do slots, guards and published files survive disconnects anywhere and a moving limit? Does the detailed model implement the pool (`AdmissionSpec`)? | 3 requests, one HLS rendition, one download and the direct stream, limits 0..2: an owner, a waiter and a third that arrives after either |
| `transcode_live` | Is every request answered? | 2 requests, limits 0..2, with fairness |
| `playback_session` | Cursor, transfer and convergence of clients | 3 requests of any kind, bodies whose cursors, positions and durations are in and out of range, one speaker, one revision drawn by another account. Two handlers that overlap and a third that changes the session under both are what the hazards need |
| `playback_stale_transfer` | the finding of section 6 | 4 requests: two transfers, an attachment of the speaker, a pause |
| `sonos_transport` | Does a stop hold against plays and resumes under way, do authorizations stay with their session, do rollbacks keep the status whole? | 2 requests out of play, stop, resume and next, both may be dropped, and the reconciler; calls are taken or lost after they were applied (a refused call differs in the speaker alone, and `sonos_live` has it); a queue of two and one change of the item; no time passes, so that a lost session waits to be found: its expiry is in `sonos_live`. Two handlers and a pass are what every hazard of a handoff needs |
| `sonos_live` | Does an outage end, is every request answered, is the window kept? | one request of every kind that may be abandoned, the reconciler, any outcome of every call, two ticks and a window of one: a loss, a renewal and an expiry fit in |
| `import_jobs` | One published copy, resolved means published, what is published is shown, jobs end | 2 copies of one song imported in parallel, 2 requests (a scan and a scan or retry), 2 attempts, 2 jobs, one crash; the copy to the managed path may fail for one of the two files (`Fragile`), every other failure happens to both. Copies race in pairs, and one failed attempt before the last is the boundary of the counter |
| `catalog_files` | Is a file lost or unknown, does a tag win, do scans settle, is what is shown there? | 2 workers, 2 jobs of three plans, 4 files of which two have one content, two want one name and two are dropped at one place one after the other, answers of providers that are sure, weak or normalize to nothing, one failure or crash anywhere, two attempts at a move (the code has three: one that fails and is tried again, and one that fails for good, are both there), a half copy for one of the contents. The second job meets what the first one left, which is the case every property is about |
| `catalog_browse` | Are pages exact, and what they list openable and found? | one reader (readers do not change the catalog) through any of six listings with pages of one and two, 4 changes by imports of 5 spellings of 3 names, two of which write no projections, quarantines and releases |
| `library` | Do rows implement a list, are items kept, do screens settle? | every meeting of two requests listed in `MCLibraryScreens`, imports among them, a channel of two events, four item ids: both handlers may be anywhere between commit and event, and the channel overflows |
| `accounts` | Who acts for whom, does an administrator remain, does everybody return? | 3 requests, 3 account ids, ten meetings listed in `MCAccountAccess`, a cache of one entry that expires after two ticks |
| `settings` | Do health and settings agree, is a provider asked that is off, what does a restart do? | 2 administrators, a job of two files in parallel, one or two providers, eight meetings, backoffs of one and two, two ticks, one restart |

Every passing property has a mutant that breaks it under the run's own
configuration. `CHECK_DEADLOCK FALSE` is set where requests are used once, so
that the instance really stops when all are answered. The type invariants are
not among the properties of the runs: they are proved.

What the properties say:

* `SlotAccounting`: the counter is the number of slots alive. `AdmissionSpec`:
  every step of the handlers is one of the pool or leaves it alone.
* `OneGeneration`: the guard of a rendition belongs to the one handler between
  its second look and its publication. `RenditionIsWatched`,
  `RenditionIsKept`: what is published is complete or has a task that removes
  it on failure, and nobody removes another's; both state the exception the
  code has, a handler dropped during its rename.
* `QueueCursor`, `TransferHasQueue`, `ScreenFollows`: over every interleaving of
  previews and commits.
* `ClaimsAreOfThisSession`, `EndedStaysEnded`, `StopSilences`: a skip, resume or
  start under way when its session ends neither revives it, lends its URL to
  the next one, nor makes the speaker play. `StatusIsWhole`: no rollback brings
  back half of an older status.
* `WindowNotExtended`, `EveryOutageEnds`, `EveryRequestIsAnswered`: failing
  resumes do not renew the window and do not go on for ever; nobody keeps the
  guard.
* `OnePublishedCopy`, `ResolvedIsPublished`, `FreshIsAssociated`,
  `EveryJobEnds`: with any statement failing and a crash.
* `NothingIsLost`, `LibraryIsKnown`: whatever overlaps, fails or stops, a dropped
  content is on the disk, and a library file is the managed file of a row, on its
  way to be, or is one the history names: left by a failure, also of an attempt that was
  followed by a successful one, or robbed of its row by a file from the same
  source path. `PlayableUnlessMoved`: what is shown is
  there with the content its row says, unless a job has moved it on or published
  it without the move, or a failed attempt has written there.
  `TagsAreKept`, `ScansSettle`: the folders remember guesses without ever
  winning against a tag, and a second scan moves nothing, but for the names that
  section 6 lists.
* `PagesAreExact`: what stood still while a listing was gone through is returned
  exactly once. `ListedOpens`: two predicates agree on what is visible, however
  files were renamed, moved to other songs, quarantined and released.
  `SearchFindsListed`: a song that is listed is found by its title, its album
  and their artists if an import has ever written its projections, whatever
  imports without projections came since, and by the artist it is listed with
  now if the last one did.
* `OrderedList`: the rows of a playlist implement the list (refinement).
  `ItemsAreKept`, `ScreensSettle`, `PageCoversRevision`: an added item is not
  lost; once all is announced and received a screen shows the database; a page
  holds every change up to the revision it names. The page of the favorites is
  not among them: it reads its revision last (`api/favorites.rs:72`), so that a
  change between its rows and its revision is one the client takes for shown.
* `ActsRightfully`, `AnAdminRemains`, `ProjectionMatches`,
  `EveryRequestReturns`: section 1, under PostgreSQL's locks.
* `BackoffFits`, `FlagsAgree`, `AskedWasEnabled`, `RestartsAsStored`: section 1;
  the second and third hold except where the history `raced` says that two
  whole-row writes crossed, which the code does not exclude.

## 4. Fairness

* *Transcoding*: weak fairness of every handler and background task, because the
  runtime polls what can move, ffmpeg ends on a finite input, and the client of
  a stream reads it or leaves. Nothing makes a client arrive or disconnect.
* *Sonos*: weak fairness of a request's own steps (the database and the speaker
  answer or time out) and of the reconciler, whose loop never ends; strong
  fairness of taking the guard, because tokio's mutex hands it over in the order
  it was asked for; weak fairness of time. `EveryOutageEnds` judges only losses
  whose window ends before the bound on time.
* *Import*: weak fairness of the worker and its tasks: its loop runs for ever
  and statements return or fail. No request and no crash is fair. A job whose
  run ended in an error of the database or a crash stays `running`; the property
  counts it as left behind, since nothing in the code takes it up.
* *Accounts*: strong fairness of the steps of a request that has come, because
  PostgreSQL queues those that wait for a lock and its deadlock detector ends
  circles. No request comes of itself, and time is not fair.
* *Catalog files, browse, library, settings* state safety only.

## 5. Proofs

TLAPS proves, for every value of the constants:

| Module | Theorem | Statement |
|---|---|---|
| `MediaTranscodingProofs` | `AdmissionAccounting` | `AdmissionSpec => [](AdmissionTypeOK /\ SlotAccounting)` |
| | `AdmissionHardLimit` | `AdmissionSpec => HardLimit` |
| | `MediaImplementsAdmission` | `MediaSpec => AdmissionSpec` |
| | `MediaTypes` | `MediaSpec => []MediaTypeOK` |
| | `MediaAccounting` | `MediaSpec => [](AdmissionTypeOK /\ SlotAccounting)` |
| | `GenerationsAreExclusive` | `MediaSpec => []OneGeneration` |
| | `NoWakeUpIsLost` | `MediaSpec => []WaiterWillWake` |
| | `ProcessesHoldSlots` | `MediaSpec => []RunningHoldsSlot` |
| | `RenditionsAreWatched` | `MediaSpec => []RenditionIsWatched` |
| | `RenditionsAreKept` | `MediaSpec => RenditionIsKept` (an action property) |
| `PlaybackSessionProofs` | `PlaybackTypes` | `Spec => []SessionTypeOK` |
| | `CursorsAreSound` | `Spec => []QueueCursor` |
| | `TransfersHaveQueues` | `Spec => []TransferHasQueue` |
| | `ClientsConverge` | `Spec => []ScreenFollows` |
| `SonosSessionProofs` | `SonosTypes` | `Spec => []SonosTypeOK` |
| | `ClaimsAreNotLent` | `Spec => []ClaimsAreOfThisSession` |
| | `EndedSessionsStayEnded` | `Spec => []EndedStaysEnded` |
| | `StopsSilence` | `Spec => []StopSilences` |
| | `StatusesAreWhole` | `Spec => []StatusIsWhole` |
| | `SkipsStayInside` | `Spec => []IndexInsideQueue` |
| | `WindowsAreNotExtended` | `Spec => []WindowNotExtended` |
| `ImportJobsProofs` | `CopiesAreNotRepeated` | `Spec => []OnePublishedCopy` |
| | `ResolvedItemsArePublished` | `Spec => []ResolvedIsPublished` |
| | `FreshFilesAreAssociated` | `Spec => []FreshIsAssociated` |
| | `ImportTypes` | `Spec => []ImportTypeOK` |
| `CatalogProofs` | `ImportsLoseNothing` | `Spec /\ []EveryNameHasRoom /\ []ReadsHold => []NothingIsLost` |
| | `LibraryFilesAreKnown` | `Spec /\ []EveryNameHasRoom /\ []ReadsHold => []LibraryIsKnown` |
| | `WhatIsShownPlays` | `Spec /\ []EveryNameHasRoom /\ []ReadsHold => []PlayableUnlessMoved` |
| | `TagsDecideNames` | `Spec /\ []EveryNameHasRoom /\ []ReadsHold => []TagsAreKept` |
| | `ScansComeToRest` | `Spec => []ScansSettle` |
| | `ListedThingsOpen` | `BrowseSpec => []ListedOpens` |
| | `ListedThingsAreFound` | `BrowseSpec => []SearchFindsListed` |
| | `PagesReturnOnce` | `BrowseSpec => []PagesAreExact` |
| `LibraryScreensProofs` | `KeptItems` | `Spec => ItemsAreKept` (an action property) |
| | `ListIsOrdered` | `Spec => OrderedList` (the refinement of `PlaylistOrder`) |
| | `PagesCoverRevisions` | `Spec => []PageCoversRevision` |
| | `SettledScreensAreTrue` | `Spec => []ScreensSettle` |
| `AccountAccessProofs` | `AdminsRemain` | `Spec => AnAdminRemains` (an action property) |
| | `ProjectionsMatch` | `Spec => []ProjectionMatches` |
| | `RequestsActRightfully` | `Spec => []ActsRightfully` |
| `ServerSettingsProofs` | `BackoffEnds` | `Spec => []BackoffFits` |
| | `ServerRestartsAsStored` | `Spec => RestartsAsStored` (an action property) |
| | `ProvidersShowTheirSettings` | `Spec => []FlagsAgree` |
| | `FilesAskWhatIsOn` | `Spec => AskedWasEnabled` (an action property) |

These are all the safety properties the passing runs check. The assumptions are
those of the modules (section 2) and, for four theorems of `CatalogProofs`, the
two conditions in the table, which are discussed under *Files*.

*The pool.* The inductive invariant is the type invariant with the accounting
equation. It needs the finiteness of `Requests` (an assumption of the module):
`Cardinality` says nothing of an infinite set. The subtraction of a drop never
saturates because a slot that is dropped is one of the counted.

*The handlers.* That they implement the pool is a matter of each action alone:
it acquires for the handler that asks, drops a slot that is alive, sets a limit
or leaves the pool unchanged; but that what is dropped is alive needs an
invariant, which says at which `pc` a handler has a slot and which ffmpeg runs
in it. `OneGeneration` needs that a guard names a handler of that rendition, so
that a release takes away no other one's.

*Renditions.* `RenditionsFit` follows a rendition from its rename on: what is at
a path was published by a request for that path, which has ended well, is
watched, or was cancelled (`Sound`); a handler that clears a path has seen
nothing there, so that only a rename that outlived its handler can have come
since (`Clears`); and a task watches what its own request published, unless a
removal that outlived its handler was there (`Watches`). That nobody else takes
a rendition away follows for each step.

*The playback session.* `QueueCursor` is not inductive: a commit writes a
preview computed earlier, so that the previews in flight must be sound too, and
a preview that carries a transfer must carry a queue. `IInv` is the type
invariant, `Whole` of every session (cursor, position within duration, transfer
only with a queue) and `JobOK` of every handler, which says what it keeps for
each phase it may be in. The lemmas say what each operator does to a whole
session; the step theorem has one case per action. The assumptions are those of
the module: inputs are typed, and `None` is none of the values.
`ClientsConverge` needs a second invariant, `ScreenInv`: revisions are drawn
from one counter and never repeat for an account, whatever is being sent or
shown is behind the session or is it, and the newest change is shown or on its
way. It uses `IInv` as a lemma.

*The Sonos session.* What a task will write back matters as much as what is in
the map. `IInv` says what a task keeps at each await (`Shapes`); that the
transport guard is held by whoever is at an await that needs it (`Guarded`);
that *every* copy of a session, in the map or kept for a rollback, is sound
(`AllSound`), and that copies of one session have one queue and one generation
(`Families`). A session that is not inserted yet has no copy and has not ended
(`Unborn`); between its insertion and the end of its start the map holds it or
nothing, and what the start would put back has not ended (`Alone`). That is why
nothing ended comes back. An answered stop has left no holder of the guard that
could play (`Silent`). The deadline of a lost session needs a second invariant,
`WindowInv`: copies remember only outages that have begun, and what will be
written back during an outage is lost since its begin.

*Import jobs.* `OnePublishedCopy` is not inductive: what the look for duplicates
found must still be true at the commit. `CopyInv` adds that a file between the
two holds the lock of its song, and that a verdict to publish is current.
Nothing is assumed of how many files, threads, jobs or crashes there are, nor
of which files are fragile. An item is resolved by the retry made for it, whose
scope is the one file of the item, so that whoever settles the item has
imported its file (`WorksInv`, `RunInv`), and a file is told it was published
only when it is (`VerdictInv`). `CanonInv` adds that a song's canonical file is
one of its own.

*Files.* Three layers, each using the one before. `FilesFit`: until a file is
moved, a worker finds there what it has read; workers with locks have disjoint
keys, and the keys cover the content and the folder of the target; so that no
move overwrites the only copy of a content. `RequestsFit`: what a worker hands to
the catalog names the file where it lies. `LibraryFits`: every published row
names a library file with its content, or one that the history excuses, and
every library file has its row, its worker or its excuse. The lemmas about
`CatalogStore` say what one transaction does to the rows of other files. The
condition `EveryNameHasRoom` says that one of the numbers tried for a name that
is taken is free: after the last one the code returns the taken name and
overwrites it (`pipeline.rs:2391`). The condition `ReadsHold` says that a worker
that has probed a file and waits for its keys still finds there what it has
read. A file of the library may lie at the name another worker takes as free,
because it has the same content (`UniqueTarget`); if that worker's copy stops
half-way, the file is spoiled although the first worker has its hash already.
The reachable states of `catalog_files` satisfy both conditions. What a move
tried again leaves is in `stray` from the step that writes it, so that no layer
has to know how often it is tried.

*Names.* `NamesFit` says of every request and of every published row that it is
named as the tags of its content state. The tags come first in what a file is
grouped by (`TagsOfFile`), the answers of the providers replace only what no tag
states (`ChosenTells`), and a move or another scan changes neither the content
nor, without a sidecar, what is stated of it (`TagsStayTold`). `ScansComeToRest`
is about one grouping after the other and needs no invariant: the path that the
first one makes has as many parts as a second one reads (`PathParts`), and each
name is chosen again from a tag, from an answer or from the folder that has it
(`NamedAgain`); the exceptions are the cases where that fails.

*Catalog queries.* Listings look at the canonical file of a song, the queries of
one item compare the song of that file too. They agree because of `RowsFit`: a
song has its group and its artists, and its canonical file is published for that
song and no other. The lemmas take a transaction apart: each upsert writes one
table (`UpsertsWrite`), the rows of a song fit (`SongRowsFit`), a file that goes
to another song is first taken from the one it had (`ReassignmentClears`), and
its association fits (`AssociationFits`). `TextFits` says that every song for
which an import has `written` the projections has the words it goes by, and so
have its group and its artists. The import writes them in its own transaction
(`TextsFollow`); one whose plan leaves the projections alone takes no words away
(`SameTextsStay`), but may credit the song to an artist that has none yet.
Nothing is assumed of the plans.

*Pages.* The invariant `BrowseFits` says of each reader what it has been told
(`Told`): an item that stood still has not been returned while its key lies
behind the cursor, and has been returned once when it does not. A change of the
catalog keeps that, because it takes what it moves out of what stood still
(`ChangesTell`). A page keeps it because rows are compared as words are, which
is strict and total (`BeforeIsStrict`, `BeforeIsTotal`), no two items of a
listing have one key and all keys of a listing have one length (`KeysFit`): what
the page leaves out lies behind its last row, and what it returns does not
(`PageTells`). That keys are unique rests on `Spelled`, what is written in the
rows, which every transaction leaves true (`StepsKeepSpelled`).

*Playlists.* `PlaylistInv` types the rows and says what an open transaction has:
the lock of the row, and in `work` the items that are left, in their order and
without gaps. The operators that sort, clean, insert, remove and reorder are
followed by counting: the place of an item is the number of items before it
(`SortedFits`, `CleanedFits`, `InsertedFits`, `RemovedFits`, `ReorderedFits`).
Each step is then one of the list (`DropsItems` and the lemmas after it), and
what is not in it any more was removed, deleted or is not eligible.

*Screens.* `PageInv`: what a handler reads for the pages only grows, and it reads
the revision before the content, so that whatever an event up to that revision
shows is not newer (`Below`, `Covers`). `ScreenInv` is for the screens that are
not `unsettled`: what a handler holds for one of them that nobody crossed is what
the database holds (`HeldIsFresh`), and there is a place in the channel from
which on every event that touches the screen shows the truth, or the client has
it marked for fetching (`CatchesUp`). Loss and lag only move that place.

*Accounts.* `TableInv`: who holds the table lock met no transaction that writes
a playlist or an item, and nobody else begins one, so that what a deletion has
counted and swept still holds when it deletes. An administrator who deletes the
other has therefore counted a third or itself. `ActsRightfully` is about copies
of rows: `VersionInv` says that a name and an `updated_at` together name one
version of one row, wherever a copy of it is kept (the table, a request, the
cache), so that a verified credential that matches a row in both was verified
for that row.

*Settings.* `ServerFits` carries through every read, merge and write-back that
all rows of health, stored or held by an actor, back off rightly. `FlagsFit` is
for providers that `raced` does not name: at most one handler is changing such a
provider, it holds the row alone, and when nobody is, every copy of the row
shows the settings. `AskedFits` adds that a file that is about to ask has taken
up only what was on since it began.

*Only model-checked.* Liveness, which is out of the prover's reach:
`EveryRequestEnds`, `EveryOutageEnds`, `EveryRequestIsAnswered`, `EveryJobEnds`,
`EveryRequestReturns`.

## 6. Findings and known exceptions

One run shows a disagreement with a document:

* `playback_stale_transfer`: a PATCH or PUT that previewed the session before a
  newer transfer was asked for writes the older transfer back (`state.rs:5348`),
  against `INTEGRATION.md:922`.

Others were met while modelling. They are behaviours of the models, and
properties are stated so as to leave room for them and no more:

* the confirmation endpoint binds the session to a speaker the server is still
  loading (`state.rs:929`; `INTEGRATION.md:891`);
* two failing skips capture each other in their rollbacks and leave the session
  on an item that was never loaded (`sonos.rs:1425`); a resume or a
  reconnection loads it;
* a retried file is published while its quarantine item is active, so that its
  song gets no canonical file (`catalog.rs:5002`, `pipeline.rs:936`;
  `migrations/0009_canonical_media_associations.sql:1`): `FreshIsAssociated`
  speaks of files that were never quarantined;
* a setting that an update omits is taken from memory before another update is
  published there, and is stored as it was (`state.rs:1828`);
* a job that regroups a managed file leaves the row it is shown by with the old
  path (`pipeline.rs:705`): `moved`, an exception of `PlayableUnlessMoved`;
* a file that is dropped where an earlier one was, and imported after the earlier
  one was moved, takes over its row (`ON CONFLICT (source_path)`,
  `catalog.rs:4777`): the library file of the first belongs to no row any more:
  `replaced`, an exception of `LibraryIsKnown`;
* a file that looked like a duplicate is not moved; if that copy is gone when the
  transaction looks again, the file is published under a target it never reached
  (`pipeline.rs:755`, `catalog.rs:834`): `unmoved`, another exception of
  `PlayableUnlessMoved`;
* a repair whose plan leaves the search projections alone publishes songs that
  are listed and not found (`pipeline.rs:688`, `catalog.rs:3586`):
  `SearchFindsListed` speaks of what was `written`, and of the artist a song is
  credited to only if the last import of the song wrote it;
* an attempt to move that copied the file, whole or in part, and failed leaves
  the copy, and the next attempt takes another name (`pipeline.rs:1291`,
  `2031`, `2344`): a library file that nobody names although the import has
  succeeded: `stray`, an exception of `LibraryIsKnown`. If the copy stopped over a
  file of the same content, that file is spoiled: `stray` is an exception of
  `PlayableUnlessMoved`, and `ReadsHold` (section 5) is about it;
* a file without a title but with a number gets the number put before its name
  at every refreshing scan (`pipeline.rs:2298`); a name with a blank
  beside the dots at its end is cleaned in two scans (`catalog.rs:5980`); music of an artist whose
  folder is called as that of the podcasts becomes a podcast (`pipeline.rs:2171`):
  the exceptions of `ScansSettle`. A copy that was called "(2)" becomes "(3)"
  (`pipeline.rs:2391`);
* names of which normalization leaves nothing look stable to the pipeline and
  are refused by the checks of the database after the move
  (`pipeline.rs:2263`, `catalog.rs:5939`), another exception of `LibraryIsKnown`;
* names from a sidecar beside a dropped file are not found again after the move
  (`media.rs:435`), the exception of `TagsAreKept`, and until the library has its folder of podcasts, a folder of
  that name makes podcasts anywhere (`pipeline.rs:2171`);
* changes of a playlist or a favorite that overlap may be announced in the other
  order (`state.rs:1276`), a handler dropped after its commit announces nothing
  (`state.rs:1326`), and a listing that removes items tells nobody
  (`storage.rs:1490`): the `unsettled` screens of `ScreensSettle`;
* what an import takes from the sections of Home that are made of playback rows,
  or from the favorites, or gives back to them, is announced to none of them
  (`api/home.rs:369`, `460`, `api/favorites.rs:178`, `state.rs:1240`;
  `INTEGRATION.md:1364` has clients fetch the catalog): `unsettled` too;
* the page of the favorites reads its revision after its rows
  (`api/favorites.rs:72`): `PageCoversRevision` speaks of the other pages;
* two whole-row writes of a provider's health may lose a change of its settings
  until the next change or a restart (`state.rs:2011`; a check reconciles the
  readiness and leaves the flags as they are, `providers.rs:563`): `raced`.

## 7. Not modelled, and why

* *Transcoding*: range requests, playlists' text, ffmpeg arguments, leaks of
  temporary directories (no state distinguishes them), errors of the file system
  while a manifest is looked for (`transcode.rs:642`, `782`): the handler then
  drops child, slot and guard as after a failing ffmpeg.
* *Playback*: attribution.
* *Sonos*: positions and ticks, the natural end of an item, several targets and
  their groups, discovery; the binding of the shared session, which
  PlaybackSession has; a SOAP call that is applied after later calls; restart
  (managed sessions are not persisted); a signed URL that cannot be made for the
  turned session because the public base URL has been removed from the
  configuration meanwhile, which rolls the turn back (`sonos.rs:1442`, `2184`) as
  a load that fails does. Resolving a target without a cached
  location is left out because a managed session always has one.
* *Import jobs*: statements of an aborted task that still run on the server,
  deletion of items by an admin. The transaction of a retry is one step.
* *Import of files*: years and extensions (they decide neither song nor path in
  a way the properties tell apart), sidecar and artwork files except that writing
  them may fail, retries of quarantine items (in `ImportJobs`), similar copies
  that differ in their album artist (no lock serialises them; `Duplicates` is
  evaluated in the transaction), two transactions that wait for each other's
  artist rows (PostgreSQL ends one, which is `ImportFails`). More copies of one
  name than `MaxCopies` would overwrite one, as in the code after 9999.
* *Catalog*: filters, genres, artwork candidates, provenance, provider links, the
  limit of a search.
* *Library*: the layout of the cards of Home; of the sync snapshots everything
  but the row, the items and their hearts; the statements that read a section of
  Home are one step (`api/home.rs:149`, `262`): a change between two of them crosses
  the event and leaves the screen `unsettled` as one just after the read does;
  several accounts and clients (an event is for one account or for all, a client
  keeps nothing of another's).
* *Watcher*: stability window and fingerprints (`services.rs`).
* *Provider requests*: HTTP, parsing, matching.
* Artwork, OpenAPI, admin UI, migrations: reads, text or one-off statements.

## 8. Plan

What is left, in this order:

1. `DropboxWatcher` (stability window, fingerprints, a job that is already
   running) over `ImportJobs`.
2. The composition of `SonosSession` with `PlaybackSession`, on abstractions of
   both: a start that is bound after its session was stopped or expired
   (`sonos.rs:805`).
3. Strong fairness of the client and the channel of `LibraryScreens`, to state
   that screens settle in the end, rather than when nothing is left to do.
