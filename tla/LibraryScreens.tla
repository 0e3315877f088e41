-------------------------- MODULE LibraryScreens --------------------------
(***************************************************************************)
(* What the screens of one account show of its playlists, favorites and    *)
(* playback rows (src/src/state.rs, src/src/api).  A handler commits its   *)
(* change, then reads what the screens have to show, takes the next number *)
(* of the event sequence and sends the event: four steps, with other       *)
(* handlers between any two of them.  A client applies the events in the   *)
(* order of their numbers and fetches a screen again when one is missing,  *)
(* late or a recovery marker.                                              *)
(*                                                                         *)
(* A fact of the database is the number of times it was written; a track   *)
(* is a favorite while that number is odd.                                 *)
(***************************************************************************)
EXTENDS PlaylistItems

CONSTANTS
    Workloads,      \* what the requests ask for
    Library,        \* the items of the playlist, where it exists from the start
    Capacity        \* of the broadcast channel

OtherKinds == {"list", "create", "update", "delete", "toggle", "favor", "unfavor", "progress",
               "history", "import", "others", "homePage", "listPage", "favoritesPage"}

ASSUME ScreensAssumption ==
    /\ Workloads \subseteq [Requests -> ItemRequests \cup [kind : OtherKinds]]
    /\ \E n \in 0..MaxId : Library \in [1..n -> [item : Tracks, position : Nat]]
    /\ Capacity \in Nat

VARIABLES
    facts,      \* the other rows: favorite, progress, history; what the catalog shows
    todo,       \* the events each request still owes its screens
    held,       \* what it has read for the first of them
    number,     \* and the sequence number it took for it
    log,        \* the events by their sequence number
    sent,       \* the numbers, in the order the channel took the events
    page,       \* the answers of the requests that fetched a page
    client,     \* how far the client has come, and what it must fetch
    screen      \* what its screens show

\* History, no part of the program: the screens that no event has brought up
\* to date, and those of each request that another change has met.
VARIABLES unsettled, crossed

eventVars == <<todo, held, number, log, sent>>
clientVars == <<client, screen>>
historyVars == <<unsettled, crossed>>
vars == <<playlistVars, facts, eventVars, page, clientVars, historyVars>>

-----------------------------------------------------------------------------
Surfaces == {"list", "detail", "favorites", "continue", "recent", "recentItems", "progress",
             "history", "releases"}

\* What the sections of Home are made of: progress and history with the heart of
\* their tracks, cards of the playlists and albums that were played, new releases;
\* of all of them only what the catalog shows, and so of the favorites.
HomeContinue == <<facts.progress, facts.favorite, facts.catalog>>
HomeRecent == <<facts.history, facts.favorite, facts.catalog>>
HomeRecentItems == <<facts.history, row.version, facts.catalog>>
HomeReleases == <<facts.catalog>>
FavoriteEntries == <<facts.favorite, facts.catalog>>
PlaylistRow == <<row.version>>

\* The items of a playlist, with the heart of their tracks.
PlaylistSnapshot == <<row.version, Remaining(rows), facts.favorite>>

\* What each screen has to show.
Truth(s) ==
    CASE s = "list" -> PlaylistRow
      [] s = "detail" -> PlaylistSnapshot
      [] s = "favorites" -> FavoriteEntries
      [] s = "continue" -> HomeContinue
      [] s = "recent" -> HomeRecent
      [] s = "recentItems" -> HomeRecentItems
      [] s = "progress" -> <<facts.progress>>
      [] s = "history" -> <<facts.history>>
      [] s = "releases" -> HomeReleases

\* The events a change is followed by, in their order, and the screens each of
\* them replaces.  The marker that asks for the catalog to be fetched again, after
\* a favorite or an import, is left out: it replaces no screen.
Event(surfaces, how) == [surfaces |-> surfaces, how |-> how]

PlaylistEvents(kind) ==
    <<Event({"list"}, "row"), Event({"detail"}, IF kind = "delete" THEN "removed" ELSE "detail")>>

FavoriteEvents == <<Event({"continue", "recent"}, "project"), Event({"favorites"}, "project")>>

ProgressEvents == <<Event({"continue"}, "project"), Event({"progress"}, "row")>>
HistoryEvents == <<Event({"recentItems", "recent"}, "project"), Event({"history"}, "row")>>
ImportEvents == <<Event({"releases"}, "project")>>

EventsOf(kind) ==
    CASE kind \in {"create", "update", "delete"} \cup ItemKinds -> PlaylistEvents(kind)
      [] kind \in {"toggle", "favor", "unfavor"} -> FavoriteEvents
      [] kind = "progress" -> ProgressEvents
      [] kind = "history" -> HistoryEvents
      [] kind = "import" -> ImportEvents
      [] kind = "others" -> <<Event({}, "marker")>>

\* A row that a write returned is shown as it was returned.
Rows(events) ==
    UNION {events[i].surfaces : i \in {j \in DOMAIN events : events[j].how = "row"}}

Nothing == [s \in {} |-> None]

\* The event a request is at.
Current(r) == todo[r][1]

\* What it holds for the screens of that event, before it takes the number of it.
Reading(r, content) ==
    held' = [held EXCEPT ![r] =
                [s \in (DOMAIN @ \ Current(r).surfaces) \cup DOMAIN content |->
                    IF s \in DOMAIN content THEN content[s] ELSE @[s]]]

\* The change of r is committed: it owes its events.
Announces(r) ==
    /\ todo' = [todo EXCEPT ![r] = EventsOf(op[r].kind)]
    /\ held' = [held EXCEPT ![r] = [s \in Rows(EventsOf(op[r].kind)) |-> Truth(s)']]

-----------------------------------------------------------------------------
\* Requests arrive.
First(kind) ==
    CASE kind \in ItemKinds -> "lock"
      [] kind \in {"create", "update", "delete"} -> "write"
      [] kind \in {"homePage", "listPage", "favoritesPage"} -> "revision"
      [] OTHER -> "store"

Asks(r) ==
    /\ phase[r] = "idle"
    /\ Goes(r, First(op[r].kind))
    /\ UNCHANGED <<itemVars, op, answer, facts, eventVars, page, clientVars>>

\* The transactions of the playlist; an update and a delete announce the row
\* they returned, a change of items reads it again first.
Stores(r) ==
    /\ Transaction(r)
    /\ IF phase'[r] = "announce" THEN Announces(r) ELSE UNCHANGED <<todo, held>>
    /\ UNCHANGED <<facts, number, log, sent, page, clientVars>>

\* publish_playlist_items_updated: a playlist that is gone by now, or a read
\* that fails, and nothing is announced.
Rereads(r) ==
    /\ phase[r] = "reread"
    /\ Exists
    /\ Goes(r, "announce")
    /\ todo' = [todo EXCEPT ![r] = EventsOf(op[r].kind)]
    /\ held' = [held EXCEPT ![r] = [s \in {"list"} |-> PlaylistRow]]
    /\ UNCHANGED <<itemVars, op, answer, facts, number, log, sent, page, clientVars>>

RereadsNothing(r) ==
    /\ phase[r] = "reread"
    /\ Goes(r, "done")
    /\ UNCHANGED <<itemVars, op, answer, facts, eventVars, page, clientVars>>

-----------------------------------------------------------------------------
\* Favorites, progress, history, and an import that published something.
Favorite == facts.favorite % 2 = 1

Writes(r, fact) ==
    /\ facts' = [facts EXCEPT ![fact] = @ + 1]
    /\ Goes(r, "announce") /\ Answers(r, "changed")
    /\ Announces(r)

Keeps(r, to, what) ==
    /\ Goes(r, to) /\ Answers(r, what)
    /\ UNCHANGED <<facts, todo, held>>

Records(r) ==
    /\ phase[r] = "store" /\ op[r].kind \in {"progress", "history"}
    /\ Writes(r, op[r].kind)
    /\ UNCHANGED <<itemVars, op, number, log, sent, page, clientVars>>

\* An import that published or quarantined something (publish_library_updated).
Imports(r) ==
    /\ phase[r] = "store" /\ op[r].kind = "import"
    /\ \E item \in Tracks : CatalogChanges(item)
    /\ Writes(r, "catalog")
    /\ UNCHANGED <<op, number, log, sent, page, clientVars>>

\* A change of another account: it takes a number of the same sequence, and its
\* events are not for the client.
Elsewhere(r) ==
    /\ phase[r] = "store" /\ op[r].kind = "others"
    /\ Goes(r, "announce") /\ Answers(r, "changed")
    /\ Announces(r)
    /\ UNCHANGED <<itemVars, op, facts, number, log, sent, page, clientVars>>

\* toggle_track_favorite: insert; if there was a row, delete it in a statement of
\* its own.
Toggles(r) ==
    /\ op[r].kind = "toggle"
    /\ \/ /\ phase[r] = "store"
          /\ IF Favorite THEN Keeps(r, "unfavor", answer[r]) ELSE Writes(r, "favorite")
       \/ /\ phase[r] = "unfavor"
          /\ IF Favorite THEN Writes(r, "favorite")
             ELSE /\ Goes(r, "announce") /\ Answers(r, "changed")
                  /\ Announces(r) /\ UNCHANGED facts
    /\ UNCHANGED <<itemVars, op, number, log, sent, page, clientVars>>

\* add_track_favorite: whether to announce it is decided before the insert.
Favors(r) ==
    /\ op[r].kind = "favor"
    /\ \/ /\ phase[r] = "store"
          /\ Keeps(r, IF Favorite THEN "insertQuietly" ELSE "insert", answer[r])
       \/ /\ phase[r] = "insert"
          /\ IF Favorite THEN /\ Goes(r, "announce") /\ Answers(r, "changed")
                              /\ Announces(r) /\ UNCHANGED facts
             ELSE Writes(r, "favorite")
       \/ /\ phase[r] = "insertQuietly"
          /\ facts' = [facts EXCEPT !.favorite = IF Favorite THEN @ ELSE @ + 1]
          /\ Returns(r, "changed")
          /\ UNCHANGED <<todo, held>>
    /\ UNCHANGED <<itemVars, op, number, log, sent, page, clientVars>>

Unfavors(r) ==
    /\ phase[r] = "store" /\ op[r].kind = "unfavor"
    /\ IF Favorite THEN Writes(r, "favorite") ELSE Keeps(r, "done", "not_found")
    /\ UNCHANGED <<itemVars, op, number, log, sent, page, clientVars>>

-----------------------------------------------------------------------------
\* The content of an event is read, unless a write returned it.  The statements that
\* read a section are one step: a change between two of them crosses the event.
Reads(r) == phase[r] = "announce" /\ todo[r] # <<>>

Projects(r) ==
    /\ Reads(r) /\ Current(r).how = "project"
    /\ Goes(r, "read")
    /\ Reading(r, [s \in Current(r).surfaces |-> Truth(s)])
    /\ UNCHANGED <<itemVars, op, answer, facts, todo, number, log, sent, page, clientVars>>

\* playlist_sync_snapshot_for_account: the row, then the items, which cleans
\* them up in a transaction of its own.
ProjectsRow(r) ==
    /\ Reads(r) /\ Current(r).how = "detail"
    /\ Exists
    /\ Goes(r, "items")
    /\ Reading(r, [s \in {"detail"} |-> PlaylistRow])
    /\ UNCHANGED <<itemVars, op, answer, facts, todo, number, log, sent, page, clientVars>>

ProjectsItems(r) ==
    /\ phase[r] = "items"
    /\ lock = None
    /\ Exists
    /\ rows' = Cleaned(rows)
    /\ Goes(r, "read")
    /\ Reading(r, [s \in {"detail"} |-> <<held[r].detail[1], Remaining(rows'), facts.favorite>>])
    /\ UNCHANGED <<eligible, row, made, lock, work, op, answer, facts, todo, number, log, sent,
                   page, clientVars>>

\* A read that fails, of a playlist that is gone or of anything else: the event
\* is a recovery marker of its surface.
ReadFails(r) ==
    /\ \/ Reads(r) /\ Current(r).how \in {"project", "detail"}
       \/ phase[r] = "items"
    /\ Goes(r, "read")
    /\ Reading(r, Nothing)
    /\ UNCHANGED <<itemVars, op, answer, facts, todo, number, log, sent, page, clientVars>>

\* publish_screen_event: fetch_add.
Shown(r) ==
    CASE Current(r).how = "removed" -> [s \in {"detail"} |-> Truth("detail")]
      [] Current(r).how = "marker" -> Nothing
      [] OTHER -> [s \in Current(r).surfaces \cap DOMAIN held[r] |-> held[r][s]]

\* Mutant of TakesNumber: a projection that fails is left out.
SkipsFailure(r) ==
    /\ \/ Reads(r) /\ Current(r).how \in {"row", "removed", "marker"}
       \/ phase[r] = "read"
    /\ log' = Append(log, [shows |-> Shown(r), marks |-> {}, for |-> op[r].kind])
    /\ number' = [number EXCEPT ![r] = Len(log')]
    /\ Goes(r, "send")
    /\ UNCHANGED <<itemVars, op, answer, facts, todo, held, sent, page, clientVars>>

TakesNumber(r) ==
    /\ \/ Reads(r) /\ Current(r).how \in {"row", "removed", "marker"}
       \/ phase[r] = "read"
    /\ log' = Append(log, [shows |-> Shown(r), marks |-> Current(r).surfaces \ DOMAIN Shown(r),
                           for |-> op[r].kind])
    /\ number' = [number EXCEPT ![r] = Len(log')]
    /\ Goes(r, "send")
    /\ UNCHANGED <<itemVars, op, answer, facts, todo, held, sent, page, clientVars>>

Sends(r) ==
    /\ phase[r] = "send"
    /\ sent' = Append(sent, number[r])
    /\ todo' = [todo EXCEPT ![r] = Tail(@)]
    /\ Goes(r, IF Len(todo[r]) = 1 THEN "done" ELSE "announce")
    /\ number' = [number EXCEPT ![r] = None]
    /\ Reading(r, Nothing)
    /\ UNCHANGED <<itemVars, op, answer, facts, log, page, clientVars>>

\* The handler is dropped at an await of the announcement.
StopsAnnouncing(r) ==
    /\ r \in Cancellable
    /\ phase[r] \in {"reread", "announce", "items", "unfavor", "insert", "insertQuietly"}
    /\ Goes(r, "done")
    /\ todo' = [todo EXCEPT ![r] = <<>>]
    /\ held' = [held EXCEPT ![r] = Nothing]
    /\ UNCHANGED <<itemVars, op, answer, facts, number, log, sent, page, clientVars>>

-----------------------------------------------------------------------------
\* Pages that say which revision they show.  Home and the list of playlists read
\* the revision first, the favorites read it last.
Surface(kind) ==
    CASE kind = "homePage" -> "continue"
      [] kind = "listPage" -> "list"
      [] kind = "favoritesPage" -> "favorites"

\* Mutant of RevisionFirst: every page reads its revision last.
RevisionLast(r) == FALSE

RevisionFirst(r) == op[r].kind # "favoritesPage"

ReadsRevision(r) ==
    /\ phase[r] = IF RevisionFirst(r) THEN "revision" ELSE "content"
    /\ page' = [page EXCEPT ![r].revision = Len(log)]
    /\ Goes(r, IF RevisionFirst(r) THEN "content" ELSE "done")
    /\ UNCHANGED <<itemVars, op, answer, facts, eventVars, clientVars>>

ReadsContent(r) ==
    /\ phase[r] = IF RevisionFirst(r) THEN "content" ELSE "revision"
    /\ page' = [page EXCEPT ![r].content = Truth(Surface(op[r].kind))]
    /\ Goes(r, IF RevisionFirst(r) THEN "done" ELSE "content")
    /\ UNCHANGED <<itemVars, op, answer, facts, eventVars, clientVars>>

-----------------------------------------------------------------------------
\* The client.  A receiver that is more than the capacity behind is moved to the
\* oldest event left, and told to fetch everything.
Unread == Len(sent) - client.read

Lags ==
    /\ Unread > Capacity
    /\ client' = [client EXCEPT !.read = Len(sent) - Capacity, !.fetch = Surfaces]
    /\ UNCHANGED <<playlistVars, facts, eventVars, page, screen>>

Receives ==
    /\ Unread \in 1..Capacity
    /\ LET n == sent[client.read + 1]
           e == log[n]
           trusted == n = client.seen + 1
       IN  /\ IF e.for = "others" THEN client' = [client EXCEPT !.read = @ + 1] /\ UNCHANGED screen
              ELSE /\ client' = [read |-> client.read + 1,
                                 seen |-> IF n > client.seen THEN n ELSE client.seen,
                                 fetch |-> IF trusted THEN client.fetch \cup e.marks ELSE Surfaces]
                   /\ screen' = IF trusted
                                THEN [s \in Surfaces |->
                                         IF s \in DOMAIN e.shows THEN e.shows[s] ELSE screen[s]]
                                ELSE screen
    /\ UNCHANGED <<playlistVars, facts, eventVars, page>>

Fetches ==
    /\ client.fetch # {}
    /\ client' = [client EXCEPT !.fetch = {}]
    /\ screen' = [s \in Surfaces |-> IF s \in client.fetch THEN Truth(s) ELSE screen[s]]
    /\ UNCHANGED <<playlistVars, facts, eventVars, page>>

-----------------------------------------------------------------------------
\* History: the screens r still owes an event.
Owes(r) ==
    IF phase[r] = "reread" THEN {"list", "detail"}
    ELSE UNION {todo[r][i].surfaces : i \in DOMAIN todo[r]}

\* Changes the code announces to nobody: items of a playlist that leave the catalog
\* or a clean-up removes, and their hearts; the Home card of a playlist that changes
\* (INTEGRATION.md:1366); what an import takes from the other screens made of the
\* catalog or gives back to them (INTEGRATION.md:1364), and a favorite that was there
\* when add_track_favorite looked.
Unannounced(R, s) ==
    \/ s = "detail" /\ row' = row
    \/ s = "recentItems" /\ row' # row
    \/ s \in {"continue", "recent", "recentItems", "favorites"} /\ facts'.catalog # facts.catalog
    \/ \E r \in R : phase[r] = "insertQuietly"

NoLongerOwes(r, s) == s \in Owes(r) /\ s \notin Owes(r)'

\* A change that meets the event of another one, an event that is given up, and a
\* change nobody announces leave the screen unsettled, until an event is sent for
\* it that no change met.
Keeping(R, changed) ==
    /\ crossed' = [r \in Requests |->
            IF phase'[r] = "done" THEN {}
            ELSE crossed[r] \cup
                     {s \in changed : IF r \in R THEN \E q \in Requests \ R : s \in Owes(q)
                                      ELSE s \in Owes(r)}]
    /\ unsettled' = {s \in Surfaces :
            \/ \E r \in Requests : s \in crossed'[r]
            \/ \E r \in R : phase[r] # "send" /\ NoLongerOwes(r, s)
            \/ s \in changed /\ Unannounced(R, s)
            \/ /\ s \in unsettled
               /\ ~\E r \in R : phase[r] = "send" /\ NoLongerOwes(r, s) /\ s \notin crossed[r]}

Remembers(R) ==
    \E changed \in {{s \in Surfaces : Truth(s)' # Truth(s)}} : Keeping(R, changed)

RequestSteps(r) ==
    \/ Asks(r)
    \/ Stores(r) \/ Rereads(r) \/ RereadsNothing(r)
    \/ RollsBack(r) /\ UNCHANGED <<facts, eventVars, page, clientVars>>
    \/ Records(r) \/ Imports(r) \/ Elsewhere(r) \/ Toggles(r) \/ Favors(r) \/ Unfavors(r)
    \/ Projects(r) \/ ProjectsRow(r) \/ ProjectsItems(r) \/ ReadFails(r)
    \/ TakesNumber(r) \/ Sends(r) \/ StopsAnnouncing(r)
    \/ ReadsRevision(r) \/ ReadsContent(r)

Init ==
    /\ eligible = Tracks
    /\ op \in Workloads
    /\ IF \E r \in Requests : op[r].kind = "create"
       THEN row = Unborn /\ rows = NoRows
       ELSE row = [version |-> 1, there |-> TRUE] /\ rows = Library
    /\ made = Cardinality(DOMAIN rows)
    /\ lock = None /\ work = NoRows
    /\ phase = [r \in Requests |-> "idle"]
    /\ answer = [r \in Requests |-> None]
    /\ facts = [favorite |-> 0, progress |-> 0, history |-> 0, catalog |-> 0]
    /\ todo = [r \in Requests |-> <<>>]
    /\ held = [r \in Requests |-> Nothing]
    /\ number = [r \in Requests |-> None]
    /\ log = <<>> /\ sent = <<>>
    /\ page = [r \in Requests |-> [revision |-> None, content |-> None]]
    /\ client = [read |-> 0, seen |-> 0, fetch |-> {}]
    /\ screen = [s \in Surfaces |-> Truth(s)]
    /\ unsettled = {}
    /\ crossed = [r \in Requests |-> {}]

Next ==
    \/ \E r \in Requests : RequestSteps(r) /\ Remembers({r})
    \/ (Lags \/ Receives \/ Fetches) /\ Remembers({})

Spec == Init /\ [][Next]_vars

-----------------------------------------------------------------------------
Quiet ==
    /\ \A r \in Requests : phase[r] \in {"idle", "done"}
    /\ Unread = 0
    /\ client.fetch = {}

\* "A trusted direct patch should be applied to local cache and rendered without
\* an HTTP refetch" (INTEGRATION.md:1387): once everything has been announced and
\* received, a screen shows what the database holds, unless the last changes of
\* what it shows overlapped, or one of them was never announced.  Lost, late and
\* failed events are made good.
ScreensSettle == Quiet => \A s \in Surfaces \ unsettled : screen[s] = Truth(s)

\* A page of Home or of the playlists that names a revision holds every change
\* announced up to it: a client may ignore the events up to that number.
NotOlder(content, shown) == \A i \in DOMAIN shown : content[i] >= shown[i]

PageCoversRevision ==
    \A r \in Requests :
        phase[r] = "done" /\ op[r].kind \in {"homePage", "listPage"}
        => \A n \in 1..page[r].revision :
               Surface(op[r].kind) \in DOMAIN log[n].shows
               => NotOlder(page[r].content, log[n].shows[Surface(op[r].kind)])

\* An item that was added stays until somebody removes it or the playlist, or
\* until a clean-up finds it gone from the catalog: what others do at the same
\* time does not lose it.
ItemsAreKept ==
    [][\A i \in DOMAIN rows \ DOMAIN rows' :
           \/ ~Exists'
           \/ \E r \in Requests :
                  \/ op[r].kind = "remove" /\ op[r].id = i /\ phase[r] = "apply"
                  \/ lock = r /\ phase[r] = "apply" /\ i \notin DOMAIN work
           \/ rows[i].item \notin eligible]_vars
=============================================================================
