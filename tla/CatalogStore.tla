---------------------------- MODULE CatalogStore ----------------------------
(***************************************************************************)
(* The tables of the catalog (src/src/catalog.rs) as one value, and what   *)
(* the transaction of an import makes of it: the rows it upserts, the file *)
(* it associates with a track or an episode, the search projections, and   *)
(* the quarantine item of a file that is not published.                    *)
(*                                                                         *)
(* Albums and podcasts are groups, tracks and episodes are songs.  A row   *)
(* is known by what the unique index of its table compares: normalized     *)
(* names, and the position in the group (disc and track, or season and     *)
(* episode).  A media file is known by its source path.  Provider links,   *)
(* provenance, artwork and the keys of the filters are left out, and so    *)
(* are the columns that hold for every published row: an import publishes  *)
(* only stable groupings, so published_at and stable_grouping always agree *)
(* and a published file is never a duplicate of another.                   *)
(***************************************************************************)
EXTENDS Naturals, Sequences, FiniteSets

CONSTANTS
    None,
    Names,      \* names and titles as they are spelled in tags
    Norm        \* normalize_catalog_text: the number of the normalized text

ASSUME NormAssumption == Norm \in [Names -> Nat] /\ None \notin Names /\ None \notin Nat

\* What an import knows of a file when it reaches the catalog: where it is and
\* was found, its content and length, and the names it is grouped by.  A podcast
\* has no artists.
Stable(g) ==
    /\ g.group # None /\ g.title # None
    /\ g.kind = "music" => g.owner # None /\ g.creator # None

Norms(name) == IF name = None THEN None ELSE Norm[name]

GroupKey(g) == <<g.kind, Norms(g.owner), Norm[g.group]>>
SongKey(g) == <<GroupKey(g), g.position, Norm[g.title]>>

GroupOf(song) == song[1]
OwnerOf(group) == group[2]

EmptyCatalog ==
    [artists |-> <<>>,      \* by normalized name: how it is spelled
     groups  |-> <<>>,      \* by GroupKey: the title
     songs   |-> <<>>,      \* by SongKey: title, artist, canonical file
     media   |-> <<>>,      \* by source path: the media files
     held    |-> {},        \* source paths with an open or retrying quarantine item
     artistText |-> <<>>, groupText |-> <<>>, songText |-> <<>>]

-----------------------------------------------------------------------------
\* The upserts: a row with the key of another takes its place.
Put(rows, key, row) ==
    [k \in DOMAIN rows \cup {key} |-> IF k = key THEN row ELSE rows[k]]

\* The spelling of the last import wins.
WithArtist(db, name) == [db EXCEPT !.artists = Put(@, Norm[name], name)]

WithAlbum(db, g) ==
    [db EXCEPT !.groups = Put(@, <<"music", Norm[g.owner], Norm[g.group]>>, g.group)]

WithPodcast(db, g) == [db EXCEPT !.groups = Put(@, <<"podcast", None, Norm[g.group]>>, g.group)]

\* The conflict with a song that is there leaves its canonical file alone.
WithSong(db, g, artist) ==
    LET key == SongKey(g)
        canonical == IF key \in DOMAIN db.songs THEN db.songs[key].canonical ELSE None
    IN  [db EXCEPT !.songs = Put(@, key, [title |-> g.title, artist |-> artist,
                                          canonical |-> canonical])]

WithTrack(db, g) == WithSong(db, g, Norm[g.creator])

WithEpisode(db, g) == WithSong(db, g, None)

Published(db) == {p \in DOMAIN db.media : db.media[p].status = "published"}

\* A file that may stand for the song: the conditions of set_track_canonical.
Eligible(db, p, song) ==
    p \in Published(db) /\ db.media[p].song = song /\ p \notin db.held

WithCanonical(db, song, p) ==
    LET current == db.songs[song].canonical
    IN  IF Eligible(db, p, song) /\ ~(current # None /\ Eligible(db, current, song))
        THEN [db EXCEPT !.songs[song].canonical = p]
        ELSE db

\* Mutant of ReassignedAway: the song that had the file keeps pointing at it.
ReassignedNowhere(db, p, song) == db

\* A file that is published for another song than before stands for none first.
ReassignedAway(db, p, song) ==
    IF p \in DOMAIN db.media /\ db.media[p].song \notin {None, song}
    THEN [db EXCEPT !.songs = [s \in DOMAIN @ |->
              IF @[s].canonical = p THEN [@[s] EXCEPT !.canonical = None] ELSE @[s]]]
    ELSE db

\* The conflict of upsert_media_file: a published row is left as it is by a write
\* of any other status.
WithRow(db, p, row) ==
    IF p \in Published(db) /\ row.status # "published" THEN db
    ELSE [db EXCEPT !.media = Put(@, p, row)]

WithMedia(db, rq, status, song) ==
    LET p == rq.path
        cleared == IF status = "published" THEN ReassignedAway(db, p, song) ELSE db
        stored == WithRow(cleared, p,
                      [status |-> status, song |-> song, hash |-> rq.hash,
                       seconds |-> rq.seconds,
                       managed |-> IF status = "published" THEN rq.managed ELSE None])
    IN  IF p \in Published(stored) THEN WithCanonical(stored, stored.media[p].song, p)
        ELSE stored

-----------------------------------------------------------------------------
\* The search projections: the title a result shows and the words it is found by.
SongWords(g) ==
    LET group == Norm[g.group]
    IN  IF g.kind = "podcast" THEN <<Norm[g.title], group>>
        ELSE IF g.owner # g.creator
             THEN <<Norm[g.title], group, Norm[g.owner], Norm[g.creator]>>
             ELSE <<Norm[g.title], group, Norm[g.creator]>>

GroupWords(g) ==
    IF g.kind = "podcast" THEN <<Norm[g.group]>> ELSE <<Norm[g.group], Norm[g.owner]>>

\* Mutant of Projected: only the artist of the album can be found.
ProjectedOwner(db, g) ==
    [db EXCEPT
        !.artistText = IF g.owner = None THEN @ ELSE Put(@, Norm[g.owner], <<Norm[g.owner]>>),
        !.groupText = Put(@, GroupKey(g), GroupWords(g)),
        !.songText = Put(@, SongKey(g), SongWords(g))]

Projected(db, g) ==
    [db EXCEPT
        !.artistText = IF g.owner = None THEN @
                       ELSE Put(Put(@, Norm[g.creator], <<Norm[g.creator]>>),
                                Norm[g.owner], <<Norm[g.owner]>>),
        !.groupText = Put(@, GroupKey(g), GroupWords(g)),
        !.songText = Put(@, SongKey(g), SongWords(g))]

-----------------------------------------------------------------------------
\* publish_music_file and publish_podcast_file: one transaction.
PublishedMusic(db, rq) ==
    LET g == rq.grouping
        rows == WithTrack(WithAlbum(WithArtist(WithArtist(db, g.owner), g.creator), g), g)
        stored == WithMedia(rows, rq, "published", SongKey(g))
    IN  IF rq.rebuild THEN Projected(stored, g) ELSE stored

PublishedPodcast(db, rq) ==
    LET g == rq.grouping
        stored == WithMedia(WithEpisode(WithPodcast(db, g), g), rq, "published", SongKey(g))
    IN  IF rq.rebuild THEN Projected(stored, g) ELSE stored

\* quarantine_catalog_file: the item that is active for the file is the one the
\* queries of the catalog look for.
StatusFor(reason) ==
    CASE reason = "duplicate" -> "duplicate"
      [] reason = "file_error" -> "failed"
      [] OTHER -> "quarantined"

WithItem(db, p) == [db EXCEPT !.held = @ \cup {p}]

Quarantined(db, rq, reason) ==
    WithItem(WithMedia(db, rq, StatusFor(reason), None), rq.path)

-----------------------------------------------------------------------------
\* find_duplicate_candidate: another published file with the same content, or
\* with the same names and about the same length.
Apart(a, b) == IF a > b THEN a - b ELSE b - a

Others(db, rq) == {p \in Published(db) : p # rq.path /\ db.media[p].managed # rq.path}

SameMusic(db, g, p) ==
    LET song == db.media[p].song
    IN  /\ GroupOf(song)[1] = "music"
        /\ db.songs[song].artist = Norm[g.creator]
        /\ GroupOf(song)[3] = Norm[g.group]
        /\ song[3] = Norm[g.title]

SamePodcast(db, g, p) ==
    LET song == db.media[p].song
    IN  /\ GroupOf(song) = GroupKey(g)
        /\ song[3] = Norm[g.title]
        /\ g.position \in {0, song[2]}

Duplicates(db, rq) ==
    {p \in Others(db, rq) :
        \/ db.media[p].hash = rq.hash
        \/ /\ Stable(rq.grouping)
           /\ Apart(db.media[p].seconds, rq.seconds) <= 3
           /\ IF rq.grouping.kind = "music" THEN SameMusic(db, rq.grouping, p)
              ELSE SamePodcast(db, rq.grouping, p)}

\* reusable_published_media_file: the file is published already.
ByManagedPath(db, p, hash) ==
    {q \in Published(db) : db.media[q].managed = p /\ db.media[q].hash = hash}

Reusable(db, rq) ==
    ByManagedPath(db, rq.path, rq.hash) \cup
    {q \in Published(db) : /\ rq.managed = rq.path
                           /\ db.media[q].hash = rq.hash /\ db.media[q].managed = None}

Decision(db, rq) ==
    CASE ~Stable(rq.grouping) -> "metadata_failure"
      [] Stable(rq.grouping) /\ rq.reuse /\ Reusable(db, rq) # {} -> "reused"
      [] OTHER -> IF Duplicates(db, rq) # {} THEN "duplicate" ELSE "published"

Imported(db, rq) ==
    CASE Decision(db, rq) = "reused" -> db
      [] Decision(db, rq) = "published" ->
            IF rq.grouping.kind = "music" THEN PublishedMusic(db, rq)
            ELSE PublishedPodcast(db, rq)
      [] OTHER -> Quarantined(db, rq, Decision(db, rq))

-----------------------------------------------------------------------------
\* What the queries of the catalog show: BROWSE_VISIBLE_MEDIA_FILE_PREDICATE over
\* the canonical file.  The queries of one item also compare the file's own song.
Shown(db, song) ==
    LET p == db.songs[song].canonical
    IN  p # None /\ p \in Published(db) /\ p \notin db.held

Opens(db, song) == Shown(db, song) /\ db.media[db.songs[song].canonical].song = song
=============================================================================
