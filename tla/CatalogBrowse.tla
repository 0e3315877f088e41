--------------------------- MODULE CatalogBrowse ---------------------------
(***************************************************************************)
(* Reading the catalog (src/src/catalog.rs) while imports change it:       *)
(* listings that are fetched page by page, the search, and the queries     *)
(* that open one item.  A page is one statement.  Nothing holds the        *)
(* catalog still between two pages: the cursor of a page is the sort key   *)
(* of the last row it returned, and the next page starts after that key.   *)
(***************************************************************************)
EXTENDS CatalogStore, SequencesExt

CONSTANTS
    NameKey,    \* lower(name): its place in the collation
    SortKey,    \* lower(COALESCE(sort_name, name)): the same without articles
    Imports,    \* what the imports bring
    Readers,
    Limits,     \* the page sizes readers ask for
    MaxChanges  \* bound: changes of the catalog

ASSUME BrowseAssumption ==
    /\ NameKey \in [Names -> Nat] /\ SortKey \in [Names -> Nat]
    /\ Limits \subseteq Nat \ {0}
    /\ MaxChanges \in Nat

\* A grouping is of music or of a podcast (CatalogGrouping), and None is no song.
ASSUME ImportsAssumption ==
    \A rq \in Imports :
        LET g == rq.grouping
        IN  /\ g.kind \in {"music", "podcast"}
            /\ g.kind = "podcast" => g.owner = None /\ g.creator = None
            /\ {g.owner, g.creator, g.group, g.title} \subseteq Names \cup {None}
            /\ g.position \in Nat
            /\ Stable(g) => SongKey(g) # None

VARIABLES
    catalog,
    reader,     \* the listing each reader is going through
    changes

\* History, no part of the program: what has been in the listing of a reader, under
\* one key, all along; and the songs whose projections an import has written, ever
\* and as the last one that named them.
VARIABLES steady, written

browseVars == <<catalog, reader, changes, steady, written>>

Kinds == {"artists", "albums", "tracks", "podcasts", "episodes", "podcast_episodes"}

-----------------------------------------------------------------------------
\* What each listing holds.  A listing looks at the canonical file of a song, the
\* queries of one item compare the song of that file as well.
ShownSongs(c, kind) == {s \in DOMAIN c.songs : GroupOf(s)[1] = kind /\ Shown(c, s)}
OpenSongs(c, kind) == {s \in ShownSongs(c, kind) : Opens(c, s)}

ListedArtists(c) ==
    {a \in DOMAIN c.artists : \E s \in ShownSongs(c, "music") :
        a = OwnerOf(GroupOf(s)) \/ a = c.songs[s].artist}

ListedAlbums(c) ==
    {g \in DOMAIN c.groups : \E s \in ShownSongs(c, "music") : GroupOf(s) = g}

ListedTracks(c) == ShownSongs(c, "music")

ListedPodcasts(c) ==
    {g \in DOMAIN c.groups : \E s \in ShownSongs(c, "podcast") : GroupOf(s) = g}

ListedEpisodes(c) == ShownSongs(c, "podcast")

EpisodesOf(c, g) == {s \in OpenSongs(c, "podcast") : GroupOf(s) = g}

Listed(c, kind, of) ==
    CASE kind = "artists"  -> ListedArtists(c)
      [] kind = "albums"   -> ListedAlbums(c)
      [] kind = "tracks"   -> ListedTracks(c)
      [] kind = "podcasts" -> ListedPodcasts(c)
      [] kind = "episodes" -> ListedEpisodes(c)
      [] kind = "podcast_episodes" -> EpisodesOf(c, of)

\* The sort keys.  Each ends in the id, drawn at random for a row: here the numbers of
\* the normalized names that the row is known by.
ArtistKey(c, a) == <<SortKey[c.artists[a]], NameKey[c.artists[a]], a>>

AlbumKey(c, g) ==
    <<SortKey[c.artists[OwnerOf(g)]], NameKey[c.groups[g]], OwnerOf(g), g[3]>>

TrackKey(c, s) ==
    <<SortKey[c.artists[OwnerOf(GroupOf(s))]], NameKey[c.groups[GroupOf(s)]], s[2],
      NameKey[c.songs[s].title], OwnerOf(GroupOf(s)), GroupOf(s)[3], s[3]>>

PodcastKey(c, g) == <<NameKey[c.groups[g]], g[3]>>

EpisodeKey(c, s) ==
    <<NameKey[c.groups[GroupOf(s)]], s[2], NameKey[c.songs[s].title], GroupOf(s)[3], s[3]>>

Key(c, kind, i) ==
    CASE kind = "artists"  -> ArtistKey(c, i)
      [] kind = "albums"   -> AlbumKey(c, i)
      [] kind = "tracks"   -> TrackKey(c, i)
      [] kind = "podcasts" -> PodcastKey(c, i)
      [] OTHER -> EpisodeKey(c, i)

\* Row comparison, as SQL compares tuples.
Before(a, b) == \E n \in DOMAIN a : a[n] < b[n] /\ \A m \in 1..(n - 1) : a[m] = b[m]

-----------------------------------------------------------------------------
NoKey == <<>>

\* Mutant of Rest: a page starts at the key of its cursor.
RestFrom(c, kind, of, after) ==
    {i \in Listed(c, kind, of) : after = NoKey \/ ~Before(Key(c, kind, i), after)}

\* What is left of a listing behind a cursor.
Rest(c, kind, of, after) ==
    {i \in Listed(c, kind, of) : after = NoKey \/ Before(after, Key(c, kind, i))}

\* What the statement of a page may return: the first rows in the order of the keys,
\* one more than the limit.  Of rows with one key any may be the first.
Rows(c, kind, of, after, limit) ==
    LET rest == Rest(c, kind, of, after)
        earlier(i, j) == Before(Key(c, kind, i), Key(c, kind, j))
    IN  {rows \in UNION {[1..n -> rest] : n \in 0..(limit + 1)} :
            /\ \A m, n \in DOMAIN rows :
                   m < n => rows[m] # rows[n] /\ ~earlier(rows[n], rows[m])
            /\ \A i \in rest \ Range(rows) :
                   Len(rows) = limit + 1 /\ \A n \in DOMAIN rows : ~earlier(i, rows[n])}

\* truncate_to_limit: the row too many only says that there is a next page.
Kept(rows, limit) == SubSeq(rows, 1, IF Len(rows) > limit THEN limit ELSE Len(rows))

NextCursor(c, kind, rows, limit) ==
    IF Len(rows) > limit THEN Key(c, kind, rows[limit]) ELSE NoKey

NoListing == [kind |-> None, of |-> None, limit |-> None, after |-> NoKey, seen |-> <<>>]

Paged(q) ==
    {[q EXCEPT !.seen = @ \o Kept(rows, q.limit),
               !.after = NextCursor(catalog, q.kind, rows, q.limit)] :
        rows \in Rows(catalog, q.kind, q.of, q.after, q.limit)}

AsksFor(r, kind, of, limit) ==
    /\ reader[r] = NoListing
    /\ \E q \in Paged([kind |-> kind, of |-> of, limit |-> limit, after |-> NoKey, seen |-> <<>>]) :
           reader' = [reader EXCEPT ![r] = q]
    /\ steady' = [steady EXCEPT ![r] = Listed(catalog, kind, of)]
    /\ UNCHANGED <<catalog, changes, written>>

Asks(r, kind, limit) == kind # "podcast_episodes" /\ AsksFor(r, kind, None, limit)

AsksPodcast(r, of, limit) == AsksFor(r, "podcast_episodes", of, limit)

TurnsPage(r) ==
    /\ reader[r].after # NoKey
    /\ \E q \in Paged(reader[r]) : reader' = [reader EXCEPT ![r] = q]
    /\ UNCHANGED <<catalog, changes, steady, written>>

AtEnd(r) == reader[r].kind # None /\ reader[r].after = NoKey

Closes(r) ==
    /\ AtEnd(r)
    /\ reader' = [reader EXCEPT ![r] = NoListing]
    /\ steady' = [steady EXCEPT ![r] = {}]
    /\ UNCHANGED <<catalog, changes, written>>

-----------------------------------------------------------------------------
\* The imports: each is one transaction, and the locks of the rows it upserts are
\* held to its end.
Becomes(c, w) ==
    /\ changes < MaxChanges /\ (c # catalog \/ w # written)
    /\ changes' = changes + 1
    /\ catalog' = c /\ written' = w
    /\ steady' = [r \in Readers |->
           {i \in steady[r] :
               /\ i \in Listed(c, reader[r].kind, reader[r].of)
               /\ Key(c, reader[r].kind, i) = Key(catalog, reader[r].kind, i)}]
    /\ UNCHANGED reader

\* A plan may have a file published without its projections (rebuild_search_
\* projections): what was written for its song before stays as it was.
WrittenBy(w, rq) ==
    LET song == SongKey(rq.grouping)
    IN  IF rq.rebuild THEN [ever |-> w.ever \cup {song}, last |-> w.last \cup {song}]
        ELSE [ever |-> w.ever, last |-> w.last \ {song}]

ImportsFile(rq) ==
    Becomes(Imported(catalog, rq),
            IF Decision(catalog, rq) = "published" THEN WrittenBy(written, rq) ELSE written)

\* A provider or the disk fails: the file is quarantined, published or not.
QuarantinesFile(rq, reason) == Becomes(Quarantined(catalog, rq, reason), written)

\* mark_quarantine_resolved.
ResolvesItem(p) ==
    p \in catalog.held /\ Becomes([catalog EXCEPT !.held = @ \ {p}], written)

BrowseInit ==
    /\ catalog = EmptyCatalog
    /\ reader = [r \in Readers |-> NoListing]
    /\ changes = 0
    /\ steady = [r \in Readers |-> {}]
    /\ written = [ever |-> {}, last |-> {}]

BrowseNext ==
    \/ \E r \in Readers, kind \in Kinds, limit \in Limits : Asks(r, kind, limit)
    \/ \E r \in Readers, limit \in Limits :
           \E of \in ListedPodcasts(catalog) : AsksPodcast(r, of, limit)
    \/ \E r \in Readers : TurnsPage(r)
    \/ \E r \in Readers : Closes(r)
    \/ \E rq \in Imports : ImportsFile(rq)
    \/ \E rq \in Imports, reason \in {"metadata_failure", "file_error"} :
           QuarantinesFile(rq, reason)
    \/ \E p \in catalog.held : ResolvesItem(p)

BrowseSpec == BrowseInit /\ [][BrowseNext]_browseVars

-----------------------------------------------------------------------------
\* A listing is a snapshot of nothing, but it is exact about what stands still:
\* an item that is in it, under one sort key, from its first page to its last has
\* been returned once (browse_artists and the others), whatever is imported,
\* renamed or hidden between two pages.
Once(s, i) == \E n \in DOMAIN s : \A m \in DOMAIN s : s[m] = i <=> m = n

PagesAreExact ==
    \A r \in Readers : AtEnd(r) =>
        \A i \in steady[r] : Once(reader[r].seen, i)

\* The queries of one item, and of what its page shows.
TracksOf(c, g) == {s \in OpenSongs(c, "music") : GroupOf(s) = g}

AlbumOpens(c, g) == g \in DOMAIN c.groups /\ TracksOf(c, g) # {}

LatestAlbums(c) ==
    {g \in DOMAIN c.groups : \E s \in ShownSongs(c, "music") : GroupOf(s) = g}

LatestEpisodes(c) == OpenSongs(c, "podcast")

AlbumsOf(c, a) ==
    {g \in DOMAIN c.groups : OwnerOf(g) = a /\ \E s \in OpenSongs(c, "music") : GroupOf(s) = g}

TracksBy(c, a) ==
    {s \in OpenSongs(c, "music") : OwnerOf(GroupOf(s)) = a \/ c.songs[s].artist = a}

\* The page of an artist drops the tracks whose album does not open.
ArtistPage(c, a) == {s \in TracksBy(c, a) : AlbumOpens(c, GroupOf(s))}

ArtistOpens(c, a) ==
    a \in DOMAIN c.artists /\ (AlbumsOf(c, a) # {} \/ TracksBy(c, a) # {})

AlbumPage(c, g) == IF AlbumOpens(c, g) /\ ArtistOpens(c, OwnerOf(g)) THEN TracksOf(c, g) ELSE {}

TrackOpens(c, s) == s \in OpenSongs(c, "music")

PodcastOpens(c, g) ==
    g \in DOMAIN c.groups /\ \E s \in OpenSongs(c, "podcast") : GroupOf(s) = g

PodcastPage(c, g) == IF PodcastOpens(c, g) THEN EpisodesOf(c, g) ELSE {}

EpisodeOpens(c, s) == s \in OpenSongs(c, "podcast")

\* The file that is downloaded or transcoded for a song.
FileOf(c, s) ==
    {p \in Published(c) : p = c.songs[s].canonical /\ c.media[p].song = s /\ p \notin c.held}

\* Whether the artwork of an item is served.
ArtworkServed(c, kind, i) ==
    CASE kind = "artists"  -> i \in ListedArtists(c)
      [] kind = "albums"   -> i \in ListedAlbums(c)
      [] kind = "tracks"   -> i \in ListedTracks(c)
      [] kind = "podcasts" -> PodcastOpens(c, i)
      [] kind = "episodes" -> EpisodeOpens(c, i)

\* What a listing or the home screen shows opens, has something on its page, plays
\* and has its artwork.  The listings look only at the canonical file of a song, the queries of
\* one item compare its own song as well: they agree because no song keeps a file
\* that has been published for another one since (clear_reassigned_canonical_
\* media_file_in_transaction, set_track_canonical_media_file_in_transaction).
ListedOpens ==
    /\ \A a \in ListedArtists(catalog) : ArtistOpens(catalog, a) /\ ArtistPage(catalog, a) # {}
    /\ \A g \in ListedAlbums(catalog) \cup LatestAlbums(catalog) : AlbumPage(catalog, g) # {}
    /\ \A s \in ListedTracks(catalog) : TrackOpens(catalog, s) /\ FileOf(catalog, s) # {}
    /\ \A g \in ListedPodcasts(catalog) : PodcastOpens(catalog, g) /\ PodcastPage(catalog, g) # {}
    /\ \A s \in ListedEpisodes(catalog) : EpisodeOpens(catalog, s) /\ FileOf(catalog, s) # {}
    /\ \A s \in LatestEpisodes(catalog) : PodcastOpens(catalog, GroupOf(s))
    /\ \A kind \in Kinds \ {"podcast_episodes"} :
           \A i \in Listed(catalog, kind, None) : ArtworkServed(catalog, kind, i)

\* The search: a word stands for itself and its prefixes, a match for any of its
\* ranks, and the limit of a search is not reached.
Matches(words, query) == Range(query) \subseteq Range(words)

FoundArtists(c, query) ==
    {a \in ListedArtists(c) : a \in DOMAIN c.artistText /\ Matches(c.artistText[a], query)}

FoundAlbums(c, query) ==
    {g \in ListedAlbums(c) : g \in DOMAIN c.groupText /\ Matches(c.groupText[g], query)}

FoundTracks(c, query) ==
    {s \in ListedTracks(c) : s \in DOMAIN c.songText /\ Matches(c.songText[s], query)}

FoundPodcasts(c, query) ==
    {g \in ListedPodcasts(c) : g \in DOMAIN c.groupText /\ Matches(c.groupText[g], query)}

FoundEpisodes(c, query) ==
    {s \in OpenSongs(c, "podcast") : s \in DOMAIN c.songText /\ Matches(c.songText[s], query)}

\* What is listed is found (search_catalog).  Once an import has written the
\* projections of a song, the song is found by its title with the name of its group
\* or of the album artist, and so are the group and the album artist; and as long as
\* the last import that named the song wrote them, by the artist of the track and with
\* him, the one name that a later import may change without moving the song.  A song
\* that only plans without projections have named is listed and not found.
SearchFindsListed ==
    /\ \A s \in ListedTracks(catalog) \cap written.ever :
           LET group == GroupOf(s)
           IN  /\ \A credit \in {s[3], group[3], OwnerOf(group)} :
                      s \in FoundTracks(catalog, <<s[3], credit>>)
               /\ group \in FoundAlbums(catalog, <<group[3], OwnerOf(group)>>)
               /\ OwnerOf(group) \in FoundArtists(catalog, <<OwnerOf(group)>>)
    /\ \A s \in ListedTracks(catalog) \cap written.last :
           LET artist == catalog.songs[s].artist
           IN  /\ s \in FoundTracks(catalog, <<s[3], artist>>)
               /\ artist \in FoundArtists(catalog, <<artist>>)
    /\ \A s \in ListedEpisodes(catalog) \cap written.ever :
           /\ s \in FoundEpisodes(catalog, <<s[3], GroupOf(s)[3]>>)
           /\ GroupOf(s) \in FoundPodcasts(catalog, <<GroupOf(s)[3]>>)
=============================================================================
