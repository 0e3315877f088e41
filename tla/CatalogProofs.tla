----------------------------- MODULE CatalogProofs -----------------------------
(***************************************************************************)
(* The catalog, for any imports, files, workers, failures and crashes.     *)
(*                                                                         *)
(* What its queries agree on (CatalogBrowse): what a listing shows opens,  *)
(* plays and has its artwork, and the search finds it.  Both rest on what  *)
(* every transaction leaves in the tables, which the proof follows from    *)
(* one upsert to the next.  The pages of a listing return once what stands *)
(* still while they are read: the cursor of a reader tells, of each item,  *)
(* whether it has been returned, because keys are compared strictly and    *)
(* no two items of a listing have one key.                                 *)
(*                                                                         *)
(* What the locks of an import run are for (CatalogFiles): no import loses *)
(* the content of a file.  A move overwrites what lies at its target, so   *)
(* that the proof shows that the content there is the content that is      *)
(* moved, from the moment the target is picked until the move is made,     *)
(* whatever the other workers do to the disk in between.                   *)
(*                                                                         *)
(* The code gives up on a free name after a number of attempts and then    *)
(* overwrites the file that has the name (unique_target_path); and a copy  *)
(* that stops spoils the file it overwrites, of the same content, though   *)
(* another worker may have read it already.  The theorems about files are  *)
(* about the behaviours in which neither happens.                          *)
(***************************************************************************)
EXTENDS CatalogFiles, CatalogBrowse, SequenceTheorems, WellFoundedInduction, TLAPS

-----------------------------------------------------------------------------
(* What is in the tables between two transactions.                          *)

Tabled(d) ==
  d = [artists |-> d.artists, groups |-> d.groups, songs |-> d.songs, media |-> d.media,
       held |-> d.held, artistText |-> d.artistText, groupText |-> d.groupText,
       songText |-> d.songText]

(* A song has its group, and music the artists it names.                    *)
SongFits(d, s) ==
  /\ d.songs[s] = [title |-> d.songs[s].title, artist |-> d.songs[s].artist,
                   canonical |-> d.songs[s].canonical]
  /\ GroupOf(s)[1] \in {"music", "podcast"} /\ GroupOf(s) \in DOMAIN d.groups
  /\ GroupOf(s)[1] = "music" =>
        OwnerOf(GroupOf(s)) \in DOMAIN d.artists /\ d.songs[s].artist \in DOMAIN d.artists

(* The canonical file of a song is published for that song and no other.    *)
CanonicalFits(d, s) ==
  LET p == d.songs[s].canonical
  IN  p # None => p \in Published(d) /\ d.media[p].song = s

(* A published file is there for a song.                                    *)
PublishedFit(d) == \A p \in Published(d) : d.media[p].song \in DOMAIN d.songs \ {None}

RowsFit(d) ==
  /\ Tabled(d)
  /\ \A s \in DOMAIN d.songs : SongFits(d, s) /\ CanonicalFits(d, s)
  /\ PublishedFit(d)

(* The search knows an artist and a group by the names they go by; a song    *)
(* whose projections were written by all of its names but the one of its    *)
(* artist, and by that too if the last import that named it wrote them.     *)
ArtistTells(d, a) == a \in DOMAIN d.artistText /\ a \in Range(d.artistText[a])

GroupTells(d, g) ==
  /\ g \in DOMAIN d.groupText /\ g[3] \in Range(d.groupText[g])
  /\ g[1] = "music" => OwnerOf(g) \in Range(d.groupText[g])

SongTells(d, s) ==
  /\ s \in DOMAIN d.songText
  /\ {s[3], GroupOf(s)[3]} \subseteq Range(d.songText[s])
  /\ GroupTells(d, GroupOf(s))
  /\ GroupOf(s)[1] = "music" => /\ OwnerOf(GroupOf(s)) \in Range(d.songText[s])
                                /\ ArtistTells(d, OwnerOf(GroupOf(s)))

CreditTells(d, s, a) ==
  GroupOf(s)[1] = "music" => /\ a \in Range(d.songText[s])
                             /\ ArtistTells(d, a)

TextFits(d, w) ==
  /\ w = [ever |-> w.ever, last |-> w.last] /\ w.last \subseteq w.ever
  /\ \A s \in w.ever : SongTells(d, s)
  /\ \A s \in w.last \cap DOMAIN d.songs : CreditTells(d, s, d.songs[s].artist)

-----------------------------------------------------------------------------
(* What the catalog shows, when its tables are like that.                   *)

(* The two predicates of visibility agree.                                  *)
LEMMA ShownIsOpen ==
  ASSUME RowsFit(catalog), NEW s \in DOMAIN catalog.songs, Shown(catalog, s)
  PROVE  Opens(catalog, s) /\ catalog.songs[s].canonical \in FileOf(catalog, s)
BY DEF RowsFit, CanonicalFits, Shown, Opens, FileOf

LEMMA MusicOpens ==
  ASSUME RowsFit(catalog), NEW s \in ShownSongs(catalog, "music")
  PROVE  LET g == GroupOf(s)
         IN  /\ TrackOpens(catalog, s) /\ FileOf(catalog, s) # {}
             /\ AlbumOpens(catalog, g) /\ AlbumPage(catalog, g) # {}
             /\ \A a \in {OwnerOf(g), catalog.songs[s].artist} :
                   ArtistOpens(catalog, a) /\ ArtistPage(catalog, a) # {}
<1> DEFINE g == GroupOf(s)
<1>1. /\ s \in DOMAIN catalog.songs /\ g[1] = "music" /\ Shown(catalog, s)
      /\ s \in OpenSongs(catalog, "music") /\ FileOf(catalog, s) # {}
  BY ShownIsOpen DEF ShownSongs, OpenSongs
<1>2. g \in DOMAIN catalog.groups /\ OwnerOf(g) \in DOMAIN catalog.artists
      /\ catalog.songs[s].artist \in DOMAIN catalog.artists
  BY <1>1 DEF RowsFit, SongFits
<1>3. s \in TracksOf(catalog, g) /\ AlbumOpens(catalog, g)
  BY <1>1, <1>2 DEF TracksOf, AlbumOpens
<1>4. ASSUME NEW a \in {OwnerOf(g), catalog.songs[s].artist}
      PROVE  ArtistOpens(catalog, a) /\ s \in ArtistPage(catalog, a)
  BY <1>1, <1>2, <1>3 DEF TracksBy, ArtistOpens, ArtistPage
<1>5. AlbumPage(catalog, g) # {}
  BY <1>3, <1>4 DEF AlbumPage
<1>6. QED
  BY <1>1, <1>3, <1>4, <1>5 DEF TrackOpens

LEMMA PodcastsOpen ==
  ASSUME RowsFit(catalog), NEW s \in ShownSongs(catalog, "podcast")
  PROVE  LET g == GroupOf(s)
         IN  /\ EpisodeOpens(catalog, s) /\ FileOf(catalog, s) # {}
             /\ PodcastOpens(catalog, g) /\ PodcastPage(catalog, g) # {}
<1> DEFINE g == GroupOf(s)
<1>1. /\ s \in DOMAIN catalog.songs /\ g[1] = "podcast" /\ Shown(catalog, s)
      /\ s \in OpenSongs(catalog, "podcast") /\ FileOf(catalog, s) # {}
  BY ShownIsOpen DEF ShownSongs, OpenSongs
<1>2. g \in DOMAIN catalog.groups
  BY <1>1 DEF RowsFit, SongFits
<1>3. PodcastOpens(catalog, g) /\ s \in PodcastPage(catalog, g)
  BY <1>1, <1>2 DEF PodcastOpens, PodcastPage, EpisodesOf
<1>4. QED
  BY <1>1, <1>3 DEF EpisodeOpens

LEMMA TablesOpen == RowsFit(catalog) => ListedOpens
<1> SUFFICES ASSUME RowsFit(catalog) PROVE ListedOpens
  OBVIOUS
<1>1. ASSUME NEW a \in ListedArtists(catalog) PROVE ArtistOpens(catalog, a) /\ ArtistPage(catalog, a) # {}
  <2>1. PICK s \in ShownSongs(catalog, "music") : a = OwnerOf(GroupOf(s)) \/ a = catalog.songs[s].artist
    BY DEF ListedArtists
  <2>2. QED
    BY <2>1, MusicOpens
<1>2. ASSUME NEW g \in ListedAlbums(catalog) \cup LatestAlbums(catalog) PROVE AlbumPage(catalog, g) # {}
  <2>1. PICK s \in ShownSongs(catalog, "music") : GroupOf(s) = g
    BY DEF ListedAlbums, LatestAlbums
  <2>2. QED
    BY <2>1, MusicOpens
<1>3. ASSUME NEW s \in ListedTracks(catalog) PROVE TrackOpens(catalog, s) /\ FileOf(catalog, s) # {}
  BY MusicOpens DEF ListedTracks
<1>4. ASSUME NEW g \in ListedPodcasts(catalog) PROVE PodcastOpens(catalog, g) /\ PodcastPage(catalog, g) # {}
  <2>1. PICK s \in ShownSongs(catalog, "podcast") : GroupOf(s) = g
    BY DEF ListedPodcasts
  <2>2. QED
    BY <2>1, PodcastsOpen
<1>5. ASSUME NEW s \in ListedEpisodes(catalog) PROVE EpisodeOpens(catalog, s) /\ FileOf(catalog, s) # {}
  BY PodcastsOpen DEF ListedEpisodes
<1>6. ASSUME NEW s \in LatestEpisodes(catalog) PROVE PodcastOpens(catalog, GroupOf(s))
  BY PodcastsOpen DEF LatestEpisodes, OpenSongs
<1>7. ASSUME NEW kind \in Kinds \ {"podcast_episodes"}, NEW i \in Listed(catalog, kind, None)
      PROVE  ArtworkServed(catalog, kind, i)
  <2>1. CASE kind = "artists"
    BY <1>7, <2>1 DEF Listed, ArtworkServed
  <2>2. CASE kind = "albums"
    BY <1>7, <2>2 DEF Listed, ArtworkServed
  <2>3. CASE kind = "tracks"
    BY <1>7, <2>3 DEF Listed, ArtworkServed
  <2>4. CASE kind = "podcasts"
    BY <1>4, <1>7, <2>4 DEF Listed, ArtworkServed
  <2>5. CASE kind = "episodes"
    BY <1>5, <1>7, <2>5 DEF Listed, ArtworkServed
  <2>6. QED
    BY <2>1, <2>2, <2>3, <2>4, <2>5 DEF Kinds
<1>8. QED
  BY <1>1, <1>2, <1>3, <1>4, <1>5, <1>6, <1>7 DEF ListedOpens

LEMMA TablesTell == RowsFit(catalog) /\ TextFits(catalog, written) => SearchFindsListed
<1> SUFFICES ASSUME RowsFit(catalog), TextFits(catalog, written) PROVE SearchFindsListed
  OBVIOUS
<1>1. ASSUME NEW s \in ListedTracks(catalog)
      PROVE  LET g == GroupOf(s)
             IN  /\ s \in DOMAIN catalog.songs /\ g[1] = "music"
                 /\ g \in ListedAlbums(catalog)
                 /\ OwnerOf(g) \in ListedArtists(catalog)
                 /\ catalog.songs[s].artist \in ListedArtists(catalog)
  <2>1. /\ s \in DOMAIN catalog.songs /\ GroupOf(s)[1] = "music"
        /\ s \in ShownSongs(catalog, "music") /\ SongFits(catalog, s)
    BY DEF ListedTracks, ShownSongs, RowsFit
  <2>2. QED
    BY <2>1 DEF SongFits, ListedAlbums, ListedArtists
<1>2. ASSUME NEW s \in ListedTracks(catalog) \cap written.ever
      PROVE  LET group == GroupOf(s)
             IN  /\ \A credit \in {s[3], group[3], OwnerOf(group)} :
                        s \in FoundTracks(catalog, <<s[3], credit>>)
                 /\ group \in FoundAlbums(catalog, <<group[3], OwnerOf(group)>>)
                 /\ OwnerOf(group) \in FoundArtists(catalog, <<OwnerOf(group)>>)
  <2> DEFINE group == GroupOf(s)
  <2>1. SongTells(catalog, s) /\ group[1] = "music"
    BY <1>1, <1>2 DEF TextFits
  <2>2. ASSUME NEW credit \in {s[3], group[3], OwnerOf(group)}
        PROVE  s \in FoundTracks(catalog, <<s[3], credit>>)
    <3>1. s \in DOMAIN catalog.songText /\ {s[3], credit} \subseteq Range(catalog.songText[s])
      BY <2>1 DEF SongTells
    <3>2. QED
      BY <3>1 DEF FoundTracks, Matches, Range
  <2>3. group \in FoundAlbums(catalog, <<group[3], OwnerOf(group)>>)
    <3>1. GroupTells(catalog, group) /\ group \in ListedAlbums(catalog)
      BY <1>1, <2>1 DEF SongTells
    <3>2. QED
      BY <2>1, <3>1 DEF FoundAlbums, Matches, GroupTells, Range
  <2>4. OwnerOf(group) \in FoundArtists(catalog, <<OwnerOf(group)>>)
    <3>1. ArtistTells(catalog, OwnerOf(group)) /\ OwnerOf(group) \in ListedArtists(catalog)
      BY <1>1, <2>1 DEF SongTells
    <3>2. QED
      BY <3>1 DEF FoundArtists, Matches, ArtistTells, Range
  <2>5. QED
    BY <2>2, <2>3, <2>4
<1>3. ASSUME NEW s \in ListedTracks(catalog) \cap written.last
      PROVE  LET artist == catalog.songs[s].artist
             IN  /\ s \in FoundTracks(catalog, <<s[3], artist>>)
                 /\ artist \in FoundArtists(catalog, <<artist>>)
  <2> DEFINE artist == catalog.songs[s].artist
  <2>1. SongTells(catalog, s) /\ CreditTells(catalog, s, artist) /\ GroupOf(s)[1] = "music"
    BY <1>1, <1>3 DEF TextFits
  <2>2. s \in DOMAIN catalog.songText /\ {s[3], artist} \subseteq Range(catalog.songText[s])
    BY <2>1 DEF SongTells, CreditTells
  <2>3. ArtistTells(catalog, artist) /\ artist \in ListedArtists(catalog)
    BY <1>1, <2>1 DEF CreditTells
  <2>4. QED
    BY <2>2, <2>3 DEF FoundTracks, FoundArtists, Matches, ArtistTells, Range
<1>4. ASSUME NEW s \in ListedEpisodes(catalog) \cap written.ever
      PROVE  /\ s \in FoundEpisodes(catalog, <<s[3], GroupOf(s)[3]>>)
             /\ GroupOf(s) \in FoundPodcasts(catalog, <<GroupOf(s)[3]>>)
  <2>1. SongTells(catalog, s) /\ s \in OpenSongs(catalog, "podcast")
    BY <1>4, ShownIsOpen DEF ListedEpisodes, ShownSongs, OpenSongs, TextFits
  <2>2. s \in FoundEpisodes(catalog, <<s[3], GroupOf(s)[3]>>)
    BY <2>1 DEF FoundEpisodes, Matches, SongTells, Range
  <2>3. GroupOf(s) \in ListedPodcasts(catalog)
    BY <1>4 DEF ListedEpisodes, ListedPodcasts, ShownSongs, RowsFit, SongFits
  <2>4. GroupTells(catalog, GroupOf(s))
    BY <2>1 DEF SongTells
  <2>5. QED
    BY <2>2, <2>3, <2>4 DEF FoundPodcasts, Matches, GroupTells, Range
<1>5. QED
  BY <1>2, <1>3, <1>4 DEF SearchFindsListed

-----------------------------------------------------------------------------
(* The upserts, one by one.                                                 *)

Tables(artists, groups, songs, media, held, artistText, groupText, songText) ==
  [artists |-> artists, groups |-> groups, songs |-> songs, media |-> media, held |-> held,
   artistText |-> artistText, groupText |-> groupText, songText |-> songText]

SongRow(d, g, artist) ==
  [title |-> g.title, artist |-> artist,
   canonical |-> IF SongKey(g) \in DOMAIN d.songs THEN d.songs[SongKey(g)].canonical
                 ELSE None]

LEMMA UpsertsWrite ==
  ASSUME NEW d, Tabled(d), NEW a, NEW g
  PROVE  /\ WithArtist(d, a) = Tables(Put(d.artists, Norm[a], a), d.groups, d.songs, d.media,
                                      d.held, d.artistText, d.groupText, d.songText)
         /\ WithAlbum(d, g) =
               Tables(d.artists, Put(d.groups, <<"music", Norm[g.owner], Norm[g.group]>>, g.group),
                      d.songs, d.media, d.held, d.artistText, d.groupText, d.songText)
         /\ WithPodcast(d, g) =
               Tables(d.artists, Put(d.groups, <<"podcast", None, Norm[g.group]>>, g.group),
                      d.songs, d.media, d.held, d.artistText, d.groupText, d.songText)
         /\ WithSong(d, g, a) =
               Tables(d.artists, d.groups, Put(d.songs, SongKey(g), SongRow(d, g, a)), d.media,
                      d.held, d.artistText, d.groupText, d.songText)
         /\ WithItem(d, a) = Tables(d.artists, d.groups, d.songs, d.media, d.held \cup {a},
                                    d.artistText, d.groupText, d.songText)
<1>1. WithArtist(d, a) = Tables(Put(d.artists, Norm[a], a), d.groups, d.songs, d.media,
                                d.held, d.artistText, d.groupText, d.songText)
  BY DEF Tabled, Tables, WithArtist
<1>2. WithAlbum(d, g) =
        Tables(d.artists, Put(d.groups, <<"music", Norm[g.owner], Norm[g.group]>>, g.group),
               d.songs, d.media, d.held, d.artistText, d.groupText, d.songText)
  BY DEF Tabled, Tables, WithAlbum
<1>3. WithPodcast(d, g) =
        Tables(d.artists, Put(d.groups, <<"podcast", None, Norm[g.group]>>, g.group),
               d.songs, d.media, d.held, d.artistText, d.groupText, d.songText)
  BY DEF Tabled, Tables, WithPodcast
<1>4. WithSong(d, g, a) =
        Tables(d.artists, d.groups, Put(d.songs, SongKey(g), SongRow(d, g, a)), d.media,
               d.held, d.artistText, d.groupText, d.songText)
  BY DEF Tabled, Tables, WithSong, SongRow
<1>5. WithItem(d, a) = Tables(d.artists, d.groups, d.songs, d.media, d.held \cup {a},
                              d.artistText, d.groupText, d.songText)
  BY DEF Tabled, Tables, WithItem
<1>6. QED
  BY <1>1, <1>2, <1>3, <1>4, <1>5

(* The rows that a piece of music brings, before its file is associated.    *)
MusicRows(d, g) == WithTrack(WithAlbum(WithArtist(WithArtist(d, g.owner), g.creator), g), g)
PodcastRows(d, g) == WithEpisode(WithPodcast(d, g), g)

LEMMA MusicRowsWrite ==
  ASSUME NEW d, Tabled(d), NEW g
  PROVE  MusicRows(d, g) =
            Tables(Put(Put(d.artists, Norm[g.owner], g.owner), Norm[g.creator], g.creator),
                   Put(d.groups, <<"music", Norm[g.owner], Norm[g.group]>>, g.group),
                   Put(d.songs, SongKey(g), SongRow(d, g, Norm[g.creator])),
                   d.media, d.held, d.artistText, d.groupText, d.songText)
<1> DEFINE a == WithArtist(d, g.owner)
           b == WithArtist(a, g.creator)
           c == WithAlbum(b, g)
           e == WithSong(c, g, Norm[g.creator])
           owned == Put(d.artists, Norm[g.owner], g.owner)
           credited == Put(owned, Norm[g.creator], g.creator)
           albums == Put(d.groups, <<"music", Norm[g.owner], Norm[g.group]>>, g.group)
<1>1. a = Tables(owned, d.groups, d.songs, d.media, d.held, d.artistText, d.groupText, d.songText)
  BY UpsertsWrite
<1>2. MusicRows(d, g) = e
  BY DEF MusicRows, WithTrack
<1> HIDE DEF a, owned
<1>3. Tabled(a) /\ b = Tables(credited, d.groups, d.songs, d.media, d.held, d.artistText,
                              d.groupText, d.songText)
  <2>1. Tabled(a)
    BY <1>1 DEF Tables, Tabled
  <2>2. /\ a.artists = owned /\ a.groups = d.groups /\ a.songs = d.songs
          /\ a.media = d.media /\ a.held = d.held /\ a.artistText = d.artistText
          /\ a.groupText = d.groupText /\ a.songText = d.songText
    BY <1>1 DEF Tables
  <2>3. b = Tables(Put(a.artists, Norm[g.creator], g.creator), a.groups, a.songs, a.media, a.held, a.artistText,
                    a.groupText, a.songText)
    BY <2>1, UpsertsWrite
  <2>4. QED
    BY <2>1, <2>2, <2>3
<1> HIDE DEF b, credited
<1>4. Tabled(b) /\ c = Tables(credited, albums, d.songs, d.media, d.held, d.artistText,
                              d.groupText, d.songText)
  <2>1. Tabled(b)
    BY <1>3 DEF Tables, Tabled
  <2>2. /\ b.artists = credited /\ b.groups = d.groups /\ b.songs = d.songs
          /\ b.media = d.media /\ b.held = d.held /\ b.artistText = d.artistText
          /\ b.groupText = d.groupText /\ b.songText = d.songText
    BY <1>3 DEF Tables
  <2>3. c = Tables(b.artists, Put(b.groups, <<"music", Norm[g.owner], Norm[g.group]>>, g.group),
                   b.songs, b.media, b.held, b.artistText,
                    b.groupText, b.songText)
    BY <2>1, UpsertsWrite
  <2>4. QED
    BY <2>1, <2>2, <2>3
<1> HIDE DEF c, albums
<1>5. e = Tables(credited, albums, Put(d.songs, SongKey(g), SongRow(d, g, Norm[g.creator])),
                 d.media, d.held, d.artistText, d.groupText, d.songText)
  <2>1. Tabled(c)
    BY <1>4 DEF Tables, Tabled
  <2>2. /\ c.artists = credited /\ c.groups = albums /\ c.songs = d.songs
          /\ c.media = d.media /\ c.held = d.held /\ c.artistText = d.artistText
          /\ c.groupText = d.groupText /\ c.songText = d.songText
    BY <1>4 DEF Tables
  <2>3. SongRow(c, g, Norm[g.creator]) = SongRow(d, g, Norm[g.creator])
    BY <2>2 DEF SongRow
  <2>4. e = Tables(c.artists, c.groups, Put(c.songs, SongKey(g), SongRow(c, g, Norm[g.creator])),
                   c.media, c.held, c.artistText, c.groupText, c.songText)
    BY <2>1, UpsertsWrite
  <2>5. QED
    BY <2>2, <2>3, <2>4
<1>6. QED
  BY <1>2, <1>5 DEF owned, credited, albums

LEMMA PodcastRowsWrite ==
  ASSUME NEW d, Tabled(d), NEW g
  PROVE  PodcastRows(d, g) =
            Tables(d.artists, Put(d.groups, <<"podcast", None, Norm[g.group]>>, g.group),
                   Put(d.songs, SongKey(g), SongRow(d, g, None)),
                   d.media, d.held, d.artistText, d.groupText, d.songText)
<1> DEFINE c == WithPodcast(d, g)
           e == WithSong(c, g, None)
           podcasts == Put(d.groups, <<"podcast", None, Norm[g.group]>>, g.group)
<1>1. c = Tables(d.artists, podcasts, d.songs, d.media, d.held, d.artistText, d.groupText,
                 d.songText)
  BY UpsertsWrite
<1>2. PodcastRows(d, g) = e
  BY DEF PodcastRows, WithEpisode
<1> HIDE DEF c, podcasts
<1>3. e = Tables(d.artists, podcasts, Put(d.songs, SongKey(g), SongRow(d, g, None)),
                 d.media, d.held, d.artistText, d.groupText, d.songText)
  <2>1. Tabled(c)
    BY <1>1 DEF Tables, Tabled
  <2>2. /\ c.artists = d.artists /\ c.groups = podcasts /\ c.songs = d.songs
          /\ c.media = d.media /\ c.held = d.held /\ c.artistText = d.artistText
          /\ c.groupText = d.groupText /\ c.songText = d.songText
    BY <1>1 DEF Tables
  <2>3. SongRow(c, g, None) = SongRow(d, g, None)
    BY <2>2 DEF SongRow
  <2>4. e = Tables(c.artists, c.groups, Put(c.songs, SongKey(g), SongRow(c, g, None)),
                   c.media, c.held, c.artistText, c.groupText, c.songText)
    BY <2>1, UpsertsWrite
  <2>5. QED
    BY <2>2, <2>3, <2>4
<1>4. QED
  BY <1>2, <1>3 DEF podcasts

(* They fit: the song they bring has its group and its artists, and keeps   *)
(* the canonical file it had.                                               *)
LEMMA SongRowsFit ==
  ASSUME NEW d, RowsFit(d), NEW g, NEW artist, NEW artists, NEW groups,
         DOMAIN d.artists \subseteq DOMAIN artists, DOMAIN d.groups \subseteq DOMAIN groups,
         GroupKey(g) \in DOMAIN groups, g.kind \in {"music", "podcast"},
         g.kind = "music" => Norms(g.owner) \in DOMAIN artists /\ artist \in DOMAIN artists
  PROVE  RowsFit(Tables(artists, groups, Put(d.songs, SongKey(g), SongRow(d, g, artist)),
                        d.media, d.held, d.artistText, d.groupText, d.songText))
<1> DEFINE key == SongKey(g)
           row == SongRow(d, g, artist)
           songs == Put(d.songs, key, row)
           e == Tables(artists, groups, songs, d.media, d.held, d.artistText, d.groupText,
                       d.songText)
<1>1. /\ GroupOf(key) = GroupKey(g) /\ GroupKey(g)[1] = g.kind
      /\ OwnerOf(GroupKey(g)) = Norms(g.owner)
  BY DEF SongKey, GroupKey, GroupOf, OwnerOf
<1>2. /\ row = [title |-> row.title, artist |-> row.artist, canonical |-> row.canonical]
      /\ row.artist = artist
      /\ row.canonical = IF key \in DOMAIN d.songs THEN d.songs[key].canonical ELSE None
  BY DEF SongRow
<1> HIDE DEF key, row
<1>3. /\ DOMAIN songs = DOMAIN d.songs \cup {key} /\ songs[key] = row
      /\ \A s \in DOMAIN d.songs \ {key} : songs[s] = d.songs[s]
  BY DEF Put
<1> HIDE DEF songs
<1>4. /\ Tabled(e) /\ e.artists = artists /\ e.groups = groups /\ e.songs = songs
      /\ e.media = d.media
  BY DEF Tables, Tabled
<1> HIDE DEF e
<1>5. Published(e) = Published(d)
  BY <1>4 DEF Published
<1>6. ASSUME NEW s \in DOMAIN songs PROVE SongFits(e, s) /\ CanonicalFits(e, s)
  <2>1. CASE s = key
    <3>1. SongFits(e, s)
      BY <1>1, <1>2, <1>3, <1>4, <2>1 DEF SongFits
    <3>2. CanonicalFits(e, s)
      BY <1>2, <1>3, <1>4, <1>5, <2>1 DEF CanonicalFits, RowsFit
    <3>3. QED
      BY <3>1, <3>2
  <2>2. CASE s # key
    <3>1. s \in DOMAIN d.songs /\ e.songs[s] = d.songs[s] /\ SongFits(d, s) /\ CanonicalFits(d, s)
      BY <1>3, <1>4, <1>6, <2>2 DEF RowsFit
    <3>2. SongFits(e, s)
      BY <1>4, <3>1 DEF SongFits
    <3>3. CanonicalFits(e, s)
      BY <1>4, <1>5, <3>1 DEF CanonicalFits
    <3>4. QED
      BY <3>2, <3>3
  <2>3. QED
    BY <2>1, <2>2
<1>7. PublishedFit(e)
  BY <1>3, <1>4, <1>5 DEF RowsFit, PublishedFit
<1>8. QED
  BY <1>4, <1>6, <1>7 DEF RowsFit, e, songs, row, key

-----------------------------------------------------------------------------
(* A file is associated with its song.                                      *)

(* Of the songs nothing but canonical files is written, and no other table. *)
Recast(d, e) ==
  /\ e = Tables(d.artists, d.groups, e.songs, d.media, d.held, d.artistText, d.groupText,
                d.songText)
  /\ DOMAIN e.songs = DOMAIN d.songs
  /\ \A s \in DOMAIN d.songs :
        e.songs[s] = [title |-> d.songs[s].title, artist |-> d.songs[s].artist,
                      canonical |-> e.songs[s].canonical]

LEMMA SameIsRecast == ASSUME NEW d, RowsFit(d) PROVE Recast(d, d)
BY DEF RowsFit, Tabled, Tables, SongFits, Recast

LEMMA CanonicalRow ==
  ASSUME NEW x, NEW p,
         x = [title |-> x.title, artist |-> x.artist, canonical |-> x.canonical]
  PROVE  [x EXCEPT !.canonical = p] = [title |-> x.title, artist |-> x.artist, canonical |-> p]
OBVIOUS

(* A file that goes to another song is the canonical file of none before.   *)
LEMMA ReassignmentClears ==
  ASSUME NEW d, RowsFit(d), NEW p, NEW song
  PROVE  LET c == ReassignedAway(d, p, song)
         IN  /\ Recast(d, c)
             /\ \A s \in DOMAIN d.songs :
                   /\ c.songs[s].canonical \in {None, d.songs[s].canonical}
                   /\ c.songs[s].canonical # None /\ c.songs[s].canonical = p => s = song
<1> DEFINE c == ReassignedAway(d, p, song)
           clear(s) == IF d.songs[s].canonical = p
                       THEN [d.songs[s] EXCEPT !.canonical = None] ELSE d.songs[s]
           songs == [s \in DOMAIN d.songs |-> clear(s)]
<1>1. CASE ~(p \in DOMAIN d.media /\ d.media[p].song \notin {None, song})
  <2>1. c = d
    BY <1>1 DEF ReassignedAway
  <2>2. ASSUME NEW s \in DOMAIN d.songs, d.songs[s].canonical # None,
               d.songs[s].canonical = p
        PROVE  s = song
    <3>1. p \in Published(d) /\ d.media[p].song = s
      BY <2>2 DEF RowsFit, CanonicalFits
    <3>2. s # None
      BY <3>1 DEF RowsFit, PublishedFit
    <3>3. QED
      BY <1>1, <3>1, <3>2 DEF Published
  <2>3. QED
    BY <2>1, <2>2, SameIsRecast
<1>2. CASE p \in DOMAIN d.media /\ d.media[p].song \notin {None, song}
  <2>1. c = Tables(d.artists, d.groups, songs, d.media, d.held, d.artistText, d.groupText,
                   d.songText)
    BY <1>2 DEF ReassignedAway, RowsFit, Tabled, Tables
  <2>2. ASSUME NEW s \in DOMAIN d.songs
        PROVE  /\ clear(s) = [title |-> d.songs[s].title, artist |-> d.songs[s].artist,
                              canonical |-> clear(s).canonical]
               /\ clear(s).canonical \in {None, d.songs[s].canonical}
               /\ clear(s).canonical # None => clear(s).canonical # p
    <3>1. d.songs[s] = [title |-> d.songs[s].title, artist |-> d.songs[s].artist,
                        canonical |-> d.songs[s].canonical]
      BY DEF RowsFit, SongFits
    <3>2. [d.songs[s] EXCEPT !.canonical = None] =
             [title |-> d.songs[s].title, artist |-> d.songs[s].artist, canonical |-> None]
      BY <3>1, CanonicalRow
    <3>3. CASE d.songs[s].canonical = p
      BY <3>2, <3>3
    <3>4. CASE d.songs[s].canonical # p
      BY <3>1, <3>4
    <3>5. QED
      BY <3>3, <3>4
  <2>3. c.songs = songs /\ DOMAIN songs = DOMAIN d.songs
    BY <2>1 DEF Tables
  <2>4. \A s \in DOMAIN d.songs : songs[s] = clear(s)
    OBVIOUS
  <2> HIDE DEF c, songs, clear
  <2>5. Recast(d, c)
    BY <2>1, <2>2, <2>3, <2>4 DEF Recast
  <2>6. QED
    BY <2>2, <2>3, <2>4, <2>5 DEF c
<1>3. QED
  BY <1>1, <1>2

(* The song that a published file is for may be given it.                   *)
LEMMA CanonicalKeepsFit ==
  ASSUME NEW d, RowsFit(d), NEW p \in Published(d)
  PROVE  LET e == WithCanonical(d, d.media[p].song, p)
         IN  RowsFit(e) /\ Recast(d, e)
<1> DEFINE song == d.media[p].song
           e == WithCanonical(d, song, p)
           row == [d.songs[song] EXCEPT !.canonical = p]
           songs == [d.songs EXCEPT ![song] = row]
<1>1. song \in DOMAIN d.songs
  BY DEF RowsFit, PublishedFit
<1>2. e = d \/ e = [d EXCEPT !.songs = songs]
  BY DEF WithCanonical
<1>3. CASE e = d
  BY <1>3, SameIsRecast
<1>4. CASE e = [d EXCEPT !.songs = songs]
  <2>1. e = Tables(d.artists, d.groups, songs, d.media, d.held, d.artistText, d.groupText,
                   d.songText)
    BY <1>4 DEF RowsFit, Tabled, Tables
  <2>2. row = [title |-> d.songs[song].title, artist |-> d.songs[song].artist,
               canonical |-> p]
    <3>1. d.songs[song] = [title |-> d.songs[song].title, artist |-> d.songs[song].artist,
                           canonical |-> d.songs[song].canonical]
      BY <1>1 DEF RowsFit, SongFits
    <3>2. QED
      BY <3>1, CanonicalRow
  <2> HIDE DEF row
  <2>3. /\ DOMAIN songs = DOMAIN d.songs /\ songs[song] = row
        /\ \A s \in DOMAIN d.songs \ {song} : songs[s] = d.songs[s]
    BY <1>1
  <2> HIDE DEF songs, song, e
  <2>4. /\ Tabled(e) /\ e.artists = d.artists /\ e.groups = d.groups /\ e.songs = songs
        /\ e.media = d.media
    BY <2>1 DEF Tables, Tabled
  <2>5. Published(e) = Published(d)
    BY <2>4 DEF Published
  <2>6. \A s \in DOMAIN d.songs : SongFits(d, s) /\ CanonicalFits(d, s)
    BY DEF RowsFit
  <2>7. Recast(d, e)
    <3>1. \A s \in DOMAIN d.songs :
             songs[s] = [title |-> d.songs[s].title, artist |-> d.songs[s].artist,
                         canonical |-> songs[s].canonical]
      <4>1. songs[song] = [title |-> d.songs[song].title, artist |-> d.songs[song].artist,
                           canonical |-> songs[song].canonical]
        BY <2>2, <2>3
      <4>2. ASSUME NEW s \in DOMAIN d.songs \ {song}
            PROVE  songs[s] = [title |-> d.songs[s].title, artist |-> d.songs[s].artist,
                               canonical |-> songs[s].canonical]
        <5>1. SongFits(d, s) /\ songs[s] = d.songs[s]
          BY <2>3, <2>6
        <5>2. QED
          BY <5>1 DEF SongFits
      <4>3. QED
        BY <4>1, <4>2
    <3>2. QED
      BY <2>1, <2>3, <2>4, <3>1 DEF Recast
  <2>8. ASSUME NEW s \in DOMAIN d.songs PROVE SongFits(e, s) /\ CanonicalFits(e, s)
    <3>1. SongFits(e, s)
      <4>1. SongFits(d, s) /\ songs[s].artist = d.songs[s].artist
        BY <2>2, <2>3, <2>6
      <4>2. songs[s] = [title |-> songs[s].title, artist |-> songs[s].artist,
                        canonical |-> songs[s].canonical]
        <5>1. CASE s = song
          BY <2>2, <2>3, <5>1
        <5>2. CASE s # song
          BY <2>3, <4>1, <5>2 DEF SongFits
        <5>3. QED
          BY <5>1, <5>2
      <4>3. QED
        BY <2>4, <4>1, <4>2 DEF SongFits
    <3>2. CanonicalFits(e, s)
      <4>1. CASE s = song
        BY <2>2, <2>3, <2>4, <2>5, <4>1 DEF CanonicalFits, song
      <4>2. CASE s # song
        BY <2>3, <2>4, <2>5, <2>6, <4>2 DEF CanonicalFits
      <4>3. QED
        BY <4>1, <4>2
    <3>3. QED
      BY <3>1, <3>2
  <2>9. PublishedFit(e)
    BY <2>3, <2>4, <2>5 DEF RowsFit, PublishedFit
  <2>10. QED
    BY <2>3, <2>4, <2>7, <2>8, <2>9 DEF RowsFit, e, song
<1>5. QED
  BY <1>2, <1>3, <1>4

MediaRow(rq, status, song) ==
  [status |-> status, song |-> song, hash |-> rq.hash, seconds |-> rq.seconds,
   managed |-> IF status = "published" THEN rq.managed ELSE None]

(* What the association leaves of the tables but for its file.              *)
Associated(d, e) ==
  /\ e = Tables(d.artists, d.groups, e.songs, e.media, d.held, d.artistText, d.groupText,
                d.songText)
  /\ DOMAIN e.songs = DOMAIN d.songs
  /\ \A s \in DOMAIN d.songs : e.songs[s].artist = d.songs[s].artist

LEMMA AssociationFits ==
  ASSUME NEW d, RowsFit(d), NEW rq, NEW status, NEW song,
         status = "published" => song \in DOMAIN d.songs /\ song # None
  PROVE  LET e == WithMedia(d, rq, status, song)
         IN  RowsFit(e) /\ Associated(d, e)
<1> DEFINE p == rq.path
           row == MediaRow(rq, status, song)
           cleared == IF status = "published" THEN ReassignedAway(d, p, song) ELSE d
           stored == WithRow(cleared, p, row)
           e == WithMedia(d, rq, status, song)
<1>1. e = IF p \in Published(stored) THEN WithCanonical(stored, stored.media[p].song, p)
          ELSE stored
  BY DEF WithMedia, MediaRow
<1>2. row.status = status /\ row.song = song
  BY DEF MediaRow
<1>3. /\ Recast(d, cleared)
      /\ \A s \in DOMAIN d.songs :
            /\ cleared.songs[s].canonical \in {None, d.songs[s].canonical}
            /\ status = "published" /\ cleared.songs[s].canonical # None
                 /\ cleared.songs[s].canonical = p => s = song
      /\ status # "published" => cleared = d
  BY ReassignmentClears, SameIsRecast
<1> HIDE DEF cleared, row
<1>4. RowsFit(stored) /\ Associated(d, stored)
  <2>1. CASE status # "published" /\ p \in Published(d)
    <3>1. stored = d
      BY <1>2, <1>3, <2>1 DEF WithRow
    <3> HIDE DEF stored
    <3>2. QED
      BY <3>1, SameIsRecast DEF Recast, Associated
  <2>2. CASE ~(status # "published" /\ p \in Published(d))
    <3> DEFINE media == Put(d.media, p, row)
    <3>1. /\ Tabled(cleared) /\ cleared.artists = d.artists /\ cleared.groups = d.groups
          /\ cleared.media = d.media /\ cleared.held = d.held
          /\ cleared.artistText = d.artistText /\ cleared.groupText = d.groupText
          /\ cleared.songText = d.songText
      BY <1>3 DEF Recast, Tables, Tabled
    <3>2. Published(cleared) = Published(d)
      BY <3>1 DEF Published
    <3>3. stored = [cleared EXCEPT !.media = media]
      BY <1>2, <2>2, <3>1, <3>2 DEF WithRow
    <3> HIDE DEF stored
    <3>4. stored = Tables(d.artists, d.groups, cleared.songs, media, d.held, d.artistText,
                          d.groupText, d.songText)
      BY <3>1, <3>3 DEF Tabled, Tables
    <3>5. /\ DOMAIN media = DOMAIN d.media \cup {p} /\ media[p] = row
          /\ \A q \in DOMAIN d.media \ {p} : media[q] = d.media[q]
      BY DEF Put
    <3> HIDE DEF media
    <3>6. /\ Tabled(stored) /\ stored.artists = d.artists /\ stored.groups = d.groups
          /\ stored.songs = cleared.songs /\ stored.media = media
      BY <3>4 DEF Tables, Tabled
    <3>7. /\ Published(stored) \subseteq Published(d) \cup {p}
          /\ Published(d) \ {p} \subseteq Published(stored)
          /\ p \in Published(stored) <=> status = "published"
      BY <1>2, <3>5, <3>6 DEF Published
    <3>8. \A s \in DOMAIN d.songs :
             SongFits(d, s) /\ CanonicalFits(d, s)
      BY DEF RowsFit
    <3> DEFINE songs == cleared.songs
    <3>15. DOMAIN songs = DOMAIN d.songs
      BY <1>3 DEF Recast
    <3>16. ASSUME NEW s \in DOMAIN d.songs
           PROVE  /\ songs[s] = [title |-> d.songs[s].title, artist |-> d.songs[s].artist,
                                 canonical |-> songs[s].canonical]
                  /\ songs[s].title = d.songs[s].title /\ songs[s].artist = d.songs[s].artist
      <4>1. songs[s] = [title |-> d.songs[s].title, artist |-> d.songs[s].artist,
                        canonical |-> songs[s].canonical]
        BY <1>3 DEF Recast
      <4> HIDE DEF songs
      <4>2. songs[s].title = d.songs[s].title /\ songs[s].artist = d.songs[s].artist
        BY <4>1
      <4>3. QED
        BY <4>1, <4>2
    <3>17. stored.songs = songs
      BY <3>6
    <3> HIDE DEF songs
    <3>9. Associated(d, stored)
      BY <3>4, <3>6, <3>15, <3>16, <3>17 DEF Associated
    <3>10. ASSUME NEW s \in DOMAIN d.songs PROVE SongFits(stored, s)
      BY <3>6, <3>8, <3>16, <3>17 DEF SongFits
    <3>11. ASSUME NEW s \in DOMAIN d.songs PROVE CanonicalFits(stored, s)
      <4> DEFINE q == cleared.songs[s].canonical
      <4>1. SUFFICES ASSUME q # None PROVE q \in Published(stored) /\ media[q].song = s
        BY <3>6 DEF CanonicalFits
      <4>2. q = d.songs[s].canonical /\ q \in Published(d) /\ d.media[q].song = s
        BY <1>3, <3>8, <4>1 DEF CanonicalFits
      <4>3. CASE q = p
        BY <1>2, <1>3, <2>2, <3>5, <3>7, <4>1, <4>2, <4>3
      <4>4. CASE q # p
        BY <3>5, <3>7, <4>2, <4>4 DEF Published
      <4>5. QED
        BY <4>3, <4>4
    <3>12. PublishedFit(stored)
      <4>1. DOMAIN stored.songs = DOMAIN d.songs
        BY <1>3, <3>6 DEF Recast
      <4>2. ASSUME NEW q \in Published(stored)
            PROVE  stored.media[q].song \in DOMAIN d.songs \ {None}
        <5>1. CASE q = p
          BY <1>2, <3>5, <3>6, <3>7, <4>2, <5>1
        <5>2. CASE q # p
          BY <3>5, <3>6, <3>7, <4>2, <5>2 DEF RowsFit, PublishedFit, Published
        <5>3. QED
          BY <5>1, <5>2
      <4>3. QED
        BY <4>1, <4>2 DEF PublishedFit
    <3>13. DOMAIN stored.songs = DOMAIN d.songs
      BY <3>9 DEF Associated
    <3>14. QED
      BY <3>6, <3>9, <3>10, <3>11, <3>12, <3>13 DEF RowsFit
  <2>3. QED
    BY <2>1, <2>2
<1> HIDE DEF stored, e
<1>5. CASE p \notin Published(stored)
  BY <1>1, <1>4, <1>5 DEF e
<1>6. CASE p \in Published(stored)
  <2>1. RowsFit(e) /\ Recast(stored, e)
    BY <1>1, <1>4, <1>6, CanonicalKeepsFit
  <2>2. Associated(d, e)
    <3>1. /\ stored.artists = d.artists /\ stored.groups = d.groups /\ stored.held = d.held
          /\ stored.artistText = d.artistText /\ stored.groupText = d.groupText
          /\ stored.songText = d.songText
      BY <1>4 DEF Associated, Tables
    <3>2. e.media = stored.media
      BY <2>1 DEF Recast, Tables
    <3>3. e = Tables(d.artists, d.groups, e.songs, e.media, d.held, d.artistText,
                     d.groupText, d.songText)
      BY <2>1, <3>1, <3>2 DEF Recast
    <3>4. DOMAIN e.songs = DOMAIN d.songs
      BY <1>4, <2>1 DEF Associated, Recast
    <3>5. ASSUME NEW s \in DOMAIN d.songs PROVE e.songs[s].artist = d.songs[s].artist
      <4>1. s \in DOMAIN stored.songs /\ stored.songs[s].artist = d.songs[s].artist
        BY <1>4 DEF Associated
      <4>2. e.songs[s] = [title |-> stored.songs[s].title, artist |-> stored.songs[s].artist,
                          canonical |-> e.songs[s].canonical]
        BY <2>1, <4>1 DEF Recast
      <4>3. QED
        BY <4>1, <4>2
    <3>6. QED
      BY <3>3, <3>4, <3>5 DEF Associated
  <2>3. QED
    BY <2>1, <2>2 DEF e
<1>7. QED
  BY <1>5, <1>6

-----------------------------------------------------------------------------
(* The transactions.                                                        *)

(* Neither the search projections nor the quarantine items are rows.        *)
LEMMA OtherTables ==
  ASSUME NEW d, RowsFit(d), NEW held, NEW artistText, NEW groupText, NEW songText
  PROVE  RowsFit(Tables(d.artists, d.groups, d.songs, d.media, held, artistText, groupText,
                        songText))
<1> DEFINE e == Tables(d.artists, d.groups, d.songs, d.media, held, artistText, groupText,
                       songText)
<1>1. /\ Tabled(e) /\ e.artists = d.artists /\ e.groups = d.groups /\ e.songs = d.songs
      /\ e.media = d.media
  BY DEF Tables, Tabled
<1> HIDE DEF e
<1>2. Published(e) = Published(d)
  BY <1>1 DEF Published
<1>3. ASSUME NEW s \in DOMAIN d.songs PROVE SongFits(e, s) /\ CanonicalFits(e, s)
  <2>1. SongFits(d, s) /\ CanonicalFits(d, s)
    BY DEF RowsFit
  <2>2. QED
    BY <1>1, <1>2, <2>1 DEF SongFits, CanonicalFits
<1>4. PublishedFit(e)
  BY <1>1, <1>2 DEF RowsFit, PublishedFit
<1>5. QED
  BY <1>1, <1>3, <1>4 DEF RowsFit, e

(* What the texts depend on: a song may change where no text is claimed.    *)
LEMMA SameTexts ==
  ASSUME NEW d, NEW e, NEW w, TextFits(d, w), NEW S \in SUBSET w.last,
         e.artistText = d.artistText, e.groupText = d.groupText, e.songText = d.songText,
         \A s \in S \cap DOMAIN e.songs :
            s \in DOMAIN d.songs /\ e.songs[s].artist = d.songs[s].artist
  PROVE  TextFits(e, [ever |-> w.ever, last |-> S])
<1>1. ASSUME NEW s \in w.ever PROVE SongTells(e, s)
  BY DEF TextFits, SongTells, GroupTells, ArtistTells
<1>2. ASSUME NEW s \in S \cap DOMAIN e.songs PROVE CreditTells(e, s, e.songs[s].artist)
  <2>1. CreditTells(d, s, d.songs[s].artist)
    BY DEF TextFits
  <2>2. QED
    BY <2>1 DEF CreditTells, ArtistTells
<1>3. S \subseteq w.ever
  BY DEF TextFits
<1>4. QED
  BY <1>1, <1>2, <1>3 DEF TextFits

LEMMA SameTextsStay ==
  ASSUME NEW d, NEW e, NEW w, TextFits(d, w),
         e.artistText = d.artistText, e.groupText = d.groupText, e.songText = d.songText,
         DOMAIN e.songs = DOMAIN d.songs,
         \A s \in DOMAIN d.songs : e.songs[s].artist = d.songs[s].artist
  PROVE  TextFits(e, w)
<1>1. TextFits(e, [ever |-> w.ever, last |-> w.last])
  BY SameTexts
<1>2. QED
  BY <1>1 DEF TextFits

(* A file that is put aside, or that is put aside no more.                  *)
LEMMA QuarantineFits ==
  ASSUME NEW d, RowsFit(d), NEW rq, NEW reason
  PROVE  LET e == Quarantined(d, rq, reason)
         IN  RowsFit(e) /\ (\A w : TextFits(d, w) => TextFits(e, w))
<1> DEFINE stored == WithMedia(d, rq, StatusFor(reason), None)
           e == Quarantined(d, rq, reason)
<1>1. StatusFor(reason) # "published"
  BY DEF StatusFor
<1>2. RowsFit(stored) /\ Associated(d, stored)
  BY <1>1, AssociationFits
<1>3. e = WithItem(stored, rq.path)
  BY DEF Quarantined
<1> HIDE DEF stored, e
<1>4. e = Tables(stored.artists, stored.groups, stored.songs, stored.media,
                 stored.held \cup {rq.path}, stored.artistText, stored.groupText,
                 stored.songText)
  BY <1>2, <1>3, UpsertsWrite DEF RowsFit
<1>5. RowsFit(e)
  BY <1>2, <1>4, OtherTables
<1>6. /\ stored.artists = d.artists /\ stored.groups = d.groups
      /\ stored.artistText = d.artistText /\ stored.groupText = d.groupText
      /\ stored.songText = d.songText
  BY <1>2 DEF Associated, Tables
<1>7. /\ e.artists = d.artists /\ e.groups = d.groups /\ e.songs = stored.songs
      /\ e.artistText = d.artistText /\ e.groupText = d.groupText /\ e.songText = d.songText
  BY <1>4, <1>6 DEF Tables
<1>8. \A w : TextFits(d, w) => TextFits(e, w)
  BY <1>2, <1>7, SameTextsStay DEF Associated
<1>9. QED
  BY <1>5, <1>8 DEF e

LEMMA ResolutionFits ==
  ASSUME NEW d, RowsFit(d), NEW held
  PROVE  LET e == [d EXCEPT !.held = held]
         IN  RowsFit(e) /\ (\A w : TextFits(d, w) => TextFits(e, w))
<1> DEFINE e == [d EXCEPT !.held = held]
<1>1. e = Tables(d.artists, d.groups, d.songs, d.media, held, d.artistText, d.groupText,
                 d.songText)
  BY DEF RowsFit, Tabled, Tables
<1> HIDE DEF e
<1>2. RowsFit(e)
  BY <1>1, OtherTables
<1>3. \A w : TextFits(d, w) => TextFits(e, w)
  <2>1. /\ e.artists = d.artists /\ e.groups = d.groups /\ e.songs = d.songs
        /\ e.artistText = d.artistText /\ e.groupText = d.groupText /\ e.songText = d.songText
    BY <1>1 DEF Tables
  <2>2. QED
    BY <2>1, SameTextsStay
<1>4. QED
  BY <1>2, <1>3 DEF e

ArtistWords(d, g) ==
  IF g.owner = None THEN d.artistText
  ELSE Put(Put(d.artistText, Norm[g.creator], <<Norm[g.creator]>>),
           Norm[g.owner], <<Norm[g.owner]>>)

(* The projections of an import, written with the rows they are made of.    *)
LEMMA ArtistsFollow ==
  ASSUME NEW d, NEW e, NEW g, e.artistText = ArtistWords(d, g)
  PROVE  /\ \A a : ArtistTells(d, a) => ArtistTells(e, a)
         /\ g.owner # None => ArtistTells(e, Norm[g.owner]) /\ ArtistTells(e, Norm[g.creator])
<1>1. \A a : a \in Range(<<a>>)
  BY DEF Range
<1>2. CASE g.owner = None
  BY <1>2 DEF ArtistWords, ArtistTells
<1>3. CASE g.owner # None
  <2> DEFINE owner == Norm[g.owner]
             creator == Norm[g.creator]
  <2>1. e.artistText = Put(Put(d.artistText, creator, <<creator>>), owner, <<owner>>)
    BY <1>3 DEF ArtistWords
  <2> HIDE DEF owner, creator
  <2>2. ASSUME NEW a
        PROVE  /\ a \in {owner, creator} => ArtistTells(e, a)
               /\ a \notin {owner, creator} /\ ArtistTells(d, a) => ArtistTells(e, a)
    <3>1. CASE a \in {owner, creator}
      <4>1. a \in DOMAIN e.artistText /\ e.artistText[a] = <<a>>
        BY <2>1, <3>1 DEF Put
      <4>2. QED
        BY <1>1, <3>1, <4>1 DEF ArtistTells
    <3>2. CASE a \notin {owner, creator} /\ ArtistTells(d, a)
      <4>1. a \in DOMAIN e.artistText /\ e.artistText[a] = d.artistText[a]
        BY <2>1, <3>2 DEF Put, ArtistTells
      <4>2. QED
        BY <3>2, <4>1 DEF ArtistTells
    <3>3. QED
      BY <3>1, <3>2
  <2>3. QED
    BY <2>2 DEF owner, creator
<1>4. QED
  BY <1>2, <1>3

Written(w, s) == [ever |-> w.ever \cup {s}, last |-> w.last \cup {s}]

LEMMA TextsFollow ==
  ASSUME NEW d, NEW w, TextFits(d, w), NEW e, NEW g, g.kind \in {"music", "podcast"},
         DOMAIN e.songs = DOMAIN d.songs \cup {SongKey(g)},
         \A s \in DOMAIN d.songs \ {SongKey(g)} : e.songs[s].artist = d.songs[s].artist,
         e.artistText = ArtistWords(d, g),
         e.groupText = Put(d.groupText, GroupKey(g), GroupWords(g)),
         e.songText = Put(d.songText, SongKey(g), SongWords(g)),
         g.kind = "music" => /\ g.owner # None
                             /\ e.songs[SongKey(g)].artist = Norm[g.creator]
  PROVE  TextFits(e, Written(w, SongKey(g)))
<1> DEFINE group == GroupKey(g)
           key == SongKey(g)
<1>1. /\ GroupOf(key) = group /\ group[1] = g.kind /\ group[3] = Norm[g.group]
      /\ key[3] = Norm[g.title]
      /\ g.kind = "music" => OwnerOf(group) = Norm[g.owner]
  BY DEF SongKey, GroupKey, GroupOf, OwnerOf, Norms
<1>2. /\ Norm[g.group] \in Range(GroupWords(g))
      /\ g.kind = "music" => Norm[g.owner] \in Range(GroupWords(g))
  <2>1. CASE g.kind = "podcast"
    <3>1. GroupWords(g) = <<Norm[g.group]>>
      BY <2>1 DEF GroupWords
    <3>2. QED
      BY <2>1, <3>1 DEF Range
  <2>2. CASE g.kind = "music"
    <3>1. GroupWords(g) = <<Norm[g.group], Norm[g.owner]>>
      BY <2>2 DEF GroupWords
    <3>2. QED
      BY <2>2, <3>1 DEF Range
  <2>3. QED
    BY <2>1, <2>2
<1>3. /\ {Norm[g.title], Norm[g.group]} \subseteq Range(SongWords(g))
      /\ g.kind = "music" => {Norm[g.owner], Norm[g.creator]} \subseteq Range(SongWords(g))
  <2>1. CASE g.kind = "podcast"
    <3>1. SongWords(g) = <<Norm[g.title], Norm[g.group]>>
      BY <2>1 DEF SongWords
    <3>2. QED
      BY <2>1, <3>1 DEF Range
  <2>2. CASE g.kind = "music" /\ g.owner = g.creator
    <3>1. SongWords(g) = <<Norm[g.title], Norm[g.group], Norm[g.creator]>>
      BY <2>2 DEF SongWords
    <3>2. {Norm[g.title], Norm[g.group], Norm[g.creator]} \subseteq Range(SongWords(g))
      BY <3>1 DEF Range
    <3>3. QED
      BY <2>2, <3>2
  <2>3. CASE g.kind = "music" /\ g.owner # g.creator
    <3>1. SongWords(g) = <<Norm[g.title], Norm[g.group], Norm[g.owner], Norm[g.creator]>>
      BY <2>3 DEF SongWords
    <3>2. QED
      BY <3>1 DEF Range
  <2>4. QED
    BY <2>1, <2>2, <2>3
<1>4. /\ \A a : ArtistTells(d, a) => ArtistTells(e, a)
      /\ g.kind = "music" => ArtistTells(e, Norm[g.owner]) /\ ArtistTells(e, Norm[g.creator])
  BY ArtistsFollow
<1> HIDE DEF group, key
<1>5. GroupTells(e, group)
  <2>1. group \in DOMAIN e.groupText /\ e.groupText[group] = GroupWords(g)
    BY DEF Put, group
  <2>2. QED
    BY <1>1, <1>2, <2>1 DEF GroupTells
<1>6. ASSUME NEW h, GroupTells(d, h) PROVE GroupTells(e, h)
  <2>1. CASE h # group
    <3>1. h \in DOMAIN e.groupText /\ e.groupText[h] = d.groupText[h]
      BY <1>6, <2>1 DEF Put, GroupTells, group
    <3>2. QED
      BY <1>6, <3>1 DEF GroupTells
  <2>2. QED
    BY <1>5, <2>1
<1>7. key \in DOMAIN e.songText /\ e.songText[key] = SongWords(g)
  BY DEF Put, key
<1>8. SongTells(e, key) /\ CreditTells(e, key, e.songs[key].artist)
  <2>1. g.kind = "music" => e.songs[key].artist = Norm[g.creator]
    BY DEF key
  <2>2. QED
    BY <1>1, <1>3, <1>4, <1>5, <1>7, <2>1 DEF SongTells, CreditTells
<1>9. ASSUME NEW s, s # key, SongTells(d, s)
      PROVE  /\ SongTells(e, s)
             /\ \A a : CreditTells(d, s, a) => CreditTells(e, s, a)
  <2>1. s \in DOMAIN e.songText /\ e.songText[s] = d.songText[s]
    BY <1>9 DEF Put, SongTells, key
  <2>2. QED
    BY <1>4, <1>6, <1>9, <2>1 DEF SongTells, CreditTells
<1>10. \A s \in w.ever \cup {key} : SongTells(e, s)
  BY <1>8, <1>9 DEF TextFits
<1>11. ASSUME NEW s \in (w.last \cup {key}) \cap DOMAIN e.songs
       PROVE  CreditTells(e, s, e.songs[s].artist)
  <2>1. CASE s # key
    <3>1. s \in w.last /\ s \in w.ever /\ s \in DOMAIN d.songs \ {key}
      BY <1>11, <2>1 DEF TextFits, key
    <3>2. e.songs[s].artist = d.songs[s].artist
      BY <3>1 DEF key
    <3>3. SongTells(d, s) /\ CreditTells(d, s, d.songs[s].artist)
      BY <3>1 DEF TextFits
    <3>4. QED
      BY <1>9, <2>1, <3>2, <3>3
  <2>2. QED
    BY <1>8, <2>1
<1>12. w.last \cup {key} \subseteq w.ever \cup {key}
  BY DEF TextFits
<1>13. QED
  BY <1>10, <1>11, <1>12 DEF TextFits, Written, key

LEMMA ProjectionWrites ==
  ASSUME NEW d, Tabled(d), NEW g
  PROVE  Projected(d, g) =
            Tables(d.artists, d.groups, d.songs, d.media, d.held, ArtistWords(d, g),
                   Put(d.groupText, GroupKey(g), GroupWords(g)),
                   Put(d.songText, SongKey(g), SongWords(g)))
<1> DEFINE groupText == Put(d.groupText, GroupKey(g), GroupWords(g))
           songText == Put(d.songText, SongKey(g), SongWords(g))
           artistText == ArtistWords(d, g)
<1>1. Projected(d, g) = [d EXCEPT !.artistText = artistText, !.groupText = groupText,
                                  !.songText = songText]
  BY DEF Projected, ArtistWords
<1> HIDE DEF artistText, groupText, songText
<1>2. [d EXCEPT !.artistText = artistText, !.groupText = groupText, !.songText = songText] =
         Tables(d.artists, d.groups, d.songs, d.media, d.held, artistText, groupText, songText)
  <2> DEFINE a == [d EXCEPT !.artistText = artistText]
             b == [a EXCEPT !.groupText = groupText]
             c == [b EXCEPT !.songText = songText]
  <2>1. a = Tables(d.artists, d.groups, d.songs, d.media, d.held, artistText, d.groupText,
                   d.songText)
    BY DEF Tabled, Tables
  <2> HIDE DEF a
  <2>2. b = Tables(d.artists, d.groups, d.songs, d.media, d.held, artistText, groupText,
                   d.songText)
    BY <2>1 DEF Tables
  <2> HIDE DEF b
  <2>3. c = Tables(d.artists, d.groups, d.songs, d.media, d.held, artistText, groupText,
                   songText)
    BY <2>2 DEF Tables
  <2>4. [d EXCEPT !.artistText = artistText, !.groupText = groupText, !.songText = songText] = c
    BY DEF a, b
  <2>5. QED
    BY <2>3, <2>4
<1>3. QED
  BY <1>1, <1>2 DEF artistText, groupText, songText

(* The rows of an import, its file, and its texts.                          *)
NamedRows(d, g, artists, artist) ==
  Tables(artists, Put(d.groups, GroupKey(g), g.group),
         Put(d.songs, SongKey(g), SongRow(d, g, artist)),
         d.media, d.held, d.artistText, d.groupText, d.songText)

Publishing(d, rq, artists, artist) ==
  LET g == rq.grouping
      stored == WithMedia(NamedRows(d, g, artists, artist), rq, "published", SongKey(g))
  IN  IF rq.rebuild THEN Projected(stored, g) ELSE stored

(* A stable grouping is published: its rows first, then its file, then, if  *)
(* the plan of the import has the projections rebuilt, its texts.           *)
LEMMA RowsArePublished ==
  ASSUME NEW d, RowsFit(d), NEW rq, NEW artist, NEW artists,
         rq.grouping.kind \in {"music", "podcast"}, SongKey(rq.grouping) # None,
         DOMAIN d.artists \subseteq DOMAIN artists,
         rq.grouping.kind = "music" =>
            /\ rq.grouping.owner # None
            /\ Norm[rq.grouping.owner] \in DOMAIN artists /\ artist \in DOMAIN artists
            /\ artist = Norm[rq.grouping.creator]
  PROVE  LET e == Publishing(d, rq, artists, artist)
         IN  RowsFit(e) /\ (\A w : TextFits(d, w) => TextFits(e, WrittenBy(w, rq)))
<1> DEFINE g == rq.grouping
           groups == Put(d.groups, GroupKey(g), g.group)
           songs == Put(d.songs, SongKey(g), SongRow(d, g, artist))
           rows == Tables(artists, groups, songs, d.media, d.held, d.artistText, d.groupText,
                          d.songText)
           stored == WithMedia(rows, rq, "published", SongKey(g))
           e == IF rq.rebuild THEN Projected(stored, g) ELSE stored
<1>0. Publishing(d, rq, artists, artist) = e
  BY DEF Publishing, NamedRows
<1>1. DOMAIN groups = DOMAIN d.groups \cup {GroupKey(g)}
  BY DEF Put
<1>2. /\ DOMAIN songs = DOMAIN d.songs \cup {SongKey(g)}
      /\ songs[SongKey(g)].artist = artist
      /\ \A s \in DOMAIN d.songs \ {SongKey(g)} : songs[s] = d.songs[s]
  BY DEF Put, SongRow
<1>3. RowsFit(rows)
  <2>1. g.kind = "music" => Norms(g.owner) \in DOMAIN artists /\ artist \in DOMAIN artists
    BY DEF Norms
  <2> HIDE DEF g, groups
  <2>2. QED
    BY <1>1, <2>1, SongRowsFit DEF g
<1> HIDE DEF g, groups, songs
<1>4. /\ rows.artists = artists /\ rows.groups = groups /\ rows.songs = songs
      /\ rows.artistText = d.artistText /\ rows.groupText = d.groupText
      /\ rows.songText = d.songText
  BY DEF Tables
<1> HIDE DEF rows
<1>5. RowsFit(stored) /\ Associated(rows, stored)
  BY <1>2, <1>3, <1>4, AssociationFits DEF g
<1> HIDE DEF stored
<1>6. /\ stored.artists = artists /\ stored.groups = groups
      /\ stored.artistText = d.artistText /\ stored.groupText = d.groupText
      /\ stored.songText = d.songText
      /\ DOMAIN stored.songs = DOMAIN songs
      /\ \A s \in DOMAIN songs : stored.songs[s].artist = songs[s].artist
  BY <1>4, <1>5 DEF Associated, Tables
<1>7. CASE ~rq.rebuild
  <2>1. e = stored
    BY <1>7 DEF e
  <2>2. ASSUME NEW w, TextFits(d, w) PROVE TextFits(stored, WrittenBy(w, rq))
    <3>1. WrittenBy(w, rq) = [ever |-> w.ever, last |-> w.last \ {SongKey(g)}]
      BY <1>7 DEF WrittenBy, g
    <3>2. \A s \in (w.last \ {SongKey(g)}) \cap DOMAIN stored.songs :
             s \in DOMAIN d.songs /\ stored.songs[s].artist = d.songs[s].artist
      BY <1>2, <1>6
    <3>3. QED
      BY <1>6, <2>2, <3>1, <3>2, SameTexts
  <2>3. QED
    BY <1>0, <1>5, <2>1, <2>2
<1>8. CASE rq.rebuild
  <2>1. e = Tables(stored.artists, stored.groups, stored.songs, stored.media, stored.held,
                   ArtistWords(stored, g), Put(stored.groupText, GroupKey(g), GroupWords(g)),
                   Put(stored.songText, SongKey(g), SongWords(g)))
    BY <1>5, <1>8, ProjectionWrites DEF RowsFit
  <2> HIDE DEF e
  <2>2. RowsFit(e)
    BY <1>5, <2>1, OtherTables
  <2>3. ArtistWords(stored, g) = ArtistWords(d, g)
    BY <1>6 DEF ArtistWords
  <2>4. /\ e.artists = artists /\ e.groups = groups /\ e.songs = stored.songs
        /\ e.artistText = ArtistWords(d, g)
        /\ e.groupText = Put(d.groupText, GroupKey(g), GroupWords(g))
        /\ e.songText = Put(d.songText, SongKey(g), SongWords(g))
    BY <1>6, <2>1, <2>3 DEF Tables
  <2>5. ASSUME NEW w, TextFits(d, w) PROVE TextFits(e, WrittenBy(w, rq))
    <3>1. /\ DOMAIN e.songs = DOMAIN d.songs \cup {SongKey(g)}
          /\ e.songs[SongKey(g)].artist = artist
          /\ \A s \in DOMAIN d.songs \ {SongKey(g)} : e.songs[s].artist = d.songs[s].artist
      BY <1>2, <1>6, <2>4
    <3>2. /\ g.kind \in {"music", "podcast"}
          /\ g.kind = "music" => g.owner # None /\ artist = Norm[g.creator]
      BY DEF g
    <3>3. TextFits(e, Written(w, SongKey(g)))
      BY <2>4, <2>5, <3>1, <3>2, TextsFollow
    <3>4. QED
      BY <1>8, <3>3 DEF WrittenBy, Written, g
  <2>6. QED
    BY <1>0, <2>2, <2>5
<1>9. QED
  BY <1>7, <1>8

LEMMA MusicFits ==
  ASSUME NEW d, RowsFit(d), NEW rq, rq.grouping.kind = "music", Stable(rq.grouping),
         SongKey(rq.grouping) # None
  PROVE  LET e == PublishedMusic(d, rq)
         IN  RowsFit(e) /\ (\A w : TextFits(d, w) => TextFits(e, WrittenBy(w, rq)))
<1> DEFINE g == rq.grouping
           owner == Norm[g.owner]
           creator == Norm[g.creator]
           artists == Put(Put(d.artists, owner, g.owner), creator, g.creator)
           e == Publishing(d, rq, artists, creator)
<1>1. g.owner # None /\ g.kind = "music"
  BY DEF Stable
<1>2. GroupKey(g) = <<"music", Norm[g.owner], Norm[g.group]>>
  BY <1>1 DEF GroupKey, Norms
<1>3. MusicRows(d, g) = NamedRows(d, g, artists, creator)
  <2>1. Tabled(d)
    BY DEF RowsFit
  <2> HIDE DEF g
  <2>2. QED
    BY <1>2, <2>1, MusicRowsWrite DEF NamedRows
<1>4. PublishedMusic(d, rq) = e
  <2>1. PublishedMusic(d, rq) =
           LET s == WithMedia(MusicRows(d, g), rq, "published", SongKey(g))
           IN  IF rq.rebuild THEN Projected(s, g) ELSE s
    BY DEF PublishedMusic, MusicRows
  <2>2. QED
    BY <1>3, <2>1 DEF Publishing
<1>5. DOMAIN artists = DOMAIN d.artists \cup {owner, creator}
  BY DEF Put
<1>6. RowsFit(e) /\ (\A w : TextFits(d, w) => TextFits(e, WrittenBy(w, rq)))
  <2>1. /\ DOMAIN d.artists \subseteq DOMAIN artists
        /\ Norm[rq.grouping.owner] \in DOMAIN artists /\ creator \in DOMAIN artists
        /\ creator = Norm[rq.grouping.creator]
    BY <1>5
  <2> HIDE DEF creator, owner, artists
  <2>2. QED
    BY <1>1, <2>1, RowsArePublished
<1>7. QED
  BY <1>4, <1>6

LEMMA PodcastFits ==
  ASSUME NEW d, RowsFit(d), NEW rq, rq.grouping.kind = "podcast", rq.grouping.owner = None,
         SongKey(rq.grouping) # None
  PROVE  LET e == PublishedPodcast(d, rq)
         IN  RowsFit(e) /\ (\A w : TextFits(d, w) => TextFits(e, WrittenBy(w, rq)))
<1> DEFINE g == rq.grouping
           artist == None
           artists == d.artists
           e == Publishing(d, rq, artists, artist)
<1>1. g.owner = None /\ g.kind = "podcast"
  OBVIOUS
<1>2. GroupKey(g) = <<"podcast", None, Norm[g.group]>>
  BY <1>1 DEF GroupKey, Norms
<1>3. PodcastRows(d, g) = NamedRows(d, g, artists, artist)
  <2>1. Tabled(d)
    BY DEF RowsFit
  <2> HIDE DEF g
  <2>2. QED
    BY <1>2, <2>1, PodcastRowsWrite DEF NamedRows
<1>4. PublishedPodcast(d, rq) = e
  <2>1. PublishedPodcast(d, rq) =
           LET s == WithMedia(PodcastRows(d, g), rq, "published", SongKey(g))
           IN  IF rq.rebuild THEN Projected(s, g) ELSE s
    BY DEF PublishedPodcast, PodcastRows
  <2>2. QED
    BY <1>3, <2>1 DEF Publishing
<1>5. RowsFit(e) /\ (\A w : TextFits(d, w) => TextFits(e, WrittenBy(w, rq)))
  <2>1. /\ rq.grouping.kind # "music" /\ rq.grouping.kind \in {"music", "podcast"}
        /\ DOMAIN d.artists \subseteq DOMAIN artists
    OBVIOUS
  <2> HIDE DEF artist, artists
  <2>2. rq.grouping.kind = "music" =>
           /\ rq.grouping.owner # None
           /\ Norm[rq.grouping.owner] \in DOMAIN artists /\ artist \in DOMAIN artists
           /\ artist = Norm[rq.grouping.creator]
    BY <2>1
  <2>3. QED
    BY <2>1, <2>2, RowsArePublished
<1>6. QED
  BY <1>4, <1>5

(* Every import leaves the tables as they should be.                        *)
LEMMA ImportFits ==
  ASSUME NEW d, RowsFit(d), NEW rq \in Imports
  PROVE  LET e == Imported(d, rq)
         IN  /\ RowsFit(e)
             /\ \A w : TextFits(d, w) =>
                    TextFits(e, IF Decision(d, rq) = "published" THEN WrittenBy(w, rq) ELSE w)
<1> DEFINE g == rq.grouping
           decision == Decision(d, rq)
           e == Imported(d, rq)
<1>1. /\ g.kind \in {"music", "podcast"} /\ (g.kind = "podcast" => g.owner = None)
      /\ Stable(g) => SongKey(g) # None
  BY ImportsAssumption
<1>2. decision = "published" => Stable(g)
  BY DEF Decision
<1> HIDE DEF decision
<1>3. e = CASE decision = "reused" -> d
            [] decision = "published" -> IF g.kind = "music" THEN PublishedMusic(d, rq)
                                         ELSE PublishedPodcast(d, rq)
            [] OTHER -> Quarantined(d, rq, decision)
  BY DEF Imported, decision, e
<1> HIDE DEF e
<1> DEFINE Goal == /\ RowsFit(e)
                   /\ \A w : TextFits(d, w) =>
                          TextFits(e, IF decision = "published" THEN WrittenBy(w, rq) ELSE w)
<1>4. ASSUME decision = "reused" PROVE Goal
  BY <1>3, <1>4
<1>5. ASSUME decision = "published", g.kind = "music" PROVE Goal
  <2>1. e = PublishedMusic(d, rq)
    BY <1>3, <1>5
  <2>2. QED
    BY <1>1, <1>2, <1>5, <2>1, MusicFits
<1>6. ASSUME decision = "published", g.kind = "podcast" PROVE Goal
  <2>1. e = PublishedPodcast(d, rq)
    BY <1>3, <1>6
  <2>2. QED
    BY <1>1, <1>2, <1>6, <2>1, PodcastFits
<1>7. ASSUME decision \notin {"reused", "published"} PROVE Goal
  <2>1. e = Quarantined(d, rq, decision)
    BY <1>3, <1>7
  <2>2. QED
    BY <1>7, <2>1, QuarantineFits
<1> HIDE DEF Goal
<1>8. Goal
  BY <1>1, <1>4, <1>5, <1>6, <1>7
<1>9. QED
  BY <1>8 DEF Goal, decision, e

LEMMA StepsFit ==
  ASSUME RowsFit(catalog), [BrowseNext]_browseVars
  PROVE  RowsFit(catalog') /\ (TextFits(catalog, written) => TextFits(catalog', written'))
<1> DEFINE Goal == RowsFit(catalog') /\ (TextFits(catalog, written) => TextFits(catalog', written'))
<1>1. CASE UNCHANGED <<catalog, written>>
  BY <1>1
<1>2. ASSUME NEW rq \in Imports, ImportsFile(rq) PROVE Goal
  <2>1. /\ catalog' = Imported(catalog, rq)
        /\ written' = IF Decision(catalog, rq) = "published" THEN WrittenBy(written, rq) ELSE written
    BY <1>2 DEF ImportsFile, Becomes
  <2>2. QED
    BY <2>1, ImportFits
<1>3. ASSUME NEW rq \in Imports, NEW reason, QuarantinesFile(rq, reason) PROVE Goal
  <2>1. catalog' = Quarantined(catalog, rq, reason) /\ written' = written
    BY <1>3 DEF QuarantinesFile, Becomes
  <2>2. QED
    BY <2>1, QuarantineFits
<1>4. ASSUME NEW p \in catalog.held, ResolvesItem(p) PROVE Goal
  <2>1. catalog' = [catalog EXCEPT !.held = @ \ {p}] /\ written' = written
    BY <1>4 DEF ResolvesItem, Becomes
  <2>2. catalog' = [catalog EXCEPT !.held = catalog.held \ {p}] /\ written' = written
    BY <2>1
  <2>3. QED
    BY <2>2, ResolutionFits
<1>5. ASSUME NEW r \in Readers, NEW kind, NEW limit,
             Asks(r, kind, limit) \/ AsksPodcast(r, kind, limit)
      PROVE  UNCHANGED <<catalog, written>>
  BY <1>5 DEF Asks, AsksPodcast, AsksFor
<1>6. ASSUME NEW r \in Readers, TurnsPage(r) \/ Closes(r) PROVE UNCHANGED <<catalog, written>>
  BY <1>6 DEF TurnsPage, Closes
<1>7. CASE UNCHANGED browseVars
  BY <1>1, <1>7 DEF browseVars
<1>8. QED
  BY <1>1, <1>2, <1>3, <1>4, <1>5, <1>6, <1>7 DEF BrowseNext

LEMMA EmptyFits ==
  RowsFit(EmptyCatalog) /\ TextFits(EmptyCatalog, [ever |-> {}, last |-> {}])
<1>1. Tabled(EmptyCatalog)
  BY DEF EmptyCatalog, Tabled
<1>2. /\ DOMAIN EmptyCatalog.artists = {} /\ DOMAIN EmptyCatalog.groups = {}
      /\ DOMAIN EmptyCatalog.songs = {} /\ DOMAIN EmptyCatalog.media = {}
  BY DEF EmptyCatalog
<1>3. QED
  BY <1>1, <1>2 DEF RowsFit, TextFits, PublishedFit, Published

-----------------------------------------------------------------------------
(* What a listing or the home screen shows opens, has something on its page,*)
(* plays and has its artwork (browse_artists and the other listings against *)
(* the queries of one item), whatever files are imported under whatever     *)
(* names, moved between songs, quarantined and resolved.                    *)
THEOREM ListedThingsOpen == BrowseSpec => []ListedOpens
<1>1. BrowseInit => RowsFit(catalog)
  BY EmptyFits DEF BrowseInit
<1>2. RowsFit(catalog) /\ [BrowseNext]_browseVars => RowsFit(catalog)'
  BY StepsFit
<1>3. QED
  BY <1>1, <1>2, TablesOpen, PTL DEF BrowseSpec

(* What is listed is found (search_catalog), whatever plans the imports are *)
(* made by: by its title with the name of its group and of the album artist *)
(* once an import has written the projections of the song, and by the       *)
(* artist of the track as long as the last import that named the song did.  *)
(* What a plan without projections publishes first is the one exception.    *)
THEOREM ListedThingsAreFound == BrowseSpec => []SearchFindsListed
<1> DEFINE Fits == RowsFit(catalog) /\ TextFits(catalog, written)
<1>1. BrowseInit => Fits
  BY EmptyFits DEF BrowseInit
<1>2. Fits /\ [BrowseNext]_browseVars => Fits'
  BY StepsFit
<1>3. Fits => SearchFindsListed
  BY TablesTell
<1> HIDE DEF Fits
<1>4. QED
  BY <1>1, <1>2, <1>3, PTL DEF BrowseSpec

-----------------------------------------------------------------------------
(* How the rows are named, spelled and numbered.                            *)
GroupNamed(g) ==
  g = <<g[1], g[2], g[3]>> /\ g[3] \in Nat /\ (g[1] = "podcast" => g[2] = None)

SongNamed(s) == s = <<s[1], s[2], s[3]>> /\ s[2] \in Nat /\ s[3] \in Nat

Spelled(d) ==
  /\ {"artists", "groups", "songs"} \subseteq DOMAIN d
  /\ \A a \in DOMAIN d.artists : a \in Nat /\ d.artists[a] \in Names
  /\ \A g \in DOMAIN d.groups : GroupNamed(g) /\ d.groups[g] \in Names
  /\ \A s \in DOMAIN d.songs : /\ SongNamed(s)
                               /\ "title" \in DOMAIN d.songs[s] /\ d.songs[s].title \in Names

(* The grouping of a file that is published.                                *)
Spells(g) ==
  /\ g.group \in Names /\ g.title \in Names /\ g.position \in Nat
  /\ g.kind = "music" => g.owner \in Names /\ g.creator \in Names
  /\ g.kind = "podcast" => g.owner = None

LEMMA RowsStaySpelled ==
  ASSUME NEW d, Spelled(d)
  PROVE  /\ \A a \in Names : Spelled(WithArtist(d, a))
         /\ \A g : Spells(g) /\ g.kind = "music" => Spelled(WithAlbum(d, g))
         /\ \A g : Spells(g) => Spelled(WithPodcast(d, g))
         /\ \A g, a : Spells(g) => Spelled(WithSong(d, g, a))
<1>1. ASSUME NEW a \in Names PROVE Spelled(WithArtist(d, a))
  <2> DEFINE e == WithArtist(d, a)
             artists == Put(d.artists, Norm[a], a)
  <2>1. DOMAIN e = DOMAIN d /\ e.artists = artists /\ e.groups = d.groups /\ e.songs = d.songs
    BY DEF WithArtist, Spelled
  <2>2. Norm[a] \in Nat
    BY NormAssumption
  <2> HIDE DEF e
  <2>3. /\ DOMAIN artists = DOMAIN d.artists \cup {Norm[a]} /\ artists[Norm[a]] = a
        /\ \A k \in DOMAIN d.artists \ {Norm[a]} : artists[k] = d.artists[k]
    BY DEF Put
  <2> HIDE DEF artists
  <2>4. QED
    BY <1>1, <2>1, <2>2, <2>3 DEF Spelled, e
<1>2. ASSUME NEW key, GroupNamed(key), NEW title \in Names
      PROVE  Spelled([d EXCEPT !.groups = Put(@, key, title)])
  <2> DEFINE e == [d EXCEPT !.groups = Put(@, key, title)]
             groups == Put(d.groups, key, title)
  <2>1. DOMAIN e = DOMAIN d /\ e.artists = d.artists /\ e.groups = groups /\ e.songs = d.songs
    BY DEF Spelled
  <2> HIDE DEF e
  <2>2. /\ DOMAIN groups = DOMAIN d.groups \cup {key} /\ groups[key] = title
        /\ \A k \in DOMAIN d.groups \ {key} : groups[k] = d.groups[k]
    BY DEF Put
  <2> HIDE DEF groups
  <2>3. QED
    BY <1>2, <2>1, <2>2 DEF Spelled, e
<1>3. ASSUME NEW g, Spells(g), g.kind = "music" PROVE Spelled(WithAlbum(d, g))
  <2> DEFINE key == <<"music", Norm[g.owner], Norm[g.group]>>
  <2>1. Norm[g.group] \in Nat /\ g.group \in Names
    BY <1>3, NormAssumption DEF Spells
  <2>2. GroupNamed(key)
    BY <2>1 DEF GroupNamed
  <2> HIDE DEF key
  <2>3. Spelled([d EXCEPT !.groups = Put(@, key, g.group)])
    BY <1>2, <2>1, <2>2
  <2>4. QED
    BY <2>3 DEF WithAlbum, key
<1>4. ASSUME NEW g, Spells(g) PROVE Spelled(WithPodcast(d, g))
  <2> DEFINE key == <<"podcast", None, Norm[g.group]>>
  <2>1. Norm[g.group] \in Nat /\ g.group \in Names
    BY <1>4, NormAssumption DEF Spells
  <2>2. GroupNamed(key)
    BY <2>1 DEF GroupNamed
  <2> HIDE DEF key
  <2>3. Spelled([d EXCEPT !.groups = Put(@, key, g.group)])
    BY <1>2, <2>1, <2>2
  <2>4. QED
    BY <2>3 DEF WithPodcast, key
<1>5. ASSUME NEW g, Spells(g), NEW a PROVE Spelled(WithSong(d, g, a))
  <2> DEFINE e == WithSong(d, g, a)
             key == SongKey(g)
             row == [title |-> g.title, artist |-> a,
                     canonical |-> IF key \in DOMAIN d.songs THEN d.songs[key].canonical
                                   ELSE None]
             songs == Put(d.songs, key, row)
  <2>1. DOMAIN e = DOMAIN d /\ e.artists = d.artists /\ e.groups = d.groups /\ e.songs = songs
    BY DEF WithSong, Spelled
  <2>2. Norm[g.title] \in Nat /\ g.position \in Nat /\ g.title \in Names
    BY <1>5, NormAssumption DEF Spells
  <2>3. SongNamed(key)
    BY <2>2 DEF SongKey, SongNamed
  <2>4. "title" \in DOMAIN row /\ row.title = g.title
    OBVIOUS
  <2> HIDE DEF e, key, row
  <2>5. /\ DOMAIN songs = DOMAIN d.songs \cup {key} /\ songs[key] = row
        /\ \A s \in DOMAIN d.songs \ {key} : songs[s] = d.songs[s]
    BY DEF Put
  <2> HIDE DEF songs
  <2>6. QED
    BY <2>1, <2>2, <2>3, <2>4, <2>5 DEF Spelled, e
<1>6. QED
  BY <1>1, <1>3, <1>4, <1>5

(* The other writes leave names alone.                                      *)
SameNames(d, e) ==
  /\ DOMAIN e = DOMAIN d /\ e.artists = d.artists /\ e.groups = d.groups
  /\ DOMAIN e.songs = DOMAIN d.songs
  /\ \A s \in DOMAIN d.songs : /\ DOMAIN e.songs[s] = DOMAIN d.songs[s]
                               /\ e.songs[s].title = d.songs[s].title

LEMMA NamesAreKept ==
  ASSUME NEW d, Spelled(d), NEW e, SameNames(d, e)
  PROVE  Spelled(e)
BY DEF Spelled, SameNames

LEMMA FilesKeepNames ==
  ASSUME NEW d, Spelled(d)
  PROVE  /\ \A p, song : SameNames(d, ReassignedAway(d, p, song))
         /\ \A p, row : SameNames(d, WithRow(d, p, row))
         /\ \A p, song : SameNames(d, WithCanonical(d, song, p))
         /\ \A p : SameNames(d, WithItem(d, p))
         /\ \A held : SameNames(d, [d EXCEPT !.held = held])
         /\ \A g : SameNames(d, Projected(d, g))
<1>1. {"artists", "groups", "songs"} \subseteq DOMAIN d
      /\ \A s \in DOMAIN d.songs : "title" \in DOMAIN d.songs[s]
  BY DEF Spelled
<1>2. ASSUME NEW p, NEW song PROVE SameNames(d, ReassignedAway(d, p, song))
  BY <1>1 DEF SameNames, ReassignedAway
<1>3. ASSUME NEW p, NEW row PROVE SameNames(d, WithRow(d, p, row))
  BY <1>1 DEF SameNames, WithRow
<1>4. ASSUME NEW p, NEW song PROVE SameNames(d, WithCanonical(d, song, p))
  BY <1>1 DEF SameNames, WithCanonical
<1>5. ASSUME NEW p PROVE SameNames(d, WithItem(d, p))
  BY <1>1 DEF SameNames, WithItem
<1>6. ASSUME NEW held PROVE SameNames(d, [d EXCEPT !.held = held])
  BY <1>1 DEF SameNames
<1>7. ASSUME NEW g PROVE SameNames(d, Projected(d, g))
  BY <1>1 DEF SameNames, Projected
<1>8. QED
  BY <1>2, <1>3, <1>4, <1>5, <1>6, <1>7

(* Every transaction leaves the rows spelled.                               *)
LEMMA MediaKeepNames ==
  ASSUME NEW d, Spelled(d), NEW rq, NEW status, NEW song
  PROVE  Spelled(WithMedia(d, rq, status, song))
<1> DEFINE p == rq.path
           row == [status |-> status, song |-> song, hash |-> rq.hash, seconds |-> rq.seconds,
                   managed |-> IF status = "published" THEN rq.managed ELSE None]
           cleared == IF status = "published" THEN ReassignedAway(d, p, song) ELSE d
           stored == WithRow(cleared, p, row)
           e == WithMedia(d, rq, status, song)
<1>1. e = IF p \in Published(stored) THEN WithCanonical(stored, stored.media[p].song, p)
          ELSE stored
  BY DEF WithMedia
<1>2. Spelled(cleared)
  BY FilesKeepNames, NamesAreKept
<1> HIDE DEF cleared, row, e
<1>3. Spelled(stored)
  BY <1>2, FilesKeepNames, NamesAreKept
<1> HIDE DEF stored
<1>4. Spelled(e)
  BY <1>1, <1>3, FilesKeepNames, NamesAreKept
<1>5. QED
  BY <1>4 DEF e

LEMMA ImportsAreSpelled ==
  ASSUME NEW d, Spelled(d), NEW rq \in Imports
  PROVE  Spelled(Imported(d, rq)) /\ \A reason : Spelled(Quarantined(d, rq, reason))
<1> DEFINE g == rq.grouping
<1>1. ASSUME NEW reason PROVE Spelled(Quarantined(d, rq, reason))
  <2> DEFINE e == WithMedia(d, rq, StatusFor(reason), None)
  <2>1. Spelled(e)
    BY MediaKeepNames
  <2>2. Quarantined(d, rq, reason) = WithItem(e, rq.path)
    BY DEF Quarantined
  <2> HIDE DEF e
  <2>3. QED
    BY <2>1, <2>2, FilesKeepNames, NamesAreKept
<1>2. ASSUME NEW e, Spelled(e)
      PROVE  LET stored == WithMedia(e, rq, "published", SongKey(g))
             IN  Spelled(IF rq.rebuild THEN Projected(stored, g) ELSE stored)
  <2> DEFINE stored == WithMedia(e, rq, "published", SongKey(g))
  <2>1. Spelled(stored)
    BY <1>2, MediaKeepNames
  <2> HIDE DEF stored, g
  <2>2. Spelled(Projected(stored, g))
    BY <2>1, FilesKeepNames, NamesAreKept
  <2>3. QED
    BY <2>1, <2>2 DEF stored
<1>3. CASE Decision(d, rq) = "published"
  <2>1. Stable(g)
    BY <1>3 DEF Decision
  <2>2. Spells(g) /\ g.kind \in {"music", "podcast"}
    BY <2>1, ImportsAssumption DEF Spells, Stable
  <2> HIDE DEF g
  <2>3. CASE g.kind = "music"
    <3> DEFINE a == WithArtist(d, g.owner)
               b == WithArtist(a, g.creator)
               c == WithAlbum(b, g)
               e == WithSong(c, g, Norm[g.creator])
    <3>1. g.owner \in Names /\ g.creator \in Names
      BY <2>2, <2>3 DEF Spells
    <3>2. PublishedMusic(d, rq) =
             LET stored == WithMedia(e, rq, "published", SongKey(g))
             IN  IF rq.rebuild THEN Projected(stored, g) ELSE stored
      BY DEF PublishedMusic, WithTrack, g
    <3>3. Spelled(a)
      BY <3>1, RowsStaySpelled
    <3> HIDE DEF a
    <3>4. Spelled(b)
      BY <3>1, <3>3, RowsStaySpelled
    <3> HIDE DEF b
    <3>5. Spelled(c)
      BY <2>2, <2>3, <3>4, RowsStaySpelled
    <3> HIDE DEF c
    <3>6. Spelled(e)
      BY <2>2, <3>5, RowsStaySpelled
    <3> HIDE DEF e
    <3>7. Spelled(PublishedMusic(d, rq))
      BY <1>2, <3>2, <3>6
    <3>8. Imported(d, rq) = PublishedMusic(d, rq)
      BY <1>3, <2>3 DEF Imported, g
    <3>9. QED
      BY <1>1, <3>7, <3>8
  <2>4. CASE g.kind = "podcast"
    <3> DEFINE c == WithPodcast(d, g)
               e == WithSong(c, g, None)
    <3>1. PublishedPodcast(d, rq) =
             LET stored == WithMedia(e, rq, "published", SongKey(g))
             IN  IF rq.rebuild THEN Projected(stored, g) ELSE stored
      BY DEF PublishedPodcast, WithEpisode, g
    <3>2. Spelled(c)
      BY <2>2, RowsStaySpelled
    <3> HIDE DEF c
    <3>3. Spelled(e)
      BY <2>2, <3>2, RowsStaySpelled
    <3> HIDE DEF e
    <3>4. Spelled(PublishedPodcast(d, rq))
      BY <1>2, <3>1, <3>3
    <3>5. Imported(d, rq) = PublishedPodcast(d, rq)
      BY <1>3, <2>4 DEF Imported, g
    <3>6. QED
      BY <1>1, <3>4, <3>5
  <2>5. QED
    BY <2>2, <2>3, <2>4
<1>4. CASE Decision(d, rq) # "published"
  <2>1. \/ Imported(d, rq) = d
        \/ Imported(d, rq) = Quarantined(d, rq, Decision(d, rq))
    BY <1>4 DEF Imported
  <2>2. QED
    BY <1>1, <2>1
<1>5. QED
  BY <1>3, <1>4

LEMMA StepsKeepSpelled ==
  ASSUME Spelled(catalog), [BrowseNext]_browseVars
  PROVE  Spelled(catalog')
<1>1. CASE UNCHANGED catalog
  BY <1>1
<1>2. ASSUME NEW rq \in Imports, ImportsFile(rq) PROVE Spelled(catalog')
  <2>1. catalog' = Imported(catalog, rq)
    BY <1>2 DEF ImportsFile, Becomes
  <2>2. QED
    BY <2>1, ImportsAreSpelled
<1>3. ASSUME NEW rq \in Imports, NEW reason, QuarantinesFile(rq, reason) PROVE Spelled(catalog')
  <2>1. catalog' = Quarantined(catalog, rq, reason)
    BY <1>3 DEF QuarantinesFile, Becomes
  <2>2. QED
    BY <2>1, ImportsAreSpelled
<1>4. ASSUME NEW p \in catalog.held, ResolvesItem(p) PROVE Spelled(catalog')
  <2>1. catalog' = [catalog EXCEPT !.held = @ \ {p}]
    BY <1>4 DEF ResolvesItem, Becomes
  <2>2. catalog' = [catalog EXCEPT !.held = catalog.held \ {p}]
    BY <2>1
  <2>3. QED
    BY <2>2, FilesKeepNames, NamesAreKept
<1>5. ASSUME NEW r \in Readers, NEW kind, NEW limit,
             Asks(r, kind, limit) \/ AsksPodcast(r, kind, limit)
      PROVE  UNCHANGED catalog
  BY <1>5 DEF Asks, AsksPodcast, AsksFor
<1>6. ASSUME NEW r \in Readers, TurnsPage(r) \/ Closes(r) PROVE UNCHANGED catalog
  BY <1>6 DEF TurnsPage, Closes
<1>7. CASE UNCHANGED browseVars
  BY <1>1, <1>7 DEF browseVars
<1>8. QED
  BY <1>1, <1>2, <1>3, <1>4, <1>5, <1>6, <1>7 DEF BrowseNext

LEMMA EmptyIsSpelled == Spelled(EmptyCatalog)
<1>1. /\ DOMAIN EmptyCatalog.artists = {} /\ DOMAIN EmptyCatalog.groups = {}
      /\ DOMAIN EmptyCatalog.songs = {}
  BY DEF EmptyCatalog
<1>2. {"artists", "groups", "songs"} \subseteq DOMAIN EmptyCatalog
  BY DEF EmptyCatalog
<1>3. QED
  BY <1>1, <1>2 DEF Spelled

-----------------------------------------------------------------------------
(* The least number of a set is in it.                                      *)
LEMMA LeastIsThere ==
  ASSUME NEW S, S \subseteq Nat, S # {}
  PROVE  Least(S) \in S /\ \A m \in S : Least(S) <= m
<1>1. PICK n \in S : \A k \in S : <<k, n>> \notin OpToRel(<, Nat)
  BY WFMin, NatLessThanWellFounded, Zenon
<1>2. \A k \in S : n <= k
  <2> SUFFICES ASSUME NEW k \in S PROVE ~(k < n)
    OBVIOUS
  <2> QED
    BY <1>1, Zenon DEF OpToRel
<1>3. QED
  BY <1>1, <1>2 DEF Least

(* Keys are compared like words.                                            *)
KeyFits(k, n) == DOMAIN k = 1..n /\ \A m \in 1..n : k[m] \in Nat

LEMMA BeforeIsStrict ==
  ASSUME NEW n \in Nat, NEW a, NEW b, NEW c, KeyFits(a, n), KeyFits(b, n), KeyFits(c, n)
  PROVE  ~Before(a, a) /\ (Before(a, b) /\ Before(b, c) => Before(a, c))
<1>1. ~Before(a, a)
  BY DEF Before, KeyFits
<1>2. ASSUME Before(a, b), Before(b, c) PROVE Before(a, c)
  <2>1. PICK i \in 1..n : a[i] < b[i] /\ \A m \in 1..(i - 1) : a[m] = b[m]
    BY <1>2 DEF Before, KeyFits
  <2>2. PICK j \in 1..n : b[j] < c[j] /\ \A m \in 1..(j - 1) : b[m] = c[m]
    BY <1>2 DEF Before, KeyFits
  <2>3. a[i] \in Nat /\ b[i] \in Nat /\ c[i] \in Nat /\ a[j] \in Nat /\ b[j] \in Nat /\ c[j] \in Nat
    BY DEF KeyFits
  <2>4. CASE i <= j
    <3>1. a[i] < c[i]
      BY <2>1, <2>2, <2>3, <2>4
    <3>2. \A m \in 1..(i - 1) : a[m] = c[m]
      BY <2>1, <2>2, <2>4
    <3>3. QED
      BY <3>1, <3>2 DEF Before, KeyFits
  <2>5. CASE j < i
    <3>1. a[j] < c[j]
      BY <2>1, <2>2, <2>3, <2>5
    <3>2. \A m \in 1..(j - 1) : a[m] = c[m]
      BY <2>1, <2>2, <2>5
    <3>3. QED
      BY <3>1, <3>2 DEF Before, KeyFits
  <2>6. QED
    BY <2>4, <2>5
<1>3. QED
  BY <1>1, <1>2

LEMMA BeforeIsTotal ==
  ASSUME NEW n \in Nat, NEW a, NEW b, KeyFits(a, n), KeyFits(b, n),
         ~Before(a, b), ~Before(b, a)
  PROVE  \A m \in 1..n : a[m] = b[m]
<1> DEFINE apart == {m \in 1..n : a[m] # b[m]}
<1>1. SUFFICES ASSUME apart # {} PROVE FALSE
  OBVIOUS
<1>2. PICK m \in apart : \A l \in apart : m <= l
  <2> HIDE DEF apart
  <2>1. apart \subseteq Nat
    BY DEF apart
  <2>2. QED
    BY <1>1, <2>1, LeastIsThere
<1>3. \A l \in 1..(m - 1) : a[l] = b[l]
  BY <1>2
<1>4. a[m] < b[m] \/ b[m] < a[m]
  BY <1>2 DEF KeyFits
<1>5. QED
  BY <1>2, <1>3, <1>4 DEF Before, KeyFits

-----------------------------------------------------------------------------
(* Every listing has keys of one length, and no two of its items have one.  *)
Width(kind) ==
  CASE kind = "artists"  -> 3
    [] kind = "albums"   -> 4
    [] kind = "tracks"   -> 7
    [] kind = "podcasts" -> 2
    [] OTHER -> 5

LEMMA WidthsFit == ASSUME NEW kind PROVE Width(kind) \in Nat \ {0}
BY DEF Width

LEMMA NamesHaveKeys ==
  ASSUME NEW n \in Names
  PROVE  NameKey[n] \in Nat /\ SortKey[n] \in Nat
BY BrowseAssumption

KeyTells(d, kind, i, j) ==
  (\A m \in 1..Width(kind) : Key(d, kind, i)[m] = Key(d, kind, j)[m]) => i = j

LEMMA KeysFit ==
  ASSUME NEW d, RowsFit(d), Spelled(d), NEW kind \in Kinds, NEW of, NEW i \in Listed(d, kind, of)
  PROVE  /\ KeyFits(Key(d, kind, i), Width(kind))
         /\ \A j \in Listed(d, kind, of) : KeyTells(d, kind, i, j)
<1>1. ASSUME NEW s \in DOMAIN d.songs
      PROVE  /\ SongNamed(s) /\ NameKey[d.songs[s].title] \in Nat
             /\ GroupNamed(GroupOf(s)) /\ NameKey[d.groups[GroupOf(s)]] \in Nat
             /\ GroupOf(s)[1] = "music" =>
                   /\ OwnerOf(GroupOf(s)) \in Nat /\ d.songs[s].artist \in DOMAIN d.artists
                   /\ SortKey[d.artists[OwnerOf(GroupOf(s))]] \in Nat
  BY NamesHaveKeys DEF RowsFit, SongFits, Spelled
<1>2. CASE kind = "artists"
  <2>1. ASSUME NEW a \in ListedArtists(d)
        PROVE  KeyFits(ArtistKey(d, a), 3) /\ ArtistKey(d, a)[3] = a
    <3>1. a \in Nat /\ d.artists[a] \in Names
      BY DEF ListedArtists, Spelled
    <3>2. SortKey[d.artists[a]] \in Nat /\ NameKey[d.artists[a]] \in Nat
      BY <3>1, NamesHaveKeys
    <3>3. QED
      BY <3>1, <3>2 DEF ArtistKey, KeyFits
  <2>2. /\ Listed(d, kind, of) = ListedArtists(d) /\ Width(kind) = 3
        /\ \A a : Key(d, kind, a) = ArtistKey(d, a)
    BY <1>2 DEF Listed, Width, Key
  <2>3. QED
    BY <2>1, <2>2 DEF KeyTells
<1>3. CASE kind = "albums"
  <2>1. ASSUME NEW g \in ListedAlbums(d)
        PROVE  /\ KeyFits(AlbumKey(d, g), 4)
               /\ g = <<"music", AlbumKey(d, g)[3], AlbumKey(d, g)[4]>>
    <3>1. PICK s \in DOMAIN d.songs : GroupOf(s) = g /\ g[1] = "music"
      BY DEF ListedAlbums, ShownSongs
    <3>2. /\ g = <<g[1], g[2], g[3]>> /\ g[2] \in Nat /\ g[3] \in Nat
          /\ SortKey[d.artists[OwnerOf(g)]] \in Nat /\ NameKey[d.groups[g]] \in Nat
      BY <1>1, <3>1 DEF GroupNamed, OwnerOf
    <3>3. QED
      BY <3>1, <3>2 DEF AlbumKey, KeyFits, OwnerOf
  <2>2. /\ Listed(d, kind, of) = ListedAlbums(d) /\ Width(kind) = 4
        /\ \A g : Key(d, kind, g) = AlbumKey(d, g)
    BY <1>3 DEF Listed, Width, Key
  <2>3. QED
    BY <2>1, <2>2 DEF KeyTells
<1>4. CASE kind = "tracks"
  <2>1. ASSUME NEW s \in ListedTracks(d)
        PROVE  LET k == TrackKey(d, s)
               IN  KeyFits(k, 7) /\ s = <<<<"music", k[5], k[6]>>, k[3], k[7]>>
    <3>1. s \in DOMAIN d.songs /\ GroupOf(s)[1] = "music"
      BY DEF ListedTracks, ShownSongs
    <3>2. /\ s = <<s[1], s[2], s[3]>> /\ s[2] \in Nat /\ s[3] \in Nat
          /\ s[1] = <<"music", OwnerOf(GroupOf(s)), GroupOf(s)[3]>>
      BY <1>1, <3>1 DEF GroupNamed, SongNamed, GroupOf, OwnerOf
    <3>3. /\ OwnerOf(GroupOf(s)) \in Nat /\ GroupOf(s)[3] \in Nat
          /\ SortKey[d.artists[OwnerOf(GroupOf(s))]] \in Nat
          /\ NameKey[d.groups[GroupOf(s)]] \in Nat /\ NameKey[d.songs[s].title] \in Nat
      BY <1>1, <3>1 DEF GroupNamed
    <3>4. KeyFits(TrackKey(d, s), 7)
      BY <3>2, <3>3 DEF TrackKey, KeyFits
    <3>5. /\ TrackKey(d, s)[5] = OwnerOf(GroupOf(s)) /\ TrackKey(d, s)[6] = GroupOf(s)[3]
          /\ TrackKey(d, s)[3] = s[2] /\ TrackKey(d, s)[7] = s[3]
      BY DEF TrackKey
    <3>6. QED
      BY <3>2, <3>4, <3>5
  <2>2. /\ Listed(d, kind, of) = ListedTracks(d) /\ Width(kind) = 7
        /\ \A s : Key(d, kind, s) = TrackKey(d, s)
    BY <1>4 DEF Listed, Width, Key
  <2>3. QED
    BY <2>1, <2>2 DEF KeyTells
<1>5. CASE kind = "podcasts"
  <2>1. ASSUME NEW g \in ListedPodcasts(d)
        PROVE  KeyFits(PodcastKey(d, g), 2) /\ g = <<"podcast", None, PodcastKey(d, g)[2]>>
    <3>1. PICK s \in DOMAIN d.songs : GroupOf(s) = g /\ g[1] = "podcast"
      BY DEF ListedPodcasts, ShownSongs
    <3>2. g = <<g[1], g[2], g[3]>> /\ g[2] = None /\ g[3] \in Nat /\ NameKey[d.groups[g]] \in Nat
      BY <1>1, <3>1 DEF GroupNamed
    <3>3. QED
      BY <3>1, <3>2 DEF PodcastKey, KeyFits
  <2>2. /\ Listed(d, kind, of) = ListedPodcasts(d) /\ Width(kind) = 2
        /\ \A g : Key(d, kind, g) = PodcastKey(d, g)
    BY <1>5 DEF Listed, Width, Key
  <2>3. QED
    BY <2>1, <2>2 DEF KeyTells
<1>6. CASE kind \in {"episodes", "podcast_episodes"}
  <2>1. ASSUME NEW s \in ShownSongs(d, "podcast")
        PROVE  LET k == EpisodeKey(d, s)
               IN  KeyFits(k, 5) /\ s = <<<<"podcast", None, k[4]>>, k[2], k[5]>>
    <3>1. s \in DOMAIN d.songs /\ GroupOf(s)[1] = "podcast"
      BY DEF ShownSongs
    <3>2. /\ s = <<s[1], s[2], s[3]>> /\ s[2] \in Nat /\ s[3] \in Nat
          /\ s[1] = <<"podcast", None, GroupOf(s)[3]>>
      BY <1>1, <3>1 DEF GroupNamed, SongNamed, GroupOf
    <3>3. /\ GroupOf(s)[3] \in Nat
          /\ NameKey[d.groups[GroupOf(s)]] \in Nat /\ NameKey[d.songs[s].title] \in Nat
      BY <1>1, <3>1 DEF GroupNamed
    <3>4. KeyFits(EpisodeKey(d, s), 5)
      BY <3>2, <3>3 DEF EpisodeKey, KeyFits
    <3>5. /\ EpisodeKey(d, s)[4] = GroupOf(s)[3]
          /\ EpisodeKey(d, s)[2] = s[2] /\ EpisodeKey(d, s)[5] = s[3]
      BY DEF EpisodeKey
    <3>6. QED
      BY <3>2, <3>4, <3>5
  <2>2. /\ Listed(d, kind, of) \subseteq ShownSongs(d, "podcast") /\ Width(kind) = 5
        /\ \A s : Key(d, kind, s) = EpisodeKey(d, s)
    BY <1>6 DEF Listed, ListedEpisodes, EpisodesOf, OpenSongs, Width, Key
  <2>3. QED
    BY <2>1, <2>2 DEF KeyTells
<1>7. QED
  BY <1>2, <1>3, <1>4, <1>5, <1>6 DEF Kinds

-----------------------------------------------------------------------------
(* A page: what it returns, and what its cursor leaves for the next.        *)

Listing(d, kind, of) ==
  /\ \A i \in Listed(d, kind, of) : KeyFits(Key(d, kind, i), Width(kind))
  /\ \A i, j \in Listed(d, kind, of) : KeyTells(d, kind, i, j)

LEMMA KeysOrder ==
  ASSUME NEW d, NEW kind, NEW of, Listing(d, kind, of),
         NEW i \in Listed(d, kind, of), NEW j \in Listed(d, kind, of), i # j,
         ~Before(Key(d, kind, i), Key(d, kind, j))
  PROVE  Before(Key(d, kind, j), Key(d, kind, i))
<1> DEFINE a == Key(d, kind, i)
           b == Key(d, kind, j)
<1>1. KeyFits(a, Width(kind)) /\ KeyFits(b, Width(kind)) /\ Width(kind) \in Nat
  BY WidthsFit DEF Listing
<1>2. \E m \in 1..Width(kind) : a[m] # b[m]
  BY DEF Listing, KeyTells
<1> HIDE DEF a, b
<1>3. ~Before(a, b) => Before(b, a)
  BY <1>1, <1>2, BeforeIsTotal
<1>4. QED
  BY <1>3 DEF a, b

LEMMA PageRows ==
  ASSUME NEW d, NEW kind, NEW of, Listing(d, kind, of), NEW after, NEW limit \in Nat \ {0},
         NEW rows \in Rows(d, kind, of, after, limit)
  PROVE  LET rest == Rest(d, kind, of, after)
             k(i) == Key(d, kind, i)
         IN  /\ rows \in Seq(rest) /\ Len(rows) \in 0..(limit + 1)
             /\ \A m, n \in 1..Len(rows) : m < n => Before(k(rows[m]), k(rows[n]))
             /\ \A i \in rest : i \notin Range(rows) =>
                   Len(rows) = limit + 1 /\ \A n \in 1..Len(rows) : Before(k(rows[n]), k(i))
<1> DEFINE rest == Rest(d, kind, of, after)
           k(i) == Key(d, kind, i)
<1>1. PICK l \in 0..(limit + 1) : rows \in [1..l -> rest]
  BY DEF Rows
<1>2. rows \in Seq(rest) /\ Len(rows) = l /\ DOMAIN rows = 1..l
  <2> HIDE DEF rest
  <2>1. QED
    BY <1>1
<1>3. rest \subseteq Listed(d, kind, of)
  BY DEF Rest
<1>4. ASSUME NEW m \in 1..l, NEW n \in 1..l, m < n PROVE Before(k(rows[m]), k(rows[n]))
  <2>1. rows[m] # rows[n] /\ ~Before(k(rows[n]), k(rows[m]))
    BY <1>2, <1>4 DEF Rows
  <2>2. rows[m] \in Listed(d, kind, of) /\ rows[n] \in Listed(d, kind, of)
    BY <1>1, <1>3
  <2>3. QED
    BY <2>1, <2>2, KeysOrder
<1>5. ASSUME NEW i \in rest, i \notin Range(rows)
      PROVE  l = limit + 1 /\ \A n \in 1..l : Before(k(rows[n]), k(i))
  <2>1. l = limit + 1 /\ \A n \in 1..l : ~Before(k(i), k(rows[n]))
    BY <1>2, <1>5 DEF Rows
  <2>2. ASSUME NEW n \in 1..l PROVE Before(k(rows[n]), k(i))
    <3>1. rows[n] # i
      BY <1>2, <1>5 DEF Range
    <3>2. rows[n] \in Listed(d, kind, of) /\ i \in Listed(d, kind, of)
      BY <1>1, <1>3
    <3>3. QED
      BY <2>1, <3>1, <3>2, KeysOrder
  <2>3. QED
    BY <2>1, <2>2
<1>6. QED
  BY <1>2, <1>4, <1>5

LEMMA PageTells ==
  ASSUME NEW d, NEW kind, NEW of, Listing(d, kind, of), NEW after, NEW limit \in Nat \ {0},
         after = NoKey \/ KeyFits(after, Width(kind)),
         NEW rows \in Rows(d, kind, of, after, limit), NEW i \in Listed(d, kind, of)
  PROVE  LET kept == Kept(rows, limit)
             next == NextCursor(d, kind, rows, limit)
             due == next # NoKey /\ Before(next, Key(d, kind, i))
         IN  /\ kept \in Seq(Listed(d, kind, of))
             /\ next = NoKey \/ KeyFits(next, Width(kind))
             /\ i \in Rest(d, kind, of, after) =>
                   IF due THEN i \notin Range(kept) ELSE Once(kept, i)
             /\ i \notin Rest(d, kind, of, after) => ~due /\ i \notin Range(kept)
<1> DEFINE rest == Rest(d, kind, of, after)
           k(x) == Key(d, kind, x)
           kept == Kept(rows, limit)
           next == NextCursor(d, kind, rows, limit)
           due == next # NoKey /\ Before(next, k(i))
           width == Width(kind)
           l == Len(rows)
           size == IF l > limit THEN limit ELSE l
<1>1. /\ rows \in Seq(rest) /\ l \in 0..(limit + 1)
      /\ \A m, n \in 1..l : m < n => Before(k(rows[m]), k(rows[n]))
      /\ \A x \in rest : x \notin Range(rows) =>
            l = limit + 1 /\ \A n \in 1..l : Before(k(rows[n]), k(x))
  BY PageRows
<1>2. /\ rest \subseteq Listed(d, kind, of) /\ width \in Nat \ {0}
      /\ \A x \in Listed(d, kind, of) : KeyFits(k(x), width)
  BY WidthsFit DEF Rest, Listing
<1>3. i \in rest <=> (after = NoKey \/ Before(after, k(i)))
  BY DEF Rest
<1>4. \A x \in rest : after = NoKey \/ Before(after, k(x))
  BY DEF Rest
<1>5. next = IF l > limit THEN k(rows[limit]) ELSE NoKey
  BY DEF NextCursor
<1>6. ~KeyFits(NoKey, width)
  BY <1>2 DEF KeyFits, NoKey
<1> HIDE DEF rest, k, width, next
<1>7. size \in Nat /\ size <= l /\ size <= limit
  BY <1>1
<1>8. kept \in Seq(rest) /\ Len(kept) = size /\ \A m \in 1..size : kept[m] = rows[m]
  <2>1. kept = SubSeq(rows, 1, size)
    BY DEF Kept
  <2> HIDE DEF kept, size, l
  <2>2. QED
    BY <1>1, <1>7, <2>1 DEF l
<1>9. \A m \in 1..l : rows[m] \in rest /\ KeyFits(k(rows[m]), width)
  BY <1>1, <1>2
<1>10. \A m \in 1..l : ~Before(k(rows[m]), k(rows[m]))
  BY <1>2, <1>9, BeforeIsStrict
<1>11. next = NoKey \/ KeyFits(next, width)
  BY <1>1, <1>5, <1>9
<1>12. kept \in Seq(Listed(d, kind, of))
  BY <1>2, <1>8
<1> HIDE DEF kept
<1>13. \A x : x \in Range(kept) <=> \E m \in 1..size : rows[m] = x
  BY <1>8 DEF Range
<1>14. KeyFits(k(i), width)
  BY <1>2
<1>15. ASSUME i \notin rest PROVE ~due /\ i \notin Range(kept)
  <2>1. i \notin Range(kept)
    BY <1>7, <1>9, <1>13, <1>15
  <2>2. ASSUME due PROVE FALSE
    <3>1. next = k(rows[limit]) /\ limit \in 1..l
      BY <1>1, <1>5, <2>2
    <3>2. after # NoKey /\ KeyFits(after, width) /\ ~Before(after, k(i))
      BY <1>3, <1>15 DEF width
    <3>3. Before(after, next) /\ Before(next, k(i)) /\ KeyFits(next, width)
      BY <1>4, <1>9, <2>2, <3>1, <3>2
    <3>4. QED
      BY <1>2, <1>14, <3>2, <3>3, BeforeIsStrict
  <2>3. QED
    BY <2>1, <2>2
<1>16. ASSUME i \in rest, due PROVE i \notin Range(kept)
  <2>1. l > limit /\ next = k(rows[limit]) /\ Before(k(rows[limit]), k(i)) /\ limit \in 1..l
    BY <1>1, <1>5, <1>16
  <2>2. ASSUME NEW m \in 1..size, rows[m] = i PROVE FALSE
    <3>1. m \in 1..l /\ m <= limit
      BY <1>7, <2>2
    <3>2. CASE m = limit
      BY <1>10, <2>1, <2>2, <3>1, <3>2
    <3>3. CASE m < limit
      <4>1. Before(k(i), k(rows[limit]))
        BY <1>1, <2>1, <2>2, <3>1, <3>3
      <4>2. ~Before(k(i), k(i))
        BY <1>10, <2>2, <3>1
      <4>3. QED
        BY <1>2, <1>9, <1>14, <2>1, <4>1, <4>2, BeforeIsStrict
    <3>4. QED
      BY <3>1, <3>2, <3>3
  <2>3. QED
    BY <1>13, <2>2
<1>17. ASSUME i \in rest, ~due PROVE Once(kept, i)
  <2>1. PICK m \in 1..size : rows[m] = i
    <3>1. i \in Range(rows)
      <4>1. SUFFICES ASSUME i \notin Range(rows) PROVE FALSE
        OBVIOUS
      <4>2. l = limit + 1 /\ Before(k(rows[limit]), k(i))
        BY <1>1, <1>17, <4>1
      <4>3. next = k(rows[limit]) /\ limit \in 1..l
        BY <1>1, <1>5, <4>2
      <4>4. QED
        BY <1>6, <1>9, <1>17, <4>2, <4>3
    <3>2. PICK n \in 1..l : rows[n] = i
      BY <1>1, <3>1 DEF Range
    <3>3. n \in 1..size
      <4>1. SUFFICES ASSUME n \notin 1..size PROVE FALSE
        OBVIOUS
      <4>2. n = limit + 1 /\ l > limit /\ limit \in 1..l
        BY <1>1, <4>1
      <4>3. Before(k(rows[limit]), k(rows[n]))
        BY <1>1, <4>2
      <4>4. next = k(rows[limit])
        BY <1>5, <4>2
      <4>5. QED
        BY <1>6, <1>9, <1>17, <3>2, <4>2, <4>3, <4>4
    <3>4. QED
      BY <3>2, <3>3
  <2>2. ASSUME NEW n \in 1..size, rows[n] = i PROVE n = m
    <3>1. m \in 1..l /\ n \in 1..l
      BY <1>7, <2>1, <2>2
    <3>2. ~Before(k(i), k(i))
      BY <1>10, <2>1, <3>1
    <3>3. ~(m < n) /\ ~(n < m)
      BY <1>1, <2>1, <2>2, <3>1, <3>2
    <3>4. QED
      BY <3>1, <3>3
  <2>3. DOMAIN kept = 1..size
    BY <1>8
  <2>4. QED
    BY <1>8, <2>1, <2>2, <2>3 DEF Once
<1>18. QED
  BY <1>11, <1>12, <1>15, <1>16, <1>17 DEF rest, k, width, next, kept

-----------------------------------------------------------------------------
(* What the pages so far have told of the items that stood still.           *)

LEMMA RowsList ==
  ASSUME NEW d, RowsFit(d), Spelled(d), NEW kind \in Kinds, NEW of
  PROVE  Listing(d, kind, of)
BY KeysFit DEF Listing

LEMMA PagesJoin ==
  ASSUME NEW T, NEW s \in Seq(T), NEW U, NEW t \in Seq(U), NEW i
  PROVE  /\ s \o t \in Seq(Range(s \o t))
         /\ i \notin Range(s) /\ i \notin Range(t) => i \notin Range(s \o t)
         /\ i \notin Range(s) /\ Once(t, i) => Once(s \o t, i)
         /\ Once(s, i) /\ i \notin Range(t) => Once(s \o t, i)
<1> DEFINE j == s \o t
<1>1. /\ j \in Seq(T \cup U) /\ Len(s) \in Nat /\ Len(t) \in Nat /\ Len(j) = Len(s) + Len(t)
      /\ DOMAIN s = 1..Len(s) /\ DOMAIN t = 1..Len(t) /\ DOMAIN j = 1..Len(j)
      /\ \A n \in 1..Len(s) : j[n] = s[n]
      /\ \A n \in 1..Len(t) : j[Len(s) + n] = t[n]
  <2>1. s \in Seq(T \cup U) /\ t \in Seq(T \cup U)
    OBVIOUS
  <2>2. QED
    BY <2>1
<1> HIDE DEF j
<1>2. /\ i \in Range(s) <=> \E n \in 1..Len(s) : s[n] = i
      /\ i \in Range(t) <=> \E n \in 1..Len(t) : t[n] = i
      /\ i \in Range(j) <=> \E n \in 1..Len(j) : j[n] = i
  <2>1. DOMAIN s = 1..Len(s) /\ DOMAIN t = 1..Len(t) /\ DOMAIN j = 1..Len(j)
    BY <1>1
  <2>2. QED
    BY <2>1 DEF Range
<1>3. /\ Once(s, i) <=> \E n \in 1..Len(s) : \A m \in 1..Len(s) : s[m] = i <=> m = n
      /\ Once(t, i) <=> \E n \in 1..Len(t) : \A m \in 1..Len(t) : t[m] = i <=> m = n
      /\ Once(j, i) <=> \E n \in 1..Len(j) : \A m \in 1..Len(j) : j[m] = i <=> m = n
  <2>1. DOMAIN s = 1..Len(s) /\ DOMAIN t = 1..Len(t) /\ DOMAIN j = 1..Len(j)
    BY <1>1
  <2>2. QED
    BY <2>1 DEF Once
<1>4. ASSUME NEW n \in 1..Len(j), n \notin 1..Len(s)
      PROVE  n - Len(s) \in 1..Len(t) /\ j[n] = t[n - Len(s)]
  <2>1. n - Len(s) \in 1..Len(t) /\ Len(s) + (n - Len(s)) = n
    BY <1>1, <1>4
  <2>2. QED
    BY <1>1, <2>1
<1>5. j \in Seq(Range(j))
  <2>1. \A n \in 1..Len(j) : j[n] \in Range(j)
    BY <1>1 DEF Range
  <2>2. j = [n \in 1..Len(j) |-> j[n]] /\ Len(j) \in Nat
    BY <1>1
  <2>3. QED
    BY <2>1, <2>2
<1>6. ASSUME i \notin Range(s), i \notin Range(t) PROVE i \notin Range(j)
  BY <1>1, <1>4, <1>6, <1>2
<1>7. ASSUME i \notin Range(s), Once(t, i) PROVE Once(j, i)
  <2>1. PICK n \in 1..Len(t) : \A m \in 1..Len(t) : t[m] = i <=> m = n
    BY <1>7, <1>3
  <2>2. Len(s) + n \in 1..Len(j)
    BY <1>1
  <2>3. ASSUME NEW m \in 1..Len(j) PROVE j[m] = i <=> m = Len(s) + n
    <3>1. CASE m \in 1..Len(s)
      BY <1>1, <1>7, <1>2, <3>1
    <3>2. CASE m \notin 1..Len(s)
      <4>1. m - Len(s) \in 1..Len(t) /\ j[m] = t[m - Len(s)]
        BY <1>4, <3>2
      <4>2. j[m] = i <=> m - Len(s) = n
        BY <2>1, <4>1
      <4>3. QED
        BY <1>1, <4>2
    <3>3. QED
      BY <3>1, <3>2
  <2>4. QED
    BY <1>3, <2>2, <2>3
<1>8. ASSUME Once(s, i), i \notin Range(t) PROVE Once(j, i)
  <2>1. PICK n \in 1..Len(s) : \A m \in 1..Len(s) : s[m] = i <=> m = n
    BY <1>8, <1>3
  <2>2. n \in 1..Len(j)
    BY <1>1
  <2>3. ASSUME NEW m \in 1..Len(j) PROVE j[m] = i <=> m = n
    <3>1. CASE m \in 1..Len(s)
      BY <1>1, <2>1, <3>1
    <3>2. CASE m \notin 1..Len(s)
      BY <1>1, <1>4, <1>8, <1>2, <3>2
    <3>3. QED
      BY <3>1, <3>2
  <2>4. QED
    BY <1>3, <2>2, <2>3
<1>9. QED
  BY <1>5, <1>6, <1>7, <1>8 DEF j

(* What an item is due: no page has had it while its key lies behind the     *)
(* cursor, one page has had it when there are no more.                      *)
Due(d, q, i) == q.after # NoKey /\ Before(q.after, Key(d, q.kind, i))

Told(d, q, items) ==
  /\ q = [kind |-> q.kind, of |-> q.of, limit |-> q.limit, after |-> q.after, seen |-> q.seen]
  /\ q.kind \in Kinds /\ q.limit \in Limits
  /\ q.seen \in Seq(Range(q.seen))
  /\ q.after = NoKey \/ KeyFits(q.after, Width(q.kind))
  /\ items \subseteq Listed(d, q.kind, q.of)
  /\ \A i \in items : IF Due(d, q, i) THEN i \notin Range(q.seen) ELSE Once(q.seen, i)

(* A page returns items of its listing, and a cursor that is one of its keys. *)
LEMMA PageFits ==
  ASSUME NEW d, NEW kind, NEW of, Listing(d, kind, of), NEW after, NEW limit \in Nat \ {0},
         NEW rows \in Rows(d, kind, of, after, limit)
  PROVE  /\ Kept(rows, limit) \in Seq(Listed(d, kind, of))
         /\ NextCursor(d, kind, rows, limit) = NoKey
            \/ KeyFits(NextCursor(d, kind, rows, limit), Width(kind))
<1> DEFINE size == IF Len(rows) > limit THEN limit ELSE Len(rows)
           listed == Listed(d, kind, of)
<1>1. rows \in Seq(Rest(d, kind, of, after)) /\ Len(rows) \in 0..(limit + 1)
  BY PageRows
<1>2. Rest(d, kind, of, after) \subseteq listed /\ \A x \in listed : KeyFits(Key(d, kind, x), Width(kind))
  BY DEF Rest, Listing
<1> HIDE DEF listed
<1>3. rows \in Seq(listed)
  BY <1>1, <1>2
<1>4. SubSeq(rows, 1, size) \in Seq(listed)
  <2>1. size \in 0..Len(rows)
    BY <1>1
  <2> HIDE DEF size
  <2>2. QED
    BY <1>3, <2>1
<1>5. Len(rows) > limit => rows[limit] \in listed
  BY <1>1, <1>3
<1>6. QED
  BY <1>2, <1>4, <1>5 DEF Kept, NextCursor, listed

(* One page more: its reader knows of each item what it is due, if the item  *)
(* that the page may return has not been returned before.                   *)
LEMMA PageIsTold ==
  ASSUME NEW q, RowsFit(catalog), Spelled(catalog),
         q = [kind |-> q.kind, of |-> q.of, limit |-> q.limit, after |-> q.after,
              seen |-> q.seen],
         q.kind \in Kinds, q.limit \in Limits, q.seen \in Seq(Range(q.seen)),
         q.after = NoKey \/ KeyFits(q.after, Width(q.kind)),
         NEW items \in SUBSET Listed(catalog, q.kind, q.of),
         \A i \in items : IF i \in Rest(catalog, q.kind, q.of, q.after)
                          THEN i \notin Range(q.seen) ELSE Once(q.seen, i),
         NEW next \in Paged(q)
  PROVE  Told(catalog, next, items)
<1>1. PICK rows \in Rows(catalog, q.kind, q.of, q.after, q.limit) :
         next = [q EXCEPT !.seen = q.seen \o Kept(rows, q.limit),
                          !.after = NextCursor(catalog, q.kind, rows, q.limit)]
  BY DEF Paged
<1> DEFINE kept == Kept(rows, q.limit)
           cursor == NextCursor(catalog, q.kind, rows, q.limit)
<1>2. Listing(catalog, q.kind, q.of) /\ q.limit \in Nat \ {0}
  BY RowsList, BrowseAssumption
<1>3. /\ next.kind = q.kind /\ next.of = q.of /\ next.limit = q.limit
      /\ next.after = cursor /\ next.seen = q.seen \o kept
      /\ next = [kind |-> next.kind, of |-> next.of, limit |-> next.limit,
                 after |-> next.after, seen |-> next.seen]
  <2> HIDE DEF kept, cursor
  <2>1. next = [q EXCEPT !.seen = q.seen \o kept, !.after = cursor]
    BY <1>1 DEF kept, cursor
  <2>2. QED
    BY <2>1
<1>4. ASSUME NEW i \in Listed(catalog, q.kind, q.of)
      PROVE  /\ kept \in Seq(Listed(catalog, q.kind, q.of))
             /\ cursor = NoKey \/ KeyFits(cursor, Width(q.kind))
             /\ i \in Rest(catalog, q.kind, q.of, q.after) =>
                   IF cursor # NoKey /\ Before(cursor, Key(catalog, q.kind, i))
                   THEN i \notin Range(kept) ELSE Once(kept, i)
             /\ i \notin Rest(catalog, q.kind, q.of, q.after) =>
                   /\ ~(cursor # NoKey /\ Before(cursor, Key(catalog, q.kind, i)))
                   /\ i \notin Range(kept)
  BY <1>1, <1>2, PageTells
<1>5. /\ kept \in Seq(Listed(catalog, q.kind, q.of))
      /\ cursor = NoKey \/ KeyFits(cursor, Width(q.kind))
  BY <1>1, <1>2, PageFits
<1> HIDE DEF kept, cursor
<1>6. next.seen \in Seq(Range(next.seen))
  BY <1>3, <1>5, PagesJoin
<1>7. ASSUME NEW i \in items
      PROVE  IF Due(catalog, next, i) THEN i \notin Range(next.seen) ELSE Once(next.seen, i)
  <2>1. Due(catalog, next, i) <=>
          cursor # NoKey /\ Before(cursor, Key(catalog, q.kind, i))
    BY <1>3 DEF Due
  <2>2. /\ i \notin Range(q.seen) /\ i \notin Range(kept) => i \notin Range(next.seen)
        /\ i \notin Range(q.seen) /\ Once(kept, i) => Once(next.seen, i)
        /\ Once(q.seen, i) /\ i \notin Range(kept) => Once(next.seen, i)
    BY <1>3, <1>5, PagesJoin
  <2>3. QED
    BY <1>4, <1>7, <2>1, <2>2
<1>8. QED
  BY <1>3, <1>5, <1>6, <1>7 DEF Told

-----------------------------------------------------------------------------
(* The invariant: the rows are well formed, and each reader has been told    *)
(* what is due of all that has stood still since its first page.            *)
NotReading(r) == reader[r] = NoListing /\ steady[r] = {}

BrowseFits ==
  /\ RowsFit(catalog) /\ Spelled(catalog)
  /\ reader = [r \in Readers |-> reader[r]]
  /\ steady = [r \in Readers |-> steady[r]]
  /\ \A r \in Readers : NotReading(r) \/ Told(catalog, reader[r], steady[r])

LEMMA FirstPageTells ==
  ASSUME BrowseFits, NEW r \in Readers, NEW kind \in Kinds, NEW of, NEW limit \in Limits,
         AsksFor(r, kind, of, limit)
  PROVE  BrowseFits'
<1> DEFINE q == [kind |-> kind, of |-> of, limit |-> limit, after |-> NoKey, seen |-> <<>>]
           items == Listed(catalog, kind, of)
<1>1. PICK next \in Paged(q) : reader' = [reader EXCEPT ![r] = next]
  BY DEF AsksFor
<1>2. steady' = [steady EXCEPT ![r] = items] /\ UNCHANGED catalog
  BY DEF AsksFor
<1>3. RowsFit(catalog) /\ Spelled(catalog)
  BY DEF BrowseFits
<1>4. /\ q = [kind |-> q.kind, of |-> q.of, limit |-> q.limit, after |-> q.after, seen |-> q.seen]
      /\ q.kind = kind /\ q.of = of /\ q.limit = limit /\ q.after = NoKey /\ q.seen = <<>>
  OBVIOUS
<1> HIDE DEF q
<1>5. /\ q.seen \in Seq(Range(q.seen))
      /\ \A i \in items : IF i \in Rest(catalog, q.kind, q.of, q.after)
                          THEN i \notin Range(q.seen) ELSE Once(q.seen, i)
  BY <1>4 DEF Rest, Range
<1>6. Told(catalog, next, items)
  BY <1>1, <1>3, <1>4, <1>5, PageIsTold
<1> HIDE DEF items
<1>7. /\ reader' = [s \in Readers |-> IF s = r THEN next ELSE reader[s]]
      /\ steady' = [s \in Readers |-> IF s = r THEN items ELSE steady[s]]
  BY <1>1, <1>2 DEF BrowseFits
<1>8. ASSUME NEW s \in Readers PROVE NotReading(s)' \/ Told(catalog, reader'[s], steady'[s])
  <2>1. CASE s = r
    BY <1>6, <1>7, <2>1
  <2>2. CASE s # r
    BY <1>7, <2>2 DEF BrowseFits, NotReading
  <2>3. QED
    BY <2>1, <2>2
<1>9. QED
  BY <1>2, <1>7, <1>8 DEF BrowseFits

LEMMA NextPageTells ==
  ASSUME BrowseFits, NEW r \in Readers, TurnsPage(r)
  PROVE  BrowseFits'
<1> DEFINE q == reader[r]
           items == steady[r]
<1>1. PICK next \in Paged(q) : reader' = [reader EXCEPT ![r] = next]
  BY DEF TurnsPage
<1>2. UNCHANGED <<catalog, steady>> /\ q.after # NoKey
  BY DEF TurnsPage
<1>3. RowsFit(catalog) /\ Spelled(catalog)
  BY DEF BrowseFits
<1>4. Told(catalog, q, items)
  BY <1>2 DEF BrowseFits, NotReading, NoListing
<1> HIDE DEF q, items
<1>5. \A i \in items : IF i \in Rest(catalog, q.kind, q.of, q.after)
                       THEN i \notin Range(q.seen) ELSE Once(q.seen, i)
  BY <1>2, <1>4 DEF Told, Due, Rest
<1>6. Told(catalog, next, items)
  BY <1>1, <1>3, <1>4, <1>5, PageIsTold DEF Told
<1>7. reader' = [s \in Readers |-> IF s = r THEN next ELSE reader[s]]
  BY <1>1 DEF BrowseFits
<1>8. ASSUME NEW s \in Readers PROVE NotReading(s)' \/ Told(catalog, reader'[s], steady[s])
  <2>1. CASE s = r
    BY <1>6, <1>7, <2>1 DEF items
  <2>2. CASE s # r
    BY <1>2, <1>7, <2>2 DEF BrowseFits, NotReading
  <2>3. QED
    BY <2>1, <2>2
<1>9. QED
  BY <1>2, <1>7, <1>8 DEF BrowseFits

LEMMA EndTells ==
  ASSUME BrowseFits, NEW r \in Readers, Closes(r)
  PROVE  BrowseFits'
<1>1. /\ reader' = [s \in Readers |-> IF s = r THEN NoListing ELSE reader[s]]
      /\ steady' = [s \in Readers |-> IF s = r THEN {} ELSE steady[s]]
      /\ UNCHANGED catalog
  BY DEF Closes, BrowseFits
<1>2. ASSUME NEW s \in Readers PROVE NotReading(s)' \/ Told(catalog, reader'[s], steady'[s])
  <2>1. CASE s = r
    BY <1>1, <2>1 DEF NotReading
  <2>2. CASE s # r
    BY <1>1, <2>2 DEF BrowseFits, NotReading
  <2>3. QED
    BY <2>1, <2>2
<1>3. QED
  BY <1>1, <1>2 DEF BrowseFits

(* A change takes what it moves or hides out of what stood still; of the     *)
(* rest no key changes, and so nothing that is due.                         *)
LEMMA ChangesTell ==
  ASSUME BrowseFits, NEW c, NEW w, Becomes(c, w), RowsFit(c), Spelled(c)
  PROVE  BrowseFits'
<1> DEFINE left(r) == {i \in steady[r] : /\ i \in Listed(c, reader[r].kind, reader[r].of)
                                         /\ Key(c, reader[r].kind, i)
                                              = Key(catalog, reader[r].kind, i)}
<1>1. catalog' = c /\ reader' = reader /\ steady' = [r \in Readers |-> left(r)]
  BY DEF Becomes
<1>2. ASSUME NEW r \in Readers PROVE NotReading(r)' \/ Told(c, reader[r], left(r))
  <2>1. CASE NotReading(r)
    BY <1>1, <2>1 DEF NotReading
  <2>2. CASE Told(catalog, reader[r], steady[r])
    <3> DEFINE q == reader[r]
               items == left(r)
    <3>1. items \subseteq Listed(c, q.kind, q.of) /\ items \subseteq steady[r]
      OBVIOUS
    <3>2. \A i \in items : Key(c, q.kind, i) = Key(catalog, q.kind, i)
      OBVIOUS
    <3> HIDE DEF q, items, left
    <3>3. \A i \in items : Due(c, q, i) = Due(catalog, q, i)
      BY <3>2 DEF Due
    <3>4. Told(catalog, q, steady[r])
      BY <2>2 DEF q
    <3>5. Told(c, q, items)
      BY <3>1, <3>3, <3>4 DEF Told
    <3>6. QED
      BY <3>5 DEF q, items
  <2>3. QED
    BY <2>1, <2>2 DEF BrowseFits
<1> HIDE DEF left
<1>3. steady' = [r \in Readers |-> steady'[r]] /\ \A r \in Readers : steady'[r] = left(r)
  BY <1>1
<1>4. QED
  BY <1>1, <1>2, <1>3 DEF BrowseFits

LEMMA BrowseStepsFit == BrowseFits /\ [BrowseNext]_browseVars => BrowseFits'
<1> SUFFICES ASSUME BrowseFits, [BrowseNext]_browseVars PROVE BrowseFits'
  OBVIOUS
<1>1. RowsFit(catalog') /\ Spelled(catalog')
  BY StepsFit, StepsKeepSpelled DEF BrowseFits
<1>2. ASSUME NEW r \in Readers, NEW kind \in Kinds, NEW limit \in Limits, Asks(r, kind, limit)
      PROVE  BrowseFits'
  BY <1>2, FirstPageTells DEF Asks
<1>3. ASSUME NEW r \in Readers, NEW limit \in Limits, NEW of, AsksPodcast(r, of, limit)
      PROVE  BrowseFits'
  <2>1. "podcast_episodes" \in Kinds
    BY DEF Kinds
  <2>2. QED
    BY <1>3, <2>1, FirstPageTells DEF AsksPodcast
<1>4. ASSUME NEW c, NEW w, Becomes(c, w) PROVE BrowseFits'
  <2>1. catalog' = c
    BY <1>4 DEF Becomes
  <2>2. QED
    BY <1>1, <1>4, <2>1, ChangesTell
<1>5. CASE UNCHANGED browseVars
  BY <1>5 DEF browseVars, BrowseFits, NotReading
<1>6. CASE BrowseNext
  <2>1. ASSUME NEW rq \in Imports, ImportsFile(rq) PROVE BrowseFits'
    BY <1>4, <2>1 DEF ImportsFile
  <2>2. ASSUME NEW rq \in Imports, NEW reason, QuarantinesFile(rq, reason) PROVE BrowseFits'
    BY <1>4, <2>2 DEF QuarantinesFile
  <2>3. ASSUME NEW p, ResolvesItem(p) PROVE BrowseFits'
    BY <1>4, <2>3 DEF ResolvesItem
  <2>4. QED
    BY <1>2, <1>3, <1>6, <2>1, <2>2, <2>3, NextPageTells, EndTells DEF BrowseNext
<1>7. QED
  BY <1>5, <1>6

LEMMA BrowseStartFits == BrowseInit => BrowseFits
BY EmptyFits, EmptyIsSpelled DEF BrowseInit, BrowseFits, NotReading

LEMMA PagesTell == BrowseFits => PagesAreExact
<1> SUFFICES ASSUME BrowseFits, NEW r \in Readers, AtEnd(r), NEW i \in steady[r]
             PROVE  Once(reader[r].seen, i)
  BY DEF PagesAreExact
<1>1. Told(catalog, reader[r], steady[r])
  BY DEF BrowseFits, NotReading
<1>2. ~Due(catalog, reader[r], i)
  BY DEF AtEnd, Due
<1>3. QED
  BY <1>1, <1>2 DEF Told

(* A listing that is read page by page, while imports change the catalog, has *)
(* returned every item that stood still all along under one key exactly once: *)
(* the keyset cursors of the listings (browse_artists and the others), for any *)
(* page sizes, any number of readers and any imports, and whichever of rows   *)
(* with equal keys the statement puts first.                                *)
THEOREM PagesReturnOnce == BrowseSpec => []PagesAreExact
<1>1. BrowseInit => BrowseFits
  BY BrowseStartFits
<1>2. BrowseFits /\ [BrowseNext]_browseVars => BrowseFits'
  BY BrowseStepsFit
<1>3. BrowseFits => PagesAreExact
  BY PagesTell
<1>4. QED
  BY <1>1, <1>2, <1>3, PTL DEF BrowseSpec

-----------------------------------------------------------------------------
(* The invariant.                                                           *)

Locking == {"locked", "unique", "placed", "half", "copied"}
Moving == {"probed"} \cup Locking

Shaped(x) ==
  x = [step |-> x.step, path |-> x.path, read |-> x.read, existing |-> x.existing,
       rq |-> x.rq, final |-> x.final, attempt |-> x.attempt]

Folder(p) == SubSeq(p, 1, 3)
KeysOf(x) == Keys(x.read.hash, x.rq.grouping)

(* A job has a plan, and what is left of its list is still on the disk.     *)
JobFits ==
  /\ job # NoJob => job.plan \in Plans /\ job = [plan |-> job.plan, todo |-> job.todo]
  /\ job.todo \subseteq DOMAIN disk

(* Workers work for a job, each on a path that no other takes.              *)
WorkersFit ==
  /\ worker = [w \in Workers |-> worker[w]]
  /\ \A w \in Workers :
        /\ Shaped(worker[w])
        /\ worker[w].step # "idle" => job.plan \in Plans /\ worker[w].path \notin job.todo
  /\ \A v, w \in Workers :
        v # w /\ worker[v].step # "idle" /\ worker[w].step # "idle" =>
            worker[v].path # worker[w].path

(* Until its file is moved a worker finds the content it has read there.    *)
Reads(x) ==
  x.step \in Moving => x.path \in DOMAIN disk /\ disk[x.path].hash = x.read.hash

(* The target is in the folder that is locked, and what lies there may be   *)
(* overwritten; a copy that was made is there.                              *)
Aims(x) ==
  /\ x.step \in {"unique", "placed", "half", "copied"} => Stable(x.rq.grouping)
  /\ x.step \in {"placed", "half", "copied"} =>
        Folder(x.final) = Folder(ManagedPath(x.rq.grouping))
  /\ x.step = "half" => x.final # x.path
  /\ x.step = "placed" /\ x.final \in DOMAIN disk /\ x.final # x.path =>
        disk[x.final].hash = x.read.hash
  /\ x.step = "copied" =>
        x.final # x.path /\ x.final \in DOMAIN disk /\ disk[x.final].hash = x.read.hash

(* Whoever holds keys holds them alone.                                     *)
LocksApart ==
  \A v, w \in Workers :
     v # w /\ worker[v].step \in Locking /\ worker[w].step \in Locking =>
         KeysOf(worker[v]) \cap KeysOf(worker[w]) = {}

FilesFit ==
  /\ JobFits /\ WorkersFit
  /\ \A w \in Workers : Reads(worker[w]) /\ Aims(worker[w])
  /\ LocksApart
  /\ NothingIsLost

(* There is a free name among those that are tried (unique_target_path).    *)
EveryNameHasRoom ==
  \A w \in Workers : worker[w].step = "unique" =>
     \E n \in 2..MaxCopies :
        CopyOf(ManagedPath(worker[w].rq.grouping), n) \notin DOMAIN disk

(* Nobody has written over a file since a worker read it that waits for its *)
(* keys: a copy that stops does, when the file it overwrites, of the same   *)
(* content, has just been read.                                             *)
ReadsHold ==
  \A w \in Workers : worker[w].step = "probed" /\ worker[w].path \in DOMAIN disk =>
     disk[worker[w].path].hash = worker[w].read.hash

-----------------------------------------------------------------------------
(* The operators.                                                           *)

(* A number behind the file name leaves the folders as they are.            *)
LEMMA CopiesLieBeside ==
  ASSUME NEW g, NEW n
  PROVE  Folder(CopyOf(ManagedPath(g), n)) = Folder(ManagedPath(g))
<1> DEFINE p == ManagedPath(g)
           q == CopyOf(p, n)
<1>1. DOMAIN p = 1..4
  BY DEF ManagedPath
<1>2. \A i \in 1..3 : q[i] = p[i]
  BY <1>1 DEF CopyOf
<1> DEFINE S == {p[i] : i \in 1..3}
<1> HIDE DEF p, q
<1>3. \A i \in 1..3 : p[i] \in S /\ q[i] \in S
  BY <1>2
<1> HIDE DEF S
<1>4. /\ Folder(p) \in Seq(S) /\ Len(Folder(p)) = 3
      /\ \A i \in 1..3 : Folder(p)[i] = p[i]
  BY <1>3, SubSeqProperties DEF Folder
<1>5. /\ Folder(q) \in Seq(S) /\ Len(Folder(q)) = 3
      /\ \A i \in 1..3 : Folder(q)[i] = q[i]
  BY <1>3, SubSeqProperties DEF Folder
<1> HIDE DEF Folder
<1>6. Folder(p) \in [1..3 -> S] /\ Folder(q) \in [1..3 -> S]
  BY <1>4, <1>5, LenProperties
<1>7. QED
  BY <1>2, <1>4, <1>5, <1>6 DEF p, q

(* Imports that hold their keys at once differ in content, and in folder.   *)
LEMMA KeysTell ==
  ASSUME NEW h, NEW g, NEW i, NEW k, Keys(h, g) \cap Keys(i, k) = {}
  PROVE  /\ h # i
         /\ Stable(g) /\ Stable(k) => Folder(ManagedPath(g)) # Folder(ManagedPath(k))
<1>1. h # i
  BY DEF Keys
<1>2. ASSUME Stable(g), Stable(k), Folder(ManagedPath(g)) = Folder(ManagedPath(k))
      PROVE  FALSE
  <2>1. <<"folder", Folder(ManagedPath(g))>> \in Keys(h, g)
    BY <1>2 DEF Keys, Folder
  <2>2. <<"folder", Folder(ManagedPath(k))>> \in Keys(i, k)
    BY <1>2 DEF Keys, Folder
  <2>3. QED
    BY <2>1, <2>2, <1>2
<1>3. QED
  BY <1>1, <1>2

(* What a worker overwrites: nothing, its own file, or the same content.    *)
LEMMA TargetsAreSafe ==
  ASSUME NEW path, NEW hash, NEW g, MaxCopies \in Nat,
         \E n \in 2..MaxCopies : CopyOf(ManagedPath(g), n) \notin DOMAIN disk
  PROVE  LET final == UniqueTarget(path, hash, g)
         IN  /\ Folder(final) = Folder(ManagedPath(g))
             /\ final \in DOMAIN disk /\ final # path => disk[final].hash = hash
<1> DEFINE target == ManagedPath(g)
           free == {n \in 2..MaxCopies : CopyOf(target, n) \notin DOMAIN disk}
           final == UniqueTarget(path, hash, g)
<1>1. free # {} /\ free \subseteq Nat
  OBVIOUS
<1>2. Least(free) \in free
  BY <1>1, LeastIsThere
<1>3. CASE final = target /\ (target \notin DOMAIN disk \/ target = path \/ disk[target].hash = hash)
  BY <1>3
<1>4. CASE final = CopyOf(target, Least(free))
  BY <1>2, <1>4, CopiesLieBeside
<1>5. QED
  BY <1>1, <1>3, <1>4 DEF UniqueTarget

(* A worker's record after some of its parts have been set.                 *)
LEMMA AimedRecord ==
  ASSUME NEW x, Shaped(x), NEW a, NEW b
  PROVE  [x EXCEPT !.step = a, !.final = b] =
             [step |-> a, path |-> x.path, read |-> x.read, existing |-> x.existing,
              rq |-> x.rq, final |-> b, attempt |-> x.attempt]
<1> DEFINE y == [x EXCEPT !.step = a]
<1>1. y = [step |-> a, path |-> x.path, read |-> x.read, existing |-> x.existing,
           rq |-> x.rq, final |-> x.final, attempt |-> x.attempt]
  BY DEF Shaped
<1>2. [x EXCEPT !.step = a, !.final = b] = [y EXCEPT !.final = b]
  OBVIOUS
<1> HIDE DEF y
<1>3. QED
  BY <1>1, <1>2

LEMMA AskedRecord ==
  ASSUME NEW x, Shaped(x), NEW a, NEW b
  PROVE  [x EXCEPT !.step = a, !.rq = b] =
             [step |-> a, path |-> x.path, read |-> x.read, existing |-> x.existing,
              rq |-> b, final |-> x.final, attempt |-> x.attempt]
<1> DEFINE y == [x EXCEPT !.step = a]
<1>1. y = [step |-> a, path |-> x.path, read |-> x.read, existing |-> x.existing,
           rq |-> x.rq, final |-> x.final, attempt |-> x.attempt]
  BY DEF Shaped
<1>2. [x EXCEPT !.step = a, !.rq = b] = [y EXCEPT !.rq = b]
  OBVIOUS
<1> HIDE DEF y
<1>3. QED
  BY <1>1, <1>2

LEMMA RetriedRecord ==
  ASSUME NEW x, Shaped(x)
  PROVE  LET n == [x EXCEPT !.step = "unique", !.final = NoPath, !.attempt = @ + 1]
         IN  /\ Shaped(n) /\ n.step = "unique" /\ n.final = NoPath
             /\ n.path = x.path /\ n.read = x.read /\ n.rq = x.rq
<1> DEFINE y == [x EXCEPT !.step = "unique", !.final = NoPath]
           n == [x EXCEPT !.step = "unique", !.final = NoPath, !.attempt = @ + 1]
<1>1. y = [step |-> "unique", path |-> x.path, read |-> x.read, existing |-> x.existing,
           rq |-> x.rq, final |-> NoPath, attempt |-> x.attempt]
  BY AimedRecord
<1>2. n = [y EXCEPT !.attempt = @ + 1]
  OBVIOUS
<1> HIDE DEF y, n
<1>3. n = [step |-> "unique", path |-> x.path, read |-> x.read, existing |-> x.existing,
           rq |-> x.rq, final |-> NoPath, attempt |-> x.attempt + 1]
  BY <1>1, <1>2
<1>4. QED
  BY <1>3 DEF Shaped, n

Probed(p, read, row) ==
  [Idle EXCEPT !.step = "probed", !.path = p, !.read = read, !.existing = row]

LEMMA ProbedRecord ==
  ASSUME NEW p, NEW read, NEW row
  PROVE  Probed(p, read, row) =
             [step |-> "probed", path |-> p, read |-> read, existing |-> row,
              rq |-> Idle.rq, final |-> Idle.final, attempt |-> Idle.attempt]
<1> DEFINE x == [Idle EXCEPT !.step = "probed"]
           y == [x EXCEPT !.path = p]
           z == [y EXCEPT !.read = read]
<1>1. x = [step |-> "probed", path |-> Idle.path, read |-> Idle.read,
           existing |-> Idle.existing, rq |-> Idle.rq, final |-> Idle.final, attempt |-> Idle.attempt]
  BY DEF Idle
<1>2. Probed(p, read, row) = [z EXCEPT !.existing = row]
  BY DEF Probed
<1> HIDE DEF x
<1>3. y = [step |-> "probed", path |-> p, read |-> Idle.read,
           existing |-> Idle.existing, rq |-> Idle.rq, final |-> Idle.final, attempt |-> Idle.attempt]
  BY <1>1
<1> HIDE DEF y
<1>4. z = [step |-> "probed", path |-> p, read |-> read,
           existing |-> Idle.existing, rq |-> Idle.rq, final |-> Idle.final, attempt |-> Idle.attempt]
  BY <1>3
<1> HIDE DEF z
<1>5. QED
  BY <1>2, <1>4

LEMMA FiledRecord ==
  ASSUME NEW x, Shaped(x)
  PROVE  Filed(x) = [step |-> "filed", path |-> x.path, read |-> x.read,
                     existing |-> x.existing, rq |-> [x.rq EXCEPT !.managed = x.final],
                     final |-> x.final, attempt |-> x.attempt]
<1> DEFINE y == [x EXCEPT !.step = "filed"]
<1>1. y = [step |-> "filed", path |-> x.path, read |-> x.read, existing |-> x.existing,
           rq |-> x.rq, final |-> x.final, attempt |-> x.attempt]
  BY DEF Shaped
<1>2. Filed(x) = [y EXCEPT !.rq.managed = x.final]
  BY DEF Filed
<1> HIDE DEF y
<1>3. [y EXCEPT !.rq.managed = x.final] = [y EXCEPT !.rq = [y.rq EXCEPT !.managed = x.final]]
  OBVIOUS
<1>4. QED
  BY <1>1, <1>2, <1>3

LEMMA FiledIsShaped ==
  ASSUME NEW x, Shaped(x)
  PROVE  Filed(x).step = "filed" /\ Filed(x).path = x.path /\ Shaped(Filed(x))
<1> DEFINE rq == [x.rq EXCEPT !.managed = x.final]
<1>1. Filed(x) = [step |-> "filed", path |-> x.path, read |-> x.read,
                  existing |-> x.existing, rq |-> rq, final |-> x.final,
                  attempt |-> x.attempt]
  BY FiledRecord
<1> HIDE DEF rq
<1>2. QED
  BY <1>1 DEF Shaped

-----------------------------------------------------------------------------
(* A worker goes on, and the disk is left as it is.                         *)

(* It is enough to look at the worker and at what it shares with others.    *)
LEMMA TurnsFit ==
  ASSUME FilesFit, NEW w \in Workers, NEW n,
         worker' = [worker EXCEPT ![w] = n], Shaped(n),
         UNCHANGED <<disk, dropped>>,
         job' = [plan |-> job.plan, todo |-> job'.todo], job'.todo \subseteq job.todo,
         job.plan \in Plans,
         n.step # "idle" =>
            /\ n.path \notin job'.todo
            /\ \A v \in Workers \ {w} : worker[v].step # "idle" => worker[v].path # n.path,
         Reads(n), Aims(n),
         n.step \in Locking =>
            \A v \in Workers \ {w} :
               worker[v].step \in Locking => KeysOf(worker[v]) \cap KeysOf(n) = {}
  PROVE  FilesFit'
<1>1. /\ worker'[w] = n
      /\ \A v \in Workers \ {w} : worker'[v] = worker[v]
      /\ worker' = [v \in Workers |-> worker'[v]]
  BY DEF FilesFit, WorkersFit
<1>2. job'.plan = job.plan
  OBVIOUS
<1>3. JobFits'
  BY <1>2 DEF FilesFit, JobFits
<1>4. WorkersFit'
  <2>1. ASSUME NEW v \in Workers
        PROVE  /\ Shaped(worker'[v])
               /\ worker'[v].step # "idle" =>
                     job'.plan \in Plans /\ worker'[v].path \notin job'.todo
    BY <1>1, <1>2 DEF FilesFit, WorkersFit
  <2>2. ASSUME NEW u \in Workers, NEW v \in Workers, u # v,
               worker'[u].step # "idle", worker'[v].step # "idle"
        PROVE  worker'[u].path # worker'[v].path
    BY <1>1, <2>2 DEF FilesFit, WorkersFit
  <2>3. QED
    BY <1>1, <2>1, <2>2 DEF WorkersFit, Shaped
<1>5. ASSUME NEW v \in Workers PROVE Reads(worker[v])' /\ Aims(worker[v])'
  BY <1>1 DEF FilesFit, Reads, Aims
<1>6. LocksApart'
  BY <1>1 DEF FilesFit, LocksApart, KeysOf
<1>7. NothingIsLost'
  BY DEF FilesFit, NothingIsLost
<1>8. QED
  BY <1>3, <1>4, <1>5, <1>6, <1>7 DEF FilesFit

(* A worker turns to something that touches neither the list nor the disk,  *)
(* and takes no keys it has not held.                                       *)
LEMMA WorkerTurns ==
  ASSUME FilesFit, NEW w \in Workers, worker[w].step # "idle", NEW n,
         worker' = [worker EXCEPT ![w] = n], Shaped(n), UNCHANGED <<disk, dropped, job>>,
         n.path = worker[w].path, Reads(n), Aims(n),
         n.step \in Locking => worker[w].step \in Locking /\ KeysOf(n) = KeysOf(worker[w])
  PROVE  FilesFit'
<1>1. job.plan \in Plans /\ job # NoJob /\ worker[w].path \notin job.todo
  BY FilesAssumption DEF FilesFit, WorkersFit, NoJob
<1>2. job = [plan |-> job.plan, todo |-> job.todo]
  BY <1>1 DEF FilesFit, JobFits
<1>3. n.step # "idle" =>
        /\ n.path \notin job'.todo
        /\ \A v \in Workers \ {w} : worker[v].step # "idle" => worker[v].path # n.path
  BY <1>1 DEF FilesFit, WorkersFit
<1>4. n.step \in Locking =>
        \A v \in Workers \ {w} :
           worker[v].step \in Locking => KeysOf(worker[v]) \cap KeysOf(n) = {}
  BY DEF FilesFit, LocksApart
<1>5. QED
  BY <1>1, <1>2, <1>3, <1>4, TurnsFit

(* A worker that is done, or gives up, holds nothing.                       *)
LEMMA FinishesFit ==
  ASSUME FilesFit, NEW w \in Workers, Finishes(w), UNCHANGED <<disk, dropped, job>>
  PROVE  FilesFit'
<1>1. CASE worker[w].step = "idle"
  <2>1. /\ worker'[w] = Idle /\ Idle.step = "idle" /\ Shaped(Idle)
        /\ \A v \in Workers \ {w} : worker'[v] = worker[v]
        /\ worker' = [v \in Workers |-> worker'[v]]
    BY DEF FilesFit, WorkersFit, Finishes, Idle, Shaped
  <2>2. JobFits' /\ NothingIsLost'
    BY DEF FilesFit, JobFits, NothingIsLost
  <2>3. \A v \in Workers :
          /\ Shaped(worker'[v])
          /\ worker'[v].step # "idle" =>
                v # w /\ job.plan \in Plans /\ worker[v].path \notin job.todo
    BY <2>1 DEF FilesFit, WorkersFit
  <2>4. WorkersFit'
    BY <2>1, <2>3 DEF FilesFit, WorkersFit, Shaped
  <2>5. ASSUME NEW v \in Workers PROVE Reads(worker[v])' /\ Aims(worker[v])'
    BY <2>1 DEF FilesFit, Reads, Aims, Moving, Locking
  <2>6. LocksApart'
    BY <2>1 DEF FilesFit, LocksApart, KeysOf, Locking
  <2>7. QED
    BY <2>2, <2>4, <2>5, <2>6 DEF FilesFit
<1>2. CASE worker[w].step # "idle"
  <2>1. /\ job.plan \in Plans /\ job = [plan |-> job.plan, todo |-> job.todo]
    BY <1>2, FilesAssumption DEF FilesFit, WorkersFit, JobFits, NoJob
  <2>2. Idle.step = "idle" /\ Shaped(Idle)
    BY DEF Idle, Shaped
  <2>3. Reads(Idle) /\ Aims(Idle) /\ Idle.step \notin Locking
    BY <2>2 DEF Reads, Aims, Moving, Locking
  <2>4. worker' = [worker EXCEPT ![w] = Idle]
    BY DEF Finishes
  <2> HIDE DEF Idle
  <2>5. QED
    BY <2>1, <2>2, <2>3, <2>4, TurnsFit
<1>3. QED
  BY <1>1, <1>2

-----------------------------------------------------------------------------
(* A file is moved.                                                         *)

(* Of the disk it is enough that the file that is moved is at the target    *)
(* afterwards, or still where it was if the copy stopped, and that any      *)
(* other file keeps its content.  No other worker                           *)
(* aims at the target, because it would hold the same folder; nor does its  *)
(* copy lie where this worker takes its file away, because it would hold    *)
(* the same content.                                                        *)
LEMMA MovesFit ==
  ASSUME FilesFit, ReadsHold', NEW w \in Workers, worker[w].step \in {"placed", "copied"}, NEW n,
         worker' = [worker EXCEPT ![w] = n], Shaped(n), UNCHANGED <<dropped, job>>,
         DOMAIN disk \ {worker[w].path} \subseteq DOMAIN disk',
         DOMAIN disk' \subseteq DOMAIN disk \cup {worker[w].final},
         \A p \in DOMAIN disk \cap DOMAIN disk' :
            p # worker[w].final => disk'[p].hash = disk[p].hash,
         worker[w].final \in DOMAIN disk',
         n.step # "half" => disk'[worker[w].final].hash = worker[w].read.hash,
         n.path = worker[w].path,
         \/ n.step = "filed"
         \/ /\ n.step \in {"half", "copied"} /\ n.path \in DOMAIN disk' /\ n.final # n.path
            /\ n.read = worker[w].read /\ n.rq = worker[w].rq /\ n.final = worker[w].final
  PROVE  FilesFit'
<1> DEFINE me == worker[w]
<1>1. /\ worker'[w] = n
      /\ \A v \in Workers \ {w} : worker'[v] = worker[v]
      /\ worker' = [v \in Workers |-> worker'[v]]
  BY DEF FilesFit, WorkersFit
<1>2. me.step \in Moving /\ me.step \in Locking /\ me.step # "idle"
  BY DEF Moving, Locking
<1>3. /\ me.path \in DOMAIN disk /\ disk[me.path].hash = me.read.hash
      /\ Stable(me.rq.grouping)
      /\ Folder(me.final) = Folder(ManagedPath(me.rq.grouping))
  BY <1>2 DEF FilesFit, Reads, Aims
<1>4. JobFits'
  <2>1. me.path \notin job.todo
    BY <1>2 DEF FilesFit, WorkersFit
  <2>2. QED
    BY <2>1 DEF FilesFit, JobFits
<1>5. WorkersFit'
  <2>1. /\ n.step # "idle" /\ job'.plan \in Plans /\ n.path \notin job'.todo
        /\ \A v \in Workers \ {w} : worker[v].step # "idle" => worker[v].path # n.path
    BY <1>2 DEF FilesFit, WorkersFit
  <2>2. \A v \in Workers :
           /\ Shaped(worker'[v])
           /\ worker'[v].step # "idle" =>
                 job'.plan \in Plans /\ worker'[v].path \notin job'.todo
    BY <1>1, <2>1 DEF FilesFit, WorkersFit
  <2>3. ASSUME NEW u \in Workers, NEW v \in Workers, u # v,
               worker'[u].step # "idle", worker'[v].step # "idle"
        PROVE  worker'[u].path # worker'[v].path
    BY <1>1, <2>1, <2>3 DEF FilesFit, WorkersFit
  <2>4. QED
    BY <1>1, <2>2, <2>3 DEF WorkersFit, Shaped
<1>6. ASSUME NEW v \in Workers \ {w}, worker[v].step \in Locking
      PROVE  /\ worker[v].read.hash # me.read.hash
             /\ Stable(worker[v].rq.grouping) =>
                   Folder(ManagedPath(worker[v].rq.grouping)) # Folder(me.final)
  <2>1. Keys(worker[v].read.hash, worker[v].rq.grouping)
          \cap Keys(me.read.hash, me.rq.grouping) = {}
    BY <1>2, <1>6 DEF FilesFit, LocksApart, KeysOf
  <2>2. QED
    BY <1>3, <2>1, KeysTell
<1>7. ASSUME NEW v \in Workers PROVE Reads(worker[v])'
  <2>1. CASE v = w
    BY <1>1, <1>3, <2>1 DEF Reads, Moving, Locking
  <2>2. CASE v # w
    <3>1. SUFFICES ASSUME worker[v].step \in Moving
                   PROVE  /\ worker[v].path \in DOMAIN disk'
                          /\ disk'[worker[v].path].hash = worker[v].read.hash
      BY <1>1, <2>2 DEF Reads
    <3>2. worker[v].path \in DOMAIN disk /\ disk[worker[v].path].hash = worker[v].read.hash
      BY <3>1 DEF FilesFit, Reads
    <3>3. worker[v].path # me.path
      BY <1>2, <2>2, <3>1 DEF FilesFit, WorkersFit, Moving, Locking
    <3>4. CASE worker[v].path # me.final
      BY <3>2, <3>3, <3>4
    <3>5. CASE worker[v].path = me.final /\ worker[v].step \in Locking
      <4>1. worker[v].read.hash = me.read.hash
        BY <1>3, <3>2, <3>3, <3>5 DEF FilesFit, Aims
      <4>2. QED
        BY <1>6, <2>2, <3>5, <4>1
    <3>6. CASE worker[v].path = me.final /\ worker[v].step = "probed"
      BY <1>1, <2>2, <3>6 DEF ReadsHold
    <3>7. QED
      BY <3>1, <3>4, <3>5, <3>6 DEF Moving
  <2>3. QED
    BY <2>1, <2>2
<1>8. ASSUME NEW v \in Workers PROVE Aims(worker[v])'
  <2>1. CASE v = w
    <3>1. Aims(worker[w])
      BY DEF FilesFit
    <3>2. QED
      BY <1>1, <1>3, <2>1 DEF Aims
  <2>2. CASE v # w
    <3> DEFINE x == worker[v]
    <3>1. worker'[v] = x /\ Aims(x)
      BY <1>1, <2>2 DEF FilesFit
    <3>2. x.step \in {"placed", "half", "copied"} => x.final # me.final
      BY <1>6, <2>2, <3>1 DEF Aims, Locking
    <3>3. x.step = "placed" /\ x.final \in DOMAIN disk' /\ x.final # x.path =>
             disk'[x.final].hash = x.read.hash
      BY <3>1, <3>2 DEF Aims
    <3>4. ASSUME x.step = "copied"
          PROVE  /\ x.final # x.path /\ x.final \in DOMAIN disk'
                 /\ disk'[x.final].hash = x.read.hash
      <4>1. x.final # x.path /\ x.final \in DOMAIN disk /\ disk[x.final].hash = x.read.hash
        BY <3>1, <3>4 DEF Aims
      <4>2. x.final # me.path
        BY <1>3, <1>6, <2>2, <3>4, <4>1 DEF Locking
      <4>3. QED
        BY <3>2, <3>4, <4>1, <4>2
    <3>5. QED
      BY <3>1, <3>3, <3>4 DEF Aims
  <2>3. QED
    BY <2>1, <2>2
<1>9. LocksApart'
  <2>1. n.step \in Locking => KeysOf(n) = KeysOf(me)
    BY DEF KeysOf, Locking
  <2>2. QED
    BY <1>1, <1>2, <2>1 DEF FilesFit, LocksApart, KeysOf
<1>10. NothingIsLost'
  <2> SUFFICES ASSUME NEW c \in dropped
               PROVE  \E p \in DOMAIN disk' : disk'[p].hash = c.hash
    BY DEF NothingIsLost
  <2>1. PICK p \in DOMAIN disk : disk[p].hash = c.hash
    BY DEF FilesFit, NothingIsLost
  <2>2. c.hash = me.read.hash => \E q \in DOMAIN disk' : disk'[q].hash = c.hash
    BY <1>3
  <2>3. CASE p \in {me.path, me.final}
    BY <1>3, <2>1, <2>2, <2>3 DEF FilesFit, Aims
  <2>4. CASE p \notin {me.path, me.final}
    BY <2>1, <2>4
  <2>5. QED
    BY <2>3, <2>4
<1>11. QED
  BY <1>4, <1>5, <1>7, <1>8, <1>9, <1>10 DEF FilesFit

-----------------------------------------------------------------------------
(* The steps.                                                               *)

(* A file that is dropped lies where nothing was, and nobody works.         *)
LEMMA DropsFit == ASSUME FilesFit, NEW c \in Contents, Drops(c) PROVE FilesFit'
<1>1. /\ UNCHANGED <<job, worker>> /\ job.plan \notin Plans
      /\ \A p \in DOMAIN disk : p \in DOMAIN disk' /\ disk'[p] = disk[p]
      /\ c.at \in DOMAIN disk' /\ disk'[c.at].hash = c.hash
  BY FilesAssumption DEF Drops, NoJob, Put
<1>2. \A w \in Workers : worker[w].step = "idle"
  BY <1>1 DEF FilesFit, WorkersFit
<1>3. JobFits' /\ WorkersFit' /\ LocksApart'
  BY <1>1 DEF FilesFit, JobFits, WorkersFit, LocksApart, Shaped, KeysOf
<1>4. \A w \in Workers : Reads(worker[w])' /\ Aims(worker[w])'
  BY <1>1, <1>2 DEF Reads, Aims, Moving, Locking
<1>5. NothingIsLost'
  <2>1. ASSUME NEW d \in dropped' PROVE \E p \in DOMAIN disk' : disk'[p].hash = d.hash
    <3>1. CASE d = c
      BY <1>1, <3>1
    <3>2. CASE d # c
      <4>1. d \in dropped
        BY <3>2 DEF Drops
      <4>2. PICK p \in DOMAIN disk : disk[p].hash = d.hash
        BY <4>1 DEF FilesFit, NothingIsLost
      <4>3. QED
        BY <1>1, <4>2
    <3>3. QED
      BY <3>1, <3>2
  <2>2. QED
    BY <2>1 DEF NothingIsLost
<1>6. QED
  BY <1>3, <1>4, <1>5 DEF FilesFit

(* Nobody works when a job begins or ends.                                  *)
LEMMA JobsFit ==
  ASSUME FilesFit, Ends \/ \E plan \in Plans : Starts(plan)
  PROVE  FilesFit'
<1>1. UNCHANGED <<disk, worker, dropped>>
  BY DEF Starts, Ends
<1>2. \A w \in Workers : worker[w].step = "idle"
  <2>1. CASE Ends
    BY <2>1 DEF Ends, Idle
  <2>2. CASE \E plan \in Plans : Starts(plan)
    BY <2>2, FilesAssumption DEF Starts, NoJob, FilesFit, WorkersFit
  <2>3. QED
    BY <2>1, <2>2
<1>3. JobFits'
  <2>1. CASE Ends
    BY <2>1 DEF Ends, NoJob, JobFits
  <2>2. ASSUME NEW plan \in Plans, Starts(plan) PROVE JobFits'
    BY <2>2 DEF Starts, JobFits
  <2>3. QED
    BY <2>1, <2>2
<1>4. WorkersFit' /\ LocksApart' /\ NothingIsLost'
  BY <1>1, <1>2 DEF FilesFit, WorkersFit, LocksApart, NothingIsLost, Shaped, KeysOf
<1>5. \A w \in Workers : Reads(worker[w])' /\ Aims(worker[w])'
  BY <1>1, <1>2 DEF Reads, Aims, Moving, Locking
<1>6. QED
  BY <1>3, <1>4, <1>5 DEF FilesFit

(* The process stops: nobody works, and the disk is left as it is.          *)
LEMMA CrashesFit == ASSUME FilesFit, Crashes PROVE FilesFit'
<1>1. /\ UNCHANGED <<disk, dropped>> /\ job' = NoJob /\ NoJob.todo = {}
      /\ worker' = [w \in Workers |-> Idle]
      /\ Idle.step = "idle" /\ Shaped(Idle)
  BY DEF Crashes, NoJob, Idle, Shaped
<1> HIDE DEF Idle
<1>2. \A w \in Workers : worker'[w] = Idle
  BY <1>1
<1>3. JobFits'
  BY <1>1 DEF JobFits
<1>4. WorkersFit'
  BY <1>1, <1>2 DEF WorkersFit, Shaped
<1>5. LocksApart' /\ NothingIsLost'
  BY <1>1, <1>2 DEF FilesFit, LocksApart, NothingIsLost, KeysOf, Locking
<1>6. \A w \in Workers : Reads(worker[w])' /\ Aims(worker[w])'
  BY <1>1, <1>2 DEF Reads, Aims, Moving, Locking
<1>7. QED
  BY <1>3, <1>4, <1>5, <1>6 DEF FilesFit

(* Who takes a path off the list is the only one that has it.               *)
LEMMA ProbesFit ==
  ASSUME FilesFit, NEW w \in Workers, NEW p \in job.todo, Probes(w, p)
  PROVE  FilesFit'
<1>1. /\ UNCHANGED <<disk, dropped>> /\ p \in DOMAIN disk /\ worker[w] = Idle
      /\ job' = [job EXCEPT !.todo = @ \ {p}]
  BY DEF Probes, FilesFit, JobFits
<1>2. job.plan \in Plans /\ job = [plan |-> job.plan, todo |-> job.todo]
  BY DEF FilesFit, JobFits, NoJob
<1>3. job' = [plan |-> job.plan, todo |-> job'.todo] /\ job'.todo = job.todo \ {p}
  BY <1>1, <1>2
<1>4. ASSUME NEW row,
             worker' = [worker EXCEPT ![w] = Probed(p, disk[p], row)]
      PROVE  FilesFit'
  <2> DEFINE n == Probed(p, disk[p], row)
  <2>1. n = [step |-> "probed", path |-> p, read |-> disk[p], existing |-> row,
             rq |-> Idle.rq, final |-> Idle.final, attempt |-> Idle.attempt]
    BY ProbedRecord
  <2>2. worker' = [worker EXCEPT ![w] = n]
    BY <1>4
  <2> HIDE DEF n
  <2>3. n.step = "probed" /\ n.path = p /\ n.read = disk[p] /\ Shaped(n)
    BY <2>1 DEF Shaped
  <2>4. \A v \in Workers : worker[v].step # "idle" => worker[v].path # n.path
    BY <2>3 DEF FilesFit, WorkersFit
  <2>5. Reads(n) /\ Aims(n) /\ n.step \notin Locking
    BY <1>1, <2>3 DEF Reads, Aims, Locking
  <2>6. n.path \notin job'.todo /\ job'.todo \subseteq job.todo
    BY <1>3, <2>3
  <2>7. QED
    BY <1>1, <1>2, <1>3, <2>2, <2>3, <2>4, <2>5, <2>6, TurnsFit
<1>5. CASE UNCHANGED worker
  <2>1. JobFits'
    BY <1>1, <1>2, <1>3 DEF FilesFit, JobFits
  <2>2. WorkersFit' /\ LocksApart' /\ NothingIsLost'
    BY <1>1, <1>3, <1>5
       DEF FilesFit, WorkersFit, LocksApart, NothingIsLost, Shaped, KeysOf
  <2>3. \A v \in Workers : Reads(worker[v])' /\ Aims(worker[v])'
    BY <1>1, <1>5 DEF FilesFit, Reads, Aims
  <2>4. QED
    BY <2>1, <2>2, <2>3 DEF FilesFit
<1>6. UNCHANGED worker \/ \E row : worker' = [worker EXCEPT ![w] = Probed(p, disk[p], row)]
  BY DEF Probes, Probed
<1>7. QED
  BY <1>4, <1>5, <1>6

(* Who is given its keys is the only one that has them.                     *)
LEMMA GroupsFit ==
  ASSUME FilesFit, NEW w \in Workers, NEW answers, Groups(w, answers)
  PROVE  FilesFit'
<1> DEFINE me == worker[w]
           g == ChosenGrouping(TagsOf(me.path, me.read.hash), me.path, Rooted, answers)
           target == IF Stable(g) THEN ManagedPath(g) ELSE None
           stays == me.existing # None /\ target = me.path
           request == [path |-> IF stays THEN me.existing ELSE me.path, managed |-> target,
                       hash |-> me.read.hash, seconds |-> me.read.seconds, grouping |-> g,
                       reuse |-> job.plan.reuse, rebuild |-> ~job.plan.reuse]
           n == [me EXCEPT !.step = "locked", !.rq = request]
<1>1. /\ me.step = "probed" /\ UNCHANGED <<disk, dropped, job>>
      /\ worker' = [worker EXCEPT ![w] = n]
      /\ \A v \in Workers : Held(v) \cap Keys(me.read.hash, g) = {}
  BY DEF Groups
<1>2. request.grouping = g
  OBVIOUS
<1> HIDE DEF request
<1>3. Shaped(me)
  BY DEF FilesFit, WorkersFit
<1>4. n = [step |-> "locked", path |-> me.path, read |-> me.read,
           existing |-> me.existing, rq |-> request, final |-> me.final,
           attempt |-> me.attempt]
  BY <1>3, AskedRecord
<1> HIDE DEF n
<1>5. /\ Shaped(n) /\ n.step = "locked" /\ n.path = me.path /\ n.read = me.read
      /\ n.rq = request
  BY <1>4 DEF Shaped
<1>6. Reads(n) /\ Aims(n)
  BY <1>1, <1>5 DEF FilesFit, Reads, Aims, Moving, Locking
<1>7. ASSUME NEW v \in Workers, worker[v].step \in Locking
      PROVE  KeysOf(worker[v]) \cap KeysOf(n) = {}
  BY <1>1, <1>2, <1>5, <1>7 DEF Held, KeysOf, Locking
<1>8. job.plan \in Plans /\ job = [plan |-> job.plan, todo |-> job.todo]
  BY <1>1, FilesAssumption DEF FilesFit, WorkersFit, JobFits, NoJob
<1>9. /\ n.path \notin job.todo
      /\ \A v \in Workers \ {w} : worker[v].step # "idle" => worker[v].path # n.path
  BY <1>1, <1>5 DEF FilesFit, WorkersFit
<1>10. QED
  BY <1>1, <1>5, <1>6, <1>7, <1>8, <1>9, TurnsFit

LEMMA DecidesFit == ASSUME FilesFit, NEW w \in Workers, Decides(w) PROVE FilesFit'
<1> DEFINE me == worker[w]
           unique == Stable(me.rq.grouping) /\ Duplicates(db, me.rq) = {}
           n == [me EXCEPT !.step = IF unique THEN "unique" ELSE "filed"]
<1>1. me.step = "locked" /\ UNCHANGED <<disk, dropped, job>>
  BY DEF Decides
<1>2. CASE Finishes(w)
  BY <1>1, <1>2, FinishesFit
<1>3. CASE worker' = [worker EXCEPT ![w] = n]
  <2>1. Shaped(me)
    BY DEF FilesFit, WorkersFit
  <2>2. /\ Shaped(n) /\ n.step = (IF unique THEN "unique" ELSE "filed")
        /\ n.path = me.path /\ n.read = me.read /\ n.rq = me.rq /\ n.final = me.final
    BY <2>1 DEF Shaped
  <2> HIDE DEF n
  <2>3. Reads(n) /\ Aims(n)
    BY <1>1, <2>2 DEF FilesFit, Reads, Aims, Moving, Locking
  <2>4. me.step \in Locking /\ KeysOf(n) = KeysOf(me)
    BY <1>1, <2>2 DEF Locking, KeysOf
  <2>5. QED
    BY <1>1, <1>3, <2>2, <2>3, <2>4, WorkerTurns
<1>4. QED
  BY <1>2, <1>3 DEF Decides

LEMMA PicksTargetFits ==
  ASSUME FilesFit, EveryNameHasRoom, NEW w \in Workers, PicksTarget(w)
  PROVE  FilesFit'
<1> DEFINE me == worker[w]
           final == UniqueTarget(me.path, me.read.hash, me.rq.grouping)
           n == [me EXCEPT !.step = "placed", !.final = final]
<1>1. /\ me.step = "unique" /\ UNCHANGED <<disk, dropped, job>>
      /\ worker' = [worker EXCEPT ![w] = n]
  BY DEF PicksTarget
<1>2. /\ Folder(final) = Folder(ManagedPath(me.rq.grouping))
      /\ final \in DOMAIN disk /\ final # me.path => disk[final].hash = me.read.hash
  BY <1>1, FilesAssumption, TargetsAreSafe DEF EveryNameHasRoom
<1> HIDE DEF final
<1>3. Shaped(me)
  BY DEF FilesFit, WorkersFit
<1>4. n = [step |-> "placed", path |-> me.path, read |-> me.read,
           existing |-> me.existing, rq |-> me.rq, final |-> final,
           attempt |-> me.attempt]
  BY <1>3, AimedRecord
<1> HIDE DEF n
<1>5. /\ Shaped(n) /\ n.step = "placed" /\ n.path = me.path /\ n.read = me.read
      /\ n.rq = me.rq /\ n.final = final
  BY <1>4 DEF Shaped
<1>6. Reads(n)
  BY <1>1, <1>5 DEF FilesFit, Reads, Moving, Locking
<1>7. Aims(n)
  BY <1>1, <1>2, <1>5 DEF FilesFit, Aims
<1>8. me.step \in Locking /\ KeysOf(n) = KeysOf(me)
  BY <1>1, <1>5 DEF Locking, KeysOf
<1>9. QED
  BY <1>1, <1>5, <1>6, <1>7, <1>8, WorkerTurns

(* What the move of a worker finds at its target and at its path.           *)
LEMMA MovesFind ==
  ASSUME FilesFit, NEW w \in Workers, worker[w].step \in {"placed", "copied"}
  PROVE  LET me == worker[w]
         IN  /\ me.path \in DOMAIN disk /\ disk[me.path].hash = me.read.hash
             /\ me.final \in DOMAIN disk /\ me.final # me.path =>
                   disk[me.final].hash = me.read.hash
             /\ me.step = "copied" => me.final # me.path /\ me.final \in DOMAIN disk
             /\ Shaped(me)
BY DEF FilesFit, WorkersFit, Reads, Aims, Moving, Locking

LEMMA RenamesFit ==
  ASSUME FilesFit, ReadsHold', NEW w \in Workers, Renames(w)
  PROVE  FilesFit'
<1> DEFINE me == worker[w]
<1>1. /\ me.step \in {"placed", "copied"} /\ UNCHANGED <<dropped, job>>
      /\ worker' = [worker EXCEPT ![w] = Filed(me)]
      /\ disk' = Put(Removed(me.path), me.final, disk[me.path])
  BY DEF Renames
<1>2. /\ me.path \in DOMAIN disk /\ disk[me.path].hash = me.read.hash
      /\ me.final \in DOMAIN disk /\ me.final # me.path => disk[me.final].hash = me.read.hash
  BY <1>1, MovesFind
<1>3. /\ DOMAIN disk' = (DOMAIN disk \ {me.path}) \cup {me.final}
      /\ \A p \in DOMAIN disk' : disk'[p] = IF p = me.final THEN disk[me.path] ELSE disk[p]
  BY <1>1 DEF Put, Removed
<1>4. Filed(me).step = "filed" /\ Filed(me).path = me.path /\ Shaped(Filed(me))
  BY <1>1, MovesFind, FiledIsShaped
<1>5. \A p \in DOMAIN disk \cap DOMAIN disk' : disk'[p].hash = disk[p].hash
  BY <1>2, <1>3
<1>6. me.final \in DOMAIN disk' /\ disk'[me.final].hash = me.read.hash
  BY <1>2, <1>3
<1>7. QED
  BY <1>1, <1>3, <1>4, <1>5, <1>6, MovesFit

LEMMA CopiesFit ==
  ASSUME FilesFit, ReadsHold', NEW w \in Workers, Copies(w)
  PROVE  FilesFit'
<1> DEFINE me == worker[w]
           n == [me EXCEPT !.step = "copied"]
<1>1. /\ me.step \in {"placed", "copied"} /\ UNCHANGED <<dropped, job>>
      /\ worker' = [worker EXCEPT ![w] = n]
      /\ me.path # me.final
      /\ disk' = Put(disk, me.final, disk[me.path])
  BY DEF Copies
<1>2. /\ me.path \in DOMAIN disk /\ disk[me.path].hash = me.read.hash /\ Shaped(me)
      /\ me.final \in DOMAIN disk /\ me.final # me.path => disk[me.final].hash = me.read.hash
  BY <1>1, MovesFind
<1>3. /\ DOMAIN disk' = DOMAIN disk \cup {me.final}
      /\ \A p \in DOMAIN disk' : disk'[p] = IF p = me.final THEN disk[me.path] ELSE disk[p]
  BY <1>1 DEF Put
<1>4. /\ Shaped(n) /\ n.step = "copied" /\ n.path = me.path /\ n.read = me.read
      /\ n.rq = me.rq /\ n.final = me.final
  BY <1>2 DEF Shaped
<1> HIDE DEF n
<1>5. \A p \in DOMAIN disk \cap DOMAIN disk' : disk'[p].hash = disk[p].hash
  BY <1>1, <1>2, <1>3
<1>6. me.final \in DOMAIN disk' /\ disk'[me.final].hash = me.read.hash
  BY <1>2, <1>3
<1>7. QED
  BY <1>1, <1>2, <1>3, <1>4, <1>5, <1>6, MovesFit

LEMMA RemovesFit ==
  ASSUME FilesFit, ReadsHold', NEW w \in Workers, Removes(w)
  PROVE  FilesFit'
<1> DEFINE me == worker[w]
<1>1. /\ me.step = "copied" /\ UNCHANGED <<dropped, job>>
      /\ worker' = [worker EXCEPT ![w] = Filed(me)]
      /\ disk' = Removed(me.path)
  BY DEF Removes
<1>2. /\ me.final \in DOMAIN disk /\ me.final # me.path
      /\ disk[me.final].hash = me.read.hash
  BY <1>1, MovesFind
<1>3. /\ DOMAIN disk' = DOMAIN disk \ {me.path}
      /\ \A p \in DOMAIN disk' : disk'[p] = disk[p]
  BY <1>1 DEF Removed
<1>4. Filed(me).step = "filed" /\ Filed(me).path = me.path /\ Shaped(Filed(me))
  BY <1>1, MovesFind, FiledIsShaped
<1>5. QED
  BY <1>1, <1>2, <1>3, <1>4, MovesFit

LEMMA CopyStopsFits ==
  ASSUME FilesFit, ReadsHold', NEW w \in Workers, CopyStops(w)
  PROVE  FilesFit'
<1> DEFINE me == worker[w]
           n == [me EXCEPT !.step = "half"]
<1>1. PICK part \in Halves[disk[me.path].hash] : disk' = Put(disk, me.final, part)
  BY DEF CopyStops
<1>2. /\ me.step \in {"placed", "copied"} /\ UNCHANGED <<dropped, job>>
      /\ worker' = [worker EXCEPT ![w] = n]
      /\ me.path # me.final
  BY DEF CopyStops
<1>3. me.path \in DOMAIN disk /\ Shaped(me)
  BY <1>2, MovesFind
<1>4. /\ DOMAIN disk' = DOMAIN disk \cup {me.final}
      /\ \A p \in DOMAIN disk' : p # me.final => disk'[p] = disk[p]
  BY <1>1 DEF Put
<1>5. /\ Shaped(n) /\ n.step = "half" /\ n.path = me.path /\ n.read = me.read
      /\ n.rq = me.rq /\ n.final = me.final
  BY <1>3 DEF Shaped
<1> HIDE DEF n
<1>6. QED
  BY <1>2, <1>3, <1>4, <1>5, MovesFit

(* The next attempt starts where this one did: its file is still there.     *)
LEMMA TriesAgainFits ==
  ASSUME FilesFit, NEW w \in Workers, TriesAgain(w)
  PROVE  FilesFit'
<1> DEFINE me == worker[w]
           n == [me EXCEPT !.step = "unique", !.final = NoPath, !.attempt = @ + 1]
<1>1. /\ me.step \in {"placed", "half", "copied"} /\ UNCHANGED <<disk, dropped, job>>
      /\ worker' = [worker EXCEPT ![w] = n]
  BY DEF TriesAgain, AttemptFails
<1>2. Shaped(me)
  BY DEF FilesFit, WorkersFit
<1>3. /\ Shaped(n) /\ n.step = "unique" /\ n.path = me.path /\ n.read = me.read
      /\ n.rq = me.rq
  BY <1>2, RetriedRecord
<1> HIDE DEF n
<1>4. Reads(n)
  BY <1>1, <1>3 DEF FilesFit, Reads, Moving, Locking
<1>5. Aims(n)
  BY <1>1, <1>3 DEF FilesFit, Aims
<1>6. me.step # "idle" /\ me.step \in Locking /\ KeysOf(n) = KeysOf(me)
  BY <1>1, <1>3 DEF Locking, KeysOf
<1>7. QED
  BY <1>1, <1>3, <1>4, <1>5, <1>6, WorkerTurns

(* The other steps of a worker end its import.                              *)
LEMMA EndingsFit ==
  ASSUME FilesFit, NEW w \in Workers,
         ProviderFails(w) \/ MoveFails(w) \/ FilesImport(w) \/ ImportFails(w)
  PROVE  FilesFit'
<1>1. Finishes(w) /\ UNCHANGED <<disk, dropped, job>>
  BY DEF ProviderFails, MoveFails, FilesImport, ImportFails
<1>2. QED
  BY <1>1, FinishesFit

LEMMA FilesStepsFit ==
  ASSUME FilesFit, EveryNameHasRoom, ReadsHold', [Next]_vars
  PROVE  FilesFit'
<1>1. ASSUME NEW c \in Contents, Drops(c) PROVE FilesFit'
  BY <1>1, DropsFit
<1>2. CASE Ends \/ \E plan \in Plans : Starts(plan)
  BY <1>2, JobsFit
<1>3. ASSUME NEW w \in Workers, NEW p \in job.todo, Probes(w, p) PROVE FilesFit'
  BY <1>3, ProbesFit
<1>4. ASSUME NEW w \in Workers, NEW a, Groups(w, a) PROVE FilesFit'
  BY <1>4, GroupsFit
<1>5. ASSUME NEW w \in Workers, Decides(w) PROVE FilesFit'
  BY <1>5, DecidesFit
<1>6. ASSUME NEW w \in Workers, PicksTarget(w) PROVE FilesFit'
  BY <1>6, PicksTargetFits
<1>7. ASSUME NEW w \in Workers, Renames(w) \/ Copies(w) \/ Removes(w) PROVE FilesFit'
  BY <1>7, RenamesFit, CopiesFit, RemovesFit
<1>8. ASSUME NEW w \in Workers,
             ProviderFails(w) \/ MoveFails(w) \/ FilesImport(w) \/ ImportFails(w)
      PROVE  FilesFit'
  BY <1>8, EndingsFit
<1>9. CASE Crashes
  BY <1>9, CrashesFit
<1>10. ASSUME NEW w \in Workers, CopyStops(w) \/ TriesAgain(w) PROVE FilesFit'
  BY <1>10, CopyStopsFits, TriesAgainFits
<1>11. CASE UNCHANGED vars
  BY <1>11 DEF vars, FilesFit, JobFits, WorkersFit, Reads, Aims, LocksApart, NothingIsLost,
               Shaped, KeysOf
<1>12. QED
  BY <1>1, <1>2, <1>3, <1>4, <1>5, <1>6, <1>7, <1>8, <1>9, <1>10, <1>11 DEF Next, Steps

LEMMA FilesStartFit == Init => FilesFit
<1> SUFFICES ASSUME Init PROVE FilesFit
  OBVIOUS
<1>1. /\ DOMAIN disk = {} /\ job = NoJob /\ job.todo = {} /\ dropped = {}
      /\ worker = [w \in Workers |-> Idle]
      /\ Idle.step = "idle" /\ Shaped(Idle)
  BY DEF Init, NoJob, Idle, Shaped
<1> HIDE DEF Idle
<1>2. \A w \in Workers : worker[w] = Idle
  BY <1>1
<1>3. QED
  BY <1>1, <1>2 DEF FilesFit, JobFits, WorkersFit, Reads, Aims, LocksApart, NothingIsLost,
                    Moving, Locking

(* As long as a file that has to be given another name finds one, and what  *)
(* was read is still there when its keys are given, no import loses what    *)
(* somebody dropped, whatever overlaps, fails, is tried again or stops.     *)
THEOREM ImportsLoseNothing == Spec /\ []EveryNameHasRoom /\ []ReadsHold => []NothingIsLost
<1>1. FilesFit /\ EveryNameHasRoom /\ ReadsHold' /\ [Next]_vars => FilesFit'
  BY FilesStepsFit
<1>2. FilesFit => NothingIsLost
  BY DEF FilesFit
<1>3. QED
  BY <1>1, <1>2, FilesStartFit, PTL DEF Spec

-----------------------------------------------------------------------------
(* What a worker asks of the catalog, and where its file is by then.        *)

Filing == Locking \cup {"filed"}

(* The request names the managed path of the grouping, or, once the file    *)
(* has been moved, the path it was moved to.                                *)
Requested(x) ==
  /\ x.rq = [path |-> x.rq.path, managed |-> x.rq.managed, hash |-> x.rq.hash,
             seconds |-> x.rq.seconds, grouping |-> x.rq.grouping,
             reuse |-> x.rq.reuse, rebuild |-> x.rq.rebuild]
  /\ x.rq.hash = x.read.hash
  /\ x.rq.managed =
        IF x.step = "filed" /\ x.final # NoPath THEN x.final
        ELSE IF Stable(x.rq.grouping) THEN ManagedPath(x.rq.grouping) ELSE None

Goes(x) ==
  /\ x.step \in {"idle", "probed", "locked", "unique"} => x.final = NoPath
  /\ x.step \in {"placed", "half", "copied"} => Root(x.final) = "library"
  /\ x.step = "filed" => x.final = NoPath \/ Root(x.final) = "library"
  /\ x.step \in Filing => Requested(x)

(* What a worker is about to file has its content on the disk.              *)
Resting(x) == IF x.final = NoPath THEN x.path ELSE x.final

Rests(x) ==
  x.step = "filed" => Resting(x) \in DOMAIN disk /\ disk[Resting(x)].hash = x.read.hash

(* The keys are held until the catalog has answered.                        *)
FilingApart ==
  \A v, w \in Workers :
     v # w /\ worker[v].step \in Filing /\ worker[w].step \in Filing =>
         KeysOf(worker[v]) \cap KeysOf(worker[w]) = {}

RequestsFit ==
  /\ \A w \in Workers : Goes(worker[w]) /\ Rests(worker[w])
  /\ FilingApart

(* The managed paths are in the library.                                    *)
LEMMA ManagedInLibrary ==
  ASSUME NEW g, NEW n
  PROVE  Root(ManagedPath(g)) = "library" /\ Root(CopyOf(ManagedPath(g), n)) = "library"
<1> DEFINE p == ManagedPath(g)
           q == CopyOf(p, n)
<1>1. DOMAIN p = 1..4 /\ p[1] = "library"
  BY DEF ManagedPath
<1>2. q[1] = p[1]
  BY <1>1 DEF CopyOf
<1>3. QED
  BY <1>1, <1>2 DEF Root

LEMMA TargetsInLibrary ==
  ASSUME NEW path, NEW hash, NEW g
  PROVE  Root(UniqueTarget(path, hash, g)) = "library"
BY ManagedInLibrary DEF UniqueTarget

LEMMA NoPathIsNowhere == Root(NoPath) = "nowhere"
BY DEF Root, NoPath

(* A worker goes on, and the disk is left as it is.                         *)
LEMMA TurnsAsk ==
  ASSUME FilesFit, RequestsFit, NEW w \in Workers, NEW n,
         worker' = [worker EXCEPT ![w] = n], UNCHANGED disk,
         Goes(n), Rests(n),
         n.step \in Filing =>
            \A v \in Workers \ {w} :
               worker[v].step \in Filing => KeysOf(worker[v]) \cap KeysOf(n) = {}
  PROVE  RequestsFit'
<1>1. worker'[w] = n /\ \A v \in Workers \ {w} : worker'[v] = worker[v]
  BY DEF FilesFit, WorkersFit
<1>2. ASSUME NEW v \in Workers PROVE Goes(worker[v])' /\ Rests(worker[v])'
  <2>1. Goes(worker'[v])
    BY <1>1 DEF RequestsFit
  <2>2. Rests(worker[v])'
    BY <1>1 DEF RequestsFit, Rests, Resting
  <2>3. QED
    BY <2>1, <2>2 DEF Goes, Requested
<1>3. FilingApart'
  BY <1>1 DEF RequestsFit, FilingApart, KeysOf
<1>4. QED
  BY <1>2, <1>3 DEF RequestsFit

(* A worker that has its keys goes on with the same request.                *)
LEMMA KeepsAsking ==
  ASSUME FilesFit, RequestsFit, NEW w \in Workers, worker[w].step \in Filing, NEW n,
         worker' = [worker EXCEPT ![w] = n], UNCHANGED disk,
         Goes(n), Rests(n), n.step \in Filing => KeysOf(n) = KeysOf(worker[w])
  PROVE  RequestsFit'
<1>1. n.step \in Filing =>
        \A v \in Workers \ {w} :
           worker[v].step \in Filing => KeysOf(worker[v]) \cap KeysOf(n) = {}
  BY DEF RequestsFit, FilingApart
<1>2. QED
  BY <1>1, TurnsAsk

LEMMA FinishesAsking ==
  ASSUME FilesFit, RequestsFit, NEW w \in Workers, Finishes(w), UNCHANGED disk
  PROVE  RequestsFit'
<1>1. worker' = [worker EXCEPT ![w] = Idle]
  BY DEF Finishes
<1>2. Idle.step = "idle" /\ Idle.final = NoPath
  BY DEF Idle
<1> HIDE DEF Idle
<1>3. Goes(Idle) /\ Rests(Idle) /\ Idle.step \notin Filing
  BY <1>2 DEF Goes, Rests, Filing, Locking
<1>4. QED
  BY <1>1, <1>3, TurnsAsk

(* A move leaves what the others are about to file: it has other content    *)
(* than what lies where the file comes from and where it goes.              *)
LEMMA MovesLeave ==
  ASSUME FilesFit, RequestsFit, NEW w \in Workers, worker[w].step \in {"placed", "copied"},
         NEW n, worker' = [worker EXCEPT ![w] = n],
         DOMAIN disk \ {worker[w].path} \subseteq DOMAIN disk',
         \A p \in DOMAIN disk \cap DOMAIN disk' :
            p # worker[w].final => disk'[p].hash = disk[p].hash,
         Goes(n), n.step = "filed" => n.final # NoPath,
         worker[w].final \in DOMAIN disk',
         n.step = "filed" => disk'[worker[w].final].hash = n.read.hash,
         n.final = worker[w].final, KeysOf(n) = KeysOf(worker[w])
  PROVE  RequestsFit'
<1> DEFINE me == worker[w]
<1>1. worker'[w] = n /\ \A v \in Workers \ {w} : worker'[v] = worker[v]
  BY DEF FilesFit, WorkersFit
<1>2. disk[me.path].hash = me.read.hash /\ me.step \in Filing
  BY DEF FilesFit, Reads, Moving, Locking, Filing
<1>3. ASSUME NEW v \in Workers PROVE Goes(worker[v])'
  <2>1. Goes(worker'[v])
    BY <1>1 DEF RequestsFit
  <2>2. QED
    BY <2>1 DEF Goes, Requested
<1>4. ASSUME NEW v \in Workers PROVE Rests(worker[v])'
  <2>1. CASE v = w
    BY <1>1, <2>1 DEF Rests, Resting
  <2>2. CASE v # w
    <3> DEFINE x == worker[v]
    <3>1. SUFFICES ASSUME x.step = "filed"
                   PROVE  /\ Resting(x) \in DOMAIN disk'
                          /\ disk'[Resting(x)].hash = x.read.hash
      BY <1>1, <2>2 DEF Rests, Resting
    <3>2. Resting(x) \in DOMAIN disk /\ disk[Resting(x)].hash = x.read.hash
      BY <3>1 DEF RequestsFit, Rests
    <3>3. KeysOf(x) \cap KeysOf(me) = {}
      BY <1>2, <2>2, <3>1 DEF RequestsFit, FilingApart, Filing
    <3>4. x.read.hash # me.read.hash
      BY <3>3, KeysTell DEF KeysOf
    <3>5. Resting(x) # me.path
      BY <1>2, <3>2, <3>4
    <3>6. Resting(x) # me.final
      BY <3>2, <3>4, <3>5 DEF FilesFit, Aims
    <3>7. QED
      BY <3>2, <3>5, <3>6
  <2>3. QED
    BY <2>1, <2>2
<1>5. FilingApart'
  <2>1. \A v \in Workers \ {w} :
           worker[v].step \in Filing =>
              KeysOf(worker[v]) \cap KeysOf(n) = {} /\ KeysOf(n) \cap KeysOf(worker[v]) = {}
    BY <1>2 DEF RequestsFit, FilingApart
  <2>2. QED
    BY <1>1, <2>1 DEF RequestsFit, FilingApart, KeysOf
<1>6. QED
  BY <1>3, <1>4, <1>5 DEF RequestsFit

(* The catalog is told the path the file was moved to.                      *)
LEMMA FiledAsks ==
  ASSUME NEW x, Shaped(x), Goes(x), x.step \in {"placed", "copied"}
  PROVE  /\ Goes(Filed(x)) /\ KeysOf(Filed(x)) = KeysOf(x)
         /\ Filed(x).step = "filed" /\ Filed(x).read = x.read /\ Filed(x).final = x.final
         /\ Filed(x).final # NoPath
<1> DEFINE rq == [x.rq EXCEPT !.managed = x.final]
<1>1. Filed(x) = [step |-> "filed", path |-> x.path, read |-> x.read,
                  existing |-> x.existing, rq |-> rq, final |-> x.final,
                  attempt |-> x.attempt]
  BY FiledRecord
<1>2. Requested(x) /\ Root(x.final) = "library"
  BY DEF Goes, Filing, Locking
<1>3. rq = [path |-> x.rq.path, managed |-> x.final, hash |-> x.rq.hash,
            seconds |-> x.rq.seconds, grouping |-> x.rq.grouping,
            reuse |-> x.rq.reuse, rebuild |-> x.rq.rebuild]
  BY <1>2 DEF Requested
<1> HIDE DEF rq
<1>4. x.final # NoPath
  BY <1>2, NoPathIsNowhere
<1>5. Requested(Filed(x)) /\ KeysOf(Filed(x)) = KeysOf(x)
  BY <1>1, <1>2, <1>3, <1>4 DEF Requested, KeysOf
<1>6. QED
  BY <1>1, <1>2, <1>4, <1>5 DEF Goes

LEMMA ProbesAsk ==
  ASSUME FilesFit, RequestsFit, NEW w \in Workers, NEW p \in job.todo, Probes(w, p)
  PROVE  RequestsFit'
<1>1. UNCHANGED disk
  BY DEF Probes
<1>2. ASSUME NEW row, worker' = [worker EXCEPT ![w] = Probed(p, disk[p], row)]
      PROVE  RequestsFit'
  <2> DEFINE n == Probed(p, disk[p], row)
  <2>1. n.step = "probed" /\ n.final = Idle.final
    BY ProbedRecord
  <2>2. worker' = [worker EXCEPT ![w] = n] /\ n.final = NoPath
    BY <1>2, <2>1 DEF Idle
  <2> HIDE DEF n
  <2>3. Goes(n) /\ Rests(n) /\ n.step \notin Filing
    BY <2>1, <2>2 DEF Goes, Rests, Filing, Locking
  <2>4. QED
    BY <1>1, <2>2, <2>3, TurnsAsk
<1>3. CASE UNCHANGED worker
  BY <1>1, <1>3 DEF RequestsFit, FilingApart, KeysOf, Goes, Requested, Rests, Resting
<1>4. UNCHANGED worker \/ \E row : worker' = [worker EXCEPT ![w] = Probed(p, disk[p], row)]
  BY DEF Probes, Probed
<1>5. QED
  BY <1>2, <1>3, <1>4

LEMMA GroupsAsk ==
  ASSUME FilesFit, RequestsFit, NEW w \in Workers, NEW answers, Groups(w, answers)
  PROVE  RequestsFit'
<1> DEFINE me == worker[w]
           g == ChosenGrouping(TagsOf(me.path, me.read.hash), me.path, Rooted, answers)
           target == IF Stable(g) THEN ManagedPath(g) ELSE None
           stays == me.existing # None /\ target = me.path
           request == [path |-> IF stays THEN me.existing ELSE me.path, managed |-> target,
                       hash |-> me.read.hash, seconds |-> me.read.seconds, grouping |-> g,
                       reuse |-> job.plan.reuse, rebuild |-> ~job.plan.reuse]
           n == [me EXCEPT !.step = "locked", !.rq = request]
<1>1. /\ me.step = "probed" /\ UNCHANGED disk
      /\ worker' = [worker EXCEPT ![w] = n]
      /\ \A v \in Workers : Held(v) \cap Keys(me.read.hash, g) = {}
  BY DEF Groups
<1>2. Shaped(me) /\ me.final = NoPath
  BY <1>1 DEF FilesFit, WorkersFit, RequestsFit, Goes
<1> HIDE DEF g, stays
<1>3. /\ request.grouping = g /\ request.hash = me.read.hash
      /\ request.managed = IF Stable(g) THEN ManagedPath(g) ELSE None
      /\ request = [path |-> request.path, managed |-> request.managed,
                    hash |-> request.hash, seconds |-> request.seconds,
                    grouping |-> request.grouping, reuse |-> request.reuse,
                    rebuild |-> request.rebuild]
  OBVIOUS
<1> HIDE DEF request
<1>4. n = [step |-> "locked", path |-> me.path, read |-> me.read,
           existing |-> me.existing, rq |-> request, final |-> me.final,
           attempt |-> me.attempt]
  BY <1>2, AskedRecord
<1> HIDE DEF n
<1>5. n.step = "locked" /\ n.read = me.read /\ n.rq = request /\ n.final = NoPath
  BY <1>2, <1>4
<1>6. Requested(n)
  BY <1>3, <1>5 DEF Requested
<1>7. Goes(n) /\ Rests(n)
  BY <1>5, <1>6 DEF Goes, Rests
<1>8. ASSUME NEW v \in Workers, worker[v].step \in Filing
      PROVE  KeysOf(worker[v]) \cap KeysOf(n) = {}
  BY <1>1, <1>3, <1>5, <1>8 DEF Held, KeysOf, Filing, Locking
<1>9. QED
  BY <1>1, <1>7, <1>8, TurnsAsk

LEMMA DecidesAsks ==
  ASSUME FilesFit, RequestsFit, NEW w \in Workers, Decides(w)
  PROVE  RequestsFit'
<1> DEFINE me == worker[w]
           unique == Stable(me.rq.grouping) /\ Duplicates(db, me.rq) = {}
           n == [me EXCEPT !.step = IF unique THEN "unique" ELSE "filed"]
<1>1. me.step = "locked" /\ me.step \in Filing /\ UNCHANGED disk
  BY DEF Decides, Filing, Locking
<1>2. CASE Finishes(w)
  BY <1>1, <1>2, FinishesAsking
<1>3. CASE worker' = [worker EXCEPT ![w] = n]
  <2>1. Shaped(me) /\ Goes(me) /\ Requested(me) /\ me.final = NoPath
    BY <1>1 DEF FilesFit, WorkersFit, RequestsFit, Goes
  <2>2. /\ n.step = (IF unique THEN "unique" ELSE "filed")
        /\ n.path = me.path /\ n.read = me.read /\ n.rq = me.rq /\ n.final = NoPath
    BY <2>1 DEF Shaped
  <2> HIDE DEF n
  <2>3. me.path \in DOMAIN disk /\ disk[me.path].hash = me.read.hash
    BY <1>1 DEF FilesFit, Reads, Moving, Locking
  <2>4. Requested(n)
    BY <2>1, <2>2 DEF Requested
  <2>5. Goes(n) /\ Rests(n) /\ KeysOf(n) = KeysOf(me)
    BY <2>2, <2>3, <2>4 DEF Goes, Rests, Resting, KeysOf
  <2>6. QED
    BY <1>1, <1>3, <2>5, KeepsAsking
<1>4. QED
  BY <1>2, <1>3 DEF Decides

LEMMA PicksTargetAsks ==
  ASSUME FilesFit, RequestsFit, NEW w \in Workers, PicksTarget(w)
  PROVE  RequestsFit'
<1> DEFINE me == worker[w]
           final == UniqueTarget(me.path, me.read.hash, me.rq.grouping)
           n == [me EXCEPT !.step = "placed", !.final = final]
<1>1. /\ me.step = "unique" /\ me.step \in Filing /\ UNCHANGED disk
      /\ worker' = [worker EXCEPT ![w] = n]
  BY DEF PicksTarget, Filing, Locking
<1>2. Root(final) = "library"
  BY TargetsInLibrary
<1> HIDE DEF final
<1>3. Shaped(me) /\ Requested(me)
  BY <1>1 DEF FilesFit, WorkersFit, RequestsFit, Goes
<1>4. n = [step |-> "placed", path |-> me.path, read |-> me.read,
           existing |-> me.existing, rq |-> me.rq, final |-> final,
           attempt |-> me.attempt]
  BY <1>3, AimedRecord
<1> HIDE DEF n
<1>5. n.step = "placed" /\ n.read = me.read /\ n.rq = me.rq /\ n.final = final
  BY <1>4
<1>6. Requested(n)
  BY <1>1, <1>3, <1>5 DEF Requested
<1>7. Goes(n) /\ Rests(n) /\ KeysOf(n) = KeysOf(me)
  BY <1>2, <1>5, <1>6 DEF Goes, Rests, KeysOf
<1>8. QED
  BY <1>1, <1>7, KeepsAsking

LEMMA MovesAsk ==
  ASSUME FilesFit, RequestsFit, NEW w \in Workers,
         Renames(w) \/ Copies(w) \/ Removes(w) \/ CopyStops(w)
  PROVE  RequestsFit'
<1> DEFINE me == worker[w]
<1>1. me.step \in {"placed", "copied"}
  BY DEF Renames, Copies, Removes, CopyStops
<1>2. /\ me.path \in DOMAIN disk /\ disk[me.path].hash = me.read.hash /\ Shaped(me)
      /\ me.final \in DOMAIN disk /\ me.final # me.path => disk[me.final].hash = me.read.hash
      /\ me.step = "copied" => me.final # me.path /\ me.final \in DOMAIN disk
  BY <1>1, MovesFind
<1>3. Goes(me) /\ Requested(me) /\ Root(me.final) = "library"
  BY <1>1 DEF RequestsFit, Goes, Filing, Locking
<1>4. /\ Goes(Filed(me)) /\ KeysOf(Filed(me)) = KeysOf(me)
      /\ Filed(me).read = me.read /\ Filed(me).final = me.final /\ Filed(me).final # NoPath
  BY <1>1, <1>2, <1>3, FiledAsks
<1>5. ASSUME Renames(w) PROVE RequestsFit'
  <2>1. worker' = [worker EXCEPT ![w] = Filed(me)]
    BY <1>5 DEF Renames
  <2>2. /\ DOMAIN disk' = (DOMAIN disk \ {me.path}) \cup {me.final}
        /\ \A p \in DOMAIN disk' : disk'[p] = IF p = me.final THEN disk[me.path] ELSE disk[p]
    BY <1>5 DEF Renames, Put, Removed
  <2>3. /\ \A p \in DOMAIN disk \cap DOMAIN disk' : disk'[p].hash = disk[p].hash
        /\ me.final \in DOMAIN disk' /\ disk'[me.final].hash = me.read.hash
    BY <1>2, <2>2
  <2>4. QED
    BY <1>1, <1>4, <2>1, <2>2, <2>3, MovesLeave
<1>6. ASSUME Copies(w) PROVE RequestsFit'
  <2> DEFINE n == [me EXCEPT !.step = "copied"]
  <2>1. worker' = [worker EXCEPT ![w] = n]
    BY <1>6 DEF Copies
  <2>2. /\ DOMAIN disk' = DOMAIN disk \cup {me.final}
        /\ \A p \in DOMAIN disk' : disk'[p] = IF p = me.final THEN disk[me.path] ELSE disk[p]
    BY <1>6 DEF Copies, Put
  <2>3. n.step = "copied" /\ n.read = me.read /\ n.rq = me.rq /\ n.final = me.final
    BY <1>2 DEF Shaped
  <2> HIDE DEF n
  <2>4. Requested(n)
    BY <1>1, <1>3, <2>3 DEF Requested
  <2>5. Goes(n) /\ KeysOf(n) = KeysOf(me)
    BY <1>3, <2>3, <2>4 DEF Goes, KeysOf
  <2>6. /\ \A p \in DOMAIN disk \cap DOMAIN disk' : disk'[p].hash = disk[p].hash
        /\ me.final \in DOMAIN disk' /\ disk'[me.final].hash = n.read.hash
    BY <1>2, <2>2, <2>3
  <2>7. QED
    BY <1>1, <2>1, <2>2, <2>3, <2>5, <2>6, MovesLeave
<1>7. ASSUME Removes(w) PROVE RequestsFit'
  <2>1. worker' = [worker EXCEPT ![w] = Filed(me)] /\ me.step = "copied"
    BY <1>7 DEF Removes
  <2>2. /\ DOMAIN disk' = DOMAIN disk \ {me.path}
        /\ \A p \in DOMAIN disk' : disk'[p] = disk[p]
    BY <1>7 DEF Removes, Removed
  <2>3. me.final \in DOMAIN disk' /\ disk'[me.final].hash = me.read.hash
    BY <1>2, <2>1, <2>2
  <2>4. QED
    BY <1>1, <1>4, <2>1, <2>2, <2>3, MovesLeave
<1>8. ASSUME CopyStops(w) PROVE RequestsFit'
  <2> DEFINE n == [me EXCEPT !.step = "half"]
  <2>1. worker' = [worker EXCEPT ![w] = n]
    BY <1>8 DEF CopyStops
  <2>2. PICK part \in Halves[disk[me.path].hash] : disk' = Put(disk, me.final, part)
    BY <1>8 DEF CopyStops
  <2>3. /\ DOMAIN disk' = DOMAIN disk \cup {me.final}
        /\ \A p \in DOMAIN disk' : p # me.final => disk'[p] = disk[p]
    BY <2>2 DEF Put
  <2>4. n.step = "half" /\ n.read = me.read /\ n.rq = me.rq /\ n.final = me.final
    BY <1>2 DEF Shaped
  <2> HIDE DEF n
  <2>5. Requested(n)
    BY <1>1, <1>3, <2>4 DEF Requested
  <2>6. Goes(n) /\ KeysOf(n) = KeysOf(me)
    BY <1>3, <2>4, <2>5 DEF Goes, KeysOf
  <2>7. QED
    BY <1>1, <2>1, <2>3, <2>4, <2>6, MovesLeave
<1>9. QED
  BY <1>5, <1>6, <1>7, <1>8

(* The next attempt asks for what the first did.                            *)
LEMMA TriesAgainAsks ==
  ASSUME FilesFit, RequestsFit, NEW w \in Workers, TriesAgain(w)
  PROVE  RequestsFit'
<1> DEFINE me == worker[w]
           n == [me EXCEPT !.step = "unique", !.final = NoPath, !.attempt = @ + 1]
<1>1. /\ me.step \in {"placed", "half", "copied"} /\ UNCHANGED disk
      /\ worker' = [worker EXCEPT ![w] = n]
  BY DEF TriesAgain, AttemptFails
<1>2. Shaped(me) /\ me.step \in Filing
  BY <1>1 DEF FilesFit, WorkersFit, Filing, Locking
<1>3. n.step = "unique" /\ n.final = NoPath /\ n.read = me.read /\ n.rq = me.rq
  BY <1>2, RetriedRecord
<1> HIDE DEF n
<1>4. Requested(n)
  BY <1>1, <1>2, <1>3 DEF RequestsFit, Goes, Requested
<1>5. Goes(n) /\ Rests(n) /\ KeysOf(n) = KeysOf(me)
  BY <1>3, <1>4 DEF Goes, Rests, KeysOf
<1>6. QED
  BY <1>1, <1>2, <1>5, KeepsAsking

(* Where nobody works, nothing is asked.                                    *)
LEMMA NobodyAsks ==
  ASSUME \A w \in Workers : worker[w] = Idle
  PROVE  RequestsFit
<1>1. Idle.step = "idle" /\ Idle.final = NoPath
  BY DEF Idle
<1> HIDE DEF Idle
<1>2. QED
  BY <1>1 DEF RequestsFit, Goes, Rests, FilingApart, Filing, Locking

(* Nobody works when a file is dropped, or a job begins.                    *)
LEMMA JobsWait ==
  ASSUME FilesFit, job = NoJob
  PROVE  \A w \in Workers : worker[w].step = "idle"
BY FilesAssumption DEF FilesFit, WorkersFit, NoJob

LEMMA QuietAsks ==
  ASSUME FilesFit, RequestsFit,
         \/ \E c \in Contents : Drops(c)
         \/ \E plan \in Plans : Starts(plan)
         \/ Ends
         \/ Crashes
  PROVE  RequestsFit'
<1>1. CASE Crashes
  <2>1. worker' = [w \in Workers |-> Idle] /\ Idle.step = "idle" /\ Idle.final = NoPath
    BY <1>1 DEF Crashes, Idle
  <2> HIDE DEF Idle
  <2>2. QED
    BY <2>1 DEF RequestsFit, Goes, Rests, FilingApart, Filing, Locking
<1>2. CASE Ends \/ (\E c \in Contents : Drops(c)) \/ (\E plan \in Plans : Starts(plan))
  <2>1. UNCHANGED worker
    BY <1>2 DEF Ends, Drops, Starts
  <2>2. \A w \in Workers : worker[w].step = "idle"
    <3>1. CASE Ends
      BY <3>1 DEF Ends, Idle
    <3>2. CASE job = NoJob
      BY <3>2, JobsWait
    <3>3. QED
      BY <1>2, <3>1, <3>2 DEF Drops, Starts
  <2>3. ASSUME NEW w \in Workers PROVE Goes(worker[w])' /\ Rests(worker[w])'
    <3>1. Goes(worker[w])
      BY DEF RequestsFit
    <3>2. Goes(worker'[w])
      BY <2>1, <3>1
    <3>3. QED
      BY <2>1, <2>2, <3>2 DEF Goes, Requested, Rests
  <2>4. FilingApart'
    BY <2>1, <2>2 DEF FilingApart, Filing, Locking
  <2>5. QED
    BY <2>3, <2>4 DEF RequestsFit
<1>3. QED
  BY <1>1, <1>2

LEMMA RequestsStepsFit ==
  ASSUME FilesFit, RequestsFit, [Next]_vars
  PROVE  RequestsFit'
<1>1. CASE \/ (\E c \in Contents : Drops(c)) \/ (\E plan \in Plans : Starts(plan))
           \/ Ends \/ Crashes
  BY <1>1, QuietAsks
<1>2. ASSUME NEW w \in Workers, NEW p \in job.todo, Probes(w, p) PROVE RequestsFit'
  BY <1>2, ProbesAsk
<1>3. ASSUME NEW w \in Workers, NEW a, Groups(w, a) PROVE RequestsFit'
  BY <1>3, GroupsAsk
<1>4. ASSUME NEW w \in Workers, Decides(w) PROVE RequestsFit'
  BY <1>4, DecidesAsks
<1>5. ASSUME NEW w \in Workers, PicksTarget(w) PROVE RequestsFit'
  BY <1>5, PicksTargetAsks
<1>6. ASSUME NEW w \in Workers,
             Renames(w) \/ Copies(w) \/ Removes(w) \/ CopyStops(w) \/ TriesAgain(w)
      PROVE  RequestsFit'
  BY <1>6, MovesAsk, TriesAgainAsks
<1>7. ASSUME NEW w \in Workers,
             ProviderFails(w) \/ MoveFails(w) \/ FilesImport(w) \/ ImportFails(w)
      PROVE  RequestsFit'
  <2>1. Finishes(w) /\ UNCHANGED disk
    BY <1>7 DEF ProviderFails, MoveFails, FilesImport, ImportFails
  <2>2. QED
    BY <2>1, FinishesAsking
<1>8. CASE UNCHANGED vars
  BY <1>8 DEF vars, RequestsFit, FilingApart, KeysOf, Goes, Requested, Rests, Resting
<1>9. QED
  BY <1>1, <1>2, <1>3, <1>4, <1>5, <1>6, <1>7, <1>8 DEF Next, Steps

-----------------------------------------------------------------------------
(* What the catalog says of the library, and what is in the library that it *)
(* says nothing of.                                                         *)

Lies(x) == x.step \in {"copied", "filed"} /\ x.final # NoPath /\ x.final # x.path

(* A published row names a path of the library: its file is there, or was   *)
(* moved away or written over, or was never moved there.                    *)
RowFits(p) ==
  LET file == db.media[p]
  IN  /\ Root(file.managed) = "library"
      /\ \/ file.managed \in moved \cup stray \/ p \in unmoved
         \/ file.managed \in DOMAIN disk /\ disk[file.managed].hash = file.hash

(* A file of the library is known by a row, on its way to be, or excused.   *)
FileFits(p) ==
  \/ p \in stray \cup replaced
  \/ \E w \in Workers : Lies(worker[w]) /\ worker[w].final = p
  \/ \E q \in Published(db) : db.media[q].managed = p /\ db.media[q].hash = disk[p].hash

LibraryFits ==
  /\ "media" \in DOMAIN db
  /\ \A p \in Published(db) : RowFits(p)
  /\ \A p \in DOMAIN disk : Root(p) = "library" => FileFits(p)

(* What a transaction that publishes nothing leaves of the catalog.         *)
KeepsRows(d, e) ==
  /\ "media" \in DOMAIN e
  /\ Published(e) = Published(d)
  /\ \A p \in Published(d) : e.media[p] = d.media[p]

(* Nothing but the association of a file writes the table of files.         *)
SameMedia(d, e) == "media" \in DOMAIN e /\ e.media = d.media

LEMMA UpsertsKeepMedia ==
  ASSUME NEW d, "media" \in DOMAIN d, NEW g, NEW a, NEW p, NEW song
  PROVE  /\ SameMedia(d, WithArtist(d, a)) /\ SameMedia(d, WithAlbum(d, g))
         /\ SameMedia(d, WithPodcast(d, g)) /\ SameMedia(d, WithSong(d, g, a))
         /\ SameMedia(d, WithCanonical(d, song, p)) /\ SameMedia(d, ReassignedAway(d, p, song))
         /\ SameMedia(d, WithItem(d, p))
<1>1. SameMedia(d, WithArtist(d, a))
  BY DEF SameMedia, WithArtist
<1>2. SameMedia(d, WithAlbum(d, g)) /\ SameMedia(d, WithPodcast(d, g))
  BY DEF SameMedia, WithAlbum, WithPodcast
<1>3. SameMedia(d, WithSong(d, g, a))
  BY DEF SameMedia, WithSong
<1>4. SameMedia(d, WithCanonical(d, song, p))
  BY DEF SameMedia, WithCanonical
<1>5. SameMedia(d, ReassignedAway(d, p, song))
  BY DEF SameMedia, ReassignedAway
<1>6. SameMedia(d, WithItem(d, p))
  BY DEF SameMedia, WithItem
<1>7. QED
  BY <1>1, <1>2, <1>3, <1>4, <1>5, <1>6

LEMMA ProjectionKeepsMedia ==
  ASSUME NEW d, "media" \in DOMAIN d, NEW g
  PROVE  SameMedia(d, Projected(d, g))
BY DEF SameMedia, Projected

(* A row that is published is left as it is by a write of another status.   *)
LEMMA AssociatesFile ==
  ASSUME NEW d, "media" \in DOMAIN d, NEW rq, NEW status, NEW song
  PROVE  LET e == WithMedia(d, rq, status, song)
         IN  /\ "media" \in DOMAIN e
             /\ e.media = IF rq.path \in Published(d) /\ status # "published" THEN d.media
                          ELSE Put(d.media, rq.path, MediaRow(rq, status, song))
<1> DEFINE p == rq.path
           row == MediaRow(rq, status, song)
           cleared == IF status = "published" THEN ReassignedAway(d, p, song) ELSE d
           stored == WithRow(cleared, p, row)
           e == WithMedia(d, rq, status, song)
<1>1. SameMedia(d, cleared)
  BY UpsertsKeepMedia DEF SameMedia
<1>2. row.status = status
  BY DEF MediaRow
<1>3. e = IF p \in Published(stored) THEN WithCanonical(stored, stored.media[p].song, p)
          ELSE stored
  BY DEF WithMedia, MediaRow
<1> HIDE DEF cleared, row
<1>4. /\ "media" \in DOMAIN stored
      /\ stored.media = IF p \in Published(d) /\ status # "published" THEN d.media
                        ELSE Put(d.media, p, row)
  BY <1>1, <1>2 DEF SameMedia, WithRow, Published
<1> HIDE DEF stored
<1>5. SameMedia(stored, e)
  BY <1>3, <1>4, UpsertsKeepMedia DEF SameMedia
<1> HIDE DEF e
<1>6. QED
  BY <1>4, <1>5 DEF SameMedia, e, row

LEMMA QuarantineKeepsRows ==
  ASSUME NEW d, "media" \in DOMAIN d, NEW rq, NEW reason
  PROVE  KeepsRows(d, Quarantined(d, rq, reason))
<1> DEFINE status == StatusFor(reason)
           f == WithMedia(d, rq, status, None)
           e == Quarantined(d, rq, reason)
<1>1. status # "published"
  BY DEF StatusFor
<1> HIDE DEF status
<1>2. /\ "media" \in DOMAIN f
      /\ f.media = IF rq.path \in Published(d) THEN d.media
                   ELSE Put(d.media, rq.path, MediaRow(rq, status, None))
  BY <1>1, AssociatesFile
<1>3. e = WithItem(f, rq.path)
  BY DEF Quarantined, status
<1> HIDE DEF f, e
<1>4. "media" \in DOMAIN e /\ e.media = f.media
  BY <1>2, <1>3, UpsertsKeepMedia DEF SameMedia
<1>5. CASE rq.path \in Published(d)
  BY <1>2, <1>4, <1>5 DEF KeepsRows, Published, e
<1>6. CASE rq.path \notin Published(d)
  <2>1. /\ DOMAIN e.media = DOMAIN d.media \cup {rq.path}
        /\ e.media[rq.path].status # "published"
        /\ \A p \in DOMAIN d.media \ {rq.path} : e.media[p] = d.media[p]
    BY <1>1, <1>2, <1>4, <1>6 DEF Put, MediaRow
  <2>2. QED
    BY <1>4, <1>6, <2>1 DEF KeepsRows, Published, e
<1>7. QED
  BY <1>5, <1>6

(* The transaction that publishes a file writes its row, and no other.      *)
LEMMA PublishesRow ==
  ASSUME NEW d, "media" \in DOMAIN d, NEW rq, Decision(d, rq) = "published"
  PROVE  LET e == Imported(d, rq)
         IN  /\ "media" \in DOMAIN e
             /\ e.media = Put(d.media, rq.path, MediaRow(rq, "published", SongKey(rq.grouping)))
<1> DEFINE g == rq.grouping
           row == MediaRow(rq, "published", SongKey(g))
           Stores(e) == "media" \in DOMAIN e /\ e.media = Put(d.media, rq.path, row)
<1>1. ASSUME NEW f, SameMedia(d, f)
      PROVE  LET e == WithMedia(f, rq, "published", SongKey(g))
             IN  Stores(e) /\ Stores(Projected(e, g))
  <2> DEFINE e == WithMedia(f, rq, "published", SongKey(g))
  <2>1. Stores(e)
    BY <1>1, AssociatesFile DEF SameMedia
  <2> HIDE DEF e, row
  <2>2. SameMedia(e, Projected(e, g))
    BY <2>1, ProjectionKeepsMedia
  <2>3. Stores(Projected(e, g))
    BY <2>1, <2>2 DEF SameMedia
  <2>4. QED
    BY <2>1, <2>3 DEF e
<1> HIDE DEF Stores
<1>2. Stores(PublishedMusic(d, rq))
  <2> DEFINE a == WithArtist(d, g.owner)
             b == WithArtist(a, g.creator)
             c == WithAlbum(b, g)
             f == WithSong(c, g, Norm[g.creator])
  <2>1. SameMedia(d, a)
    BY UpsertsKeepMedia
  <2>2. PublishedMusic(d, rq) =
           LET e == WithMedia(f, rq, "published", SongKey(g))
           IN  IF rq.rebuild THEN Projected(e, g) ELSE e
    BY DEF PublishedMusic, WithTrack
  <2> HIDE DEF a
  <2>3. SameMedia(a, b)
    BY <2>1, UpsertsKeepMedia DEF SameMedia
  <2> HIDE DEF b
  <2>4. SameMedia(b, c)
    BY <2>3, UpsertsKeepMedia DEF SameMedia
  <2> HIDE DEF c
  <2>5. SameMedia(c, f)
    BY <2>4, UpsertsKeepMedia DEF SameMedia
  <2>6. SameMedia(d, f)
    BY <2>1, <2>3, <2>4, <2>5 DEF SameMedia
  <2> HIDE DEF f
  <2>7. QED
    BY <1>1, <2>2, <2>6
<1>3. Stores(PublishedPodcast(d, rq))
  <2> DEFINE c == WithPodcast(d, g)
             f == WithSong(c, g, None)
  <2>1. SameMedia(d, c)
    BY UpsertsKeepMedia
  <2>2. PublishedPodcast(d, rq) =
           LET e == WithMedia(f, rq, "published", SongKey(g))
           IN  IF rq.rebuild THEN Projected(e, g) ELSE e
    BY DEF PublishedPodcast, WithEpisode
  <2> HIDE DEF c
  <2>3. SameMedia(c, f)
    BY <2>1, UpsertsKeepMedia DEF SameMedia
  <2>4. SameMedia(d, f)
    BY <2>1, <2>3 DEF SameMedia
  <2> HIDE DEF f
  <2>5. QED
    BY <1>1, <2>2, <2>4
<1>4. Imported(d, rq) = IF g.kind = "music" THEN PublishedMusic(d, rq)
                        ELSE PublishedPodcast(d, rq)
  BY DEF Imported
<1>5. Stores(Imported(d, rq))
  BY <1>2, <1>3, <1>4
<1>6. QED
  BY <1>5 DEF Stores

LEMMA RefusalsKeepRows ==
  ASSUME NEW d, "media" \in DOMAIN d, NEW rq, Decision(d, rq) # "published"
  PROVE  KeepsRows(d, Imported(d, rq))
<1>1. \/ Imported(d, rq) = d
      \/ Imported(d, rq) = Quarantined(d, rq, Decision(d, rq))
  BY DEF Imported
<1>2. KeepsRows(d, d)
  BY DEF KeepsRows
<1>3. QED
  BY <1>1, <1>2, QuarantineKeepsRows

-----------------------------------------------------------------------------
(* The steps leave the library known.                                       *)

(* The disk stays, no row of the catalog changes, and of what a worker gives *)
(* up it is remembered where it lies.                                       *)
LEMMA LibraryStays ==
  ASSUME LibraryFits, UNCHANGED <<disk, moved, replaced, unmoved>>, KeepsRows(db, db'),
         stray \subseteq stray',
         \A w \in Workers : Lies(worker[w]) =>
            \/ worker[w].final \in stray'
            \/ Lies(worker'[w]) /\ worker'[w].final = worker[w].final
  PROVE  LibraryFits'
<1>1. ASSUME NEW p \in Published(db') PROVE RowFits(p)'
  BY <1>1 DEF LibraryFits, KeepsRows, RowFits
<1>2. ASSUME NEW p \in DOMAIN disk', Root(p) = "library" PROVE FileFits(p)'
  <2>1. FileFits(p)
    BY <1>2 DEF LibraryFits
  <2>2. CASE p \in stray \cup replaced
    BY <2>2 DEF FileFits
  <2>3. ASSUME NEW w \in Workers, Lies(worker[w]), worker[w].final = p PROVE FileFits(p)'
    <3>1. p \in stray' \/ (Lies(worker'[w]) /\ worker'[w].final = p)
      BY <2>3
    <3>2. QED
      BY <3>1 DEF FileFits, Lies
  <2>4. ASSUME NEW q \in Published(db), db.media[q].managed = p,
               db.media[q].hash = disk[p].hash
        PROVE  FileFits(p)'
    <3>1. q \in Published(db') /\ db'.media[q] = db.media[q]
      BY DEF KeepsRows
    <3>2. QED
      BY <2>4, <3>1 DEF FileFits
  <2>5. QED
    BY <2>1, <2>2, <2>3, <2>4 DEF FileFits
<1>3. QED
  BY <1>1, <1>2 DEF LibraryFits, KeepsRows

(* A file is moved: it is on its way to be known where it is then, and is   *)
(* remembered to have left where it was.                                    *)
LEMMA LibraryMoves ==
  ASSUME FilesFit, LibraryFits, NEW w \in Workers,
         worker[w].step \in {"placed", "copied"}, NEW n,
         worker' = [worker EXCEPT ![w] = n], UNCHANGED <<db, stray, replaced, unmoved>>,
         DOMAIN disk \ {worker[w].path} \subseteq DOMAIN disk',
         DOMAIN disk' \subseteq DOMAIN disk \cup {worker[w].final},
         \A p \in DOMAIN disk \cap DOMAIN disk' : disk'[p].hash = disk[p].hash,
         n.final = worker[w].final, n.path = worker[w].path,
         n.final # NoPath, n.step \in {"copied", "filed"},
         moved \subseteq moved',
         worker[w].path \in DOMAIN disk \ DOMAIN disk' /\ Root(worker[w].path) = "library" =>
            worker[w].path \in moved'
  PROVE  LibraryFits'
<1> DEFINE me == worker[w]
<1>1. worker'[w] = n /\ \A v \in Workers \ {w} : worker'[v] = worker[v]
  BY DEF FilesFit, WorkersFit
<1>2. ASSUME NEW p \in Published(db) PROVE RowFits(p)'
  BY <1>2 DEF LibraryFits, RowFits
<1>3. ASSUME NEW p \in DOMAIN disk', Root(p) = "library" PROVE FileFits(p)'
  <2>1. CASE p = me.final /\ me.final # me.path
    <3>1. Lies(worker'[w]) /\ worker'[w].final = p
      BY <1>1, <2>1 DEF Lies
    <3>2. QED
      BY <3>1 DEF FileFits, Lies
  <2>2. CASE ~(p = me.final /\ me.final # me.path)
    <3>1. p \in DOMAIN disk /\ disk'[p].hash = disk[p].hash
      BY <2>2 DEF FilesFit, Reads, Moving, Locking
    <3>2. FileFits(p)
      BY <1>3, <3>1 DEF LibraryFits
    <3>3. CASE p \in stray \cup replaced
      BY <3>3 DEF FileFits
    <3>4. ASSUME NEW v \in Workers, Lies(worker[v]), worker[v].final = p PROVE FileFits(p)'
      <4>1. v # w
        BY <2>2, <3>4 DEF Lies
      <4>2. Lies(worker'[v]) /\ worker'[v].final = p
        BY <1>1, <3>4, <4>1
      <4>3. QED
        BY <4>2 DEF FileFits, Lies
    <3>5. ASSUME NEW q \in Published(db), db.media[q].managed = p,
                 db.media[q].hash = disk[p].hash
          PROVE  FileFits(p)'
      BY <3>1, <3>5 DEF FileFits
    <3>6. QED
      BY <3>2, <3>3, <3>4, <3>5 DEF FileFits
  <2>3. QED
    BY <2>1, <2>2
<1>4. QED
  BY <1>2, <1>3 DEF LibraryFits

(* A copy stops: what has been written is remembered, and nothing else is   *)
(* touched.                                                                 *)
LEMMA CopyStopsKnown ==
  ASSUME FilesFit, LibraryFits, NEW w \in Workers, CopyStops(w), UNCHANGED <<replaced, unmoved>>
  PROVE  LibraryFits'
<1> DEFINE me == worker[w]
<1>1. PICK part \in Halves[disk[me.path].hash] : disk' = Put(disk, me.final, part)
  BY DEF CopyStops
<1>2. /\ DOMAIN disk' = DOMAIN disk \cup {me.final}
      /\ \A p \in DOMAIN disk' : p # me.final => disk'[p] = disk[p]
  BY <1>1 DEF Put
<1>3. /\ UNCHANGED <<db, moved>> /\ stray' = stray \cup {me.final}
      /\ me.step = "placed"
      /\ \A v \in Workers \ {w} : worker'[v] = worker[v]
  BY DEF CopyStops, FilesFit, WorkersFit
<1>4. ASSUME NEW p \in Published(db) PROVE RowFits(p)'
  BY <1>2, <1>3, <1>4 DEF LibraryFits, RowFits
<1>5. ASSUME NEW p \in DOMAIN disk', Root(p) = "library" PROVE FileFits(p)'
  <2>1. CASE p = me.final
    BY <1>3, <2>1 DEF FileFits
  <2>2. CASE p # me.final
    <3>1. p \in DOMAIN disk /\ disk'[p] = disk[p] /\ FileFits(p)
      BY <1>2, <1>5, <2>2 DEF LibraryFits
    <3>2. ASSUME NEW v \in Workers, Lies(worker[v]), worker[v].final = p PROVE FileFits(p)'
      <4>1. Lies(worker'[v]) /\ worker'[v].final = p
        BY <1>3, <3>2 DEF Lies
      <4>2. QED
        BY <4>1 DEF FileFits, Lies
    <3>3. QED
      BY <1>3, <3>1, <3>2 DEF FileFits
  <2>3. QED
    BY <2>1, <2>2
<1>6. QED
  BY <1>3, <1>4, <1>5 DEF LibraryFits

LEMMA LyingIsLeft ==
  ASSUME NEW w \in Workers, Lies(worker[w])
  PROVE  worker[w].final \in Left(w)
BY DEF Lies, Left

(* A worker that has moved nothing yet goes on.                             *)
LEMMA TurnsKnown ==
  ASSUME FilesFit, LibraryFits, UNCHANGED <<disk, moved, replaced, unmoved, stray>>,
         KeepsRows(db, db'), NEW w \in Workers, worker[w].step \notin {"copied", "filed"},
         NEW n, worker' = [worker EXCEPT ![w] = n]
  PROVE  LibraryFits'
<1>1. \A v \in Workers \ {w} : worker'[v] = worker[v]
  BY DEF FilesFit, WorkersFit
<1>2. ~Lies(worker[w])
  BY DEF Lies
<1>3. QED
  BY <1>1, <1>2, LibraryStays

(* A worker gives up, and what it has moved is remembered.                  *)
LEMMA EndingsKnown ==
  ASSUME FilesFit, LibraryFits, UNCHANGED <<disk, moved, replaced, unmoved>>,
         KeepsRows(db, db'), NEW w \in Workers, Finishes(w), stray' = stray \cup Left(w)
  PROVE  LibraryFits'
<1>1. \A v \in Workers \ {w} : worker'[v] = worker[v]
  BY DEF FilesFit, WorkersFit, Finishes
<1>2. Lies(worker[w]) => worker[w].final \in stray'
  BY LyingIsLeft
<1>3. QED
  BY <1>1, <1>2, LibraryStays

LEMMA DropsKnown ==
  ASSUME FilesFit, LibraryFits, NEW c \in Contents, Drops(c), UNCHANGED <<replaced, unmoved>>
  PROVE  LibraryFits'
<1>1. /\ UNCHANGED <<db, worker, stray, moved>>
      /\ c.at \notin DOMAIN disk /\ Root(c.at) # "library"
      /\ DOMAIN disk' = DOMAIN disk \cup {c.at}
      /\ \A p \in DOMAIN disk : disk'[p] = disk[p]
  BY FilesAssumption DEF Drops, Put
<1>2. ASSUME NEW p \in Published(db) PROVE RowFits(p)'
  BY <1>1, <1>2 DEF LibraryFits, RowFits
<1>3. ASSUME NEW p \in DOMAIN disk', Root(p) = "library" PROVE FileFits(p)'
  <2>1. p \in DOMAIN disk /\ FileFits(p)
    BY <1>1, <1>3 DEF LibraryFits
  <2>2. QED
    BY <1>1, <2>1 DEF FileFits, Lies
<1>4. QED
  BY <1>1, <1>2, <1>3 DEF LibraryFits

LEMMA MovesKnown ==
  ASSUME FilesFit, RequestsFit, LibraryFits, NEW w \in Workers,
         Renames(w) \/ Copies(w) \/ Removes(w), UNCHANGED <<replaced, unmoved>>
  PROVE  LibraryFits'
<1> DEFINE me == worker[w]
<1>1. me.step \in {"placed", "copied"} /\ UNCHANGED db
  BY DEF Renames, Copies, Removes
<1>2. /\ me.path \in DOMAIN disk /\ disk[me.path].hash = me.read.hash /\ Shaped(me)
      /\ me.final \in DOMAIN disk /\ me.final # me.path => disk[me.final].hash = me.read.hash
      /\ me.step = "copied" => me.final # me.path /\ me.final \in DOMAIN disk
  BY <1>1, MovesFind
<1>9. UNCHANGED stray
  BY <1>2 DEF Renames, Copies, Removes, Overwritten
<1>3. me.final # NoPath
  BY <1>1, NoPathIsNowhere DEF RequestsFit, Goes
<1>4. Filed(me).step = "filed" /\ Filed(me).path = me.path /\ Filed(me).final = me.final
  BY <1>2, FiledRecord
<1>5. ASSUME Renames(w) PROVE LibraryFits'
  <2>1. worker' = [worker EXCEPT ![w] = Filed(me)]
    BY <1>5 DEF Renames
  <2>2. /\ DOMAIN disk' = (DOMAIN disk \ {me.path}) \cup {me.final}
        /\ \A p \in DOMAIN disk' : disk'[p] = IF p = me.final THEN disk[me.path] ELSE disk[p]
    BY <1>5 DEF Renames, Put, Removed
  <2>3. \A p \in DOMAIN disk \cap DOMAIN disk' : disk'[p].hash = disk[p].hash
    BY <1>2, <2>2
  <2>4. /\ moved \subseteq moved'
        /\ me.path \notin DOMAIN disk' /\ Root(me.path) = "library" => me.path \in moved'
    BY <1>5, <2>2 DEF Renames, Leaves
  <2>5. QED
    BY <1>9, <1>1, <1>3, <1>4, <2>1, <2>2, <2>3, <2>4, LibraryMoves
<1>6. ASSUME Copies(w) PROVE LibraryFits'
  <2> DEFINE n == [me EXCEPT !.step = "copied"]
  <2>1. worker' = [worker EXCEPT ![w] = n] /\ UNCHANGED moved
    BY <1>6 DEF Copies
  <2>2. /\ DOMAIN disk' = DOMAIN disk \cup {me.final}
        /\ \A p \in DOMAIN disk' : disk'[p] = IF p = me.final THEN disk[me.path] ELSE disk[p]
    BY <1>6 DEF Copies, Put
  <2>3. n.step = "copied" /\ n.path = me.path /\ n.final = me.final
    BY <1>2 DEF Shaped
  <2> HIDE DEF n
  <2>4. \A p \in DOMAIN disk \cap DOMAIN disk' : disk'[p].hash = disk[p].hash
    BY <1>2, <2>2
  <2>5. QED
    BY <1>9, <1>1, <1>3, <2>1, <2>2, <2>3, <2>4, LibraryMoves
<1>7. ASSUME Removes(w) PROVE LibraryFits'
  <2>1. worker' = [worker EXCEPT ![w] = Filed(me)] /\ me.step = "copied"
    BY <1>7 DEF Removes
  <2>2. /\ DOMAIN disk' = DOMAIN disk \ {me.path}
        /\ \A p \in DOMAIN disk' : disk'[p] = disk[p]
    BY <1>7 DEF Removes, Removed
  <2>3. /\ moved \subseteq moved'
        /\ Root(me.path) = "library" => me.path \in moved'
    BY <1>2, <1>7, <2>1 DEF Removes, Leaves
  <2>4. QED
    BY <1>9, <1>1, <1>3, <1>4, <2>1, <2>2, <2>3, LibraryMoves
<1>8. QED
  BY <1>5, <1>6, <1>7

(* A file is published: its row says where it is, or it is remembered that  *)
(* nobody has moved it there; and what the row said before is remembered,   *)
(* unless it is what the row says now.                                      *)
LEMMA PublishingKnown ==
  ASSUME FilesFit, RequestsFit, LibraryFits, NEW w \in Workers, FilesImport(w),
         Decision(db, worker[w].rq) = "published"
  PROVE  LibraryFits'
<1> DEFINE me == worker[w]
           rq == me.rq
           row == MediaRow(rq, "published", SongKey(rq.grouping))
           before == {db.media[p].managed : p \in Published(db) \cap {rq.path}}
           stayed == me.final = NoPath /\ rq.managed # me.path
<1>1. /\ me.step = "filed" /\ db' = Imported(db, rq) /\ Finishes(w)
      /\ UNCHANGED <<disk, moved, stray>>
      /\ IF stayed
         THEN replaced' = replaced \cup before /\ unmoved' = unmoved \cup {rq.path}
         ELSE /\ replaced' = (replaced \cup before) \ {rq.managed}
              /\ unmoved' = unmoved \ {rq.path}
  BY DEF FilesImport, Remembers
<1>2. "media" \in DOMAIN db' /\ db'.media = Put(db.media, rq.path, row)
  BY <1>1, PublishesRow DEF LibraryFits
<1>3. row.status = "published" /\ row.managed = rq.managed /\ row.hash = rq.hash
  BY DEF MediaRow
<1> HIDE DEF row
<1>4. /\ Published(db') = Published(db) \cup {rq.path}
      /\ db'.media[rq.path] = row
      /\ \A p \in Published(db) \ {rq.path} : db'.media[p] = db.media[p]
  BY <1>2, <1>3 DEF Published, Put
<1>5. /\ Requested(me) /\ (me.final = NoPath \/ Root(me.final) = "library")
      /\ Resting(me) \in DOMAIN disk /\ disk[Resting(me)].hash = me.read.hash
  BY <1>1 DEF RequestsFit, Goes, Rests, Filing
<1>6. Stable(rq.grouping)
  BY DEF Decision
<1>7. /\ Root(rq.managed) = "library" /\ rq.hash = me.read.hash
      /\ me.final # NoPath => rq.managed = me.final
  BY <1>1, <1>5, <1>6, ManagedInLibrary DEF Requested
<1>8. ~stayed => rq.managed \in DOMAIN disk /\ disk[rq.managed].hash = rq.hash
  BY <1>5, <1>7 DEF Resting
<1>9. /\ stayed => replaced \cup before \subseteq replaced' /\ rq.path \in unmoved'
      /\ ~stayed => (replaced \cup before) \ {rq.managed} \subseteq replaced'
      /\ \A p \in unmoved \ {rq.path} : p \in unmoved'
      /\ rq.path \in Published(db) => db.media[rq.path].managed \in before
  BY <1>1
<1>10. \A v \in Workers \ {w} : worker'[v] = worker[v]
  BY <1>1 DEF FilesFit, WorkersFit, Finishes
<1>11. Lies(me) => ~stayed /\ rq.managed = me.final
  BY <1>7 DEF Lies
<1> HIDE DEF before, stayed
<1>12. ASSUME NEW p \in Published(db') PROVE RowFits(p)'
  <2>1. CASE p = rq.path
    BY <1>1, <1>3, <1>4, <1>7, <1>8, <1>9, <2>1 DEF RowFits
  <2>2. CASE p # rq.path
    <3>1. p \in Published(db) /\ RowFits(p) /\ db'.media[p] = db.media[p]
      BY <1>4, <1>12, <2>2 DEF LibraryFits
    <3>2. QED
      BY <1>1, <1>9, <2>2, <3>1 DEF RowFits
  <2>3. QED
    BY <2>1, <2>2
<1>13. ASSUME NEW p \in DOMAIN disk', Root(p) = "library" PROVE FileFits(p)'
  <2>1. p \in DOMAIN disk /\ disk' = disk /\ FileFits(p)
    BY <1>1, <1>13 DEF LibraryFits
  <2>2. CASE ~stayed /\ p = rq.managed
    <3>1. /\ rq.path \in Published(db') /\ db'.media[rq.path].managed = p
          /\ db'.media[rq.path].hash = disk'[p].hash
      BY <1>3, <1>4, <1>8, <2>1, <2>2
    <3>2. QED
      BY <3>1 DEF FileFits
  <2>3. CASE ~(~stayed /\ p = rq.managed)
    <3>1. CASE p \in stray \cup replaced \cup before
      <4>1. p \in stray' \cup replaced'
        BY <1>1, <1>9, <2>3, <3>1
      <4>2. QED
        BY <4>1 DEF FileFits
    <3>2. ASSUME NEW v \in Workers, Lies(worker[v]), worker[v].final = p PROVE FileFits(p)'
      <4>1. v # w
        BY <1>11, <2>3, <3>2
      <4>2. Lies(worker'[v]) /\ worker'[v].final = p
        BY <1>10, <3>2, <4>1
      <4>3. QED
        BY <4>2 DEF FileFits, Lies
    <3>3. ASSUME NEW q \in Published(db), db.media[q].managed = p,
                 db.media[q].hash = disk[p].hash
          PROVE  FileFits(p)'
      <4>1. CASE q = rq.path
        BY <1>9, <3>1, <3>3, <4>1
      <4>2. CASE q # rq.path
        <5>1. q \in Published(db') /\ db'.media[q] = db.media[q]
          BY <1>4, <4>2
        <5>2. QED
          BY <2>1, <3>3, <5>1 DEF FileFits
      <4>3. QED
        BY <4>1, <4>2
    <3>4. QED
      BY <2>1, <3>1, <3>2, <3>3 DEF FileFits
  <2>4. QED
    BY <2>2, <2>3
<1>14. QED
  BY <1>2, <1>12, <1>13 DEF LibraryFits

LEMMA LibraryStepsFit ==
  ASSUME FilesFit, RequestsFit, LibraryFits, [Next]_vars
  PROVE  LibraryFits'
<1>1. KeepsRows(db, db)
  BY DEF KeepsRows, LibraryFits
<1>2. CASE UNCHANGED <<disk, moved, replaced, unmoved, stray, db, worker>>
  BY <1>1, <1>2, LibraryStays
<1>3. CASE Steps /\ UNCHANGED <<replaced, unmoved>>
  <2>1. ASSUME NEW c \in Contents, Drops(c) PROVE LibraryFits'
    BY <1>3, <2>1, DropsKnown
  <2>2. CASE (\E plan \in Plans : Starts(plan)) \/ Ends
    BY <1>2, <1>3, <2>2 DEF Starts, Ends
  <2>3. ASSUME NEW w \in Workers, NEW p \in job.todo, Probes(w, p) PROVE LibraryFits'
    <3>1. /\ UNCHANGED <<disk, moved, stray, db>> /\ worker[w] = Idle
          /\ Idle.step \notin {"copied", "filed"}
      <4>1. Idle.step \notin {"copied", "filed"}
        BY DEF Idle
      <4>2. QED
        BY <2>3, <4>1 DEF Probes
    <3>2. \/ UNCHANGED worker
          \/ \E row : worker' = [worker EXCEPT ![w] = Probed(p, disk[p], row)]
      BY <2>3 DEF Probes, Probed
    <3>3. QED
      BY <1>1, <1>2, <1>3, <3>1, <3>2, TurnsKnown
  <2>4. ASSUME NEW w \in Workers, NEW a, Groups(w, a) PROVE LibraryFits'
    <3>1. /\ UNCHANGED <<disk, moved, stray, db>> /\ worker[w].step \notin {"copied", "filed"}
          /\ \E n : worker' = [worker EXCEPT ![w] = n]
      BY <2>4 DEF Groups
    <3>2. QED
      BY <1>1, <1>3, <3>1, TurnsKnown
  <2>5. ASSUME NEW w \in Workers, Decides(w) PROVE LibraryFits'
    <3>1. /\ UNCHANGED <<disk, moved, stray, db>> /\ worker[w].step \notin {"copied", "filed"}
          /\ \E n : worker' = [worker EXCEPT ![w] = n]
      BY <2>5 DEF Decides, Finishes
    <3>2. QED
      BY <1>1, <1>3, <3>1, TurnsKnown
  <2>6. ASSUME NEW w \in Workers, PicksTarget(w) PROVE LibraryFits'
    <3>1. /\ UNCHANGED <<disk, moved, stray, db>> /\ worker[w].step \notin {"copied", "filed"}
          /\ \E n : worker' = [worker EXCEPT ![w] = n]
      BY <2>6 DEF PicksTarget
    <3>2. QED
      BY <1>1, <1>3, <3>1, TurnsKnown
  <2>7. ASSUME NEW w \in Workers, ProviderFails(w) PROVE LibraryFits'
    <3>1. /\ UNCHANGED <<disk, moved, stray>> /\ worker[w].step \notin {"copied", "filed"}
          /\ db' = Quarantined(db, worker[w].rq, "metadata_failure")
          /\ worker' = [worker EXCEPT ![w] = Idle]
      BY <2>7 DEF ProviderFails, Finishes
    <3>2. KeepsRows(db, db')
      BY <3>1, QuarantineKeepsRows DEF LibraryFits
    <3>3. QED
      BY <1>3, <3>1, <3>2, TurnsKnown
  <2>8. ASSUME NEW w \in Workers, Renames(w) \/ Copies(w) \/ Removes(w) PROVE LibraryFits'
    BY <1>3, <2>8, MovesKnown
  <2>13. ASSUME NEW w \in Workers, CopyStops(w) PROVE LibraryFits'
    BY <1>3, <2>13, CopyStopsKnown
  <2>14. ASSUME NEW w \in Workers, TriesAgain(w) PROVE LibraryFits'
    <3>1. /\ UNCHANGED <<disk, moved, db>> /\ stray' = stray \cup Left(w)
          /\ \E n : worker' = [worker EXCEPT ![w] = n]
      BY <2>14 DEF TriesAgain
    <3>2. \A v \in Workers \ {w} : worker'[v] = worker[v]
      BY <3>1 DEF FilesFit, WorkersFit
    <3>3. Lies(worker[w]) => worker[w].final \in stray'
      BY <3>1, LyingIsLeft
    <3>4. QED
      BY <1>1, <1>3, <3>1, <3>2, <3>3, LibraryStays
  <2>9. ASSUME NEW w \in Workers, MoveFails(w) PROVE LibraryFits'
    <3>1. /\ UNCHANGED <<disk, moved>> /\ Finishes(w) /\ stray' = stray \cup Left(w)
          /\ db' = Quarantined(db, worker[w].rq, "file_error")
      BY <2>9 DEF MoveFails
    <3>2. KeepsRows(db, db')
      BY <3>1, QuarantineKeepsRows DEF LibraryFits
    <3>3. QED
      BY <1>3, <3>1, <3>2, EndingsKnown
  <2>10. ASSUME NEW w \in Workers, ImportFails(w) PROVE LibraryFits'
    <3>1. UNCHANGED <<disk, moved, db>> /\ Finishes(w) /\ stray' = stray \cup Left(w)
      BY <2>10 DEF ImportFails
    <3>2. QED
      BY <1>1, <1>3, <3>1, EndingsKnown
  <2>11. CASE Crashes
    <3>1. /\ UNCHANGED <<disk, moved, db>>
          /\ stray' = stray \cup UNION {Left(w) : w \in Workers}
      BY <2>11 DEF Crashes
    <3>2. \A w \in Workers : Lies(worker[w]) => worker[w].final \in stray'
      BY <3>1, LyingIsLeft
    <3>3. QED
      BY <1>1, <1>3, <3>1, <3>2, LibraryStays
  <2>12. QED
    BY <1>3, <2>1, <2>2, <2>3, <2>4, <2>5, <2>6, <2>7, <2>8, <2>9, <2>10, <2>11, <2>13,
       <2>14 DEF Steps
<1>4. ASSUME NEW w \in Workers, FilesImport(w) PROVE LibraryFits'
  <2>1. CASE Decision(db, worker[w].rq) = "published"
    BY <1>4, <2>1, PublishingKnown
  <2>2. CASE Decision(db, worker[w].rq) # "published"
    <3>1. /\ UNCHANGED <<disk, moved, replaced, unmoved>> /\ Finishes(w)
          /\ stray' = stray \cup Left(w) /\ db' = Imported(db, worker[w].rq)
      BY <1>4, <2>2 DEF FilesImport
    <3>2. KeepsRows(db, db')
      BY <2>2, <3>1, RefusalsKeepRows DEF LibraryFits
    <3>3. QED
      BY <3>1, <3>2, EndingsKnown
  <2>3. QED
    BY <2>1, <2>2
<1>5. QED
  BY <1>2, <1>3, <1>4 DEF Next, vars

LEMMA LibraryStartFits == Init => RequestsFit /\ LibraryFits
<1> SUFFICES ASSUME Init PROVE RequestsFit /\ LibraryFits
  OBVIOUS
<1>1. /\ DOMAIN disk = {} /\ "media" \in DOMAIN db /\ Published(db) = {}
      /\ \A w \in Workers : worker[w] = Idle
  BY DEF Init, EmptyCatalog, Published
<1>2. RequestsFit
  BY <1>1, NobodyAsks
<1>3. LibraryFits
  BY <1>1 DEF LibraryFits
<1>4. QED
  BY <1>2, <1>3

LEMMA LibraryTells == LibraryFits => LibraryIsKnown /\ PlayableUnlessMoved
<1> SUFFICES ASSUME LibraryFits PROVE LibraryIsKnown /\ PlayableUnlessMoved
  OBVIOUS
<1>1. LibraryIsKnown
  BY DEF LibraryFits, LibraryIsKnown, FileFits
<1>2. ASSUME NEW s \in DOMAIN db.songs, Shown(db, s)
      PROVE  LET p == db.songs[s].canonical
             IN  Playable(s) \/ db.media[p].managed \in moved \cup stray \/ p \in unmoved
  BY <1>2 DEF LibraryFits, RowFits, Shown, Playable
<1>3. QED
  BY <1>1, <1>2 DEF PlayableUnlessMoved

(* A file of the library has a row that names it, or is on its way to one,  *)
(* or a failure, a crash or a late duplicate left it there, or an attempt   *)
(* to move that failed before the one that did not, or its row went to      *)
(* another file from the same place: whatever overlaps.                     *)
THEOREM LibraryFilesAreKnown == Spec /\ []EveryNameHasRoom /\ []ReadsHold => []LibraryIsKnown
<1>1. FilesFit /\ EveryNameHasRoom /\ ReadsHold' /\ [Next]_vars => FilesFit'
  BY FilesStepsFit
<1>2. FilesFit /\ RequestsFit /\ [Next]_vars => RequestsFit'
  BY RequestsStepsFit
<1>3. FilesFit /\ RequestsFit /\ LibraryFits /\ [Next]_vars => LibraryFits'
  BY LibraryStepsFit
<1>4. LibraryFits => LibraryIsKnown
  BY LibraryTells
<1>5. QED
  BY <1>1, <1>2, <1>3, <1>4, FilesStartFit, LibraryStartFits, PTL DEF Spec

(* The file of a song that is shown is where its row says, with the content *)
(* its row says, unless a job has moved it on or has published it without   *)
(* the move, or an attempt to move failed there.                            *)
THEOREM WhatIsShownPlays == Spec /\ []EveryNameHasRoom /\ []ReadsHold => []PlayableUnlessMoved
<1>1. FilesFit /\ EveryNameHasRoom /\ ReadsHold' /\ [Next]_vars => FilesFit'
  BY FilesStepsFit
<1>2. FilesFit /\ RequestsFit /\ [Next]_vars => RequestsFit'
  BY RequestsStepsFit
<1>3. FilesFit /\ RequestsFit /\ LibraryFits /\ [Next]_vars => LibraryFits'
  BY LibraryStepsFit
<1>4. LibraryFits => PlayableUnlessMoved
  BY LibraryTells
<1>5. QED
  BY <1>1, <1>2, <1>3, <1>4, FilesStartFit, LibraryStartFits, PTL DEF Spec

-----------------------------------------------------------------------------
(* What the tags of a file state.                                           *)

TagsTell(p, hash, song) ==
  LET tags == Embedded[hash]
      group == GroupOf(song)
      keeps(fields, tag, name) ==
          tag # None /\ ~StatedBeside(p, fields) => name = Norms(tag)
  IN  /\ keeps({"title"}, tags.title, song[3])
      /\ keeps({"show", "album"}, First(<<tags.show, tags.album>>), group[3])
      /\ group[1] = "music" =>
             keeps({"owner", "compilation"},
                   IF IsCompilation(tags) THEN Various ELSE tags.owner, OwnerOf(group))
      /\ tags.show # None /\ ~StatedBeside(p, {"show"}) => group[1] = "podcast"

(* The requests and the rows that are published are named as the tags of    *)
(* their content state, and all content is known.                           *)
AsTagged(x) ==
  x.step \in Filing /\ Stable(x.rq.grouping) =>
      TagsTell(x.rq.path, x.rq.hash, SongKey(x.rq.grouping))

NamesFit ==
  /\ dropped \subseteq Contents
  /\ \A p \in DOMAIN disk : disk[p].hash \in DOMAIN Embedded
  /\ \A w \in Workers : AsTagged(worker[w])
  /\ "media" \in DOMAIN db
  /\ \A p \in Published(db) : TagsTell(p, db.media[p].hash, db.media[p].song)

LEMMA FirstIsKnown ==
  ASSUME NEW s, DOMAIN s \subseteq Nat, NEW n \in DOMAIN s, s[n] # None,
         \A m \in DOMAIN s : m < n => s[m] = None
  PROVE  First(s) = s[n]
<1> DEFINE known == {m \in DOMAIN s : s[m] # None}
<1>1. n \in known /\ \A m \in known : n <= m
  OBVIOUS
<1>2. known \subseteq Nat
  OBVIOUS
<1> HIDE DEF known
<1>3. Least(known) = n
  BY <1>1, <1>2 DEF Least
<1>4. QED
  BY <1>1, <1>3 DEF First, known

(* The first name that is stated, of two or three.                          *)
LEMMA FirstOfThem ==
  ASSUME NEW a, NEW b, NEW c
  PROVE  /\ a # None => First(<<a, b>>) = a /\ First(<<a, b, c>>) = a
         /\ a = None /\ b # None => First(<<a, b>>) = b /\ First(<<a, b, c>>) = b
         /\ a = None /\ b = None => First(<<a, b>>) = None
<1>1. ASSUME a # None PROVE First(<<a, b>>) = a
  <2> DEFINE s == <<a, b>>
  <2>1. DOMAIN s = {1, 2} /\ s[1] = a
    OBVIOUS
  <2> HIDE DEF s
  <2>2. First(s) = s[1]
    BY <1>1, <2>1, FirstIsKnown
  <2>3. QED
    BY <2>1, <2>2 DEF s
<1>2. ASSUME a # None PROVE First(<<a, b, c>>) = a
  <2> DEFINE s == <<a, b, c>>
  <2>1. DOMAIN s = {1, 2, 3} /\ s[1] = a
    OBVIOUS
  <2> HIDE DEF s
  <2>2. First(s) = s[1]
    BY <1>2, <2>1, FirstIsKnown
  <2>3. QED
    BY <2>1, <2>2 DEF s
<1>3. ASSUME a = None, b # None PROVE First(<<a, b>>) = b
  <2> DEFINE s == <<a, b>>
  <2>1. DOMAIN s = {1, 2} /\ s[1] = a /\ s[2] = b
    OBVIOUS
  <2> HIDE DEF s
  <2>2. First(s) = s[2]
    BY <1>3, <2>1, FirstIsKnown
  <2>3. QED
    BY <2>1, <2>2 DEF s
<1>4. ASSUME a = None, b # None PROVE First(<<a, b, c>>) = b
  <2> DEFINE s == <<a, b, c>>
  <2>1. DOMAIN s = {1, 2, 3} /\ s[1] = a /\ s[2] = b
    OBVIOUS
  <2> HIDE DEF s
  <2>2. First(s) = s[2]
    BY <1>4, <2>1, FirstIsKnown
  <2>3. QED
    BY <2>1, <2>2 DEF s
<1>5. ASSUME a = None, b = None PROVE First(<<a, b>>) = None
  <2> DEFINE s == <<a, b>>
  <2>1. DOMAIN s = {1, 2} /\ s[1] = a /\ s[2] = b
    OBVIOUS
  <2>2. {n \in DOMAIN s : s[n] # None} = {}
    BY <1>5, <2>1
  <2> HIDE DEF s
  <2>3. QED
    BY <2>2 DEF First, s
<1>6. QED
  BY <1>1, <1>2, <1>3, <1>4, <1>5

(* What is stated beside a file comes before what is stated inside it; in   *)
(* the library nothing is beside a file.                                    *)
LEMMA TagsOfFile ==
  ASSUME NamesFit, NEW p, NEW hash \in DOMAIN Embedded, NEW q, q = p \/ Root(p) = "library",
         NEW field \in DOMAIN NoTags, ~StatedBeside(q, {field})
  PROVE  TagsOf(p, hash)[field] = Embedded[hash][field]
<1> DEFINE beside == {c \in dropped : c.at = p}
           inside == Embedded[hash]
<1>1. CASE beside = {}
  BY <1>1 DEF TagsOf
<1>2. CASE beside # {}
  <2> DEFINE sidecar == (CHOOSE c \in beside : TRUE).sidecar
  <2>1. PICK c \in dropped : c.at = p /\ sidecar = c.sidecar
    BY <1>2
  <2>2. q = p
    BY <2>1, FilesAssumption DEF NamesFit
  <2>3. field \notin DOMAIN sidecar
    BY <2>1, <2>2 DEF StatedBeside
  <2>4. field \in DOMAIN inside
    BY FilesAssumption DEF NamesFit
  <2>5. TagsOf(p, hash) = [f \in DOMAIN inside |->
                        IF f \in DOMAIN sidecar THEN sidecar[f] ELSE inside[f]]
    BY <1>2 DEF TagsOf
  <2> HIDE DEF sidecar, inside
  <2>6. TagsOf(p, hash)[field] = inside[field]
    BY <2>3, <2>4, <2>5
  <2>7. QED
    BY <2>6 DEF inside
<1>3. QED
  BY <1>1, <1>2

(* Whatever the providers answer, the names of a request are those the tags *)
(* state.                                                                   *)
LEMMA ChosenTells ==
  ASSUME NamesFit, NEW p, NEW hash \in DOMAIN Embedded, NEW q, q = p \/ Root(p) = "library",
         NEW rooted, NEW answers
  PROVE  TagsTell(q, hash, SongKey(ChosenGrouping(TagsOf(p, hash), p, rooted, answers)))
<1> DEFINE tags == Embedded[hash]
           used == TagsOf(p, hash)
           g == ChosenGrouping(used, p, rooted, answers)
           podcast == IsPodcast(used, p, rooted)
<1>1. \A field \in {"show", "album", "title", "owner", "compilation"} :
         ~StatedBeside(q, {field}) => used[field] = tags[field]
  BY TagsOfFile DEF NoTags
<1>2. \A F, G : G \subseteq F /\ ~StatedBeside(q, F) => ~StatedBeside(q, G)
  BY DEF StatedBeside
<1>3. /\ SongKey(g)[3] = Norm[g.title]
      /\ GroupOf(SongKey(g))[1] = g.kind
      /\ OwnerOf(GroupOf(SongKey(g))) = Norms(g.owner)
      /\ GroupOf(SongKey(g))[3] = Norm[g.group]
  BY DEF SongKey, GroupKey, GroupOf, OwnerOf
<1>4. podcast => g.kind = "podcast"
  BY DEF ChosenGrouping, ChosenPodcast, LocalPodcast
<1>5. ~podcast =>
        /\ g.kind = "music"
        /\ g.title = Named(First(<<used.title, FileStem(p)>>), used.title # None,
                           Best(answers, <<"track title">>))
        /\ g.group = Named(First(<<used.album, ParentComponent(p, 0)>>), used.album # None,
                           Best(answers, <<"album title">>))
        /\ g.owner = Named(IF IsCompilation(used) THEN Various
                           ELSE First(<<used.owner, used.artist, ParentComponent(p, 1)>>),
                           IsCompilation(used) \/ used.owner # None,
                           Best(answers, <<"album artist", "artist">>))
  BY DEF ChosenGrouping, ChosenMusic, LocalMusic, MusicEvidence
<1>6. podcast =>
        /\ g.title = Named(First(<<used.title, FileStem(p)>>), used.title # None,
                           Best(answers, <<"episode title">>))
        /\ g.group = Named(First(<<used.show, used.album, ParentComponent(p, 0)>>),
                           used.show # None \/ used.album # None,
                           Best(answers, <<"podcast title">>))
  BY DEF ChosenGrouping, ChosenPodcast, LocalPodcast, PodcastEvidence
<1>7. used.show # None => podcast
  BY DEF IsPodcast
<1> HIDE DEF used, g, podcast, tags
<1>8. ASSUME tags.title # None, ~StatedBeside(q, {"title"})
      PROVE  SongKey(g)[3] = Norms(tags.title)
  <2>1. used.title = tags.title
    BY <1>1, <1>8
  <2>2. g.title = tags.title
    BY <1>5, <1>6, <1>8, <2>1, FirstOfThem DEF Named
  <2>3. QED
    BY <1>3, <1>8, <2>2 DEF Norms
<1>9. ASSUME First(<<tags.show, tags.album>>) # None, ~StatedBeside(q, {"show", "album"})
      PROVE  GroupOf(SongKey(g))[3] = Norms(First(<<tags.show, tags.album>>))
  <2>1. used.show = tags.show /\ used.album = tags.album
    BY <1>1, <1>2, <1>9
  <2>2. tags.show # None \/ tags.album # None
    BY <1>9, FirstOfThem
  <2>3. CASE tags.show # None
    <3>1. podcast /\ First(<<tags.show, tags.album>>) = tags.show
      BY <1>7, <2>1, <2>3, FirstOfThem
    <3>2. First(<<used.show, used.album, ParentComponent(p, 0)>>) = used.show
      <4>1. used.show # None
        BY <2>1, <2>3
      <4>2. QED
        BY <4>1, FirstOfThem
    <3>3. g.group = tags.show
      BY <1>6, <2>1, <2>3, <3>1, <3>2 DEF Named
    <3>4. QED
      BY <1>3, <2>3, <3>1, <3>3 DEF Norms
  <2>4. CASE tags.show = None
    <3>1. tags.album # None /\ First(<<tags.show, tags.album>>) = tags.album
      BY <2>2, <2>4, FirstOfThem
    <3>2. g.group = tags.album
      <4>1. CASE podcast
        <5>1. First(<<used.show, used.album, ParentComponent(p, 0)>>) = used.album
          BY <2>1, <2>4, <3>1, FirstOfThem
        <5>2. QED
          BY <1>6, <2>1, <3>1, <4>1, <5>1 DEF Named
      <4>2. CASE ~podcast
        BY <1>5, <2>1, <3>1, <4>2, FirstOfThem DEF Named
      <4>3. QED
        BY <4>1, <4>2
    <3>3. QED
      BY <1>3, <3>1, <3>2 DEF Norms
  <2>5. QED
    BY <2>3, <2>4
<1>10. ASSUME GroupOf(SongKey(g))[1] = "music", ~StatedBeside(q, {"owner", "compilation"}),
              (IF IsCompilation(tags) THEN Various ELSE tags.owner) # None
       PROVE  OwnerOf(GroupOf(SongKey(g))) =
                 Norms(IF IsCompilation(tags) THEN Various ELSE tags.owner)
  <2>1. ~podcast /\ used.owner = tags.owner /\ used.compilation = tags.compilation
    BY <1>1, <1>2, <1>3, <1>4, <1>10
  <2>2. IsCompilation(used) <=> IsCompilation(tags)
    BY <2>1 DEF IsCompilation
  <2>3. g.owner = IF IsCompilation(tags) THEN Various ELSE tags.owner
    <3>1. CASE IsCompilation(tags)
      BY <1>5, <2>1, <2>2, <3>1 DEF Named
    <3>2. CASE ~IsCompilation(tags)
      <4>1. used.owner # None
        BY <1>10, <2>1, <3>2
      <4>2. First(<<used.owner, used.artist, ParentComponent(p, 1)>>) = used.owner
        BY <4>1, FirstOfThem
      <4>3. QED
        BY <1>5, <2>1, <2>2, <3>2, <4>1, <4>2 DEF Named
    <3>3. QED
      BY <3>1, <3>2
  <2>4. QED
    BY <1>3, <2>3
<1>11. ASSUME tags.show # None, ~StatedBeside(q, {"show"})
       PROVE  GroupOf(SongKey(g))[1] = "podcast"
  BY <1>1, <1>3, <1>4, <1>7, <1>11
<1>12. TagsTell(q, hash, SongKey(g))
  BY <1>8, <1>9, <1>10, <1>11 DEF TagsTell, tags
<1>13. QED
  BY <1>12 DEF g, used

(* Somebody may state more beside a file, never less.                       *)
LEMMA TagsStayTold ==
  ASSUME dropped \subseteq dropped', NEW p, NEW hash, NEW song, TagsTell(p, hash, song)
  PROVE  TagsTell(p, hash, song)'
<1>1. \A F : StatedBeside(p, F) => StatedBeside(p, F)'
  BY DEF StatedBeside
<1>2. QED
  BY <1>1 DEF TagsTell

LEMMA NamesStay ==
  ASSUME NamesFit, dropped \subseteq dropped', dropped' \subseteq Contents,
         \A p \in DOMAIN disk' : disk'[p].hash \in DOMAIN Embedded,
         KeepsRows(db, db'), \A w \in Workers : AsTagged(worker'[w])
  PROVE  NamesFit'
<1>1. ASSUME NEW w \in Workers PROVE AsTagged(worker[w])'
  BY TagsStayTold DEF AsTagged
<1>2. ASSUME NEW p \in Published(db') PROVE TagsTell(p, db.media[p].hash, db.media[p].song)'
  <2>1. /\ TagsTell(p, db.media[p].hash, db.media[p].song)
        /\ db'.media[p] = db.media[p]
    BY <1>2 DEF NamesFit, KeepsRows
  <2>2. TagsTell(p, db'.media[p].hash, db'.media[p].song)
    BY <2>1
  <2>3. QED
    BY <2>2, TagsStayTold
<1>3. "media" \in DOMAIN db'
  BY DEF KeepsRows
<1>4. QED
  BY <1>1, <1>2, <1>3 DEF NamesFit

(* A worker goes on with a request that is named as the tags state.         *)
LEMMA TurnsTell ==
  ASSUME FilesFit, NamesFit, NEW w \in Workers, NEW n, worker' = [worker EXCEPT ![w] = n],
         AsTagged(n), UNCHANGED dropped, KeepsRows(db, db'),
         \A p \in DOMAIN disk' : disk'[p].hash \in DOMAIN Embedded
  PROVE  NamesFit'
<1>1. \A v \in Workers : AsTagged(worker'[v])
  BY DEF NamesFit, FilesFit, WorkersFit
<1>2. QED
  BY <1>1, NamesStay DEF NamesFit

LEMMA RestingTells == AsTagged(Idle)
<1>1. Idle.step = "idle"
  BY DEF Idle
<1>2. QED
  BY <1>1 DEF AsTagged, Filing, Locking

LEMMA GroupsTell ==
  ASSUME FilesFit, RequestsFit, NamesFit, NEW w \in Workers, NEW answers, Groups(w, answers)
  PROVE  NamesFit'
<1> DEFINE me == worker[w]
           g == ChosenGrouping(TagsOf(me.path, me.read.hash), me.path, Rooted, answers)
           target == IF Stable(g) THEN ManagedPath(g) ELSE None
           stays == me.existing # None /\ target = me.path
           request == [path |-> IF stays THEN me.existing ELSE me.path, managed |-> target,
                       hash |-> me.read.hash, seconds |-> me.read.seconds, grouping |-> g,
                       reuse |-> job.plan.reuse, rebuild |-> ~job.plan.reuse]
           n == [me EXCEPT !.step = "locked", !.rq = request]
<1>1. me.step = "probed" /\ UNCHANGED <<disk, db, dropped>> /\ worker' = [worker EXCEPT ![w] = n]
  BY DEF Groups
<1>2. Shaped(me) /\ me.read.hash \in DOMAIN Embedded
  BY <1>1 DEF FilesFit, WorkersFit, Reads, Moving, NamesFit
<1>3. request.grouping = g /\ request.hash = me.read.hash /\ n.rq = request
  BY <1>2 DEF Shaped
<1>4. Stable(g) => request.path = me.path \/ Root(me.path) = "library"
  <2>1. SUFFICES ASSUME Stable(g), stays PROVE Root(me.path) = "library"
    OBVIOUS
  <2>2. me.path = ManagedPath(g)
    BY <2>1
  <2> HIDE DEF g
  <2>3. QED
    BY <2>2, ManagedInLibrary
<1>5. Stable(g) => TagsTell(request.path, me.read.hash, SongKey(g))
  BY <1>2, <1>4, ChosenTells
<1> HIDE DEF g, request
<1>6. AsTagged(n)
  BY <1>3, <1>5 DEF AsTagged
<1> HIDE DEF n
<1>7. KeepsRows(db, db')
  BY <1>1 DEF KeepsRows, NamesFit
<1>8. QED
  BY <1>1, <1>6, <1>7, TurnsTell DEF NamesFit

(* The moves move content, and leave the names of the request as they are.  *)
LEMMA MovesTell ==
  ASSUME FilesFit, RequestsFit, NamesFit, NEW w \in Workers,
         Renames(w) \/ Copies(w) \/ Removes(w) \/ CopyStops(w)
  PROVE  NamesFit'
<1> DEFINE me == worker[w]
           c == [me EXCEPT !.step = "copied"]
           h == [me EXCEPT !.step = "half"]
<1>1. /\ me.step \in {"placed", "copied"} /\ UNCHANGED <<db, dropped>>
      /\ \/ worker' = [worker EXCEPT ![w] = Filed(me)]
         \/ worker' = [worker EXCEPT ![w] = c]
         \/ worker' = [worker EXCEPT ![w] = h]
  BY DEF Renames, Copies, Removes, CopyStops
<1>2. me.path \in DOMAIN disk /\ Shaped(me) /\ me.step \in Filing /\ Requested(me)
  BY <1>1, MovesFind DEF Filing, Locking, RequestsFit, Goes
<1>3. ASSUME NEW p \in DOMAIN disk' PROVE disk'[p].hash \in DOMAIN Embedded
  <2>1. \A x \in DOMAIN disk : disk[x].hash \in DOMAIN Embedded
    BY DEF NamesFit
  <2>2. CASE Renames(w)
    <3>1. disk' = Put(Removed(me.path), me.final, disk[me.path])
      BY <2>2 DEF Renames
    <3>2. QED
      BY <1>2, <1>3, <2>1, <3>1 DEF Put, Removed
  <2>3. CASE Copies(w)
    <3>1. disk' = Put(disk, me.final, disk[me.path])
      BY <2>3 DEF Copies
    <3>2. QED
      BY <1>2, <1>3, <2>1, <3>1 DEF Put
  <2>4. CASE Removes(w)
    <3>1. disk' = Removed(me.path)
      BY <2>4 DEF Removes
    <3>2. QED
      BY <1>3, <2>1, <3>1 DEF Removed
  <2>5. CASE CopyStops(w)
    <3>1. PICK part \in Halves[disk[me.path].hash] : disk' = Put(disk, me.final, part)
      BY <2>5 DEF CopyStops
    <3>2. part.hash \in DOMAIN Embedded
      BY <1>2, <2>1, FilesAssumption
    <3>3. QED
      BY <1>3, <2>1, <3>1, <3>2 DEF Put
  <2>6. QED
    BY <2>2, <2>3, <2>4, <2>5
<1>4. /\ Filed(me).rq.path = me.rq.path /\ Filed(me).rq.hash = me.rq.hash
      /\ Filed(me).rq.grouping = me.rq.grouping
  BY <1>2 DEF Filed, Shaped, Requested
<1>5. c.rq = me.rq /\ h.rq = me.rq
  BY <1>2 DEF Shaped
<1>6. AsTagged(me)
  BY DEF NamesFit
<1>7. AsTagged(Filed(me)) /\ AsTagged(c) /\ AsTagged(h)
  BY <1>2, <1>4, <1>5, <1>6 DEF AsTagged
<1>8. KeepsRows(db, db')
  BY <1>1 DEF KeepsRows, NamesFit
<1> HIDE DEF c, h
<1>9. QED
  BY <1>1, <1>3, <1>7, <1>8, TurnsTell

LEMMA TriesAgainTells ==
  ASSUME FilesFit, NamesFit, NEW w \in Workers, TriesAgain(w)
  PROVE  NamesFit'
<1> DEFINE me == worker[w]
           n == [me EXCEPT !.step = "unique", !.final = NoPath, !.attempt = @ + 1]
<1>1. /\ me.step \in Filing /\ UNCHANGED <<disk, db, dropped>>
      /\ worker' = [worker EXCEPT ![w] = n]
  BY DEF TriesAgain, AttemptFails, Filing, Locking
<1>2. n.rq = me.rq
  <2>1. Shaped(me)
    BY DEF FilesFit, WorkersFit
  <2>2. QED
    BY <2>1, RetriedRecord
<1> HIDE DEF n
<1>3. AsTagged(n) /\ KeepsRows(db, db')
  BY <1>1, <1>2 DEF NamesFit, AsTagged, KeepsRows
<1>4. QED
  BY <1>1, <1>3, TurnsTell DEF NamesFit

(* A worker is done.                                                        *)
LEMMA EndingsTell ==
  ASSUME FilesFit, NamesFit, NEW w \in Workers, Finishes(w), UNCHANGED <<disk, dropped>>,
         KeepsRows(db, db')
  PROVE  NamesFit'
<1>1. worker' = [worker EXCEPT ![w] = Idle]
  BY DEF Finishes
<1>2. QED
  BY <1>1, RestingTells, TurnsTell DEF NamesFit

LEMMA PublishingTells ==
  ASSUME FilesFit, NamesFit, NEW w \in Workers, FilesImport(w),
         Decision(db, worker[w].rq) = "published"
  PROVE  NamesFit'
<1> DEFINE rq == worker[w].rq
           row == MediaRow(rq, "published", SongKey(rq.grouping))
<1>1. /\ worker[w].step \in Filing /\ db' = Imported(db, rq) /\ Finishes(w)
      /\ UNCHANGED <<disk, dropped>>
  BY DEF FilesImport, Filing
<1>2. "media" \in DOMAIN db' /\ db'.media = Put(db.media, rq.path, row)
  BY <1>1, PublishesRow DEF NamesFit
<1>3. row.status = "published" /\ row.hash = rq.hash /\ row.song = SongKey(rq.grouping)
  BY DEF MediaRow
<1>4. Stable(rq.grouping) /\ AsTagged(worker[w])
  BY DEF Decision, NamesFit
<1>5. TagsTell(rq.path, row.hash, row.song)
  BY <1>1, <1>3, <1>4 DEF AsTagged
<1> HIDE DEF row
<1>6. ASSUME NEW p \in Published(db') PROVE TagsTell(p, db.media[p].hash, db.media[p].song)'
  <2>1. TagsTell(p, db'.media[p].hash, db'.media[p].song)
    <3>1. CASE p = rq.path
      BY <1>2, <1>5, <3>1 DEF Put
    <3>2. CASE p # rq.path
      BY <1>2, <1>6, <3>2 DEF Put, Published, NamesFit
    <3>3. QED
      BY <3>1, <3>2
  <2>2. QED
    BY <1>1, <2>1, TagsStayTold
<1>7. ASSUME NEW v \in Workers PROVE AsTagged(worker[v])'
  <2>1. AsTagged(worker'[v])
    BY <1>1, RestingTells DEF Finishes, FilesFit, WorkersFit, NamesFit
  <2>2. QED
    BY <1>1, <2>1, TagsStayTold DEF AsTagged
<1>8. QED
  BY <1>1, <1>2, <1>6, <1>7 DEF NamesFit

LEMMA QuietTells ==
  ASSUME FilesFit, NamesFit,
         \/ \E c \in Contents : Drops(c)
         \/ \E plan \in Plans : Starts(plan)
         \/ Ends
         \/ Crashes
  PROVE  NamesFit'
<1>1. KeepsRows(db, db')
  BY DEF Drops, Starts, Ends, Crashes, KeepsRows, NamesFit
<1>2. \A w \in Workers : AsTagged(worker'[w])
  BY RestingTells DEF Drops, Starts, Ends, Crashes, NamesFit
<1>3. ASSUME NEW c \in Contents, Drops(c) PROVE NamesFit'
  <2>1. dropped' = dropped \cup {c} /\ dropped' \subseteq Contents
    BY <1>3 DEF Drops, NamesFit
  <2>2. disk' = Put(disk, c.at, [hash |-> c.hash, seconds |-> c.seconds])
    BY <1>3 DEF Drops
  <2>3. \A p \in DOMAIN disk' : disk'[p].hash \in DOMAIN Embedded
    BY <2>2, FilesAssumption DEF Put, NamesFit
  <2>4. QED
    BY <1>1, <1>2, <2>1, <2>3, NamesStay
<1>4. CASE (\E plan \in Plans : Starts(plan)) \/ Ends \/ Crashes
  <2>1. UNCHANGED <<disk, dropped>>
    BY <1>4 DEF Starts, Ends, Crashes
  <2>2. QED
    BY <1>1, <1>2, <2>1, NamesStay DEF NamesFit
<1>5. QED
  BY <1>3, <1>4

LEMMA NamesStepsFit ==
  ASSUME FilesFit, RequestsFit, NamesFit, [Next]_vars
  PROVE  NamesFit'
<1>1. KeepsRows(db, db)
  BY DEF KeepsRows, NamesFit
<1>2. CASE \/ (\E c \in Contents : Drops(c)) \/ (\E plan \in Plans : Starts(plan))
           \/ Ends \/ Crashes
  BY <1>2, QuietTells
<1>3. ASSUME NEW w \in Workers, NEW p \in job.todo, Probes(w, p) PROVE NamesFit'
  <2>1. UNCHANGED <<disk, db, dropped>>
    BY <1>3 DEF Probes
  <2>2. \/ UNCHANGED worker
        \/ \E row : worker' = [worker EXCEPT ![w] = Probed(p, disk[p], row)]
    BY <1>3 DEF Probes, Probed
  <2>3. CASE UNCHANGED worker
    BY <1>1, <2>1, <2>3, NamesStay DEF NamesFit
  <2>4. ASSUME NEW row, worker' = [worker EXCEPT ![w] = Probed(p, disk[p], row)]
        PROVE  NamesFit'
    <3> DEFINE n == Probed(p, disk[p], row)
    <3>1. n.step = "probed"
      BY ProbedRecord
    <3> HIDE DEF n
    <3>2. AsTagged(n)
      BY <3>1 DEF AsTagged, Filing, Locking
    <3>3. QED
      BY <1>1, <2>1, <2>4, <3>2, TurnsTell DEF NamesFit, n
  <2>5. QED
    BY <2>2, <2>3, <2>4
<1>4. ASSUME NEW w \in Workers, NEW a, Groups(w, a) PROVE NamesFit'
  BY <1>4, GroupsTell
<1>5. ASSUME NEW w \in Workers, Decides(w) \/ PicksTarget(w) PROVE NamesFit'
  <2> DEFINE me == worker[w]
  <2>1. /\ UNCHANGED <<disk, db, dropped>> /\ me.step \in Filing
        /\ Shaped(me) /\ AsTagged(me)
    BY <1>5 DEF Decides, PicksTarget, Filing, Locking, FilesFit, WorkersFit, NamesFit
  <2>2. CASE Finishes(w)
    BY <1>1, <2>1, <2>2, EndingsTell
  <2>3. ASSUME NEW step, worker' = [worker EXCEPT ![w] = [me EXCEPT !.step = step]]
        PROVE  NamesFit'
    <3> DEFINE n == [me EXCEPT !.step = step]
    <3>1. n.rq = me.rq
      BY <2>1 DEF Shaped
    <3> HIDE DEF n
    <3>2. AsTagged(n)
      BY <2>1, <3>1 DEF AsTagged
    <3>3. QED
      BY <1>1, <2>1, <2>3, <3>2, TurnsTell DEF NamesFit, n
  <2>4. ASSUME NEW final,
               worker' = [worker EXCEPT ![w] = [me EXCEPT !.step = "placed", !.final = final]]
        PROVE  NamesFit'
    <3> DEFINE n == [me EXCEPT !.step = "placed", !.final = final]
    <3>1. n.rq = me.rq
      BY <2>1 DEF Shaped
    <3> HIDE DEF n
    <3>2. AsTagged(n)
      BY <2>1, <3>1 DEF AsTagged
    <3>3. QED
      BY <1>1, <2>1, <2>4, <3>2, TurnsTell DEF NamesFit, n
  <2>5. \/ Finishes(w)
        \/ \E step : worker' = [worker EXCEPT ![w] = [me EXCEPT !.step = step]]
        \/ \E final : worker' = [worker EXCEPT ![w] = [me EXCEPT !.step = "placed",
                                                                 !.final = final]]
    BY <1>5 DEF Decides, PicksTarget
  <2>6. QED
    BY <2>2, <2>3, <2>4, <2>5
<1>6. ASSUME NEW w \in Workers,
             Renames(w) \/ Copies(w) \/ Removes(w) \/ CopyStops(w) \/ TriesAgain(w)
      PROVE  NamesFit'
  BY <1>6, MovesTell, TriesAgainTells
<1>7. ASSUME NEW w \in Workers, ProviderFails(w) \/ MoveFails(w) \/ ImportFails(w)
      PROVE  NamesFit'
  <2>1. /\ Finishes(w) /\ UNCHANGED <<disk, dropped>>
        /\ db' = db \/ \E reason : db' = Quarantined(db, worker[w].rq, reason)
    BY <1>7 DEF ProviderFails, MoveFails, ImportFails
  <2>2. KeepsRows(db, db')
    BY <1>1, <2>1, QuarantineKeepsRows DEF NamesFit
  <2>3. QED
    BY <2>1, <2>2, EndingsTell
<1>8. ASSUME NEW w \in Workers, FilesImport(w) PROVE NamesFit'
  <2>1. CASE Decision(db, worker[w].rq) = "published"
    BY <1>8, <2>1, PublishingTells
  <2>2. CASE Decision(db, worker[w].rq) # "published"
    <3>1. Finishes(w) /\ UNCHANGED <<disk, dropped>> /\ db' = Imported(db, worker[w].rq)
      BY <1>8 DEF FilesImport
    <3>2. KeepsRows(db, db')
      BY <2>2, <3>1, RefusalsKeepRows DEF NamesFit
    <3>3. QED
      BY <3>1, <3>2, EndingsTell
  <2>3. QED
    BY <2>1, <2>2
<1>9. CASE UNCHANGED vars
  BY <1>1, <1>9, NamesStay DEF vars, NamesFit
<1>10. QED
  BY <1>2, <1>3, <1>4, <1>5, <1>6, <1>7, <1>8, <1>9 DEF Next, Steps

LEMMA NamesStartFit == Init => NamesFit
<1> SUFFICES ASSUME Init PROVE NamesFit
  OBVIOUS
<1>1. /\ dropped = {} /\ DOMAIN disk = {} /\ "media" \in DOMAIN db /\ Published(db) = {}
      /\ \A w \in Workers : worker[w] = Idle
  BY DEF Init, EmptyCatalog, Published
<1>2. QED
  BY <1>1, RestingTells DEF NamesFit

(* What a tag inside a file states is what the file is published as: the    *)
(* answers of the providers replace only what no tag states, and the moves  *)
(* of later scans lose no name, unless a sidecar has stated another.        *)
THEOREM TagsDecideNames == Spec /\ []EveryNameHasRoom /\ []ReadsHold => []TagsAreKept
<1>1. FilesFit /\ EveryNameHasRoom /\ ReadsHold' /\ [Next]_vars => FilesFit'
  BY FilesStepsFit
<1>2. FilesFit /\ RequestsFit /\ [Next]_vars => RequestsFit'
  BY RequestsStepsFit
<1>3. FilesFit /\ RequestsFit /\ NamesFit /\ [Next]_vars => NamesFit'
  BY NamesStepsFit
<1>4. NamesFit => TagsAreKept
  BY DEF NamesFit, TagsAreKept, TagsTell
<1>5. QED
  BY <1>1, <1>2, <1>3, <1>4, FilesStartFit, LibraryStartFits, NamesStartFit, PTL DEF Spec

-----------------------------------------------------------------------------
(* A name of last resort decides nothing, or is what is chosen.             *)
LEMMA LastOfThem ==
  ASSUME NEW a, NEW b, NEW c
  PROVE  /\ a = None => First(<<a, b>>) = b
         /\ a = None /\ b # None => First(<<a, b, c>>) = b
         /\ a = None /\ b = None => First(<<a, b, c>>) = c
<1>1. ASSUME a = None PROVE First(<<a, b>>) = b
  <2>1. CASE b = None
    BY <1>1, <2>1, FirstOfThem
  <2>2. CASE b # None
    BY <1>1, <2>2, FirstOfThem
  <2>3. QED
    BY <2>1, <2>2
<1>2. ASSUME a = None, b = None, c # None PROVE First(<<a, b, c>>) = c
  <2> DEFINE s == <<a, b, c>>
  <2>1. DOMAIN s = {1, 2, 3} /\ s[1] = a /\ s[2] = b /\ s[3] = c
    OBVIOUS
  <2> HIDE DEF s
  <2>2. First(s) = s[3]
    BY <1>2, <2>1, FirstIsKnown
  <2>3. QED
    BY <2>1, <2>2 DEF s
<1>3. ASSUME a = None, b = None, c = None PROVE First(<<a, b, c>>) = None
  <2> DEFINE s == <<a, b, c>>
  <2>1. DOMAIN s = {1, 2, 3} /\ s[1] = a /\ s[2] = b /\ s[3] = c
    OBVIOUS
  <2>2. {n \in DOMAIN s : s[n] # None} = {}
    BY <1>3, <2>1
  <2> HIDE DEF s
  <2>3. QED
    BY <2>2 DEF First, s
<1>4. ASSUME a = None, b # None PROVE First(<<a, b, c>>) = b
  <2> DEFINE s == <<a, b, c>>
  <2>1. DOMAIN s = {1, 2, 3} /\ s[1] = a /\ s[2] = b
    OBVIOUS
  <2> HIDE DEF s
  <2>2. First(s) = s[2]
    BY <1>4, <2>1, FirstIsKnown
  <2>3. QED
    BY <2>1, <2>2 DEF s
<1>5. QED
  BY <1>1, <1>2, <1>3, <1>4

(* The names a scan chooses for what it moved there: those that were chosen *)
(* before, or what those have become as a folder or as a file name.         *)
LEMMA NamedAgain ==
  ASSUME NEW a, NEW tagged, tagged <=> a # None, NEW candidate, NEW here, NEW next
  PROVE  \/ Named(First(<<a, next>>), tagged, candidate)
              = Named(First(<<a, here>>), tagged, candidate)
         \/ /\ Named(First(<<a, next>>), tagged, candidate) = next
            /\ a = None /\ candidate = None
<1>1. CASE a # None
  <2>1. First(<<a, next>>) = a
    BY <1>1, FirstOfThem
  <2>2. First(<<a, here>>) = a
    BY <1>1, FirstOfThem
  <2>3. QED
    BY <2>1, <2>2
<1>2. CASE a = None
  <2>1. First(<<a, next>>) = next
    BY <1>2, LastOfThem
  <2>2. QED
    BY <1>2, <2>1 DEF Named
<1>3. QED
  BY <1>1, <1>2

LEMMA NamedAgainByThree ==
  ASSUME NEW a, NEW b, NEW tagged, NEW candidate, NEW here, NEW next
  PROVE  \/ Named(First(<<a, b, next>>), tagged, candidate)
              = Named(First(<<a, b, here>>), tagged, candidate)
         \/ Named(First(<<a, b, next>>), tagged, candidate) = next
<1>1. CASE a # None
  <2>1. First(<<a, b, next>>) = a
    BY <1>1, FirstOfThem
  <2>2. First(<<a, b, here>>) = a
    BY <1>1, FirstOfThem
  <2>3. QED
    BY <2>1, <2>2
<1>2. CASE a = None /\ b # None
  <2>1. First(<<a, b, next>>) = b
    BY <1>2, LastOfThem
  <2>2. First(<<a, b, here>>) = b
    BY <1>2, LastOfThem
  <2>3. QED
    BY <2>1, <2>2
<1>3. CASE a = None /\ b = None
  <2>1. First(<<a, b, next>>) = next
    BY <1>3, LastOfThem
  <2>2. QED
    BY <2>1 DEF Named
<1>4. QED
  BY <1>1, <1>2, <1>3

LEMMA PathParts ==
  ASSUME NEW a, NEW b, NEW c, NEW d
  PROVE  /\ <<a, b, c, d>>[1] = a /\ <<a, b, c, d>>[2] = b
         /\ <<a, b, c, d>>[3] = c /\ <<a, b, c, d>>[4] = d
OBVIOUS

LEMMA Parents ==
  ASSUME NEW p PROVE ParentComponent(p, 0) = p[3] /\ ParentComponent(p, 1) = p[2]
BY DEF ParentComponent

(* What the next scan makes of the path that the first one chose.           *)
LEMMA EpisodesSettle ==
  ASSUME NEW tags, NEW p, NEW answers, NEW g, g = ChosenPodcast(tags, p, answers),
         NEW next, next = ManagedPath(g), NEW again, again = ChosenPodcast(tags, next, answers)
  PROVE  \/ ManagedPath(again) = next
         \/ NumberedAnew(tags, "podcast", answers)
         \/ CleanedAnew(next, again)
<1> DEFINE tagged == PodcastEvidence(tags)
           show == Best(answers, <<"podcast title">>)
           episode == Best(answers, <<"episode title">>)
           group(q) == Named(First(<<tags.show, tags.album, ParentComponent(q, 0)>>),
                             tagged.group, show)
           title(q) == Named(First(<<tags.title, FileStem(q)>>), tagged.title, episode)
<1>1. \A q : LET c == ChosenPodcast(tags, q, answers)
             IN  /\ c.kind = "podcast" /\ c.position = tags.number
                 /\ c.group = group(q) /\ c.title = title(q)
  BY DEF ChosenPodcast, LocalPodcast
<1>2. /\ g.kind = "podcast" /\ g.position = tags.number
      /\ g.group = group(p) /\ g.title = title(p)
  BY <1>1
<1> HIDE DEF show, episode
<1>3. next = <<"library", Subtree, Clean(g.group), Numbered("podcast", g.title, tags.number)>>
  BY <1>2 DEF ManagedPath, PodcastFilename
<1>4. next[1] = "library" /\ next[2] = Subtree /\ next[3] = Clean(g.group)
      /\ next[4] = Numbered("podcast", g.title, tags.number)
  BY <1>3, PathParts
<1>5. again.kind = "podcast" /\ again.position = tags.number
      /\ again.group = group(next) /\ again.title = title(next)
  BY <1>1
<1>6. again.group = g.group \/ again.group = next[3]
  <2>1. group(next) = group(p) \/ group(next) = ParentComponent(next, 0)
    BY NamedAgainByThree
  <2>2. QED
    BY <1>2, <1>5, <2>1, Parents
<1>7. again.title = g.title
      \/ (again.title = next[4] /\ tags.title = None /\ episode = None)
  <2>1. tagged.title <=> tags.title # None
    BY DEF PodcastEvidence
  <2>2. title(next) = title(p)
        \/ (title(next) = FileStem(next) /\ tags.title = None /\ episode = None)
    BY <2>1, NamedAgain
  <2>3. QED
    BY <1>2, <1>5, <2>2 DEF FileStem
<1> HIDE DEF tagged, group, title
<1>8. CASE /\ again.group = g.group \/ Clean(next[3]) = next[3]
           /\ again.title = g.title
              \/ (again.title = next[4] /\ tags.number = 0
                  /\ Numbered("podcast", next[4], 0) = next[4])
  <2>1. Clean(again.group) = next[3]
    BY <1>4, <1>6, <1>8
  <2>2. Numbered("podcast", again.title, again.position) = next[4]
    BY <1>4, <1>5, <1>8
  <2>3. ManagedPath(again) = <<"library", Subtree, next[3], next[4]>>
    BY <1>5, <2>1, <2>2 DEF ManagedPath, PodcastFilename
  <2>4. QED
    BY <1>3, <1>4, <2>3
<1>9. CASE again.group # g.group /\ Clean(next[3]) # next[3]
  BY <1>6, <1>9 DEF CleanedAnew
<1>10. CASE /\ again.title # g.title
            /\ tags.number # 0 \/ Numbered("podcast", next[4], 0) # next[4]
  BY <1>5, <1>7, <1>10 DEF CleanedAnew, NumberedAnew, episode
<1>11. QED
  BY <1>7, <1>8, <1>9, <1>10

LEMMA TracksSettle ==
  ASSUME NEW tags, NEW p, NEW answers, NEW g, g = ChosenMusic(tags, p, answers),
         NEW next, next = ManagedPath(g), NEW again, again = ChosenMusic(tags, next, answers)
  PROVE  \/ ManagedPath(again) = next
         \/ NumberedAnew(tags, "music", answers)
         \/ CleanedAnew(next, again)
<1> DEFINE tagged == MusicEvidence(tags)
           artist == Best(answers, <<"album artist", "artist">>)
           album == Best(answers, <<"album title">>)
           track == Best(answers, <<"track title">>)
           owner(q) == Named(IF IsCompilation(tags) THEN Various
                             ELSE First(<<tags.owner, tags.artist, ParentComponent(q, 1)>>),
                             tagged.owner, artist)
           group(q) == Named(First(<<tags.album, ParentComponent(q, 0)>>), tagged.group, album)
           title(q) == Named(First(<<tags.title, FileStem(q)>>), tagged.title, track)
<1>1. \A q : LET c == ChosenMusic(tags, q, answers)
             IN  /\ c.kind = "music" /\ c.position = tags.number /\ c.owner = owner(q)
                 /\ c.group = group(q) /\ c.title = title(q)
  BY DEF ChosenMusic, LocalMusic
<1>2. /\ g.kind = "music" /\ g.position = tags.number
      /\ g.owner = owner(p) /\ g.group = group(p) /\ g.title = title(p)
  BY <1>1
<1> HIDE DEF artist, album, track
<1>3. next = <<"library", Clean(g.owner), Clean(g.group),
              Numbered("music", g.title, tags.number)>>
  BY <1>2 DEF ManagedPath, MusicFilename
<1>4. next[1] = "library" /\ next[2] = Clean(g.owner) /\ next[3] = Clean(g.group)
      /\ next[4] = Numbered("music", g.title, tags.number)
  BY <1>3, PathParts
<1>5. again.kind = "music" /\ again.position = tags.number /\ again.owner = owner(next)
      /\ again.group = group(next) /\ again.title = title(next)
  BY <1>1
<1>6. again.owner = g.owner \/ again.owner = next[2]
  <2>1. owner(next) = owner(p) \/ owner(next) = ParentComponent(next, 1)
    <3>1. CASE IsCompilation(tags)
      BY <3>1
    <3>2. CASE ~IsCompilation(tags)
      BY <3>2, NamedAgainByThree
    <3>3. QED
      BY <3>1, <3>2
  <2>2. QED
    BY <1>2, <1>5, <2>1, Parents
<1>7. again.group = g.group \/ again.group = next[3]
  <2>1. tagged.group <=> tags.album # None
    BY DEF MusicEvidence
  <2>2. group(next) = group(p) \/ group(next) = ParentComponent(next, 0)
    BY <2>1, NamedAgain
  <2>3. QED
    BY <1>2, <1>5, <2>2, Parents
<1>8. again.title = g.title
      \/ (again.title = next[4] /\ tags.title = None /\ track = None)
  <2>1. tagged.title <=> tags.title # None
    BY DEF MusicEvidence
  <2>2. title(next) = title(p)
        \/ (title(next) = FileStem(next) /\ tags.title = None /\ track = None)
    BY <2>1, NamedAgain
  <2>3. QED
    BY <1>2, <1>5, <2>2 DEF FileStem
<1> HIDE DEF tagged, owner, group, title
<1>9. CASE /\ again.owner = g.owner \/ Clean(next[2]) = next[2]
           /\ again.group = g.group \/ Clean(next[3]) = next[3]
           /\ again.title = g.title
              \/ (again.title = next[4] /\ tags.number = 0
                  /\ Numbered("music", next[4], 0) = next[4])
  <2>1. Clean(again.owner) = next[2] /\ Clean(again.group) = next[3]
    BY <1>4, <1>6, <1>7, <1>9
  <2>2. Numbered("music", again.title, again.position) = next[4]
    BY <1>4, <1>5, <1>9
  <2>3. ManagedPath(again) = <<"library", next[2], next[3], next[4]>>
    BY <1>5, <2>1, <2>2 DEF ManagedPath, MusicFilename
  <2>4. QED
    BY <1>3, <1>4, <2>3
<1>10. CASE again.owner # g.owner /\ Clean(next[2]) # next[2]
  BY <1>5, <1>6, <1>10 DEF CleanedAnew
<1>11. CASE again.group # g.group /\ Clean(next[3]) # next[3]
  BY <1>7, <1>11 DEF CleanedAnew
<1>12. CASE /\ again.title # g.title
            /\ tags.number # 0 \/ Numbered("music", next[4], 0) # next[4]
  BY <1>5, <1>8, <1>12 DEF CleanedAnew, NumberedAnew, track
<1>13. QED
  BY <1>8, <1>9, <1>10, <1>11, <1>12

(* A library file that a scan has moved stays where it is when the next     *)
(* scan has the same answers, whatever the tags, the answers and the        *)
(* cleaning of names: but for a number before a file name, a name that      *)
(* cleaning shortens once more, and music in the folder of the podcasts.    *)
THEOREM ScansComeToRest == Spec => []ScansSettle
<1>1. ScansSettle
  <2> SUFFICES ASSUME NEW p \in DOMAIN disk, NEW answers \in Answers[disk[p].hash],
                      NEW tags, tags = Embedded[disk[p].hash],
                      NEW g, g = ChosenGrouping(tags, p, TRUE, answers),
                      NEW next, next = ManagedPath(g),
                      NEW again, again = ChosenGrouping(tags, next, TRUE, answers)
               PROVE  \/ ManagedPath(again) = next
                      \/ NumberedAnew(tags, g.kind, answers)
                      \/ CleanedAnew(next, again)
                      \/ g.kind = "music" /\ next[2] = Subtree
    BY DEF ScansSettle, NextGrouping
  <2>1. CASE IsPodcast(tags, p, TRUE)
    <3>1. g = ChosenPodcast(tags, p, answers) /\ g.kind = "podcast"
      BY <2>1 DEF ChosenGrouping, ChosenPodcast, LocalPodcast
    <3>2. next[1] = "library" /\ next[2] = Subtree
      BY <3>1 DEF ManagedPath
    <3>3. again = ChosenPodcast(tags, next, answers)
      BY <3>2, Parents DEF ChosenGrouping, IsPodcast, Root
    <3>4. QED
      BY <3>1, <3>3, EpisodesSettle
  <2>2. CASE ~IsPodcast(tags, p, TRUE) /\ next[2] # Subtree
    <3>1. g = ChosenMusic(tags, p, answers) /\ g.kind = "music"
      BY <2>2 DEF ChosenGrouping, ChosenMusic, LocalMusic
    <3>2. ~IsPodcast(tags, next, TRUE)
      BY <2>2, Parents DEF IsPodcast
    <3>3. again = ChosenMusic(tags, next, answers)
      BY <3>2 DEF ChosenGrouping
    <3>4. QED
      BY <3>1, <3>3, TracksSettle
  <2>3. CASE ~IsPodcast(tags, p, TRUE) /\ next[2] = Subtree
    <3>1. g.kind = "music"
      BY <2>3 DEF ChosenGrouping, ChosenMusic, LocalMusic
    <3>2. QED
      BY <2>3, <3>1
  <2>4. QED
    BY <2>1, <2>2, <2>3
<1>2. QED
  BY <1>1, PTL
=============================================================================
