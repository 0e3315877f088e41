-------------------------- MODULE MCCatalogBrowse --------------------------
(***************************************************************************)
(* Five spellings of three names, three files of music and two of          *)
(* podcasts.  One import respells an album, one moves a file to another    *)
(* track, one publishes the same names from another album artist, one      *)
(* moves an episode to another podcast.  Two write no projections: one      *)
(* names another artist of a track, one may be the first of its episode.   *)
(***************************************************************************)
EXTENDS CatalogBrowse, TLC

MCNames == {"Ash", "The Ash", "Bea", "(Bea)", "Cat"}
MCNorm == "Ash" :> 1 @@ "The Ash" :> 1 @@ "Bea" :> 2 @@ "(Bea)" :> 2 @@ "Cat" :> 3
MCSortKey == "Ash" :> 2 @@ "The Ash" :> 3 @@ "Bea" :> 4 @@ "(Bea)" :> 1 @@ "Cat" :> 5
MCNameKey == "Ash" :> 2 @@ "The Ash" :> 6 @@ "Bea" :> 4 @@ "(Bea)" :> 1 @@ "Cat" :> 5

Music(owner, creator, group, title, position) ==
    [kind |-> "music", owner |-> owner, creator |-> creator, group |-> group,
     title |-> title, position |-> position]
Podcast(group, title, position) ==
    [kind |-> "podcast", owner |-> None, creator |-> None, group |-> group,
     title |-> title, position |-> position]

File(path, hash, seconds, grouping) ==
    [path |-> path, managed |-> <<path, grouping>>, hash |-> hash, seconds |-> seconds,
     grouping |-> grouping, reuse |-> FALSE, rebuild |-> TRUE]

\* By a plan that leaves the projections as they are.
Quiet(file) == [file EXCEPT !.rebuild = FALSE]

MCImports ==
    {File("m1", 1, 100, Music("Ash", "Ash", "Bea", "Cat", 1)),
     File("m2", 2, 100, Music("The Ash", "Cat", "(Bea)", "Bea", 2)),
     File("m1", 1, 100, Music("Ash", "Bea", "Bea", "Ash", 1)),
     File("m3", 3, 200, Music("Cat", "Ash", "Bea", "Cat", 1)),
     File("p1", 4, 100, Podcast("Cat", "Ash", 1)),
     File("p2", 5, 100, Podcast("Cat", "Bea", 0)),
     File("p1", 4, 100, Podcast("Bea", "Ash", 2)),
     Quiet(File("m1", 1, 100, Music("Ash", "Cat", "Bea", "Cat", 1))),
     Quiet(File("p2", 5, 100, Podcast("Cat", "Bea", 0)))}
=============================================================================
