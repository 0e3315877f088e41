--------------------------- MODULE MCCatalogFiles ---------------------------
(***************************************************************************)
(* Four files: two of the same content, two in a podcast folder the name   *)
(* of which ends in dots, and one that a sidecar puts in another album.    *)
(* The providers know the first by another album, the second weakly so.    *)
(* A copy of the first that stops has not written its tags: the providers  *)
(* know nothing of it, or a title of which nothing is left when it is      *)
(* normalized.                                                             *)
(* A name is a word and the marks around it: 0 for the number of a track,  *)
(* n for the nth copy, 8 for a blank and a dot at the end, 9 for a blank.  *)
(* Of those at the end a cleaning takes one dot and, next time, its blank. *)
(***************************************************************************)
EXTENDS CatalogFiles

Words == {"Ash", "Bea", "Various", "Podcasts", "..."}
Marks == UNION {[1..n -> {0, 2, 3, 4, 5, 6, 8, 9}] : n \in 0..5}
Word(word) == <<word, <<>>>>
Ash == Word("Ash")
Bea == Word("Bea")

MCNames == Words \X Marks
Place == "..." :> 0 @@ "Ash" :> 1 @@ "Bea" :> 2 @@ "Various" :> 3 @@ "Podcasts" :> 4
Digits(marks) ==
    LET numbers == SelectSeq(marks, LAMBDA mark : mark < 8)
        digit(i) == IF i > Len(numbers) THEN 0 ELSE numbers[i] + 1
    IN  digit(1) + 8 * (digit(2) + 8 * (digit(3) + 8 * (digit(4) + 8 * digit(5))))
MCNorm == [n \in MCNames |-> Place[n[1]] + 5 * Digits(n[2])]
MCVarious == Word("Various")
MCSubtree == Word("Podcasts")
EndsWith(marks, mark) == marks # <<>> /\ Last(marks) = mark
MCClean(name) ==
    LET trimmed == IF EndsWith(name[2], 9) THEN Front(name[2]) ELSE name[2]
    IN  <<name[1], IF EndsWith(trimmed, 8) THEN Append(Front(trimmed), 9) ELSE trimmed>>
MCCopyName(name, n) == <<name[1], Append(name[2], n)>>
MCNumbered(kind, title, position) ==
    LET cleaned == MCClean(title)
    IN  IF position = 0 THEN cleaned ELSE <<cleaned[1], <<0>> \o cleaned[2]>>

Content(folders, name, hash, seconds, sidecar) ==
    [at |-> <<"dropbox">> \o folders \o <<name>>, hash |-> hash, seconds |-> seconds,
     sidecar |-> sidecar]

Series == <<Word("Podcasts"), <<"Bea", <<8, 8>>>>>>

MCContents ==
    {Content(<<Ash, Ash>>, Bea, 1, 100, <<>>), Content(Series, Ash, 1, 100, <<>>),
     Content(<<Ash, Ash>>, Ash, 2, 200, [album |-> Bea]), Content(Series, Ash, 3, 100, <<>>)}

MCEmbedded ==
    (1 :> [NoTags EXCEPT !.title = Ash, !.artist = Ash, !.number = 1]) @@
    (2 :> [NoTags EXCEPT !.number = 1]) @@
    (3 :> NoTags) @@
    (4 :> NoTags)

MCHalves == (1 :> {[hash |-> 4, seconds |-> 50]}) @@ (2 :> {}) @@ (3 :> {}) @@ (4 :> {})

Says(field, name, confidence) ==
    [provider |-> "musicbrainz", field |-> field, value |-> name,
     confidence |-> confidence, accepted |-> TRUE]

MCAnswers ==
    (1 :> {<<Says("album title", Bea, 90), Says("track title", Bea, 90)>>}) @@
    (2 :> {<<Says("album title", Bea, 50)>>}) @@
    (3 :> {<<Says("podcast title", Ash, 90), Says("track artist", Bea, 90)>>}) @@
    (4 :> {<<>>, <<Says("track title", Word("..."), 90)>>})

Plan(roots, reuse, strict) == [roots |-> roots, reuse |-> reuse, strict |-> strict]

MCPlans ==
    {Plan({"dropbox"}, FALSE, FALSE), Plan({"library", "dropbox"}, TRUE, FALSE),
     Plan({"library"}, FALSE, TRUE)}

Overlaps == Permutations(Workers)
=============================================================================
