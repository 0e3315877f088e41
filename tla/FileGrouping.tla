---------------------------- MODULE FileGrouping ----------------------------
(***************************************************************************)
(* Which song a file is taken for (src/src/pipeline.rs).  The guess from   *)
(* its tags, from the folders it lies in and from its file name comes      *)
(* first; what the providers answer replaces the parts of the guess that   *)
(* no tag states; and the names that result are the path the file is moved *)
(* to.  The next scan guesses from that path: the folders of the library   *)
(* remember what a provider said, and what somebody called a folder.       *)
(*                                                                         *)
(* The extension is left out, and the year, which decides neither song nor *)
(* path.                                                                   *)
(***************************************************************************)
EXTENDS CatalogStore, SequencesExt

CONSTANTS
    Various,            \* likely_compilation_artist
    Subtree,            \* the folder of the library that holds the podcasts
    Threshold,          \* PROVIDER_AUTO_ACCEPT_CONFIDENCE_THRESHOLD
    Clean(_),           \* sanitize_path_component
    Numbered(_, _, _),  \* a title behind its position, for a kind of media
    CopyName(_, _)      \* the file name with a number behind it

\* Paths: a root, two folders and a file name.
Root(p) == p[1]

\* Mutant of ParentComponent: counted from the root.
ParentFromRoot(p, level) == p[2 + level]

ParentComponent(p, level) == p[3 - level]

FileStem(p) == p[4]

\* What a file may say of itself, in its tags or beside it.
NoTags == [kind |-> None, show |-> None, album |-> None, title |-> None, owner |-> None,
           artist |-> None, performer |-> None, compilation |-> FALSE, number |-> 0]

Least(S) == CHOOSE n \in S : \A m \in S : n <= m

\* The first of the choices that is known.
First(choices) ==
    LET known == {n \in DOMAIN choices : choices[n] # None}
    IN  IF known = {} THEN None ELSE choices[Least(known)]

-----------------------------------------------------------------------------
\* The local guess.  As long as the library has no folder of podcasts, a folder of
\* that name makes its files podcasts anywhere.
IsPodcast(tags, p, rooted) ==
    \/ tags.kind = "podcast"
    \/ tags.show # None
    \/ rooted /\ Root(p) = "library" /\ ParentComponent(p, 1) = Subtree
    \/ ~rooted /\ Subtree \in {ParentComponent(p, 0), ParentComponent(p, 1)}

IsCompilation(tags) == tags.compilation \/ tags.owner = Various

LocalMusic(tags, p) ==
    [kind |-> "music",
     owner |-> IF IsCompilation(tags) THEN Various
               ELSE First(<<tags.owner, tags.artist, ParentComponent(p, 1)>>),
     creator |-> First(<<tags.artist, tags.performer, tags.owner, ParentComponent(p, 1)>>),
     group |-> First(<<tags.album, ParentComponent(p, 0)>>),
     title |-> First(<<tags.title, FileStem(p)>>),
     position |-> tags.number]

LocalPodcast(tags, p) ==
    [kind |-> "podcast", owner |-> None, creator |-> None,
     group |-> First(<<tags.show, tags.album, ParentComponent(p, 0)>>),
     title |-> First(<<tags.title, FileStem(p)>>),
     position |-> tags.number]

-----------------------------------------------------------------------------
\* The answers of the providers, in the order they were asked.
Accepted(answer) == answer.accepted /\ answer.confidence >= Threshold

Candidates(answers, field) ==
    SelectSeq(answers, LAMBDA answer :
        /\ answer.provider # "local_sidecars"
        /\ answer.field = field
        /\ Accepted(answer))

\* The surest answer, the earlier of two that are as sure.
Surest(found) ==
    LET best == CHOOSE n \in DOMAIN found :
            /\ \A m \in DOMAIN found : found[m].confidence <= found[n].confidence
            /\ \A m \in 1..(n - 1) : found[m].confidence < found[n].confidence
    IN  IF found = <<>> THEN None ELSE found[best].value

\* Of the first of the fields that has one.
Best(answers, fields) ==
    First([n \in DOMAIN fields |-> Surest(Candidates(answers, fields[n]))])

\* Mutant of Named: an answer replaces what a tag states.
NamedByProvider(name, tagged, candidate) == IF candidate = None THEN name ELSE candidate

\* apply_string_candidate: a name that a tag states is not replaced.
Named(name, tagged, candidate) == IF tagged \/ candidate = None THEN name ELSE candidate

\* Which names a tag states.
MusicEvidence(tags) ==
    [owner |-> IsCompilation(tags) \/ tags.owner # None,
     creator |-> tags.artist # None \/ tags.performer # None,
     group |-> tags.album # None, title |-> tags.title # None]

PodcastEvidence(tags) ==
    [group |-> tags.show # None \/ tags.album # None, title |-> tags.title # None]

ChosenMusic(tags, p, answers) ==
    LET tagged == MusicEvidence(tags)
    IN  [LocalMusic(tags, p) EXCEPT
            !.owner = Named(@, tagged.owner, Best(answers, <<"album artist", "artist">>)),
            !.creator = Named(@, tagged.creator, Best(answers, <<"track artist", "artist">>)),
            !.group = Named(@, tagged.group, Best(answers, <<"album title">>)),
            !.title = Named(@, tagged.title, Best(answers, <<"track title">>))]

ChosenPodcast(tags, p, answers) ==
    LET tagged == PodcastEvidence(tags)
    IN  [LocalPodcast(tags, p) EXCEPT
            !.group = Named(@, tagged.group, Best(answers, <<"podcast title">>)),
            !.title = Named(@, tagged.title, Best(answers, <<"episode title">>))]

ChosenGrouping(tags, p, rooted, answers) ==
    IF IsPodcast(tags, p, rooted) THEN ChosenPodcast(tags, p, answers)
    ELSE ChosenMusic(tags, p, answers)

-----------------------------------------------------------------------------
\* Where the file goes.  A copy of another file gets a number behind its name.
MusicFilename(g) == Numbered("music", g.title, g.position)

PodcastFilename(g) == Numbered("podcast", g.title, g.position)

ManagedPath(g) ==
    IF g.kind = "music"
    THEN <<"library", Clean(g.owner), Clean(g.group), MusicFilename(g)>>
    ELSE <<"library", Subtree, Clean(g.group), PodcastFilename(g)>>

CopyOf(p, n) == [p EXCEPT ![4] = CopyName(@, n)]
=============================================================================
