---------------------------- MODULE CatalogFiles ----------------------------
(***************************************************************************)
(* The import pipeline between the disk and the catalog                    *)
(* (src/src/pipeline.rs): a job lists the media files under its roots and  *)
(* hands them to its workers; a worker probes a file, decides by what its  *)
(* tags, its folders and the providers say how it is grouped, moves it to  *)
(* the managed path of that grouping and publishes it.  Nothing makes the  *)
(* move and the transaction one step: workers overlap, an attempt to move  *)
(* or a statement fails, and the process stops between the two, or in the  *)
(* middle of a copy.                                                       *)
(*                                                                         *)
(* One job runs at a time, taken by the only import worker                 *)
(* (src/src/services.rs); ImportJobs models how it is claimed and retried. *)
(* Retries of quarantine items, sidecars, artwork and folder images are    *)
(* left out, but for the failure of writing them after the move.           *)
(***************************************************************************)
EXTENDS FileGrouping

CONSTANTS
    Contents,   \* the files that are dropped: where, hash, length, sidecar
    Embedded,   \* by hash: the tags inside the file
    Answers,    \* by hash: what the providers may answer
    Halves,     \* by hash: what a copy that stops may have written of it
    Plans,      \* the roots a job walks, and whether its plan refreshes nothing
    Workers,    \* scan_thread_count
    FILE_OPERATION_MAX_ATTEMPTS,
    MaxJobs,    \* bound: jobs that are started
    MaxFaults,  \* bound: failures and crashes; the attempts of one move fail together
    MaxCopies   \* bound: numbers tried for a managed path that is taken

ASSUME FilesAssumption ==
    /\ \A c \in Contents : /\ Root(c.at) = "dropbox"
                           /\ c.hash \in DOMAIN Embedded \cap DOMAIN Answers
                           /\ DOMAIN c.sidecar \subseteq DOMAIN NoTags
    /\ \A hash \in DOMAIN Embedded :
          /\ DOMAIN Embedded[hash] = DOMAIN NoTags
          /\ \A part \in Halves[hash] : part.hash \in DOMAIN Embedded \cap DOMAIN Answers
    /\ FILE_OPERATION_MAX_ATTEMPTS \in Nat \ {0}
    /\ \A plan \in Plans : plan.roots \subseteq {"library", "dropbox"}
    /\ None \notin Plans
    /\ MaxJobs \in Nat /\ MaxFaults \in Nat /\ MaxCopies \in Nat

VARIABLES
    db,
    disk,       \* by path: the content of the media file there
    job,        \* the job that runs: its plan and the paths not taken yet
    worker,
    jobs,       \* jobs started
    faults,     \* failures and crashes so far
    dropped,    \* history: the hashes that have been dropped
    stray,      \* history: library paths a failed attempt or import, a crash or a late
                \* duplicate left
    moved,      \* history: library paths a job has moved a file away from
    replaced,   \* history: library paths whose row went to another file of its source path
    unmoved     \* history: source paths of rows that were published without the move

vars == <<db, disk, job, worker, jobs, faults, dropped, stray, moved, replaced, unmoved>>

NoJob == [plan |-> None, todo |-> {}]
NoPath == <<"nowhere">>
Idle == [step |-> "idle", path |-> NoPath, read |-> None, existing |-> None, rq |-> None,
         final |-> NoPath, attempt |-> 1]

Removed(p) == [q \in DOMAIN disk \ {p} |-> disk[q]]
Finishes(w) == worker' = [worker EXCEPT ![w] = Idle]
Faults == faults < MaxFaults /\ faults' = faults + 1

\* The tags of a file that was read: what is inside it and, where it was dropped,
\* beside it.
TagsOf(p, hash) ==
    LET inside == Embedded[hash]
        beside == {c \in dropped : c.at = p}
        sidecar == (CHOOSE c \in beside : TRUE).sidecar
    IN  IF beside = {} THEN inside
        ELSE [field \in DOMAIN inside |->
                 IF field \in DOMAIN sidecar THEN sidecar[field] ELSE inside[field]]

\* Whether the library has a folder of podcasts by now.
Rooted == \E p \in DOMAIN disk \cup moved : Root(p) = "library" /\ ParentComponent(p, 1) = Subtree

-----------------------------------------------------------------------------
\* Somebody copies a file into the dropbox, over no other.  A job that runs has listed
\* its files: it is as if the file came after it.
Drops(c) ==
    /\ job = NoJob /\ c \notin dropped /\ c.at \notin DOMAIN disk
    /\ dropped' = dropped \cup {c}
    /\ disk' = Put(disk, c.at, [hash |-> c.hash, seconds |-> c.seconds])
    /\ UNCHANGED <<db, job, worker, jobs, faults, stray, moved>>

\* A job lists the files under its roots before it takes the first of them.
Starts(plan) ==
    /\ job = NoJob /\ jobs < MaxJobs
    /\ jobs' = jobs + 1
    /\ job' = [plan |-> plan, todo |-> {p \in DOMAIN disk : Root(p) \in plan.roots}]
    /\ UNCHANGED <<db, disk, worker, faults, dropped, stray, moved>>

Ends ==
    /\ job # NoJob /\ job.todo = {} /\ \A w \in Workers : worker[w] = Idle
    /\ job' = NoJob
    /\ UNCHANGED <<db, disk, worker, jobs, faults, dropped, stray, moved>>

-----------------------------------------------------------------------------
\* import_one, step by step.  Only the worker that takes a path moves the file that
\* is there, so that a file is still there, though a copy may have been written over
\* the one that was read.  A plan that refreshes nothing leaves a
\* managed file alone.
Probes(w, p) ==
    LET known == ByManagedPath(db, p, disk[p].hash)
        probed(row) == [Idle EXCEPT !.step = "probed", !.path = p, !.read = disk[p],
                                    !.existing = row]
    IN  /\ worker[w] = Idle /\ p \in job.todo
        /\ job' = [job EXCEPT !.todo = @ \ {p}]
        /\ \/ known # {} /\ job.plan.reuse /\ UNCHANGED worker
           \/ /\ ~job.plan.reuse
              /\ \E row \in known : worker' = [worker EXCEPT ![w] = probed(row)]
           \/ known = {} /\ worker' = [worker EXCEPT ![w] = probed(None)]
        /\ UNCHANGED <<db, disk, jobs, faults, dropped, stray, moved>>

\* Mutant of Keys: only imports of the same content exclude each other.
KeysOfContent(hash, g) == {<<"hash", hash>>}

\* acquire_import_locks.  The keys are taken in sorted order: nobody waits for
\* somebody who waits for it, and taking them at once loses nothing.
Keys(hash, g) ==
    {<<"hash", hash>>} \cup
    (IF Stable(g)
     THEN {<<"managed", ManagedPath(g)>>, <<"folder", SubSeq(ManagedPath(g), 1, 3)>>} ELSE {})

Held(w) ==
    IF worker[w].step \in {"idle", "probed"} THEN {}
    ELSE Keys(worker[w].read.hash, worker[w].rq.grouping)

\* The providers are asked by a plan that refreshes.  A published file that stays
\* where it is keeps its row, which is known by where the file came from.
Groups(w, answers) ==
    LET me == worker[w]
        g == ChosenGrouping(TagsOf(me.path, me.read.hash), me.path, Rooted, answers)
        target == IF Stable(g) THEN ManagedPath(g) ELSE None
        stays == me.existing # None /\ target = me.path
        request == [path |-> IF stays THEN me.existing ELSE me.path, managed |-> target,
                    hash |-> me.read.hash, seconds |-> me.read.seconds, grouping |-> g,
                    reuse |-> job.plan.reuse, rebuild |-> ~job.plan.reuse]
    IN  /\ me.step = "probed"
        /\ job.plan.reuse => answers = <<>>
        /\ \A v \in Workers : Held(v) \cap Keys(me.read.hash, g) = {}
        /\ worker' = [worker EXCEPT ![w] = [me EXCEPT !.step = "locked", !.rq = request]]
        /\ UNCHANGED <<db, disk, job, jobs, faults, dropped, stray, moved>>

\* A provider failed, in a job that was started to have its answer.
ProviderFails(w) ==
    /\ worker[w].step = "locked" /\ job.plan.strict
    /\ db' = Quarantined(db, worker[w].rq, "metadata_failure")
    /\ Finishes(w)
    /\ Faults
    /\ UNCHANGED <<disk, job, jobs, dropped, stray, moved>>

\* hash_fallback_matches_current_managed_file, of a file that was not found by its
\* managed path: of the rows with its content the query returns one.
Fallback(w) ==
    {q \in Published(db) : /\ db.media[q].hash = worker[w].read.hash
                           /\ worker[w].rq.managed = worker[w].path /\ worker[w].rq.reuse}

IsThis(w, q) ==
    \/ db.media[q].managed = worker[w].path
    \/ db.media[q].managed = None /\ Root(q) = "dropbox"

Decides(w) ==
    LET me == worker[w]
        stable == Stable(me.rq.grouping)
        unique == stable /\ Duplicates(db, me.rq) = {}
    IN  /\ me.step = "locked"
        /\ \/ \E q \in Fallback(w) : stable /\ IsThis(w, q) /\ Finishes(w)
           \/ /\ ~stable \/ Fallback(w) = {} \/ \E q \in Fallback(w) : ~IsThis(w, q)
              /\ worker' = [worker EXCEPT ![w] = [me EXCEPT !.step = IF unique THEN "unique" ELSE "filed"]]
        /\ UNCHANGED <<db, disk, job, jobs, faults, dropped, stray, moved>>

-----------------------------------------------------------------------------
\* materialize_managed_local_files: where to, and the move.

\* Mutant of UniqueTarget: what lies at the managed path is not looked at.
TargetAsAsked(path, hash, g) == ManagedPath(g)

UniqueTarget(path, hash, g) ==
    LET target == ManagedPath(g)
        free == {n \in 2..MaxCopies : CopyOf(target, n) \notin DOMAIN disk}
    IN  IF \/ target \notin DOMAIN disk \/ target = path
           \/ disk[target].hash = hash \/ free = {}
        THEN target
        ELSE CopyOf(target, Least(free))

PicksTarget(w) ==
    LET me == worker[w]
    IN  /\ me.step = "unique"
        /\ worker' = [worker EXCEPT ![w] = [me EXCEPT !.step = "placed",
                          !.final = UniqueTarget(me.path, me.read.hash, me.rq.grouping)]]
        /\ UNCHANGED <<db, disk, job, jobs, faults, dropped, stray, moved>>

\* Mutant of Filed: the catalog is told the path that was asked for.
FiledAsAsked(me) == [me EXCEPT !.step = "filed"]

Filed(me) == [me EXCEPT !.step = "filed", !.rq.managed = me.final]

Leaves(me) ==
    moved' = IF Root(me.path) = "library" /\ me.final # me.path THEN moved \cup {me.path}
             ELSE moved

\* What a copy that stopped has written over the file, after it was read, moves with it.
Overwritten(me) == IF disk[me.path].hash = me.read.hash THEN {} ELSE {me.final}

Renames(w) ==
    LET me == worker[w]
    IN  /\ me.step = "placed"
        /\ disk' = Put(Removed(me.path), me.final, disk[me.path])
        /\ worker' = [worker EXCEPT ![w] = Filed(me)]
        /\ Leaves(me)
        /\ stray' = stray \cup Overwritten(me)
        /\ UNCHANGED <<db, job, jobs, faults, dropped>>

\* To another file system, or out of a folder that may not be written: the file is
\* copied, then removed.
Copies(w) ==
    LET me == worker[w]
    IN  /\ me.step = "placed" /\ me.path # me.final
        /\ disk' = Put(disk, me.final, disk[me.path])
        /\ worker' = [worker EXCEPT ![w] = [me EXCEPT !.step = "copied"]]
        /\ stray' = stray \cup Overwritten(me)
        /\ UNCHANGED <<db, job, jobs, faults, dropped, moved>>

Removes(w) ==
    LET me == worker[w]
    IN  /\ me.step = "copied"
        /\ disk' = Removed(me.path)
        /\ worker' = [worker EXCEPT ![w] = Filed(me)]
        /\ Leaves(me)
        /\ UNCHANGED <<db, job, jobs, faults, dropped, stray>>

\* A copy that fails or is cut off has begun to write, over what lies at its target.
CopyStops(w) ==
    LET me == worker[w]
    IN  /\ me.step = "placed" /\ me.path # me.final
        /\ \E part \in Halves[disk[me.path].hash] : disk' = Put(disk, me.final, part)
        /\ worker' = [worker EXCEPT ![w] = [me EXCEPT !.step = "half"]]
        /\ stray' = stray \cup {me.final}
        /\ UNCHANGED <<db, job, jobs, faults, dropped, moved>>

\* What is left in the library when an attempt or the import goes no further.
Left(w) ==
    IF worker[w].step \in {"copied", "filed"} /\ worker[w].final \notin {NoPath, worker[w].path}
    THEN {worker[w].final} ELSE {}

\* The folder cannot be made, the copy stops, or the source cannot be removed.
AttemptFails(me) == me.step = "half" \/ (me.step \in {"placed", "copied"} /\ me.final # me.path)

\* retry_file_operation: the whole move, from the choice of a free name on.
TriesAgain(w) ==
    LET me == worker[w]
    IN  /\ AttemptFails(me) /\ me.attempt < FILE_OPERATION_MAX_ATTEMPTS
        /\ worker' = [worker EXCEPT ![w] = [me EXCEPT !.step = "unique", !.final = NoPath,
                                                      !.attempt = @ + 1]]
        /\ stray' = stray \cup Left(w)
        /\ IF me.attempt = 1 THEN Faults ELSE UNCHANGED faults
        /\ UNCHANGED <<db, disk, job, jobs, dropped, moved>>

\* The last attempt failed, or what is written beside the file after the move.
MoveFails(w) ==
    LET me == worker[w]
    IN  /\ \/ AttemptFails(me) /\ me.attempt >= FILE_OPERATION_MAX_ATTEMPTS
           \/ me.step = "filed" /\ me.final # NoPath
        /\ db' = Quarantined(db, me.rq, "file_error")
        /\ stray' = stray \cup Left(w)
        /\ Finishes(w)
        /\ IF AttemptFails(me) /\ me.attempt > 1 THEN UNCHANGED faults ELSE Faults
        /\ UNCHANGED <<disk, job, jobs, dropped, moved>>

-----------------------------------------------------------------------------
\* import_catalog_file, one transaction.  Its checks refuse a name of which the
\* normalization leaves nothing, which is stable by the look of the pipeline.
Refused(g) ==
    0 \in {Norms(g.owner), Norms(g.creator), Norms(g.group), Norms(g.title)}

Certain(w) ==
    Decision(db, worker[w].rq) = "published" /\ Refused(worker[w].rq.grouping)

\* A source path has one row: what is published from a path that had another file before
\* takes its row over.  A duplicate that is none any more when the transaction looks is
\* published where it was to go, though nobody has moved it there.
Remembers(me) ==
    LET rq == me.rq
        before == {db.media[p].managed : p \in Published(db) \cap {rq.path}}
        stayed == me.final = NoPath /\ rq.managed # me.path
    IN  IF stayed
        THEN replaced' = replaced \cup before /\ unmoved' = unmoved \cup {rq.path}
        ELSE /\ replaced' = (replaced \cup before) \ {rq.managed}
             /\ unmoved' = unmoved \ {rq.path}

FilesImport(w) ==
    LET me == worker[w]
    IN  /\ me.step = "filed"
        /\ ~Certain(w)
        /\ db' = Imported(db, me.rq)
        /\ IF Decision(db, me.rq) = "published" THEN Remembers(me) /\ UNCHANGED stray
           ELSE stray' = stray \cup Left(w) /\ UNCHANGED <<replaced, unmoved>>
        /\ Finishes(w)
        /\ UNCHANGED <<disk, job, jobs, faults, dropped, moved>>

ImportFails(w) ==
    /\ worker[w].step = "filed"
    /\ stray' = stray \cup Left(w)
    /\ Finishes(w)
    /\ IF Certain(w) THEN UNCHANGED faults ELSE Faults
    /\ UNCHANGED <<db, disk, job, jobs, dropped, moved>>

\* The process stops.  Nothing takes up its job.
Crashes ==
    /\ job # NoJob
    /\ job' = NoJob
    /\ worker' = [w \in Workers |-> Idle]
    /\ stray' = stray \cup UNION {Left(w) : w \in Workers}
    /\ Faults
    /\ UNCHANGED <<db, disk, jobs, dropped, moved>>

Init ==
    /\ db = EmptyCatalog /\ disk = <<>> /\ job = NoJob
    /\ worker = [w \in Workers |-> Idle]
    /\ jobs = 0 /\ faults = 0 /\ dropped = {} /\ stray = {} /\ moved = {}
    /\ replaced = {} /\ unmoved = {}

Steps ==
    \/ \E c \in Contents : Drops(c)
    \/ \E plan \in Plans : Starts(plan)
    \/ Ends
    \/ \E w \in Workers, p \in job.todo : Probes(w, p)
    \/ \E w \in Workers :
          worker[w].step = "probed" /\ \E a \in Answers[worker[w].read.hash] : Groups(w, a)
    \/ \E w \in Workers : ProviderFails(w)
    \/ \E w \in Workers : Decides(w)
    \/ \E w \in Workers : PicksTarget(w)
    \/ \E w \in Workers : Renames(w)
    \/ \E w \in Workers : Copies(w)
    \/ \E w \in Workers : Removes(w)
    \/ \E w \in Workers : CopyStops(w)
    \/ \E w \in Workers : TriesAgain(w)
    \/ \E w \in Workers : MoveFails(w)
    \/ \E w \in Workers : ImportFails(w)
    \/ Crashes

Next ==
    \/ Steps /\ UNCHANGED <<replaced, unmoved>>
    \/ \E w \in Workers : FilesImport(w)

Spec == Init /\ [][Next]_vars

-----------------------------------------------------------------------------
\* No import loses what somebody dropped: the content is somewhere on the disk,
\* whatever overlaps, fails or stops (ensure_managed_file, unique_target_path and
\* the locks of a run).
NothingIsLost ==
    \A c \in dropped : \E p \in DOMAIN disk : disk[p].hash = c.hash

\* A file of the library is the managed file of a published row, or on its way to
\* be, or was left there by a failure, a crash or a duplicate that was noticed only
\* after the move (import_one), or by an attempt to move that failed, whether the next
\* one succeeded or not (retry_file_operation), or has lost its row to a file that was
\* imported from the same source path (upsert_media_file).
LibraryIsKnown ==
    \A p \in DOMAIN disk : Root(p) = "library" =>
        \/ p \in stray \cup replaced
        \/ \E w \in Workers : worker[w].final = p
        \/ \E q \in Published(db) : /\ db.media[q].managed = p
                                    /\ db.media[q].hash = disk[p].hash

\* What a tag inside a file states is what the file is published as, whatever the
\* providers answer, whatever folder it lies in and however often it has been scanned
\* and moved since, unless what was dropped beside it states something else.
StatedBeside(p, fields) == \E c \in dropped : c.at = p /\ fields \cap DOMAIN c.sidecar # {}

TagsAreKept ==
    \A p \in Published(db) :
        LET tags == Embedded[db.media[p].hash]
            song == db.media[p].song
            group == GroupOf(song)
            keeps(fields, tag, name) ==
                tag # None /\ ~StatedBeside(p, fields) => name = Norms(tag)
        IN  /\ keeps({"title"}, tags.title, song[3])
            /\ keeps({"show", "album"}, First(<<tags.show, tags.album>>), group[3])
            /\ group[1] = "music" =>
                   keeps({"owner", "compilation"},
                         IF IsCompilation(tags) THEN Various ELSE tags.owner, OwnerOf(group))
            /\ tags.show # None /\ ~StatedBeside(p, {"show"}) => group[1] = "podcast"

\* What the next scan that asks the providers makes of a library file.
NextGrouping(p, hash, answers) == ChosenGrouping(Embedded[hash], p, TRUE, answers)

\* A name that is taken from the file name, and has a number put before it.
NumberedAnew(tags, kind, answers) ==
    LET field == IF kind = "podcast" THEN "episode title" ELSE "track title"
    IN  tags.title = None /\ tags.number # 0 /\ Best(answers, <<field>>) = None

\* A name that is taken from the path, and that cleaning shortens once more: it takes
\* the dots off both ends and leaves a blank beside them (sanitize_path_component).
CleanedAnew(p, g) ==
    \/ g.kind = "music" /\ g.owner = p[2] /\ Clean(p[2]) # p[2]
    \/ g.group = p[3] /\ Clean(p[3]) # p[3]
    \/ g.title = p[4] /\ Numbered(g.kind, p[4], 0) # p[4]

\* Scans settle: a library file that a scan has moved is left where it is by the next
\* scan with the same answers, because the folders say what the first one chose
\* (infer_catalog_grouping, choose_catalog_grouping, managed_path_for_grouping); but
\* for the names above, and for the music of an artist whose folder is that of the
\* podcasts.
ScansSettle ==
    \A p \in DOMAIN disk : Root(p) = "library" =>
        LET hash == disk[p].hash
        IN  \A answers \in Answers[hash] :
                LET g == NextGrouping(p, hash, answers)
                    next == ManagedPath(g)
                    again == NextGrouping(next, hash, answers)
                IN  \/ ManagedPath(again) = next
                    \/ NumberedAnew(Embedded[hash], g.kind, answers)
                    \/ CleanedAnew(next, again)
                    \/ g.kind = "music" /\ next[2] = Subtree

\* Whether the file of a song that is shown is where its row says, with the content
\* its row says (resolve_original_file).
Playable(s) ==
    LET file == db.media[db.songs[s].canonical]
    IN  file.managed \in DOMAIN disk /\ disk[file.managed].hash = file.hash

\* What the catalog shows can be played, unless a job has moved its file away, or has
\* published it without moving it, or an attempt to move failed where the file lies.
PlayableUnlessMoved ==
    \A s \in DOMAIN db.songs : Shown(db, s) =>
        LET p == db.songs[s].canonical
        IN  Playable(s) \/ db.media[p].managed \in moved \cup stray \/ p \in unmoved
=============================================================================
