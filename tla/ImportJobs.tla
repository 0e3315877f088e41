----------------------------- MODULE ImportJobs -----------------------------
(***************************************************************************)
(* The import jobs (src/src/pipeline.rs, src/src/storage.rs): requests     *)
(* enqueue scans and retries of quarantined files, one background worker   *)
(* claims a job at a time and imports the files of its scope in parallel.  *)
(* A file is published to the catalog or quarantined, and a retry settles  *)
(* the quarantine item it was asked for.                                   *)
(*                                                                         *)
(* A step is one statement or one transaction of the database.  A          *)
(* statement may fail wherever the code calls one, and the process may     *)
(* crash between any two of them: what is in the database stays.  A file   *)
(* is what it is in the catalog: its managed copy is the same file, and    *)
(* two files of one song are copies with the same content.                 *)
(***************************************************************************)
EXTENDS Naturals, Sequences, FiniteSets, SequencesExt, FiniteSetsExt

CONSTANTS
    None,
    Paths,          \* the files the scanned directories may hold
    Songs,          \* what the files are copies of: a track or an episode
    SongOf,         \* which song each file holds
    Requests,       \* requests of admins and of the dropbox watcher
    Scans,          \* the work those that scan ask for
    Plans,          \* whether a retry may reuse what is published
    Threads,        \* scan_thread_count
    Fragile,        \* bound: the files whose copy to the managed path may fail
    MaxAttempts,    \* IMPORT_JOB_MAX_ATTEMPTS
    MaxJobs,        \* bound: jobs ever enqueued
    MaxCrashes      \* bound: crashes of the process

Scopes == (SUBSET Paths) \ {{}}
ScanKinds == {"dropbox_ingest", "provider_repair"}

ASSUME ImportAssumption ==
    /\ Scans \subseteq [kind : ScanKinds, scope : Scopes, reuse : BOOLEAN, item : {None}]
    /\ Plans \subseteq BOOLEAN
    /\ SongOf \in [Paths -> Songs]
    /\ None \notin Paths /\ None \notin Nat
    /\ Fragile \subseteq Paths
    /\ Threads \in Nat \ {0}
    /\ MaxAttempts \in Nat \ {0}
    /\ MaxJobs \in Nat /\ MaxCrashes \in Nat

VARIABLES
    jobs,       \* import_jobs, in the order of created_at
    items,      \* quarantine_items, in the order of created_at
    media,      \* media_files: the status of each file
    canonical,  \* the canonical media file of each song
    request,    \* what each request is doing
    worker,     \* the job the background worker runs
    task,       \* the import of each file of that job
    lock,       \* ImportRunLocks: the file that holds the lock of each song
    crashes

queueVars == <<jobs, request>>
catalogVars == <<items, media, canonical>>
runVars == <<worker, task, lock>>
vars == <<queueVars, catalogVars, runVars, crashes>>

-----------------------------------------------------------------------------
JobStatus == {"queued", "running", "completed", "failed", "retrying"}
ActiveStatus == {"queued", "running", "retrying"}
Reasons == {"duplicate", "metadata_failure", "file_error"}
FileStatus == {"absent", "published", "duplicate", "quarantined", "failed"}

\* What a job is for: the files in scope, whether files that are published
\* already may be left alone (can_reuse_existing_without_refresh), and the
\* quarantine item it retries.
Work == [kind : ScanKinds \cup {"quarantine_retry"}, scope : Scopes, reuse : BOOLEAN,
         item : Nat \cup {None}]
Retry(i, reuse) == [kind |-> "quarantine_retry", scope |-> {items[i].path},
                    reuse |-> reuse, item |-> i]

IsActive(job) == job.status \in ActiveStatus

\* idempotency_key: kind, scope, plan and item.
Key(w) == <<w.kind, w.scope, w.reuse, w.item>>

ActiveJobs(js, w) == {j \in DOMAIN js : IsActive(js[j]) /\ Key(js[j].work) = Key(w)}

IntoJob(w) == [work |-> w, status |-> "queued", attempts |-> 0]

IsActiveItem(item) == item.status \in {"open", "retrying"}
Quarantined(p) == \E i \in DOMAIN items : items[i].path = p /\ IsActiveItem(items[i])

Idle == [at |-> "idle", job |-> None, left |-> {}, failed |-> FALSE]
Answered == [at |-> "done", work |-> None]
NoTask == [at |-> "idle", verdict |-> None]

-----------------------------------------------------------------------------
\* enqueue_import_work: look for an active job of the same key, then insert.
\* The unique index refuses a second active job of a key.
LooksUp(r, w) ==
    /\ request[r].at = "idle"
    /\ request' = [request EXCEPT ![r] =
                      IF ActiveJobs(jobs, w) = {} THEN [at |-> "insert", work |-> w]
                      ELSE Answered]
    /\ UNCHANGED <<jobs, catalogVars, runVars, crashes>>

Inserts(r) ==
    /\ request[r].at = "insert"
    /\ Len(jobs) < MaxJobs
    /\ jobs' = IF ActiveJobs(jobs, request[r].work) = {}
               THEN Append(jobs, IntoJob(request[r].work))
               ELSE jobs
    /\ request' = [request EXCEPT ![r] = Answered]
    /\ UNCHANGED <<catalogVars, runVars, crashes>>

\* enqueue_quarantine_retries: one transaction over all the items.  An item
\* whose last job is active keeps that job, the others get a retry of their own.
Retryable(i) == items[i].eligible /\ items[i].status # "resolved"

RetriesJobs(ids, reuse) ==
    LET stale == {i \in ids : ~IsActive(jobs[items[i].job])}
        fresh == SetToSeq({i \in stale : ActiveJobs(jobs, Retry(i, reuse)) = {}})
    IN  /\ jobs' = jobs \o [n \in DOMAIN fresh |-> IntoJob(Retry(fresh[n], reuse))]
        /\ items' = [i \in DOMAIN items |->
                        IF i \in stale
                        THEN [items[i] EXCEPT !.status = "retrying",
                                              !.job = Min(ActiveJobs(jobs', Retry(i, reuse)))]
                        ELSE items[i]]

Retries(r, ids, reuse) ==
    /\ request[r].at = "idle"
    /\ \A i \in ids : Retryable(i)
    /\ RetriesJobs(ids, reuse)
    /\ Len(jobs') <= MaxJobs
    /\ request' = [request EXCEPT ![r] = Answered]
    /\ UNCHANGED <<media, canonical, runVars, crashes>>

-----------------------------------------------------------------------------
\* Mutant of Waiting: a run that failed is not taken up again.
WaitingOnce == {j \in DOMAIN jobs : jobs[j].status = "queued"}

\* claim_next_import_job: the oldest job that waits.
Waiting == {j \in DOMAIN jobs : jobs[j].status \in {"queued", "retrying"}}

Claim(j) ==
    [jobs EXCEPT ![j] = [work |-> @.work, status |-> "running", attempts |-> @.attempts + 1]]

ClaimsNext ==
    /\ worker.at = "idle"
    /\ Waiting # {}
    /\ jobs' = Claim(Min(Waiting))
    /\ worker' = [Idle EXCEPT !.at = "claimed", !.job = Min(Waiting)]
    /\ UNCHANGED <<request, catalogVars, task, lock, crashes>>

Job == jobs[worker.job]

\* run_claimed reads the job and the credentials: an error returns at once,
\* and so does one of the update that ends the job.  Both leave it running.
Busy == {p \in Paths : task[p].at # "idle"}
Ended == worker.at = "running" /\ Busy = {} /\ (worker.left = {} \/ worker.failed)

Abandons ==
    /\ worker.at = "claimed" \/ Ended
    /\ worker' = Idle
    /\ UNCHANGED <<queueVars, catalogVars, task, lock, crashes>>

\* The files of the scope that are there, or an error of the walk.
Collects(present) ==
    /\ worker.at = "claimed"
    /\ worker' = [worker EXCEPT !.at = "running", !.left = present \cap Job.work.scope]
    /\ UNCHANGED <<queueVars, catalogVars, task, lock, crashes>>

CollectsNothing ==
    /\ worker.at = "claimed"
    /\ worker' = [worker EXCEPT !.at = "running", !.failed = TRUE]
    /\ UNCHANGED <<queueVars, catalogVars, task, lock, crashes>>

\* The terminal status: a run that failed is tried again, up to MaxAttempts.
Outcome ==
    IF ~worker.failed THEN "completed"
    ELSE IF Job.attempts >= MaxAttempts THEN "failed" ELSE "retrying"

Ends ==
    /\ Ended
    /\ jobs' = [jobs EXCEPT ![worker.job].status = Outcome]
    /\ worker' = Idle
    /\ UNCHANGED <<request, catalogVars, task, lock, crashes>>

-----------------------------------------------------------------------------
\* run_import_paths keeps up to scan_thread_count files under way.
Spawns(p) ==
    /\ worker.at = "running" /\ ~worker.failed
    /\ p \in worker.left
    /\ Cardinality(Busy) < Threads
    /\ task' = [task EXCEPT ![p].at = "probe"]
    /\ worker' = [worker EXCEPT !.left = @ \ {p}]
    /\ UNCHANGED <<queueVars, catalogVars, lock, crashes>>

Moves(p, at, verdict) == task' = [task EXCEPT ![p] = [at |-> at, verdict |-> verdict]]

Released(p) == [s \in Songs |-> IF lock[s] = p THEN None ELSE lock[s]]

\* import_one up to its locks: a published file may be reused as it is, if the
\* path the scan met is the managed one.
Reuses(p) == Job.work.reuse /\ media[p] = "published"

Reports(p) ==
    /\ task[p].at = "probe"
    /\ Reuses(p)
    /\ Moves(p, "settle", "published")
    /\ UNCHANGED <<queueVars, catalogVars, worker, lock, crashes>>

\* Mutant of TakesLock: the lock of a copy does not hold this one up.
TakesAnyLock(p) ==
    /\ task[p].at = "probe"
    /\ lock' = [lock EXCEPT ![SongOf[p]] = p]
    /\ Moves(p, "check", None)
    /\ UNCHANGED <<queueVars, catalogVars, worker, crashes>>

TakesLock(p) ==
    /\ task[p].at = "probe"
    /\ lock[SongOf[p]] = None
    /\ lock' = [lock EXCEPT ![SongOf[p]] = p]
    /\ Moves(p, "check", None)
    /\ UNCHANGED <<queueVars, catalogVars, worker, crashes>>

\* A file is refused if its grouping is unstable or a provider failed; else if a
\* copy of it is published (find_duplicate_candidate); else it is copied to its
\* managed path, which may fail.
HasPublishedCopy(p) ==
    \E q \in Paths \ {p} : SongOf[q] = SongOf[p] /\ media[q] = "published"

Checks(p) ==
    /\ task[p].at = "check"
    /\ \E v \in {"metadata_failure"}
                 \cup (IF HasPublishedCopy(p) THEN {"duplicate"}
                       ELSE IF p \in Fragile THEN {"published", "file_error"} ELSE {"published"}) :
           Moves(p, "commit", v)
    /\ UNCHANGED <<queueVars, catalogVars, worker, lock, crashes>>

\* set_track_canonical_media_file_in_transaction: a published file becomes the
\* canonical one unless it is quarantined or the song has a better one.
Browsable(p) == media[p] = "published" /\ ~Quarantined(p)

\* Mutant of Associated: any other copy counts as the better one.
AssociatedUnlessCopied(p) ==
    IF Quarantined(p) \/ \E q \in Paths \ {p} : SongOf[q] = SongOf[p] /\ media[q] # "absent"
    THEN canonical
    ELSE [canonical EXCEPT ![SongOf[p]] = p]

Associated(p) ==
    IF Quarantined(p) \/ (canonical[SongOf[p]] # None /\ Browsable(canonical[SongOf[p]]))
    THEN canonical
    ELSE [canonical EXCEPT ![SongOf[p]] = p]

Publishes(p) ==
    /\ task[p].at = "commit" /\ task[p].verdict = "published"
    /\ media' = [media EXCEPT ![p] = "published"]
    /\ canonical' = Associated(p)
    /\ Moves(p, "settle", "published")
    /\ UNCHANGED <<queueVars, items, worker, lock, crashes>>

\* quarantine_catalog_file: a published file stays published; the active item
\* of the file and the reason is opened again, or a new one is made.
StatusOf(reason) ==
    CASE reason = "duplicate" -> "duplicate"
      [] reason = "file_error" -> "failed"
      [] OTHER -> "quarantined"

Opened(p, reason) ==
    LET found == {i \in DOMAIN items : /\ items[i].path = p /\ items[i].reason = reason
                                       /\ IsActiveItem(items[i])}
        eligible == reason # "duplicate"
    IN  IF found = {}
        THEN Append(items, [path |-> p, reason |-> reason, status |-> "open",
                            eligible |-> eligible, job |-> worker.job])
        ELSE [items EXCEPT ![Min(found)].status = "open",
                           ![Min(found)].eligible = eligible,
                           ![Min(found)].job = worker.job]

Quarantines(p) ==
    /\ task[p].at = "commit" /\ task[p].verdict # "published"
    /\ items' = Opened(p, task[p].verdict)
    /\ media' = [media EXCEPT ![p] = IF @ = "published" THEN @ ELSE StatusOf(task[p].verdict)]
    /\ canonical' = IF media[p] = "published" THEN Associated(p) ELSE canonical
    /\ Moves(p, "settle", task[p].verdict)
    /\ UNCHANGED <<queueVars, worker, lock, crashes>>

\* settle_related_quarantine, for the job of a retry; then import_one returns
\* and drops its locks.
Resolved(i) == [items EXCEPT ![i].status = "resolved", ![i].eligible = FALSE]
Reopened(i) == [items EXCEPT ![i].status = "open", ![i].eligible = TRUE]

\* Mutant of Settles: a retry that ran to its end resolves its item.
SettlesAlways(p) ==
    /\ task[p].at = "settle"
    /\ items' = IF Job.work.item = None THEN items ELSE Resolved(Job.work.item)
    /\ task' = [task EXCEPT ![p] = NoTask]
    /\ lock' = Released(p)
    /\ UNCHANGED <<queueVars, media, canonical, worker, crashes>>

Settles(p) ==
    /\ task[p].at = "settle"
    /\ items' = IF Job.work.item = None THEN items
                ELSE IF task[p].verdict = "published" THEN Resolved(Job.work.item)
                ELSE Reopened(Job.work.item)
    /\ task' = [task EXCEPT ![p] = NoTask]
    /\ lock' = Released(p)
    /\ UNCHANGED <<queueVars, media, canonical, worker, crashes>>

\* A probe, a statement or the report of import_one fails: its locks are dropped.
Errs(p) ==
    /\ task[p].at \in {"probe", "check", "commit", "settle"}
    /\ Moves(p, "failure", None)
    /\ lock' = Released(p)
    /\ UNCHANGED <<queueVars, catalogVars, worker, crashes>>

\* settle_related_quarantine_failure, and the report of the failure: if that
\* fails too the run fails, and the other files are aborted.
Notes(p) ==
    /\ task' = [task EXCEPT ![p] = NoTask]
    /\ UNCHANGED <<worker, lock>>

Breaks ==
    /\ worker' = [worker EXCEPT !.failed = TRUE]
    /\ task' = [q \in Paths |-> NoTask]
    /\ lock' = [s \in Songs |-> None]

SettlesFailure(p) ==
    /\ task[p].at = "failure"
    /\ items' = IF Job.work.item = None THEN items ELSE Reopened(Job.work.item)
    /\ Notes(p) \/ Breaks
    /\ UNCHANGED <<queueVars, media, canonical, crashes>>

SettlesNothing(p) ==
    /\ task[p].at = "failure" /\ Job.work.item # None
    /\ Breaks
    /\ UNCHANGED <<queueVars, catalogVars, crashes>>

\* The process dies and starts again.
Crash ==
    /\ crashes < MaxCrashes
    /\ crashes' = crashes + 1
    /\ worker' = Idle
    /\ task' = [p \in Paths |-> NoTask]
    /\ lock' = [s \in Songs |-> None]
    /\ request' = [r \in Requests |->
                      IF request[r].at = "insert" THEN Answered ELSE request[r]]
    /\ UNCHANGED <<jobs, catalogVars>>

-----------------------------------------------------------------------------
Init ==
    /\ jobs = <<>>
    /\ items = <<>>
    /\ media = [p \in Paths |-> "absent"]
    /\ canonical = [s \in Songs |-> None]
    /\ request = [r \in Requests |-> [at |-> "idle", work |-> None]]
    /\ worker = Idle
    /\ task = [p \in Paths |-> NoTask]
    /\ lock = [s \in Songs |-> None]
    /\ crashes = 0

Asks(r) ==
    \/ \E w \in Scans : LooksUp(r, w)
    \/ Inserts(r)
    \/ \E ids \in (SUBSET DOMAIN items) \ {{}}, reuse \in Plans : Retries(r, ids, reuse)

Imports(p) ==
    \/ Spawns(p) \/ Reports(p) \/ TakesLock(p) \/ Checks(p) \/ Publishes(p)
    \/ Quarantines(p) \/ Settles(p) \/ Errs(p) \/ SettlesFailure(p) \/ SettlesNothing(p)

Runs ==
    \/ ClaimsNext \/ Abandons \/ CollectsNothing \/ Ends
    \/ \E present \in SUBSET Paths : Collects(present)
    \/ \E p \in Paths : Imports(p)

Next == (\E r \in Requests : Asks(r)) \/ Runs \/ Crash

Spec == Init /\ [][Next]_vars

\* The worker loop runs for ever, and a file that is under way goes on.
FairSpec == Spec /\ WF_vars(Runs)

-----------------------------------------------------------------------------
ImportTypeOK ==
    /\ \A j \in DOMAIN jobs :
           jobs[j] \in [work : Work, status : JobStatus, attempts : Nat]
    /\ Len(jobs) <= MaxJobs
    /\ \A i \in DOMAIN items :
           /\ items[i] \in [path : Paths, reason : Reasons,
                            status : {"open", "retrying", "resolved"},
                            eligible : BOOLEAN, job : Nat]
           /\ items[i].job \in DOMAIN jobs
    /\ media \in [Paths -> FileStatus]
    /\ canonical \in [Songs -> Paths \cup {None}]
    /\ request \in [Requests -> [at : {"idle", "insert", "done"},
                                 work : Work \cup {None}]]
    /\ worker \in [at : {"idle", "claimed", "running"}, job : (DOMAIN jobs) \cup {None},
                   left : SUBSET Paths, failed : BOOLEAN]
    /\ task \in [Paths -> [at : {"idle", "probe", "check", "commit", "settle", "failure"},
                           verdict : Reasons \cup {"published", None}]]
    /\ lock \in [Songs -> Paths \cup {None}]
    /\ crashes \in 0 .. MaxCrashes

\* However many copies of a song are imported at once, one of them is published:
\* the lock taken before the duplicates are looked for is held until the file is
\* committed.
OnePublishedCopy ==
    \A p, q \in Paths :
        media[p] = "published" /\ media[q] = "published" /\ p # q => SongOf[p] # SongOf[q]

\* The file of an item that counts as resolved is published.
ResolvedIsPublished ==
    \A i \in DOMAIN items :
        items[i].status = "resolved" => media[items[i].path] = "published"

\* A job that is enqueued ends, or is left behind as running by a crash or by an
\* error of the database around its run: once nobody asks any more, no job waits
\* for ever and none is retried for ever.
LeftBehind(j) == jobs[j].status = "running" /\ worker.job # j

EveryJobEnds == []<>(\A j \in DOMAIN jobs : ~IsActive(jobs[j]) \/ LeftBehind(j))

\* A published file that no run ever quarantined is the canonical file of its song,
\* by which the catalog shows it.  A file that was quarantined first and published by
\* a retry is not: its item is still active when it is published, and nothing
\* associates it once the item is resolved.
FreshIsAssociated ==
    \A p \in Paths :
        media[p] = "published" /\ (\A i \in DOMAIN items : items[i].path # p)
            => canonical[SongOf[p]] = p
=============================================================================
