--------------------------- MODULE ImportJobsProofs ---------------------------
(***************************************************************************)
(* However many copies of a song are imported at once, whatever fails and  *)
(* whenever the process dies, one copy is published: for any files, songs  *)
(* and requests, any number of threads, jobs and crashes.                  *)
(*                                                                         *)
(* The argument is the code's own: the lock of a song is held from before  *)
(* the look for duplicates to the commit, so that what the look found is   *)
(* still true when its file is published.                                  *)
(***************************************************************************)
EXTENDS ImportJobs, FiniteSetTheorems, SequenceTheorems, WellFoundedInduction, TLAPS

TaskState == {"idle", "probe", "check", "commit", "settle", "failure"}
Verdicts == Reasons \cup {"published", None}

(* The types of what the argument is about. *)
RunTypeOK ==
    /\ task \in [Paths -> [at : TaskState, verdict : Verdicts]]
    /\ lock \in [Songs -> Paths \cup {None}]
    /\ media \in [Paths -> FileStatus]

(* A file between its look for duplicates and its commit holds the lock. *)
Guarded(p) == task[p].at \in {"check", "commit"} => lock[SongOf[p]] = p

(* What the look found holds until the commit. *)
Current(p) ==
    task[p].at = "commit" /\ task[p].verdict = "published" => ~HasPublishedCopy(p)

CopyInv ==
    /\ RunTypeOK
    /\ \A p \in Paths : Guarded(p) /\ Current(p)
    /\ OnePublishedCopy

(* Nothing is imported at first. *)
LEMMA CopyInvInit == Init => CopyInv
<1> SUFFICES ASSUME Init
             PROVE  CopyInv
  OBVIOUS
<1>1. RunTypeOK
  BY DEF Init, RunTypeOK, NoTask, TaskState, Verdicts, FileStatus
<1>2. \A p \in Paths : Guarded(p) /\ Current(p)
  BY DEF Init, Guarded, Current, NoTask
<1>3. OnePublishedCopy
  BY DEF Init, OnePublishedCopy
<1>4. QED
  BY <1>1, <1>2, <1>3 DEF CopyInv

(* A step that keeps what is published keeps the invariant if every file that
   looks or commits after it did so before, with the same verdict, and has not
   lost its lock. *)
LEMMA KeepsCopyInv ==
  ASSUME CopyInv, RunTypeOK', media' = media,
         \A p \in Paths : task'[p].at \in {"check", "commit"} =>
             task'[p] = task[p] /\ lock'[SongOf[p]] = lock[SongOf[p]]
  PROVE  CopyInv'
<1>1. \A p \in Paths : Guarded(p)'
  BY DEF CopyInv, Guarded
<1>2. \A p \in Paths : Current(p)'
  BY DEF CopyInv, Current, HasPublishedCopy
<1>3. OnePublishedCopy'
  BY DEF CopyInv, OnePublishedCopy
<1>4. QED
  BY <1>1, <1>2, <1>3 DEF CopyInv

(* Dropping the locks of a file takes nobody else's. *)
LEMMA ReleasedKeepsOthers ==
  ASSUME CopyInv, NEW p \in Paths
  PROVE  /\ Released(p) \in [Songs -> Paths \cup {None}]
         /\ \A q \in Paths \ {p} : task[q].at \in {"check", "commit"}
                => Released(p)[SongOf[q]] = lock[SongOf[q]]
BY ImportAssumption DEF Released, CopyInv, RunTypeOK, Guarded

(* A file whose import starts, reports, fails or returns. *)
LEMMA LeavesCopyInv ==
  ASSUME CopyInv, NEW p \in Paths, media' = media,
         lock' = lock \/ lock' = Released(p),
         NEW at \in TaskState \ {"check", "commit"}, NEW v \in Verdicts,
         task' = [task EXCEPT ![p] = [at |-> at, verdict |-> v]]
  PROVE  CopyInv'
<1>1. RunTypeOK'
  BY ReleasedKeepsOthers DEF CopyInv, RunTypeOK
<1>2. \A q \in Paths : task'[q].at \in {"check", "commit"} =>
          task'[q] = task[q] /\ lock'[SongOf[q]] = lock[SongOf[q]]
  <2> TAKE q \in Paths
  <2>1. CASE q = p
    BY <2>1 DEF CopyInv, RunTypeOK
  <2>2. CASE q # p
    BY <2>2, ReleasedKeepsOthers DEF CopyInv, RunTypeOK
  <2>3. QED
    BY <2>1, <2>2
<1>3. QED
  BY <1>1, <1>2, KeepsCopyInv

(* The run breaks or the process dies: every import is dropped. *)
LEMMA DropsCopyInv ==
  ASSUME CopyInv, media' = media,
         task' = [q \in Paths |-> NoTask], lock' = [s \in Songs |-> None]
  PROVE  CopyInv'
<1>1. RunTypeOK'
  BY DEF CopyInv, RunTypeOK, NoTask, TaskState, Verdicts
<1>2. QED
  BY <1>1, KeepsCopyInv DEF NoTask

(* Steps that touch neither a file, its import nor a lock. *)
LEMMA IdleCopyInv ==
  ASSUME CopyInv, UNCHANGED <<task, lock, media>>
  PROVE  CopyInv'
BY KeepsCopyInv DEF CopyInv, RunTypeOK

(* The lock is free when it is taken, so that nobody else looks or commits. *)
LEMMA TakesLockCopyInv ==
  ASSUME CopyInv, NEW p \in Paths, TakesLock(p)
  PROVE  CopyInv'
<1>1. RunTypeOK'
  BY ImportAssumption DEF CopyInv, RunTypeOK, TakesLock, Moves, TaskState, Verdicts, catalogVars
<1>2. \A q \in Paths : Guarded(q)' /\ Current(q)'
  <2> TAKE q \in Paths
  <2>1. CASE q = p
    BY <2>1, ImportAssumption DEF CopyInv, RunTypeOK, TakesLock, Moves, Guarded, Current
  <2>2. CASE q # p
    <3>1. task'[q] = task[q] /\ media' = media
      BY <2>2 DEF CopyInv, RunTypeOK, TakesLock, Moves, catalogVars
    <3>2. lock[SongOf[p]] = None /\ lock' = [lock EXCEPT ![SongOf[p]] = p]
      BY DEF TakesLock
    <3>3. Guarded(q)'
      BY <3>1, <3>2, ImportAssumption DEF CopyInv, RunTypeOK, Guarded
    <3>4. Current(q)'
      BY <3>1 DEF CopyInv, Current, HasPublishedCopy
    <3>5. QED
      BY <3>3, <3>4
  <2>3. QED
    BY <2>1, <2>2
<1>3. OnePublishedCopy'
  BY DEF CopyInv, OnePublishedCopy, TakesLock, catalogVars
<1>4. QED
  BY <1>1, <1>2, <1>3 DEF CopyInv

(* The verdict is published only if no copy is. *)
LEMMA ChecksCopyInv ==
  ASSUME CopyInv, NEW p \in Paths, Checks(p)
  PROVE  CopyInv'
<1>1. PICK v \in Verdicts : /\ task' = [task EXCEPT ![p] = [at |-> "commit", verdict |-> v]]
                            /\ v = "published" => ~HasPublishedCopy(p)
  BY DEF Checks, Moves, Verdicts, Reasons
<1>2. task[p].at = "check" /\ UNCHANGED <<lock, media>>
  BY DEF Checks, catalogVars
<1>3. RunTypeOK'
  BY <1>1, <1>2 DEF CopyInv, RunTypeOK, TaskState
<1>4. \A q \in Paths : Guarded(q)' /\ Current(q)'
  <2> TAKE q \in Paths
  <2>1. Guarded(q)'
    BY <1>1, <1>2 DEF CopyInv, RunTypeOK, Guarded
  <2>2. Current(q)'
    BY <1>1, <1>2 DEF CopyInv, RunTypeOK, Current, HasPublishedCopy
  <2>3. QED
    BY <2>1, <2>2
<1>5. OnePublishedCopy'
  BY <1>2 DEF CopyInv, OnePublishedCopy
<1>6. QED
  BY <1>3, <1>4, <1>5 DEF CopyInv

(* A file is published under its lock: no copy is published, and none is about
   to be. *)
LEMMA PublishesCopyInv ==
  ASSUME CopyInv, NEW p \in Paths, Publishes(p)
  PROVE  CopyInv'
<1>1. /\ task[p].at = "commit" /\ task[p].verdict = "published"
      /\ task' = [task EXCEPT ![p] = [at |-> "settle", verdict |-> "published"]]
      /\ media' = [media EXCEPT ![p] = "published"]
      /\ lock' = lock
  BY DEF Publishes, Moves
<1>2. lock[SongOf[p]] = p /\ ~HasPublishedCopy(p)
  BY <1>1 DEF CopyInv, Guarded, Current
<1>3. RunTypeOK'
  BY <1>1 DEF CopyInv, RunTypeOK, TaskState, Verdicts, FileStatus
<1>4. \A q \in Paths : Guarded(q)' /\ Current(q)'
  <2> TAKE q \in Paths
  <2>1. Guarded(q)'
    BY <1>1 DEF CopyInv, RunTypeOK, Guarded
  <2>2. Current(q)'
    <3>1. CASE q = p
      BY <1>1, <3>1 DEF CopyInv, RunTypeOK, Current
    <3>2. CASE q # p /\ SongOf[q] = SongOf[p]
      BY <1>1, <1>2, <3>2 DEF CopyInv, RunTypeOK, Guarded, Current
    <3>3. CASE q # p /\ SongOf[q] # SongOf[p]
      BY <1>1, <3>3 DEF CopyInv, RunTypeOK, Current, HasPublishedCopy
    <3>4. QED
      BY <3>1, <3>2, <3>3
  <2>3. QED
    BY <2>1, <2>2
<1>5. OnePublishedCopy'
  BY <1>1, <1>2 DEF CopyInv, RunTypeOK, OnePublishedCopy, HasPublishedCopy
<1>6. QED
  BY <1>3, <1>4, <1>5 DEF CopyInv

(* A quarantine publishes nothing. *)
LEMMA QuarantinesCopyInv ==
  ASSUME CopyInv, NEW p \in Paths, Quarantines(p)
  PROVE  CopyInv'
<1> DEFINE v == task[p].verdict
<1>1. /\ task' = [task EXCEPT ![p] = [at |-> "settle", verdict |-> v]]
      /\ media' = [media EXCEPT ![p] = IF @ = "published" THEN @ ELSE StatusOf(v)]
      /\ lock' = lock
  BY DEF Quarantines, Moves
<1>2. StatusOf(v) \in FileStatus \ {"published"}
  BY DEF StatusOf, FileStatus
<1>3. \A q \in Paths : (media'[q] = "published") <=> (media[q] = "published")
  BY <1>1, <1>2 DEF CopyInv, RunTypeOK
<1>4. RunTypeOK'
  <2>1. v \in Verdicts
    BY DEF CopyInv, RunTypeOK
  <2>2. task' \in [Paths -> [at : TaskState, verdict : Verdicts]]
    BY <1>1, <2>1 DEF CopyInv, RunTypeOK, TaskState
  <2>3. media' \in [Paths -> FileStatus]
    BY <1>1, <1>2 DEF CopyInv, RunTypeOK
  <2>4. QED
    BY <1>1, <2>2, <2>3 DEF CopyInv, RunTypeOK
<1>5. \A q \in Paths : Guarded(q)' /\ Current(q)'
  <2> TAKE q \in Paths
  <2>1. Guarded(q)'
    BY <1>1 DEF CopyInv, RunTypeOK, Guarded
  <2>2. Current(q)'
    BY <1>1, <1>3 DEF CopyInv, RunTypeOK, Current, HasPublishedCopy
  <2>3. QED
    BY <2>1, <2>2
<1>6. OnePublishedCopy'
  BY <1>3 DEF CopyInv, OnePublishedCopy
<1>7. QED
  BY <1>4, <1>5, <1>6 DEF CopyInv

(* Every step of a file's import keeps the invariant. *)
LEMMA ImportsCopyInv ==
  ASSUME CopyInv, NEW p \in Paths, Imports(p)
  PROVE  CopyInv'
<1>1. task[p].verdict \in Verdicts
  BY DEF CopyInv, RunTypeOK
<1>2. CASE Spawns(p)
  <2>1. task' = [task EXCEPT ![p] = [at |-> "probe", verdict |-> task[p].verdict]]
    <3>1. task[p] \in [at : TaskState, verdict : Verdicts]
      BY DEF CopyInv, RunTypeOK
    <3>2. [task[p] EXCEPT !.at = "probe"] = [at |-> "probe", verdict |-> task[p].verdict]
      BY <3>1
    <3>3. task' = [task EXCEPT ![p] = [task[p] EXCEPT !.at = "probe"]]
      BY <1>2 DEF Spawns
    <3>4. QED
      BY <3>2, <3>3
  <2>2. lock' = lock /\ media' = media
    BY <1>2 DEF Spawns, catalogVars
  <2>3. "probe" \in TaskState \ {"check", "commit"}
    BY DEF TaskState
  <2>4. QED
    BY <1>1, <2>1, <2>2, <2>3, LeavesCopyInv
<1>3. CASE Reports(p)
  BY <1>3, LeavesCopyInv DEF Reports, Moves, catalogVars, TaskState, Verdicts
<1>4. CASE TakesLock(p)
  BY <1>4, TakesLockCopyInv
<1>5. CASE Checks(p)
  BY <1>5, ChecksCopyInv
<1>6. CASE Publishes(p)
  BY <1>6, PublishesCopyInv
<1>7. CASE Quarantines(p)
  BY <1>7, QuarantinesCopyInv
<1>8. CASE Settles(p)
  BY <1>8, LeavesCopyInv DEF Settles, NoTask, TaskState, Verdicts
<1>9. CASE Errs(p)
  BY <1>9, LeavesCopyInv DEF Errs, Moves, catalogVars, TaskState, Verdicts
<1>10. CASE SettlesFailure(p)
  <2>1. CASE Notes(p)
    BY <1>10, <2>1, LeavesCopyInv DEF SettlesFailure, Notes, NoTask, TaskState, Verdicts
  <2>2. CASE Breaks
    BY <1>10, <2>2, DropsCopyInv DEF SettlesFailure, Breaks
  <2>3. QED
    BY <1>10, <2>1, <2>2 DEF SettlesFailure
<1>11. CASE SettlesNothing(p)
  BY <1>11, DropsCopyInv DEF SettlesNothing, Breaks, catalogVars
<1>12. QED
  BY <1>2, <1>3, <1>4, <1>5, <1>6, <1>7, <1>8, <1>9, <1>10, <1>11 DEF Imports

(* Requests and the worker's own steps leave files and locks alone. *)
LEMMA CopyInvStep == CopyInv /\ [Next]_vars => CopyInv'
<1> SUFFICES ASSUME CopyInv, [Next]_vars
             PROVE  CopyInv'
  OBVIOUS
<1> USE DEF queueVars, catalogVars, runVars
<1>1. CASE \E r \in Requests : Asks(r)
  <2>1. UNCHANGED <<task, lock, media>>
    BY <1>1 DEF Asks, LooksUp, Inserts, Retries
  <2>2. QED
    BY <2>1, IdleCopyInv
<1>2. CASE \E p \in Paths : Imports(p)
  BY <1>2, ImportsCopyInv
<1>3. CASE \/ ClaimsNext \/ Abandons \/ CollectsNothing \/ Ends
           \/ \E present \in SUBSET Paths : Collects(present)
  <2>1. UNCHANGED <<task, lock, media>>
    BY <1>3 DEF ClaimsNext, Abandons, CollectsNothing, Ends, Collects
  <2>2. QED
    BY <2>1, IdleCopyInv
<1>4. CASE Crash
  BY <1>4, DropsCopyInv DEF Crash
<1>5. CASE UNCHANGED vars
  BY <1>5, IdleCopyInv DEF vars
<1>6. QED
  BY <1>1, <1>2, <1>3, <1>4, <1>5 DEF Next, Runs

(* One copy of a song is published, for copies imported in parallel by any number
   of threads, with any statement failing and the process dying anywhere. *)
THEOREM CopiesAreNotRepeated == Spec => []OnePublishedCopy
<1>1. CopyInv => OnePublishedCopy
  BY DEF CopyInv
<1>2. QED
  BY CopyInvInit, CopyInvStep, <1>1, PTL DEF Spec

-----------------------------------------------------------------------------
(* The jobs, the items and the runs.  An item is resolved by the retry that was
   made for it, and the scope of that retry is the file of the item: whoever
   settles the item has imported its file. *)

JobRec == [work : Work, status : JobStatus, attempts : Nat]
Item == [path : Paths, reason : Reasons, status : {"open", "retrying", "resolved"},
         eligible : BOOLEAN, job : Nat]

QueueTypeOK ==
    /\ jobs \in Seq(JobRec)
    /\ items \in Seq(Item)
    /\ request \in [Requests -> [at : {"idle", "insert", "done"}, work : Work \cup {None}]]
    /\ worker \in [at : {"idle", "claimed", "running"}, job : Nat \cup {None},
                   left : SUBSET Paths, failed : BOOLEAN]

(* The work of a retry is the file of its item. *)
IsFor(w) == w.item # None => w.item \in DOMAIN items /\ w.scope = {items[w.item].path}

JobsAreFor == \A j \in DOMAIN jobs : IsFor(jobs[j].work)

WorksInv ==
    /\ JobsAreFor
    /\ \A i \in DOMAIN items : items[i].job \in DOMAIN jobs
    /\ \A r \in Requests : request[r].at = "insert" =>
           request[r].work \in Work /\ request[r].work.item = None

(* The worker runs a job there is, and imports files of its scope. *)
RunInv ==
    /\ worker.at # "idle" => worker.job \in DOMAIN jobs
    /\ worker.at = "claimed" => worker.left = {}
    /\ worker.at = "running" => worker.left \subseteq Job.work.scope
    /\ \A p \in Paths : task[p].at # "idle" => worker.at = "running" /\ p \in Job.work.scope

(* What a file is told to have become it has become. *)
VerdictInv ==
    \A p \in Paths :
        /\ task[p].at = "commit" => task[p].verdict \in Reasons \cup {"published"}
        /\ task[p].at = "settle" /\ task[p].verdict = "published" => media[p] = "published"

JobsInv == QueueTypeOK /\ WorksInv /\ RunInv /\ VerdictInv /\ ResolvedIsPublished

-----------------------------------------------------------------------------
(* Minima of sets of numbers, and the sequence SetToSeq makes of a set. *)

LEMMA MinOfNats ==
    ASSUME NEW T, T \subseteq Nat, T # {}
    PROVE  Min(T) \in T
<1>1. PICK x \in T : \A y \in T : <<y, x>> \notin OpToRel(<, Nat)
  BY WFMin, NatLessThanWellFounded, Zenon
<1>2. \A y \in T : x <= y
  <2> SUFFICES ASSUME NEW y \in T PROVE ~(y < x)
    OBVIOUS
  <2> QED
    BY <1>1, Zenon DEF OpToRel
<1>3. QED
  BY <1>1, <1>2 DEF Min

LEMMA SetToSeqEnumerates ==
    ASSUME NEW S, IsFiniteSet(S)
    PROVE  /\ Cardinality(S) \in Nat
           /\ SetToSeq(S) \in [1 .. Cardinality(S) -> S]
           /\ \A x \in S : \E n \in 1 .. Cardinality(S) : SetToSeq(S)[n] = x
<1>1. PICK n \in Nat : ExistsBijection(1 .. n, S)
  BY FS_NatBijection
<1>2. Cardinality(S) = n
  BY <1>1, FS_CountingElements
<1>3. PICK f \in Bijection(1 .. n, S) : TRUE
  BY <1>1 DEF ExistsBijection
<1>4. f \in [1 .. n -> S] /\ IsInjective(f)
  BY <1>3 DEF Bijection, Injection, IsInjective
<1>5. SetToSeq(S) \in [1 .. n -> S] /\ IsInjective(SetToSeq(S))
  BY <1>2, <1>4 DEF SetToSeq
<1>6. SetToSeq(S) \in Injection(1 .. n, S)
  BY <1>5 DEF Injection, IsInjective
<1>8. Cardinality(1 .. n) = n
  BY FS_Interval
<1>7. SetToSeq(S) \in Surjection(1 .. n, S)
  BY <1>2, <1>6, <1>8, FS_Injection
<1> QED
  BY <1>2, <1>5, <1>7 DEF Surjection

-----------------------------------------------------------------------------
(* What every step keeps of the jobs and the items. *)

(* Jobs keep their work, and the new ones are for something. *)
JobsStep ==
    /\ jobs' \in Seq(JobRec)
    /\ DOMAIN jobs \subseteq DOMAIN jobs'
    /\ \A j \in DOMAIN jobs' : IF j \in DOMAIN jobs THEN jobs'[j].work = jobs[j].work
                                ELSE IsFor(jobs'[j].work)

(* Items keep their file, and are resolved when it is published. *)
ItemsStep ==
    /\ items' \in Seq(Item)
    /\ DOMAIN items \subseteq DOMAIN items'
    /\ \A i \in DOMAIN items : items'[i].path = items[i].path
    /\ \A i \in DOMAIN items' :
           /\ items'[i].job \in DOMAIN jobs'
           /\ items'[i].status = "resolved" =>
                 \/ i \in DOMAIN items /\ items[i].status = "resolved"
                 \/ media[items'[i].path] = "published"

(* Published files stay published. *)
MediaStep == \A p \in Paths : media[p] = "published" => media'[p] = "published"

LEMMA StepsKeepItems ==
    ASSUME JobsInv, JobsStep, ItemsStep, MediaStep
    PROVE  /\ JobsAreFor'
           /\ \A i \in DOMAIN items' : items'[i].job \in DOMAIN jobs'
           /\ ResolvedIsPublished'
<1>2. JobsAreFor'
  <2> SUFFICES ASSUME NEW j \in DOMAIN jobs' PROVE IsFor(jobs[j].work)'
    BY DEF JobsAreFor
  <2>1. IsFor(jobs'[j].work)
    BY DEF JobsStep, JobsInv, WorksInv, JobsAreFor
  <2>2. jobs'[j].work.item # None =>
            /\ jobs'[j].work.item \in DOMAIN items
            /\ jobs'[j].work.scope = {items[jobs'[j].work.item].path}
    BY <2>1 DEF IsFor
  <2> QED
    BY <2>2 DEF IsFor, ItemsStep
<1>3. ResolvedIsPublished'
  <2> SUFFICES ASSUME NEW i \in DOMAIN items', items'[i].status = "resolved"
               PROVE  media'[items'[i].path] = "published"
    BY DEF ResolvedIsPublished
  <2>1. items'[i].path \in Paths
    <3>1. items'[i] \in Item
      BY DEF ItemsStep
    <3> QED
      BY <3>1 DEF Item
  <2>2. media[items'[i].path] = "published"
    BY DEF ItemsStep, JobsInv, ResolvedIsPublished
  <2> QED
    BY <2>1, <2>2 DEF MediaStep
<1> QED
  BY <1>2, <1>3 DEF ItemsStep

LEMMA SameJobs ==
    ASSUME JobsInv, jobs' = jobs
    PROVE  JobsStep
BY DEF JobsInv, QueueTypeOK, JobsStep

LEMMA SameItems ==
    ASSUME JobsInv, JobsStep, items' = items
    PROVE  ItemsStep
BY DEF JobsInv, QueueTypeOK, WorksInv, JobsStep, ItemsStep

(* One job changes its status and attempts. *)
LEMMA JobsMove ==
    ASSUME JobsInv, NEW j \in DOMAIN jobs, NEW st \in JobStatus, NEW n \in Nat,
           jobs' = [jobs EXCEPT ![j] = [work |-> jobs[j].work, status |-> st, attempts |-> n]]
    PROVE  JobsStep
<1> DEFINE new == [work |-> jobs[j].work, status |-> st, attempts |-> n]
<1>1. new \in JobRec /\ new.work = jobs[j].work
  <2>1. jobs[j] \in JobRec
    BY DEF JobsInv, QueueTypeOK
  <2> QED
    BY <2>1 DEF JobRec
<1>2. jobs' = [jobs EXCEPT ![j] = new]
  OBVIOUS
<1> HIDE DEF new
<1>3. jobs' \in Seq(JobRec) /\ DOMAIN jobs' = DOMAIN jobs
  BY <1>1, <1>2 DEF JobsInv, QueueTypeOK
<1> QED
  BY <1>1, <1>2, <1>3 DEF JobsStep

(* One item changes, and not its file. *)
LEMMA ItemsMove ==
    ASSUME JobsInv, JobsStep, NEW i \in DOMAIN items, NEW new \in Item,
           new.path = items[i].path, new.job \in DOMAIN jobs,
           new.status = "resolved" => media[new.path] = "published",
           items' = [items EXCEPT ![i] = new]
    PROVE  ItemsStep
<1>1. items' \in Seq(Item) /\ DOMAIN items' = DOMAIN items
  BY DEF JobsInv, QueueTypeOK
<1>2. \A k \in DOMAIN items' : items'[k] = IF k = i THEN new ELSE items[k]
  BY DEF JobsInv, QueueTypeOK
<1> QED
  BY <1>1, <1>2 DEF ItemsStep, JobsStep, JobsInv, WorksInv

LEMMA ItemsAppend ==
    ASSUME JobsInv, JobsStep, NEW new \in Item, new.job \in DOMAIN jobs,
           new.status # "resolved", items' = Append(items, new)
    PROVE  ItemsStep
<1>1. items' \in Seq(Item) /\ DOMAIN items' = DOMAIN items \cup {Len(items) + 1}
  BY DEF JobsInv, QueueTypeOK
<1>2. \A k \in DOMAIN items' : items'[k] = IF k \in DOMAIN items THEN items[k] ELSE new
  BY <1>1 DEF JobsInv, QueueTypeOK
<1> QED
  BY <1>1, <1>2 DEF ItemsStep, JobsStep, JobsInv, WorksInv

(* A retry is work for its item. *)
LEMMA RetryIsFor ==
    ASSUME JobsInv, NEW i \in DOMAIN items, NEW reuse \in BOOLEAN
    PROVE  /\ Retry(i, reuse) \in Work /\ IsFor(Retry(i, reuse))
           /\ IntoJob(Retry(i, reuse)) \in JobRec
           /\ IntoJob(Retry(i, reuse)).work = Retry(i, reuse)
           /\ IsActive(IntoJob(Retry(i, reuse)))
<1>1. i \in Nat /\ items[i].path \in Paths
  <2>1. items[i] \in Item /\ i \in Nat
    BY DEF JobsInv, QueueTypeOK
  <2> QED
    BY <2>1 DEF Item
<1>2. Retry(i, reuse) \in Work /\ IsFor(Retry(i, reuse))
  BY <1>1 DEF Retry, Work, Scopes, IsFor
<1>3. "queued" \in JobStatus /\ "queued" \in ActiveStatus
  BY DEF JobStatus, ActiveStatus
<1> QED
  BY <1>2, <1>3 DEF IntoJob, JobRec, IsActive

(* The jobs that retry some items, and the job of each item afterwards. *)
LEMMA RetriesJobsStep ==
    ASSUME JobsInv, NEW ids \in SUBSET DOMAIN items, NEW reuse \in BOOLEAN,
           RetriesJobs(ids, reuse)
    PROVE  JobsStep /\ ItemsStep
<1> DEFINE stale == {i \in ids : ~IsActive(jobs[items[i].job])}
           freshSet == {i \in stale : ActiveJobs(jobs, Retry(i, reuse)) = {}}
           n == Cardinality(freshSet)
           fresh == SetToSeq(freshSet)
           tail == [k \in DOMAIN fresh |-> IntoJob(Retry(fresh[k], reuse))]
           jobOf(i) == Min(ActiveJobs(jobs', Retry(i, reuse)))
<1>1. jobs' = jobs \o tail
      /\ items' = [i \in DOMAIN items |->
                       IF i \in stale
                       THEN [items[i] EXCEPT !.status = "retrying", !.job = jobOf(i)]
                       ELSE items[i]]
  BY DEF RetriesJobs
<1>2. stale \subseteq DOMAIN items /\ freshSet \subseteq stale
  OBVIOUS
<1>3. IsFiniteSet(freshSet)
  <2>1. IsFiniteSet(1 .. Len(items)) /\ DOMAIN items = 1 .. Len(items)
    BY FS_Interval DEF JobsInv, QueueTypeOK
  <2> QED
    BY <1>2, <2>1, FS_Subset
<1>4. n \in Nat /\ fresh \in [1 .. n -> freshSet] /\ \A i \in freshSet : \E k \in 1 .. n : fresh[k] = i
  BY <1>3, SetToSeqEnumerates
<1>5. DOMAIN tail = 1 .. n /\ \A k \in 1 .. n : tail[k] = IntoJob(Retry(fresh[k], reuse))
  BY <1>4
<1>6. \A k \in 1 .. n : fresh[k] \in DOMAIN items
  BY <1>2, <1>4
<1>7. \A k \in 1 .. n : tail[k] \in JobRec /\ IsFor(tail[k].work)
  BY <1>5, <1>6, RetryIsFor
<1>8. tail \in [1 .. n -> JobRec]
  BY <1>5, <1>7
<1> HIDE DEF n, fresh, tail, stale, freshSet, jobOf
<1>9. tail \in Seq(JobRec) /\ Len(tail) = n
  <2>1. tail \in Seq(JobRec)
    <3>1. \A S, k : k \in Nat => \A f \in [1 .. k -> S] : f \in Seq(S)
      BY SeqDef
    <3> QED
      BY <1>4, <1>8, <3>1
  <2>2. DOMAIN tail = 1 .. Len(tail) /\ Len(tail) \in Nat
    BY <2>1, LenProperties
  <2>3. 1 .. n = 1 .. Len(tail)
    BY <1>5, <2>2
  <2>4. Cardinality(1 .. n) = n /\ Cardinality(1 .. Len(tail)) = Len(tail)
    <3>1. \A k \in Nat : k \in Int /\ 1 \in Int /\ (IF 1 > k THEN 0 ELSE k - 1 + 1) = k
      OBVIOUS
    <3>2. \A k \in Nat : Cardinality(1 .. k) = k
      BY <3>1, FS_Interval
    <3> QED
      BY <1>4, <2>2, <3>2
  <2> QED
    BY <2>1, <2>3, <2>4
<1>10. jobs \in Seq(JobRec)
  BY DEF JobsInv, QueueTypeOK
<1>11. /\ jobs' \in Seq(JobRec) /\ Len(jobs') = Len(jobs) + n
       /\ \A j \in 1 .. Len(jobs) : jobs'[j] = jobs[j]
       /\ \A k \in 1 .. n : jobs'[Len(jobs) + k] = tail[k]
  <2>1. /\ jobs \o tail \in Seq(JobRec)
        /\ Len(jobs \o tail) = Len(jobs) + Len(tail)
        /\ \A j \in 1 .. Len(jobs) + Len(tail) :
               (jobs \o tail)[j] = IF j <= Len(jobs) THEN jobs[j] ELSE tail[j - Len(jobs)]
    BY <1>9, <1>10, ConcatProperties
  <2>2. Len(jobs) \in Nat
    BY <1>10, LenProperties
  <2>3. \A k \in 1 .. n : Len(jobs) + k \in 1 .. Len(jobs) + n /\ ~(Len(jobs) + k <= Len(jobs))
                        /\ (Len(jobs) + k) - Len(jobs) = k
    BY <1>4, <2>2
  <2>4. 1 .. Len(jobs) \subseteq 1 .. Len(jobs) + n /\ \A j \in 1 .. Len(jobs) : j <= Len(jobs)
    BY <1>4, <2>2
  <2> QED
    BY <1>1, <1>9, <2>1, <2>3, <2>4
<1>12. Len(jobs) \in Nat /\ DOMAIN jobs = 1 .. Len(jobs) /\ DOMAIN jobs' = 1 .. Len(jobs) + n
  BY <1>4, <1>10, <1>11
<1>13. JobsStep
  <2>1. ASSUME NEW j \in DOMAIN jobs' \ DOMAIN jobs PROVE IsFor(jobs'[j].work)
    <3>1. PICK k \in 1 .. n : j = Len(jobs) + k
      <4>1. j - Len(jobs) \in 1 .. n /\ j = Len(jobs) + (j - Len(jobs))
        BY <1>4, <1>12
      <4> QED
        BY <4>1
    <3> QED
      BY <1>7, <1>11, <3>1
  <2> QED
    BY <1>4, <1>11, <1>12, <2>1 DEF JobsStep
<1>14. ASSUME NEW i \in stale PROVE jobOf(i) \in DOMAIN jobs'
  <2> DEFINE found == ActiveJobs(jobs', Retry(i, reuse))
  <2>1. found \subseteq DOMAIN jobs' /\ DOMAIN jobs' \subseteq Nat
    BY <1>4, <1>12 DEF ActiveJobs
  <2>2. found # {}
    <3>1. CASE i \in freshSet
      <4>1. PICK k \in 1 .. n : fresh[k] = i
        BY <1>4, <3>1
      <4>2. jobs'[Len(jobs) + k] = IntoJob(Retry(i, reuse)) /\ Len(jobs) + k \in DOMAIN jobs'
        <5>1. jobs'[Len(jobs) + k] = tail[k] /\ tail[k] = IntoJob(Retry(fresh[k], reuse))
          BY <1>5, <1>11
        <5>2. Len(jobs) + k \in 1 .. Len(jobs) + n
          BY <1>4, <1>12
        <5> QED
          BY <1>12, <4>1, <5>1, <5>2
      <4>3. i \in DOMAIN items
        BY <1>2
      <4> QED
        BY <4>2, <4>3, RetryIsFor DEF ActiveJobs
    <3>2. CASE i \notin freshSet
      <4>1. PICK j : j \in ActiveJobs(jobs, Retry(i, reuse))
        BY <3>2 DEF freshSet
      <4>2. j \in DOMAIN jobs /\ jobs'[j] = jobs[j] /\ j \in DOMAIN jobs'
        BY <1>4, <1>11, <1>12, <4>1 DEF ActiveJobs
      <4> QED
        BY <4>1, <4>2 DEF ActiveJobs
    <3> QED
      BY <3>1, <3>2
  <2> QED
    BY <2>1, <2>2, MinOfNats DEF jobOf
<1>15. DOMAIN items' = DOMAIN items /\ items \in Seq(Item)
  BY <1>1 DEF JobsInv, QueueTypeOK
<1>16. ASSUME NEW i \in DOMAIN items
       PROVE  /\ items'[i] \in Item
              /\ items'[i].path = items[i].path
              /\ items'[i].job \in DOMAIN jobs'
              /\ items'[i].status = "resolved" => items[i].status = "resolved"
  <2>1. items[i] \in Item
    BY <1>15
  <2>2. CASE i \in stale
    <3>1. items'[i] = [items[i] EXCEPT !.status = "retrying", !.job = jobOf(i)]
      BY <1>1, <2>2
    <3>2. jobOf(i) \in DOMAIN jobs' /\ jobOf(i) \in Nat
      BY <1>4, <1>12, <1>14, <2>2
    <3> QED
      BY <2>1, <3>1, <3>2 DEF Item
  <2>3. CASE i \notin stale
    <3>1. items'[i] = items[i]
      BY <1>1, <2>3
    <3>2. items[i].job \in DOMAIN jobs'
      BY <1>4, <1>12 DEF JobsInv, WorksInv
    <3> QED
      BY <2>1, <3>1, <3>2
  <2> QED
    BY <2>2, <2>3
<1>17. items' \in Seq(Item)
  <2>1. DOMAIN items = 1 .. Len(items) /\ Len(items) \in Nat
    BY <1>15, LenProperties
  <2>2. items' \in [1 .. Len(items) -> Item]
    BY <1>1, <1>16, <2>1
  <2> QED
    BY <2>1, <2>2, SeqDef
<1>18. ItemsStep
  BY <1>15, <1>16, <1>17 DEF ItemsStep
<1> QED
  BY <1>13, <1>18

-----------------------------------------------------------------------------
(* What a step has to show. *)

RequestsOK ==
    /\ request \in [Requests -> [at : {"idle", "insert", "done"}, work : Work \cup {None}]]
    /\ \A r \in Requests : request[r].at = "insert" =>
           request[r].work \in Work /\ request[r].work.item = None

WorkerOK ==
    worker \in [at : {"idle", "claimed", "running"}, job : Nat \cup {None},
               left : SUBSET Paths, failed : BOOLEAN]

LEMMA JobsInvFrom ==
    ASSUME JobsInv, JobsStep, ItemsStep, MediaStep,
           RequestsOK', WorkerOK', RunInv', VerdictInv'
    PROVE  JobsInv' /\ ItemsStep
BY StepsKeepItems DEF JobsInv, QueueTypeOK, WorksInv, RequestsOK, WorkerOK, JobsStep, ItemsStep

(* The worker goes on with its job, and no import begins. *)
LEMMA RunStays ==
    ASSUME JobsInv, JobsStep, worker' = worker,
           \A p \in Paths : task'[p].at # "idle" => task[p].at # "idle"
    PROVE  RunInv' /\ WorkerOK'
<1>1. worker.at # "idle" => worker.job \in DOMAIN jobs' /\ jobs'[worker.job].work = jobs[worker.job].work
  BY DEF JobsInv, RunInv, JobsStep
<1> QED
  BY <1>1 DEF JobsInv, QueueTypeOK, RunInv, Job, WorkerOK

LEMMA VerdictsStay ==
    ASSUME JobsInv, MediaStep,
           \A p \in Paths : task'[p] = task[p] \/ task'[p].at \notin {"commit", "settle"}
    PROVE  VerdictInv'
BY DEF JobsInv, VerdictInv, MediaStep

LEMMA SameRequests ==
    ASSUME JobsInv, request' = request
    PROVE  RequestsOK'
BY DEF JobsInv, QueueTypeOK, WorksInv, RequestsOK

(* Requests enqueue. *)
LEMMA AsksJobsInv ==
    ASSUME JobsInv, NEW r \in Requests, Asks(r)
    PROVE  JobsInv' /\ ItemsStep
<1>1. UNCHANGED <<worker, task, media>>
  BY DEF Asks, LooksUp, Inserts, Retries, runVars, catalogVars
<1>2. MediaStep
  BY <1>1 DEF MediaStep
<1>3. VerdictInv' /\ (JobsStep => RunInv' /\ WorkerOK')
  BY <1>1, <1>2, RunStays, VerdictsStay
<1>4. Answered \in [at : {"idle", "insert", "done"}, work : Work \cup {None}] /\ Answered.at = "done"
  BY DEF Answered
<1>5. request' = [request EXCEPT ![r] = Answered] => RequestsOK'
  BY <1>4 DEF JobsInv, QueueTypeOK, WorksInv, RequestsOK
<1>6. ASSUME NEW w \in Scans, LooksUp(r, w) PROVE JobsInv' /\ ItemsStep
  <2>1. w \in Work /\ w.item = None
    BY ImportAssumption DEF Work
  <2>2. JobsStep /\ ItemsStep
    BY <1>6, SameJobs, SameItems DEF LooksUp, catalogVars
  <2>3. RequestsOK'
    <3>1. CASE ActiveJobs(jobs, w) = {}
      <4> DEFINE new == [at |-> "insert", work |-> w]
      <4>1. new \in [at : {"idle", "insert", "done"}, work : Work \cup {None}]
        BY <2>1
      <4>2. request' = [request EXCEPT ![r] = new]
        BY <1>6, <3>1 DEF LooksUp
      <4>3. new.work = w
        OBVIOUS
      <4> HIDE DEF new
      <4> QED
        BY <2>1, <4>1, <4>2, <4>3 DEF JobsInv, QueueTypeOK, WorksInv, RequestsOK
    <3>2. CASE ActiveJobs(jobs, w) # {}
      BY <1>5, <1>6, <3>2 DEF LooksUp
    <3> QED
      BY <3>1, <3>2
  <2> QED
    BY <1>2, <1>3, <2>2, <2>3, JobsInvFrom
<1>7. CASE Inserts(r)
  <2>1. RequestsOK'
    BY <1>5, <1>7 DEF Inserts
  <2>2. JobsStep
    <3>1. CASE ActiveJobs(jobs, request[r].work) = {}
      <4> DEFINE new == IntoJob(request[r].work)
      <4>1. request[r].work \in Work /\ request[r].work.item = None
        BY <1>7 DEF Inserts, JobsInv, WorksInv
      <4>2. "queued" \in JobStatus
        BY DEF JobStatus
      <4>3. new \in JobRec /\ new.work = request[r].work
        BY <4>1, <4>2 DEF IntoJob, JobRec
      <4>4. IsFor(new.work)
        BY <4>1, <4>3 DEF IsFor
      <4>5. jobs' = Append(jobs, new)
        BY <1>7, <3>1 DEF Inserts
      <4> HIDE DEF new
      <4>6. jobs' \in Seq(JobRec) /\ DOMAIN jobs' = DOMAIN jobs \cup {Len(jobs) + 1}
        BY <4>3, <4>5 DEF JobsInv, QueueTypeOK
      <4>7. \A j \in DOMAIN jobs' : jobs'[j] = IF j \in DOMAIN jobs THEN jobs[j] ELSE new
        BY <4>3, <4>5, <4>6 DEF JobsInv, QueueTypeOK
      <4> QED
        BY <4>4, <4>6, <4>7 DEF JobsStep
    <3>2. CASE ActiveJobs(jobs, request[r].work) # {}
      BY <1>7, <3>2, SameJobs DEF Inserts
    <3> QED
      BY <3>1, <3>2
  <2>3. ItemsStep
    BY <1>7, <2>2, SameItems DEF Inserts, catalogVars
  <2> QED
    BY <1>2, <1>3, <2>1, <2>2, <2>3, JobsInvFrom
<1>8. ASSUME NEW ids \in SUBSET DOMAIN items, NEW reuse \in Plans, Retries(r, ids, reuse)
      PROVE  JobsInv' /\ ItemsStep
  <2>1. RequestsOK'
    BY <1>5, <1>8 DEF Retries
  <2>2. JobsStep /\ ItemsStep
    BY <1>8, ImportAssumption, RetriesJobsStep DEF Retries
  <2> QED
    BY <1>2, <1>3, <2>1, <2>2, JobsInvFrom
<1> QED
  BY <1>6, <1>7, <1>8 DEF Asks

(* The worker takes up a job and ends it. *)
LEMMA ClaimsJobsInv ==
    ASSUME CopyInv, JobsInv, ClaimsNext
    PROVE  JobsInv' /\ ItemsStep
<1>1. UNCHANGED <<request, items, task, media>>
  BY DEF ClaimsNext, catalogVars
<1> DEFINE j == Min(Waiting)
           new == [work |-> jobs[j].work, status |-> "running", attempts |-> jobs[j].attempts + 1]
<1>2. j \in DOMAIN jobs /\ j \in Nat
  <2>1. Waiting \subseteq DOMAIN jobs /\ DOMAIN jobs \subseteq Nat
    BY DEF Waiting, JobsInv, QueueTypeOK
  <2> QED
    BY <2>1, MinOfNats DEF ClaimsNext
<1> HIDE DEF j
<1>3. jobs[j] \in JobRec
  BY <1>2 DEF JobsInv, QueueTypeOK
<1>4. jobs' = [jobs EXCEPT ![j] = new]
  BY DEF ClaimsNext, Claim, j
<1>5. JobsStep
  <2>1. jobs[j].attempts + 1 \in Nat /\ "running" \in JobStatus
    BY <1>3 DEF JobRec, JobStatus
  <2> QED
    BY <1>2, <1>4, <2>1, JobsMove
<1>6. ItemsStep /\ MediaStep /\ RequestsOK'
  BY <1>1, <1>5, SameItems, SameRequests DEF MediaStep
<1>7. worker' = [at |-> "claimed", job |-> j, left |-> {}, failed |-> FALSE]
  BY DEF ClaimsNext, Idle, j
<1>8. WorkerOK' /\ RunInv'
  <2>1. \A p \in Paths : task'[p].at = "idle"
    BY <1>1 DEF ClaimsNext, JobsInv, RunInv
  <2>2. j \in DOMAIN jobs'
    BY <1>2, <1>5 DEF JobsStep
  <2> QED
    BY <1>2, <1>7, <2>1, <2>2 DEF WorkerOK, RunInv
<1>9. VerdictInv'
  BY <1>1, <1>6, VerdictsStay
<1> QED
  BY <1>5, <1>6, <1>8, <1>9, JobsInvFrom

LEMMA WorkerJobsInv ==
    ASSUME CopyInv, JobsInv,
           Abandons \/ CollectsNothing \/ Ends \/ \E present \in SUBSET Paths : Collects(present)
    PROVE  JobsInv' /\ ItemsStep
<1>1. UNCHANGED <<request, items, task, media>>
  BY DEF Abandons, CollectsNothing, Ends, Collects, catalogVars, queueVars
<1>2. \A p \in Paths : task[p].at = "idle"
  <2>1. worker.at = "claimed" \/ Ended
    BY DEF Abandons, CollectsNothing, Ends, Collects
  <2>2. CASE worker.at = "claimed"
    BY <2>2 DEF JobsInv, RunInv
  <2>3. CASE Ended
    BY <2>3 DEF Ended, Busy
  <2> QED
    BY <2>1, <2>2, <2>3
<1>3. worker \in [at : {"idle", "claimed", "running"}, job : Nat \cup {None},
                 left : SUBSET Paths, failed : BOOLEAN]
  BY DEF JobsInv, QueueTypeOK
<1>4. JobsStep
  <2>1. CASE Ends
    <3> DEFINE j == worker.job
               new == [work |-> jobs[j].work, status |-> Outcome, attempts |-> jobs[j].attempts]
    <3>1. j \in DOMAIN jobs
      BY <2>1 DEF Ends, Ended, JobsInv, RunInv
    <3>2. jobs[j] \in JobRec
      BY <3>1 DEF JobsInv, QueueTypeOK
    <3>3. Outcome \in JobStatus
      BY DEF Outcome, JobStatus
    <3>4. jobs' = [jobs EXCEPT ![j] = [jobs[j] EXCEPT !.status = Outcome]]
      BY <2>1 DEF Ends
    <3>5. [jobs[j] EXCEPT !.status = Outcome] = new
      BY <3>2 DEF JobRec
    <3>6. jobs[j].attempts \in Nat
      BY <3>2 DEF JobRec
    <3> QED
      BY <3>1, <3>3, <3>4, <3>5, <3>6, JobsMove
  <2>2. CASE ~Ends
    BY <2>2, SameJobs DEF Abandons, CollectsNothing, Collects, queueVars
  <2> QED
    BY <2>1, <2>2
<1>5. ItemsStep /\ MediaStep /\ RequestsOK'
  BY <1>1, <1>4, SameItems, SameRequests DEF MediaStep
<1>6. VerdictInv'
  BY <1>1, <1>5, VerdictsStay
<1>7. WorkerOK' /\ RunInv'
  <2>1. CASE Abandons \/ Ends
    <3>1. worker' = Idle
      BY <2>1 DEF Abandons, Ends
    <3> QED
      BY <1>1, <1>2, <3>1 DEF Idle, WorkerOK, RunInv
  <2>2. CASE CollectsNothing
    <3>1. worker' = [worker EXCEPT !.at = "running", !.failed = TRUE]
          /\ worker.at = "claimed" /\ jobs' = jobs
      BY <2>2 DEF CollectsNothing, queueVars
    <3>2. WorkerOK'
      BY <1>3, <3>1 DEF WorkerOK
    <3>3. worker'.job = worker.job /\ worker'.left = worker.left
      BY <1>3, <3>1
    <3>4. worker.left = {}
      BY <3>1 DEF JobsInv, RunInv
    <3> QED
      BY <1>1, <1>2, <3>1, <3>2, <3>3, <3>4 DEF RunInv, JobsInv, Job
  <2>3. ASSUME NEW present \in SUBSET Paths, Collects(present) PROVE WorkerOK' /\ RunInv'
    <3>1. worker' = [worker EXCEPT !.at = "running", !.left = present \cap Job.work.scope]
          /\ worker.at = "claimed" /\ jobs' = jobs
      BY <2>3 DEF Collects, queueVars
    <3>2. WorkerOK'
      BY <1>3, <3>1 DEF WorkerOK
    <3>3. worker'.job = worker.job /\ worker'.left = present \cap Job.work.scope
      BY <1>3, <3>1
    <3> QED
      BY <1>1, <1>2, <3>1, <3>2, <3>3 DEF RunInv, JobsInv, Job
  <2> QED
    BY <2>1, <2>2, <2>3
<1> QED
  BY <1>4, <1>5, <1>6, <1>7, JobsInvFrom

LEMMA CrashJobsInv ==
    ASSUME CopyInv, JobsInv, Crash
    PROVE  JobsInv' /\ ItemsStep
<1>1. UNCHANGED <<jobs, items, media>>
  BY DEF Crash, catalogVars
<1>2. JobsStep /\ ItemsStep /\ MediaStep
  BY <1>1, SameJobs, SameItems DEF MediaStep
<1>3. \A p \in Paths : task'[p].at = "idle"
  BY DEF Crash, NoTask
<1>4. worker' = Idle
  BY DEF Crash
<1>5. WorkerOK' /\ RunInv' /\ VerdictInv'
  BY <1>3, <1>4 DEF Idle, WorkerOK, RunInv, VerdictInv
<1>6. RequestsOK'
  BY DEF Crash, Answered, RequestsOK, JobsInv, QueueTypeOK, WorksInv
<1> QED
  BY <1>2, <1>5, <1>6, JobsInvFrom

-----------------------------------------------------------------------------
(* The import of a file. *)

LEMMA OpenedStep ==
    ASSUME JobsInv, JobsStep, NEW p \in Paths, NEW reason \in Reasons,
           worker.job \in DOMAIN jobs, items' = Opened(p, reason)
    PROVE  ItemsStep
<1> DEFINE found == {i \in DOMAIN items : /\ items[i].path = p /\ items[i].reason = reason
                                         /\ IsActiveItem(items[i])}
           eligible == reason # "duplicate"
           new == [path |-> p, reason |-> reason, status |-> "open",
                   eligible |-> eligible, job |-> worker.job]
<1>0. worker.job \in Nat /\ DOMAIN items \subseteq Nat
  BY DEF JobsInv, QueueTypeOK
<1>1. eligible \in BOOLEAN
  OBVIOUS
<1> HIDE DEF eligible
<1>2. new \in Item /\ new.path = p /\ new.job = worker.job /\ new.status = "open"
  BY <1>0, <1>1 DEF Item
<1>3. items' = IF found = {} THEN Append(items, new)
               ELSE [items EXCEPT ![Min(found)].status = "open",
                                  ![Min(found)].eligible = eligible,
                                  ![Min(found)].job = worker.job]
  BY DEF Opened, eligible
<1>4. CASE found = {}
  <2>1. items' = Append(items, new)
    BY <1>3, <1>4
  <2> HIDE DEF new
  <2> QED
    BY <1>2, <2>1, ItemsAppend
<1>5. CASE found # {}
  <2> DEFINE i == Min(found)
  <2>1. i \in found
    BY <1>0, <1>5, MinOfNats
  <2> HIDE DEF i
  <2>2. i \in DOMAIN items /\ items[i].path = p /\ items[i].reason = reason /\ items[i] \in Item
    BY <2>1 DEF JobsInv, QueueTypeOK
  <2>3. items' = [items EXCEPT ![i].status = "open", ![i].eligible = eligible, ![i].job = worker.job]
    BY <1>3, <1>5 DEF i
  <2> DEFINE other == [items[i] EXCEPT !.status = "open", !.eligible = eligible, !.job = worker.job]
  <2>4. items' = [items EXCEPT ![i] = other]
    <3>1. items \in Seq(Item)
      BY DEF JobsInv, QueueTypeOK
    <3> QED
      BY <2>2, <2>3, <3>1
  <2>5. other \in Item /\ other.path = p /\ other.job = worker.job /\ other.status = "open"
    BY <1>0, <1>1, <2>2 DEF Item
  <2> HIDE DEF other
  <2> QED
    BY <2>2, <2>4, <2>5, ItemsMove
<1> QED
  BY <1>4, <1>5

(* A retry settles its item; it is resolved only once its file is published. *)
LEMMA SettledStep ==
    ASSUME JobsInv, JobsStep, NEW i \in DOMAIN items,
           NEW st \in {"open", "resolved"}, NEW e \in BOOLEAN,
           items' = [items EXCEPT ![i].status = st, ![i].eligible = e],
           st = "resolved" => media[items[i].path] = "published"
    PROVE  ItemsStep
<1> DEFINE new == [items[i] EXCEPT !.status = st, !.eligible = e]
<1>1. items[i] \in Item /\ items[i].job \in DOMAIN jobs /\ items \in Seq(Item)
  BY DEF JobsInv, QueueTypeOK, WorksInv
<1>2. items' = [items EXCEPT ![i] = new]
  BY <1>1
<1>3. new \in Item /\ new.path = items[i].path /\ new.job = items[i].job /\ new.status = st
  BY <1>1 DEF Item
<1>4. new.status = "resolved" => media[new.path] = "published"
  BY <1>3, Zenon
<1> HIDE DEF new
<1> QED
  BY <1>1, <1>2, <1>3, <1>4, ItemsMove, Zenon

(* The item of the job under way, when a file of it is under way. *)
LEMMA ItemOfJob ==
    ASSUME JobsInv, NEW p \in Paths, task[p].at # "idle", Job.work.item # None
    PROVE  Job.work.item \in DOMAIN items /\ items[Job.work.item].path = p
<1>1. worker.job \in DOMAIN jobs /\ p \in Job.work.scope
  BY DEF JobsInv, RunInv
<1>2. IsFor(Job.work)
  BY <1>1 DEF JobsInv, WorksInv, JobsAreFor, Job
<1> QED
  BY <1>1, <1>2 DEF IsFor

LEMMA ImportsJobsInv ==
    ASSUME CopyInv, JobsInv, NEW p \in Paths, Imports(p)
    PROVE  JobsInv' /\ ItemsStep
<1> USE DEF queueVars, catalogVars, runVars
<1>1. UNCHANGED <<jobs, request>>
  BY DEF Imports, Spawns, Reports, TakesLock, Checks, Publishes, Quarantines, Settles, Errs,
    SettlesFailure, SettlesNothing
<1>2. JobsStep /\ RequestsOK'
  BY <1>1, SameJobs, SameRequests
<1>3. task \in [Paths -> [at : TaskState, verdict : Verdicts]] /\ media \in [Paths -> FileStatus]
  BY DEF CopyInv, RunTypeOK
<1>4. \A at, v : Moves(p, at, v) => \A q \in Paths :
          task'[q] = IF q = p THEN [at |-> at, verdict |-> v] ELSE task[q]
  BY <1>3 DEF Moves
<1>5. items' = items => ItemsStep
  BY <1>2, SameItems
<1>6. media' = media => MediaStep
  BY DEF MediaStep
<1>7. CASE Spawns(p)
  <2>1. worker' = [worker EXCEPT !.left = @ \ {p}] /\ task' = [task EXCEPT ![p].at = "probe"]
        /\ worker.at = "running" /\ p \in worker.left /\ UNCHANGED <<items, media>>
    BY <1>7 DEF Spawns
  <2>2. /\ worker' \in [at : {"idle", "claimed", "running"}, job : Nat \cup {None},
                        left : SUBSET Paths, failed : BOOLEAN]
        /\ worker'.at = "running" /\ worker'.job = worker.job /\ worker'.left \subseteq worker.left
    BY <2>1 DEF JobsInv, QueueTypeOK
  <2>3. \A q \in Paths : task'[q] = task[q] \/ (q = p /\ task'[q].at = "probe")
    BY <1>3, <2>1
  <2>4. VerdictInv'
    BY <1>6, <2>1, <2>3, VerdictsStay
  <2>5. RunInv'
    BY <1>1, <2>1, <2>2, <2>3 DEF JobsInv, RunInv, Job
  <2>6. WorkerOK'
    BY <2>2 DEF WorkerOK
  <2> QED
    BY <1>2, <1>5, <1>6, <2>1, <2>4, <2>5, <2>6, JobsInvFrom
<1>8. ASSUME worker' = worker, task[p].at # "idle",
             \A q \in Paths \ {p} : task'[q] = task[q],
             ItemsStep, MediaStep,
             task'[p].at = "commit" => task'[p].verdict \in Reasons \cup {"published"},
             task'[p].at = "settle" /\ task'[p].verdict = "published" => media'[p] = "published"
      PROVE  JobsInv' /\ ItemsStep
  <2>1. RunInv' /\ WorkerOK'
    BY <1>2, <1>8, RunStays
  <2>2. VerdictInv'
    BY <1>8 DEF VerdictInv, MediaStep, JobsInv
  <2> QED
    BY <1>2, <1>8, <2>1, <2>2, JobsInvFrom
<1>9. CASE Reports(p)
  <2>1. UNCHANGED <<worker, items, media>> /\ task[p].at = "probe" /\ Moves(p, "settle", "published")
        /\ media[p] = "published"
    BY <1>9 DEF Reports, Reuses
  <2>2. \A q \in Paths :
            task'[q] = IF q = p THEN [at |-> "settle", verdict |-> "published"] ELSE task[q]
    BY <1>4, <2>1
  <2> QED
    BY <1>5, <1>6, <1>8, <2>1, <2>2
<1>10. CASE TakesLock(p) \/ Errs(p)
  <2>1. UNCHANGED <<worker, items, media>> /\ task[p].at # "idle"
        /\ \E at \in {"check", "failure"} : Moves(p, at, None)
    BY <1>10 DEF TakesLock, Errs
  <2>2. PICK at \in {"check", "failure"} : Moves(p, at, None)
    BY <2>1
  <2>3. \A q \in Paths : task'[q] = IF q = p THEN [at |-> at, verdict |-> None] ELSE task[q]
    BY <1>4, <2>2
  <2>4. task'[p].at \in {"check", "failure"}
    BY <2>3
  <2> QED
    BY <1>5, <1>6, <1>8, <2>1, <2>3, <2>4
<1>11. CASE Checks(p)
  <2>1. UNCHANGED <<worker, items, media>> /\ task[p].at # "idle"
        /\ \E v \in Reasons \cup {"published"} : Moves(p, "commit", v)
    BY <1>11 DEF Checks, Reasons
  <2>2. PICK v \in Reasons \cup {"published"} : Moves(p, "commit", v)
    BY <2>1
  <2>3. \A q \in Paths : task'[q] = IF q = p THEN [at |-> "commit", verdict |-> v] ELSE task[q]
    BY <1>4, <2>2
  <2>4. task'[p].at = "commit" /\ task'[p].verdict = v
    BY <2>3
  <2> QED
    BY <1>5, <1>6, <1>8, <2>1, <2>3, <2>4
<1>12. CASE Publishes(p)
  <2>1. UNCHANGED <<worker, items>> /\ task[p].at # "idle" /\ Moves(p, "settle", "published")
        /\ media' = [media EXCEPT ![p] = "published"]
    BY <1>12 DEF Publishes
  <2>2. MediaStep /\ media'[p] = "published"
    BY <1>3, <2>1 DEF MediaStep
  <2>3. \A q \in Paths :
            task'[q] = IF q = p THEN [at |-> "settle", verdict |-> "published"] ELSE task[q]
    BY <1>4, <2>1
  <2> QED
    BY <1>5, <1>8, <2>1, <2>2, <2>3
<1>13. CASE Quarantines(p)
  <2>1. /\ worker' = worker /\ task[p].at = "commit" /\ task[p].verdict # "published"
        /\ Moves(p, "settle", task[p].verdict)
        /\ items' = Opened(p, task[p].verdict)
        /\ media' = [media EXCEPT ![p] = IF @ = "published" THEN @ ELSE StatusOf(task[p].verdict)]
    BY <1>13 DEF Quarantines
  <2>2. task[p].verdict \in Reasons
    BY <2>1 DEF JobsInv, VerdictInv
  <2>3. worker.job \in DOMAIN jobs
    BY <2>1 DEF JobsInv, RunInv
  <2>4. ItemsStep
    BY <1>2, <2>1, <2>2, <2>3, OpenedStep
  <2>5. MediaStep
    BY <1>3, <2>1 DEF MediaStep
  <2>6. \A q \in Paths :
            task'[q] = IF q = p THEN [at |-> "settle", verdict |-> task[p].verdict] ELSE task[q]
    BY <1>4, <2>1
  <2>7. task'[p].at = "settle" /\ task'[p].verdict # "published"
    BY <2>1, <2>6
  <2> QED
    BY <1>8, <2>1, <2>4, <2>5, <2>6, <2>7
<1>14. CASE Settles(p)
  <2>1. /\ worker' = worker /\ media' = media /\ task[p].at = "settle"
        /\ task' = [task EXCEPT ![p] = NoTask]
        /\ items' = IF Job.work.item = None THEN items
                    ELSE IF task[p].verdict = "published" THEN Resolved(Job.work.item)
                    ELSE Reopened(Job.work.item)
    BY <1>14 DEF Settles
  <2>2. ItemsStep
    <3>1. CASE Job.work.item = None
      BY <1>5, <2>1, <3>1
    <3>2. CASE Job.work.item # None
      <4>1. Job.work.item \in DOMAIN items /\ items[Job.work.item].path = p
        BY <2>1, <3>2, ItemOfJob
      <4>2. task[p].verdict = "published" => media[p] = "published"
        BY <2>1 DEF JobsInv, VerdictInv
      <4>3. CASE task[p].verdict = "published"
        <5>1. items' = Resolved(Job.work.item) /\ media[p] = "published"
          BY <2>1, <3>2, <4>2, <4>3
        <5> QED
          BY <1>2, <4>1, <5>1, SettledStep DEF Resolved
      <4>4. CASE task[p].verdict # "published"
        <5>1. items' = Reopened(Job.work.item)
          BY <2>1, <3>2, <4>4
        <5> QED
          BY <1>2, <4>1, <5>1, SettledStep DEF Reopened
      <4> QED
        BY <4>3, <4>4
    <3> QED
      BY <3>1, <3>2
  <2>3. \A q \in Paths : task'[q] = IF q = p THEN NoTask ELSE task[q]
    BY <1>3, <2>1
  <2> QED
    BY <1>6, <1>8, <2>1, <2>2, <2>3 DEF NoTask
<1>15. CASE SettlesFailure(p) \/ SettlesNothing(p)
  <2>1. /\ media' = media /\ task[p].at = "failure"
        /\ items' = items \/ (Job.work.item # None /\ items' = Reopened(Job.work.item))
        /\ Notes(p) \/ Breaks
    BY <1>15 DEF SettlesFailure, SettlesNothing
  <2>2. ItemsStep
    <3>1. CASE items' = items
      BY <1>5, <3>1
    <3>2. CASE Job.work.item # None /\ items' = Reopened(Job.work.item)
      <4>1. Job.work.item \in DOMAIN items
        BY <2>1, <3>2, ItemOfJob
      <4> QED
        BY <1>2, <3>2, <4>1, SettledStep DEF Reopened
    <3> QED
      BY <2>1, <3>1, <3>2
  <2>3. CASE Notes(p)
    <3>1. worker' = worker /\ \A q \in Paths : task'[q] = IF q = p THEN NoTask ELSE task[q]
      BY <1>3, <2>3 DEF Notes
    <3> QED
      BY <1>6, <1>8, <2>1, <2>2, <3>1 DEF NoTask
  <2>4. CASE Breaks
    <3>1. worker' = [worker EXCEPT !.failed = TRUE] /\ \A q \in Paths : task'[q].at = "idle"
      BY <2>4 DEF Breaks, NoTask
    <3>2. /\ worker' \in [at : {"idle", "claimed", "running"}, job : Nat \cup {None},
                          left : SUBSET Paths, failed : BOOLEAN]
          /\ worker'.at = worker.at /\ worker'.job = worker.job /\ worker'.left = worker.left
      BY <3>1 DEF JobsInv, QueueTypeOK
    <3>3. WorkerOK' /\ RunInv' /\ VerdictInv'
      BY <1>1, <3>1, <3>2 DEF JobsInv, RunInv, Job, WorkerOK, VerdictInv
    <3> QED
      BY <1>2, <1>6, <2>1, <2>2, <3>3, JobsInvFrom
  <2> QED
    BY <2>1, <2>3, <2>4
<1> QED
  BY <1>7, <1>9, <1>10, <1>11, <1>12, <1>13, <1>14, <1>15 DEF Imports

LEMMA JobsInvInit == Init => JobsInv
<1> SUFFICES ASSUME Init PROVE JobsInv
  OBVIOUS
<1>1. QueueTypeOK
  BY DEF Init, QueueTypeOK, Idle
<1>2. WorksInv /\ RunInv /\ VerdictInv /\ ResolvedIsPublished
  BY DEF Init, WorksInv, JobsAreFor, RunInv, VerdictInv, ResolvedIsPublished, Idle, NoTask
<1> QED
  BY <1>1, <1>2 DEF JobsInv

LEMMA JobsInvStep ==
    ASSUME CopyInv, JobsInv, [Next]_vars
    PROVE  JobsInv' /\ ItemsStep
<1>1. CASE UNCHANGED vars
  <2>1. UNCHANGED <<jobs, items, media, request, worker, task>>
    BY <1>1 DEF vars, queueVars, catalogVars, runVars
  <2>2. JobsStep /\ ItemsStep /\ MediaStep /\ RequestsOK'
    BY <2>1, SameJobs, SameItems, SameRequests DEF MediaStep
  <2>3. RunInv' /\ WorkerOK' /\ VerdictInv'
    BY <2>1, <2>2, RunStays, VerdictsStay
  <2> QED
    BY <2>2, <2>3, JobsInvFrom
<1>2. CASE Next
  BY <1>2, AsksJobsInv, ClaimsJobsInv, WorkerJobsInv, CrashJobsInv, ImportsJobsInv DEF Next, Runs
<1> QED
  BY <1>1, <1>2

(* The file of an item that counts as resolved is published: only the retry made for
   the item settles it, it imports that file alone, and a published file is not
   quarantined again. *)
THEOREM ResolvedItemsArePublished == Spec => []ResolvedIsPublished
<1>1. CopyInv /\ JobsInv => ResolvedIsPublished
  BY DEF JobsInv
<1>2. Init => CopyInv /\ JobsInv
  BY CopyInvInit, JobsInvInit
<1>3. (CopyInv /\ JobsInv) /\ [Next]_vars => (CopyInv /\ JobsInv)'
  BY CopyInvStep, JobsInvStep
<1>4. QED
  BY <1>1, <1>2, <1>3, PTL DEF Spec

-----------------------------------------------------------------------------
(* The canonical file of a song. *)

(* It is a file of the song, and the published one unless an item was made of that. *)
CanonInv ==
    /\ canonical \in [Songs -> Paths \cup {None}]
    /\ \A s \in Songs : canonical[s] # None => SongOf[canonical[s]] = s
    /\ FreshIsAssociated

LEMMA AssociatedIsOfSong ==
    ASSUME CanonInv, NEW p \in Paths
    PROVE  /\ Associated(p) \in [Songs -> Paths \cup {None}]
           /\ \A s \in Songs : Associated(p)[s] # None => SongOf[Associated(p)[s]] = s
           /\ \A s \in Songs \ {SongOf[p]} : Associated(p)[s] = canonical[s]
BY ImportAssumption DEF CanonInv, Associated

(* A file that is published and has no item has none before, and either it was
   published or it is the one this step publishes. *)
LEMMA CanonInvStep ==
    ASSUME CopyInv, CopyInv', JobsInv, CanonInv, ItemsStep, [Next]_vars
    PROVE  CanonInv'
<1>1. ASSUME NEW q \in Paths, \A i \in DOMAIN items' : items'[i].path # q
      PROVE  \A i \in DOMAIN items : items[i].path # q
  BY <1>1 DEF ItemsStep
<1>2. CASE UNCHANGED <<media, canonical>>
  <2>1. FreshIsAssociated'
    <3> SUFFICES ASSUME NEW q \in Paths, media'[q] = "published",
                        \A i \in DOMAIN items' : items'[i].path # q
                 PROVE  canonical'[SongOf[q]] = q
      BY DEF FreshIsAssociated
    <3> QED
      BY <1>1, <1>2 DEF CanonInv, FreshIsAssociated
  <2> QED
    BY <1>2, <2>1 DEF CanonInv
<1>3. ASSUME NEW p \in Paths, Publishes(p) PROVE CanonInv'
  <2>1. /\ task[p].at = "commit" /\ task[p].verdict = "published"
        /\ media' = [media EXCEPT ![p] = "published"]
        /\ canonical' = Associated(p) /\ items' = items
    BY <1>3 DEF Publishes
  <2>2. ~HasPublishedCopy(p)
    BY <2>1 DEF CopyInv, Current
  <2>3. FreshIsAssociated'
    <3> SUFFICES ASSUME NEW q \in Paths, media'[q] = "published",
                        \A i \in DOMAIN items' : items'[i].path # q
                 PROVE  canonical'[SongOf[q]] = q
      BY DEF FreshIsAssociated
    <3>1. CASE q = p
      <4>1. ~Quarantined(p)
        BY <1>1, <3>1 DEF Quarantined
      <4>2. CASE canonical[SongOf[p]] # None /\ Browsable(canonical[SongOf[p]])
        <5> DEFINE c == canonical[SongOf[p]]
        <5>1. c \in Paths /\ SongOf[c] = SongOf[p] /\ media[c] = "published"
          BY <4>2, ImportAssumption DEF CanonInv, Browsable
        <5>2. c = p
          BY <2>2, <5>1 DEF HasPublishedCopy
        <5> QED
          BY <2>1, <3>1, <4>2, <5>2 DEF Associated
      <4>3. CASE ~(canonical[SongOf[p]] # None /\ Browsable(canonical[SongOf[p]]))
        BY <2>1, <3>1, <4>1, <4>3, ImportAssumption DEF Associated, CanonInv
      <4> QED
        BY <4>2, <4>3
    <3>2. CASE q # p
      <4>1. media[q] = "published"
        BY <2>1, <3>2 DEF CopyInv, RunTypeOK
      <4>2. SongOf[q] # SongOf[p]
        BY <2>2, <3>2, <4>1 DEF HasPublishedCopy
      <4>3. canonical'[SongOf[q]] = canonical[SongOf[q]]
        BY <2>1, <4>2, AssociatedIsOfSong, ImportAssumption
      <4> QED
        BY <1>1, <4>1, <4>3 DEF CanonInv, FreshIsAssociated
    <3> QED
      BY <3>1, <3>2
  <2> QED
    BY <2>1, <2>3, AssociatedIsOfSong DEF CanonInv
<1>4. ASSUME NEW p \in Paths, Quarantines(p) PROVE CanonInv'
  <2>1. /\ items' = Opened(p, task[p].verdict)
        /\ media' = [media EXCEPT ![p] = IF @ = "published" THEN @ ELSE StatusOf(task[p].verdict)]
        /\ canonical' = IF media[p] = "published" THEN Associated(p) ELSE canonical
    BY <1>4 DEF Quarantines
  <2>2. \A q \in Paths : media'[q] = "published" => media[q] = "published"
    BY <2>1 DEF CopyInv, RunTypeOK, StatusOf
  <2>3. \E i \in DOMAIN items' : items'[i].path = p
    <3> DEFINE found == {i \in DOMAIN items : /\ items[i].path = p
                                              /\ items[i].reason = task[p].verdict
                                              /\ IsActiveItem(items[i])}
    <3>1. CASE found = {}
      <4>1. items' = Append(items, [path |-> p, reason |-> task[p].verdict, status |-> "open",
                                    eligible |-> task[p].verdict # "duplicate", job |-> worker.job])
        BY <2>1, <3>1 DEF Opened
      <4>2. items'[Len(items) + 1].path = p /\ Len(items) + 1 \in DOMAIN items'
        BY <4>1 DEF JobsInv, QueueTypeOK
      <4> QED
        BY <4>2
    <3>2. CASE found # {}
      <4>1. PICK i \in DOMAIN items : items[i].path = p
        BY <3>2
      <4> QED
        BY <4>1 DEF ItemsStep
    <3> QED
      BY <3>1, <3>2
  <2>4. FreshIsAssociated'
    <3> SUFFICES ASSUME NEW q \in Paths, media'[q] = "published",
                        \A i \in DOMAIN items' : items'[i].path # q
                 PROVE  canonical'[SongOf[q]] = q
      BY DEF FreshIsAssociated
    <3>1. q # p /\ media[q] = "published"
      BY <2>2, <2>3
    <3>2. media[p] = "published" => SongOf[q] # SongOf[p]
      BY <3>1 DEF CopyInv, OnePublishedCopy
    <3>3. canonical'[SongOf[q]] = canonical[SongOf[q]]
      BY <2>1, <3>2, AssociatedIsOfSong, ImportAssumption
    <3> QED
      BY <1>1, <3>1, <3>3 DEF CanonInv, FreshIsAssociated
  <2> QED
    BY <2>1, <2>4, AssociatedIsOfSong DEF CanonInv
<1>5. UNCHANGED <<media, canonical>> \/ \E p \in Paths : Publishes(p) \/ Quarantines(p)
  BY DEF Next, vars, catalogVars, queueVars, runVars, Asks, LooksUp, Inserts, Retries, Runs,
    ClaimsNext, Abandons, CollectsNothing, Ends, Collects, Imports, Spawns, Reports, TakesLock,
    Checks, Settles, Errs, SettlesFailure, SettlesNothing, Crash
<1> QED
  BY <1>2, <1>3, <1>4, <1>5

(* A published file that no run ever quarantined is the canonical file of its song,
   for any copies imported by any threads. *)
THEOREM FreshFilesAreAssociated == Spec => []FreshIsAssociated
<1> DEFINE Inv == CopyInv /\ JobsInv /\ CanonInv
<1>1. Inv => FreshIsAssociated
  BY DEF CanonInv
<1>2. Init => CanonInv
  BY DEF Init, CanonInv, FreshIsAssociated
<1>3. Init => Inv
  BY <1>2, CopyInvInit, JobsInvInit
<1>4. Inv /\ [Next]_vars => Inv'
  BY CopyInvStep, JobsInvStep, CanonInvStep
<1> HIDE DEF Inv
<1>5. QED
  BY <1>1, <1>3, <1>4, PTL DEF Spec

-----------------------------------------------------------------------------
(* Types. *)

(* The bounds, and the worker that is idle runs no job. *)
Bounds ==
    /\ Len(jobs) <= MaxJobs
    /\ crashes \in 0 .. MaxCrashes
    /\ worker.at = "idle" => worker.job = None

(* What each step does to the jobs. *)
LEMMA QueueGrows ==
    ASSUME JobsInv, [Next]_vars
    PROVE  \/ jobs' = jobs
           \/ Len(jobs') <= MaxJobs
           \/ \E j \in DOMAIN jobs : \E new : jobs' = [jobs EXCEPT ![j] = new]
<1> DEFINE Goal == \/ jobs' = jobs
                   \/ Len(jobs') <= MaxJobs
                   \/ \E j \in DOMAIN jobs : \E new : jobs' = [jobs EXCEPT ![j] = new]
<1>0. jobs \in Seq(JobRec)
  BY DEF JobsInv, QueueTypeOK
<1>1. ASSUME NEW r \in Requests, Inserts(r) PROVE Goal
  <2>1. CASE jobs' = jobs
    BY <2>1
  <2>2. CASE jobs' = Append(jobs, IntoJob(request[r].work))
    BY <1>0, <1>1, <2>2, ImportAssumption DEF Inserts
  <2> QED
    BY <1>1, <2>1, <2>2 DEF Inserts
<1>2. ASSUME NEW r \in Requests, NEW ids, NEW reuse, Retries(r, ids, reuse) PROVE Goal
  BY <1>2 DEF Retries
<1>3. ASSUME ClaimsNext PROVE Goal
  <2>1. Waiting \subseteq DOMAIN jobs /\ DOMAIN jobs \subseteq Nat
    BY <1>0 DEF Waiting
  <2>2. Min(Waiting) \in DOMAIN jobs
    BY <1>3, <2>1, MinOfNats DEF ClaimsNext
  <2>3. \E new : jobs' = [jobs EXCEPT ![Min(Waiting)] = new]
    BY <1>3 DEF ClaimsNext, Claim
  <2> QED
    BY <2>2, <2>3
<1>4. ASSUME Ends PROVE Goal
  <2>1. worker.job \in DOMAIN jobs
    BY <1>4 DEF Ends, Ended, JobsInv, RunInv
  <2>2. \E new : jobs' = [jobs EXCEPT ![worker.job] = new]
    BY <1>4 DEF Ends
  <2> QED
    BY <2>1, <2>2
<1>5. ASSUME UNCHANGED jobs PROVE Goal
  BY <1>5
<1> HIDE DEF Goal
<1>6. Goal
  BY <1>1, <1>2, <1>3, <1>4, <1>5 DEF Next, vars, queueVars, Asks, LooksUp, Runs,
    Abandons, CollectsNothing, Collects, Imports, Spawns, Reports, TakesLock, Checks,
    Publishes, Quarantines, Settles, Errs, SettlesFailure, SettlesNothing, Crash
<1> QED
  BY <1>6 DEF Goal

(* What each step does to the worker. *)
LEMMA WorkerIdles ==
    ASSUME JobsInv, Bounds, [Next]_vars
    PROVE  worker'.at = "idle" => worker'.job = None
<1> DEFINE Goal == worker'.at = "idle" => worker'.job = None
<1>0. worker \in [at : {"idle", "claimed", "running"}, job : Nat \cup {None},
                 left : SUBSET Paths, failed : BOOLEAN]
  BY DEF JobsInv, QueueTypeOK
<1>1. ASSUME worker' = Idle PROVE Goal
  BY <1>1 DEF Idle
<1>2. ASSUME ClaimsNext PROVE Goal
  BY <1>2 DEF ClaimsNext, Idle
<1>3. ASSUME NEW present, Collects(present) PROVE Goal
  BY <1>0, <1>3 DEF Collects
<1>4. ASSUME CollectsNothing PROVE Goal
  BY <1>0, <1>4 DEF CollectsNothing
<1>5. ASSUME NEW p, Spawns(p) PROVE Goal
  BY <1>0, <1>5 DEF Spawns
<1>6. ASSUME Breaks PROVE Goal
  BY <1>0, <1>6 DEF Breaks, Bounds
<1>7. ASSUME UNCHANGED worker PROVE Goal
  BY <1>7 DEF Bounds
<1> HIDE DEF Goal
<1>8. Goal
  BY <1>1, <1>2, <1>3, <1>4, <1>5, <1>6, <1>7 DEF Next, vars, runVars, Asks, LooksUp, Inserts,
    Retries, Runs, Abandons, Ends, Imports, Reports, TakesLock, Checks,
    Publishes, Quarantines, Settles, Errs, SettlesFailure, SettlesNothing, Notes, Crash
<1> QED
  BY <1>8 DEF Goal

LEMMA BoundsStep ==
    ASSUME JobsInv, JobsInv', Bounds, [Next]_vars
    PROVE  Bounds'
<1>1. Len(jobs') <= MaxJobs
  <2>0. jobs \in Seq(JobRec)
    BY DEF JobsInv, QueueTypeOK
  <2>1. ASSUME NEW j \in DOMAIN jobs, NEW new, jobs' = [jobs EXCEPT ![j] = new]
        PROVE  Len(jobs') = Len(jobs)
    <3>1. DOMAIN jobs' = DOMAIN jobs
      BY <2>1
    <3>2. jobs' \in Seq(JobRec)
      BY DEF JobsInv, QueueTypeOK
    <3> QED
      BY <2>0, <3>1, <3>2, LenProperties
  <2> QED
    BY <2>1, QueueGrows DEF Bounds
<1>2. crashes' \in 0 .. MaxCrashes
  <2>1. CASE Crash
    BY <2>1, ImportAssumption DEF Crash, Bounds
  <2>2. CASE UNCHANGED crashes
    BY <2>2 DEF Bounds
  <2>3. UNCHANGED crashes \/ Crash
    BY DEF Next, vars, Asks, LooksUp, Inserts, Retries, Runs, ClaimsNext,
      Abandons, CollectsNothing, Ends, Collects, Imports, Spawns, Reports, TakesLock, Checks,
      Publishes, Quarantines, Settles, Errs, SettlesFailure, SettlesNothing
  <2> QED
    BY <2>1, <2>2, <2>3
<1> QED
  BY <1>1, <1>2, WorkerIdles DEF Bounds

(* Every variable keeps its type, and every item refers to a job there is. *)
THEOREM ImportTypes == Spec => []ImportTypeOK
<1> DEFINE Inv == CopyInv /\ JobsInv /\ CanonInv /\ Bounds
<1>1. Inv => ImportTypeOK
  <2> SUFFICES ASSUME Inv PROVE ImportTypeOK
    OBVIOUS
  <2>1. \A j \in DOMAIN jobs : jobs[j] \in JobRec
    BY DEF JobsInv, QueueTypeOK
  <2>2. \A i \in DOMAIN items : items[i] \in Item /\ items[i].job \in DOMAIN jobs
    BY DEF JobsInv, QueueTypeOK, WorksInv
  <2>3. worker \in [at : {"idle", "claimed", "running"}, job : (DOMAIN jobs) \cup {None},
                   left : SUBSET Paths, failed : BOOLEAN]
    <3>1. worker \in [at : {"idle", "claimed", "running"}, job : Nat \cup {None},
                     left : SUBSET Paths, failed : BOOLEAN]
      BY DEF JobsInv, QueueTypeOK
    <3>2. worker.job \in (DOMAIN jobs) \cup {None}
      BY <3>1 DEF JobsInv, RunInv, Bounds
    <3> QED
      BY <3>1, <3>2
  <2>4. request \in [Requests -> [at : {"idle", "insert", "done"}, work : Work \cup {None}]]
    BY DEF JobsInv, QueueTypeOK
  <2>5. canonical \in [Songs -> Paths \cup {None}]
    BY DEF CanonInv
  <2>6. RunTypeOK
    BY DEF CopyInv
  <2>7. Bounds
    OBVIOUS
  <2> HIDE DEF Inv
  <2> QED
    BY <2>1, <2>2, <2>3, <2>4, <2>5, <2>6, <2>7 DEF ImportTypeOK, RunTypeOK, Bounds,
      JobRec, Item, TaskState, Verdicts
<1>2. Init => CanonInv /\ Bounds
  BY ImportAssumption DEF Init, CanonInv, FreshIsAssociated, Bounds, Idle
<1>3. Init => Inv
  BY <1>2, CopyInvInit, JobsInvInit
<1>4. Inv /\ [Next]_vars => Inv'
  BY CopyInvStep, JobsInvStep, CanonInvStep, BoundsStep
<1> HIDE DEF Inv
<1>5. QED
  BY <1>1, <1>3, <1>4, PTL DEF Spec
=============================================================================
