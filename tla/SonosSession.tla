---------------------------- MODULE SonosSession ----------------------------
(***************************************************************************)
(* The managed session of one Sonos target: src/sonos.rs.                  *)
(*                                                                         *)
(* HTTP handlers start, stop, pause, seek and skip; one background task,   *)
(* the reconciler, asks the speaker how it does, declares the session lost *)
(* after two misses, resumes it when the speaker comes back and removes it *)
(* when the reconnect window has passed.  All of them await the database   *)
(* and the speaker, and what orders them is a transport guard per target   *)
(* that not every write of the session takes: the reconciler's updates,    *)
(* the expiry and the item a skip or a resume turns to are written without *)
(* it, after a comparison of session ids.                                  *)
(*                                                                         *)
(* Positions, progress writes, media files and the shared session are left *)
(* out; PlaybackSession has the last.                                      *)
(***************************************************************************)
EXTENDS Integers, Sequences

CONSTANTS
    None,           \* the absence of an optional value
    Requests,       \* the HTTP requests that may run; each is used once
    Reconciler,     \* the task of active_session_loop
    Earlier,        \* the request that started the session of the first state
    Kinds,          \* what the requests may ask for
    Cancellable,    \* the requests whose client may disconnect
    Queues,         \* the queues that play requests resolve to
    Outcomes,       \* how a call to the speaker may end
    Window,         \* RECONNECT_WINDOW, in ticks
    MaxClock,       \* bound on time
    MaxItem         \* bound on item generations

VARIABLES
    managed,        \* the ManagedSonosSession of the target, or None
    guard,          \* the holder of the transport guard, or None
    phase,          \* phase[t]: where task t stands
    job,            \* job[t]: what task t keeps across its awaits
    device,         \* the URI the speaker has, and whether it plays
    clock,          \* Instant::now()
    ended,          \* history: the sessions stopped or expired
    quiet,          \* history: a stop was answered and nothing started since
    outage          \* history: the reconciler's first miss since the session was
                    \* last heard of or changed by a request, or None

history == <<ended, quiet, outage>>
vars == <<managed, guard, phase, job, device, clock, history>>

Maybe(S) == S \cup {None}
Tasks == Requests \cup {Reconciler}
Commands == {"pause", "resume", "seek"}
Skips == {"next", "previous"}
AllKinds == Commands \cup Skips \cup {"play", "stop", "volume"}

ASSUME BoundsAreNatural == Window \in Nat /\ MaxClock \in Nat /\ MaxItem \in Nat
ASSUME KindsAreKinds == Kinds \subseteq AllKinds /\ Cancellable \subseteq Requests
ASSUME AnswersWereApplied ==
    Outcomes \subseteq {o \in [applied : BOOLEAN, answered : BOOLEAN] :
                          o.answered => o.applied}
ASSUME NamesAreApart ==
    /\ None \notin Tasks \cup Nat \cup {Earlier}
    /\ Reconciler \notin Requests
    /\ Earlier \notin Tasks
    /\ None \notin Queues

Ids == Requests \cup {Earlier}
Entries == UNION {{q[i] : i \in DOMAIN q} : q \in Queues}
ASSUME QueuesAreNotEmpty == Queues \subseteq Seq(Entries) \ {<<>>}
Time == 0 .. MaxClock
Context == [id : Ids, gen : Nat, item : Nat, entry : Entries]
Session ==
    [id : Ids, gen : Nat, item : Nat, queue : Queues, index : Nat,
     status : {"active", "reconnecting"}, loss : Maybe(Time),
     deadline : Maybe(0 .. MaxClock + Window), advancing : BOOLEAN,
     prepared : Context]
ASSUME NoneIsNoRecord == None \notin Session \cup Context

Phases ==
    {"idle", "look", "wait", "check", "ungroup", "turn", "mint", "load", "start",
     "seek", "undo", "send", "finish", "verify", "healthy", "miss", "done"}

Job ==
    [kind : Maybe(AllKinds \cup {"pass"}), queue : Maybe(Queues), index : Maybe(Nat),
     gen : Nat, snap : Maybe(Session), back : Maybe(Session), url : Maybe(Context),
     now : Time, playing : BOOLEAN]

NoJob ==
    [kind |-> None, queue |-> None, index |-> None, gen |-> 0, snap |-> None,
     back |-> None, url |-> None, now |-> 0, playing |-> FALSE]

-----------------------------------------------------------------------------
(* The session record.                                                     *)

Authorization(id, gen, item, entry) ==
    [id |-> id, gen |-> gen, item |-> item, entry |-> entry]

NewSession(id, gen, queue, index) ==
    [id |-> id, gen |-> gen, item |-> 1, queue |-> queue, index |-> index,
     status |-> "active", loss |-> None, deadline |-> None, advancing |-> TRUE,
     prepared |-> Authorization(id, gen, 1, queue[index + 1])]

\* session_matches_snapshot, for the session that is there now.
Matches(s) == managed # None /\ managed.id = s.id /\ managed.gen = s.gen

IsReconnecting == managed # None /\ managed.status = "reconnecting"

Overdue(s, now) ==
    /\ s # None
    /\ s.status = "reconnecting"
    /\ s.deadline # None
    /\ now >= s.deadline

Confirmed(s) == [s EXCEPT !.status = "active", !.loss = None, !.deadline = None]

\* Mutant of Missed: the first loss outlives the move to reconnecting.
MissedKeepsLoss(s, now) ==
    IF s.status # "reconnecting" /\ s.loss = None
        THEN [s EXCEPT !.loss = now]
        ELSE [s EXCEPT !.status = "reconnecting", !.advancing = FALSE,
                       !.deadline = IF @ = None
                                        THEN (IF s.loss = None THEN now ELSE s.loss) + Window
                                        ELSE @]

\* Mutant of Missed: the deadline is left to the next miss.
MissedWithoutDeadline(s, now) ==
    IF s.status # "reconnecting" /\ s.loss = None
        THEN [s EXCEPT !.loss = now]
        ELSE [s EXCEPT !.status = "reconnecting", !.advancing = FALSE, !.loss = None]

\* Mutant of Missed: the window is counted from the second miss.
MissedFromNow(s, now) ==
    IF s.status # "reconnecting" /\ s.loss = None
        THEN [s EXCEPT !.loss = now]
        ELSE [s EXCEPT !.status = "reconnecting", !.advancing = FALSE, !.loss = None,
                       !.deadline = IF @ = None THEN now + Window ELSE @]

Missed(s, now) ==
    IF s.status # "reconnecting" /\ s.loss = None
        THEN [s EXCEPT !.loss = now]
        ELSE [s EXCEPT !.status = "reconnecting", !.advancing = FALSE, !.loss = None,
                       !.deadline = IF @ = None
                                        THEN (IF s.loss = None THEN now ELSE s.loss) + Window
                                        ELSE @]

Restored(s, back) ==
    [s EXCEPT !.index = back.index, !.item = back.item, !.status = back.status,
              !.loss = back.loss, !.deadline = back.deadline,
              !.advancing = back.advancing, !.prepared = back.prepared]

Turned(s, snap, index, entry) ==
    [Confirmed(s) EXCEPT
        !.index = index, !.item = snap.item + 1, !.advancing = TRUE,
        !.prepared = Authorization(snap.id, snap.gen, snap.item + 1, entry)]

-----------------------------------------------------------------------------
(* Frames.                                                                 *)

Goto(t, where) == phase' = [phase EXCEPT ![t] = where]

\* The task is over: the reconciler sleeps until its next pass.
Rest(t) == IF t = Reconciler THEN "idle" ELSE "done"

\* Mutant of Leave: the reconciler keeps the guard of its resume.
LeaveWithGuard(t) ==
    /\ Goto(t, Rest(t))
    /\ job' = [job EXCEPT ![t] = NoJob]
    /\ guard' = IF guard = t /\ t # Reconciler THEN None ELSE guard

Leave(t) ==
    /\ Goto(t, Rest(t))
    /\ job' = [job EXCEPT ![t] = NoJob]
    /\ guard' = IF guard = t THEN None ELSE guard

\* A failed handoff: the handler answers an error, the reconciler counts a miss.
Fail(t) ==
    IF t = Reconciler
        THEN /\ Goto(t, "miss")
             /\ guard' = IF guard = t THEN None ELSE guard
             /\ UNCHANGED job
        ELSE Leave(t)

Unmanage ==
    /\ managed' = None
    /\ ended' = ended \cup {managed.id}
    /\ outage' = None

\* update_snapshot: the session is written if it still is the one that was read.
Update(s, new) == managed' = IF Matches(s) THEN new ELSE managed

ExpireTarget(now) ==
    IF Overdue(managed, now)
        THEN Unmanage
        ELSE UNCHANGED <<managed, ended, outage>>

-----------------------------------------------------------------------------
(* The speaker.  A call is applied or not, and answered or not: a call that *)
(* times out may have been applied.                                        *)

\* A new URI stops the speaker until it is told to play.
SetURI(out, url) ==
    device' = IF out.applied THEN [uri |-> url, playing |-> FALSE] ELSE device

Playing(out, plays) ==
    device' = IF out.applied THEN [device EXCEPT !.playing = plays] ELSE device

-----------------------------------------------------------------------------
(* A request arrives.                                                      *)

Arrive(r, kind, queue, index) ==
    /\ phase[r] = "idle"
    /\ kind \in Kinds \ {"stop", "volume"}
    /\ ExpireTarget(clock)
    /\ Goto(r, "look")
    /\ job' = [job EXCEPT ![r] = [NoJob EXCEPT !.kind = kind, !.queue = queue,
                                               !.index = index]]
    /\ UNCHANGED <<guard, device, clock, quiet>>

\* Stop and the rendering commands ask for the guard at once.
ArriveAtGuard(r, kind) ==
    /\ phase[r] = "idle"
    /\ kind \in Kinds \cap {"stop", "volume"}
    /\ Goto(r, "wait")
    /\ job' = [job EXCEPT ![r] = [NoJob EXCEPT !.kind = kind]]
    /\ UNCHANGED <<managed, guard, device, clock, history>>

Looks(r, kinds) == phase[r] = "look" /\ job[r].kind \in kinds

\* The item is prepared after this; that may fail.
PlayLooks(r) ==
    /\ Looks(r, {"play"})
    /\ \/ /\ ~IsReconnecting
          /\ Goto(r, "wait")
          /\ job' = [job EXCEPT ![r].gen = IF managed = None THEN 1 ELSE managed.gen + 1]
          /\ UNCHANGED guard
       \/ Leave(r)
    /\ UNCHANGED <<managed, device, clock, history>>

CommandLooks(r) ==
    /\ Looks(r, Commands)
    /\ IF managed = None \/ IsReconnecting
           THEN Leave(r)
           ELSE /\ Goto(r, "wait")
                /\ job' = [job EXCEPT ![r].snap = managed]
                /\ UNCHANGED guard
    /\ UNCHANGED <<managed, device, clock, history>>

Destination(s, kind) == IF kind = "next" THEN s.index + 1 ELSE s.index - 1

SkipLooks(r) ==
    /\ Looks(r, Skips)
    /\ IF \/ managed = None
          \/ IsReconnecting
          \/ Destination(managed, job[r].kind) \notin 0 .. Len(managed.queue) - 1
           THEN Leave(r)
           ELSE /\ Goto(r, "turn")
                /\ job' = [job EXCEPT ![r].snap = managed,
                                      ![r].index = Destination(managed, job[r].kind)]
                /\ UNCHANGED guard
    /\ UNCHANGED <<managed, device, clock, history>>

-----------------------------------------------------------------------------
(* start_managed_sonos_session, under the guard.                           *)

Locks(t, kinds) ==
    /\ phase[t] = "wait"
    /\ job[t].kind \in kinds
    /\ guard = None

PlayLocks(r) ==
    /\ Locks(r, {"play"})
    /\ guard' = r
    /\ ExpireTarget(clock)
    /\ Goto(r, "check")
    /\ UNCHANGED <<job, device, clock, quiet>>

PlayChecks(r) ==
    /\ phase[r] = "check"
    /\ IF IsReconnecting
           THEN Leave(r)
           ELSE Goto(r, "ungroup") /\ UNCHANGED <<job, guard>>
    /\ UNCHANGED <<managed, device, clock, history>>

\* The speaker did not leave its group, the position lies past the item, or
\* no URL could be signed for the session (which then is out again).
PlayRefused(r) ==
    /\ phase[r] = "ungroup"
    /\ Leave(r)
    /\ UNCHANGED <<managed, device, clock, history>>

PlayInserts(r) ==
    LET new == NewSession(r, job[r].gen, job[r].queue, job[r].index) IN
    /\ phase[r] = "ungroup"
    /\ managed' = new
    /\ job' = [job EXCEPT ![r].back = managed, ![r].url = new.prepared]
    /\ Goto(r, "load")
    /\ quiet' = FALSE
    /\ outage' = None
    /\ UNCHANGED <<guard, device, clock, ended>>

PutBack(r) ==
    /\ managed' = job[r].back
    /\ outage' = None

PlayLoads(r, out) ==
    /\ phase[r] = "load"
    /\ job[r].kind = "play"
    /\ SetURI(out, job[r].url)
    /\ IF out.answered
           THEN Goto(r, "start") /\ UNCHANGED <<managed, guard, job, outage>>
           ELSE PutBack(r) /\ Leave(r)
    /\ UNCHANGED <<clock, ended, quiet>>

PlayStarts(r, out) ==
    /\ phase[r] = "start"
    /\ job[r].kind = "play"
    /\ Playing(out, TRUE)
    /\ IF out.answered
           THEN \E next \in {"seek", "finish"} : Goto(r, next)
           ELSE Goto(r, "undo")
    /\ UNCHANGED <<managed, guard, job, clock, history>>

PlaySeeks(r, out) ==
    /\ phase[r] = "seek"
    /\ job[r].kind = "play"
    /\ Goto(r, IF out.answered THEN "finish" ELSE "undo")
    /\ UNCHANGED <<managed, guard, job, device, clock, history>>

PlayUndoes(r, out) ==
    /\ phase[r] = "undo"
    /\ Playing(out, FALSE)
    /\ PutBack(r)
    /\ Leave(r)
    /\ UNCHANGED <<clock, ended, quiet>>

PlayFinishes(r) ==
    /\ phase[r] = "finish"
    /\ job[r].kind = "play"
    /\ Leave(r)
    /\ UNCHANGED <<managed, device, clock, history>>

-----------------------------------------------------------------------------
(* stop_target_inner, command_current_session, command_target_rendering.   *)

StopLocks(r) ==
    /\ Locks(r, {"stop"})
    /\ IF managed = None
           THEN Leave(r) /\ UNCHANGED <<managed, ended, outage>>
       ELSE IF Overdue(managed, clock)
           THEN Unmanage /\ Leave(r)
       ELSE Unmanage /\ Goto(r, "send") /\ guard' = r /\ UNCHANGED job
    /\ UNCHANGED <<device, clock, quiet>>

\* The answer of the speaker decides nothing.
StopSends(r, out) ==
    /\ phase[r] = "send"
    /\ job[r].kind = "stop"
    /\ Playing(out, FALSE)
    /\ quiet' = out.answered
    /\ Leave(r)
    /\ UNCHANGED <<managed, clock, ended, outage>>

\* Mutant of CommandLocks: the session is not compared again.
CommandLocksBlindly(r) ==
    /\ Locks(r, Commands)
    /\ Goto(r, "send")
    /\ guard' = r
    /\ UNCHANGED <<job, managed, device, clock, history>>

CommandLocks(r) ==
    /\ Locks(r, Commands)
    /\ IF Matches(job[r].snap)
           THEN Goto(r, "send") /\ guard' = r /\ UNCHANGED job
           ELSE Leave(r)
    /\ UNCHANGED <<managed, device, clock, history>>

CommandSends(r, out) ==
    /\ phase[r] = "send"
    /\ job[r].kind \in Commands
    /\ IF job[r].kind = "seek"
           THEN UNCHANGED device
           ELSE Playing(out, job[r].kind = "resume")
    /\ IF out.answered
           THEN Goto(r, "finish") /\ UNCHANGED <<job, guard>>
           ELSE Leave(r)
    /\ UNCHANGED <<managed, clock, history>>

Commanded(s, kind) ==
    [Confirmed(s) EXCEPT !.advancing = CASE kind = "pause" -> FALSE
                                         [] kind = "resume" -> TRUE
                                         [] OTHER -> @]

CommandFinishes(r) ==
    /\ phase[r] = "finish"
    /\ job[r].kind \in Commands
    /\ Update(job[r].snap, Commanded(managed, job[r].kind))
    /\ outage' = IF Matches(job[r].snap) THEN None ELSE outage
    /\ Leave(r)
    /\ UNCHANGED <<device, clock, ended, quiet>>

VolumeLocks(r) ==
    /\ Locks(r, {"volume"})
    /\ guard' = r
    /\ Goto(r, "send")
    /\ UNCHANGED <<managed, job, device, clock, history>>

VolumeSends(r) ==
    /\ phase[r] = "send"
    /\ job[r].kind = "volume"
    /\ Leave(r)
    /\ UNCHANGED <<managed, device, clock, history>>

-----------------------------------------------------------------------------
(* A handoff: item_change_current_session of a request, and                *)
(* resume_reconnected_session of the reconciler.  The session turns to the *)
(* new item before the guard is asked for, and back if the speaker refuses.*)

Handing(t) == job[t].kind \in Skips \cup {"pass"}

Entry(t) ==
    job[t].snap.queue[(IF t = Reconciler THEN job[t].snap.index ELSE job[t].index) + 1]

\* Mutant of Turns: the session that is there is turned, whichever it is.
TurnsWhatIsThere(t) ==
    /\ phase[t] = "turn"
    /\ managed # None
    /\ job[t].snap.item < MaxItem
    /\ managed' = Turned(managed, job[t].snap,
                         IF t = Reconciler THEN managed.index ELSE job[t].index, Entry(t))
    /\ job' = [job EXCEPT ![t].back = managed]
    /\ Goto(t, "mint")
    /\ outage' = IF t = Reconciler THEN outage ELSE None
    /\ UNCHANGED <<guard, device, clock, ended, quiet>>

\* Mutant of Turns: the snapshot that was read is turned and written.
TurnsTheSnapshot(t) ==
    /\ phase[t] = "turn"
    /\ job[t].snap.item < MaxItem
    /\ managed' = Turned(job[t].snap, job[t].snap,
                         IF t = Reconciler THEN job[t].snap.index ELSE job[t].index, Entry(t))
    /\ job' = [job EXCEPT ![t].back = job[t].snap]
    /\ Goto(t, "mint")
    /\ outage' = IF t = Reconciler THEN outage ELSE None
    /\ UNCHANGED <<guard, device, clock, ended, quiet>>

Turns(t) ==
    /\ phase[t] = "turn"
    /\ Matches(job[t].snap)
    /\ job[t].snap.item < MaxItem
    /\ managed' = Turned(managed, job[t].snap,
                         IF t = Reconciler THEN managed.index ELSE job[t].index, Entry(t))
    /\ job' = [job EXCEPT ![t].back = managed]
    /\ Goto(t, "mint")
    /\ outage' = IF t = Reconciler THEN outage ELSE None
    /\ UNCHANGED <<guard, device, clock, ended, quiet>>

\* The session is another one by now.
TurnsNothing(t) ==
    /\ phase[t] = "turn"
    /\ ~Matches(job[t].snap)
    /\ Leave(t)
    /\ UNCHANGED <<managed, device, clock, history>>

\* The media file is not there, or every transcode slot is taken.
PreparesNothing(t) ==
    /\ phase[t] = "turn"
    /\ Fail(t)
    /\ UNCHANGED <<managed, device, clock, history>>

Mints(t) ==
    /\ phase[t] = "mint"
    /\ IF Matches(job[t].snap)
           THEN /\ job' = [job EXCEPT ![t].url = managed.prepared]
                /\ Goto(t, "wait")
                /\ UNCHANGED guard
           ELSE Fail(t)
    /\ UNCHANGED <<managed, device, clock, history>>

RollsBack(t) ==
    /\ Update(job[t].snap, Restored(managed, job[t].back))
    /\ outage' = IF t = Reconciler THEN outage ELSE None

HandoffLocks(t) ==
    /\ Locks(t, Skips \cup {"pass"})
    /\ IF Matches(job[t].snap)
           THEN Goto(t, "load") /\ guard' = t /\ UNCHANGED job
           ELSE Leave(t)
    /\ UNCHANGED <<managed, device, clock, history>>

HandoffLoads(t, out) ==
    /\ phase[t] = "load"
    /\ Handing(t)
    /\ SetURI(out, job[t].url)
    /\ IF ~out.answered
           THEN RollsBack(t) /\ Fail(t)
       ELSE IF Matches(job[t].snap)
           THEN Goto(t, "start") /\ UNCHANGED <<managed, guard, job, outage>>
       ELSE Leave(t) /\ UNCHANGED <<managed, outage>>
    /\ UNCHANGED <<clock, ended, quiet>>

\* Only the resume compares again after Play, and seeks if it has a position.
HandoffStarts(t, out) ==
    /\ phase[t] = "start"
    /\ Handing(t)
    /\ Playing(out, TRUE)
    /\ IF ~out.answered
           THEN RollsBack(t) /\ Fail(t)
       ELSE IF t = Reconciler /\ ~Matches(job[t].snap)
           THEN Leave(t) /\ UNCHANGED <<managed, outage>>
       ELSE /\ \E next \in IF t = Reconciler THEN {"seek", "finish"} ELSE {"finish"} :
                   Goto(t, next)
            /\ UNCHANGED <<managed, guard, job, outage>>
    /\ UNCHANGED <<clock, ended, quiet>>

HandoffSeeks(t, out) ==
    /\ phase[t] = "seek"
    /\ t = Reconciler
    /\ IF out.answered
           THEN Goto(t, "finish") /\ UNCHANGED <<managed, guard, job, outage>>
           ELSE RollsBack(t) /\ Fail(t)
    /\ UNCHANGED <<device, clock, ended, quiet>>

HandoffFinishes(t) ==
    LET found == IF t = Reconciler THEN [Confirmed(managed) EXCEPT !.advancing = TRUE]
                                   ELSE Confirmed(managed)
    IN
    /\ phase[t] = "finish"
    /\ Handing(t)
    /\ Update(job[t].snap, found)
    /\ outage' = IF Matches(job[t].snap) THEN None ELSE outage
    /\ Leave(t)
    /\ UNCHANGED <<device, clock, ended, quiet>>

-----------------------------------------------------------------------------
(* One pass of reconcile_active_sessions over the target.  Other targets    *)
(* are asked before it, so that its snapshot and its time may be old.      *)

PassBegins ==
    /\ phase[Reconciler] = "idle"
    /\ managed # None
    /\ Goto(Reconciler, "check")
    /\ job' = [job EXCEPT ![Reconciler] = [NoJob EXCEPT !.kind = "pass", !.snap = managed,
                                                        !.now = clock]]
    /\ UNCHANGED <<managed, guard, device, clock, history>>

PassChecks ==
    LET j == job[Reconciler] IN
    /\ phase[Reconciler] = "check"
    /\ IF Overdue(j.snap, j.now) /\ Matches(j.snap)
           THEN Unmanage /\ Leave(Reconciler)
           ELSE /\ Goto(Reconciler, "verify")
                /\ UNCHANGED <<managed, job, guard, ended, outage>>
    /\ UNCHANGED <<device, clock, quiet>>

PassVerifies ==
    /\ phase[Reconciler] = "verify"
    /\ \/ /\ Goto(Reconciler, "miss")
          /\ UNCHANGED job
       \/ /\ job[Reconciler].snap.status = "reconnecting"
          /\ Goto(Reconciler, "turn")
          /\ UNCHANGED job
       \/ /\ job[Reconciler].snap.status = "active"
          /\ Goto(Reconciler, "healthy")
          /\ job' = [job EXCEPT ![Reconciler].playing = device.playing]
    /\ UNCHANGED <<managed, guard, device, clock, history>>

\* mark_session_reconnecting
PassMisses ==
    LET j == job[Reconciler] IN
    /\ phase[Reconciler] = "miss"
    /\ Update(j.snap, Missed(managed, j.now))
    /\ outage' = IF Matches(j.snap) /\ outage = None THEN j.now ELSE outage
    /\ Leave(Reconciler)
    /\ UNCHANGED <<device, clock, ended, quiet>>

PassRefreshes ==
    LET j == job[Reconciler] IN
    /\ phase[Reconciler] = "healthy"
    /\ Update(j.snap, [Confirmed(managed) EXCEPT !.advancing = j.playing])
    /\ outage' = IF Matches(j.snap) THEN None ELSE outage
    /\ Leave(Reconciler)
    /\ UNCHANGED <<device, clock, ended, quiet>>

-----------------------------------------------------------------------------
(* A client disconnects: the handler is dropped at the await it stands at. *)
Cancel(r) ==
    /\ r \in Cancellable
    /\ phase[r] \notin {"idle", "mint", "done"}
    /\ Leave(r)
    /\ UNCHANGED <<managed, device, clock, history>>

Tick ==
    /\ clock < MaxClock
    /\ clock' = clock + 1
    /\ UNCHANGED <<managed, guard, phase, job, device, history>>

Init ==
    /\ \E q \in Queues : \E i \in 0 .. Len(q) - 1 :
           managed = NewSession(Earlier, 1, q, i)
    /\ guard = None
    /\ phase = [t \in Tasks |-> "idle"]
    /\ job = [t \in Tasks |-> NoJob]
    /\ device = [uri |-> managed.prepared, playing |-> TRUE]
    /\ clock = 0
    /\ ended = {}
    /\ quiet = FALSE
    /\ outage = None

Arrives(r) ==
    \/ \E q \in Queues : \E i \in 0 .. Len(q) - 1 : Arrive(r, "play", q, i)
    \/ \E k \in Commands \cup Skips : Arrive(r, k, None, None)
    \/ \E k \in {"stop", "volume"} : ArriveAtGuard(r, k)

Takes(r) ==
    \/ PlayLocks(r) \/ StopLocks(r) \/ CommandLocks(r) \/ VolumeLocks(r)
    \/ HandoffLocks(r)

Works(r) ==
    \/ PlayLooks(r) \/ PlayChecks(r) \/ PlayRefused(r) \/ PlayInserts(r)
    \/ PlayFinishes(r)
    \/ CommandLooks(r) \/ CommandFinishes(r) \/ SkipLooks(r)
    \/ Turns(r) \/ TurnsNothing(r) \/ PreparesNothing(r) \/ Mints(r)
    \/ HandoffFinishes(r)
    \/ \E out \in Outcomes :
           \/ PlayLoads(r, out) \/ PlayStarts(r, out) \/ PlaySeeks(r, out)
           \/ PlayUndoes(r, out)
           \/ StopSends(r, out) \/ CommandSends(r, out)
           \/ HandoffLoads(r, out) \/ HandoffStarts(r, out)
    \/ VolumeSends(r)

Reconciles ==
    \/ PassBegins \/ PassChecks \/ PassVerifies \/ PassMisses \/ PassRefreshes
    \/ Turns(Reconciler) \/ TurnsNothing(Reconciler) \/ PreparesNothing(Reconciler)
    \/ Mints(Reconciler) \/ HandoffFinishes(Reconciler)
    \/ \E out \in Outcomes :
           \/ HandoffLoads(Reconciler, out) \/ HandoffStarts(Reconciler, out)
           \/ HandoffSeeks(Reconciler, out)

Next ==
    \/ \E r \in Requests : Arrives(r) \/ Takes(r) \/ Works(r) \/ Cancel(r)
    \/ Reconciles
    \/ HandoffLocks(Reconciler)
    \/ Tick

Spec == Init /\ [][Next]_vars

\* A request that has arrived goes on: the database and the speaker answer or
\* time out.  The guard is handed over in the order it was asked for.  The
\* reconciler passes for ever, and time does.
Fairness ==
    /\ \A r \in Requests : WF_vars(Works(r)) /\ SF_vars(Takes(r))
    /\ WF_vars(Reconciles)
    /\ SF_vars(HandoffLocks(Reconciler))
    /\ WF_vars(Tick)

FairSpec == Spec /\ Fairness

-----------------------------------------------------------------------------
SonosTypeOK ==
    /\ managed \in Maybe(Session)
    /\ guard \in Maybe(Tasks)
    /\ phase \in [Tasks -> Phases]
    /\ job \in [Tasks -> Job]
    /\ device \in [uri : Maybe(Context), playing : BOOLEAN]
    /\ clock \in Time
    /\ ended \subseteq Ids
    /\ quiet \in BOOLEAN
    /\ outage \in Maybe(Time)

\* The sessions somebody may still write to or put back.
Held == {managed} \cup {job[t].snap : t \in Tasks} \cup {job[t].back : t \in Tasks}

\* A loss is only remembered while the session counts as active, and a session
\* that counts as reconnecting has the deadline that will end it: the
\* debug_assert of reconnect_deadline_elapsed, and what it needs to be of use.
\* The rollbacks are what could bring back half of an older status.
StatusIsWhole ==
    \A s \in Held \ {None} :
        /\ s.loss # None => s.status = "active"
        /\ s.deadline # None <=> s.status = "reconnecting"

\* A signed URL that validates was signed for the session that is there: a late
\* resume or skip never lends its authorization to the session that replaced
\* its own.
ClaimsAreOfThisSession ==
    managed # None => /\ managed.prepared.id = managed.id
                      /\ managed.prepared.gen = managed.gen

\* A session that was stopped or has expired does not come back, whatever
\* start, skip or resume of it was under way and failed.
EndedStaysEnded == managed # None => managed.id \notin ended

\* Once the speaker has answered a stop, nothing that was under way before
\* starts it again: only the next play does.
StopSilences == quiet => ~device.playing

\* Resumes that fail do not renew the reconnect window.
WindowNotExtended ==
    IsReconnecting /\ outage # None => managed.deadline <= outage + Window

\* Whatever the speaker does, a session that was lost is found again, changed by
\* a request or gone: resumes that fail, each of which makes the session active
\* for a while, do not go on for ever.  (A loss so late that its window ends
\* after the bound on time is not judged.)
EveryOutageEnds ==
    (outage # None /\ outage + Window <= MaxClock) ~> outage = None

\* Every request gets the guard and its answer: nobody keeps the guard.
EveryRequestIsAnswered ==
    \A r \in Requests : phase[r] # "idle" ~> phase[r] = "done"
=============================================================================
