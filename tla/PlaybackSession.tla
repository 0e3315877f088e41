--------------------------- MODULE PlaybackSession ---------------------------
(***************************************************************************)
(* The account-scoped shared playback session of src/state.rs, and the     *)
(* HTTP handlers of src/api/playback.rs that change it.                    *)
(*                                                                         *)
(* One session per account lives behind one lock.  Every write goes        *)
(* through mutate_playback_session: the change, a new revision drawn from  *)
(* the server-wide event sequence, and then, after the lock is released,   *)
(* an event that carries the whole session to the account's clients.       *)
(* Handlers of a session that is bound to a Sonos target work in three     *)
(* parts: they compute a preview of the session outside the lock, await    *)
(* the speaker, and commit the preview as it is.                           *)
(*                                                                         *)
(* A request is a name used once; a transfer is named after the request    *)
(* that asked for it.  The managed Sonos sessions of src/sonos.rs appear   *)
(* here only as what they load, stop and report.                           *)
(***************************************************************************)
EXTENDS Integers, Sequences

CONSTANTS
    None,           \* the absence of an optional value
    Accounts,       \* the accounts that own a session
    Requests,       \* the requests (and Sonos tasks) that may run
    SonosTargets,   \* the speakers and groups
    Attachments,    \* the ids of local controllers
    Queues,         \* the queues Sonos play requests resolve to
    QueueBodies,    \* the bodies of PUT /session/queue
    StateBodies,    \* the bodies of PATCH /session/state
    SonosPositions, \* the positions a managed Sonos session reports
    MaxOtherEvents  \* bound on the sequence numbers other resources draw

VARIABLES
    session,        \* session[a]: the playback session of a, None before its first use
    eventSeq,       \* inner.event_sequence
    managed,        \* managed[t]: owner and queue of the managed Sonos session, or None
    phase,          \* phase[r]: where the handler of r stands
    job,            \* job[r]: what the handler of r keeps across its awaits
    screen,         \* screen[a]: the newest snapshot a client of a holds, or None
    newest          \* newest[a]: the last transfer a asked for (a history variable)

vars == <<session, eventSeq, managed, phase, job, screen, newest>>

Maybe(S) == S \cup {None}
PlaybackStates == {"playing", "paused", "buffering", "stopped"}

Local(attachment) == [kind |-> "local", id |-> attachment]
Sonos(target) == [kind |-> "sonos", id |-> target]
LocalTarget == [kind : {"local"}, id : Maybe(Attachments)]
SonosTarget == [kind : {"sonos"}, id : SonosTargets]
Target == LocalTarget \cup SonosTarget

\* A queue item is its duration: nothing else of it decides anything here.
Queue == Seq(Maybe(Nat))
Transfer == [id : Requests, to : Target, state : {"pending", "failed"}]
Snapshot ==
    [queue : Queue, index : Maybe(Nat), state : PlaybackStates,
     position : Nat, duration : Maybe(Nat), target : Target,
     attachment : Maybe(Attachments), transfer : Maybe(Transfer),
     revision : Nat]
QueueBody ==
    [queue : Queue, index : Maybe(Nat), state : Maybe(PlaybackStates),
     position : Maybe(Nat), duration : Maybe(Nat)]
StateBody ==
    [index : Maybe(Nat), state : Maybe(PlaybackStates),
     position : Maybe(Nat), duration : Maybe(Nat)]

\* No number, string, name or record is the absence of one.
ASSUME NoneIsNothing ==
    /\ None \notin Nat \cup PlaybackStates \cup Attachments \cup SonosTargets
                   \cup Requests \cup Transfer \cup Snapshot
    /\ None \notin [owner : Accounts, queue : Queue]

ASSUME InputsAreTyped ==
    /\ Queues \subseteq Queue \ {<<>>}
    /\ QueueBodies \subseteq QueueBody
    /\ StateBodies \subseteq StateBody
    /\ SonosPositions \subseteq Nat
    /\ MaxOtherEvents \in Nat

Kinds == {"none", "queue", "state", "commit", "transfer", "confirm",
          "started", "reported", "stopped"}
Plans == {"none", "stop", "play", "play_then_pause", "pause", "resume"}
Phases == {"idle", "device", "land", "fail", "publish", "done"}

Job ==
    [kind : Kinds, account : Maybe(Accounts), body : Maybe(QueueBody \cup StateBody),
     view : Maybe(Snapshot), target : Maybe(SonosTargets), plan : Plans,
     transfer : Maybe(Requests), loaded : BOOLEAN, then : {"device", "done"}]

NoJob ==
    [kind |-> "none", account |-> None, body |-> None, view |-> None,
     target |-> None, plan |-> "none", transfer |-> None, loaded |-> FALSE,
     then |-> "done"]

-----------------------------------------------------------------------------
(* The validators and the pure updates of a session.                       *)

OrElse(x, y) == IF x = None THEN y ELSE x

IndexOK(queue, index) ==
    IF queue = <<>> THEN index \in {None, 0}
                    ELSE index = None \/ index < Len(queue)

ResolvedIndex(queue, index) ==
    IF queue = <<>> THEN None ELSE OrElse(index, 0)

ProgressOK(position, duration) == duration = None \/ position <= duration

DurationAt(queue, index) == IF index = None THEN None ELSE queue[index + 1]

Fresh(revision) ==
    [queue |-> <<>>, index |-> None, state |-> "stopped", position |-> 0,
     duration |-> None, target |-> Local(None), attachment |-> None,
     transfer |-> None, revision |-> revision]

ReplacedDuration(body) ==
    OrElse(body.duration,
           DurationAt(body.queue, ResolvedIndex(body.queue, body.index)))

ReplacementOK(body) ==
    /\ IndexOK(body.queue, body.index)
    /\ ProgressOK(OrElse(body.position, 0), ReplacedDuration(body))

\* Mutant of Replaced: the transfer outlives the queue it was offered for.
ReplacedKeepsTransfer(s, body) ==
    [s EXCEPT !.queue = body.queue,
              !.index = ResolvedIndex(body.queue, body.index),
              !.state = OrElse(body.state, "stopped"),
              !.position = OrElse(body.position, 0),
              !.duration = ReplacedDuration(body)]

Replaced(s, body) ==
    [s EXCEPT !.queue = body.queue,
              !.index = ResolvedIndex(body.queue, body.index),
              !.state = OrElse(body.state, "stopped"),
              !.position = OrElse(body.position, 0),
              !.duration = ReplacedDuration(body),
              !.transfer = None]

PatchedIndex(s, body) ==
    IF body.index = None THEN s.index ELSE ResolvedIndex(s.queue, body.index)

PatchedDuration(s, body) ==
    OrElse(OrElse(body.duration, DurationAt(s.queue, PatchedIndex(s, body))),
           s.duration)

PatchOK(s, body) ==
    /\ body.index # None => IndexOK(s.queue, body.index)
    /\ ProgressOK(OrElse(body.position, s.position), PatchedDuration(s, body))

Patched(s, body) ==
    [s EXCEPT !.index = PatchedIndex(s, body),
              !.state = OrElse(body.state, s.state),
              !.position = OrElse(body.position, s.position),
              !.duration = PatchedDuration(s, body)]

\* What a commit or a report leaves alone is only the revision.
Overwritten(s, view) == [view EXCEPT !.revision = s.revision]

Reported(s, view) ==
    [s EXCEPT !.queue = view.queue, !.index = view.index, !.state = view.state,
              !.position = view.position, !.duration = view.duration]

PendingTransfer(s, id) ==
    s.transfer # None /\ s.transfer.id = id /\ s.transfer.state = "pending"

-----------------------------------------------------------------------------
(* The lock, the revision and the event.                                   *)

\* The session an accessor finds, or would create, under the lock.
Runtime(a) == IF session[a] = None THEN Fresh(eventSeq) ELSE session[a]

Stamped(s) == [s EXCEPT !.revision = eventSeq + 1]

Mutate(r, j, s) ==
    /\ session' = [session EXCEPT ![j.account] = Stamped(s)]
    /\ eventSeq' = eventSeq + 1
    /\ job' = [job EXCEPT ![r] = [j EXCEPT !.view = Stamped(s)]]
    /\ phase' = [phase EXCEPT ![r] = "publish"]
    /\ UNCHANGED <<managed, screen>>

\* The mutation answered an error: the session may have been created by then.
Reject(r, a) ==
    /\ session' = [session EXCEPT ![a] = Runtime(a)]
    /\ phase' = [phase EXCEPT ![r] = "done"]
    /\ job' = [job EXCEPT ![r] = NoJob]
    /\ UNCHANGED <<eventSeq, managed, screen, newest>>

Finish(r) ==
    /\ phase' = [phase EXCEPT ![r] = "done"]
    /\ job' = [job EXCEPT ![r] = NoJob]

Await(r, where, j) ==
    /\ phase' = [phase EXCEPT ![r] = where]
    /\ job' = [job EXCEPT ![r] = j]
    /\ UNCHANGED <<session, eventSeq, managed, screen, newest>>

\* A client keeps the snapshot with the highest revision it has seen, once it
\* has read a base to patch.
Merge(a, s) ==
    IF screen[a] = None \/ s.revision <= screen[a].revision
        THEN screen
        ELSE [screen EXCEPT ![a] = s]

Publish(r) ==
    /\ phase[r] = "publish"
    /\ screen' = Merge(job[r].account, job[r].view)
    /\ IF job[r].then = "device"
           THEN /\ phase' = [phase EXCEPT ![r] = "device"]
                /\ job' = [job EXCEPT ![r].then = "done"]
           ELSE Finish(r)
    /\ UNCHANGED <<session, eventSeq, managed, newest>>

ReadSession(a) ==
    /\ session' = [session EXCEPT ![a] = Runtime(a)]
    /\ screen' = [screen EXCEPT ![a] = Runtime(a)]
    /\ UNCHANGED <<eventSeq, managed, phase, job, newest>>

\* Another account's or another screen's event.
OtherEvent ==
    /\ eventSeq < MaxOtherEvents
    /\ eventSeq' = eventSeq + 1
    /\ UNCHANGED <<session, managed, phase, job, screen, newest>>

-----------------------------------------------------------------------------
(* Attachments.                                                            *)

Attach(r, a, id) ==
    LET s == Runtime(a) IN
    /\ phase[r] = "idle"
    /\ Mutate(r, [NoJob EXCEPT !.account = a],
              [s EXCEPT !.attachment = id,
                        !.target = IF @.kind = "local" THEN Local(id) ELSE @])
    /\ UNCHANGED newest

Detach(r, a) ==
    LET s == Runtime(a) IN
    /\ phase[r] = "idle"
    /\ Mutate(r, [NoJob EXCEPT !.account = a],
              [s EXCEPT !.attachment = None,
                        !.target = IF @.kind = "local" THEN Local(None) ELSE @])
    /\ UNCHANGED newest

-----------------------------------------------------------------------------
(* PUT /session/queue and PATCH /session/state.                            *)

FullPlan(view) ==
    IF view.queue = <<>> \/ view.index = None \/ view.state = "stopped" THEN "stop"
    ELSE IF view.state = "paused" THEN "play_then_pause"
    ELSE "play"

NeedsRefresh(body) ==
    body.index # None \/ body.position # None \/ body.duration # None

StatePlan(view, body) ==
    IF view.queue = <<>> \/ view.index = None \/ body.state = "stopped" THEN "stop"
    ELSE IF NeedsRefresh(body) THEN FullPlan(view)
    ELSE IF body.state = "paused" THEN "pause"
    ELSE "resume"

ReplaceQueue(r, a, body) ==
    LET view == Replaced(Runtime(a), body)
        j == [NoJob EXCEPT !.kind = "queue", !.account = a, !.body = body]
    IN
    /\ phase[r] = "idle"
    /\ IF ~ReplacementOK(body)
           THEN /\ Finish(r)
                /\ UNCHANGED <<session, eventSeq, managed, screen, newest>>
       ELSE IF view.target.kind = "sonos"
           THEN Await(r, "device",
                      [j EXCEPT !.kind = "commit", !.view = view,
                                !.target = view.target.id, !.plan = FullPlan(view)])
       ELSE Await(r, "land", j)

TouchesPlayback(body) == body.state # None \/ NeedsRefresh(body)

UpdateState(r, a, body) ==
    LET view == Patched(Runtime(a), body)
        j == [NoJob EXCEPT !.kind = "state", !.account = a, !.body = body]
    IN
    /\ phase[r] = "idle"
    /\ IF ~TouchesPlayback(body)
           THEN Await(r, "land", j)
       ELSE IF ~PatchOK(Runtime(a), body)
           THEN /\ Finish(r)
                /\ UNCHANGED <<session, eventSeq, managed, screen, newest>>
       ELSE IF view.target.kind = "sonos"
           THEN Await(r, "device",
                      [j EXCEPT !.kind = "commit", !.view = view,
                                !.target = view.target.id,
                                !.plan = StatePlan(view, body)])
       ELSE Await(r, "land", j)

Landing(r, kind) == phase[r] = "land" /\ job[r].kind = kind

QueueLands(r) ==
    /\ Landing(r, "queue")
    /\ Mutate(r, job[r], Replaced(Runtime(job[r].account), job[r].body))
    /\ UNCHANGED newest

\* Mutant of StateLands: the check of the preview is trusted at the write.
StateLandsUnchecked(r) ==
    LET s == Runtime(job[r].account) IN
    /\ Landing(r, "state")
    /\ Mutate(r, job[r], Patched(s, job[r].body))
    /\ UNCHANGED newest

StateLands(r) ==
    LET s == Runtime(job[r].account) IN
    /\ Landing(r, "state")
    /\ IF PatchOK(s, job[r].body)
           THEN Mutate(r, job[r], Patched(s, job[r].body)) /\ UNCHANGED newest
           ELSE Reject(r, job[r].account)

CommitLands(r) ==
    /\ Landing(r, "commit")
    /\ Mutate(r, job[r], Overwritten(Runtime(job[r].account), job[r].view))
    /\ UNCHANGED newest

-----------------------------------------------------------------------------
(* The speaker, as the handlers see it: src/sonos.rs has the details.      *)

Loaded(a, queue) == [owner |-> a, queue |-> queue]

DevicePlay(r) ==
    /\ phase[r] = "device"
    /\ job[r].plan \in {"play", "play_then_pause"}
    /\ managed' = [managed EXCEPT ![job[r].target] =
                       Loaded(job[r].account, job[r].view.queue)]
    /\ IF job[r].plan = "play"
           THEN /\ phase' = [phase EXCEPT ![r] = "land"]
                /\ job' = [job EXCEPT ![r].loaded = TRUE]
           ELSE /\ job' = [job EXCEPT ![r].loaded = TRUE, ![r].plan = "pause"]
                /\ UNCHANGED phase
    /\ UNCHANGED <<session, eventSeq, screen, newest>>

DeviceStop(r) ==
    /\ phase[r] = "device"
    /\ job[r].plan = "stop"
    /\ managed' = [managed EXCEPT ![job[r].target] = None]
    /\ phase' = [phase EXCEPT ![r] = "land"]
    /\ UNCHANGED <<session, eventSeq, job, screen, newest>>

DeviceCommand(r) ==
    /\ phase[r] = "device"
    /\ job[r].plan \in {"pause", "resume"}
    /\ managed[job[r].target] # None
    /\ phase' = [phase EXCEPT ![r] = "land"]
    /\ UNCHANGED <<session, eventSeq, managed, job, screen, newest>>

\* A resume that finds no managed session loads the preview instead.
DeviceReplays(r) ==
    /\ phase[r] = "device"
    /\ job[r].plan = "resume"
    /\ managed[job[r].target] = None
    /\ job' = [job EXCEPT ![r].plan = "play"]
    /\ UNCHANGED <<session, eventSeq, managed, phase, screen, newest>>

\* Every command but a stop can fail, and the answer is an error; a failed
\* transfer is recorded first.
DeviceFails(r) ==
    /\ phase[r] = "device"
    /\ job[r].plan # "stop"
    /\ IF job[r].kind = "transfer"
           THEN phase' = [phase EXCEPT ![r] = "fail"] /\ UNCHANGED job
           ELSE Finish(r)
    /\ UNCHANGED <<session, eventSeq, managed, screen, newest>>

\* The client of a request that awaits the speaker goes away, and the handler
\* is dropped where it stands.
Disconnect(r) ==
    /\ phase[r] \in {"device", "land"}
    /\ job[r].target # None
    /\ Finish(r)
    /\ UNCHANGED <<session, eventSeq, managed, screen, newest>>

-----------------------------------------------------------------------------
(* Transfers.                                                              *)

RequestTransfer(r, a, to) ==
    LET s == Runtime(a)
        j == [NoJob EXCEPT !.kind = "transfer", !.account = a, !.transfer = r]
    IN
    /\ phase[r] = "idle"
    /\ IF s.queue = <<>>
           THEN Reject(r, a)
           ELSE /\ Mutate(r, IF to.kind = "sonos"
                               THEN [j EXCEPT !.target = to.id, !.plan = "play",
                                              !.then = "device"]
                               ELSE j,
                          [s EXCEPT !.transfer =
                               [id |-> r, to |-> to, state |-> "pending"]])
                /\ newest' = [newest EXCEPT ![a] = r]

TransferLands(r) ==
    LET s == Runtime(job[r].account) IN
    /\ Landing(r, "transfer")
    /\ IF PendingTransfer(s, r) /\ s.transfer.to = Sonos(job[r].target)
           THEN /\ Mutate(r, job[r], [s EXCEPT !.target = Sonos(job[r].target),
                                               !.transfer = None])
                /\ UNCHANGED newest
           ELSE Reject(r, job[r].account)

TransferFails(r) ==
    LET s == Runtime(job[r].account) IN
    /\ phase[r] = "fail"
    /\ Mutate(r, job[r],
              IF s.transfer # None /\ s.transfer.id = r
                  THEN [s EXCEPT !.transfer.state = "failed"]
                  ELSE s)
    /\ UNCHANGED newest

\* The read-only check of POST /transfer/confirm, which also finds the speaker
\* to stop when playback comes back to a local controller.
CheckConfirm(r, a, id) ==
    LET s == session[a]
        j == [NoJob EXCEPT !.kind = "confirm", !.account = a, !.transfer = id]
    IN
    /\ phase[r] = "idle"
    /\ s # None
    /\ PendingTransfer(s, id)
    /\ IF s.transfer.to.kind = "local" /\ s.target.kind = "sonos"
           THEN Await(r, "device",
                      [j EXCEPT !.target = s.target.id, !.plan = "stop"])
           ELSE Await(r, "land", j)

ConfirmLands(r) ==
    LET s == Runtime(job[r].account) IN
    /\ Landing(r, "confirm")
    /\ IF PendingTransfer(s, job[r].transfer)
           THEN /\ Mutate(r, job[r], [s EXCEPT !.target = s.transfer.to,
                                               !.transfer = None])
                /\ UNCHANGED newest
           ELSE Reject(r, job[r].account)

-----------------------------------------------------------------------------
(* What the managed Sonos sessions write back.                             *)

\* A snapshot of the managed session of t at some index and position.
SonosView(queue, index, position, state) ==
    [Fresh(0) EXCEPT !.queue = queue, !.index = index, !.state = state,
                     !.position = position, !.duration = queue[index + 1]]

\* POST /sonos/targets/{t}/play has started the speaker.
SonosStarts(r, a, t, queue) ==
    /\ phase[r] = "idle"
    /\ managed' = [managed EXCEPT ![t] = Loaded(a, queue)]
    /\ phase' = [phase EXCEPT ![r] = "land"]
    /\ \E state \in PlaybackStates :
           job' = [job EXCEPT ![r] =
                      [NoJob EXCEPT !.kind = "started", !.account = a,
                                    !.view = SonosView(queue, 0, 0, state),
                                    !.target = t, !.loaded = TRUE]]
    /\ UNCHANGED <<session, eventSeq, screen, newest>>

StartLands(r) ==
    LET s == Runtime(job[r].account) IN
    /\ Landing(r, "started")
    /\ Mutate(r, job[r], [Reported(s, job[r].view) EXCEPT
                              !.target = Sonos(job[r].target), !.transfer = None])
    /\ UNCHANGED newest

\* A command, an item change, a reconnect or a refresh of the managed session
\* took a snapshot of it to tell the shared session.
SonosReports(r, t) ==
    /\ phase[r] = "idle"
    /\ managed[t] # None
    /\ \E index \in 0 .. Len(managed[t].queue) - 1, position \in SonosPositions,
          state \in PlaybackStates :
           Await(r, "land",
                 [NoJob EXCEPT !.kind = "reported", !.account = managed[t].owner,
                               !.view = SonosView(managed[t].queue, index, position, state),
                               !.target = t])

ReportLands(r) ==
    LET s == Runtime(job[r].account)
        view == job[r].view
    IN
    /\ Landing(r, "reported")
    /\ IF s.target # Sonos(job[r].target)
           THEN Mutate(r, job[r], s) /\ UNCHANGED newest
       ELSE IF ProgressOK(view.position, view.duration)
           THEN Mutate(r, job[r], Reported(s, view)) /\ UNCHANGED newest
       ELSE Reject(r, job[r].account)

\* The managed session was stopped, or its reconnect window ran out.
SonosStops(r, t) ==
    /\ phase[r] = "idle"
    /\ managed[t] # None
    /\ managed' = [managed EXCEPT ![t] = None]
    /\ phase' = [phase EXCEPT ![r] = "land"]
    /\ job' = [job EXCEPT ![r] = [NoJob EXCEPT !.kind = "stopped",
                                               !.account = managed[t].owner,
                                               !.target = t]]
    /\ UNCHANGED <<session, eventSeq, screen, newest>>

\* Mutant of StopLands: the session is edited without a revision or an event.
StopLandsSilently(r) ==
    LET a == job[r].account
        s == Runtime(a)
    IN
    /\ Landing(r, "stopped")
    /\ session' = [session EXCEPT ![a] =
                       IF s.target = Sonos(job[r].target)
                           THEN [s EXCEPT !.target = Local(s.attachment),
                                          !.state = "stopped", !.transfer = None]
                           ELSE s]
    /\ Finish(r)
    /\ UNCHANGED <<eventSeq, managed, screen, newest>>

StopLands(r) ==
    LET s == Runtime(job[r].account) IN
    /\ Landing(r, "stopped")
    /\ Mutate(r, job[r],
              IF s.target = Sonos(job[r].target)
                  THEN [s EXCEPT !.target = Local(s.attachment),
                                 !.state = "stopped", !.transfer = None]
                  ELSE s)
    /\ UNCHANGED newest

-----------------------------------------------------------------------------

Init ==
    /\ session = [a \in Accounts |-> None]
    /\ eventSeq = 0
    /\ managed = [t \in SonosTargets |-> None]
    /\ phase = [r \in Requests |-> "idle"]
    /\ job = [r \in Requests |-> NoJob]
    /\ screen = [a \in Accounts |-> None]
    /\ newest = [a \in Accounts |-> None]

Lands(r) ==
    \/ QueueLands(r) \/ StateLands(r) \/ CommitLands(r)
    \/ TransferLands(r) \/ ConfirmLands(r)
    \/ StartLands(r) \/ ReportLands(r) \/ StopLands(r)

Device(r) ==
    \/ DevicePlay(r) \/ DeviceStop(r) \/ DeviceCommand(r)
    \/ DeviceReplays(r) \/ DeviceFails(r) \/ Disconnect(r)

Arrives(r, a) ==
    \/ \E id \in Attachments : Attach(r, a, id)
    \/ Detach(r, a)
    \/ \E body \in QueueBodies : ReplaceQueue(r, a, body)
    \/ \E body \in StateBodies : UpdateState(r, a, body)
    \/ \E to \in Target : RequestTransfer(r, a, to)
    \/ \E id \in Requests : CheckConfirm(r, a, id)
    \/ \E t \in SonosTargets, queue \in Queues : SonosStarts(r, a, t, queue)

Next ==
    \/ \E r \in Requests :
           \/ \E a \in Accounts : Arrives(r, a)
           \/ \E t \in SonosTargets : SonosReports(r, t) \/ SonosStops(r, t)
           \/ Device(r)
           \/ Lands(r)
           \/ TransferFails(r)
           \/ Publish(r)
    \/ \E a \in Accounts : ReadSession(a)
    \/ OtherEvent

Spec == Init /\ [][Next]_vars

-----------------------------------------------------------------------------

\* The types of the state.
SessionTypeOK ==
    /\ session \in [Accounts -> Maybe(Snapshot)]
    /\ eventSeq \in Nat
    /\ managed \in [SonosTargets -> Maybe([owner : Accounts, queue : Queue])]
    /\ phase \in [Requests -> Phases]
    /\ job \in [Requests -> Job]
    /\ screen \in [Accounts -> Maybe(Snapshot)]
    /\ newest \in [Accounts -> Maybe(Requests)]

Sound(s) ==
    /\ s.index = None <=> s.queue = <<>>
    /\ s.index # None => s.index < Len(s.queue)
    /\ ProgressOK(s.position, s.duration)

\* Every session points inside its queue, at a position its duration allows,
\* and so does every preview a handler still has to commit: state.rs:5313
\* indexes the queue without a check, and play_session_snapshot starts there.
QueueCursor ==
    /\ \A a \in Accounts : session[a] # None => Sound(session[a])
    /\ \A r \in Requests :
           job[r].kind = "commit" /\ job[r].view # None => Sound(job[r].view)

\* A transfer is only offered for something to play: request_playback_session_transfer
\* refuses an empty queue (state.rs:889), and no later write of the queue may
\* leave the transfer behind without one.
TransferHasQueue ==
    \A a \in Accounts :
        session[a] # None /\ session[a].transfer # None => session[a].queue # <<>>

\* Events leave after the lock is released and may overtake each other; a client
\* that keeps the snapshot with the highest revision still ends with the
\* session the server has, once nothing is left to send.
ScreenFollows ==
    \A a \in Accounts :
        /\ screen[a] # None
        /\ \A r \in Requests : phase[r] = "publish" => job[r].account # a
        => screen[a] = session[a]

\* The transfer a session offers is the last one its account asked for: were it
\* an older one, that stale id would be accepted and the newer one refused,
\* against INTEGRATION.md:922.
OfferedTransferIsNewest ==
    \A a \in Accounts :
        session[a] # None /\ session[a].transfer # None
            => session[a].transfer.id = newest[a]
=============================================================================
