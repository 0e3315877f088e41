----------------------- MODULE PlaybackSessionProofs -----------------------
(***************************************************************************)
(* Theorems about PlaybackSession, for any accounts, requests, speakers,   *)
(* queues and bodies.                                                      *)
(*                                                                         *)
(* The invariant IInv adds two things to the types: every session, and     *)
(* every snapshot on its way into one, is Whole, and a handler holds at    *)
(* each of its awaits what its next step needs (JobOK).                    *)
(***************************************************************************)
EXTENDS PlaybackSession, TLAPS

\* A session a client may be shown: its cursor is sound and its transfer has
\* something to play.
Whole(s) ==
    /\ s \in Snapshot
    /\ Sound(s)
    /\ s.transfer # None => s.queue # <<>>

\* The same of a report, but for the position: ReportLands checks that.
Report(s) ==
    /\ s \in Snapshot
    /\ s.queue # <<>>
    /\ s.index \in Nat
    /\ s.index < Len(s.queue)

JobShape(where, j) ==
    /\ where \notin {"idle", "done"} => j.account \in Accounts
    /\ where # "publish" => j.then = "done"
    /\ where = "publish" => j.view \in Snapshot
    /\ where = "publish" /\ j.then = "device" =>
           j.kind = "transfer" /\ j.target \in SonosTargets
    /\ where = "device" =>
           /\ j.kind \in {"commit", "transfer", "confirm"}
           /\ j.target \in SonosTargets
           /\ j.plan # "stop" => j.view \in Snapshot
    /\ where = "land" =>
           /\ j.kind = "queue" => j.body \in QueueBody /\ ReplacementOK(j.body)
           /\ j.kind = "state" => j.body \in StateBody
           /\ j.kind = "transfer" => j.target \in SonosTargets
           /\ j.kind = "started" =>
                  Report(j.view) /\ Sound(j.view) /\ j.target \in SonosTargets
           /\ j.kind = "reported" => Report(j.view)
    /\ j.kind = "commit" => Whole(j.view)

JobOK(r) == JobShape(phase[r], job[r])

IInv ==
    /\ SessionTypeOK
    /\ \A a \in Accounts : session[a] # None => Whole(session[a])
    /\ \A r \in Requests : JobOK(r)

-----------------------------------------------------------------------------
(* The operators.                                                          *)

\* None is told apart from every kind of value by the assumption on it.
LEMMA NoneIsApart ==
    /\ None \notin Nat /\ None \notin PlaybackStates /\ None \notin Attachments
    /\ None \notin SonosTargets /\ None \notin Requests
    /\ None \notin Transfer /\ None \notin Snapshot
    /\ None \notin [owner : Accounts, queue : Queue]
BY NoneIsNothing

\* The first element of a cursor inside its queue is an optional duration.
LEMMA DurationAtType ==
    ASSUME NEW queue \in Queue, NEW index \in Maybe(Nat),
           index # None => index < Len(queue)
    PROVE  DurationAt(queue, index) \in Maybe(Nat)
<1>1. CASE index = None
    BY <1>1 DEF DurationAt, Maybe
<1>2. CASE index # None
    <2>1. index \in Nat /\ index + 1 \in 1 .. Len(queue)
        BY <1>2 DEF Maybe, Queue
    <2>2. queue[index + 1] \in Maybe(Nat)
        BY <2>1 DEF Queue
    <2> QED BY <1>2, <2>2 DEF DurationAt
<1> QED BY <1>1, <1>2

\* validate_session_queue_index returns an index inside the queue, and none
\* exactly when the queue is empty.
LEMMA ResolvedIndexInside ==
    ASSUME NEW queue \in Queue, NEW index \in Maybe(Nat), IndexOK(queue, index)
    PROVE  /\ ResolvedIndex(queue, index) \in Maybe(Nat)
           /\ ResolvedIndex(queue, index) = None <=> queue = <<>>
           /\ ResolvedIndex(queue, index) # None =>
                  ResolvedIndex(queue, index) < Len(queue)
<1>1. CASE queue = <<>>
    BY <1>1 DEF ResolvedIndex, Maybe
<1>2. CASE queue # <<>> /\ index = None
    <2>1. ResolvedIndex(queue, index) = 0
        BY <1>2 DEF ResolvedIndex, OrElse
    <2>2. 0 < Len(queue)
        BY <1>2 DEF Queue
    <2> QED BY <1>2, <2>1, <2>2, NoneIsApart DEF Maybe
<1>3. CASE queue # <<>> /\ index # None
    BY <1>3 DEF ResolvedIndex, OrElse, IndexOK
<1> QED BY <1>1, <1>2, <1>3

LEMMA FreshWhole ==
    ASSUME NEW revision \in Nat
    PROVE  Whole(Fresh(revision))
<1>1. <<>> \in Queue
    BY DEF Queue
<1>2. Fresh(revision) \in Snapshot
    BY <1>1 DEF Fresh, Snapshot, Maybe, PlaybackStates, Local, Target, LocalTarget
<1> QED BY <1>2 DEF Whole, Sound, Fresh, ProgressOK

\* A replacement the validators accept makes a whole session out of any.
LEMMA ReplacedWhole ==
    ASSUME NEW s \in Snapshot, NEW body \in QueueBody, ReplacementOK(body)
    PROVE  Whole(Replaced(s, body))
<1> DEFINE index == ResolvedIndex(body.queue, body.index)
           duration == ReplacedDuration(body)
           position == OrElse(body.position, 0)
<1>1. /\ body.queue \in Queue /\ body.index \in Maybe(Nat)
      /\ body.state \in Maybe(PlaybackStates)
      /\ body.position \in Maybe(Nat) /\ body.duration \in Maybe(Nat)
    BY DEF QueueBody
<1>2. /\ index \in Maybe(Nat)
      /\ index = None <=> body.queue = <<>>
      /\ index # None => index < Len(body.queue)
    BY <1>1, ResolvedIndexInside DEF ReplacementOK
<1>3. duration \in Maybe(Nat)
    BY <1>1, <1>2, DurationAtType DEF ReplacedDuration, OrElse
<1>4. position \in Nat /\ OrElse(body.state, "stopped") \in PlaybackStates
    BY <1>1 DEF OrElse, Maybe, PlaybackStates
<1>5. ProgressOK(position, duration)
    BY DEF ReplacementOK
<1> HIDE DEF index, duration, position
<1>6. Replaced(s, body) =
        [s EXCEPT !.queue = body.queue, !.index = index,
                  !.state = OrElse(body.state, "stopped"), !.position = position,
                  !.duration = duration, !.transfer = None]
    BY DEF Replaced, index, duration, position
<1>7. Replaced(s, body) \in Snapshot
    BY <1>1, <1>2, <1>3, <1>4, <1>6 DEF Snapshot, Maybe
<1> QED BY <1>2, <1>5, <1>6, <1>7 DEF Whole, Sound, Snapshot

\* So does a patch, of a session that was whole: what the body leaves out it
\* takes from the session.
LEMMA PatchedWhole ==
    ASSUME NEW s, Whole(s), NEW body \in StateBody, PatchOK(s, body)
    PROVE  Whole(Patched(s, body))
<1> DEFINE index == PatchedIndex(s, body)
           duration == PatchedDuration(s, body)
           position == OrElse(body.position, s.position)
           state == OrElse(body.state, s.state)
<1>1. /\ body.index \in Maybe(Nat) /\ body.state \in Maybe(PlaybackStates)
      /\ body.position \in Maybe(Nat) /\ body.duration \in Maybe(Nat)
    BY DEF StateBody
<1>2. /\ s \in Snapshot /\ s.queue \in Queue /\ s.index \in Maybe(Nat)
      /\ s.state \in PlaybackStates /\ s.position \in Nat
      /\ s.duration \in Maybe(Nat)
    BY DEF Whole, Snapshot
<1>3. /\ index \in Maybe(Nat)
      /\ index = None <=> s.queue = <<>>
      /\ index # None => index < Len(s.queue)
    <2>1. CASE body.index = None
        BY <1>2, <2>1 DEF Whole, Sound, PatchedIndex
    <2>2. CASE body.index # None
        BY <1>1, <1>2, <2>2, ResolvedIndexInside DEF PatchOK, PatchedIndex
    <2> QED BY <2>1, <2>2
<1>4. duration \in Maybe(Nat)
    BY <1>1, <1>2, <1>3, DurationAtType DEF PatchedDuration, OrElse
<1>5. position \in Nat /\ state \in PlaybackStates
    BY <1>1, <1>2 DEF OrElse, Maybe
<1>6. ProgressOK(position, duration)
    BY DEF PatchOK
<1> HIDE DEF index, duration, position, state
<1>7. Patched(s, body) =
        [s EXCEPT !.index = index, !.state = state, !.position = position,
                  !.duration = duration]
    BY DEF Patched, index, duration, position, state
<1>8. Patched(s, body) \in Snapshot
    BY <1>2, <1>3, <1>4, <1>5, <1>7 DEF Snapshot
<1> QED BY <1>2, <1>3, <1>6, <1>7, <1>8 DEF Whole, Sound, Snapshot

\* What a commit leaves behind is the preview, under the revision it found.
LEMMA OverwrittenWhole ==
    ASSUME NEW s \in Snapshot, NEW view, Whole(view)
    PROVE  Whole(Overwritten(s, view))
<1>1. /\ Overwritten(s, view) \in Snapshot
      /\ Overwritten(s, view).queue = view.queue
      /\ Overwritten(s, view).index = view.index
      /\ Overwritten(s, view).position = view.position
      /\ Overwritten(s, view).duration = view.duration
      /\ Overwritten(s, view).transfer = view.transfer
    BY DEF Whole, Overwritten, Snapshot
<1> QED BY <1>1 DEF Whole, Sound

\* A report with a sound position leaves a whole session.
LEMMA ReportedWhole ==
    ASSUME NEW s, Whole(s), NEW view, Report(view),
           ProgressOK(view.position, view.duration)
    PROVE  Whole(Reported(s, view))
<1>1. /\ Reported(s, view) \in Snapshot
      /\ Reported(s, view).queue = view.queue
      /\ Reported(s, view).index = view.index
      /\ Reported(s, view).position = view.position
      /\ Reported(s, view).duration = view.duration
    BY DEF Whole, Report, Reported, Snapshot
<1> QED BY <1>1, NoneIsApart DEF Whole, Report, Sound

\* The accessors find or create a whole session.
LEMMA RuntimeWhole ==
    ASSUME IInv, NEW a \in Accounts
    PROVE  Whole(Runtime(a))
BY FreshWhole DEF IInv, SessionTypeOK, Runtime

LEMMA StampedWhole ==
    ASSUME IInv, NEW s, Whole(s)
    PROVE  Whole(Stamped(s))
<1>1. /\ Stamped(s) \in Snapshot
      /\ Stamped(s).queue = s.queue /\ Stamped(s).index = s.index
      /\ Stamped(s).position = s.position /\ Stamped(s).duration = s.duration
      /\ Stamped(s).transfer = s.transfer
    BY DEF IInv, SessionTypeOK, Whole, Stamped, Snapshot
<1> QED BY <1>1 DEF Whole, Sound

-----------------------------------------------------------------------------
(* The steps, by the helper they are built from.                           *)

\* A handler moves on with a job of the right shape.
LEMMA JobKeeps ==
    ASSUME IInv, NEW r \in Requests, NEW where \in Phases, NEW j \in Job,
           JobShape(where, j),
           phase' = [phase EXCEPT ![r] = where], job' = [job EXCEPT ![r] = j]
    PROVE  /\ phase' \in [Requests -> Phases] /\ job' \in [Requests -> Job]
           /\ \A q \in Requests : JobOK(q)'
<1>1. phase' \in [Requests -> Phases] /\ job' \in [Requests -> Job]
    BY DEF IInv, SessionTypeOK
<1>2. ASSUME NEW q \in Requests PROVE JobShape(phase'[q], job'[q])
    <2>1. CASE q = r
        BY <2>1 DEF IInv, SessionTypeOK
    <2>2. CASE q # r
        BY <2>2 DEF IInv, SessionTypeOK, JobOK
    <2> QED BY <2>1, <2>2
<1> QED BY <1>1, <1>2 DEF JobOK

LEMMA NoJobType ==
    /\ NoJob \in Job
    /\ NoJob.then = "done"
    /\ JobShape("done", NoJob)
BY DEF NoJob, Job, Kinds, Plans, Maybe, JobShape

\* A handler moves on and leaves the sessions alone.
LEMMA QuietKeeps ==
    ASSUME IInv, NEW r \in Requests, NEW where \in Phases, NEW j \in Job,
           JobShape(where, j),
           phase' = [phase EXCEPT ![r] = where], job' = [job EXCEPT ![r] = j],
           UNCHANGED <<session, eventSeq, screen, newest>>,
           managed' \in [SonosTargets -> Maybe([owner : Accounts, queue : Queue])]
    PROVE  IInv'
<1>1. /\ phase' \in [Requests -> Phases] /\ job' \in [Requests -> Job]
      /\ \A q \in Requests : JobOK(q)'
    BY JobKeeps
<1> QED BY <1>1 DEF IInv, SessionTypeOK

\* A refused mutation creates the session at most.
LEMMA RejectKeeps ==
    ASSUME IInv, NEW r \in Requests, NEW a \in Accounts, Reject(r, a)
    PROVE  IInv'
<1>1. Whole(Runtime(a)) /\ Runtime(a) \in Snapshot
    BY RuntimeWhole DEF Whole
<1>2. "done" \in Phases
    BY DEF Phases
<1>3. /\ phase' \in [Requests -> Phases] /\ job' \in [Requests -> Job]
      /\ \A q \in Requests : JobOK(q)'
    BY <1>2, NoJobType, JobKeeps DEF Reject
<1>4. session' \in [Accounts -> Maybe(Snapshot)]
    BY <1>1 DEF Reject, IInv, SessionTypeOK, Maybe
<1>5. \A b \in Accounts : session'[b] # None => Whole(session'[b])
    BY <1>1 DEF Reject, IInv, SessionTypeOK
<1>6. /\ eventSeq' \in Nat /\ screen' \in [Accounts -> Maybe(Snapshot)]
      /\ newest' \in [Accounts -> Maybe(Requests)]
      /\ managed' \in [SonosTargets -> Maybe([owner : Accounts, queue : Queue])]
    BY DEF Reject, IInv, SessionTypeOK
<1> QED BY <1>3, <1>4, <1>5, <1>6 DEF IInv, SessionTypeOK

\* A mutation writes a whole session, and publishes it.
LEMMA MutateKeeps ==
    ASSUME IInv, NEW r \in Requests, NEW j \in Job, j.account \in Accounts,
           j.then = "device" => j.kind = "transfer" /\ j.target \in SonosTargets,
           NEW s, Whole(s), Mutate(r, j, s),
           newest' \in [Accounts -> Maybe(Requests)]
    PROVE  IInv'
<1> DEFINE a == j.account
           k == [j EXCEPT !.view = Stamped(s)]
<1>1. Whole(Stamped(s)) /\ Stamped(s) \in Snapshot
    BY StampedWhole DEF Whole
<1>2. /\ k \in Job /\ k.view = Stamped(s) /\ k.account = j.account
      /\ k.kind = j.kind /\ k.target = j.target /\ k.then = j.then
    BY <1>1 DEF Job, Maybe
<1>3. JobShape("publish", k)
    BY <1>1, <1>2 DEF JobShape
<1>4. "publish" \in Phases
    BY DEF Phases
<1>5. /\ phase' \in [Requests -> Phases] /\ job' \in [Requests -> Job]
      /\ \A q \in Requests : JobOK(q)'
    BY <1>2, <1>3, <1>4, JobKeeps DEF Mutate
<1>6. session' \in [Accounts -> Maybe(Snapshot)]
    BY <1>1 DEF Mutate, IInv, SessionTypeOK, Maybe
<1>7. \A b \in Accounts : session'[b] # None => Whole(session'[b])
    BY <1>1 DEF Mutate, IInv, SessionTypeOK
<1>8. eventSeq' = eventSeq + 1 /\ screen' = screen /\ managed' = managed
    BY DEF Mutate
<1> HIDE DEF a, k
<1>9. /\ eventSeq \in Nat /\ screen \in [Accounts -> Maybe(Snapshot)]
      /\ managed \in [SonosTargets -> Maybe([owner : Accounts, queue : Queue])]
    BY Zenon DEF IInv, SessionTypeOK
<1>10. eventSeq' \in Nat
    BY <1>8, <1>9
<1>11. /\ screen' \in [Accounts -> Maybe(Snapshot)]
       /\ managed' \in [SonosTargets -> Maybe([owner : Accounts, queue : Queue])]
    BY <1>8, <1>9, Zenon
<1> QED BY <1>5, <1>6, <1>7, <1>10, <1>11 DEF IInv, SessionTypeOK

\* What an action does with its request: it writes a whole session and
\* publishes it, moves the handler on, or refuses.
Writes(r) ==
    \E j \in Job, s \in Snapshot :
        /\ j.account \in Accounts
        /\ j.then = "device" => j.kind = "transfer" /\ j.target \in SonosTargets
        /\ Whole(s)
        /\ Mutate(r, j, s)
        /\ newest' \in [Accounts -> Maybe(Requests)]

Moves(r) ==
    \E where \in Phases \ {"publish"}, j \in Job :
        /\ JobShape(where, j)
        /\ phase' = [phase EXCEPT ![r] = where]
        /\ job' = [job EXCEPT ![r] = j]
        /\ UNCHANGED <<session, eventSeq, screen, newest>>
        /\ managed' \in [SonosTargets -> Maybe([owner : Accounts, queue : Queue])]

Refuses(r) == \E a \in Accounts : Reject(r, a)

Step(r) == Writes(r) \/ Moves(r) \/ Refuses(r)

LEMMA StepKeeps ==
    ASSUME IInv, NEW r \in Requests, Step(r)
    PROVE  IInv'
<1>1. CASE Writes(r)
    BY <1>1, MutateKeeps DEF Writes
<1>2. CASE Moves(r)
    BY <1>2, QuietKeeps DEF Moves
<1>3. CASE Refuses(r)
    BY <1>3, RejectKeeps DEF Refuses
<1> QED BY <1>1, <1>2, <1>3 DEF Step

LEMMA MutateSteps ==
    ASSUME NEW r \in Requests, NEW j \in Job, j.account \in Accounts,
           j.then = "device" => j.kind = "transfer" /\ j.target \in SonosTargets,
           NEW s, Whole(s), Mutate(r, j, s),
           newest' \in [Accounts -> Maybe(Requests)]
    PROVE  Step(r)
<1>1. s \in Snapshot
    BY DEF Whole
<1> QED BY <1>1 DEF Step, Writes

LEMMA QuietSteps ==
    ASSUME NEW r \in Requests, NEW where \in Phases, where # "publish",
           NEW j \in Job, JobShape(where, j),
           phase' = [phase EXCEPT ![r] = where], job' = [job EXCEPT ![r] = j],
           UNCHANGED <<session, eventSeq, screen, newest>>,
           managed' \in [SonosTargets -> Maybe([owner : Accounts, queue : Queue])]
    PROVE  Step(r)
BY DEF Step, Moves

LEMMA RejectSteps ==
    ASSUME NEW r \in Requests, NEW a \in Accounts, Reject(r, a)
    PROVE  Step(r)
BY DEF Step, Refuses

LEMMA FinishSteps ==
    ASSUME IInv, NEW r \in Requests, Finish(r),
           UNCHANGED <<session, eventSeq, managed, screen, newest>>
    PROVE  Step(r)
<1>1. managed' \in [SonosTargets -> Maybe([owner : Accounts, queue : Queue])]
    BY DEF IInv, SessionTypeOK
<1> QED BY <1>1, NoJobType, QuietSteps DEF Finish, Phases

LEMMA AwaitSteps ==
    ASSUME IInv, NEW r \in Requests, NEW where \in Phases, where # "publish",
           NEW j \in Job, JobShape(where, j), Await(r, where, j)
    PROVE  Step(r)
<1>1. managed' \in [SonosTargets -> Maybe([owner : Accounts, queue : Queue])]
    BY DEF IInv, SessionTypeOK, Await
<1> QED BY <1>1, QuietSteps DEF Await

-----------------------------------------------------------------------------
(* The actions.                                                            *)

\* An edit that leaves the cursor alone leaves the session whole.
LEMMA SameCursorWhole ==
    ASSUME NEW s, Whole(s), NEW t \in Snapshot,
           t.queue = s.queue, t.index = s.index, t.position = s.position,
           t.duration = s.duration, t.transfer # None => s.queue # <<>>
    PROVE  Whole(t)
BY DEF Whole, Sound

LEMMA AttachSteps ==
    ASSUME IInv, NEW r \in Requests, NEW a \in Accounts, NEW id \in Attachments,
           Attach(r, a, id)
    PROVE  Step(r)
<1> DEFINE s == Runtime(a)
           to == IF s.target.kind = "local" THEN Local(id) ELSE s.target
           t == [s EXCEPT !.attachment = id, !.target = to]
           j == [NoJob EXCEPT !.account = a]
<1>1. Whole(s) /\ s \in Snapshot
    BY RuntimeWhole DEF Whole
<1> HIDE DEF s
<1>2. to \in Target
    BY <1>1 DEF Snapshot, Target, LocalTarget, Local, Maybe
<1> HIDE DEF to
<1>3. /\ t \in Snapshot /\ t.queue = s.queue /\ t.index = s.index
      /\ t.position = s.position /\ t.duration = s.duration
      /\ t.transfer = s.transfer
    BY <1>1, <1>2 DEF Snapshot, Maybe
<1>4. Whole(t)
    BY <1>1, <1>3, SameCursorWhole DEF Whole
<1>5. j \in Job /\ j.account = a /\ j.then = "done"
    BY NoJobType DEF NoJob, Job, Maybe
<1>6. Mutate(r, j, t)
    BY DEF Attach, s, to
<1>7. newest' \in [Accounts -> Maybe(Requests)]
    BY DEF Attach, IInv, SessionTypeOK
<1> HIDE DEF t, j
<1> QED BY <1>4, <1>5, <1>6, <1>7, MutateSteps

LEMMA DetachSteps ==
    ASSUME IInv, NEW r \in Requests, NEW a \in Accounts, Detach(r, a)
    PROVE  Step(r)
<1> DEFINE s == Runtime(a)
           to == IF s.target.kind = "local" THEN Local(None) ELSE s.target
           t == [s EXCEPT !.attachment = None, !.target = to]
           j == [NoJob EXCEPT !.account = a]
<1>1. Whole(s) /\ s \in Snapshot
    BY RuntimeWhole DEF Whole
<1> HIDE DEF s
<1>2. to \in Target
    BY <1>1 DEF Snapshot, Target, LocalTarget, Local, Maybe
<1> HIDE DEF to
<1>3. /\ t \in Snapshot /\ t.queue = s.queue /\ t.index = s.index
      /\ t.position = s.position /\ t.duration = s.duration
      /\ t.transfer = s.transfer
    BY <1>1, <1>2 DEF Snapshot, Maybe
<1>4. Whole(t)
    BY <1>1, <1>3, SameCursorWhole DEF Whole
<1>5. j \in Job /\ j.account = a /\ j.then = "done"
    BY NoJobType DEF NoJob, Job, Maybe
<1>6. Mutate(r, j, t)
    BY DEF Detach, s, to
<1>7. newest' \in [Accounts -> Maybe(Requests)]
    BY DEF Detach, IInv, SessionTypeOK
<1> HIDE DEF t, j
<1> QED BY <1>4, <1>5, <1>6, <1>7, MutateSteps

\* The preview is whole, or the request is refused, or the body waits to be
\* applied under the lock.
LEMMA ReplaceQueueSteps ==
    ASSUME IInv, NEW r \in Requests, NEW a \in Accounts, NEW body \in QueueBodies,
           ReplaceQueue(r, a, body)
    PROVE  Step(r)
<1> DEFINE view == Replaced(Runtime(a), body)
           j == [NoJob EXCEPT !.kind = "queue", !.account = a, !.body = body]
           k == [j EXCEPT !.kind = "commit", !.view = view,
                          !.target = view.target.id, !.plan = FullPlan(view)]
<1>1. body \in QueueBody
    BY InputsAreTyped
<1>2. CASE ~ReplacementOK(body)
    BY <1>2, FinishSteps DEF ReplaceQueue
<1>3. CASE ReplacementOK(body)
    <2>1. Whole(view) /\ view \in Snapshot
        BY <1>1, <1>3, RuntimeWhole, ReplacedWhole DEF Whole
    <2> HIDE DEF view
    <2>2. /\ j \in Job /\ j.kind = "queue" /\ j.account = a /\ j.body = body
          /\ j.then = "done"
        BY <1>1 DEF NoJob, Job, Kinds, Plans, Maybe
    <2>3. JobShape("land", j)
        BY <1>1, <1>3, <2>2 DEF JobShape
    <2>4. CASE view.target.kind = "sonos"
        <3>1. view.target.id \in SonosTargets
            BY <2>1, <2>4 DEF Snapshot, Target, LocalTarget, SonosTarget
        <3>2. FullPlan(view) \in Plans
            BY DEF FullPlan, Plans
        <3>3. /\ k \in Job /\ k.kind = "commit" /\ k.account = a /\ k.view = view
              /\ k.target \in SonosTargets /\ k.then = "done"
            BY <2>1, <2>2, <3>1, <3>2 DEF Job, Kinds, Maybe
        <3>4. JobShape("device", k)
            BY <2>1, <3>3 DEF JobShape
        <3>5. Await(r, "device", k)
            BY <1>3, <2>4 DEF ReplaceQueue, view
        <3> HIDE DEF j, k
        <3> QED BY <3>3, <3>4, <3>5, AwaitSteps DEF Phases
    <2>5. CASE view.target.kind # "sonos"
        <3>1. Await(r, "land", j)
            BY <1>3, <2>5 DEF ReplaceQueue, view
        <3> HIDE DEF j
        <3> QED BY <2>2, <2>3, <3>1, AwaitSteps DEF Phases
    <2> QED BY <2>4, <2>5
<1> QED BY <1>2, <1>3

LEMMA UpdateStateSteps ==
    ASSUME IInv, NEW r \in Requests, NEW a \in Accounts, NEW body \in StateBodies,
           UpdateState(r, a, body)
    PROVE  Step(r)
<1> DEFINE view == Patched(Runtime(a), body)
           j == [NoJob EXCEPT !.kind = "state", !.account = a, !.body = body]
           k == [j EXCEPT !.kind = "commit", !.view = view,
                          !.target = view.target.id, !.plan = StatePlan(view, body)]
<1>1. body \in StateBody
    BY InputsAreTyped
<1>2. /\ j \in Job /\ j.kind = "state" /\ j.account = a /\ j.body = body
      /\ j.then = "done"
    BY <1>1 DEF NoJob, Job, Kinds, Plans, Maybe
<1>3. JobShape("land", j)
    BY <1>1, <1>2 DEF JobShape
<1>4. CASE Await(r, "land", j)
    <2> HIDE DEF j
    <2> QED BY <1>2, <1>3, <1>4, AwaitSteps DEF Phases
<1>5. CASE Finish(r) /\ UNCHANGED <<session, eventSeq, managed, screen, newest>>
    BY <1>5, FinishSteps
<1>6. CASE /\ PatchOK(Runtime(a), body)
           /\ view.target.kind = "sonos"
           /\ Await(r, "device", k)
    <2>1. Whole(view) /\ view \in Snapshot
        BY <1>1, <1>6, RuntimeWhole, PatchedWhole DEF Whole
    <2> HIDE DEF view
    <2>2. view.target.id \in SonosTargets
        BY <2>1, <1>6 DEF Snapshot, Target, LocalTarget, SonosTarget
    <2>3. StatePlan(view, body) \in Plans
        BY DEF StatePlan, FullPlan, Plans
    <2>4. /\ k \in Job /\ k.kind = "commit" /\ k.account = a /\ k.view = view
          /\ k.target \in SonosTargets /\ k.then = "done"
        BY <1>2, <2>1, <2>2, <2>3 DEF Job, Kinds, Maybe
    <2>5. JobShape("device", k)
        BY <2>1, <2>4 DEF JobShape
    <2>6. Await(r, "device", k)
        BY <1>6
    <2> HIDE DEF j, k
    <2> QED BY <2>4, <2>5, <2>6, AwaitSteps DEF Phases
<1> QED BY <1>4, <1>5, <1>6 DEF UpdateState

\* What a handler brings to its write under the lock.
LEMMA LandingJob ==
    ASSUME IInv, NEW r \in Requests, phase[r] \in {"land", "fail"}
    PROVE  /\ job[r] \in Job /\ JobShape(phase[r], job[r])
           /\ job[r].account \in Accounts /\ job[r].then = "done"
           /\ Whole(Runtime(job[r].account))
<1>1. job[r] \in Job /\ JobShape(phase[r], job[r])
    BY DEF IInv, SessionTypeOK, JobOK
<1>2. job[r].account \in Accounts /\ job[r].then = "done"
    BY <1>1 DEF JobShape
<1> QED BY <1>1, <1>2, RuntimeWhole

\* A write that leaves a whole session keeps the invariant.
LEMMA LandSteps ==
    ASSUME IInv, NEW r \in Requests, phase[r] \in {"land", "fail"},
           NEW s, Whole(s), Mutate(r, job[r], s), UNCHANGED newest
    PROVE  Step(r)
<1>1. newest' \in [Accounts -> Maybe(Requests)]
    BY DEF IInv, SessionTypeOK
<1> QED BY <1>1, LandingJob, MutateSteps

LEMMA QueueLandsSteps ==
    ASSUME IInv, NEW r \in Requests, QueueLands(r)
    PROVE  Step(r)
<1> DEFINE s == Replaced(Runtime(job[r].account), job[r].body)
<1>1. phase[r] = "land" /\ job[r].kind = "queue"
    BY DEF QueueLands, Landing
<1>2. Whole(s)
    BY <1>1, LandingJob, ReplacedWhole DEF JobShape, Whole
<1>3. Mutate(r, job[r], s) /\ UNCHANGED newest
    BY DEF QueueLands
<1> HIDE DEF s
<1> QED BY <1>1, <1>2, <1>3, LandSteps

LEMMA StateLandsSteps ==
    ASSUME IInv, NEW r \in Requests, StateLands(r)
    PROVE  Step(r)
<1> DEFINE s == Runtime(job[r].account)
           t == Patched(s, job[r].body)
<1>1. phase[r] = "land" /\ job[r].kind = "state"
    BY DEF StateLands, Landing
<1>2. Whole(s) /\ job[r].body \in StateBody /\ job[r].account \in Accounts
    BY <1>1, LandingJob DEF JobShape
<1>3. CASE PatchOK(s, job[r].body)
    <2>1. Whole(t)
        BY <1>2, <1>3, PatchedWhole
    <2>2. Mutate(r, job[r], t) /\ UNCHANGED newest
        BY <1>3 DEF StateLands
    <2> HIDE DEF s, t
    <2> QED BY <1>1, <2>1, <2>2, LandSteps
<1>4. CASE ~PatchOK(s, job[r].body)
    BY <1>2, <1>4, RejectSteps DEF StateLands
<1> QED BY <1>3, <1>4

LEMMA CommitLandsSteps ==
    ASSUME IInv, NEW r \in Requests, CommitLands(r)
    PROVE  Step(r)
<1> DEFINE s == Overwritten(Runtime(job[r].account), job[r].view)
<1>1. phase[r] = "land" /\ job[r].kind = "commit"
    BY DEF CommitLands, Landing
<1>2. Whole(s)
    BY <1>1, LandingJob, OverwrittenWhole DEF JobShape, Whole
<1>3. Mutate(r, job[r], s) /\ UNCHANGED newest
    BY DEF CommitLands
<1> HIDE DEF s
<1> QED BY <1>1, <1>2, <1>3, LandSteps

\* Binding a session elsewhere and dropping its transfer leaves it whole.
LEMMA BoundWhole ==
    ASSUME NEW s, Whole(s), NEW to \in Target
    PROVE  Whole([s EXCEPT !.target = to, !.transfer = None])
<1> DEFINE t == [s EXCEPT !.target = to, !.transfer = None]
<1>1. /\ t \in Snapshot /\ t.queue = s.queue /\ t.index = s.index
      /\ t.position = s.position /\ t.duration = s.duration
      /\ t.transfer = None
    BY DEF Whole, Snapshot, Maybe
<1> HIDE DEF t
<1>2. Whole(t)
    BY <1>1, SameCursorWhole
<1> QED BY <1>2 DEF t

LEMMA TransferLandsSteps ==
    ASSUME IInv, NEW r \in Requests, TransferLands(r)
    PROVE  Step(r)
<1> DEFINE s == Runtime(job[r].account)
           t == [s EXCEPT !.target = Sonos(job[r].target), !.transfer = None]
<1>1. phase[r] = "land" /\ job[r].kind = "transfer"
    BY DEF TransferLands, Landing
<1>2. Whole(s) /\ job[r].target \in SonosTargets /\ job[r].account \in Accounts
    BY <1>1, LandingJob DEF JobShape
<1>3. Sonos(job[r].target) \in Target
    BY <1>2 DEF Sonos, Target, SonosTarget
<1>4. CASE Mutate(r, job[r], t) /\ UNCHANGED newest
    <2>1. Whole(t)
        BY <1>2, <1>3, BoundWhole
    <2> HIDE DEF s, t
    <2> QED BY <1>1, <1>4, <2>1, LandSteps
<1>5. CASE Reject(r, job[r].account)
    BY <1>2, <1>5, RejectSteps
<1> QED BY <1>4, <1>5 DEF TransferLands

LEMMA TransferFailsSteps ==
    ASSUME IInv, NEW r \in Requests, TransferFails(r)
    PROVE  Step(r)
<1> DEFINE s == Runtime(job[r].account)
           t == [s EXCEPT !.transfer.state = "failed"]
           u == IF s.transfer # None /\ s.transfer.id = r THEN t ELSE s
<1>1. phase[r] = "fail"
    BY DEF TransferFails
<1>2. Whole(s) /\ s \in Snapshot
    BY <1>1, LandingJob DEF Whole
<1> HIDE DEF s
<1>3. ASSUME s.transfer # None PROVE Whole(t)
    <2>1. s.transfer \in Transfer
        BY <1>2, <1>3 DEF Snapshot, Maybe
    <2>2. [s.transfer EXCEPT !.state = "failed"] \in Transfer
        BY <2>1 DEF Transfer
    <2>3. /\ t \in Snapshot /\ t.queue = s.queue /\ t.index = s.index
          /\ t.position = s.position /\ t.duration = s.duration
        BY <1>2, <2>2 DEF Snapshot, Maybe
    <2> HIDE DEF t
    <2> QED BY <1>2, <1>3, <2>3, SameCursorWhole DEF Whole
<1>4. Whole(u)
    BY <1>2, <1>3
<1>5. Mutate(r, job[r], u) /\ UNCHANGED newest
    BY DEF TransferFails, s
<1> HIDE DEF u
<1> QED BY <1>1, <1>4, <1>5, LandSteps

LEMMA ConfirmLandsSteps ==
    ASSUME IInv, NEW r \in Requests, ConfirmLands(r)
    PROVE  Step(r)
<1> DEFINE s == Runtime(job[r].account)
           t == [s EXCEPT !.target = s.transfer.to, !.transfer = None]
<1>1. phase[r] = "land" /\ job[r].account \in Accounts
    BY LandingJob DEF ConfirmLands, Landing
<1>2. Whole(s)
    BY <1>1, LandingJob
<1>3. CASE /\ PendingTransfer(s, job[r].transfer)
           /\ Mutate(r, job[r], t) /\ UNCHANGED newest
    <2> HIDE DEF s
    <2>1. s.transfer.to \in Target
        BY <1>2, <1>3 DEF PendingTransfer, Whole, Snapshot, Maybe, Transfer
    <2>2. Whole(t)
        BY <1>2, <2>1, BoundWhole
    <2>3. Mutate(r, job[r], t) /\ UNCHANGED newest
        BY <1>3
    <2> HIDE DEF t
    <2> QED BY <1>1, <2>2, <2>3, LandSteps
<1>4. CASE Reject(r, job[r].account)
    BY <1>1, <1>4, RejectSteps
<1> QED BY <1>3, <1>4 DEF ConfirmLands

LEMMA StartLandsSteps ==
    ASSUME IInv, NEW r \in Requests, StartLands(r)
    PROVE  Step(r)
<1> DEFINE s == Runtime(job[r].account)
           t == Reported(s, job[r].view)
           u == [t EXCEPT !.target = Sonos(job[r].target), !.transfer = None]
<1>1. phase[r] = "land" /\ job[r].kind = "started"
    BY DEF StartLands, Landing
<1>2. /\ Whole(s) /\ job[r].target \in SonosTargets
      /\ Report(job[r].view) /\ Sound(job[r].view)
    BY <1>1, LandingJob DEF JobShape
<1>3. Whole(t)
    BY <1>2, ReportedWhole DEF Sound
<1>4. Sonos(job[r].target) \in Target
    BY <1>2 DEF Sonos, Target, SonosTarget
<1>5. Mutate(r, job[r], u) /\ UNCHANGED newest
    BY DEF StartLands
<1> HIDE DEF s, t
<1>6. Whole(u)
    BY <1>3, <1>4, BoundWhole
<1> HIDE DEF u
<1> QED BY <1>1, <1>5, <1>6, LandSteps

LEMMA ReportLandsSteps ==
    ASSUME IInv, NEW r \in Requests, ReportLands(r)
    PROVE  Step(r)
<1> DEFINE s == Runtime(job[r].account)
           t == Reported(s, job[r].view)
<1>1. phase[r] = "land" /\ job[r].kind = "reported"
    BY DEF ReportLands, Landing
<1>2. Whole(s) /\ Report(job[r].view) /\ job[r].account \in Accounts
    BY <1>1, LandingJob DEF JobShape
<1>3. CASE Mutate(r, job[r], s) /\ UNCHANGED newest
    <2> HIDE DEF s
    <2> QED BY <1>1, <1>2, <1>3, LandSteps
<1>4. CASE /\ ProgressOK(job[r].view.position, job[r].view.duration)
           /\ Mutate(r, job[r], t) /\ UNCHANGED newest
    <2>1. Whole(t)
        BY <1>2, <1>4, ReportedWhole
    <2> HIDE DEF t
    <2> QED BY <1>1, <1>4, <2>1, LandSteps
<1>5. CASE Reject(r, job[r].account)
    BY <1>2, <1>5, RejectSteps
<1> QED BY <1>3, <1>4, <1>5 DEF ReportLands

LEMMA StopLandsSteps ==
    ASSUME IInv, NEW r \in Requests, StopLands(r)
    PROVE  Step(r)
<1> DEFINE s == Runtime(job[r].account)
           t == [s EXCEPT !.target = Local(s.attachment),
                          !.state = "stopped", !.transfer = None]
           u == IF s.target = Sonos(job[r].target) THEN t ELSE s
<1>1. phase[r] = "land"
    BY DEF StopLands, Landing
<1>2. Whole(s) /\ s \in Snapshot
    BY <1>1, LandingJob DEF Whole
<1>3. Mutate(r, job[r], u) /\ UNCHANGED newest
    BY DEF StopLands
<1> HIDE DEF s
<1>4. Local(s.attachment) \in Target
    BY <1>2 DEF Snapshot, Local, Target, LocalTarget
<1>5. /\ t \in Snapshot /\ t.queue = s.queue /\ t.index = s.index
      /\ t.position = s.position /\ t.duration = s.duration
      /\ t.transfer = None
    BY <1>2, <1>4 DEF Snapshot, Maybe, PlaybackStates
<1> HIDE DEF t
<1>6. Whole(u)
    BY <1>2, <1>5, SameCursorWhole
<1> HIDE DEF u
<1> QED BY <1>1, <1>3, <1>6, LandSteps

LEMMA RequestTransferSteps ==
    ASSUME IInv, NEW r \in Requests, NEW a \in Accounts, NEW to \in Target,
           RequestTransfer(r, a, to)
    PROVE  Step(r)
<1> DEFINE s == Runtime(a)
           j == [NoJob EXCEPT !.kind = "transfer", !.account = a, !.transfer = r]
           k == IF to.kind = "sonos"
                    THEN [j EXCEPT !.target = to.id, !.plan = "play", !.then = "device"]
                    ELSE j
           new == [id |-> r, to |-> to, state |-> "pending"]
           t == [s EXCEPT !.transfer = new]
<1>1. Whole(s) /\ s \in Snapshot
    BY RuntimeWhole DEF Whole
<1>2. CASE s.queue = <<>>
    BY <1>2, RejectSteps DEF RequestTransfer
<1>3. CASE s.queue # <<>>
    <2>1. Mutate(r, k, t) /\ newest' = [newest EXCEPT ![a] = r]
        BY <1>3 DEF RequestTransfer
    <2>2. newest' \in [Accounts -> Maybe(Requests)]
        BY <2>1 DEF IInv, SessionTypeOK, Maybe
    <2> HIDE DEF s
    <2>3. new \in Transfer
        BY DEF Transfer
    <2> HIDE DEF new
    <2>4. /\ t \in Snapshot /\ t.queue = s.queue /\ t.index = s.index
          /\ t.position = s.position /\ t.duration = s.duration
        BY <1>1, <2>3 DEF Snapshot, Maybe
    <2> HIDE DEF t
    <2>5. Whole(t)
        BY <1>1, <1>3, <2>4, SameCursorWhole
    <2>6. j \in Job /\ j.kind = "transfer" /\ j.account = a /\ j.then = "done"
        BY DEF NoJob, Job, Kinds, Plans, Maybe
    <2> HIDE DEF j
    <2>7. to.kind = "sonos" => to.id \in SonosTargets
        BY DEF Target, LocalTarget, SonosTarget
    <2>8. /\ k \in Job /\ k.account = a
          /\ k.then = "device" => k.kind = "transfer" /\ k.target \in SonosTargets
        BY <2>6, <2>7 DEF Job, Plans, Maybe
    <2> HIDE DEF k
    <2> QED BY <2>1, <2>2, <2>5, <2>8, MutateSteps
<1> QED BY <1>2, <1>3

LEMMA CheckConfirmSteps ==
    ASSUME IInv, NEW r \in Requests, NEW a \in Accounts, NEW id \in Requests,
           CheckConfirm(r, a, id)
    PROVE  Step(r)
<1> DEFINE s == session[a]
           j == [NoJob EXCEPT !.kind = "confirm", !.account = a, !.transfer = id]
           k == [j EXCEPT !.target = s.target.id, !.plan = "stop"]
<1>1. s \in Snapshot
    BY DEF CheckConfirm, IInv, SessionTypeOK, Maybe
<1>2. j \in Job /\ j.kind = "confirm" /\ j.account = a /\ j.then = "done"
    BY DEF NoJob, Job, Kinds, Plans, Maybe
<1>3. CASE s.target.kind = "sonos" /\ Await(r, "device", k)
    <2>1. s.target.id \in SonosTargets
        BY <1>1, <1>3 DEF Snapshot, Target, LocalTarget, SonosTarget
    <2> HIDE DEF s, j
    <2>2. /\ k \in Job /\ k.kind = "confirm" /\ k.account = a /\ k.then = "done"
          /\ k.target \in SonosTargets /\ k.plan = "stop"
        BY <1>2, <2>1 DEF Job, Plans, Maybe
    <2>3. Await(r, "device", k)
        BY <1>3
    <2> HIDE DEF k
    <2>4. JobShape("device", k)
        BY <2>2 DEF JobShape
    <2> QED BY <2>2, <2>3, <2>4, AwaitSteps DEF Phases
<1>4. CASE Await(r, "land", j)
    <2> HIDE DEF j
    <2>1. JobShape("land", j)
        BY <1>2 DEF JobShape
    <2> QED BY <1>2, <1>4, <2>1, AwaitSteps DEF Phases
<1> QED BY <1>3, <1>4 DEF CheckConfirm

\* The snapshot of a managed session is a report.
LEMMA SonosViewReport ==
    ASSUME NEW queue \in Queue, NEW index \in 0 .. Len(queue) - 1,
           NEW position \in Nat, NEW state \in PlaybackStates
    PROVE  /\ Report(SonosView(queue, index, position, state))
           /\ position = 0 => Sound(SonosView(queue, index, position, state))
<1> DEFINE v == SonosView(queue, index, position, state)
<1>1. Len(queue) \in Nat
    BY DEF Queue
<1>2. index \in Nat /\ index < Len(queue) /\ queue # <<>>
    BY <1>1
<1>3. queue[index + 1] \in Maybe(Nat)
    <2>1. index + 1 \in 1 .. Len(queue)
        BY <1>1
    <2> QED BY <2>1 DEF Queue
<1>4. Fresh(0) \in Snapshot
    BY FreshWhole DEF Whole
<1>5. /\ v \in Snapshot /\ v.queue = queue /\ v.index = index
      /\ v.position = position /\ v.duration = queue[index + 1]
    BY <1>2, <1>3, <1>4 DEF SonosView, Snapshot, Maybe
<1> HIDE DEF v
<1>6. Report(v)
    BY <1>2, <1>5 DEF Report
<1>7. position = 0 => Sound(v)
    BY <1>2, <1>3, <1>5, NoneIsApart DEF Sound, ProgressOK, Maybe
<1> QED BY <1>6, <1>7 DEF v

LEMMA SonosStartsSteps ==
    ASSUME IInv, NEW r \in Requests, NEW a \in Accounts, NEW t \in SonosTargets,
           NEW queue \in Queues, SonosStarts(r, a, t, queue)
    PROVE  Step(r)
<1>1. queue \in Queue /\ queue # <<>>
    BY InputsAreTyped
<1>2. 0 \in 0 .. Len(queue) - 1
    BY <1>1 DEF Queue
<1>3. PICK state \in PlaybackStates :
          job' = [job EXCEPT ![r] =
                     [NoJob EXCEPT !.kind = "started", !.account = a,
                                   !.view = SonosView(queue, 0, 0, state),
                                   !.target = t, !.loaded = TRUE]]
    BY DEF SonosStarts
<1> DEFINE v == SonosView(queue, 0, 0, state)
           j == [NoJob EXCEPT !.kind = "started", !.account = a, !.view = v,
                              !.target = t, !.loaded = TRUE]
<1>4. Report(v) /\ Sound(v)
    BY <1>1, <1>2, SonosViewReport
<1>5. job' = [job EXCEPT ![r] = j]
    BY <1>3
<1> HIDE DEF v
<1>6. /\ j \in Job /\ j.kind = "started" /\ j.account = a /\ j.view = v
      /\ j.target = t /\ j.then = "done"
    BY <1>4 DEF Report, NoJob, Job, Kinds, Plans, Maybe
<1> HIDE DEF j
<1>7. JobShape("land", j)
    BY <1>4, <1>6 DEF JobShape
<1>8. Loaded(a, queue) \in [owner : Accounts, queue : Queue]
    BY <1>1 DEF Loaded
<1>9. managed' \in [SonosTargets -> Maybe([owner : Accounts, queue : Queue])]
    BY <1>8 DEF SonosStarts, IInv, SessionTypeOK, Maybe
<1>10. /\ phase' = [phase EXCEPT ![r] = "land"]
       /\ UNCHANGED <<session, eventSeq, screen, newest>>
    BY DEF SonosStarts
<1> QED BY <1>5, <1>6, <1>7, <1>9, <1>10, QuietSteps DEF Phases

LEMMA SonosReportsSteps ==
    ASSUME IInv, NEW r \in Requests, NEW t \in SonosTargets, SonosReports(r, t)
    PROVE  Step(r)
<1>1. managed[t] \in [owner : Accounts, queue : Queue]
    BY DEF SonosReports, IInv, SessionTypeOK, Maybe
<1>2. PICK index \in 0 .. Len(managed[t].queue) - 1, position \in SonosPositions,
           state \in PlaybackStates :
          Await(r, "land",
                [NoJob EXCEPT !.kind = "reported", !.account = managed[t].owner,
                              !.view = SonosView(managed[t].queue, index, position, state),
                              !.target = t])
    BY DEF SonosReports
<1> DEFINE v == SonosView(managed[t].queue, index, position, state)
           j == [NoJob EXCEPT !.kind = "reported", !.account = managed[t].owner,
                              !.view = v, !.target = t]
<1>3. Report(v)
    BY <1>1, InputsAreTyped, SonosViewReport
<1>4. Await(r, "land", j)
    BY <1>2
<1> HIDE DEF v
<1>5. /\ j \in Job /\ j.kind = "reported" /\ j.account \in Accounts /\ j.view = v
      /\ j.then = "done"
    BY <1>1, <1>3 DEF Report, NoJob, Job, Kinds, Plans, Maybe
<1> HIDE DEF j
<1>6. JobShape("land", j)
    BY <1>3, <1>5 DEF JobShape
<1> QED BY <1>4, <1>5, <1>6, AwaitSteps DEF Phases

LEMMA SonosStopsSteps ==
    ASSUME IInv, NEW r \in Requests, NEW t \in SonosTargets, SonosStops(r, t)
    PROVE  Step(r)
<1> DEFINE j == [NoJob EXCEPT !.kind = "stopped", !.account = managed[t].owner,
                              !.target = t]
<1>1. managed[t] \in [owner : Accounts, queue : Queue]
    BY DEF SonosStops, IInv, SessionTypeOK, Maybe
<1>2. managed' \in [SonosTargets -> Maybe([owner : Accounts, queue : Queue])]
    BY DEF SonosStops, IInv, SessionTypeOK, Maybe
<1>3. /\ job' = [job EXCEPT ![r] = j] /\ phase' = [phase EXCEPT ![r] = "land"]
      /\ UNCHANGED <<session, eventSeq, screen, newest>>
    BY DEF SonosStops
<1>4. j \in Job /\ j.kind = "stopped" /\ j.account \in Accounts /\ j.then = "done"
    BY <1>1 DEF NoJob, Job, Kinds, Plans, Maybe
<1> HIDE DEF j
<1>5. JobShape("land", j)
    BY <1>4 DEF JobShape
<1> QED BY <1>2, <1>3, <1>4, <1>5, QuietSteps DEF Phases

\* What a handler brings to the speaker.
LEMMA DeviceJob ==
    ASSUME IInv, NEW r \in Requests, phase[r] = "device"
    PROVE  /\ job[r] \in Job /\ JobShape("device", job[r])
           /\ job[r].account \in Accounts /\ job[r].target \in SonosTargets
           /\ job[r].then = "done"
           /\ job[r].kind \in {"commit", "transfer", "confirm"}
           /\ job[r].plan # "stop" => job[r].view \in Snapshot
           /\ job[r].kind = "commit" => Whole(job[r].view)
<1>1. job[r] \in Job /\ JobShape(phase[r], job[r])
    BY DEF IInv, SessionTypeOK, JobOK
<1> QED BY <1>1 DEF JobShape

\* Playing, stopping or commanding the speaker moves the handler on with the
\* same view for the same account.
LEMMA DeviceStepSteps ==
    ASSUME IInv, NEW r \in Requests, phase[r] = "device",
           NEW where \in {"device", "land"}, NEW j \in Job,
           j.kind = job[r].kind, j.account = job[r].account, j.view = job[r].view,
           j.target = job[r].target, j.then = job[r].then,
           where = "device" => job[r].plan # "stop",
           phase' = [phase EXCEPT ![r] = where], job' = [job EXCEPT ![r] = j],
           UNCHANGED <<session, eventSeq, screen, newest>>,
           managed' \in [SonosTargets -> Maybe([owner : Accounts, queue : Queue])]
    PROVE  Step(r)
<1>1. JobShape(where, j)
    BY DeviceJob DEF JobShape
<1> QED BY <1>1, QuietSteps DEF Phases

LEMMA DevicePlaySteps ==
    ASSUME IInv, NEW r \in Requests, DevicePlay(r)
    PROVE  Step(r)
<1> DEFINE j == [job[r] EXCEPT !.loaded = TRUE]
           k == [job[r] EXCEPT !.loaded = TRUE, !.plan = "pause"]
<1>1. phase[r] = "device" /\ job[r].plan # "stop"
    BY DEF DevicePlay
<1>2. job[r] \in Job /\ job[r].view \in Snapshot /\ job[r].account \in Accounts
    BY <1>1, DeviceJob
<1>3. Loaded(job[r].account, job[r].view.queue) \in [owner : Accounts, queue : Queue]
    BY <1>2 DEF Loaded, Snapshot
<1>4. managed' \in [SonosTargets -> Maybe([owner : Accounts, queue : Queue])]
    BY <1>3 DEF DevicePlay, IInv, SessionTypeOK, Maybe
<1>5. UNCHANGED <<session, eventSeq, screen, newest>>
    BY DEF DevicePlay
<1>6. CASE job[r].plan = "play"
    <2>1. phase' = [phase EXCEPT ![r] = "land"] /\ job' = [job EXCEPT ![r] = j]
        BY <1>6 DEF DevicePlay
    <2>2. /\ j \in Job /\ j.kind = job[r].kind /\ j.account = job[r].account
          /\ j.view = job[r].view /\ j.target = job[r].target /\ j.then = job[r].then
        BY <1>2 DEF Job
    <2> HIDE DEF j
    <2> QED BY <1>1, <1>4, <1>5, <2>1, <2>2, DeviceStepSteps
<1>7. CASE job[r].plan # "play"
    <2>1. phase' = [phase EXCEPT ![r] = "device"] /\ job' = [job EXCEPT ![r] = k]
        BY <1>1, <1>7 DEF DevicePlay, IInv, SessionTypeOK
    <2>2. /\ k \in Job /\ k.kind = job[r].kind /\ k.account = job[r].account
          /\ k.view = job[r].view /\ k.target = job[r].target /\ k.then = job[r].then
        BY <1>2 DEF Job, Plans
    <2> HIDE DEF k
    <2> QED BY <1>1, <1>4, <1>5, <2>1, <2>2, DeviceStepSteps
<1> QED BY <1>6, <1>7

LEMMA DeviceSteps ==
    ASSUME IInv, NEW r \in Requests, Device(r)
    PROVE  Step(r)
<1> DEFINE k == [job[r] EXCEPT !.plan = "play"]
           f == job[r]
<1>1. CASE DevicePlay(r)
    BY <1>1, DevicePlaySteps
<1>2. CASE DeviceStop(r) \/ DeviceCommand(r)
    <2>1. /\ phase[r] = "device" /\ phase' = [phase EXCEPT ![r] = "land"]
          /\ job' = [job EXCEPT ![r] = job[r]]
          /\ UNCHANGED <<session, eventSeq, screen, newest>>
        BY <1>2 DEF DeviceStop, DeviceCommand, IInv, SessionTypeOK
    <2>2. managed' \in [SonosTargets -> Maybe([owner : Accounts, queue : Queue])]
        BY <1>2 DEF DeviceStop, DeviceCommand, IInv, SessionTypeOK, Maybe
    <2> QED BY <2>1, <2>2, DeviceJob, DeviceStepSteps
<1>3. CASE DeviceReplays(r)
    <2>1. /\ phase[r] = "device" /\ phase' = [phase EXCEPT ![r] = "device"]
          /\ job[r].plan # "stop" /\ job' = [job EXCEPT ![r] = k]
          /\ UNCHANGED <<session, eventSeq, screen, newest>>
        BY <1>3 DEF DeviceReplays, IInv, SessionTypeOK
    <2>2. managed' \in [SonosTargets -> Maybe([owner : Accounts, queue : Queue])]
        BY <1>3 DEF DeviceReplays, IInv, SessionTypeOK
    <2>3. /\ k \in Job /\ k.kind = job[r].kind /\ k.account = job[r].account
          /\ k.view = job[r].view /\ k.target = job[r].target /\ k.then = job[r].then
        BY <2>1, DeviceJob DEF Job, Plans
    <2> HIDE DEF k
    <2> QED BY <2>1, <2>2, <2>3, DeviceStepSteps
<1>4. CASE DeviceFails(r) /\ job[r].kind = "transfer"
    <2>1. /\ phase[r] = "device" /\ phase' = [phase EXCEPT ![r] = "fail"]
          /\ job' = [job EXCEPT ![r] = f]
          /\ UNCHANGED <<session, eventSeq, managed, screen, newest>>
        BY <1>4 DEF DeviceFails, IInv, SessionTypeOK
    <2>2. managed' \in [SonosTargets -> Maybe([owner : Accounts, queue : Queue])]
        BY <2>1 DEF IInv, SessionTypeOK
    <2>3. f \in Job /\ JobShape("fail", f)
        BY <2>1, <1>4, DeviceJob DEF JobShape
    <2> HIDE DEF f
    <2> QED BY <2>1, <2>2, <2>3, QuietSteps DEF Phases
<1>5. CASE DeviceFails(r) /\ job[r].kind # "transfer"
    BY <1>5, FinishSteps DEF DeviceFails
<1>6. CASE Disconnect(r)
    BY <1>6, FinishSteps DEF Disconnect
<1> QED BY <1>1, <1>2, <1>3, <1>4, <1>5, <1>6 DEF Device

LEMMA PublishKeeps ==
    ASSUME IInv, NEW r \in Requests, Publish(r)
    PROVE  IInv'
<1> DEFINE j == [job[r] EXCEPT !.then = "done"]
<1>1. /\ phase[r] = "publish" /\ job[r] \in Job /\ JobShape("publish", job[r])
    BY DEF Publish, IInv, SessionTypeOK, JobOK
<1>2. job[r].account \in Accounts /\ job[r].view \in Snapshot
    BY <1>1 DEF JobShape
<1>3. screen' \in [Accounts -> Maybe(Snapshot)]
    BY <1>2 DEF Publish, Merge, IInv, SessionTypeOK, Maybe
<1>4. /\ phase' \in [Requests -> Phases] /\ job' \in [Requests -> Job]
      /\ \A q \in Requests : JobOK(q)'
    <2>1. CASE job[r].then = "device"
        <3>1. phase' = [phase EXCEPT ![r] = "device"] /\ job' = [job EXCEPT ![r] = j]
            BY <2>1 DEF Publish, IInv, SessionTypeOK
        <3>2. /\ j \in Job /\ j.kind = job[r].kind /\ j.account = job[r].account
              /\ j.view = job[r].view /\ j.target = job[r].target /\ j.then = "done"
            BY <1>1 DEF Job
        <3>3. JobShape("device", j)
            BY <1>1, <1>2, <2>1, <3>2 DEF JobShape
        <3> HIDE DEF j
        <3> QED BY <3>1, <3>2, <3>3, JobKeeps DEF Phases
    <2>2. CASE job[r].then # "device"
        <3>1. Finish(r)
            BY <2>2 DEF Publish
        <3> QED BY <3>1, NoJobType, JobKeeps DEF Finish, Phases
    <2> QED BY <2>1, <2>2
<1> QED BY <1>3, <1>4 DEF Publish, IInv, SessionTypeOK

LEMMA ReadSessionKeeps ==
    ASSUME IInv, NEW a \in Accounts, ReadSession(a)
    PROVE  IInv'
<1>1. Whole(Runtime(a)) /\ Runtime(a) \in Snapshot
    BY RuntimeWhole DEF Whole
<1>2. /\ session' \in [Accounts -> Maybe(Snapshot)]
      /\ screen' \in [Accounts -> Maybe(Snapshot)]
    BY <1>1 DEF ReadSession, IInv, SessionTypeOK, Maybe
<1>3. \A b \in Accounts : session'[b] # None => Whole(session'[b])
    BY <1>1 DEF ReadSession, IInv, SessionTypeOK
<1> QED BY <1>2, <1>3 DEF ReadSession, IInv, SessionTypeOK, JobOK

LEMMA OtherEventKeeps ==
    ASSUME IInv, OtherEvent
    PROVE  IInv'
<1>1. eventSeq' \in Nat
    BY DEF OtherEvent, IInv, SessionTypeOK
<1> QED BY <1>1 DEF OtherEvent, IInv, SessionTypeOK, JobOK

LEMMA PlaybackStart == Init => IInv
<1> SUFFICES ASSUME Init PROVE IInv
    OBVIOUS
<1>1. SessionTypeOK
    BY NoJobType DEF Init, SessionTypeOK, Maybe, Phases
<1>2. JobShape("idle", NoJob)
    BY DEF JobShape, NoJob
<1> QED BY <1>1, <1>2 DEF Init, IInv, JobOK

\* Whatever action a request takes, but for sending its event, is such a step,
\* and it is not sending one then.
LEMMA ActionSteps ==
    ASSUME IInv, NEW r \in Requests,
           \/ \E a \in Accounts : Arrives(r, a)
           \/ \E t \in SonosTargets : SonosReports(r, t) \/ SonosStops(r, t)
           \/ Device(r) \/ Lands(r) \/ TransferFails(r)
    PROVE  Step(r) /\ phase[r] # "publish"
<1>1. ASSUME NEW a \in Accounts, Arrives(r, a)
      PROVE  Step(r) /\ phase[r] = "idle"
    <2>1. ASSUME NEW id \in Attachments, Attach(r, a, id)
          PROVE  Step(r) /\ phase[r] = "idle"
        BY <2>1, AttachSteps DEF Attach
    <2>2. CASE Detach(r, a)
        BY <2>2, DetachSteps DEF Detach
    <2>3. ASSUME NEW body \in QueueBodies, ReplaceQueue(r, a, body)
          PROVE  Step(r) /\ phase[r] = "idle"
        BY <2>3, ReplaceQueueSteps DEF ReplaceQueue
    <2>4. ASSUME NEW body \in StateBodies, UpdateState(r, a, body)
          PROVE  Step(r) /\ phase[r] = "idle"
        BY <2>4, UpdateStateSteps DEF UpdateState
    <2>5. ASSUME NEW to \in Target, RequestTransfer(r, a, to)
          PROVE  Step(r) /\ phase[r] = "idle"
        BY <2>5, RequestTransferSteps DEF RequestTransfer
    <2>6. ASSUME NEW id \in Requests, CheckConfirm(r, a, id)
          PROVE  Step(r) /\ phase[r] = "idle"
        BY <2>6, CheckConfirmSteps DEF CheckConfirm
    <2>7. ASSUME NEW t \in SonosTargets, NEW queue \in Queues,
                 SonosStarts(r, a, t, queue)
          PROVE  Step(r) /\ phase[r] = "idle"
        BY <2>7, SonosStartsSteps DEF SonosStarts
    <2> QED BY <1>1, <2>1, <2>2, <2>3, <2>4, <2>5, <2>6, <2>7 DEF Arrives
<1>2. ASSUME NEW t \in SonosTargets, SonosReports(r, t) \/ SonosStops(r, t)
      PROVE  Step(r) /\ phase[r] = "idle"
    BY <1>2, SonosReportsSteps, SonosStopsSteps DEF SonosReports, SonosStops
<1>3. CASE Device(r)
    <2>1. phase[r] \in {"device", "land"}
        BY <1>3 DEF Device, DevicePlay, DeviceStop, DeviceCommand, DeviceReplays,
                    DeviceFails, Disconnect
    <2> QED BY <1>3, <2>1, DeviceSteps
<1>4. CASE Lands(r)
    <2>1. phase[r] = "land"
        BY <1>4 DEF Lands, QueueLands, StateLands, CommitLands, TransferLands,
                    ConfirmLands, StartLands, ReportLands, StopLands, Landing
    <2>2. Step(r)
        BY <1>4, QueueLandsSteps, StateLandsSteps, CommitLandsSteps,
           TransferLandsSteps, ConfirmLandsSteps, StartLandsSteps, ReportLandsSteps,
           StopLandsSteps DEF Lands
    <2> QED BY <2>1, <2>2
<1>5. CASE TransferFails(r)
    BY <1>5, TransferFailsSteps DEF TransferFails
<1> QED BY <1>1, <1>2, <1>3, <1>4, <1>5

LEMMA PlaybackStep ==
    ASSUME IInv, [Next]_vars
    PROVE  IInv'
<1>1. ASSUME NEW r \in Requests, Publish(r) PROVE IInv'
    BY <1>1, PublishKeeps
<1>2. ASSUME NEW a \in Accounts, ReadSession(a) PROVE IInv'
    BY <1>2, ReadSessionKeeps
<1>3. CASE OtherEvent
    BY <1>3, OtherEventKeeps
<1>4. CASE UNCHANGED vars
    BY <1>4 DEF vars, IInv, SessionTypeOK, JobOK
<1> QED BY <1>1, <1>2, <1>3, <1>4, ActionSteps, StepKeeps DEF Next

LEMMA PlaybackInvariant == Spec => []IInv
<1>1. Init => IInv
    BY PlaybackStart
<1>2. IInv /\ [Next]_vars => IInv'
    BY PlaybackStep
<1> QED BY <1>1, <1>2, PTL DEF Spec

-----------------------------------------------------------------------------
(* The theorems.                                                           *)

\* The state keeps its types, whatever requests arrive and however their steps
\* interleave.
THEOREM PlaybackTypes == Spec => []SessionTypeOK
<1>1. IInv => SessionTypeOK
    BY DEF IInv
<1> QED BY <1>1, PlaybackInvariant, PTL

\* No session, and no preview still to be committed, ever points outside its
\* queue or past its duration: state.rs:5313 and sonos.rs:843 index the queue.
THEOREM CursorsAreSound == Spec => []QueueCursor
<1>1. IInv => QueueCursor
    BY DEF IInv, QueueCursor, Whole, JobOK, JobShape
<1> QED BY <1>1, PlaybackInvariant, PTL

\* No interleaving of previews, commits, reports and replacements leaves a
\* transfer in a session that has nothing to play.
THEOREM TransfersHaveQueues == Spec => []TransferHasQueue
<1>1. IInv => TransferHasQueue
    BY DEF IInv, TransferHasQueue, Whole
<1> QED BY <1>1, PlaybackInvariant, PTL

-----------------------------------------------------------------------------
(* Events that overtake each other.                                        *)

\* A snapshot of a that left its lock is not newer than the session, and is the
\* session if it bears its revision.
Behind(s, a) ==
    /\ session[a] # None
    /\ s.revision <= session[a].revision
    /\ s.revision = session[a].revision => s = session[a]

Sending(r, a) == phase[r] = "publish" /\ job[r].account = a

\* Revisions never run ahead of the sequence; what clients hold and what is
\* still to be sent is behind the session; and a session no client's screen
\* shows yet is on its way.
ScreenInv ==
    /\ \A a \in Accounts :
           session[a] # None => session[a].revision <= eventSeq
    /\ \A r \in Requests, a \in Accounts :
           Sending(r, a) => Behind(job[r].view, a)
    /\ \A a \in Accounts : screen[a] # None =>
           /\ Behind(screen[a], a)
           /\ screen[a] # session[a] =>
                  \E r \in Requests : Sending(r, a) /\ job[r].view = session[a]

\* A step of a handler that is not sending leaves what is sent alone.
LEMMA ScreenQuiet ==
    ASSUME ScreenInv, IInv, NEW r \in Requests, phase[r] # "publish",
           NEW where \in Phases, where # "publish", NEW j \in Job,
           phase' = [phase EXCEPT ![r] = where], job' = [job EXCEPT ![r] = j],
           UNCHANGED <<session, eventSeq, screen>>
    PROVE  ScreenInv'
<1>1. \A q \in Requests, a \in Accounts :
          /\ Sending(q, a)' <=> Sending(q, a)
          /\ Sending(q, a) => job'[q] = job[q]
    BY DEF Sending, IInv, SessionTypeOK
<1> QED BY <1>1 DEF ScreenInv, Behind

LEMMA ScreenFinish ==
    ASSUME ScreenInv, IInv, NEW r \in Requests, phase[r] # "publish", Finish(r),
           UNCHANGED <<session, eventSeq, screen>>
    PROVE  ScreenInv'
BY NoJobType, ScreenQuiet DEF Finish, Phases

\* A refused mutation may create the session, of which nothing was sent.
LEMMA ScreenReject ==
    ASSUME ScreenInv, IInv, NEW r \in Requests, phase[r] # "publish",
           NEW a \in Accounts, Reject(r, a)
    PROVE  ScreenInv'
<1>1. CASE session[a] # None
    <2>1. session' = session
        BY <1>1 DEF Reject, Runtime, IInv, SessionTypeOK
    <2> QED BY <2>1, ScreenQuiet, NoJobType DEF Reject, Phases
<1>2. CASE session[a] = None
    <2>1. /\ session' = [session EXCEPT ![a] = Fresh(eventSeq)]
          /\ eventSeq' = eventSeq /\ screen' = screen
        BY <1>2 DEF Reject, Runtime
    <2>2. \A q \in Requests, b \in Accounts :
              /\ Sending(q, b)' <=> Sending(q, b)
              /\ Sending(q, b) => job'[q] = job[q]
        BY DEF Sending, Reject, IInv, SessionTypeOK
    <2>3. Fresh(eventSeq) \in Snapshot /\ Fresh(eventSeq).revision = eventSeq
        BY FreshWhole DEF Fresh, Whole, IInv, SessionTypeOK
    <2>4. \A b \in Accounts : b # a => session'[b] = session[b]
        BY <2>1 DEF IInv, SessionTypeOK
    <2>5. session'[a] = Fresh(eventSeq)
        BY <2>1 DEF IInv, SessionTypeOK
    <2>6. screen[a] = None /\ \A q \in Requests : ~Sending(q, a)
        BY <1>2 DEF ScreenInv, Behind
    <2>7. \A b \in Accounts : session'[b] # None => session'[b].revision <= eventSeq'
        BY <2>1, <2>3, <2>4, <2>5 DEF ScreenInv, IInv, SessionTypeOK
    <2>8. \A q \in Requests, b \in Accounts :
              Sending(q, b)' => Behind(job[q].view, b)'
        BY <2>2, <2>4, <2>6 DEF ScreenInv, Behind
    <2>9. \A b \in Accounts : screen'[b] # None =>
              /\ Behind(screen[b], b)'
              /\ screen'[b] # session'[b] =>
                     \E q \in Requests : Sending(q, b)' /\ job'[q].view = session'[b]
        BY <2>1, <2>2, <2>4, <2>6 DEF ScreenInv, Behind
    <2> QED BY <2>1, <2>2, <2>7, <2>8, <2>9 DEF ScreenInv, Behind
<1> QED BY <1>1, <1>2

\* A mutation outruns every revision there is, and its own event is on its way.
LEMMA ScreenMutate ==
    ASSUME ScreenInv, IInv, NEW r \in Requests, phase[r] # "publish",
           NEW j \in Job, j.account \in Accounts, NEW s, Whole(s), Mutate(r, j, s)
    PROVE  ScreenInv'
<1> DEFINE a == j.account
           new == Stamped(s)
<1>1. new \in Snapshot /\ new.revision = eventSeq + 1
    BY StampedWhole DEF Whole, Stamped, Snapshot
<1>2. /\ session' = [session EXCEPT ![a] = new] /\ eventSeq' = eventSeq + 1
      /\ screen' = screen /\ phase' = [phase EXCEPT ![r] = "publish"]
      /\ job' = [job EXCEPT ![r] = [j EXCEPT !.view = new]]
    BY DEF Mutate
<1>3. job'[r].view = new /\ job'[r].account = a /\ phase'[r] = "publish"
    BY <1>2 DEF Job, IInv, SessionTypeOK
<1>4. \A q \in Requests : q # r => job'[q] = job[q] /\ phase'[q] = phase[q]
    BY <1>2 DEF IInv, SessionTypeOK
<1> HIDE DEF new
<1>5. session'[a] = new /\ \A b \in Accounts : b # a => session'[b] = session[b]
    BY <1>2 DEF IInv, SessionTypeOK
<1>6. new # None /\ eventSeq \in Nat
    BY <1>1, NoneIsApart DEF IInv, SessionTypeOK
<1>7. \A b \in Accounts : session[b] # None =>
          session[b].revision \in Nat /\ session[b].revision <= eventSeq
    BY DEF ScreenInv, IInv, SessionTypeOK, Maybe, Snapshot
<1>8. \A b \in Accounts : session'[b] # None => session'[b].revision <= eventSeq'
    BY <1>1, <1>2, <1>5, <1>6, <1>7
<1>9. ASSUME NEW b \in Accounts, NEW t \in Snapshot, Behind(t, b)
      PROVE  Behind(t, b)'
    <2>1. CASE b = a
        <3>1. t.revision < new.revision
            BY <1>1, <1>6, <1>7, <1>9 DEF Behind, Snapshot
        <3> QED BY <2>1, <3>1, <1>1, <1>5, <1>6, <1>9 DEF Behind, Snapshot
    <2>2. CASE b # a
        BY <2>2, <1>5, <1>9 DEF Behind
    <2> QED BY <2>1, <2>2
<1>10. Behind(job[r].view, a)'
    BY <1>1, <1>3, <1>5, <1>6 DEF Behind
<1>11. ASSUME NEW q \in Requests, NEW b \in Accounts, Sending(q, b)'
       PROVE  Behind(job[q].view, b)'
    <2>1. CASE q = r
        <3>1. b = a
            BY <2>1, <1>3, <1>11 DEF Sending
        <3> QED BY <2>1, <3>1, <1>10
    <2>2. CASE q # r
        <3>1. Sending(q, b) /\ job'[q] = job[q]
            BY <2>2, <1>4, <1>11 DEF Sending
        <3>2. Behind(job[q].view, b) /\ job[q].view \in Snapshot
            BY <3>1 DEF ScreenInv, Sending, IInv, JobOK, JobShape
        <3> QED BY <3>1, <3>2, <1>9
    <2> QED BY <2>1, <2>2
<1>12. ASSUME NEW b \in Accounts, screen'[b] # None
       PROVE  /\ Behind(screen[b], b)'
              /\ screen'[b] # session'[b] =>
                     \E q \in Requests : Sending(q, b)' /\ job'[q].view = session'[b]
    <2>1. Behind(screen[b], b) /\ screen[b] \in Snapshot
        BY <1>2, <1>12 DEF ScreenInv, IInv, SessionTypeOK, Maybe
    <2>2. Behind(screen[b], b)'
        BY <2>1, <1>2, <1>9
    <2>3. CASE b = a
        BY <2>2, <2>3, <1>3, <1>5 DEF Sending
    <2>4. CASE b # a
        <3>1. ASSUME NEW q \in Requests, Sending(q, b)
              PROVE  Sending(q, b)' /\ job'[q] = job[q]
            BY <3>1, <1>4 DEF Sending
        <3>2. screen'[b] = screen[b] /\ session'[b] = session[b] /\ screen[b] # None
            BY <2>4, <1>2, <1>5, <1>12
        <3>3. screen[b] # session[b] =>
                  \E q \in Requests : Sending(q, b) /\ job[q].view = session[b]
            BY <3>2 DEF ScreenInv
        <3>4. screen'[b] # session'[b] =>
                  \E q \in Requests : Sending(q, b)' /\ job'[q].view = session'[b]
            BY <3>1, <3>2, <3>3
        <3> QED BY <2>2, <3>4
    <2> QED BY <2>2, <2>3, <2>4
<1> QED BY <1>8, <1>11, <1>12 DEF ScreenInv

\* A delivered event brings a screen up to the session, or changes nothing the
\* session has not left behind.
LEMMA ScreenPublish ==
    ASSUME ScreenInv, IInv, NEW r \in Requests, Publish(r)
    PROVE  ScreenInv'
<1> DEFINE a == job[r].account
           v == job[r].view
<1>1. /\ phase[r] = "publish" /\ a \in Accounts /\ v \in Snapshot
    BY DEF Publish, IInv, JobOK, JobShape
<1>2. Sending(r, a) /\ Behind(v, a)
    BY <1>1 DEF Sending, ScreenInv
<1>3. session' = session /\ eventSeq' = eventSeq
    BY DEF Publish
<1>4. phase'[r] # "publish" /\ \A q \in Requests : q # r =>
          phase'[q] = phase[q] /\ job'[q] = job[q]
    BY DEF Publish, Finish, IInv, SessionTypeOK
<1>5. \A q \in Requests, b \in Accounts :
          Sending(q, b)' => Sending(q, b) /\ job'[q] = job[q]
    BY <1>4 DEF Sending
<1>6. \A q \in Requests, b \in Accounts :
          Sending(q, b) /\ b # a => Sending(q, b)' /\ job'[q] = job[q]
    BY <1>4 DEF Sending
<1>7. screen' = Merge(a, v)
    BY DEF Publish
<1>8. \A b \in Accounts : b # a => screen'[b] = screen[b]
    BY <1>7 DEF Merge, IInv, SessionTypeOK
<1>9. ASSUME screen'[a] # None
      PROVE  /\ Behind(screen'[a], a)
             /\ screen'[a] # session[a] =>
                    \E q \in Requests : q # r /\ Sending(q, a) /\ job[q].view = session[a]
    <2>1. screen[a] # None /\ screen[a] \in Snapshot /\ Behind(screen[a], a)
        BY <1>1, <1>7, <1>9 DEF Merge, ScreenInv, IInv, SessionTypeOK, Maybe
    <2>2. session[a] \in Snapshot
        BY <1>1, <1>2 DEF Behind, IInv, SessionTypeOK, Maybe
    <2>3. screen'[a] = IF v.revision <= screen[a].revision THEN screen[a] ELSE v
        BY <1>1, <1>7, <2>1 DEF Merge, IInv, SessionTypeOK
    <2>4. Behind(screen'[a], a)
        BY <1>2, <2>1, <2>3
    <2>5. ASSUME screen'[a] # session[a], v = session[a]
          PROVE  FALSE
        BY <2>1, <2>2, <2>3, <2>5 DEF Behind, Snapshot
    <2>6. ASSUME screen'[a] # session[a]
          PROVE  \E q \in Requests : q # r /\ Sending(q, a) /\ job[q].view = session[a]
        <3>1. screen[a] # session[a]
            BY <1>1, <1>2, <2>1, <2>2, <2>3, <2>6 DEF Behind, Snapshot
        <3>2. PICK q \in Requests : Sending(q, a) /\ job[q].view = session[a]
            BY <1>1, <2>1, <3>1 DEF ScreenInv
        <3> QED BY <2>5, <2>6, <3>2
    <2> QED BY <2>4, <2>6
<1>10. ASSUME NEW b \in Accounts, screen'[b] # None
       PROVE  /\ Behind(screen'[b], b)
              /\ screen'[b] # session[b] =>
                     \E q \in Requests : Sending(q, b)' /\ job'[q].view = session[b]
    <2>1. CASE b = a
        <3>1. \A q \in Requests :
                  q # r /\ Sending(q, b) => Sending(q, b)' /\ job'[q] = job[q]
            BY <1>4 DEF Sending
        <3>2. screen'[b] # None /\ Behind(screen'[b], b)
            BY <1>9, <1>10, <2>1
        <3>3. ASSUME screen'[b] # session[b]
              PROVE  \E q \in Requests : Sending(q, b)' /\ job'[q].view = session[b]
            <4>1. PICK q \in Requests :
                      q # r /\ Sending(q, b) /\ job[q].view = session[b]
                BY <1>9, <2>1, <3>2, <3>3
            <4> QED BY <3>1, <4>1
        <3> QED BY <3>2, <3>3
    <2>2. CASE b # a
        BY <2>2, <1>6, <1>8, <1>10 DEF ScreenInv
    <2> QED BY <2>1, <2>2
<1>11. \A b \in Accounts, t \in Maybe(Snapshot) : Behind(t, b) => Behind(t, b)'
    BY <1>3 DEF Behind
<1> QED BY <1>3, <1>5, <1>10 DEF ScreenInv, Behind

\* A client that reads holds the session itself.
LEMMA ScreenRead ==
    ASSUME ScreenInv, IInv, NEW a \in Accounts, ReadSession(a)
    PROVE  ScreenInv'
<1> DEFINE s == Runtime(a)
<1>1. s \in Snapshot /\ s # None
    BY RuntimeWhole, NoneIsApart DEF Whole
<1>2. s.revision <= eventSeq
    BY DEF Runtime, Fresh, ScreenInv, IInv, SessionTypeOK
<1>3. session[a] # None => s = session[a]
    BY DEF Runtime
<1> HIDE DEF s
<1>4. /\ session' = [session EXCEPT ![a] = s] /\ screen' = [screen EXCEPT ![a] = s]
      /\ UNCHANGED <<eventSeq, phase, job>>
    BY DEF ReadSession, s
<1>5. /\ session'[a] = s /\ screen'[a] = s
      /\ \A b \in Accounts : b # a => session'[b] = session[b] /\ screen'[b] = screen[b]
    BY <1>4 DEF IInv, SessionTypeOK
<1>6. \A q \in Requests, b \in Accounts : Sending(q, b)' <=> Sending(q, b)
    BY <1>4 DEF Sending
<1>7. \A b \in Accounts : session'[b] # None => session'[b].revision <= eventSeq'
    BY <1>2, <1>4, <1>5 DEF ScreenInv
<1>8. \A q \in Requests, b \in Accounts : Sending(q, b)' => Behind(job[q].view, b)'
    BY <1>3, <1>4, <1>5, <1>6 DEF ScreenInv, Behind
<1>9. ASSUME NEW b \in Accounts, screen'[b] # None
      PROVE  /\ Behind(screen[b], b)'
             /\ screen'[b] # session'[b] =>
                    \E q \in Requests : Sending(q, b)' /\ job'[q].view = session'[b]
    <2>1. CASE b = a
        BY <2>1, <1>1, <1>5 DEF Behind, Snapshot
    <2>2. CASE b # a
        BY <2>2, <1>4, <1>5, <1>6, <1>9 DEF ScreenInv, Behind
    <2> QED BY <2>1, <2>2
<1> QED BY <1>7, <1>8, <1>9 DEF ScreenInv

LEMMA ScreenStep ==
    ASSUME ScreenInv, IInv, NEW r \in Requests, phase[r] # "publish", Step(r)
    PROVE  ScreenInv'
<1>1. CASE Writes(r)
    BY <1>1, ScreenMutate DEF Writes
<1>2. CASE Moves(r)
    BY <1>2, ScreenQuiet DEF Moves
<1>3. CASE Refuses(r)
    BY <1>3, ScreenReject DEF Refuses
<1> QED BY <1>1, <1>2, <1>3 DEF Step

\* Once nothing is left to send, a client that keeps the highest revision it has
\* seen shows the session the server has, in whatever order the events of
\* state.rs:1209 left the server.
THEOREM ClientsConverge == Spec => []ScreenFollows
<1>1. Init => ScreenInv
    BY DEF Init, ScreenInv, Sending
<1>2. ScreenInv /\ IInv /\ [Next]_vars => ScreenInv'
    <2> SUFFICES ASSUME ScreenInv, IInv, [Next]_vars PROVE ScreenInv'
        OBVIOUS
    <2>1. ASSUME NEW r \in Requests, Publish(r) PROVE ScreenInv'
        BY <2>1, ScreenPublish
    <2>2. ASSUME NEW a \in Accounts, ReadSession(a) PROVE ScreenInv'
        BY <2>2, ScreenRead
    <2>3. CASE OtherEvent
        BY <2>3 DEF OtherEvent, ScreenInv, Behind, Sending, IInv, SessionTypeOK,
                    Maybe, Snapshot
    <2>4. CASE UNCHANGED vars
        BY <2>4 DEF vars, ScreenInv, Behind, Sending
    <2> QED BY <2>1, <2>2, <2>3, <2>4, ActionSteps, ScreenStep DEF Next
<1>3. ScreenInv => ScreenFollows
    BY DEF ScreenInv, ScreenFollows, Sending
<1> QED BY <1>1, <1>2, <1>3, PlaybackInvariant, PTL DEF Spec
=============================================================================
