------------------------- MODULE SonosSessionProofs -------------------------
(***************************************************************************)
(* Theorems about SonosSession, for any requests, queues, outcomes of the  *)
(* speaker's calls, windows and bounds.                                    *)
(*                                                                         *)
(* What orders the tasks is the transport guard and a comparison of        *)
(* session ids, and IInv says what the two are good for: who holds the     *)
(* guard where (Guarded), what a task keeps for its next step (Shapes),    *)
(* that the copies of a session that tasks keep are of one session         *)
(* (Families), that a start which has not inserted its session yet is      *)
(* unknown to everybody (Unborn) and one which has is alone (Alone).       *)
(***************************************************************************)
EXTENDS SonosSession, TLAPS

-----------------------------------------------------------------------------
(* The inductive invariant.                                                *)

\* A session whose parts fit together: its index is inside its queue, its
\* status whole, its URL signed for it.
Sound(s) ==
    /\ s \in Session
    /\ s.index < Len(s.queue)
    /\ s.loss # None => s.status = "active"
    /\ s.deadline # None <=> s.status = "reconnecting"
    /\ s.prepared.id = s.id
    /\ s.prepared.gen = s.gen

\* The session a handoff turned is still there to be restored.
HasBack(j) == j.back \in Session /\ j.back.id = j.snap.id /\ j.back.gen = j.snap.gen

AsksSpeaker == {"load", "start", "seek", "finish"}
Inserted == AsksSpeaker \cup {"undo"}

PlayShape(where, j) ==
    /\ where \in {"look", "wait", "check", "ungroup"} \cup Inserted
    /\ j.snap = None
    /\ j.queue \in Queues
    /\ j.index \in Nat
    /\ j.index < Len(j.queue)
    /\ IF where \in Inserted THEN j.url \in Context ELSE j.back = None

CommandShape(where, j) ==
    /\ where \in {"look", "wait", "send", "finish"}
    /\ j.back = None
    /\ IF where = "look" THEN j.snap = None ELSE j.snap \in Session

HandoffShape(where, j) ==
    /\ where \in {"turn", "mint", "wait"} \cup AsksSpeaker => j.snap \in Session
    /\ where \in {"mint", "wait"} \cup AsksSpeaker => HasBack(j)
    /\ where \in {"wait"} \cup AsksSpeaker => j.url \in Context

SkipShape(where, j) ==
    /\ where \in {"look", "turn", "mint", "wait", "load", "start", "finish"}
    /\ HandoffShape(where, j)
    /\ IF where = "look"
           THEN j.snap = None
           ELSE j.index \in Nat /\ j.index < Len(j.snap.queue)
    /\ where \in {"look", "turn"} => j.back = None

PassShape(where, j) ==
    /\ where \in {"check", "verify", "healthy", "miss", "turn", "mint", "wait"} \cup AsksSpeaker
    /\ HandoffShape(where, j)
    /\ j.snap \in Session
    /\ where \in {"check", "verify", "healthy", "turn"} => j.back = None

\* What a task keeps at each of its awaits.
TaskShape(t, where, j) ==
    IF where \in {"idle", "done"}
        THEN j = NoJob
        ELSE /\ t = Reconciler <=> j.kind = "pass"
             /\ j.kind \in AllKinds \cup {"pass"}
             /\ j.kind = "play" => PlayShape(where, j)
             /\ j.kind \in {"stop", "volume"} =>
                    where \in {"wait", "send"} /\ j.snap = None /\ j.back = None
             /\ j.kind \in Commands => CommandShape(where, j)
             /\ j.kind \in Skips => SkipShape(where, j)
             /\ j.kind = "pass" => PassShape(where, j)

Shapes == \A t \in Tasks : TaskShape(t, phase[t], job[t])

Holds(t, where) ==
    \/ where \in AsksSpeaker
    \/ t # Reconciler /\ where \in {"check", "ungroup", "undo", "send"}

\* The guard is held from its acquisition to the end of the operation.
Guarded == \A t \in Tasks : Holds(t, phase[t]) => guard = t

Copies == Held \ {None}

AllSound == \A s \in Copies : Sound(s)

\* The copies of a session are of one queue and one generation.
Families == \A s, u \in Copies : s.id = u.id => s.gen = u.gen /\ s.queue = u.queue

BeforeBirth == {"idle", "look", "wait", "check", "ungroup", "turn", "mint"}

\* The session a request will start is unknown before it is inserted.
Unborn ==
    \A r \in Requests : phase[r] \in BeforeBirth =>
        /\ r \notin ended
        /\ \A s \in Copies : s.id # r

HasInserted(r) == phase[r] \in Inserted /\ job[r].kind = "play"

\* Between its insertion and the end of the start, a session is only replaced
\* by none, and what the start puts back if it fails has not ended.
Alone ==
    \A r \in Requests : HasInserted(r) =>
        /\ managed # None => managed.id = r
        /\ job[r].back # None => job[r].back.id # r /\ job[r].back.id \notin ended

Stopping == \E r \in Requests : phase[r] = "send" /\ job[r].kind = "stop"

\* A holder of the guard that touches neither the session nor Play.
Harmless(t) == job[t].kind \in {"stop", "volume"} \/ phase[t] \in {"check", "ungroup"}

\* An answered stop left no session and no holder of the guard that could play.
Silent ==
    /\ Stopping => managed = None
    /\ quiet => /\ managed = None
                /\ \A t \in Tasks : Holds(t, phase[t]) => Harmless(t)

IInv ==
    /\ SonosTypeOK
    /\ Shapes
    /\ Guarded
    /\ AllSound
    /\ Families
    /\ Unborn
    /\ Alone
    /\ Silent
    /\ EndedStaysEnded
    /\ StopSilences

-----------------------------------------------------------------------------
(* The reconnect window.                                                   *)

\* The latest time a loss can have been noted at: that of the pass under way.
Noted == IF phase[Reconciler] = "idle" THEN clock ELSE job[Reconciler].now

NotedBy(s, now) ==
    /\ s.loss # None => s.loss <= now
    /\ s.deadline # None => s.deadline <= now + Window

\* Nobody remembers a loss later than the pass under way.
PastLosses == Noted <= clock /\ \A s \in Copies : NotedBy(s, Noted)

\* s is lost, and the window it has is not counted from later than since.
LostBy(s, since) ==
    \/ s.loss # None /\ s.loss <= since
    \/ s.deadline # None /\ s.deadline <= since + Window

Resumes == phase[Reconciler] \in {"mint", "wait"} \cup AsksSpeaker

\* While an outage lasts the session is lost since then, or the reconciler is
\* resuming it and would put back that it is.
OutageIsKept ==
    outage # None =>
        /\ managed # None
        /\ IF Resumes
               THEN /\ Matches(job[Reconciler].snap)
                    /\ managed.status = "active"
                    /\ LostBy(job[Reconciler].back, outage)
               ELSE LostBy(managed, outage)

WindowInv == PastLosses /\ OutageIsKept

-----------------------------------------------------------------------------
(* The session record.                                                     *)

Kin(s, u) == s.id = u.id /\ s.gen = u.gen /\ s.queue = u.queue

LEMMA IndexInside ==
    ASSUME NEW q \in Queues, NEW i \in Nat, i < Len(q)
    PROVE  q[i + 1] \in Entries
<1>1. q \in Seq(Entries)
    BY QueuesAreNotEmpty
<1> QED BY <1>1

LEMMA NewSessionSound ==
    ASSUME NEW id \in Ids, NEW gen \in Nat, NEW q \in Queues, NEW i \in Nat, i < Len(q)
    PROVE  /\ Sound(NewSession(id, gen, q, i))
           /\ NewSession(id, gen, q, i).id = id
           /\ NewSession(id, gen, q, i).prepared \in Context
<1>1. q[i + 1] \in Entries
    BY IndexInside
<1>2. Authorization(id, gen, 1, q[i + 1]) \in Context
    BY <1>1 DEF Authorization, Context
<1>3. NewSession(id, gen, q, i) \in Session
    BY <1>2 DEF NewSession, Session, Maybe
<1> QED BY <1>2, <1>3 DEF NewSession, Sound, Authorization

LEMMA ConfirmedSound ==
    ASSUME NEW s, Sound(s)
    PROVE  Sound(Confirmed(s)) /\ Kin(Confirmed(s), s)
<1>1. Confirmed(s) \in Session
    BY DEF Sound, Confirmed, Session, Maybe
<1> QED BY <1>1 DEF Sound, Confirmed, Session, Kin

LEMMA AdvancingSound ==
    ASSUME NEW s, Sound(s), NEW b \in BOOLEAN
    PROVE  Sound([s EXCEPT !.advancing = b]) /\ Kin([s EXCEPT !.advancing = b], s)
<1>1. [s EXCEPT !.advancing = b] \in Session
    BY DEF Sound, Session
<1> QED BY <1>1 DEF Sound, Session, Kin

\* A miss notes a loss of an active session, or sets a deadline and forgets
\* the loss: never one of the two beside the other.
LEMMA MissedSound ==
    ASSUME NEW s, Sound(s), NEW now \in Time
    PROVE  Sound(Missed(s, now)) /\ Kin(Missed(s, now), s)
<1>1. Window \in Nat /\ MaxClock \in Nat /\ None \notin Nat
    BY BoundsAreNatural, NamesAreApart
<1>2. s \in Session
    BY DEF Sound
<1>3. CASE s.status # "reconnecting" /\ s.loss = None
    <2>1. Missed(s, now) = [s EXCEPT !.loss = now]
        BY <1>3 DEF Missed
    <2>2. Missed(s, now) \in Session
        BY <1>2, <2>1 DEF Session, Maybe
    <2> QED BY <1>2, <1>3, <2>1, <2>2 DEF Sound, Session, Kin
<1>4. CASE ~(s.status # "reconnecting" /\ s.loss = None)
    <2> DEFINE since == IF s.loss = None THEN now ELSE s.loss
               end == IF s.deadline = None THEN since + Window ELSE s.deadline
    <2>1. since \in Time
        BY <1>2 DEF Session, Maybe
    <2>2. since + Window \in 0 .. MaxClock + Window
        BY <1>1, <2>1 DEF Time
    <2>3. end \in 0 .. MaxClock + Window /\ end # None
        BY <1>1, <1>2, <2>2 DEF Session, Maybe
    <2>4. Missed(s, now) =
            [s EXCEPT !.status = "reconnecting", !.advancing = FALSE,
                      !.loss = None, !.deadline = end]
        BY <1>2, <1>4 DEF Missed, Session
    <2> HIDE DEF end
    <2>5. Missed(s, now) \in Session
        BY <1>2, <2>3, <2>4 DEF Session, Maybe
    <2> QED BY <1>2, <2>3, <2>4, <2>5 DEF Sound, Session, Kin
<1> QED BY <1>3, <1>4

LEMMA RestoredSound ==
    ASSUME NEW s, NEW back, Sound(s), Sound(back), Kin(back, s)
    PROVE  Sound(Restored(s, back)) /\ Kin(Restored(s, back), s)
<1>1. Restored(s, back) \in Session
    BY DEF Sound, Restored, Session
<1> QED BY <1>1 DEF Sound, Restored, Session, Kin

LEMMA TurnedSound ==
    ASSUME NEW s, NEW snap \in Session, Sound(s), Kin(snap, s),
           NEW index \in Nat, index < Len(s.queue), NEW entry \in Entries
    PROVE  Sound(Turned(s, snap, index, entry)) /\ Kin(Turned(s, snap, index, entry), s)
<1> DEFINE url == Authorization(snap.id, snap.gen, snap.item + 1, entry)
<1>1. snap.id \in Ids /\ snap.gen \in Nat /\ snap.item + 1 \in Nat
    BY DEF Session
<1>2. url \in Context /\ url.id = snap.id /\ url.gen = snap.gen
    BY <1>1 DEF Authorization, Context
<1>3. Sound(Confirmed(s)) /\ Kin(Confirmed(s), s)
    BY ConfirmedSound
<1>4. Turned(s, snap, index, entry) =
        [Confirmed(s) EXCEPT !.index = index, !.item = snap.item + 1,
                             !.advancing = TRUE, !.prepared = url]
    BY DEF Turned
<1> HIDE DEF url
<1>5. Turned(s, snap, index, entry) \in Session
    BY <1>1, <1>2, <1>3, <1>4 DEF Sound, Session
<1> QED BY <1>2, <1>3, <1>4, <1>5 DEF Sound, Session, Kin

LEMMA CommandedSound ==
    ASSUME NEW s, Sound(s), NEW kind
    PROVE  Sound(Commanded(s, kind)) /\ Kin(Commanded(s, kind), s)
<1> DEFINE c == Confirmed(s)
           b == CASE kind = "pause" -> FALSE [] kind = "resume" -> TRUE
                  [] OTHER -> c.advancing
<1>1. Sound(c) /\ Kin(c, s)
    BY ConfirmedSound
<1>2. b \in BOOLEAN
    BY <1>1 DEF Sound, Session
<1>3. Commanded(s, kind) = [c EXCEPT !.advancing = b]
    BY <1>1 DEF Commanded, Sound, Session
<1> HIDE DEF b, c
<1> QED BY <1>1, <1>2, <1>3, AdvancingSound DEF Kin

-----------------------------------------------------------------------------
(* Steps that keep the invariant.  All but the insertion of a session, the *)
(* return of the one before it and the answer to a stop are Gentle: a task  *)
(* moves on with what it needs, and the session stays, ends, or is          *)
(* rewritten in place.                                                     *)

Moves(t, where, new) ==
    /\ where \in Phases /\ new \in Job
    /\ phase' = [phase EXCEPT ![t] = where]
    /\ job' = [job EXCEPT ![t] = new]
    /\ TaskShape(t, where, new)
    /\ t # Reconciler /\ where \in BeforeBirth => phase[t] \in BeforeBirth

Inherits(t, where, new) ==
    /\ where \in Inserted /\ new.kind = "play" => HasInserted(t) /\ new = job[t]
    /\ new.snap \in {None, job[t].snap, managed}
    /\ new.back \in {None, job[t].back, managed}

GuardStep(t, where) ==
    /\ Holds(t, where) => guard' = t
    /\ \/ guard' = guard
       \/ guard = None /\ guard' = t
       \/ guard = t /\ guard' = None

SessionStep ==
    \/ managed' = managed /\ ended' = ended
    \/ managed # None /\ managed' = None /\ ended' = ended \cup {managed.id}
    \/ managed # None /\ Sound(managed') /\ Kin(managed', managed) /\ ended' = ended

SilentStep(t, where, new) ==
    /\ where = "send" /\ new.kind = "stop" => managed' = None
    /\ quiet' = quiet
    /\ quiet => /\ ~device'.playing
                /\ Holds(t, where) => \/ new.kind \in {"stop", "volume"}
                                      \/ where \in {"check", "ungroup"}

RestStep ==
    /\ device' \in [uri : Maybe(Context), playing : BOOLEAN]
    /\ clock' \in Time
    /\ outage' \in Maybe(Time)

Gentle(t, where, new) ==
    /\ Moves(t, where, new)
    /\ Inherits(t, where, new)
    /\ GuardStep(t, where)
    /\ SessionStep
    /\ SilentStep(t, where, new)
    /\ RestStep

LEMMA MovesApart ==
    ASSUME SonosTypeOK, NEW t \in Tasks, NEW where, NEW new,
           phase' = [phase EXCEPT ![t] = where], job' = [job EXCEPT ![t] = new]
    PROVE  /\ phase'[t] = where /\ job'[t] = new
           /\ \A u \in Tasks \ {t} : phase'[u] = phase[u] /\ job'[u] = job[u]
BY DEF SonosTypeOK

LEMMA TaskTypes ==
    ASSUME SonosTypeOK, NEW t \in Tasks
    PROVE  /\ phase[t] \in Phases
           /\ job[t] \in Job
           /\ job[t].kind \in Maybe(AllKinds \cup {"pass"})
           /\ job[t].snap \in Maybe(Session) /\ job[t].back \in Maybe(Session)
           /\ job[t].now \in Time /\ job[t].playing \in BOOLEAN
           /\ Requests \subseteq Tasks /\ Reconciler \in Tasks /\ Reconciler \notin Requests
BY NamesAreApart DEF SonosTypeOK, Job, Tasks

\* The copies after a step whose task inherits what it keeps.
LEMMA CopiesStep ==
    ASSUME SonosTypeOK, NEW t \in Tasks, NEW new, job' = [job EXCEPT ![t] = new],
           new.snap \in {None, job[t].snap, managed},
           new.back \in {None, job[t].back, managed},
           NEW s \in Copies'
    PROVE  s \in Copies \/ s = managed'
<1>1. /\ job'[t] = new
      /\ \A u \in Tasks \ {t} : job'[u] = job[u]
    BY DEF SonosTypeOK
<1>2. s # None /\ s \in Held'
    BY DEF Copies
<1>3. ASSUME NEW u \in Tasks, s = job'[u].snap \/ s = job'[u].back
      PROVE  s \in Copies
    <2>1. CASE u = t
        BY <1>1, <1>2, <1>3, <2>1 DEF Copies, Held
    <2>2. CASE u # t
        BY <1>1, <1>2, <1>3, <2>2 DEF Copies, Held
    <2> QED BY <2>1, <2>2
<1> QED BY <1>2, <1>3 DEF Held

LEMMA HeldCopies ==
    /\ managed # None => managed \in Copies
    /\ \A t \in Tasks : /\ job[t].snap # None => job[t].snap \in Copies
                        /\ job[t].back # None => job[t].back \in Copies
BY DEF Copies, Held

LEMMA GentleTypes ==
    ASSUME IInv, NEW t \in Tasks, NEW where, NEW new, Gentle(t, where, new)
    PROVE  SonosTypeOK'
<1>1. managed' \in Maybe(Session)
    BY DEF Gentle, SessionStep, Sound, IInv, SonosTypeOK, Maybe
<1>2. guard' \in Maybe(Tasks)
    BY DEF Gentle, GuardStep, IInv, SonosTypeOK, Maybe
<1>3. phase' \in [Tasks -> Phases] /\ job' \in [Tasks -> Job]
    BY DEF Gentle, Moves, IInv, SonosTypeOK
<1>4. ended' \subseteq Ids
    BY DEF Gentle, SessionStep, IInv, SonosTypeOK, Maybe, Session
<1> QED BY <1>1, <1>2, <1>3, <1>4 DEF Gentle, SilentStep, RestStep, IInv, SonosTypeOK

LEMMA GentleShapes ==
    ASSUME IInv, NEW t \in Tasks, NEW where, NEW new, Gentle(t, where, new)
    PROVE  Shapes' /\ Guarded'
<1>1. /\ phase'[t] = where /\ job'[t] = new
      /\ \A u \in Tasks \ {t} : phase'[u] = phase[u] /\ job'[u] = job[u]
    BY MovesApart DEF Gentle, Moves, IInv
<1>2. Shapes'
    BY <1>1 DEF Shapes, IInv, Gentle, Moves
<1>3. ASSUME NEW u \in Tasks, Holds(u, phase'[u])
      PROVE  guard' = u
    <2>1. CASE u = t
        BY <1>1, <1>3, <2>1 DEF Gentle, GuardStep
    <2>2. CASE u # t
        <3>1. guard = u /\ None # u
            BY <1>1, <1>3, <2>2, NamesAreApart DEF IInv, Guarded
        <3> QED BY <3>1, <2>2 DEF Gentle, GuardStep
    <2> QED BY <2>1, <2>2
<1> QED BY <1>2, <1>3 DEF Guarded

LEMMA GentleCopies ==
    ASSUME IInv, NEW t \in Tasks, NEW where, NEW new, Gentle(t, where, new)
    PROVE  AllSound' /\ Families' /\ Unborn'
<1>1. ASSUME NEW s \in Copies'
      PROVE  Sound(s) /\ \E u \in Copies : Kin(s, u)
    <2>1. CASE s \in Copies
        BY <2>1 DEF IInv, AllSound, Kin
    <2>2. CASE s = managed'
        <3>1. s # None
            BY DEF Copies
        <3>2. managed # None /\ managed \in Copies
            BY <2>2, <3>1, HeldCopies DEF Gentle, SessionStep
        <3> QED BY <2>2, <3>1, <3>2 DEF Gentle, SessionStep, IInv, AllSound, Kin
    <2> QED BY <2>1, <2>2, CopiesStep DEF Gentle, Moves, Inherits, IInv
<1>2. AllSound'
    BY <1>1 DEF AllSound
<1>3. ASSUME NEW s \in Copies', NEW u \in Copies', s.id = u.id
      PROVE  s.gen = u.gen /\ s.queue = u.queue
    <2>1. PICK s0 \in Copies : Kin(s, s0)
        BY <1>1
    <2>2. PICK u0 \in Copies : Kin(u, u0)
        BY <1>1
    <2> QED BY <1>3, <2>1, <2>2 DEF Kin, IInv, Families
<1>4. ASSUME NEW r \in Requests, phase'[r] \in BeforeBirth
      PROVE  r \notin ended' /\ \A s \in Copies' : s.id # r
    <2>1. phase[r] \in BeforeBirth
        <3>1. r \in Tasks /\ r # Reconciler
            BY NamesAreApart DEF Tasks
        <3>2. CASE r = t
            BY <1>4, <3>1, <3>2, MovesApart DEF Gentle, Moves, IInv
        <3>3. CASE r # t
            BY <1>4, <3>1, <3>3, MovesApart DEF Gentle, Moves, IInv
        <3> QED BY <3>2, <3>3
    <2>2. r \notin ended /\ \A s \in Copies : s.id # r
        BY <2>1 DEF IInv, Unborn
    <2>3. r \notin ended'
        BY <2>2, HeldCopies DEF Gentle, SessionStep
    <2> QED BY <1>1, <2>2, <2>3 DEF Kin
<1> QED BY <1>2, <1>3, <1>4 DEF Families, Unborn

LEMMA GentleHistory ==
    ASSUME IInv, NEW t \in Tasks, NEW where, NEW new, Gentle(t, where, new)
    PROVE  Alone' /\ Silent' /\ EndedStaysEnded' /\ StopSilences'
<1>1. /\ phase'[t] = where /\ job'[t] = new
      /\ \A u \in Tasks \ {t} : phase'[u] = phase[u] /\ job'[u] = job[u]
    BY MovesApart DEF Gentle, Moves, IInv
<1>2. Requests \subseteq Tasks
    BY DEF Tasks
<1>3. ASSUME NEW r \in Requests, HasInserted(r)'
      PROVE  /\ managed' # None => managed'.id = r
             /\ job'[r].back # None =>
                    job'[r].back.id # r /\ job'[r].back.id \notin ended'
    <2>1. HasInserted(r) /\ job'[r] = job[r]
        <3>1. CASE r = t
            BY <1>1, <1>2, <1>3, <3>1 DEF HasInserted, Gentle, Inherits
        <3>2. CASE r # t
            BY <1>1, <1>2, <1>3, <3>2 DEF HasInserted
        <3> QED BY <3>1, <3>2
    <2>2. /\ managed # None => managed.id = r
          /\ job[r].back # None => job[r].back.id # r /\ job[r].back.id \notin ended
        BY <2>1 DEF IInv, Alone
    <2> QED BY <2>1, <2>2 DEF Gentle, SessionStep, Kin
<1>4. Alone'
    BY <1>3 DEF Alone, HasInserted
<1>5. managed = None => managed' = None
    BY DEF Gentle, SessionStep
<1>6. Stopping' => managed' = None
    <2> SUFFICES ASSUME NEW r \in Requests, phase'[r] = "send", job'[r].kind = "stop"
                 PROVE  managed' = None
        BY DEF Stopping
    <2>1. CASE r = t
        BY <1>1, <2>1 DEF Gentle, SilentStep
    <2>2. CASE r # t
        BY <1>1, <1>2, <1>5, <2>2 DEF IInv, Silent, Stopping
    <2> QED BY <2>1, <2>2
<1>7. ASSUME quiet'
      PROVE  /\ managed' = None
             /\ \A u \in Tasks : Holds(u, phase'[u]) => Harmless(u)'
    <2>1. quiet
        BY <1>7 DEF Gentle, SilentStep
    <2>2. managed' = None
        BY <1>5, <2>1 DEF IInv, Silent
    <2>3. ASSUME NEW u \in Tasks, Holds(u, phase'[u])
          PROVE  Harmless(u)'
        <3>1. CASE u = t
            BY <1>1, <2>1, <2>3, <3>1 DEF Gentle, SilentStep, Harmless
        <3>2. CASE u # t
            BY <1>1, <2>1, <2>3, <3>2 DEF IInv, Silent, Harmless
        <3> QED BY <3>1, <3>2
    <2> QED BY <2>2, <2>3
<1>8. Silent'
    BY <1>6, <1>7 DEF Silent
<1>9. EndedStaysEnded'
    BY DEF EndedStaysEnded, Gentle, SessionStep, Kin, IInv
<1>10. StopSilences'
    BY DEF StopSilences, Gentle, SilentStep
<1> QED BY <1>4, <1>8, <1>9, <1>10

LEMMA GentleKeeps ==
    ASSUME IInv, NEW t \in Tasks, NEW where, NEW new, Gentle(t, where, new)
    PROVE  IInv'
BY GentleTypes, GentleShapes, GentleCopies, GentleHistory DEF IInv

-----------------------------------------------------------------------------
(* What the actions are made of.                                           *)

LEMMA NoJobType == NoJob \in Job /\ NoJob.snap = None /\ NoJob.back = None
BY BoundsAreNatural DEF NoJob, Job, Maybe, Time

LEMMA RestUnchanged ==
    ASSUME SonosTypeOK, UNCHANGED <<device, clock, outage>>
    PROVE  RestStep
BY DEF SonosTypeOK, RestStep

\* The speaker gets a new URI and is stopped by it.
LEMMA SetURIStep ==
    ASSUME SonosTypeOK, NEW out, NEW url \in Context, SetURI(out, url)
    PROVE  /\ device' \in [uri : Maybe(Context), playing : BOOLEAN]
           /\ ~device.playing => ~device'.playing
BY DEF SonosTypeOK, SetURI, Maybe

LEMMA PlayingStep ==
    ASSUME SonosTypeOK, NEW out, NEW plays \in BOOLEAN, Playing(out, plays)
    PROVE  /\ device' \in [uri : Maybe(Context), playing : BOOLEAN]
           /\ ~plays /\ ~device.playing => ~device'.playing
           /\ ~plays /\ out.applied => ~device'.playing
BY DEF SonosTypeOK, Playing

LEMMA ExpireStep ==
    ASSUME SonosTypeOK, NEW now, ExpireTarget(now)
    PROVE  SessionStep /\ outage' \in Maybe(Time)
BY DEF SonosTypeOK, ExpireTarget, Overdue, Unmanage, SessionStep, Maybe

\* A holder of the guard that may play rules out that a stop was the last.
LEMMA NotQuiet ==
    ASSUME IInv, NEW t \in Tasks, Holds(t, phase[t]), ~Harmless(t)
    PROVE  ~quiet
BY DEF IInv, Silent

LEMMA LeaveKeeps ==
    ASSUME IInv, NEW t \in Tasks, Leave(t), SessionStep, RestStep,
           quiet' = quiet, quiet => ~device'.playing
    PROVE  IInv'
<1> DEFINE where == Rest(t)
<1>1. where \in {"idle", "done"} /\ (t # Reconciler => where = "done")
    BY DEF Rest
<1>2. Moves(t, where, NoJob)
    BY <1>1, NoJobType DEF Moves, Leave, Goto, Phases, TaskShape, BeforeBirth
<1>3. Inherits(t, where, NoJob)
    BY <1>1, NoJobType DEF Inherits, Inserted, AsksSpeaker
<1>4. ~Holds(t, where)
    BY <1>1 DEF Holds, AsksSpeaker
<1>5. GuardStep(t, where)
    BY <1>4 DEF GuardStep, Leave
<1>6. SilentStep(t, where, NoJob)
    BY <1>1, <1>4 DEF SilentStep
<1> QED BY <1>2, <1>3, <1>5, <1>6, GentleKeeps DEF Gentle

\* The task goes on with what it has.
LEMMA StaysKeeps ==
    ASSUME IInv, NEW t \in Tasks, NEW where \in Phases,
           Goto(t, where), UNCHANGED job, TaskShape(t, where, job[t]),
           t # Reconciler /\ where \in BeforeBirth => phase[t] \in BeforeBirth,
           where \in Inserted /\ job[t].kind = "play" => HasInserted(t),
           GuardStep(t, where), SessionStep, SilentStep(t, where, job[t]), RestStep
    PROVE  IInv'
<1>1. job' = [job EXCEPT ![t] = job[t]] /\ job[t] \in Job
    BY DEF IInv, SonosTypeOK
<1>2. Moves(t, where, job[t])
    BY <1>1 DEF Moves, Goto
<1>3. Inherits(t, where, job[t])
    BY DEF Inherits
<1> QED BY <1>2, <1>3, GentleKeeps DEF Gentle

\* A failed handoff ends a request and is a miss of the reconciler.
LEMMA FailKeeps ==
    ASSUME IInv, NEW t \in Tasks, Fail(t), SessionStep, RestStep,
           quiet' = quiet, quiet => ~device'.playing,
           t = Reconciler => phase[t] \notin {"idle", "done"}
    PROVE  IInv'
<1>1. CASE t # Reconciler
    BY <1>1, LeaveKeeps DEF Fail
<1>2. CASE t = Reconciler
    <2>1. Goto(t, "miss") /\ UNCHANGED job /\ guard' = IF guard = t THEN None ELSE guard
        BY <1>2 DEF Fail
    <2>2. TaskShape(t, phase[t], job[t]) /\ job[t].kind = "pass"
        BY <1>2 DEF IInv, Shapes, TaskShape
    <2>3. TaskShape(t, "miss", job[t])
        BY <1>2, <2>2 DEF TaskShape, PassShape, HandoffShape, AsksSpeaker, AllKinds,
                          Commands, Skips
    <2>4. "miss" \in Phases /\ "miss" \notin BeforeBirth /\ "miss" \notin Inserted
        BY DEF Phases, BeforeBirth, Inserted, AsksSpeaker
    <2>5. ~Holds(t, "miss")
        BY DEF Holds, AsksSpeaker
    <2>6. GuardStep(t, "miss") /\ SilentStep(t, "miss", job[t])
        BY <2>1, <2>5 DEF GuardStep, SilentStep
    <2> QED BY <2>1, <2>3, <2>4, <2>6, StaysKeeps
<1> QED BY <1>1, <1>2

-----------------------------------------------------------------------------
(* Arrivals and looks.                                                     *)

LEMMA ArriveKeeps ==
    ASSUME IInv, NEW r \in Requests, NEW kind \in AllKinds \ {"stop", "volume"},
           NEW queue \in Maybe(Queues), NEW index \in Maybe(Nat),
           kind = "play" => queue \in Queues /\ index \in Nat /\ index < Len(queue),
           Arrive(r, kind, queue, index)
    PROVE  IInv'
<1> DEFINE new == [NoJob EXCEPT !.kind = kind, !.queue = queue, !.index = index]
<1>1. r \in Tasks /\ r # Reconciler /\ SonosTypeOK
    BY NamesAreApart DEF Tasks, IInv
<1>2. new \in Job /\ new.kind = kind /\ new.queue = queue /\ new.index = index
      /\ new.snap = None /\ new.back = None
    BY NoJobType DEF Job, Maybe, NoJob
<1>3. phase' = [phase EXCEPT ![r] = "look"] /\ job' = [job EXCEPT ![r] = new]
    BY DEF Arrive, Goto
<1> HIDE DEF new
<1>4. TaskShape(r, "look", new)
    BY <1>1, <1>2 DEF TaskShape, PlayShape, CommandShape, SkipShape, HandoffShape,
                      Inserted, AsksSpeaker, AllKinds, Commands, Skips
<1>5. Moves(r, "look", new)
    BY <1>2, <1>3, <1>4 DEF Moves, Phases, Arrive, BeforeBirth
<1>6. Inherits(r, "look", new)
    BY <1>2 DEF Inherits, Inserted, AsksSpeaker
<1>7. SessionStep /\ outage' \in Maybe(Time)
    BY <1>1, ExpireStep DEF Arrive
<1>8. RestStep
    BY <1>1, <1>7 DEF RestStep, Arrive, SonosTypeOK
<1>9. GuardStep(r, "look")
    BY <1>1 DEF GuardStep, Arrive, Holds, AsksSpeaker
<1>10. SilentStep(r, "look", new)
    BY <1>1 DEF SilentStep, Arrive, Holds, AsksSpeaker, IInv, StopSilences
<1> QED BY <1>1, <1>5, <1>6, <1>7, <1>8, <1>9, <1>10, GentleKeeps DEF Gentle

LEMMA ArriveAtGuardKeeps ==
    ASSUME IInv, NEW r \in Requests, NEW kind \in {"stop", "volume"},
           ArriveAtGuard(r, kind)
    PROVE  IInv'
<1> DEFINE new == [NoJob EXCEPT !.kind = kind]
<1>1. r \in Tasks /\ r # Reconciler /\ SonosTypeOK
    BY NamesAreApart DEF Tasks, IInv
<1>2. new \in Job /\ new.kind = kind /\ new.snap = None /\ new.back = None
    BY NoJobType DEF Job, Maybe, NoJob, AllKinds
<1>3. phase' = [phase EXCEPT ![r] = "wait"] /\ job' = [job EXCEPT ![r] = new]
    BY DEF ArriveAtGuard, Goto
<1> HIDE DEF new
<1>4. TaskShape(r, "wait", new)
    BY <1>1, <1>2 DEF TaskShape, AllKinds, Commands, Skips
<1>5. Moves(r, "wait", new)
    BY <1>2, <1>3, <1>4 DEF Moves, Phases, ArriveAtGuard, BeforeBirth
<1>6. Inherits(r, "wait", new)
    BY <1>2 DEF Inherits, Inserted, AsksSpeaker
<1>7. SessionStep /\ RestStep
    BY <1>1, RestUnchanged DEF SessionStep, ArriveAtGuard, history
<1>8. GuardStep(r, "wait")
    BY <1>1 DEF GuardStep, ArriveAtGuard, Holds, AsksSpeaker
<1>9. SilentStep(r, "wait", new)
    BY <1>1 DEF SilentStep, ArriveAtGuard, history, Holds, AsksSpeaker, IInv, StopSilences
<1> QED BY <1>1, <1>5, <1>6, <1>7, <1>8, <1>9, GentleKeeps DEF Gentle

\* A leave that touches nothing else.
LEMMA OnlyLeaves ==
    ASSUME IInv, NEW t \in Tasks, Leave(t), UNCHANGED <<managed, device, clock, history>>
    PROVE  IInv'
<1>1. SessionStep /\ RestStep
    BY RestUnchanged DEF SessionStep, history, IInv
<1> QED BY <1>1, LeaveKeeps DEF history, IInv, StopSilences

\* A step to where, with what is kept changed and nothing else.
LEMMA OnlyKeeps ==
    ASSUME IInv, NEW t \in Tasks, NEW where \in Phases, NEW new \in Job,
           Goto(t, where), job' = [job EXCEPT ![t] = new], TaskShape(t, where, new),
           t # Reconciler /\ where \in BeforeBirth => phase[t] \in BeforeBirth,
           where \notin Inserted, ~Holds(t, where),
           new.snap \in {None, job[t].snap, managed},
           new.back \in {None, job[t].back, managed},
           UNCHANGED <<managed, guard, device, clock, history>>
    PROVE  IInv'
<1>1. SessionStep /\ RestStep
    BY RestUnchanged DEF SessionStep, history, IInv
<1>2. Moves(t, where, new) /\ Inherits(t, where, new)
    BY DEF Moves, Goto, Inherits
<1>3. where # "send" \/ t = Reconciler
    BY DEF Holds
<1>4. ~(where = "send" /\ new.kind = "stop")
    BY <1>3 DEF TaskShape
<1>5. GuardStep(t, where) /\ SilentStep(t, where, new)
    BY <1>3, <1>4 DEF GuardStep, SilentStep, history, IInv, StopSilences
<1> QED BY <1>1, <1>2, <1>5, GentleKeeps DEF Gentle

LEMMA PlayLooksKeeps ==
    ASSUME IInv, NEW r \in Requests, PlayLooks(r)
    PROVE  IInv'
<1>1. r \in Tasks /\ r # Reconciler /\ SonosTypeOK /\ job[r] \in Job
    BY TaskTypes, NamesAreApart DEF Tasks, IInv
<1>2. UNCHANGED <<managed, device, clock, history>>
    BY DEF PlayLooks
<1>3. ASSUME Leave(r)
      PROVE  IInv'
    BY <1>1, <1>2, <1>3, OnlyLeaves
<1>4. ASSUME Goto(r, "wait"), UNCHANGED guard,
             job' = [job EXCEPT ![r].gen = IF managed = None THEN 1 ELSE managed.gen + 1]
      PROVE  IInv'
    <2> DEFINE gen == IF managed = None THEN 1 ELSE managed.gen + 1
               new == [job[r] EXCEPT !.gen = gen]
    <2>1. gen \in Nat
        BY <1>1 DEF SonosTypeOK, Maybe, Session
    <2>2. new \in Job /\ new.kind = job[r].kind /\ new.queue = job[r].queue
          /\ new.index = job[r].index /\ new.snap = job[r].snap /\ new.back = job[r].back
          /\ new.url = job[r].url
        BY <1>1, <2>1 DEF Job
    <2>3. job' = [job EXCEPT ![r] = new]
        BY <1>4
    <2>4. phase[r] = "look" /\ job[r].kind = "play" /\ TaskShape(r, "look", job[r])
        BY <1>1 DEF PlayLooks, Looks, IInv, Shapes
    <2> HIDE DEF new
    <2>5. TaskShape(r, "wait", new)
        BY <1>1, <2>2, <2>4 DEF TaskShape, PlayShape, Inserted, AsksSpeaker, Commands, Skips
    <2>6. "wait" \in Phases /\ "wait" \notin Inserted /\ ~Holds(r, "wait")
        BY DEF Phases, Inserted, AsksSpeaker, Holds
    <2> QED BY <1>1, <1>2, <1>4, <2>2, <2>3, <2>4, <2>5, <2>6, OnlyKeeps DEF BeforeBirth
<1> QED BY <1>3, <1>4 DEF PlayLooks

LEMMA CommandLooksKeeps ==
    ASSUME IInv, NEW r \in Requests, CommandLooks(r)
    PROVE  IInv'
<1>1. r \in Tasks /\ r # Reconciler /\ SonosTypeOK /\ job[r] \in Job
    BY TaskTypes, NamesAreApart DEF Tasks, IInv
<1>2. UNCHANGED <<managed, device, clock, history>>
    BY DEF CommandLooks
<1>3. CASE managed = None \/ IsReconnecting
    BY <1>1, <1>2, <1>3, OnlyLeaves DEF CommandLooks
<1>4. CASE ~(managed = None \/ IsReconnecting)
    <2> DEFINE new == [job[r] EXCEPT !.snap = managed]
    <2>1. managed \in Session
        BY <1>1, <1>4 DEF SonosTypeOK, Maybe
    <2>2. new \in Job /\ new.kind = job[r].kind /\ new.snap = managed
          /\ new.back = job[r].back
        BY <1>1, <2>1 DEF Job, Maybe
    <2>3. Goto(r, "wait") /\ UNCHANGED guard /\ job' = [job EXCEPT ![r] = new]
        BY <1>4 DEF CommandLooks
    <2>4. phase[r] = "look" /\ job[r].kind \in Commands /\ TaskShape(r, "look", job[r])
        BY <1>1 DEF CommandLooks, Looks, IInv, Shapes
    <2> HIDE DEF new
    <2>5. TaskShape(r, "wait", new)
        BY <1>1, <2>1, <2>2, <2>4 DEF TaskShape, CommandShape, Commands, Skips, AllKinds
    <2>6. "wait" \in Phases /\ "wait" \notin Inserted /\ ~Holds(r, "wait")
        BY DEF Phases, Inserted, AsksSpeaker, Holds
    <2> QED BY <1>1, <1>2, <2>2, <2>3, <2>4, <2>5, <2>6, OnlyKeeps DEF BeforeBirth
<1> QED BY <1>3, <1>4

LEMMA SkipLooksKeeps ==
    ASSUME IInv, NEW r \in Requests, SkipLooks(r)
    PROVE  IInv'
<1> DEFINE d == Destination(managed, job[r].kind)
           away == managed = None \/ IsReconnecting \/ d \notin 0 .. Len(managed.queue) - 1
<1>1. r \in Tasks /\ r # Reconciler /\ SonosTypeOK /\ job[r] \in Job
    BY TaskTypes, NamesAreApart DEF Tasks, IInv
<1>2. UNCHANGED <<managed, device, clock, history>>
    BY DEF SkipLooks
<1>3. CASE away
    <2>1. Leave(r)
        BY <1>3 DEF SkipLooks
    <2> QED BY <1>1, <1>2, <2>1, OnlyLeaves
<1>4. CASE ~away
    <2> DEFINE new == [job[r] EXCEPT !.snap = managed, !.index = d]
    <2>1. managed \in Session
        BY <1>1, <1>4 DEF SonosTypeOK, Maybe
    <2>2. managed.queue \in Seq(Entries)
        BY <2>1, QueuesAreNotEmpty DEF Session
    <2>3. d \in Nat /\ d < Len(managed.queue)
        BY <1>4, <2>2
    <2>4. new \in Job /\ new.kind = job[r].kind /\ new.snap = managed /\ new.index = d
          /\ new.back = job[r].back
        BY <1>1, <2>1, <2>3 DEF Job, Maybe
    <2>5. Goto(r, "turn") /\ UNCHANGED guard /\ job' = [job EXCEPT ![r] = new]
        BY <1>4 DEF SkipLooks
    <2>6. phase[r] = "look" /\ job[r].kind \in Skips /\ TaskShape(r, "look", job[r])
        BY <1>1 DEF SkipLooks, Looks, IInv, Shapes
    <2> HIDE DEF new, d
    <2>7. TaskShape(r, "turn", new)
        BY <1>1, <2>1, <2>3, <2>4, <2>6
           DEF TaskShape, SkipShape, HandoffShape, AsksSpeaker, Commands, Skips, AllKinds
    <2>8. "turn" \in Phases /\ "turn" \notin Inserted /\ ~Holds(r, "turn")
        BY DEF Phases, Inserted, AsksSpeaker, Holds
    <2> QED BY <1>1, <1>2, <2>4, <2>5, <2>6, <2>7, <2>8, OnlyKeeps DEF BeforeBirth
<1> QED BY <1>3, <1>4

-----------------------------------------------------------------------------
(* A start.                                                                *)

LEMMA OneHolder ==
    ASSUME IInv, NEW t \in Tasks, NEW u \in Tasks,
           Holds(t, phase[t]), Holds(u, phase[u])
    PROVE  t = u /\ guard = t
BY DEF IInv, Guarded

LEMMA PlayLocksKeeps ==
    ASSUME IInv, NEW r \in Requests, PlayLocks(r)
    PROVE  IInv'
<1>1. r \in Tasks /\ r # Reconciler /\ SonosTypeOK
    BY NamesAreApart DEF Tasks, IInv
<1>2. phase[r] = "wait" /\ job[r].kind = "play" /\ guard = None
    BY DEF PlayLocks, Locks
<1>3. TaskShape(r, "check", job[r])
    BY <1>1, <1>2 DEF IInv, Shapes, TaskShape, PlayShape, Inserted, AsksSpeaker,
                      Commands, Skips
<1>4. SessionStep /\ outage' \in Maybe(Time)
    BY <1>1, ExpireStep DEF PlayLocks
<1>5. RestStep
    BY <1>1, <1>4 DEF RestStep, PlayLocks, SonosTypeOK
<1>6. GuardStep(r, "check")
    BY <1>2 DEF GuardStep, PlayLocks
<1>7. SilentStep(r, "check", job[r])
    BY <1>2 DEF SilentStep, PlayLocks, IInv, StopSilences
<1>8. "check" \in Phases /\ "check" \notin Inserted /\ phase[r] \in BeforeBirth
    BY <1>2 DEF Phases, Inserted, AsksSpeaker, BeforeBirth
<1> QED BY <1>1, <1>3, <1>4, <1>5, <1>6, <1>7, <1>8, StaysKeeps DEF PlayLocks

LEMMA PlayChecksKeeps ==
    ASSUME IInv, NEW r \in Requests, PlayChecks(r)
    PROVE  IInv'
<1>1. r \in Tasks /\ r # Reconciler /\ SonosTypeOK /\ phase[r] = "check"
    BY NamesAreApart DEF Tasks, IInv, PlayChecks
<1>2. UNCHANGED <<managed, device, clock, history>>
    BY DEF PlayChecks
<1>3. CASE IsReconnecting
    BY <1>1, <1>2, <1>3, OnlyLeaves DEF PlayChecks
<1>4. CASE ~IsReconnecting
    <2>1. Goto(r, "ungroup") /\ UNCHANGED <<job, guard>>
        BY <1>4 DEF PlayChecks
    <2>2. TaskShape(r, "ungroup", job[r]) /\ job[r].kind = "play"
        BY <1>1 DEF IInv, Shapes, TaskShape, PlayShape, CommandShape, SkipShape,
                    Inserted, AsksSpeaker, Commands, Skips, AllKinds
    <2>3. guard = r
        BY <1>1 DEF IInv, Guarded, Holds
    <2>4. SessionStep /\ RestStep /\ GuardStep(r, "ungroup")
        BY <1>1, <1>2, <2>1, <2>3, RestUnchanged DEF SessionStep, history, GuardStep
    <2>5. SilentStep(r, "ungroup", job[r])
        BY <1>2 DEF SilentStep, history, IInv, StopSilences
    <2>6. "ungroup" \in Phases /\ "ungroup" \notin Inserted /\ phase[r] \in BeforeBirth
        BY <1>1 DEF Phases, Inserted, AsksSpeaker, BeforeBirth
    <2> QED BY <1>1, <2>1, <2>2, <2>4, <2>5, <2>6, StaysKeeps
<1> QED BY <1>3, <1>4

LEMMA PlayRefusedKeeps ==
    ASSUME IInv, NEW r \in Requests, PlayRefused(r)
    PROVE  IInv'
BY OnlyLeaves DEF PlayRefused, Tasks

\* The session is born: nobody knew it, and the holder of the guard is alone.
LEMMA PlayInsertsKeeps ==
    ASSUME IInv, NEW r \in Requests, PlayInserts(r)
    PROVE  IInv'
<1> DEFINE s0 == NewSession(r, job[r].gen, job[r].queue, job[r].index)
           new == [job[r] EXCEPT !.back = managed, !.url = s0.prepared]
<1>1. r \in Tasks /\ r # Reconciler /\ SonosTypeOK /\ job[r] \in Job /\ r \in Ids
      /\ phase[r] = "ungroup"
    BY TaskTypes, NamesAreApart DEF Tasks, IInv, PlayInserts, Ids
<1>2. TaskShape(r, "ungroup", job[r])
    BY <1>1 DEF IInv, Shapes
<1>3. job[r].kind = "play" /\ PlayShape("ungroup", job[r])
    BY <1>1, <1>2 DEF TaskShape, CommandShape, SkipShape, Commands, Skips, AllKinds
<1>4. Sound(s0) /\ s0.id = r /\ s0.prepared \in Context
    <2>1. job[r].gen \in Nat
        BY <1>1 DEF Job
    <2> QED BY <1>1, <1>3, <2>1, NewSessionSound DEF PlayShape
<1>5. new \in Job /\ new.kind = "play" /\ new.snap = None /\ new.back = managed
      /\ new.url = s0.prepared /\ new.queue = job[r].queue /\ new.index = job[r].index
    BY <1>1, <1>3, <1>4 DEF Job, Maybe, SonosTypeOK, PlayShape
<1>6. /\ managed' = s0
      /\ phase' = [phase EXCEPT ![r] = "load"]
      /\ job' = [job EXCEPT ![r] = new]
      /\ quiet' = FALSE /\ outage' = None
      /\ UNCHANGED <<guard, device, clock, ended>>
    BY DEF PlayInserts, Goto
<1> HIDE DEF s0, new
<1>7. /\ phase'[r] = "load" /\ job'[r] = new
      /\ \A u \in Tasks \ {r} : phase'[u] = phase[u] /\ job'[u] = job[u]
    BY <1>1, <1>6, MovesApart
<1>8. ASSUME NEW u \in Tasks \ {r}
      PROVE  ~Holds(u, phase[u])
    BY <1>1, <1>8, OneHolder DEF Holds
<1>9. r \notin ended /\ \A s \in Copies : s.id # r
    BY <1>1 DEF IInv, Unborn, BeforeBirth
<1>10. ASSUME NEW s \in Copies'
       PROVE  s \in Copies \/ s = s0
    BY <1>1, <1>3, <1>5, <1>6, CopiesStep
<1>11. SonosTypeOK'
    <2>1. phase' \in [Tasks -> Phases] /\ job' \in [Tasks -> Job]
        BY <1>1, <1>5, <1>6 DEF SonosTypeOK, Phases
    <2> QED BY <1>1, <1>4, <1>6, <2>1 DEF SonosTypeOK, Sound, Maybe
<1>12. Shapes'
    <2>1. TaskShape(r, "load", new)
        BY <1>1, <1>3, <1>4, <1>5 DEF TaskShape, PlayShape, Inserted, AsksSpeaker,
                                      AllKinds, Commands, Skips
    <2> QED BY <1>7, <2>1 DEF Shapes, IInv
<1>13. Guarded'
    <2>1. guard' = r
        BY <1>1, <1>6 DEF IInv, Guarded, Holds
    <2> QED BY <1>7, <1>8, <2>1 DEF Guarded
<1>14. AllSound'
    BY <1>4, <1>10 DEF IInv, AllSound
<1>15. Families'
    BY <1>4, <1>9, <1>10 DEF IInv, Families
<1>16. Unborn'
    <2> SUFFICES ASSUME NEW q \in Requests, phase'[q] \in BeforeBirth
                 PROVE  q \notin ended' /\ \A s \in Copies' : s.id # q
        BY DEF Unborn
    <2>1. q # r /\ q \in Tasks
        BY <1>7 DEF BeforeBirth, Tasks
    <2>2. phase[q] \in BeforeBirth
        BY <1>7, <2>1
    <2> QED BY <1>4, <1>6, <1>10, <2>1, <2>2 DEF IInv, Unborn
<1>17. Alone'
    <2> SUFFICES ASSUME NEW q \in Requests, HasInserted(q)'
                 PROVE  /\ managed' # None => managed'.id = q
                        /\ job'[q].back # None =>
                               job'[q].back.id # q /\ job'[q].back.id \notin ended'
        BY DEF Alone, HasInserted
    <2>1. q = r
        <3>1. SUFFICES ASSUME q # r PROVE FALSE
            OBVIOUS
        <3>2. q \in Tasks \ {r} /\ q # Reconciler
            BY <3>1, NamesAreApart DEF Tasks
        <3> QED BY <1>7, <1>8, <3>2 DEF HasInserted, Inserted, Holds
    <2> QED BY <1>4, <1>5, <1>6, <1>7, <1>9, <2>1, HeldCopies DEF IInv, EndedStaysEnded
<1>18. Silent'
    <2>1. ~Stopping'
        <3> SUFFICES ASSUME NEW q \in Requests, phase'[q] = "send"
                     PROVE  FALSE
            BY DEF Stopping
        <3>1. q \in Tasks \ {r} /\ q # Reconciler
            BY <1>7, NamesAreApart DEF Tasks
        <3> QED BY <1>7, <1>8, <3>1 DEF Holds
    <2> QED BY <1>6, <2>1 DEF Silent
<1>19. EndedStaysEnded' /\ StopSilences'
    BY <1>4, <1>6, <1>9 DEF EndedStaysEnded, StopSilences
<1> QED BY <1>11, <1>12, <1>13, <1>14, <1>15, <1>16, <1>17, <1>18, <1>19 DEF IInv

\* The session that was there before is put back: it has not ended, and nobody
\* else was at work on the speaker.
LEMMA PutBackKeeps ==
    ASSUME IInv, NEW r \in Requests, HasInserted(r), PutBack(r), Leave(r),
           device' \in [uri : Maybe(Context), playing : BOOLEAN],
           UNCHANGED <<clock, ended, quiet>>
    PROVE  IInv'
<1>1. r \in Tasks /\ r # Reconciler /\ SonosTypeOK /\ job[r] \in Job
    BY TaskTypes, NamesAreApart DEF Tasks, IInv
<1>2. Holds(r, phase[r]) /\ ~Harmless(r)
    BY <1>1 DEF HasInserted, Holds, Harmless, Inserted, AsksSpeaker
<1>3. ~quiet /\ guard = r
    BY <1>1, <1>2, NotQuiet, OneHolder
<1>4. /\ managed' = job[r].back /\ outage' = None /\ guard' = None
      /\ phase' = [phase EXCEPT ![r] = "done"]
      /\ job' = [job EXCEPT ![r] = NoJob]
    BY <1>1, <1>3 DEF PutBack, Leave, Rest, Goto
<1>5. /\ phase'[r] = "done" /\ job'[r] = NoJob
      /\ \A u \in Tasks \ {r} : phase'[u] = phase[u] /\ job'[u] = job[u]
    BY <1>1, <1>4, MovesApart
<1>6. ASSUME NEW u \in Tasks
      PROVE  ~Holds(u, phase'[u])
    <2>1. CASE u = r
        BY <1>5, <2>1 DEF Holds, AsksSpeaker
    <2>2. CASE u # r
        BY <1>1, <1>2, <1>5, <2>2, OneHolder
    <2> QED BY <2>1, <2>2
<1>7. ASSUME NEW s \in Copies'
      PROVE  s \in Copies
    <2>1. s \in Copies \/ s = managed'
        BY <1>1, <1>4, NoJobType, CopiesStep
    <2> QED BY <1>1, <1>4, <2>1, HeldCopies DEF Copies
<1>8. SonosTypeOK'
    <2>1. phase' \in [Tasks -> Phases] /\ job' \in [Tasks -> Job]
        BY <1>1, <1>4, NoJobType DEF SonosTypeOK, Phases
    <2> QED BY <1>1, <1>4, <2>1 DEF SonosTypeOK, Maybe, Job
<1>9. Shapes' /\ Guarded'
    BY <1>5, <1>6 DEF Shapes, Guarded, TaskShape, IInv
<1>10. AllSound' /\ Families'
    BY <1>7 DEF AllSound, Families, IInv
<1>11. Unborn'
    <2> SUFFICES ASSUME NEW q \in Requests, phase'[q] \in BeforeBirth
                 PROVE  q \notin ended' /\ \A s \in Copies' : s.id # q
        BY DEF Unborn
    <2>1. q # r /\ q \in Tasks
        BY <1>5 DEF BeforeBirth, Tasks
    <2>2. phase[q] \in BeforeBirth
        BY <1>5, <2>1
    <2> QED BY <1>7, <2>2 DEF IInv, Unborn
<1>12. Alone' /\ Silent'
    <2>1. ASSUME NEW q \in Requests
          PROVE  phase'[q] \notin Inserted \cup {"send"}
        <3>1. q \in Tasks /\ q # Reconciler
            BY NamesAreApart DEF Tasks
        <3> QED BY <1>6, <3>1 DEF Inserted, Holds
    <2> QED BY <1>3, <2>1 DEF Alone, HasInserted, Silent, Stopping
<1>13. EndedStaysEnded' /\ StopSilences'
    BY <1>3, <1>4 DEF EndedStaysEnded, StopSilences, IInv, Alone
<1> QED BY <1>8, <1>9, <1>10, <1>11, <1>12, <1>13 DEF IInv

\* A holder of the guard that goes on under it, the session unchanged.
LEMMA GoesOnKeeps ==
    ASSUME IInv, NEW r \in Tasks, NEW where \in Phases \ BeforeBirth,
           Goto(r, where), UNCHANGED <<managed, guard, job, clock, history>>,
           Holds(r, phase[r]), ~Harmless(r), TaskShape(r, where, job[r]),
           job[r].kind # "stop",
           where \in Inserted /\ job[r].kind = "play" => HasInserted(r),
           device' \in [uri : Maybe(Context), playing : BOOLEAN]
    PROVE  IInv'
<1>1. ~quiet /\ guard = r
    BY NotQuiet, OneHolder
<1>2. SessionStep /\ RestStep /\ GuardStep(r, where) /\ SilentStep(r, where, job[r])
    BY <1>1 DEF SessionStep, RestStep, GuardStep, SilentStep, history, IInv, SonosTypeOK
<1> QED BY <1>2, StaysKeeps

LEMMA InsertedShape ==
    ASSUME IInv, NEW r \in Requests, phase[r] \in Inserted, job[r].kind = "play"
    PROVE  /\ r \in Tasks /\ r # Reconciler /\ SonosTypeOK
           /\ HasInserted(r) /\ Holds(r, phase[r]) /\ ~Harmless(r)
           /\ job[r].url \in Context
           /\ \A where \in Inserted : TaskShape(r, where, job[r])
<1>1. r \in Tasks /\ r # Reconciler /\ SonosTypeOK
    BY NamesAreApart DEF Tasks, IInv
<1>2. phase[r] \notin {"idle", "done"} /\ TaskShape(r, phase[r], job[r])
    BY <1>1 DEF Inserted, AsksSpeaker, IInv, Shapes
<1>3. PlayShape(phase[r], job[r])
    BY <1>2 DEF TaskShape
<1>4. HasInserted(r) /\ Holds(r, phase[r]) /\ ~Harmless(r)
    BY <1>1 DEF HasInserted, Holds, Harmless, Inserted, AsksSpeaker
<1>5. ASSUME NEW where \in Inserted
      PROVE  TaskShape(r, where, job[r])
    BY <1>1, <1>3 DEF TaskShape, PlayShape, Inserted, AsksSpeaker, AllKinds, Commands, Skips
<1> QED BY <1>1, <1>3, <1>4, <1>5 DEF PlayShape

LEMMA PlayPhases ==
    ASSUME IInv, NEW r \in Requests, phase[r] \in {"seek", "undo"}
    PROVE  job[r].kind = "play"
<1>1. r \in Tasks /\ r # Reconciler
    BY NamesAreApart DEF Tasks
<1> QED BY <1>1 DEF IInv, Shapes, TaskShape, CommandShape, SkipShape, AllKinds, Commands, Skips

LEMMA PlayLoadsKeeps ==
    ASSUME IInv, NEW r \in Requests, NEW out \in Outcomes, PlayLoads(r, out)
    PROVE  IInv'
<1>1. phase[r] = "load" /\ job[r].kind = "play" /\ phase[r] \in Inserted
    BY DEF PlayLoads, Inserted, AsksSpeaker
<1>2. device' \in [uri : Maybe(Context), playing : BOOLEAN]
    BY <1>1, InsertedShape, SetURIStep DEF PlayLoads
<1>3. CASE out.answered
    <2>1. Goto(r, "start") /\ UNCHANGED <<managed, guard, job, clock, history>>
        BY <1>3 DEF PlayLoads, history
    <2>2. "start" \in Phases \ BeforeBirth /\ "start" \in Inserted
        BY DEF Phases, BeforeBirth, Inserted, AsksSpeaker
    <2> QED BY <1>1, <1>2, <2>1, <2>2, InsertedShape, GoesOnKeeps
<1>4. CASE ~out.answered
    BY <1>1, <1>2, <1>4, InsertedShape, PutBackKeeps DEF PlayLoads
<1> QED BY <1>3, <1>4

LEMMA PlayStartsKeeps ==
    ASSUME IInv, NEW r \in Requests, NEW out \in Outcomes, PlayStarts(r, out)
    PROVE  IInv'
<1>1. phase[r] = "start" /\ job[r].kind = "play" /\ phase[r] \in Inserted
    BY DEF PlayStarts, Inserted, AsksSpeaker
<1>2. device' \in [uri : Maybe(Context), playing : BOOLEAN]
    BY PlayingStep DEF PlayStarts, IInv
<1>3. PICK where \in {"seek", "finish", "undo"} : Goto(r, where)
    BY DEF PlayStarts
<1>4. UNCHANGED <<managed, guard, job, clock, history>>
    BY DEF PlayStarts
<1>5. where \in Phases \ BeforeBirth /\ where \in Inserted
    BY DEF Phases, BeforeBirth, Inserted, AsksSpeaker
<1> QED BY <1>1, <1>2, <1>3, <1>4, <1>5, InsertedShape, GoesOnKeeps

LEMMA PlaySeeksKeeps ==
    ASSUME IInv, NEW r \in Requests, NEW out \in Outcomes, PlaySeeks(r, out)
    PROVE  IInv'
<1>1. phase[r] = "seek" /\ job[r].kind = "play" /\ phase[r] \in Inserted
    BY DEF PlaySeeks, Inserted, AsksSpeaker
<1>2. PICK where \in {"finish", "undo"} : Goto(r, where)
    BY DEF PlaySeeks
<1>3. UNCHANGED <<managed, guard, job, clock, history>> /\ UNCHANGED device
    BY DEF PlaySeeks
<1>4. where \in Phases \ BeforeBirth /\ where \in Inserted
    BY DEF Phases, BeforeBirth, Inserted, AsksSpeaker
<1>5. device' \in [uri : Maybe(Context), playing : BOOLEAN]
    BY <1>3 DEF IInv, SonosTypeOK
<1> QED BY <1>1, <1>2, <1>3, <1>4, <1>5, InsertedShape, GoesOnKeeps

LEMMA PlayUndoesKeeps ==
    ASSUME IInv, NEW r \in Requests, NEW out \in Outcomes, PlayUndoes(r, out)
    PROVE  IInv'
<1>1. phase[r] = "undo" /\ phase[r] \in Inserted
    BY DEF PlayUndoes, Inserted, AsksSpeaker
<1>2. HasInserted(r)
    BY <1>1, PlayPhases, InsertedShape
<1>3. device' \in [uri : Maybe(Context), playing : BOOLEAN]
    BY PlayingStep DEF PlayUndoes, IInv
<1> QED BY <1>2, <1>3, PutBackKeeps DEF PlayUndoes

LEMMA PlayFinishesKeeps ==
    ASSUME IInv, NEW r \in Requests, PlayFinishes(r)
    PROVE  IInv'
BY OnlyLeaves DEF PlayFinishes, Tasks

-----------------------------------------------------------------------------
(* Stop, commands and volume.                                              *)

LEMMA StopLocksKeeps ==
    ASSUME IInv, NEW r \in Requests, StopLocks(r)
    PROVE  IInv'
<1>1. r \in Tasks /\ r # Reconciler /\ SonosTypeOK
    BY NamesAreApart DEF Tasks, IInv
<1>2. phase[r] = "wait" /\ job[r].kind = "stop" /\ guard = None
    BY DEF StopLocks, Locks
<1>3. UNCHANGED <<device, clock, quiet>>
    BY DEF StopLocks
<1>4. SessionStep /\ outage' \in Maybe(Time)
    BY <1>1 DEF StopLocks, SessionStep, Unmanage, SonosTypeOK, Maybe
<1>5. RestStep
    BY <1>1, <1>3, <1>4 DEF RestStep, SonosTypeOK
<1>6. CASE Leave(r)
    BY <1>1, <1>3, <1>4, <1>5, <1>6, LeaveKeeps DEF IInv, StopSilences
<1>7. CASE ~Leave(r)
    <2>1. Unmanage /\ Goto(r, "send") /\ guard' = r /\ UNCHANGED job
        BY <1>7 DEF StopLocks
    <2>2. TaskShape(r, "send", job[r])
        BY <1>1, <1>2 DEF IInv, Shapes, TaskShape, Commands, Skips
    <2>3. "send" \in Phases /\ "send" \notin BeforeBirth /\ "send" \notin Inserted
        BY DEF Phases, BeforeBirth, Inserted, AsksSpeaker
    <2>4. GuardStep(r, "send") /\ SilentStep(r, "send", job[r])
        BY <1>2, <1>3, <2>1 DEF GuardStep, SilentStep, Unmanage, IInv, StopSilences
    <2> QED BY <1>1, <1>4, <1>5, <2>1, <2>2, <2>3, <2>4, StaysKeeps
<1> QED BY <1>6, <1>7

\* The stop is answered: there is no session, its sender held the guard, and so
\* nobody else is between the guard and the speaker.
LEMMA StopSendsKeeps ==
    ASSUME IInv, NEW r \in Requests, NEW out \in Outcomes, StopSends(r, out)
    PROVE  IInv'
<1>1. r \in Tasks /\ r # Reconciler /\ SonosTypeOK
    BY NamesAreApart DEF Tasks, IInv
<1>2. phase[r] = "send" /\ job[r].kind = "stop" /\ Leave(r)
      /\ UNCHANGED <<managed, clock, ended, outage>>
    BY DEF StopSends
<1>3. device' \in [uri : Maybe(Context), playing : BOOLEAN]
      /\ quiet' = out.answered /\ (quiet' => ~device'.playing)
    <2>1. out.answered \in BOOLEAN /\ (out.answered => out.applied)
        BY AnswersWereApplied
    <2> QED BY <1>1, <2>1, PlayingStep DEF StopSends
<1>4. managed = None /\ Holds(r, phase[r]) /\ guard = r
    BY <1>1, <1>2 DEF IInv, Silent, Stopping, Holds, Guarded
<1>5. /\ phase' = [phase EXCEPT ![r] = "done"]
      /\ job' = [job EXCEPT ![r] = NoJob]
      /\ guard' = None
    BY <1>1, <1>2, <1>4 DEF Leave, Rest, Goto
<1>6. /\ phase'[r] = "done" /\ job'[r] = NoJob
      /\ \A u \in Tasks \ {r} : phase'[u] = phase[u] /\ job'[u] = job[u]
    BY <1>1, <1>5, MovesApart
<1>7. ASSUME NEW u \in Tasks
      PROVE  ~Holds(u, phase'[u])
    <2>1. CASE u = r
        BY <1>6, <2>1 DEF Holds, AsksSpeaker
    <2>2. CASE u # r
        BY <1>1, <1>4, <1>6, <2>2, OneHolder
    <2> QED BY <2>1, <2>2
<1>8. Copies' \subseteq Copies
    <2> SUFFICES ASSUME NEW s \in Copies' PROVE s \in Copies
        OBVIOUS
    <2>1. s \in Copies \/ s = managed'
        BY <1>1, <1>5, NoJobType, CopiesStep
    <2> QED BY <1>2, <1>4, <2>1 DEF Copies
<1>9. SonosTypeOK'
    <2>1. phase' \in [Tasks -> Phases] /\ job' \in [Tasks -> Job]
        BY <1>1, <1>5, NoJobType DEF SonosTypeOK, Phases
    <2>2. quiet' \in BOOLEAN
        BY <1>3, AnswersWereApplied
    <2> QED BY <1>1, <1>2, <1>3, <1>5, <2>1, <2>2 DEF SonosTypeOK, Maybe
<1>10. Shapes' /\ Guarded'
    BY <1>6, <1>7 DEF Shapes, Guarded, TaskShape, IInv
<1>11. AllSound' /\ Families'
    BY <1>8 DEF AllSound, Families, IInv
<1>12. Unborn'
    <2> SUFFICES ASSUME NEW q \in Requests, phase'[q] \in BeforeBirth
                 PROVE  q \notin ended' /\ \A s \in Copies' : s.id # q
        BY DEF Unborn
    <2>1. q # r /\ q \in Tasks
        BY <1>6 DEF BeforeBirth, Tasks
    <2>2. phase[q] \in BeforeBirth
        BY <1>6, <2>1
    <2> QED BY <1>2, <1>8, <2>2 DEF IInv, Unborn
<1>13. Alone' /\ Silent'
    <2>1. ASSUME NEW q \in Requests
          PROVE  phase'[q] \notin Inserted \cup {"send"}
        <3>1. q \in Tasks /\ q # Reconciler
            BY NamesAreApart DEF Tasks
        <3> QED BY <1>7, <3>1 DEF Inserted, Holds
    <2> QED BY <1>2, <1>4, <1>7, <2>1 DEF Alone, HasInserted, Silent, Stopping
<1>14. EndedStaysEnded' /\ StopSilences'
    BY <1>2, <1>3, <1>4 DEF EndedStaysEnded, StopSilences
<1> QED BY <1>9, <1>10, <1>11, <1>12, <1>13, <1>14 DEF IInv

LEMMA CommandLocksKeeps ==
    ASSUME IInv, NEW r \in Requests, CommandLocks(r)
    PROVE  IInv'
<1>1. r \in Tasks /\ r # Reconciler /\ SonosTypeOK
    BY NamesAreApart DEF Tasks, IInv
<1>2. phase[r] = "wait" /\ job[r].kind \in Commands /\ guard = None
    BY DEF CommandLocks, Locks
<1>3. UNCHANGED <<managed, device, clock, history>>
    BY DEF CommandLocks
<1>4. CASE ~Matches(job[r].snap)
    BY <1>1, <1>3, <1>4, OnlyLeaves DEF CommandLocks
<1>5. CASE Matches(job[r].snap)
    <2>1. Goto(r, "send") /\ guard' = r /\ UNCHANGED job
        BY <1>5 DEF CommandLocks
    <2>2. TaskShape(r, "send", job[r]) /\ job[r].kind # "stop"
        BY <1>1, <1>2 DEF IInv, Shapes, TaskShape, CommandShape, Commands, Skips
    <2>3. "send" \in Phases /\ "send" \notin BeforeBirth /\ "send" \notin Inserted
        BY DEF Phases, BeforeBirth, Inserted, AsksSpeaker
    <2>4. ~quiet
        BY <1>5 DEF Matches, IInv, Silent
    <2>5. SessionStep /\ RestStep /\ GuardStep(r, "send") /\ SilentStep(r, "send", job[r])
        BY <1>1, <1>2, <1>3, <2>1, <2>2, <2>4, RestUnchanged
           DEF SessionStep, history, GuardStep, SilentStep
    <2> QED BY <1>1, <2>1, <2>2, <2>3, <2>5, StaysKeeps
<1> QED BY <1>4, <1>5

LEMMA CommandSendsKeeps ==
    ASSUME IInv, NEW r \in Requests, NEW out \in Outcomes, CommandSends(r, out)
    PROVE  IInv'
<1>1. r \in Tasks /\ r # Reconciler /\ SonosTypeOK
    BY NamesAreApart DEF Tasks, IInv
<1>2. phase[r] = "send" /\ job[r].kind \in Commands
      /\ UNCHANGED <<managed, clock, history>>
    BY DEF CommandSends
<1>3. device' \in [uri : Maybe(Context), playing : BOOLEAN]
    <2>1. (job[r].kind = "resume") \in BOOLEAN
        OBVIOUS
    <2>2. CASE job[r].kind = "seek"
        BY <1>1, <2>2 DEF CommandSends, SonosTypeOK
    <2>3. CASE job[r].kind # "seek"
        BY <1>1, <2>1, <2>3, PlayingStep DEF CommandSends
    <2> QED BY <2>2, <2>3
<1>4. Holds(r, phase[r]) /\ ~Harmless(r) /\ job[r].kind # "stop" /\ ~quiet
    <2>1. Holds(r, phase[r]) /\ ~Harmless(r) /\ job[r].kind # "stop"
        BY <1>1, <1>2 DEF Holds, Harmless, Commands
    <2> QED BY <1>1, <2>1, NotQuiet
<1>5. CASE out.answered
    <2>1. Goto(r, "finish") /\ UNCHANGED <<job, guard>>
        BY <1>5 DEF CommandSends
    <2>2. TaskShape(r, "finish", job[r]) /\ job[r].kind # "play"
        BY <1>1, <1>2 DEF IInv, Shapes, TaskShape, CommandShape, Commands, Skips
    <2>3. "finish" \in Phases \ BeforeBirth
        BY DEF Phases, BeforeBirth
    <2> QED BY <1>1, <1>2, <1>3, <1>4, <2>1, <2>2, <2>3, GoesOnKeeps
<1>6. CASE ~out.answered
    <2>1. Leave(r)
        BY <1>6 DEF CommandSends
    <2>2. SessionStep /\ RestStep
        BY <1>1, <1>2, <1>3 DEF SessionStep, RestStep, history, SonosTypeOK
    <2> QED BY <1>1, <1>2, <1>4, <2>1, <2>2, LeaveKeeps DEF history
<1> QED BY <1>5, <1>6

\* An update of the session that is there, by what keeps it sound.
LEMMA UpdateStep ==
    ASSUME SonosTypeOK, NEW s, NEW new, Update(s, new), ended' = ended,
           Matches(s) => Sound(new) /\ Kin(new, managed)
    PROVE  SessionStep
BY DEF Update, Matches, SessionStep

LEMMA ManagedSound ==
    ASSUME IInv, NEW s, Matches(s)
    PROVE  managed # None /\ Sound(managed) /\ managed \in Copies
BY DEF IInv, AllSound, Copies, Held, Matches

LEMMA CommandFinishesKeeps ==
    ASSUME IInv, NEW r \in Requests, CommandFinishes(r)
    PROVE  IInv'
<1>1. r \in Tasks /\ SonosTypeOK
    BY DEF Tasks, IInv
<1>2. /\ Update(job[r].snap, Commanded(managed, job[r].kind)) /\ Leave(r)
      /\ UNCHANGED <<device, clock, ended, quiet>>
    BY DEF CommandFinishes
<1>3. Matches(job[r].snap) =>
          /\ Sound(Commanded(managed, job[r].kind))
          /\ Kin(Commanded(managed, job[r].kind), managed)
    BY ManagedSound, CommandedSound
<1>4. SessionStep
    BY <1>1, <1>2, <1>3, UpdateStep
<1>5. outage' \in Maybe(Time)
    BY <1>1 DEF CommandFinishes, SonosTypeOK, Maybe
<1>6. RestStep
    BY <1>1, <1>2, <1>5 DEF RestStep, SonosTypeOK
<1> QED BY <1>1, <1>2, <1>4, <1>6, LeaveKeeps DEF IInv, StopSilences

LEMMA VolumeLocksKeeps ==
    ASSUME IInv, NEW r \in Requests, VolumeLocks(r)
    PROVE  IInv'
<1>1. r \in Tasks /\ r # Reconciler /\ SonosTypeOK
    BY NamesAreApart DEF Tasks, IInv
<1>2. phase[r] = "wait" /\ job[r].kind = "volume" /\ guard = None
    BY DEF VolumeLocks, Locks
<1>3. Goto(r, "send") /\ guard' = r /\ UNCHANGED job
      /\ UNCHANGED <<managed, device, clock, history>>
    BY DEF VolumeLocks
<1>4. TaskShape(r, "send", job[r])
    BY <1>1, <1>2 DEF IInv, Shapes, TaskShape, Commands, Skips
<1>5. "send" \in Phases /\ "send" \notin BeforeBirth /\ "send" \notin Inserted
    BY DEF Phases, BeforeBirth, Inserted, AsksSpeaker
<1>6. SessionStep /\ RestStep /\ GuardStep(r, "send")
    BY <1>1, <1>2, <1>3, RestUnchanged DEF SessionStep, history, GuardStep
<1>7. SilentStep(r, "send", job[r])
    BY <1>2, <1>3 DEF SilentStep, history, IInv, StopSilences
<1> QED BY <1>1, <1>3, <1>4, <1>5, <1>6, <1>7, StaysKeeps

LEMMA VolumeSendsKeeps ==
    ASSUME IInv, NEW r \in Requests, VolumeSends(r)
    PROVE  IInv'
BY OnlyLeaves DEF VolumeSends, Tasks

LEMMA CancelKeeps ==
    ASSUME IInv, NEW r \in Requests, Cancel(r)
    PROVE  IInv'
BY OnlyLeaves DEF Cancel, Tasks

-----------------------------------------------------------------------------
(* Handoffs.                                                               *)

LEMMA HandoffFacts ==
    ASSUME IInv, NEW t \in Tasks, job[t].kind \in Skips \cup {"pass"},
           phase[t] \in {"turn", "mint", "wait"} \cup AsksSpeaker
    PROVE  /\ SonosTypeOK /\ job[t] \in Job
           /\ t = Reconciler <=> job[t].kind = "pass"
           /\ TaskShape(t, phase[t], job[t])
           /\ HandoffShape(phase[t], job[t])
           /\ job[t].snap \in Session /\ Sound(job[t].snap) /\ job[t].snap \in Copies
<1>1. SonosTypeOK /\ job[t] \in Job /\ TaskShape(t, phase[t], job[t])
    BY DEF IInv, SonosTypeOK, Shapes
<1>2. phase[t] \notin {"idle", "done"}
    BY DEF AsksSpeaker
<1>3. HandoffShape(phase[t], job[t]) /\ (t = Reconciler <=> job[t].kind = "pass")
    BY <1>1, <1>2 DEF TaskShape, SkipShape, PassShape
<1>4. job[t].snap \in Session
    BY <1>3 DEF HandoffShape
<1>5. job[t].snap \in Copies
    BY <1>4, NoneIsNoRecord, HeldCopies
<1> QED BY <1>1, <1>3, <1>4, <1>5 DEF IInv, AllSound

LEMMA HandoffKinds ==
    ASSUME IInv, NEW t \in Tasks, phase[t] \in {"turn", "mint"}
    PROVE  job[t].kind \in Skips \cup {"pass"}
BY DEF IInv, Shapes, TaskShape, PlayShape, CommandShape, AllKinds, Inserted, AsksSpeaker

\* The session is turned to an entry of its queue: the index was inside the
\* queue of the snapshot, which is the queue of the session.
LEMMA TurnsSound ==
    ASSUME IInv, NEW t \in Tasks, Turns(t)
    PROVE  /\ managed # None /\ managed \in Session /\ Kin(job[t].snap, managed)
           /\ Sound(managed') /\ Kin(managed', managed)
<1> DEFINE index == IF t = Reconciler THEN managed.index ELSE job[t].index
<1>1. phase[t] = "turn" /\ Matches(job[t].snap)
    BY DEF Turns
<1>2. job[t].kind \in Skips \cup {"pass"}
    BY <1>1, HandoffKinds
<1>3. /\ t = Reconciler <=> job[t].kind = "pass"
      /\ TaskShape(t, "turn", job[t])
      /\ job[t].snap \in Session /\ Sound(job[t].snap) /\ job[t].snap \in Copies
    BY <1>1, <1>2, HandoffFacts
<1>4. managed # None /\ Sound(managed) /\ managed \in Copies /\ managed \in Session
    BY <1>1, ManagedSound DEF Sound
<1>5. Kin(job[t].snap, managed)
    BY <1>1, <1>3, <1>4 DEF Kin, Matches, IInv, Families
<1>6. t # Reconciler => job[t].index \in Nat /\ job[t].index < Len(job[t].snap.queue)
    BY <1>2, <1>3 DEF TaskShape, SkipShape, AllKinds, Commands, Skips
<1>7. index \in Nat /\ index < Len(managed.queue)
    BY <1>4, <1>5, <1>6 DEF Sound, Kin, Session
<1>8. Entry(t) \in Entries
    <2>1. job[t].snap.queue \in Queues /\ job[t].snap.index \in Nat
          /\ job[t].snap.index < Len(job[t].snap.queue)
        BY <1>3 DEF Session, Sound
    <2> QED BY <1>6, <2>1, IndexInside DEF Entry
<1>9. managed' = Turned(managed, job[t].snap, index, Entry(t))
    BY DEF Turns
<1> HIDE DEF index
<1>10. Sound(managed') /\ Kin(managed', managed)
    BY <1>3, <1>4, <1>5, <1>7, <1>8, <1>9, TurnedSound
<1> QED BY <1>4, <1>5, <1>10

LEMMA TurnsKeeps ==
    ASSUME IInv, NEW t \in Tasks, Turns(t)
    PROVE  IInv'
<1> DEFINE new == [job[t] EXCEPT !.back = managed]
<1>1. phase[t] = "turn"
    BY DEF Turns
<1>2. job[t].kind \in Skips \cup {"pass"}
    BY <1>1, HandoffKinds
<1>3. /\ SonosTypeOK /\ job[t] \in Job
      /\ t = Reconciler <=> job[t].kind = "pass"
      /\ TaskShape(t, "turn", job[t])
    BY <1>1, <1>2, HandoffFacts
<1>4. /\ managed # None /\ managed \in Session /\ Kin(job[t].snap, managed)
      /\ Sound(managed') /\ Kin(managed', managed)
    BY TurnsSound
<1>5. new \in Job /\ new.kind = job[t].kind /\ new.snap = job[t].snap
      /\ new.back = managed /\ new.index = job[t].index
    BY <1>3, <1>4 DEF Job, Maybe
<1>6. Goto(t, "mint") /\ job' = [job EXCEPT ![t] = new]
      /\ UNCHANGED <<guard, device, clock, ended, quiet>>
    BY DEF Turns
<1>7. outage' \in Maybe(Time)
    BY <1>3 DEF Turns, SonosTypeOK, Maybe
<1> HIDE DEF new
<1>8. TaskShape(t, "mint", new)
    <2>1. HasBack(new)
        BY <1>4, <1>5 DEF HasBack, Kin
    <2>2. CASE t = Reconciler
        BY <1>3, <1>5, <2>1, <2>2 DEF TaskShape, PassShape, HandoffShape, AsksSpeaker,
                                      AllKinds, Commands, Skips
    <2>3. CASE t # Reconciler
        BY <1>2, <1>3, <1>5, <2>1, <2>3
           DEF TaskShape, SkipShape, HandoffShape, AsksSpeaker, AllKinds, Commands, Skips
    <2> QED BY <2>2, <2>3
<1>9. Moves(t, "mint", new) /\ Inherits(t, "mint", new)
    BY <1>1, <1>5, <1>6, <1>8
       DEF Moves, Inherits, Goto, Phases, BeforeBirth, Inserted, AsksSpeaker
<1>10. ~Holds(t, "mint")
    BY DEF Holds, AsksSpeaker
<1>11. GuardStep(t, "mint") /\ SessionStep /\ RestStep /\ SilentStep(t, "mint", new)
    BY <1>3, <1>4, <1>6, <1>7, <1>10
       DEF GuardStep, SessionStep, RestStep, SilentStep, SonosTypeOK, IInv, StopSilences
<1> QED BY <1>9, <1>11, GentleKeeps DEF Gentle

LEMMA TurnsNothingKeeps ==
    ASSUME IInv, NEW t \in Tasks, TurnsNothing(t)
    PROVE  IInv'
BY OnlyLeaves DEF TurnsNothing

\* A handoff that fails and touches nothing else.
LEMMA OnlyFails ==
    ASSUME IInv, NEW t \in Tasks, Fail(t), UNCHANGED <<managed, device, clock, history>>,
           phase[t] \notin {"idle", "done"}
    PROVE  IInv'
<1>1. SessionStep /\ RestStep
    BY RestUnchanged DEF SessionStep, history, IInv
<1> QED BY <1>1, FailKeeps DEF history, IInv, StopSilences

LEMMA PreparesNothingKeeps ==
    ASSUME IInv, NEW t \in Tasks, PreparesNothing(t)
    PROVE  IInv'
BY OnlyFails DEF PreparesNothing

LEMMA MintsKeeps ==
    ASSUME IInv, NEW t \in Tasks, Mints(t)
    PROVE  IInv'
<1>1. phase[t] = "mint" /\ UNCHANGED <<managed, device, clock, history>>
    BY DEF Mints
<1>2. CASE ~Matches(job[t].snap)
    BY <1>1, <1>2, OnlyFails DEF Mints
<1>3. CASE Matches(job[t].snap)
    <2> DEFINE new == [job[t] EXCEPT !.url = managed.prepared]
    <2>1. job[t].kind \in Skips \cup {"pass"}
        BY <1>1, HandoffKinds
    <2>2. /\ job[t] \in Job
          /\ t = Reconciler <=> job[t].kind = "pass"
          /\ TaskShape(t, "mint", job[t])
        BY <1>1, <2>1, HandoffFacts
    <2>3. managed.prepared \in Context
        BY <1>3, ManagedSound DEF Sound, Session
    <2>4. new \in Job /\ new.kind = job[t].kind /\ new.snap = job[t].snap
          /\ new.back = job[t].back /\ new.index = job[t].index /\ new.url \in Context
        BY <2>2, <2>3 DEF Job, Maybe
    <2>5. Goto(t, "wait") /\ job' = [job EXCEPT ![t] = new] /\ UNCHANGED guard
        BY <1>3 DEF Mints
    <2> HIDE DEF new
    <2>6. TaskShape(t, "wait", new)
        BY <2>1, <2>2, <2>4 DEF TaskShape, PassShape, SkipShape, HandoffShape, HasBack,
                                AsksSpeaker, AllKinds, Commands, Skips
    <2>7. "wait" \in Phases /\ "wait" \notin Inserted /\ ~Holds(t, "wait")
          /\ phase[t] \in BeforeBirth
        BY <1>1 DEF Phases, Inserted, AsksSpeaker, Holds, BeforeBirth
    <2> QED BY <1>1, <2>4, <2>5, <2>6, <2>7, OnlyKeeps
<1> QED BY <1>2, <1>3

\* A handoff may move on among the phases after the guard.
LEMMA HandoffGoesOn ==
    ASSUME IInv, NEW t \in Tasks, job[t].kind \in Skips \cup {"pass"},
           phase[t] \in {"wait"} \cup AsksSpeaker,
           NEW where \in AsksSpeaker, where = "seek" => t = Reconciler
    PROVE  /\ TaskShape(t, where, job[t])
           /\ where \in Phases \ BeforeBirth
           /\ job[t].kind # "play" /\ job[t].kind # "stop"
           /\ job[t].url \in Context
<1>1. /\ t = Reconciler <=> job[t].kind = "pass"
      /\ TaskShape(t, phase[t], job[t]) /\ HandoffShape(phase[t], job[t])
    BY HandoffFacts
<1>2. HandoffShape(where, job[t]) /\ job[t].url \in Context
    BY <1>1 DEF HandoffShape, AsksSpeaker
<1>3. where \in Phases \ BeforeBirth /\ job[t].kind # "play" /\ job[t].kind # "stop"
    BY DEF Phases, BeforeBirth, AsksSpeaker, Skips
<1>4. TaskShape(t, where, job[t])
    <2>1. CASE t = Reconciler
        BY <1>1, <1>2, <2>1 DEF TaskShape, PassShape, AsksSpeaker, AllKinds, Commands, Skips
    <2>2. CASE t # Reconciler
        BY <1>1, <1>2, <2>2 DEF TaskShape, SkipShape, AsksSpeaker, AllKinds, Commands, Skips
    <2> QED BY <2>1, <2>2
<1> QED BY <1>2, <1>3, <1>4

LEMMA HandoffLocksKeeps ==
    ASSUME IInv, NEW t \in Tasks, HandoffLocks(t)
    PROVE  IInv'
<1>1. phase[t] = "wait" /\ job[t].kind \in Skips \cup {"pass"} /\ guard = None
      /\ UNCHANGED <<managed, device, clock, history>>
    BY DEF HandoffLocks, Locks
<1>2. CASE ~Matches(job[t].snap)
    BY <1>1, <1>2, OnlyLeaves DEF HandoffLocks
<1>3. CASE Matches(job[t].snap)
    <2>1. Goto(t, "load") /\ guard' = t /\ UNCHANGED job
        BY <1>3 DEF HandoffLocks
    <2>2. /\ TaskShape(t, "load", job[t])
          /\ "load" \in Phases /\ "load" \notin BeforeBirth
          /\ job[t].kind # "play" /\ job[t].kind # "stop"
        BY <1>1, HandoffGoesOn DEF AsksSpeaker
    <2>3. ~quiet
        BY <1>3 DEF Matches, IInv, Silent
    <2>4. SessionStep /\ RestStep /\ GuardStep(t, "load") /\ SilentStep(t, "load", job[t])
        BY <1>1, <2>1, <2>2, <2>3, RestUnchanged
           DEF SessionStep, history, GuardStep, SilentStep, IInv
    <2> QED BY <2>1, <2>2, <2>4, StaysKeeps
<1> QED BY <1>2, <1>3

\* The session is restored from its own former self.
LEMMA RollsBackStep ==
    ASSUME IInv, NEW t \in Tasks, job[t].kind \in Skips \cup {"pass"},
           phase[t] \in AsksSpeaker, RollsBack(t), ended' = ended
    PROVE  SessionStep /\ outage' \in Maybe(Time)
<1>1. SonosTypeOK /\ HandoffShape(phase[t], job[t])
    BY HandoffFacts
<1>2. HasBack(job[t])
    BY <1>1 DEF HandoffShape
<1>3. job[t].back \in Copies
    BY <1>2, NoneIsNoRecord, HeldCopies DEF HasBack
<1>4. ASSUME Matches(job[t].snap)
      PROVE  Sound(Restored(managed, job[t].back)) /\ Kin(Restored(managed, job[t].back), managed)
    <2>1. Sound(managed) /\ managed \in Copies
        BY <1>4, ManagedSound
    <2>2. job[t].back.id = managed.id
        BY <1>2, <1>4 DEF HasBack, Matches
    <2>3. Sound(job[t].back) /\ Kin(job[t].back, managed)
        BY <1>3, <2>1, <2>2 DEF IInv, AllSound, Families, Kin
    <2> QED BY <2>1, <2>3, RestoredSound
<1>5. SessionStep
    BY <1>1, <1>4, UpdateStep DEF RollsBack
<1> QED BY <1>1, <1>5 DEF RollsBack, SonosTypeOK, Maybe

\* What holds of a handoff that has the guard.
LEMMA HandoffHolds ==
    ASSUME IInv, NEW t \in Tasks, job[t].kind \in Skips \cup {"pass"},
           phase[t] \in AsksSpeaker
    PROVE  Holds(t, phase[t]) /\ ~Harmless(t) /\ ~quiet
<1>1. Holds(t, phase[t]) /\ ~Harmless(t)
    BY DEF Holds, Harmless, AsksSpeaker, Skips
<1> QED BY <1>1, NotQuiet

LEMMA HandoffLoadsKeeps ==
    ASSUME IInv, NEW t \in Tasks, NEW out \in Outcomes, HandoffLoads(t, out)
    PROVE  IInv'
<1>1. phase[t] = "load" /\ phase[t] \in AsksSpeaker /\ job[t].kind \in Skips \cup {"pass"}
      /\ UNCHANGED <<clock, ended, quiet>>
    BY DEF HandoffLoads, Handing, AsksSpeaker
<1>2. SonosTypeOK /\ Holds(t, phase[t]) /\ ~Harmless(t) /\ ~quiet
    BY <1>1, HandoffHolds DEF IInv
<1>3. /\ TaskShape(t, "start", job[t]) /\ "start" \in Phases \ BeforeBirth
      /\ job[t].kind # "play" /\ job[t].kind # "stop" /\ job[t].url \in Context
    BY <1>1, HandoffGoesOn DEF AsksSpeaker
<1>4. device' \in [uri : Maybe(Context), playing : BOOLEAN]
    BY <1>2, <1>3, SetURIStep DEF HandoffLoads
<1>5. CASE ~out.answered
    <2>1. RollsBack(t) /\ Fail(t)
        BY <1>5 DEF HandoffLoads
    <2>2. SessionStep /\ outage' \in Maybe(Time)
        BY <1>1, <2>1, RollsBackStep
    <2>3. RestStep
        BY <1>1, <1>2, <1>4, <2>2 DEF RestStep, SonosTypeOK
    <2> QED BY <1>1, <1>2, <2>1, <2>2, <2>3, FailKeeps
<1>6. CASE out.answered /\ Matches(job[t].snap)
    <2>1. Goto(t, "start") /\ UNCHANGED <<managed, guard, job, clock, history>>
        BY <1>1, <1>6 DEF HandoffLoads, history
    <2> QED BY <1>2, <1>3, <1>4, <2>1, GoesOnKeeps
<1>7. CASE out.answered /\ ~Matches(job[t].snap)
    <2>1. Leave(t) /\ UNCHANGED <<managed, outage>>
        BY <1>7 DEF HandoffLoads
    <2>2. SessionStep /\ RestStep
        BY <1>1, <1>2, <1>4, <2>1 DEF SessionStep, RestStep, SonosTypeOK
    <2> QED BY <1>1, <1>2, <2>1, <2>2, LeaveKeeps
<1> QED BY <1>5, <1>6, <1>7

LEMMA HandoffStartsKeeps ==
    ASSUME IInv, NEW t \in Tasks, NEW out \in Outcomes, HandoffStarts(t, out)
    PROVE  IInv'
<1>1. phase[t] = "start" /\ phase[t] \in AsksSpeaker /\ job[t].kind \in Skips \cup {"pass"}
      /\ UNCHANGED <<clock, ended, quiet>>
    BY DEF HandoffStarts, Handing, AsksSpeaker
<1>2. SonosTypeOK /\ Holds(t, phase[t]) /\ ~Harmless(t) /\ ~quiet
    BY <1>1, HandoffHolds DEF IInv
<1>3. device' \in [uri : Maybe(Context), playing : BOOLEAN]
    BY <1>2, PlayingStep DEF HandoffStarts
<1>4. CASE ~out.answered
    <2>1. RollsBack(t) /\ Fail(t)
        BY <1>4 DEF HandoffStarts
    <2>2. SessionStep /\ outage' \in Maybe(Time)
        BY <1>1, <2>1, RollsBackStep
    <2>3. RestStep
        BY <1>1, <1>2, <1>3, <2>2 DEF RestStep, SonosTypeOK
    <2> QED BY <1>1, <1>2, <2>1, <2>2, <2>3, FailKeeps
<1>5. CASE out.answered /\ t = Reconciler /\ ~Matches(job[t].snap)
    <2>1. Leave(t) /\ UNCHANGED <<managed, outage>>
        BY <1>5 DEF HandoffStarts
    <2>2. SessionStep /\ RestStep
        BY <1>1, <1>2, <1>3, <2>1 DEF SessionStep, RestStep, SonosTypeOK
    <2> QED BY <1>1, <1>2, <2>1, <2>2, LeaveKeeps
<1>6. CASE out.answered /\ ~(t = Reconciler /\ ~Matches(job[t].snap))
    <2>1. PICK where \in IF t = Reconciler THEN {"seek", "finish"} ELSE {"finish"} :
              Goto(t, where)
        BY <1>6 DEF HandoffStarts
    <2>2. UNCHANGED <<managed, guard, job, clock, history>>
        BY <1>1, <1>6 DEF HandoffStarts, history
    <2>3. where \in AsksSpeaker /\ (where = "seek" => t = Reconciler)
        BY <2>1 DEF AsksSpeaker
    <2>4. /\ TaskShape(t, where, job[t]) /\ where \in Phases \ BeforeBirth
          /\ job[t].kind # "play" /\ job[t].kind # "stop"
        BY <1>1, <2>3, HandoffGoesOn
    <2> QED BY <1>2, <1>3, <2>1, <2>2, <2>4, GoesOnKeeps
<1> QED BY <1>4, <1>5, <1>6

LEMMA ReconcilerPasses ==
    ASSUME IInv, phase[Reconciler] \notin {"idle", "done"}
    PROVE  /\ Reconciler \in Tasks /\ SonosTypeOK /\ job[Reconciler] \in Job
           /\ job[Reconciler].kind = "pass"
           /\ PassShape(phase[Reconciler], job[Reconciler])
           /\ job[Reconciler].snap \in Session /\ Sound(job[Reconciler].snap)
           /\ job[Reconciler].snap \in Copies
<1>1. Reconciler \in Tasks
    BY DEF Tasks
<1>2. SonosTypeOK /\ job[Reconciler] \in Job
    BY <1>1 DEF IInv, SonosTypeOK
<1>3. job[Reconciler].kind = "pass" /\ PassShape(phase[Reconciler], job[Reconciler])
    BY <1>1 DEF IInv, Shapes, TaskShape
<1>4. job[Reconciler].snap \in Session
    BY <1>3 DEF PassShape
<1>5. job[Reconciler].snap \in Copies
    BY <1>1, <1>4, NoneIsNoRecord, HeldCopies
<1> QED BY <1>1, <1>2, <1>3, <1>4, <1>5 DEF IInv, AllSound

LEMMA HandoffSeeksKeeps ==
    ASSUME IInv, NEW t \in Tasks, NEW out \in Outcomes, HandoffSeeks(t, out)
    PROVE  IInv'
<1>1. phase[t] = "seek" /\ phase[t] \in AsksSpeaker /\ t = Reconciler
      /\ UNCHANGED <<device, clock, ended, quiet>>
    BY DEF HandoffSeeks, AsksSpeaker
<1>2. job[t].kind \in Skips \cup {"pass"}
    BY <1>1, ReconcilerPasses
<1>3. SonosTypeOK /\ Holds(t, phase[t]) /\ ~Harmless(t) /\ ~quiet
    BY <1>1, <1>2, HandoffHolds DEF IInv
<1>4. device' \in [uri : Maybe(Context), playing : BOOLEAN]
    BY <1>1, <1>3 DEF SonosTypeOK
<1>5. CASE out.answered
    <2>1. Goto(t, "finish") /\ UNCHANGED <<managed, guard, job, clock, history>>
        BY <1>1, <1>5 DEF HandoffSeeks, history
    <2>2. /\ TaskShape(t, "finish", job[t]) /\ "finish" \in Phases \ BeforeBirth
          /\ job[t].kind # "play" /\ job[t].kind # "stop"
        BY <1>1, <1>2, HandoffGoesOn DEF AsksSpeaker
    <2> QED BY <1>3, <1>4, <2>1, <2>2, GoesOnKeeps
<1>6. CASE ~out.answered
    <2>1. RollsBack(t) /\ Fail(t)
        BY <1>6 DEF HandoffSeeks
    <2>2. SessionStep /\ outage' \in Maybe(Time)
        BY <1>1, <1>2, <2>1, RollsBackStep
    <2>3. RestStep
        BY <1>1, <1>3, <1>4, <2>2 DEF RestStep, SonosTypeOK
    <2> QED BY <1>1, <1>3, <2>1, <2>2, <2>3, FailKeeps
<1> QED BY <1>5, <1>6

LEMMA HandoffFinishesKeeps ==
    ASSUME IInv, NEW t \in Tasks, HandoffFinishes(t)
    PROVE  IInv'
<1> DEFINE found == IF t = Reconciler THEN [Confirmed(managed) EXCEPT !.advancing = TRUE]
                                      ELSE Confirmed(managed)
<1>1. Update(job[t].snap, found) /\ Leave(t) /\ UNCHANGED <<device, clock, ended, quiet>>
    BY DEF HandoffFinishes
<1>2. ASSUME Matches(job[t].snap)
      PROVE  Sound(found) /\ Kin(found, managed)
    <2>1. Sound(Confirmed(managed)) /\ Kin(Confirmed(managed), managed)
        BY <1>2, ManagedSound, ConfirmedSound
    <2>2. /\ Sound([Confirmed(managed) EXCEPT !.advancing = TRUE])
          /\ Kin([Confirmed(managed) EXCEPT !.advancing = TRUE], Confirmed(managed))
        BY <2>1, AdvancingSound
    <2> QED BY <2>1, <2>2 DEF Kin
<1> HIDE DEF found
<1>3. SonosTypeOK
    BY DEF IInv
<1>4. SessionStep
    BY <1>1, <1>2, <1>3, UpdateStep
<1>5. outage' \in Maybe(Time)
    BY <1>3 DEF HandoffFinishes, SonosTypeOK, Maybe
<1>6. RestStep
    BY <1>1, <1>3, <1>5 DEF RestStep, SonosTypeOK
<1> QED BY <1>1, <1>4, <1>6, LeaveKeeps DEF IInv, StopSilences

-----------------------------------------------------------------------------
(* The reconciler's passes, and time.                                      *)

LEMMA PassBeginsKeeps ==
    ASSUME IInv, PassBegins
    PROVE  IInv'
<1> DEFINE new == [NoJob EXCEPT !.kind = "pass", !.snap = managed, !.now = clock]
<1>1. Reconciler \in Tasks /\ SonosTypeOK /\ managed \in Session
    BY DEF Tasks, IInv, PassBegins, SonosTypeOK, Maybe
<1>2. new \in Job /\ new.kind = "pass" /\ new.snap = managed /\ new.back = None
    BY <1>1, NoJobType DEF Job, Maybe, NoJob, SonosTypeOK
<1>3. Goto(Reconciler, "check") /\ job' = [job EXCEPT ![Reconciler] = new]
      /\ UNCHANGED <<managed, guard, device, clock, history>>
    BY DEF PassBegins
<1> HIDE DEF new
<1>4. TaskShape(Reconciler, "check", new)
    BY <1>1, <1>2 DEF TaskShape, PassShape, HandoffShape, AsksSpeaker, AllKinds,
                      Commands, Skips
<1>5. "check" \in Phases /\ "check" \notin Inserted /\ ~Holds(Reconciler, "check")
    BY DEF Phases, Inserted, AsksSpeaker, Holds
<1> QED BY <1>1, <1>2, <1>3, <1>4, <1>5, OnlyKeeps

LEMMA PassChecksKeeps ==
    ASSUME IInv, PassChecks
    PROVE  IInv'
<1> DEFINE j == job[Reconciler]
           over == Overdue(j.snap, j.now) /\ Matches(j.snap)
<1>1. phase[Reconciler] = "check" /\ UNCHANGED <<device, clock, quiet>>
    BY DEF PassChecks
<1>2. Reconciler \in Tasks /\ SonosTypeOK /\ j.kind = "pass" /\ PassShape("check", j)
    BY <1>1, ReconcilerPasses
<1>3. CASE over
    <2>1. Unmanage /\ Leave(Reconciler) /\ managed # None
        BY <1>3 DEF PassChecks, Matches
    <2>2. SessionStep /\ RestStep
        BY <1>1, <1>2, <2>1 DEF SessionStep, RestStep, Unmanage, SonosTypeOK, Maybe
    <2> QED BY <1>1, <1>2, <2>1, <2>2, LeaveKeeps DEF IInv, StopSilences
<1>4. CASE ~over
    <2>1. Goto(Reconciler, "verify") /\ UNCHANGED <<managed, job, guard, ended, outage>>
        BY <1>4 DEF PassChecks
    <2>2. TaskShape(Reconciler, "verify", j)
        BY <1>2 DEF TaskShape, PassShape, HandoffShape, AsksSpeaker, AllKinds,
                    Commands, Skips
    <2>3. job' = [job EXCEPT ![Reconciler] = j] /\ j \in Job
        BY <1>2, <2>1 DEF SonosTypeOK
    <2>4. "verify" \in Phases /\ "verify" \notin Inserted /\ ~Holds(Reconciler, "verify")
        BY DEF Phases, Inserted, AsksSpeaker, Holds
    <2> QED BY <1>1, <1>2, <2>1, <2>2, <2>3, <2>4, OnlyKeeps DEF history
<1> QED BY <1>3, <1>4

LEMMA PassVerifiesKeeps ==
    ASSUME IInv, PassVerifies
    PROVE  IInv'
<1> DEFINE j == job[Reconciler]
<1>1. phase[Reconciler] = "verify" /\ UNCHANGED <<managed, guard, device, clock, history>>
    BY DEF PassVerifies
<1>2. Reconciler \in Tasks /\ SonosTypeOK /\ j \in Job /\ j.kind = "pass"
      /\ PassShape("verify", j)
    BY <1>1, ReconcilerPasses
<1>3. PICK where \in {"miss", "turn", "healthy"}, new \in Job :
          /\ Goto(Reconciler, where)
          /\ job' = [job EXCEPT ![Reconciler] = new]
          /\ new.kind = "pass" /\ new.snap = j.snap /\ new.back = j.back
    <2>1. CASE Goto(Reconciler, "miss") /\ UNCHANGED job
        BY <1>2, <2>1 DEF SonosTypeOK
    <2>2. CASE Goto(Reconciler, "turn") /\ UNCHANGED job
        BY <1>2, <2>2 DEF SonosTypeOK
    <2>3. CASE /\ Goto(Reconciler, "healthy")
               /\ job' = [job EXCEPT ![Reconciler].playing = device.playing]
        <3> DEFINE new == [j EXCEPT !.playing = device.playing]
        <3>1. device.playing \in BOOLEAN
            BY <1>2 DEF SonosTypeOK
        <3>2. new \in Job /\ new.kind = "pass" /\ new.snap = j.snap /\ new.back = j.back
            BY <1>2, <3>1 DEF Job
        <3>3. job' = [job EXCEPT ![Reconciler] = new]
            BY <2>3
        <3> QED BY <2>3, <3>2, <3>3
    <2> QED BY <2>1, <2>2, <2>3 DEF PassVerifies
<1>4. TaskShape(Reconciler, where, new)
    BY <1>2, <1>3 DEF TaskShape, PassShape, HandoffShape, AsksSpeaker, AllKinds,
                      Commands, Skips
<1>5. where \in Phases /\ where \notin Inserted /\ ~Holds(Reconciler, where)
    BY <1>3 DEF Phases, Inserted, AsksSpeaker, Holds
<1> QED BY <1>1, <1>2, <1>3, <1>4, <1>5, OnlyKeeps

LEMMA PassMissesKeeps ==
    ASSUME IInv, PassMisses
    PROVE  IInv'
<1> DEFINE j == job[Reconciler]
<1>1. phase[Reconciler] = "miss" /\ UNCHANGED <<device, clock, ended, quiet>>
      /\ Update(j.snap, Missed(managed, j.now)) /\ Leave(Reconciler)
      /\ outage' = IF Matches(j.snap) /\ outage = None THEN j.now ELSE outage
    BY DEF PassMisses
<1>2. Reconciler \in Tasks /\ SonosTypeOK /\ j.now \in Time
    BY <1>1, ReconcilerPasses, TaskTypes
<1>3. Matches(j.snap) =>
          Sound(Missed(managed, j.now)) /\ Kin(Missed(managed, j.now), managed)
    BY <1>2, ManagedSound, MissedSound
<1>4. SessionStep
    BY <1>1, <1>2, <1>3, UpdateStep
<1>5. RestStep
    BY <1>1, <1>2 DEF RestStep, SonosTypeOK, Maybe
<1> QED BY <1>1, <1>2, <1>4, <1>5, LeaveKeeps DEF IInv, StopSilences

LEMMA PassRefreshesKeeps ==
    ASSUME IInv, PassRefreshes
    PROVE  IInv'
<1> DEFINE j == job[Reconciler]
           found == [Confirmed(managed) EXCEPT !.advancing = j.playing]
<1>1. phase[Reconciler] = "healthy" /\ UNCHANGED <<device, clock, ended, quiet>>
      /\ Update(j.snap, found) /\ Leave(Reconciler)
      /\ outage' = IF Matches(j.snap) THEN None ELSE outage
    BY DEF PassRefreshes
<1>2. Reconciler \in Tasks /\ SonosTypeOK /\ j.playing \in BOOLEAN
    BY <1>1, ReconcilerPasses, TaskTypes
<1>3. ASSUME Matches(j.snap)
      PROVE  Sound(found) /\ Kin(found, managed)
    <2>1. Sound(Confirmed(managed)) /\ Kin(Confirmed(managed), managed)
        BY <1>3, ManagedSound, ConfirmedSound
    <2>2. Sound(found) /\ Kin(found, Confirmed(managed))
        BY <1>2, <2>1, AdvancingSound
    <2> QED BY <2>1, <2>2 DEF Kin
<1> HIDE DEF found
<1>4. SessionStep
    BY <1>1, <1>2, <1>3, UpdateStep
<1>5. RestStep
    BY <1>1, <1>2 DEF RestStep, SonosTypeOK, Maybe
<1> QED BY <1>1, <1>2, <1>4, <1>5, LeaveKeeps DEF IInv, StopSilences

LEMMA TickKeeps ==
    ASSUME IInv, Tick
    PROVE  IInv'
<1>1. clock' \in Time
    BY BoundsAreNatural DEF Tick, IInv, SonosTypeOK, Time
<1>2. UNCHANGED <<managed, guard, phase, job, device, ended, quiet, outage>>
    BY DEF Tick, history
<1>3. SonosTypeOK' /\ Shapes' /\ Guarded' /\ StopSilences'
    BY <1>1, <1>2 DEF IInv, SonosTypeOK, Shapes, Guarded, StopSilences
<1>4. Copies' = Copies
    BY <1>2 DEF Copies, Held
<1>5. AllSound' /\ Families' /\ Unborn'
    BY <1>2, <1>4 DEF IInv, AllSound, Families, Unborn
<1>6. Alone' /\ Silent' /\ EndedStaysEnded'
    BY <1>2 DEF IInv, Alone, HasInserted, Silent, Stopping, Harmless, EndedStaysEnded
<1> QED BY <1>3, <1>5, <1>6 DEF IInv

-----------------------------------------------------------------------------
(* The theorems of the transport.                                          *)

LEMMA InitIInv == Init => IInv
<1> SUFFICES ASSUME Init PROVE IInv
    OBVIOUS
<1>1. PICK q \in Queues : \E i \in 0 .. Len(q) - 1 : managed = NewSession(Earlier, 1, q, i)
    BY DEF Init
<1>2. PICK i \in 0 .. Len(q) - 1 : managed = NewSession(Earlier, 1, q, i)
    BY <1>1
<1>3. i \in Nat /\ i < Len(q)
    <2>1. q \in Seq(Entries)
        BY QueuesAreNotEmpty
    <2> QED BY <2>1
<1>4. Sound(managed) /\ managed.id = Earlier /\ managed.prepared \in Context
    <2>1. Earlier \in Ids
        BY DEF Ids
    <2> QED BY <1>2, <1>3, <2>1, NewSessionSound
<1>5. ASSUME NEW s \in Copies
      PROVE  s = managed
    BY NoJobType DEF Copies, Held, Init
<1>6. SonosTypeOK
    <2>1. phase \in [Tasks -> Phases] /\ job \in [Tasks -> Job]
        BY NoJobType DEF Init, Phases
    <2>2. device \in [uri : Maybe(Context), playing : BOOLEAN]
        BY <1>4 DEF Init, Maybe
    <2>3. clock \in Time
        BY BoundsAreNatural DEF Init, Time
    <2>4. managed \in Maybe(Session) /\ guard \in Maybe(Tasks) /\ outage \in Maybe(Time)
          /\ ended \subseteq Ids /\ quiet \in BOOLEAN
        BY <1>4 DEF Init, Sound, Maybe
    <2> QED BY <2>1, <2>2, <2>3, <2>4 DEF SonosTypeOK
<1>7. Shapes /\ Guarded
    BY DEF Init, Shapes, TaskShape, Guarded, Holds, AsksSpeaker
<1>8. AllSound /\ Families
    BY <1>4, <1>5 DEF AllSound, Families
<1>9. Unborn
    BY <1>4, <1>5, NamesAreApart DEF Unborn, Init, Tasks
<1>10. \A r \in Requests : phase[r] = "idle"
    BY DEF Init, Tasks
<1>11. Alone /\ Silent
    BY <1>10 DEF Init, Alone, HasInserted, Silent, Stopping, Inserted, AsksSpeaker
<1>12. EndedStaysEnded /\ StopSilences
    BY DEF Init, EndedStaysEnded, StopSilences
<1> QED BY <1>6, <1>7, <1>8, <1>9, <1>11, <1>12 DEF IInv

LEMMA ArrivesKeeps ==
    ASSUME IInv, NEW r \in Requests, Arrives(r)
    PROVE  IInv'
<1>1. ASSUME NEW q \in Queues, NEW i \in 0 .. Len(q) - 1, Arrive(r, "play", q, i)
      PROVE  IInv'
    <2>1. q \in Seq(Entries)
        BY QueuesAreNotEmpty
    <2>2. i \in Nat /\ i < Len(q)
        BY <2>1
    <2>3. "play" \in AllKinds \ {"stop", "volume"}
        BY DEF AllKinds
    <2>4. q \in Maybe(Queues) /\ i \in Maybe(Nat)
        BY <2>2 DEF Maybe
    <2> QED BY <1>1, <2>2, <2>3, <2>4, ArriveKeeps
<1>2. ASSUME NEW k \in Commands \cup Skips, Arrive(r, k, None, None)
      PROVE  IInv'
    <2>1. k \in AllKinds \ {"stop", "volume"} /\ k # "play"
        BY DEF AllKinds, Commands, Skips
    <2>2. None \in Maybe(Queues) /\ None \in Maybe(Nat)
        BY DEF Maybe
    <2> QED BY <1>2, <2>1, <2>2, ArriveKeeps
<1>3. ASSUME NEW k \in {"stop", "volume"}, ArriveAtGuard(r, k)
      PROVE  IInv'
    BY <1>3, ArriveAtGuardKeeps
<1> QED BY <1>1, <1>2, <1>3 DEF Arrives

LEMMA TakesKeeps ==
    ASSUME IInv, NEW r \in Requests, Takes(r)
    PROVE  IInv'
<1>1. r \in Tasks
    BY DEF Tasks
<1> QED BY <1>1, PlayLocksKeeps, StopLocksKeeps, CommandLocksKeeps, VolumeLocksKeeps,
           HandoffLocksKeeps DEF Takes

LEMMA WorksKeeps ==
    ASSUME IInv, NEW r \in Requests, Works(r)
    PROVE  IInv'
<1>1. r \in Tasks
    BY DEF Tasks
<1>2. CASE \/ PlayLooks(r) \/ PlayChecks(r) \/ PlayRefused(r) \/ PlayInserts(r)
           \/ PlayFinishes(r) \/ CommandLooks(r) \/ CommandFinishes(r) \/ SkipLooks(r)
           \/ VolumeSends(r)
    BY <1>2, PlayLooksKeeps, PlayChecksKeeps, PlayRefusedKeeps, PlayInsertsKeeps,
       PlayFinishesKeeps, CommandLooksKeeps, CommandFinishesKeeps, SkipLooksKeeps,
       VolumeSendsKeeps
<1>3. CASE Turns(r) \/ TurnsNothing(r) \/ PreparesNothing(r) \/ Mints(r) \/ HandoffFinishes(r)
    BY <1>1, <1>3, TurnsKeeps, TurnsNothingKeeps, PreparesNothingKeeps, MintsKeeps,
       HandoffFinishesKeeps
<1>4. CASE \E out \in Outcomes :
               \/ PlayLoads(r, out) \/ PlayStarts(r, out) \/ PlaySeeks(r, out)
               \/ PlayUndoes(r, out)
               \/ StopSends(r, out) \/ CommandSends(r, out)
               \/ HandoffLoads(r, out) \/ HandoffStarts(r, out)
    BY <1>1, <1>4, PlayLoadsKeeps, PlayStartsKeeps, PlaySeeksKeeps, PlayUndoesKeeps,
       StopSendsKeeps, CommandSendsKeeps, HandoffLoadsKeeps, HandoffStartsKeeps
<1> QED BY <1>2, <1>3, <1>4 DEF Works

LEMMA ReconcilesKeeps ==
    ASSUME IInv, Reconciles
    PROVE  IInv'
<1>1. Reconciler \in Tasks
    BY DEF Tasks
<1>2. CASE PassBegins \/ PassChecks \/ PassVerifies \/ PassMisses \/ PassRefreshes
    BY <1>2, PassBeginsKeeps, PassChecksKeeps, PassVerifiesKeeps, PassMissesKeeps,
       PassRefreshesKeeps
<1>3. CASE \/ Turns(Reconciler) \/ TurnsNothing(Reconciler) \/ PreparesNothing(Reconciler)
           \/ Mints(Reconciler) \/ HandoffFinishes(Reconciler)
    BY <1>1, <1>3, TurnsKeeps, TurnsNothingKeeps, PreparesNothingKeeps, MintsKeeps,
       HandoffFinishesKeeps
<1>4. CASE \E out \in Outcomes :
               \/ HandoffLoads(Reconciler, out) \/ HandoffStarts(Reconciler, out)
               \/ HandoffSeeks(Reconciler, out)
    BY <1>1, <1>4, HandoffLoadsKeeps, HandoffStartsKeeps, HandoffSeeksKeeps
<1> QED BY <1>2, <1>3, <1>4 DEF Reconciles

LEMMA UnchangedKeeps ==
    ASSUME IInv, UNCHANGED vars
    PROVE  IInv'
<1>1. UNCHANGED <<managed, guard, phase, job, device, clock, ended, quiet, outage>>
    BY DEF vars, history
<1>2. Copies' = Copies
    BY <1>1 DEF Copies, Held
<1>3. SonosTypeOK' /\ Shapes' /\ Guarded' /\ StopSilences'
    BY <1>1 DEF IInv, SonosTypeOK, Shapes, Guarded, StopSilences
<1>4. AllSound' /\ Families' /\ Unborn'
    BY <1>1, <1>2 DEF IInv, AllSound, Families, Unborn
<1>5. Alone' /\ Silent' /\ EndedStaysEnded'
    BY <1>1 DEF IInv, Alone, HasInserted, Silent, Stopping, Harmless, EndedStaysEnded
<1> QED BY <1>3, <1>4, <1>5 DEF IInv

LEMMA StepIInv == IInv /\ [Next]_vars => IInv'
<1> SUFFICES ASSUME IInv, [Next]_vars PROVE IInv'
    OBVIOUS
<1>1. Reconciler \in Tasks
    BY DEF Tasks
<1>2. ASSUME NEW r \in Requests, Arrives(r) \/ Takes(r) \/ Works(r) \/ Cancel(r)
      PROVE  IInv'
    BY <1>2, ArrivesKeeps, TakesKeeps, WorksKeeps, CancelKeeps
<1>3. CASE Reconciles \/ HandoffLocks(Reconciler) \/ Tick
    BY <1>1, <1>3, ReconcilesKeeps, HandoffLocksKeeps, TickKeeps
<1>4. CASE UNCHANGED vars
    BY <1>4, UnchangedKeeps
<1> QED BY <1>2, <1>3, <1>4 DEF Next

LEMMA Invariance == Spec => []IInv
<1>1. QED BY InitIInv, StepIInv, PTL DEF Spec

\* Every variable keeps its type, among them the entry that is prepared for the
\* speaker: whatever skips and resumes race, it is one of the queues' entries.
THEOREM SonosTypes == Spec => []SonosTypeOK
<1>1. IInv => SonosTypeOK
    BY DEF IInv
<1> QED BY <1>1, Invariance, PTL

\* A signed URL that validates was signed for the session that is there.
THEOREM ClaimsAreNotLent == Spec => []ClaimsAreOfThisSession
<1>1. IInv => ClaimsAreOfThisSession
    BY DEF IInv, AllSound, Copies, Held, Sound, ClaimsAreOfThisSession
<1> QED BY <1>1, Invariance, PTL

\* A session that was stopped or has expired does not come back.
THEOREM EndedSessionsStayEnded == Spec => []EndedStaysEnded
<1>1. IInv => EndedStaysEnded
    BY DEF IInv
<1> QED BY <1>1, Invariance, PTL

\* Once a stop is answered, nothing that was under way before starts the speaker.
THEOREM StopsSilence == Spec => []StopSilences
<1>1. IInv => StopSilences
    BY DEF IInv
<1> QED BY <1>1, Invariance, PTL

\* No copy of a session has half of a status: what a rollback brings back is
\* whole.
THEOREM StatusesAreWhole == Spec => []StatusIsWhole
<1>1. IInv => StatusIsWhole
    BY DEF IInv, AllSound, Copies, Sound, StatusIsWhole
<1> QED BY <1>1, Invariance, PTL

\* The index of a session is inside its queue: a skip whose destination was
\* checked before its awaits, a resume, and a rollback of either turn the
\* session to an entry it has.
IndexInsideQueue == managed # None => managed.index < Len(managed.queue)

THEOREM SkipsStayInside == Spec => []IndexInsideQueue
<1>1. IInv => IndexInsideQueue
    BY DEF IInv, AllSound, Copies, Held, Sound, IndexInsideQueue
<1> QED BY <1>1, Invariance, PTL

-----------------------------------------------------------------------------
(* The reconnect window is not extended.                                   *)

SameTimes(s, u) == s.loss = u.loss /\ s.deadline = u.deadline

\* The session has the times of a copy, or none.
SessionTimes ==
    managed' # None => \/ managed'.loss = None /\ managed'.deadline = None
                       \/ \E u \in Copies : SameTimes(managed', u)

CopiesGrow == \A s \in Copies' : s \in Copies \/ s = managed'

\* A request leaves the reconciler and time alone.
Aside ==
    /\ phase'[Reconciler] = phase[Reconciler]
    /\ job'[Reconciler] = job[Reconciler]
    /\ clock' = clock

OutageStep == outage' = None \/ (outage' = outage /\ managed' = managed)

LEMMA AsideKeepsWindow ==
    ASSUME WindowInv, Aside, CopiesGrow, SessionTimes, OutageStep
    PROVE  WindowInv'
<1>1. Noted' = Noted /\ Resumes' = Resumes
    BY DEF Aside, Noted, Resumes
<1>2. ASSUME NEW s \in Copies'
      PROVE  NotedBy(s, Noted')
    BY <1>1 DEF Copies, WindowInv, PastLosses, CopiesGrow, SessionTimes, SameTimes, NotedBy
<1>3. PastLosses'
    BY <1>1, <1>2 DEF WindowInv, PastLosses, Aside, NotedBy
<1>4. OutageIsKept'
    BY <1>1 DEF WindowInv, OutageIsKept, OutageStep, Aside, LostBy, Matches
<1> QED BY <1>3, <1>4 DEF WindowInv

\* The frames of the steps of requests.
LEMMA RequestTasks == \A r \in Requests : r \in Tasks /\ r # Reconciler
BY NamesAreApart DEF Tasks

LEMMA JobAside ==
    ASSUME SonosTypeOK, NEW r \in Requests, NEW where, NEW new, Goto(r, where),
           job' = [job EXCEPT ![r] = new], clock' = clock,
           new.snap \in {None, job[r].snap, managed},
           new.back \in {None, job[r].back, managed}
    PROVE  Aside /\ CopiesGrow
<1>1. r \in Tasks /\ r # Reconciler /\ Reconciler \in Tasks
    BY RequestTasks DEF Tasks
<1>2. CopiesGrow
    BY <1>1, CopiesStep DEF CopiesGrow
<1> QED BY <1>1, <1>2 DEF Aside, Goto, SonosTypeOK

LEMMA LeaveAside ==
    ASSUME SonosTypeOK, NEW r \in Requests, Leave(r), clock' = clock
    PROVE  Aside /\ CopiesGrow
BY NoJobType, JobAside DEF Leave

LEMMA StayAside ==
    ASSUME SonosTypeOK, NEW r \in Requests, NEW where, Goto(r, where), UNCHANGED job,
           clock' = clock
    PROVE  Aside /\ CopiesGrow
<1>1. job' = [job EXCEPT ![r] = job[r]]
    BY RequestTasks DEF SonosTypeOK
<1> QED BY <1>1, JobAside

LEMMA SameSession ==
    ASSUME managed' = managed
    PROVE  SessionTimes
BY DEF SessionTimes, SameTimes, Copies, Held

\* A step of a request that leaves the session and its history alone.
LEMMA StillWindow ==
    ASSUME WindowInv, Aside, CopiesGrow, UNCHANGED <<managed, history>>
    PROVE  WindowInv'
BY SameSession, AsideKeepsWindow DEF OutageStep, history

LEMMA ExpireTimes ==
    ASSUME NEW now, ExpireTarget(now)
    PROVE  SessionTimes /\ OutageStep
BY SameSession DEF ExpireTarget, Unmanage, SessionTimes, OutageStep

LEMMA ArrivesWindow ==
    ASSUME IInv, WindowInv, NEW r \in Requests, Arrives(r)
    PROVE  WindowInv'
<1>1. SonosTypeOK
    BY DEF IInv
<1>2. ASSUME NEW k, NEW q, NEW i, Arrive(r, k, q, i)
      PROVE  WindowInv'
    <2> DEFINE new == [NoJob EXCEPT !.kind = k, !.queue = q, !.index = i]
    <2>1. new.snap = None /\ new.back = None
        BY DEF NoJob
    <2>2. Goto(r, "look") /\ job' = [job EXCEPT ![r] = new] /\ clock' = clock
        BY <1>2 DEF Arrive
    <2> HIDE DEF new
    <2>3. Aside /\ CopiesGrow
        BY <1>1, <2>1, <2>2, JobAside
    <2>4. SessionTimes /\ OutageStep
        BY <1>2, ExpireTimes DEF Arrive
    <2> QED BY <2>3, <2>4, AsideKeepsWindow
<1>3. ASSUME NEW k, ArriveAtGuard(r, k)
      PROVE  WindowInv'
    <2> DEFINE new == [NoJob EXCEPT !.kind = k]
    <2>1. new.snap = None /\ new.back = None
        BY DEF NoJob
    <2>2. Goto(r, "wait") /\ job' = [job EXCEPT ![r] = new] /\ clock' = clock
          /\ UNCHANGED <<managed, history>>
        BY <1>3 DEF ArriveAtGuard
    <2> HIDE DEF new
    <2>3. Aside /\ CopiesGrow
        BY <1>1, <2>1, <2>2, JobAside
    <2> QED BY <2>2, <2>3, StillWindow
<1> QED BY <1>2, <1>3 DEF Arrives

\* The other steps of requests that leave the session alone.
LEMMA LooksWindow ==
    ASSUME IInv, WindowInv, NEW r \in Requests,
           PlayLooks(r) \/ CommandLooks(r) \/ SkipLooks(r) \/ Mints(r)
    PROVE  WindowInv'
<1>1. SonosTypeOK /\ r \in Tasks /\ r # Reconciler /\ job[r] \in Job
    BY RequestTasks, TaskTypes DEF IInv
<1>2. UNCHANGED <<managed, history>> /\ clock' = clock
    BY DEF PlayLooks, CommandLooks, SkipLooks, Mints
<1>3. CASE Leave(r)
    BY <1>1, <1>2, <1>3, LeaveAside, StillWindow
<1>4. CASE ~Leave(r)
    <2>1. PICK where, new :
              /\ Goto(r, where)
              /\ job' = [job EXCEPT ![r] = new]
              /\ new.snap \in {None, job[r].snap, managed}
              /\ new.back \in {None, job[r].back, managed}
        <3>1. CASE PlayLooks(r)
            <4> DEFINE new == [job[r] EXCEPT !.gen = IF managed = None THEN 1
                                                     ELSE managed.gen + 1]
            <4>1. Goto(r, "wait") /\ job' = [job EXCEPT ![r] = new]
                BY <1>4, <3>1 DEF PlayLooks
            <4>2. new.snap = job[r].snap /\ new.back = job[r].back
                BY <1>1 DEF Job
            <4> QED BY <4>1, <4>2
        <3>2. CASE CommandLooks(r)
            <4> DEFINE new == [job[r] EXCEPT !.snap = managed]
            <4>1. Goto(r, "wait") /\ job' = [job EXCEPT ![r] = new]
                BY <1>4, <3>2 DEF CommandLooks
            <4>2. new.snap = managed /\ new.back = job[r].back
                BY <1>1 DEF Job
            <4> QED BY <4>1, <4>2
        <3>3. CASE SkipLooks(r)
            <4> DEFINE new == [job[r] EXCEPT !.snap = managed,
                                             !.index = Destination(managed, job[r].kind)]
            <4>1. Goto(r, "turn") /\ job' = [job EXCEPT ![r] = new]
                BY <1>4, <3>3 DEF SkipLooks
            <4>2. new.snap = managed /\ new.back = job[r].back
                BY <1>1 DEF Job
            <4> QED BY <4>1, <4>2
        <3>4. CASE Mints(r)
            <4> DEFINE new == [job[r] EXCEPT !.url = managed.prepared]
            <4>1. Goto(r, "wait") /\ job' = [job EXCEPT ![r] = new]
                BY <1>1, <1>4, <3>4 DEF Mints, Fail
            <4>2. new.snap = job[r].snap /\ new.back = job[r].back
                BY <1>1 DEF Job
            <4> QED BY <4>1, <4>2
        <3> QED BY <3>1, <3>2, <3>3, <3>4
    <2> QED BY <1>1, <1>2, <2>1, JobAside, StillWindow
<1> QED BY <1>3, <1>4

LEMMA PlainWindow ==
    ASSUME IInv, WindowInv, NEW r \in Requests,
           \/ PlayChecks(r) \/ PlayRefused(r) \/ PlayFinishes(r)
           \/ CommandLocks(r) \/ VolumeLocks(r) \/ VolumeSends(r)
           \/ TurnsNothing(r) \/ PreparesNothing(r) \/ HandoffLocks(r) \/ Cancel(r)
           \/ \E out \in Outcomes : PlayStarts(r, out) \/ PlaySeeks(r, out)
                                        \/ CommandSends(r, out)
    PROVE  WindowInv'
<1>1. SonosTypeOK /\ r # Reconciler
    BY RequestTasks DEF IInv
<1>2. UNCHANGED <<managed, history>> /\ clock' = clock
    BY DEF PlayChecks, PlayRefused, PlayFinishes, CommandLocks, VolumeLocks, VolumeSends,
           TurnsNothing, PreparesNothing, HandoffLocks, Cancel, PlayStarts, PlaySeeks,
           CommandSends
<1>3. Leave(r) \/ \E where : Goto(r, where) /\ UNCHANGED job
    BY <1>1
       DEF PlayChecks, PlayRefused, PlayFinishes, CommandLocks, VolumeLocks, VolumeSends,
           TurnsNothing, PreparesNothing, HandoffLocks, Cancel, PlayStarts, PlaySeeks,
           CommandSends, Fail
<1>4. Aside /\ CopiesGrow
    BY <1>1, <1>2, <1>3, LeaveAside, StayAside
<1> QED BY <1>2, <1>4, StillWindow

\* The steps of a request that write the session: what they leave of an outage
\* they leave with the session.
LEMMA WritesWindow ==
    ASSUME IInv, WindowInv, NEW r \in Requests,
           \/ PlayLocks(r) \/ PlayInserts(r) \/ StopLocks(r)
           \/ CommandFinishes(r) \/ Turns(r) \/ HandoffFinishes(r)
           \/ \E out \in Outcomes :
                  \/ PlayLoads(r, out) \/ PlayUndoes(r, out) \/ StopSends(r, out)
                  \/ HandoffLoads(r, out) \/ HandoffStarts(r, out)
    PROVE  WindowInv'
<1>1. SonosTypeOK /\ r \in Tasks /\ r # Reconciler /\ job[r] \in Job
    BY RequestTasks, TaskTypes DEF IInv
<1>2. CASE PlayLocks(r)
    <2>1. Aside /\ CopiesGrow
        BY <1>1, <1>2, StayAside DEF PlayLocks
    <2> QED BY <1>2, <2>1, ExpireTimes, AsideKeepsWindow DEF PlayLocks
<1>3. CASE PlayInserts(r)
    <2> DEFINE s0 == NewSession(r, job[r].gen, job[r].queue, job[r].index)
               new == [job[r] EXCEPT !.back = managed, !.url = s0.prepared]
    <2>1. Goto(r, "load") /\ job' = [job EXCEPT ![r] = new] /\ managed' = s0
          /\ outage' = None /\ clock' = clock
        BY <1>3 DEF PlayInserts
    <2>2. new.snap = job[r].snap /\ new.back = managed
        BY <1>1 DEF Job
    <2>3. SessionTimes /\ OutageStep
        BY <2>1 DEF SessionTimes, NewSession, OutageStep
    <2> HIDE DEF new
    <2>4. Aside /\ CopiesGrow
        BY <1>1, <2>1, <2>2, JobAside
    <2> QED BY <2>3, <2>4, AsideKeepsWindow
<1>4. CASE StopLocks(r)
    <2>1. Leave(r) \/ (Goto(r, "send") /\ UNCHANGED job)
        BY <1>4 DEF StopLocks
    <2>2. Aside /\ CopiesGrow
        BY <1>1, <1>4, <2>1, LeaveAside, StayAside DEF StopLocks
    <2>3. SessionTimes /\ OutageStep
        BY <1>4, SameSession DEF StopLocks, Unmanage, SessionTimes, OutageStep
    <2> QED BY <2>2, <2>3, AsideKeepsWindow
<1>5. CASE CommandFinishes(r)
    <2>1. Aside /\ CopiesGrow
        BY <1>1, <1>5, LeaveAside DEF CommandFinishes
    <2>2. SessionTimes /\ OutageStep
        <3>1. CASE ~Matches(job[r].snap)
            BY <1>5, <3>1, SameSession DEF CommandFinishes, Update, OutageStep
        <3>2. CASE Matches(job[r].snap)
            <4>1. managed \in Session
                BY <3>2, ManagedSound DEF Sound
            <4>2. managed' = Commanded(managed, job[r].kind) /\ outage' = None
                BY <1>5, <3>2 DEF CommandFinishes, Update
            <4>3. managed'.loss = None /\ managed'.deadline = None
                BY <4>1, <4>2 DEF Commanded, Confirmed, Session
            <4> QED BY <4>2, <4>3 DEF SessionTimes, OutageStep
        <3> QED BY <3>1, <3>2
    <2> QED BY <2>1, <2>2, AsideKeepsWindow
<1>6. CASE Turns(r)
    <2> DEFINE new == [job[r] EXCEPT !.back = managed]
    <2>1. Goto(r, "mint") /\ job' = [job EXCEPT ![r] = new] /\ outage' = None
          /\ clock' = clock
          /\ managed' = Turned(managed, job[r].snap, job[r].index, Entry(r))
        BY <1>1, <1>6 DEF Turns
    <2>2. new.snap = job[r].snap /\ new.back = managed
        BY <1>1 DEF Job
    <2>3. managed \in Session
        BY <1>6, ManagedSound DEF Turns, Sound
    <2>4. managed'.loss = None /\ managed'.deadline = None
        BY <2>1, <2>3 DEF Turned, Confirmed, Session
    <2>5. SessionTimes /\ OutageStep
        BY <2>1, <2>4 DEF SessionTimes, OutageStep
    <2> HIDE DEF new
    <2>6. Aside /\ CopiesGrow
        BY <1>1, <2>1, <2>2, JobAside
    <2> QED BY <2>5, <2>6, AsideKeepsWindow
<1>7. CASE HandoffFinishes(r)
    <2>1. Aside /\ CopiesGrow
        BY <1>1, <1>7, LeaveAside DEF HandoffFinishes
    <2>2. SessionTimes /\ OutageStep
        <3>1. CASE ~Matches(job[r].snap)
            BY <1>7, <3>1, SameSession DEF HandoffFinishes, Update, OutageStep
        <3>2. CASE Matches(job[r].snap)
            <4>1. managed \in Session
                BY <3>2, ManagedSound DEF Sound
            <4>2. managed' = Confirmed(managed) /\ outage' = None
                BY <1>1, <1>7, <3>2 DEF HandoffFinishes, Update
            <4>3. managed'.loss = None /\ managed'.deadline = None
                BY <4>1, <4>2 DEF Confirmed, Session
            <4> QED BY <4>2, <4>3 DEF SessionTimes, OutageStep
        <3> QED BY <3>1, <3>2
    <2> QED BY <2>1, <2>2, AsideKeepsWindow
<1>8. ASSUME NEW out \in Outcomes, PlayLoads(r, out) \/ PlayUndoes(r, out)
      PROVE  WindowInv'
    <2>1. Leave(r) \/ (Goto(r, "start") /\ UNCHANGED job)
        BY <1>8 DEF PlayLoads, PlayUndoes
    <2>2. Aside /\ CopiesGrow
        BY <1>1, <1>8, <2>1, LeaveAside, StayAside DEF PlayLoads, PlayUndoes
    <2>3. \/ managed' = job[r].back /\ outage' = None
          \/ managed' = managed /\ outage' = outage
        BY <1>8 DEF PlayLoads, PlayUndoes, PutBack
    <2>4. SessionTimes /\ OutageStep
        BY <1>1, <2>3, HeldCopies, SameSession DEF SessionTimes, SameTimes, OutageStep
    <2> QED BY <2>2, <2>4, AsideKeepsWindow
<1>9. ASSUME NEW out \in Outcomes, StopSends(r, out)
      PROVE  WindowInv'
    <2>1. Aside /\ CopiesGrow
        BY <1>1, <1>9, LeaveAside DEF StopSends
    <2>2. SessionTimes /\ OutageStep
        BY <1>9, SameSession DEF StopSends, OutageStep
    <2> QED BY <2>1, <2>2, AsideKeepsWindow
<1>10. ASSUME NEW out \in Outcomes, HandoffLoads(r, out) \/ HandoffStarts(r, out)
       PROVE  WindowInv'
    <2>1. Leave(r) \/ \E where : Goto(r, where) /\ UNCHANGED job
        BY <1>1, <1>10 DEF HandoffLoads, HandoffStarts, Fail
    <2>2. Aside /\ CopiesGrow
        BY <1>1, <1>10, <2>1, LeaveAside, StayAside DEF HandoffLoads, HandoffStarts
    <2>3. \/ RollsBack(r)
          \/ managed' = managed /\ outage' = outage
        BY <1>10 DEF HandoffLoads, HandoffStarts
    <2>4. CASE RollsBack(r) /\ Matches(job[r].snap)
        <3>1. job[r].back \in Copies
            <4>1. phase[r] \in AsksSpeaker /\ job[r].kind \in Skips \cup {"pass"}
                BY <1>10 DEF HandoffLoads, HandoffStarts, Handing, AsksSpeaker
            <4>2. HasBack(job[r])
                BY <1>1, <4>1, HandoffFacts DEF HandoffShape
            <4> QED BY <1>1, <4>2, NoneIsNoRecord, HeldCopies DEF HasBack
        <3>2. managed \in Session
            BY <2>4, ManagedSound DEF Sound
        <3>3. managed' = Restored(managed, job[r].back) /\ outage' = None
            BY <1>1, <2>4 DEF RollsBack, Update
        <3>4. SameTimes(managed', job[r].back)
            BY <3>2, <3>3 DEF Restored, Session, SameTimes
        <3>5. SessionTimes /\ OutageStep
            BY <3>1, <3>3, <3>4 DEF SessionTimes, OutageStep
        <3> QED BY <2>2, <3>5, AsideKeepsWindow
    <2>5. CASE RollsBack(r) /\ ~Matches(job[r].snap)
        <3>1. managed' = managed /\ outage' = None
            BY <1>1, <2>5 DEF RollsBack, Update
        <3> QED BY <2>2, <3>1, SameSession, AsideKeepsWindow DEF OutageStep
    <2>6. CASE managed' = managed /\ outage' = outage
        BY <2>2, <2>6, SameSession, AsideKeepsWindow DEF OutageStep
    <2> QED BY <2>3, <2>4, <2>5, <2>6
<1> QED BY <1>2, <1>3, <1>4, <1>5, <1>6, <1>7, <1>8, <1>9, <1>10

LEMMA RequestsKeepWindow ==
    ASSUME IInv, WindowInv, NEW r \in Requests,
           Arrives(r) \/ Takes(r) \/ Works(r) \/ Cancel(r)
    PROVE  WindowInv'
<1>1. CASE Arrives(r)
    BY <1>1, ArrivesWindow
<1>2. CASE Takes(r)
    BY <1>2, WritesWindow, PlainWindow DEF Takes
<1>3. CASE Works(r)
    BY <1>3, LooksWindow, WritesWindow, PlainWindow DEF Works
<1>4. CASE Cancel(r)
    BY <1>4, PlainWindow
<1> QED BY <1>1, <1>2, <1>3, <1>4

\* The steps of the reconciler that leave the session alone and do not end the
\* pass.  The time of the pass stays.
LEMMA PassGoesOnWindow ==
    ASSUME IInv, WindowInv, NEW where, NEW new, Goto(Reconciler, where),
           job' = [job EXCEPT ![Reconciler] = new], where # "idle",
           phase[Reconciler] # "idle",
           new.snap = job[Reconciler].snap, new.back = job[Reconciler].back,
           new.now = job[Reconciler].now,
           (where \in {"mint", "wait"} \cup AsksSpeaker) => Resumes,
           Resumes => \/ ~Matches(job[Reconciler].snap)
                      \/ where \in {"mint", "wait"} \cup AsksSpeaker,
           UNCHANGED <<managed, clock, history>>
    PROVE  WindowInv'
<1>1. SonosTypeOK /\ Reconciler \in Tasks
    BY DEF IInv, Tasks
<1>2. phase'[Reconciler] = where /\ job'[Reconciler] = new
    BY <1>1 DEF Goto, SonosTypeOK
<1>3. Noted' = Noted
    BY <1>2 DEF Noted
<1>4. CopiesGrow
    BY <1>1, CopiesStep DEF CopiesGrow
<1>5. PastLosses'
    BY <1>3, <1>4 DEF WindowInv, PastLosses, CopiesGrow, Copies, Held, NotedBy
<1>6. OutageIsKept'
    BY <1>2 DEF WindowInv, OutageIsKept, Resumes, Matches, LostBy, history
<1> QED BY <1>5, <1>6 DEF WindowInv

\* The end of a pass, when a later time may be noted.
LEMMA PassEnds ==
    ASSUME IInv, WindowInv, phase[Reconciler] # "idle", Leave(Reconciler),
           SessionTimes \/ NotedBy(managed', clock), clock' = clock,
           outage' # None => managed' # None /\ LostBy(managed', outage')
    PROVE  WindowInv'
<1>1. SonosTypeOK /\ Reconciler \in Tasks
    BY DEF IInv, Tasks
<1>2. phase'[Reconciler] = "idle"
    BY <1>1 DEF Leave, Rest, Goto, SonosTypeOK
<1>3. Noted' = clock /\ Noted <= clock /\ ~Resumes'
    BY <1>2 DEF Noted, WindowInv, PastLosses, Leave, Resumes, AsksSpeaker
<1>4. Noted \in Nat /\ clock \in Nat /\ Window \in Nat
    <2>1. job[Reconciler].now \in Time /\ clock \in Time
        BY <1>1, TaskTypes DEF SonosTypeOK
    <2> QED BY <2>1, BoundsAreNatural DEF Noted, Time
<1>5. CopiesGrow
    BY <1>1, NoJobType, CopiesStep DEF Leave, CopiesGrow
<1>6. ASSUME NEW s \in Copies
      PROVE  NotedBy(s, clock)
    <2>1. s \in Session /\ NotedBy(s, Noted)
        BY DEF IInv, AllSound, Sound, WindowInv, PastLosses
    <2>2. s.loss \in Maybe(Nat) /\ s.deadline \in Maybe(Nat)
        BY <1>4, <2>1, BoundsAreNatural DEF Session, Maybe, Time
    <2> QED BY <1>3, <1>4, <2>1, <2>2 DEF NotedBy, Maybe
<1>7. ASSUME NEW s \in Copies'
      PROVE  NotedBy(s, clock)
    BY <1>5, <1>6 DEF CopiesGrow, SessionTimes, SameTimes, NotedBy, Copies
<1>8. PastLosses'
    BY <1>3, <1>4, <1>7 DEF PastLosses, NotedBy
<1>9. OutageIsKept'
    BY <1>3 DEF OutageIsKept, LostBy
<1> QED BY <1>8, <1>9 DEF WindowInv

\* A handoff of the reconciler is a resume.
LEMMA ReconcilerResumes ==
    ASSUME IInv, WindowInv, phase[Reconciler] \in {"mint", "wait"} \cup AsksSpeaker
    PROVE  /\ Resumes /\ HasBack(job[Reconciler]) /\ job[Reconciler].back \in Copies
           /\ outage # None => /\ managed # None
                               /\ Matches(job[Reconciler].snap)
                               /\ LostBy(job[Reconciler].back, outage)
<1>1. phase[Reconciler] \notin {"idle", "done"}
    BY DEF AsksSpeaker
<1>2. HasBack(job[Reconciler])
    BY <1>1, ReconcilerPasses DEF PassShape, HandoffShape
<1> QED BY <1>2, NoneIsNoRecord, HeldCopies DEF HasBack, Tasks, Resumes, WindowInv, OutageIsKept

LEMMA PassStaysWindow ==
    ASSUME IInv, WindowInv, NEW where, Goto(Reconciler, where), UNCHANGED job,
           where # "idle", phase[Reconciler] # "idle",
           (where \in {"mint", "wait"} \cup AsksSpeaker) => Resumes,
           Resumes => \/ ~Matches(job[Reconciler].snap)
                      \/ where \in {"mint", "wait"} \cup AsksSpeaker,
           UNCHANGED <<managed, clock, history>>
    PROVE  WindowInv'
<1>1. job' = [job EXCEPT ![Reconciler] = job[Reconciler]]
    BY DEF IInv, SonosTypeOK, Tasks
<1> QED BY <1>1, PassGoesOnWindow

\* The pass is over and nothing was written.
LEMMA PassLeavesWindow ==
    ASSUME IInv, WindowInv, phase[Reconciler] # "idle", Leave(Reconciler),
           Resumes => ~Matches(job[Reconciler].snap),
           UNCHANGED <<managed, clock, history>>
    PROVE  WindowInv'
<1>1. outage' # None => managed' # None /\ LostBy(managed', outage')
    BY DEF WindowInv, OutageIsKept, history
<1> QED BY <1>1, SameSession, PassEnds

LEMMA PassBeginsWindow ==
    ASSUME IInv, WindowInv, PassBegins
    PROVE  WindowInv'
<1> DEFINE new == [NoJob EXCEPT !.kind = "pass", !.snap = managed, !.now = clock]
<1>1. SonosTypeOK /\ Reconciler \in Tasks
    BY DEF IInv, Tasks
<1>2. new.snap = managed /\ new.back = None /\ new.now = clock
    BY DEF NoJob
<1>3. /\ phase[Reconciler] = "idle" /\ phase' = [phase EXCEPT ![Reconciler] = "check"]
      /\ job' = [job EXCEPT ![Reconciler] = new]
      /\ UNCHANGED <<managed, clock, history>>
    BY DEF PassBegins, Goto
<1> HIDE DEF new
<1>4. phase'[Reconciler] = "check" /\ job'[Reconciler] = new
    BY <1>1, <1>3 DEF SonosTypeOK
<1>5. Noted = clock /\ Noted' = clock
    BY <1>2, <1>3, <1>4 DEF Noted
<1>6. CopiesGrow
    BY <1>1, <1>2, <1>3, CopiesStep DEF CopiesGrow
<1>7. PastLosses'
    BY <1>3, <1>5, <1>6 DEF WindowInv, PastLosses, CopiesGrow, Copies, Held, NotedBy
<1>8. ~Resumes /\ ~Resumes'
    BY <1>3, <1>4 DEF Resumes, AsksSpeaker
<1>9. OutageIsKept'
    BY <1>3, <1>8 DEF WindowInv, OutageIsKept, LostBy, history
<1> QED BY <1>7, <1>9 DEF WindowInv

LEMMA PassChecksWindow ==
    ASSUME IInv, WindowInv, PassChecks
    PROVE  WindowInv'
<1>1. phase[Reconciler] = "check" /\ ~Resumes
    BY DEF PassChecks, Resumes, AsksSpeaker
<1>2. CASE Leave(Reconciler) /\ Unmanage
    <2>1. SessionTimes /\ outage' = None /\ clock' = clock
        BY <1>2 DEF PassChecks, Unmanage, SessionTimes
    <2> QED BY <1>1, <1>2, <2>1, PassEnds
<1>3. CASE ~(Leave(Reconciler) /\ Unmanage)
    <2>1. Goto(Reconciler, "verify") /\ UNCHANGED job /\ UNCHANGED <<managed, clock, history>>
        BY <1>3 DEF PassChecks, history
    <2>2. "verify" \notin {"mint", "wait"} \cup AsksSpeaker
        BY DEF AsksSpeaker
    <2> QED BY <1>1, <2>1, <2>2, PassStaysWindow
<1> QED BY <1>2, <1>3

LEMMA PassVerifiesWindow ==
    ASSUME IInv, WindowInv, PassVerifies
    PROVE  WindowInv'
<1>1. phase[Reconciler] = "verify" /\ ~Resumes /\ UNCHANGED <<managed, clock, history>>
    BY DEF PassVerifies, Resumes, AsksSpeaker
<1>2. {"miss", "turn", "healthy"} \cap ({"mint", "wait"} \cup AsksSpeaker) = {}
    BY DEF AsksSpeaker
<1>3. CASE \E where \in {"miss", "turn"} : Goto(Reconciler, where) /\ UNCHANGED job
    BY <1>1, <1>2, <1>3, PassStaysWindow
<1>4. CASE /\ Goto(Reconciler, "healthy")
           /\ job' = [job EXCEPT ![Reconciler].playing = device.playing]
    <2> DEFINE new == [job[Reconciler] EXCEPT !.playing = device.playing]
    <2>1. job[Reconciler] \in Job
        BY <1>1, ReconcilerPasses
    <2>2. /\ job' = [job EXCEPT ![Reconciler] = new]
          /\ new.snap = job[Reconciler].snap /\ new.back = job[Reconciler].back
          /\ new.now = job[Reconciler].now
        BY <1>4, <2>1 DEF Job
    <2> HIDE DEF new
    <2> QED BY <1>1, <1>2, <1>4, <2>2, PassGoesOnWindow
<1> QED BY <1>3, <1>4 DEF PassVerifies

LEMMA PassRefreshesWindow ==
    ASSUME IInv, WindowInv, PassRefreshes
    PROVE  WindowInv'
<1> DEFINE j == job[Reconciler]
<1>1. phase[Reconciler] = "healthy" /\ ~Resumes /\ Leave(Reconciler)
      /\ clock' = clock
    BY DEF PassRefreshes, Resumes, AsksSpeaker
<1>2. CASE ~Matches(j.snap)
    <2>1. UNCHANGED <<managed, clock, history>>
        BY <1>2 DEF PassRefreshes, Update, history
    <2> QED BY <1>1, <2>1, PassLeavesWindow
<1>3. CASE Matches(j.snap)
    <2>1. managed \in Session
        BY <1>3, ManagedSound DEF Sound
    <2>2. managed' = [Confirmed(managed) EXCEPT !.advancing = j.playing] /\ outage' = None
        BY <1>3 DEF PassRefreshes, Update
    <2>3. SessionTimes
        BY <2>1, <2>2 DEF Confirmed, Session, SessionTimes
    <2> QED BY <1>1, <2>2, <2>3, PassEnds
<1> QED BY <1>2, <1>3

\* A miss notes the time of the pass as the loss, or makes of an earlier loss
\* the deadline that was counted from it.
LEMMA PassMissesWindow ==
    ASSUME IInv, WindowInv, PassMisses
    PROVE  WindowInv'
<1> DEFINE j == job[Reconciler]
<1>1. phase[Reconciler] = "miss" /\ ~Resumes /\ Leave(Reconciler)
      /\ clock' = clock /\ UNCHANGED <<ended, quiet>>
    BY DEF PassMisses, Resumes, AsksSpeaker
<1>2. CASE ~Matches(j.snap)
    <2>1. UNCHANGED <<managed, clock, history>>
        BY <1>1, <1>2 DEF PassMisses, Update, history
    <2> QED BY <1>1, <2>1, PassLeavesWindow
<1>3. CASE Matches(j.snap)
    <2> DEFINE since == IF outage = None THEN j.now ELSE outage
    <2>1. managed # None /\ Sound(managed) /\ managed \in Copies /\ managed \in Session
        BY <1>3, ManagedSound DEF Sound
    <2>2. Reconciler \in Tasks /\ SonosTypeOK /\ j.now \in Time /\ Noted = j.now
        BY <1>1, ReconcilerPasses, TaskTypes DEF Noted
    <2>3. managed' = Missed(managed, j.now) /\ outage' = since
        BY <1>3 DEF PassMisses, Update
    <2>4. Sound(managed') /\ managed' \in Session
        BY <2>1, <2>2, <2>3, MissedSound DEF Sound
    <2>5. /\ None \notin Nat /\ Window \in Nat /\ j.now \in Nat /\ since \in Nat
          /\ clock \in Nat /\ j.now <= clock
          /\ managed.loss \in Maybe(Nat) /\ managed.deadline \in Maybe(Nat)
        <3>1. /\ None \notin Nat /\ Window \in Nat /\ j.now \in Nat /\ clock \in Nat
              /\ outage \in Maybe(Nat)
              /\ managed.loss \in Maybe(Nat) /\ managed.deadline \in Maybe(Nat)
            BY <2>1, <2>2, BoundsAreNatural, NamesAreApart
               DEF Time, Session, Maybe, SonosTypeOK
        <3>2. j.now <= clock
            BY <2>2 DEF WindowInv, PastLosses
        <3>3. since \in Nat
            BY <3>1 DEF Maybe
        <3> QED BY <3>1, <3>2, <3>3
    <2>6. NotedBy(managed, j.now)
        BY <2>1, <2>2 DEF WindowInv, PastLosses
    <2>7. LostBy(managed, since) \/ outage = None
        BY <1>1 DEF WindowInv, OutageIsKept
    <2>8. outage = None => since = j.now
        OBVIOUS
    <2>9. /\ managed.loss # None => managed.status = "active"
          /\ managed.deadline # None <=> managed.status = "reconnecting"
          /\ managed.status \in {"active", "reconnecting"}
        BY <2>1 DEF Sound, Session
    <2> HIDE DEF since, j
    <2>10. NotedBy(managed', clock) /\ LostBy(managed', since)
        <3>1. CASE managed.status # "reconnecting" /\ managed.loss = None
            <4>1. managed' = [managed EXCEPT !.loss = j.now]
                BY <2>3, <3>1 DEF Missed
            <4>2. managed'.loss = j.now /\ managed'.deadline = None
                BY <2>1, <2>9, <3>1, <4>1 DEF Session
            <4>3. outage = None
                BY <2>7, <2>9, <3>1 DEF LostBy
            <4> QED BY <2>5, <2>8, <4>2, <4>3 DEF NotedBy, LostBy
        <3>2. CASE ~(managed.status # "reconnecting" /\ managed.loss = None)
            <4> DEFINE start == IF managed.loss = None THEN j.now ELSE managed.loss
                       end == IF managed.deadline = None THEN start + Window
                                                         ELSE managed.deadline
            <4>1. managed' = [managed EXCEPT !.status = "reconnecting", !.advancing = FALSE,
                                             !.loss = None, !.deadline = end]
                BY <2>1, <2>3, <3>2 DEF Missed, Session
            <4>2. managed'.loss = None /\ managed'.deadline = end
                BY <2>1, <4>1 DEF Session
            <4>3. CASE managed.deadline # None
                <5>1. end = managed.deadline /\ managed.loss = None /\ end \in Nat
                    BY <2>5, <2>9, <4>3 DEF Maybe
                <5>2. end <= j.now + Window /\ end <= since + Window
                    BY <2>6, <2>7, <2>8, <4>3, <5>1 DEF NotedBy, LostBy
                <5> HIDE DEF end
                <5> QED BY <2>5, <4>2, <5>1, <5>2 DEF NotedBy, LostBy
            <4>4. CASE managed.deadline = None
                <5>1. managed.loss \in Nat /\ managed.loss # None
                    BY <2>5, <2>9, <3>2, <4>4 DEF Maybe
                <5>2. end = managed.loss + Window
                    BY <4>4, <5>1
                <5>3. managed.loss <= j.now /\ managed.loss <= since
                    BY <2>6, <2>7, <2>8, <4>4, <5>1 DEF NotedBy, LostBy
                <5>4. end \in Nat /\ end <= j.now + Window /\ end <= since + Window
                    BY <2>5, <5>1, <5>2, <5>3
                <5> HIDE DEF end
                <5> QED BY <2>5, <4>2, <5>4 DEF NotedBy, LostBy
            <4> QED BY <4>3, <4>4
        <3> QED BY <3>1, <3>2
    <2>11. managed' # None
        BY <2>4, NoneIsNoRecord
    <2> QED BY <1>1, <2>3, <2>10, <2>11, PassEnds
<1> QED BY <1>2, <1>3

\* A resume begins: the session counts as active, and what it was is kept.
LEMMA ResumeTurnsWindow ==
    ASSUME IInv, WindowInv, Turns(Reconciler)
    PROVE  WindowInv'
<1> DEFINE j == job[Reconciler]
           new == [j EXCEPT !.back = managed]
<1>1. phase[Reconciler] = "turn" /\ ~Resumes /\ Matches(j.snap)
    BY DEF Turns, Resumes, AsksSpeaker
<1>2. SonosTypeOK /\ Reconciler \in Tasks /\ j \in Job
    BY <1>1, ReconcilerPasses
<1>3. managed \in Session /\ Kin(managed', managed) /\ managed' # None
    BY <1>2, TurnsSound, NoneIsNoRecord DEF Sound
<1>4. /\ phase' = [phase EXCEPT ![Reconciler] = "mint"]
      /\ job' = [job EXCEPT ![Reconciler] = new]
      /\ managed' = Turned(managed, j.snap, managed.index, Entry(Reconciler))
      /\ outage' = outage /\ clock' = clock
    BY DEF Turns, Goto
<1>5. new.snap = j.snap /\ new.back = managed /\ new.now = j.now
    BY <1>2 DEF Job
<1>6. managed'.loss = None /\ managed'.deadline = None /\ managed'.status = "active"
    BY <1>3, <1>4 DEF Turned, Confirmed, Session
<1> HIDE DEF new
<1>7. phase'[Reconciler] = "mint" /\ job'[Reconciler] = new
    BY <1>2, <1>4 DEF SonosTypeOK
<1>8. Noted' = Noted
    BY <1>1, <1>5, <1>7 DEF Noted
<1>9. CopiesGrow
    BY <1>2, <1>4, <1>5, CopiesStep DEF CopiesGrow
<1>10. PastLosses'
    BY <1>4, <1>6, <1>8, <1>9 DEF WindowInv, PastLosses, CopiesGrow, NotedBy
<1>11. OutageIsKept'
    BY <1>1, <1>3, <1>4, <1>5, <1>6, <1>7
       DEF WindowInv, OutageIsKept, Resumes, Matches, LostBy, Kin
<1> QED BY <1>10, <1>11 DEF WindowInv

LEMMA ResumeGivesUpWindow ==
    ASSUME IInv, WindowInv, TurnsNothing(Reconciler) \/ PreparesNothing(Reconciler)
    PROVE  WindowInv'
<1>1. phase[Reconciler] = "turn" /\ ~Resumes /\ UNCHANGED <<managed, clock, history>>
    BY DEF TurnsNothing, PreparesNothing, Resumes, AsksSpeaker
<1>2. CASE TurnsNothing(Reconciler)
    BY <1>1, <1>2, PassLeavesWindow DEF TurnsNothing
<1>3. CASE PreparesNothing(Reconciler)
    <2>1. Goto(Reconciler, "miss") /\ UNCHANGED job
        BY <1>3 DEF PreparesNothing, Fail
    <2>2. "miss" \notin {"mint", "wait"} \cup AsksSpeaker
        BY DEF AsksSpeaker
    <2> QED BY <1>1, <2>1, <2>2, PassStaysWindow
<1> QED BY <1>2, <1>3

LEMMA ResumeMintsWindow ==
    ASSUME IInv, WindowInv, Mints(Reconciler)
    PROVE  WindowInv'
<1> DEFINE j == job[Reconciler]
           new == [j EXCEPT !.url = managed.prepared]
<1>1. phase[Reconciler] = "mint" /\ Resumes /\ UNCHANGED <<managed, clock, history>>
    BY DEF Mints, Resumes
<1>2. CASE ~Matches(j.snap)
    <2>1. Goto(Reconciler, "miss") /\ UNCHANGED job
        BY <1>2 DEF Mints, Fail
    <2> QED BY <1>1, <1>2, <2>1, PassStaysWindow
<1>3. CASE Matches(j.snap)
    <2>1. j \in Job
        BY <1>1, ReconcilerPasses
    <2>2. Goto(Reconciler, "wait") /\ job' = [job EXCEPT ![Reconciler] = new]
          /\ new.snap = j.snap /\ new.back = j.back /\ new.now = j.now
        BY <1>3, <2>1 DEF Mints, Job
    <2> HIDE DEF new
    <2> QED BY <1>1, <2>2, PassGoesOnWindow
<1> QED BY <1>2, <1>3

LEMMA ResumeLocksWindow ==
    ASSUME IInv, WindowInv, HandoffLocks(Reconciler)
    PROVE  WindowInv'
<1>1. phase[Reconciler] = "wait" /\ Resumes /\ UNCHANGED <<managed, clock, history>>
    BY DEF HandoffLocks, Locks, Resumes
<1>2. CASE ~Matches(job[Reconciler].snap)
    BY <1>1, <1>2, PassLeavesWindow DEF HandoffLocks
<1>3. CASE Matches(job[Reconciler].snap)
    <2>1. Goto(Reconciler, "load") /\ UNCHANGED job
        BY <1>3 DEF HandoffLocks
    <2> QED BY <1>1, <2>1, PassStaysWindow DEF AsksSpeaker
<1> QED BY <1>2, <1>3

\* A resume that failed puts back a session that is lost as it was.
LEMMA ResumeRollsBackWindow ==
    ASSUME IInv, WindowInv, phase[Reconciler] \in AsksSpeaker,
           RollsBack(Reconciler), Fail(Reconciler), clock' = clock
    PROVE  WindowInv'
<1> DEFINE j == job[Reconciler]
<1>1. /\ Resumes /\ HasBack(j) /\ j.back \in Copies
      /\ outage # None => managed # None /\ Matches(j.snap) /\ LostBy(j.back, outage)
    BY ReconcilerResumes
<1>2. phase[Reconciler] \notin {"idle", "done"}
    BY DEF AsksSpeaker
<1>3. SonosTypeOK /\ Reconciler \in Tasks /\ j.kind = "pass"
    BY <1>2, ReconcilerPasses
<1>4. Goto(Reconciler, "miss") /\ UNCHANGED job /\ outage' = outage
    BY DEF Fail, RollsBack
<1>5. phase'[Reconciler] = "miss" /\ job'[Reconciler] = j
    BY <1>3, <1>4 DEF Goto, SonosTypeOK
<1>6. Noted' = Noted /\ ~Resumes'
    BY <1>2, <1>4, <1>5 DEF Noted, Resumes, AsksSpeaker
<1>7. CASE ~Matches(j.snap)
    <2>1. managed' = managed
        BY <1>7 DEF RollsBack, Update
    <2>2. PastLosses'
        BY <1>4, <1>6, <2>1 DEF WindowInv, PastLosses, Copies, Held, NotedBy
    <2> QED BY <1>1, <1>4, <1>7, <2>2 DEF WindowInv, OutageIsKept
<1>8. CASE Matches(j.snap)
    <2>1. managed' = Restored(managed, j.back)
        BY <1>8 DEF RollsBack, Update
    <2>2. managed \in Session
        BY <1>8, ManagedSound DEF Sound
    <2>3. managed'.loss = j.back.loss /\ managed'.deadline = j.back.deadline
        BY <2>1, <2>2 DEF Restored, Session
    <2>4. managed' # None
        <3>1. Sound(managed) /\ managed \in Copies
            BY <1>8, ManagedSound
        <3>2. Sound(j.back) /\ Kin(j.back, managed)
            BY <1>1, <1>8, <3>1 DEF IInv, AllSound, Families, Kin, HasBack, Matches
        <3> QED BY <2>1, <3>1, <3>2, RestoredSound, NoneIsNoRecord DEF Sound
    <2>5. PastLosses'
        BY <1>1, <1>4, <1>6, <2>3 DEF WindowInv, PastLosses, Copies, Held, NotedBy
    <2>6. OutageIsKept'
        BY <1>1, <1>4, <1>6, <2>3, <2>4 DEF OutageIsKept, LostBy
    <2> QED BY <2>5, <2>6 DEF WindowInv
<1> QED BY <1>7, <1>8

LEMMA ResumeSpeaksWindow ==
    ASSUME IInv, WindowInv, NEW out \in Outcomes,
           \/ HandoffLoads(Reconciler, out) \/ HandoffStarts(Reconciler, out)
           \/ HandoffSeeks(Reconciler, out)
    PROVE  WindowInv'
<1>1. phase[Reconciler] \in AsksSpeaker /\ Resumes /\ clock' = clock
      /\ phase[Reconciler] # "idle"
    BY DEF HandoffLoads, HandoffStarts, HandoffSeeks, Resumes, AsksSpeaker
<1>2. \/ RollsBack(Reconciler) /\ Fail(Reconciler)
      \/ /\ UNCHANGED <<managed, history>>
         /\ \/ Leave(Reconciler) /\ ~Matches(job[Reconciler].snap)
            \/ \E where \in AsksSpeaker : Goto(Reconciler, where) /\ UNCHANGED job
    BY DEF HandoffLoads, HandoffStarts, HandoffSeeks, history, AsksSpeaker
<1>3. CASE RollsBack(Reconciler) /\ Fail(Reconciler)
    BY <1>1, <1>3, ResumeRollsBackWindow
<1>4. CASE /\ UNCHANGED <<managed, history>>
           /\ Leave(Reconciler) /\ ~Matches(job[Reconciler].snap)
    BY <1>1, <1>4, PassLeavesWindow
<1>5. CASE /\ UNCHANGED <<managed, history>>
           /\ \E where \in AsksSpeaker : Goto(Reconciler, where) /\ UNCHANGED job
    <2>1. "idle" \notin AsksSpeaker
        BY DEF AsksSpeaker
    <2> QED BY <1>1, <1>5, <2>1, PassStaysWindow
<1> QED BY <1>2, <1>3, <1>4, <1>5

LEMMA ResumeFinishesWindow ==
    ASSUME IInv, WindowInv, HandoffFinishes(Reconciler)
    PROVE  WindowInv'
<1>1. phase[Reconciler] = "finish" /\ Leave(Reconciler) /\ clock' = clock
      /\ UNCHANGED <<ended, quiet>>
    BY DEF HandoffFinishes
<1>2. CASE ~Matches(job[Reconciler].snap)
    <2>1. UNCHANGED <<managed, clock, history>>
        BY <1>1, <1>2 DEF HandoffFinishes, Update, history
    <2> QED BY <1>1, <1>2, <2>1, PassLeavesWindow
<1>3. CASE Matches(job[Reconciler].snap)
    <2>1. managed \in Session
        BY <1>3, ManagedSound DEF Sound
    <2>2. managed' = [Confirmed(managed) EXCEPT !.advancing = TRUE] /\ outage' = None
        BY <1>3 DEF HandoffFinishes, Update
    <2>3. SessionTimes
        BY <2>1, <2>2 DEF Confirmed, Session, SessionTimes
    <2> QED BY <1>1, <2>2, <2>3, PassEnds
<1> QED BY <1>2, <1>3

LEMMA TickWindow ==
    ASSUME IInv, WindowInv, Tick
    PROVE  WindowInv'
<1>1. UNCHANGED <<managed, phase, job, outage>> /\ clock' = clock + 1
    BY DEF Tick, history
<1>2. SonosTypeOK /\ Reconciler \in Tasks
    BY DEF IInv, Tasks
<1>3. Noted \in Nat /\ clock \in Nat /\ Window \in Nat
    <2>1. job[Reconciler].now \in Time /\ clock \in Time
        BY <1>2, TaskTypes DEF SonosTypeOK
    <2> QED BY <2>1, BoundsAreNatural DEF Noted, Time
<1>4. Noted' \in Nat /\ Noted <= Noted' /\ Noted' <= clock'
    BY <1>1, <1>3 DEF Noted, WindowInv, PastLosses
<1>5. Copies' = Copies
    BY <1>1 DEF Copies, Held
<1>6. ASSUME NEW s \in Copies
      PROVE  NotedBy(s, Noted')
    <2>1. s \in Session /\ NotedBy(s, Noted)
        BY DEF IInv, AllSound, Sound, WindowInv, PastLosses
    <2>2. s.loss \in Maybe(Nat) /\ s.deadline \in Maybe(Nat)
        BY <1>3, <2>1, BoundsAreNatural DEF Session, Maybe, Time
    <2> QED BY <1>3, <1>4, <2>1, <2>2 DEF NotedBy, Maybe
<1>7. PastLosses'
    BY <1>4, <1>5, <1>6 DEF PastLosses, NotedBy
<1>8. OutageIsKept'
    BY <1>1 DEF WindowInv, OutageIsKept, Resumes, Matches, LostBy
<1> QED BY <1>7, <1>8 DEF WindowInv

LEMMA InitWindow == Init => WindowInv
<1> SUFFICES ASSUME Init PROVE WindowInv
    OBVIOUS
<1>1. managed.loss = None /\ managed.deadline = None
    BY DEF Init, NewSession
<1>2. \A s \in Copies : s = managed
    BY NoJobType DEF Copies, Held, Init
<1>3. Noted = clock /\ clock = 0
    BY DEF Noted, Init, Tasks
<1>4. PastLosses
    BY <1>1, <1>2, <1>3 DEF PastLosses, NotedBy
<1> QED BY <1>4 DEF WindowInv, OutageIsKept, Init

LEMMA StepWindow == IInv /\ WindowInv /\ [Next]_vars => WindowInv'
<1> SUFFICES ASSUME IInv, WindowInv, [Next]_vars PROVE WindowInv'
    OBVIOUS
<1>1. ASSUME NEW r \in Requests, Arrives(r) \/ Takes(r) \/ Works(r) \/ Cancel(r)
      PROVE  WindowInv'
    BY <1>1, RequestsKeepWindow
<1>2. CASE Reconciles
    BY <1>2, PassBeginsWindow, PassChecksWindow, PassVerifiesWindow, PassMissesWindow,
       PassRefreshesWindow, ResumeTurnsWindow, ResumeGivesUpWindow, ResumeMintsWindow,
       ResumeSpeaksWindow, ResumeFinishesWindow DEF Reconciles
<1>3. CASE HandoffLocks(Reconciler) \/ Tick
    BY <1>3, ResumeLocksWindow, TickWindow
<1>4. CASE UNCHANGED vars
    <2>1. UNCHANGED <<managed, phase, job, clock, outage>>
        BY <1>4 DEF vars, history
    <2> QED BY <2>1 DEF WindowInv, PastLosses, Noted, NotedBy, Copies, Held, OutageIsKept,
                        Resumes, Matches, LostBy
<1> QED BY <1>1, <1>2, <1>3, <1>4 DEF Next

\* Resumes that fail do not renew the reconnect window: it is counted from the
\* first miss of the outage, however often the session was active in between.
THEOREM WindowsAreNotExtended == Spec => []WindowNotExtended
<1>1. IInv /\ WindowInv => WindowNotExtended
    <2> SUFFICES ASSUME IInv, WindowInv, IsReconnecting, outage # None
                 PROVE  managed.deadline <= outage + Window
        BY DEF WindowNotExtended
    <2>1. managed \in Copies /\ managed.status = "reconnecting"
        BY DEF IsReconnecting, Copies, Held
    <2>2. LostBy(managed, outage)
        BY <2>1 DEF WindowInv, OutageIsKept
    <2> QED BY <2>1, <2>2 DEF IInv, AllSound, Sound, LostBy
<1> QED BY <1>1, InitWindow, StepWindow, Invariance, PTL DEF Spec

=============================================================================
