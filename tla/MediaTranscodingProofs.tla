------------------------ MODULE MediaTranscodingProofs ------------------------
(***************************************************************************)
(* What the transcode handlers keep, for any number of requests, renditions *)
(* and limits: they are an implementation of the slot pool, one request at  *)
(* a time generates a rendition, and no ffmpeg runs without a slot.         *)
(***************************************************************************)
EXTENDS MediaTranscoding, FiniteSetTheorems, TLAPS

-----------------------------------------------------------------------------
(* What the slot pool promises by itself, for any requests and any limits.  *)

(* The inductive invariant: the counter of the code against the set. *)
AdmissionInv == AdmissionTypeOK /\ SlotAccounting

(* The slots alive are finitely many, so Cardinality counts them. *)
LEMMA SlotsFinite ==
  ASSUME AdmissionTypeOK
  PROVE  IsFiniteSet(slots) /\ Cardinality(slots) \in Nat
BY RequestsFinite, FS_Subset, FS_CardinalityType DEF AdmissionTypeOK

(* Granting a slot moves the counter and the set together. *)
LEMMA AcquireKeepsInv ==
  ASSUME AdmissionInv, NEW r \in Requests, TryAcquire(r)
  PROVE  AdmissionInv'
<1>1. IsFiniteSet(slots)
  BY SlotsFinite DEF AdmissionInv
<1>2. Cardinality(slots') = Cardinality(slots) + 1
  BY <1>1, FS_AddElement DEF TryAcquire
<1>3. QED
  BY <1>2 DEF AdmissionInv, AdmissionTypeOK, SlotAccounting, TryAcquire

(* Dropping one does too; the counter is positive, since a slot is alive. *)
LEMMA DropKeepsInv ==
  ASSUME AdmissionInv, NEW r \in Requests, SlotDrop(r)
  PROVE  AdmissionInv' /\ in_use > 0
<1>1. IsFiniteSet(slots) /\ Cardinality(slots) \in Nat
  BY SlotsFinite DEF AdmissionInv
<1>2. Cardinality(slots') = Cardinality(slots) - 1
  BY <1>1, FS_RemoveElement DEF SlotDrop
<1>3. Cardinality(slots) # 0
  BY <1>1, FS_EmptySet DEF SlotDrop
<1>4. QED
  BY <1>1, <1>2, <1>3 DEF AdmissionInv, AdmissionTypeOK, SlotAccounting, SlotDrop

(* Every step of the pool keeps the invariant. *)
LEMMA AdmissionStep ==
  ASSUME AdmissionInv, [AdmissionNext]_admissionVars
  PROVE  AdmissionInv'
<1>1. ASSUME NEW r \in Requests, TryAcquire(r) PROVE AdmissionInv'
  BY <1>1, AcquireKeepsInv
<1>2. ASSUME NEW r \in Requests, SlotDrop(r) PROVE AdmissionInv'
  BY <1>2, DropKeepsInv
<1>3. ASSUME NEW l \in Limits, SetLimit(l) PROVE AdmissionInv'
  BY <1>3, LimitsAreNat DEF SetLimit, AdmissionInv, AdmissionTypeOK, SlotAccounting
<1>4. CASE UNCHANGED admissionVars
  BY <1>4 DEF admissionVars, AdmissionInv, AdmissionTypeOK, SlotAccounting
<1>5. QED
  BY <1>1, <1>2, <1>3, <1>4 DEF AdmissionNext

(* The initial pool satisfies it: nothing is granted yet. *)
LEMMA AdmissionStart == AdmissionInit => AdmissionInv
BY LimitsAreNat, FS_EmptySet
   DEF AdmissionInit, AdmissionInv, AdmissionTypeOK, SlotAccounting

(* In every behaviour of the pool the in_use counter is the number of     *)
(* slots alive, so TranscodeSlot::drop never underflows it.                *)
THEOREM AdmissionAccounting == AdmissionSpec => [](AdmissionTypeOK /\ SlotAccounting)
<1>1. AdmissionInv /\ [AdmissionNext]_admissionVars => AdmissionInv'
  BY AdmissionStep
<1>2. QED
  BY AdmissionStart, <1>1, PTL DEF AdmissionSpec, AdmissionInv

(* In every behaviour try_acquire grants a slot only while fewer are alive *)
(* than the limit allows: the hard server-side slot limit.                 *)
THEOREM AdmissionHardLimit == AdmissionSpec => HardLimit
<1> DEFINE Grant == slots' \subseteq slots
                      \/ (Cardinality(slots) < limit
                            /\ \E r \in Requests : slots' = slots \cup {r})
<1>1. ASSUME AdmissionInv, [AdmissionNext]_admissionVars
      PROVE  [Grant]_admissionVars
  <2>1. ASSUME NEW r \in Requests, TryAcquire(r) PROVE Grant
    BY <1>1, <2>1 DEF TryAcquire, AdmissionInv, SlotAccounting
  <2>2. ASSUME NEW r \in Requests, SlotDrop(r) PROVE Grant
    BY <2>2 DEF SlotDrop
  <2>3. ASSUME NEW l \in Limits, SetLimit(l) PROVE Grant
    BY <2>3 DEF SetLimit
  <2>4. QED
    BY <1>1, <2>1, <2>2, <2>3 DEF AdmissionNext
<1>2. AdmissionSpec => []AdmissionInv
  BY AdmissionAccounting, PTL DEF AdmissionInv
<1>3. QED
  BY <1>1, <1>2, PTL DEF AdmissionSpec, HardLimit

-----------------------------------------------------------------------------
(* The refinement.                                                          *)

(* Whatever a handler does between two awaits, the pool grants one slot,    *)
(* takes one back, or is left alone.                                        *)
LEMMA HandlersUseThePool ==
  ASSUME NEW r \in Requests, HandlerStep(r)
  PROVE  [AdmissionNext]_admissionVars
<1>1. CASE Lookup(r) \/ Read(r) \/ JoinOrStart(r) \/ Wake(r) \/ DownloadPublish(r)
  BY <1>1 DEF Lookup, Read, JoinOrStart, Wake, DownloadPublish
<1>2. CASE Admit(r)
  BY <1>2 DEF Admit, AdmissionNext
<1>3. CASE Spawn(r)
  BY <1>3 DEF Spawn, AdmissionNext
<1>4. CASE StreamDrop(r)
  BY <1>4 DEF StreamDrop, AdmissionNext
<1>5. CASE DownloadExited(r)
  BY <1>5 DEF DownloadExited, AdmissionNext
<1>6. CASE ManifestReady(r)
  BY <1>6 DEF ManifestReady, AdmissionNext
<1>7. CASE HlsPublish(r)
  BY <1>7 DEF HlsPublish, YieldToPublished, MoveIntoPlace, Abandon, AdmissionNext
<1>8. QED
  BY <1>1, <1>2, <1>3, <1>4, <1>5, <1>6, <1>7 DEF HandlerStep

(* So does every other step: of ffmpeg, of the tasks that reap it, of a      *)
(* client that goes and of the administrator.                               *)
LEMMA StepsUseThePool ==
  ASSUME [MediaNext]_vars
  PROVE  [AdmissionNext]_admissionVars
<1>1. ASSUME NEW r \in Requests, NEW k \in Renditions \cup {Direct}, Arrive(r, k)
      PROVE  [AdmissionNext]_admissionVars
  BY <1>1 DEF Arrive
<1>2. ASSUME NEW r \in Requests, HandlerStep(r) PROVE [AdmissionNext]_admissionVars
  BY <1>2, HandlersUseThePool
<1>3. ASSUME NEW r \in Requests, WriteManifest(r) PROVE [AdmissionNext]_admissionVars
  BY <1>3 DEF WriteManifest
<1>4. ASSUME NEW r \in Requests, BackgroundStep(r) PROVE [AdmissionNext]_admissionVars
  BY <1>4 DEF BackgroundStep, Exit, Reap, CleanUp, OrphanRuns, AdmissionNext
<1>5. ASSUME NEW r \in Requests, Cancel(r) PROVE [AdmissionNext]_admissionVars
  BY <1>5 DEF Cancel, AdmissionNext
<1>6. ASSUME NEW l \in Limits, ChangeLimit(l) PROVE [AdmissionNext]_admissionVars
  BY <1>6 DEF ChangeLimit, AdmissionNext
<1>7. CASE UNCHANGED vars
  BY <1>7 DEF vars, admissionVars
<1>8. QED
  BY <1>1, <1>2, <1>3, <1>4, <1>5, <1>6, <1>7 DEF MediaNext

(* The transcode handlers implement the slot pool: the variables of the pool *)
(* are theirs, and each of their steps is a step of it or none.             *)
THEOREM MediaImplementsAdmission == MediaSpec => AdmissionSpec
<1>1. MediaInit => AdmissionInit
  BY DEF MediaInit
<1>2. [MediaNext]_vars => [AdmissionNext]_admissionVars
  BY StepsUseThePool
<1>3. QED
  BY <1>1, <1>2, PTL DEF MediaSpec, AdmissionSpec

(* Hence no path of a handler, cancelled or not, loses a slot or gives one   *)
(* back twice.                                                              *)
THEOREM MediaAccounting == MediaSpec => [](AdmissionTypeOK /\ SlotAccounting)
BY MediaImplementsAdmission, AdmissionAccounting, PTL

-----------------------------------------------------------------------------
(* One generation per rendition.                                            *)

States == {"idle", "lookup", "read", "join", "waiting", "stream"} \cup Guarded \cup Finished

(* OneGeneration does not keep itself: who joins takes the guard of the      *)
(* rendition it asked for, so the guard must name it, and who has not got    *)
(* there yet must have asked for a rendition.                               *)
GuardsFit ==
  /\ pc \in [Requests -> States]
  /\ rendition \in [Requests -> Renditions \cup {Direct, NoRendition}]
  /\ generations \in [Renditions -> Requests \cup {NoRequest}]
  /\ \A r \in Requests : pc[r] \in {"lookup", "join", "waiting"} => rendition[r] \in Renditions
  /\ \A r \in Requests : pc[r] \in Guarded => rendition[r] \in Renditions \cup {Direct}
  /\ \A r \in Requests, k \in Renditions :
       generations[k] = r <=> (pc[r] \in Guarded /\ rendition[r] = k)

(* A handler that goes to a state without a guard, dropping the one it had.  *)
LEMMA EndKeepsGuards ==
  ASSUME GuardsFit, NEW r \in Requests,
         NEW state \in {"read", "rejected", "failed", "served", "cancelled"},
         EndGuarded(r, state), UNCHANGED rendition
  PROVE  GuardsFit'
BY RenditionsDistinct DEF GuardsFit, EndGuarded, Goto, DropGuard, Guarded, States, Finished

(* A handler that moves on without touching a guard, and without coming into *)
(* or out of those states.                                                  *)
LEMMA MoveKeepsGuards ==
  ASSUME GuardsFit, NEW r \in Requests, NEW state \in States, Goto(r, state),
         UNCHANGED <<rendition, generations>>,
         state \in Guarded <=> pc[r] \in Guarded,
         state \in {"lookup", "join", "waiting"} => rendition[r] \in Renditions
  PROVE  GuardsFit'
BY RenditionsDistinct DEF GuardsFit, Goto, Guarded

(* A step that moves no handler. *)
LEMMA RestKeepsGuards ==
  ASSUME GuardsFit, UNCHANGED <<pc, rendition, generations>>
  PROVE  GuardsFit'
BY DEF GuardsFit

(* A request that arrives; nobody holds a guard in its name. *)
LEMMA ArriveKeepsGuards ==
  ASSUME GuardsFit, NEW r \in Requests, NEW k \in Renditions \cup {Direct}, Arrive(r, k)
  PROVE  GuardsFit'
BY RenditionsDistinct DEF GuardsFit, Arrive, Goto, Guarded, States, guardVars

(* A coordinator that is asked for a rendition. *)
LEMMA JoinKeepsGuards ==
  ASSUME GuardsFit, NEW r \in Requests, JoinOrStart(r)
  PROVE  GuardsFit'
<1>1. rendition[r] \in Renditions
  BY DEF GuardsFit, JoinOrStart
<1>2. CASE generations[rendition[r]] = NoRequest
  BY <1>1, <1>2, RenditionsDistinct DEF GuardsFit, JoinOrStart, Goto, Guarded, States
<1>3. CASE generations[rendition[r]] # NoRequest
  BY <1>1, <1>3, RenditionsDistinct DEF GuardsFit, JoinOrStart, Goto, Guarded, States
<1>4. QED
  BY <1>2, <1>3

(* Every step of a handler. *)
LEMMA HandlersKeepGuards ==
  ASSUME GuardsFit, NEW r \in Requests, HandlerStep(r)
  PROVE  GuardsFit'
<1>1. CASE Lookup(r)
  BY <1>1, MoveKeepsGuards DEF Lookup, GuardsFit, Goto, Guarded, States, guardVars
<1>2. CASE Read(r)
  BY <1>2, MoveKeepsGuards DEF Read, Goto, Guarded, Finished, States, guardVars
<1>3. CASE JoinOrStart(r)
  BY <1>3, JoinKeepsGuards
<1>4. CASE Wake(r)
  BY <1>4, MoveKeepsGuards DEF Wake, GuardsFit, Guarded, States, guardVars
<1>5. CASE Admit(r)
  BY <1>5, EndKeepsGuards, MoveKeepsGuards DEF Admit, Guarded, States, guardVars
<1>6. CASE Spawn(r)
  <2>1. CASE EndGuarded(r, "failed")
    BY <1>6, <2>1, EndKeepsGuards DEF Spawn
  <2>2. CASE /\ Goto(r, IF rendition[r] = Direct THEN "stream" ELSE "generate")
             /\ UNCHANGED guardVars
    BY <1>6, <2>2, RenditionsDistinct DEF Spawn, Goto, GuardsFit, Guarded, States, guardVars
  <2>3. QED
    BY <1>6, <2>1, <2>2 DEF Spawn
<1>7. CASE StreamDrop(r)
  BY <1>7, MoveKeepsGuards DEF StreamDrop, Guarded, Finished, States, guardVars
<1>8. CASE DownloadExited(r)
  BY <1>8, EndKeepsGuards, MoveKeepsGuards DEF DownloadExited, Guarded, States, guardVars
<1>9. CASE DownloadPublish(r)
  BY <1>9, EndKeepsGuards DEF DownloadPublish
<1>10. CASE ManifestReady(r)
  BY <1>10, EndKeepsGuards, MoveKeepsGuards DEF ManifestReady, Guarded, States, guardVars
<1>11. CASE HlsPublish(r)
  <2>1. CASE YieldToPublished(r) \/ MoveIntoPlace(r) \/ Abandon(r)
    BY <1>11, <2>1, EndKeepsGuards DEF HlsPublish, YieldToPublished, MoveIntoPlace, Abandon
  <2>2. ASSUME NEW state \in {"rename", "reprobe", "clear", "rename_again"},
               Goto(r, state), UNCHANGED guardVars,
               pc[r] \in {"probe", "rename", "reprobe", "clear"}
        PROVE  GuardsFit'
    BY <1>11, <2>2, MoveKeepsGuards DEF HlsPublish, Guarded, States, guardVars
  <2>3. QED
    BY <1>11, <2>1, <2>2 DEF HlsPublish
<1>12. QED
  BY <1>1, <1>2, <1>3, <1>4, <1>5, <1>6, <1>7, <1>8, <1>9, <1>10, <1>11 DEF HandlerStep

(* Every step at all. *)
LEMMA StepsKeepGuards ==
  ASSUME GuardsFit, [MediaNext]_vars
  PROVE  GuardsFit'
<1>1. ASSUME NEW r \in Requests, NEW k \in Renditions \cup {Direct}, Arrive(r, k)
      PROVE  GuardsFit'
  BY <1>1, ArriveKeepsGuards
<1>2. ASSUME NEW r \in Requests, HandlerStep(r) PROVE GuardsFit'
  BY <1>2, HandlersKeepGuards
<1>3. ASSUME NEW r \in Requests, WriteManifest(r) PROVE GuardsFit'
  BY <1>3, RestKeepsGuards DEF WriteManifest, handlerVars, guardVars
<1>4. ASSUME NEW r \in Requests, BackgroundStep(r) PROVE GuardsFit'
  BY <1>4, RestKeepsGuards
     DEF BackgroundStep, Exit, Reap, CleanUp, OrphanRuns, handlerVars, guardVars
<1>5. ASSUME NEW r \in Requests, Cancel(r) PROVE GuardsFit'
  BY <1>5, EndKeepsGuards DEF Cancel
<1>6. ASSUME NEW l \in Limits, ChangeLimit(l) PROVE GuardsFit'
  BY <1>6, RestKeepsGuards DEF ChangeLimit, handlerVars, guardVars
<1>7. CASE UNCHANGED vars
  BY <1>7, RestKeepsGuards DEF vars, handlerVars, guardVars
<1>8. QED
  BY <1>1, <1>2, <1>3, <1>4, <1>5, <1>6, <1>7 DEF MediaNext

(* Nobody has a guard at first. *)
LEMMA GuardsFitAtFirst ==
  ASSUME MediaInit
  PROVE  GuardsFit
<1>1. /\ pc = [r \in Requests |-> "idle"]
      /\ rendition = [r \in Requests |-> NoRendition]
      /\ generations = [k \in Renditions |-> NoRequest]
  BY DEF MediaInit
<1>2. /\ pc \in [Requests -> States]
      /\ rendition \in [Requests -> Renditions \cup {Direct, NoRendition}]
      /\ generations \in [Renditions -> Requests \cup {NoRequest}]
  BY <1>1 DEF States
<1>3. \A r \in Requests : pc[r] \notin Guarded \cup {"lookup", "join", "waiting"}
  BY <1>1 DEF Guarded
<1>4. \A r \in Requests, k \in Renditions : generations[k] # r
  BY <1>1, RenditionsDistinct
<1>5. QED
  BY <1>2, <1>3, <1>4 DEF GuardsFit

(* A rendition is generated by one request at a time, which holds its guard, *)
(* whichever handlers are dropped at whichever await.                       *)
THEOREM GenerationsAreExclusive == MediaSpec => []OneGeneration
<1>1. MediaInit => GuardsFit
  BY GuardsFitAtFirst
<1>2. GuardsFit /\ [MediaNext]_vars => GuardsFit'
  BY StepsKeepGuards
<1>3. GuardsFit => OneGeneration
  BY RenditionsDistinct DEF GuardsFit, OneGeneration
<1>4. QED
  BY <1>1, <1>2, <1>3, PTL DEF MediaSpec

-----------------------------------------------------------------------------
(* Nobody waits for what is over.                                           *)

(* WaiterWillWake keeps itself once it is known that a waiter waits for      *)
(* somebody, and for its own rendition.                                     *)
WaitersFit ==
  /\ GuardsFit
  /\ waitsOn \in [Requests -> Requests \cup {NoRequest}]
  /\ \A r \in Requests : pc[r] = "waiting" => waitsOn[r] \in Requests
  /\ WaiterWillWake

(* Guards only go when their holder is done, and only come where there was   *)
(* none: who waits goes on waiting for somebody who holds one or is done.    *)
LEMMA WaitersGoOn ==
  ASSUME WaitersFit, GuardsFit', NEW r \in Requests, NEW state \in States \ {"waiting"},
         Goto(r, state), done \subseteq done',
         \A k \in Renditions : generations[k] \in Requests =>
             generations'[k] = generations[k] \/ generations[k] \in done',
         \A q \in Requests \ {r} : rendition'[q] = rendition[q] /\ waitsOn'[q] = waitsOn[q],
         waitsOn' \in [Requests -> Requests \cup {NoRequest}]
  PROVE  WaitersFit'
<1>1. \A q \in Requests : pc'[q] = "waiting" => q # r /\ pc[q] = "waiting"
  BY DEF WaitersFit, GuardsFit, Goto
<1>2. ASSUME NEW q \in Requests, pc'[q] = "waiting"
      PROVE  /\ waitsOn'[q] \in Requests
             /\ waitsOn'[q] \in done' \/ generations'[rendition'[q]] = waitsOn'[q]
  BY <1>1, <1>2 DEF WaitersFit, GuardsFit, WaiterWillWake
<1>3. QED
  BY <1>2 DEF WaitersFit, WaiterWillWake

(* A handler that ends, waking those who wait for it. *)
LEMMA EndWakesWaiters ==
  ASSUME WaitersFit, GuardsFit', NEW r \in Requests,
         NEW state \in {"read", "rejected", "failed", "served", "cancelled"},
         EndGuarded(r, state), UNCHANGED <<rendition, waitsOn>>
  PROVE  WaitersFit'
<1>1. state \in States \ {"waiting"}
  BY DEF States, Finished
<1>2. /\ done \subseteq done'
      /\ \A k \in Renditions : generations[k] \in Requests =>
             generations'[k] = generations[k] \/ generations[k] \in done'
  BY DEF EndGuarded, DropGuard
<1>3. QED
  BY <1>1, <1>2, WaitersGoOn DEF EndGuarded, WaitersFit

(* A handler that moves on and leaves guards and waiters alone. *)
LEMMA MoveKeepsWaiters ==
  ASSUME WaitersFit, GuardsFit', NEW r \in Requests, NEW state \in States \ {"waiting"},
         Goto(r, state), UNCHANGED <<rendition, waitsOn, guardVars>>
  PROVE  WaitersFit'
BY WaitersGoOn DEF WaitersFit, guardVars

(* Who joins takes a guard nobody has, or waits for the one who has it. *)
LEMMA JoinKeepsWaiters ==
  ASSUME WaitersFit, GuardsFit', NEW r \in Requests, JoinOrStart(r)
  PROVE  WaitersFit'
<1>1. rendition[r] \in Renditions
  BY DEF WaitersFit, GuardsFit, JoinOrStart
<1>2. CASE generations[rendition[r]] = NoRequest
  <2>1. Goto(r, "recheck") /\ UNCHANGED <<rendition, waitsOn, done>>
    BY <1>2 DEF JoinOrStart
  <2>2. \A k \in Renditions : generations[k] \in Requests => generations'[k] = generations[k]
    BY <1>1, <1>2, RenditionsDistinct DEF JoinOrStart, WaitersFit, GuardsFit
  <2>3. "recheck" \in States \ {"waiting"}
    BY DEF States, Guarded
  <2>4. QED
    BY <2>1, <2>2, <2>3, WaitersGoOn DEF WaitersFit
<1>3. CASE generations[rendition[r]] # NoRequest
  <2>1. /\ waitsOn' = [waitsOn EXCEPT ![r] = generations[rendition[r]]]
        /\ generations[rendition[r]] \in Requests
        /\ UNCHANGED <<rendition, generations, done>>
    BY <1>1, <1>3 DEF JoinOrStart, WaitersFit, GuardsFit
  <2>2. pc' = [pc EXCEPT ![r] = "waiting"]
    BY <1>3 DEF JoinOrStart, Goto
  <2>3. QED
    BY <1>1, <2>1, <2>2 DEF WaitersFit, WaiterWillWake, GuardsFit
<1>4. QED
  BY <1>2, <1>3

(* A woken waiter goes round the loop. *)
LEMMA WakeKeepsWaiters ==
  ASSUME WaitersFit, GuardsFit', NEW r \in Requests, Wake(r)
  PROVE  WaitersFit'
<1>1. "lookup" \in States \ {"waiting"}
  BY DEF States
<1>2. /\ Goto(r, "lookup") /\ UNCHANGED <<rendition, guardVars>>
      /\ waitsOn' = [waitsOn EXCEPT ![r] = NoRequest]
  BY DEF Wake
<1>3. /\ waitsOn' \in [Requests -> Requests \cup {NoRequest}]
      /\ \A q \in Requests \ {r} : waitsOn'[q] = waitsOn[q]
  BY <1>2 DEF WaitersFit
<1>4. QED
  BY <1>1, <1>2, <1>3, WaitersGoOn DEF guardVars

(* Every step of a handler. *)
LEMMA HandlersKeepWaiters ==
  ASSUME WaitersFit, GuardsFit', NEW r \in Requests, HandlerStep(r)
  PROVE  WaitersFit'
<1>1. CASE Lookup(r)
  BY <1>1, MoveKeepsWaiters DEF Lookup, States, Goto
<1>2. CASE Read(r)
  BY <1>2, MoveKeepsWaiters DEF Read, States, Finished, Goto
<1>3. CASE JoinOrStart(r)
  BY <1>3, JoinKeepsWaiters
<1>4. CASE Wake(r)
  BY <1>4, WakeKeepsWaiters
<1>5. CASE Admit(r)
  BY <1>5, EndWakesWaiters, MoveKeepsWaiters DEF Admit, States, Guarded
<1>6. CASE Spawn(r)
  <2>1. CASE EndGuarded(r, "failed")
    BY <1>6, <2>1, EndWakesWaiters DEF Spawn
  <2>2. CASE /\ Goto(r, IF rendition[r] = Direct THEN "stream" ELSE "generate")
             /\ UNCHANGED guardVars
    BY <1>6, <2>2, MoveKeepsWaiters DEF Spawn, States, Guarded
  <2>3. QED
    BY <1>6, <2>1, <2>2 DEF Spawn
<1>7. CASE StreamDrop(r)
  BY <1>7, MoveKeepsWaiters DEF StreamDrop, States, Finished
<1>8. CASE DownloadExited(r)
  BY <1>8, EndWakesWaiters, MoveKeepsWaiters DEF DownloadExited, States, Guarded
<1>9. CASE DownloadPublish(r)
  BY <1>9, EndWakesWaiters DEF DownloadPublish
<1>10. CASE ManifestReady(r)
  BY <1>10, EndWakesWaiters, MoveKeepsWaiters DEF ManifestReady, States, Guarded
<1>11. CASE HlsPublish(r)
  <2>1. CASE YieldToPublished(r) \/ MoveIntoPlace(r) \/ Abandon(r)
    BY <1>11, <2>1, EndWakesWaiters DEF HlsPublish, YieldToPublished, MoveIntoPlace, Abandon
  <2>2. ASSUME NEW state \in {"rename", "reprobe", "clear", "rename_again"},
               Goto(r, state), UNCHANGED guardVars
        PROVE  WaitersFit'
    BY <1>11, <2>2, MoveKeepsWaiters DEF HlsPublish, States, Guarded
  <2>3. QED
    BY <1>11, <2>1, <2>2 DEF HlsPublish
<1>12. QED
  BY <1>1, <1>2, <1>3, <1>4, <1>5, <1>6, <1>7, <1>8, <1>9, <1>10, <1>11 DEF HandlerStep

(* Every step at all. *)
LEMMA StepsKeepWaiters ==
  ASSUME WaitersFit, [MediaNext]_vars
  PROVE  WaitersFit'
<1>0. GuardsFit'
  BY StepsKeepGuards DEF WaitersFit
<1>a. ASSUME UNCHANGED <<handlerVars, guardVars>> PROVE WaitersFit'
  BY <1>0, <1>a DEF WaitersFit, WaiterWillWake, handlerVars, guardVars
<1>1. ASSUME NEW r \in Requests, NEW k \in Renditions \cup {Direct}, Arrive(r, k)
      PROVE  WaitersFit'
  <2>1. /\ (IF k = Direct THEN "recheck" ELSE "lookup") \in States \ {"waiting"}
        /\ \A q \in Requests \ {r} : rendition'[q] = rendition[q]
    BY <1>1 DEF Arrive, States, Guarded, WaitersFit, GuardsFit
  <2>2. QED
    BY <1>0, <1>1, <2>1, WaitersGoOn DEF Arrive, WaitersFit, guardVars
<1>2. ASSUME NEW r \in Requests, HandlerStep(r) PROVE WaitersFit'
  BY <1>0, <1>2, HandlersKeepWaiters
<1>3. ASSUME NEW r \in Requests, WriteManifest(r) \/ BackgroundStep(r) PROVE WaitersFit'
  BY <1>a, <1>3 DEF WriteManifest, BackgroundStep, Exit, Reap, CleanUp, OrphanRuns
<1>4. ASSUME NEW r \in Requests, Cancel(r) PROVE WaitersFit'
  BY <1>0, <1>4, EndWakesWaiters DEF Cancel
<1>5. ASSUME NEW l \in Limits, ChangeLimit(l) PROVE WaitersFit'
  BY <1>a, <1>5 DEF ChangeLimit
<1>6. CASE UNCHANGED vars
  BY <1>a, <1>6 DEF vars
<1>7. QED
  BY <1>1, <1>2, <1>3, <1>4, <1>5, <1>6 DEF MediaNext

(* Nobody waits at first. *)
LEMMA WaitersFitAtFirst ==
  ASSUME MediaInit
  PROVE  WaitersFit
<1>1. GuardsFit
  BY GuardsFitAtFirst
<1>2. /\ waitsOn \in [Requests -> Requests \cup {NoRequest}]
      /\ \A r \in Requests : pc[r] # "waiting"
  BY DEF MediaInit
<1>3. QED
  BY <1>1, <1>2 DEF WaitersFit, WaiterWillWake

(* No wake-up of the generation coordinator is lost: what a request waits    *)
(* for still holds its guard, whose drop will wake it, or has dropped it.    *)
THEOREM NoWakeUpIsLost == MediaSpec => []WaiterWillWake
<1>1. MediaInit => WaitersFit
  BY WaitersFitAtFirst
<1>2. WaitersFit /\ [MediaNext]_vars => WaitersFit'
  BY StepsKeepWaiters
<1>3. WaitersFit => WaiterWillWake
  BY DEF WaitersFit
<1>4. QED
  BY <1>1, <1>2, <1>3, PTL DEF MediaSpec

-----------------------------------------------------------------------------
(* No ffmpeg without a slot.                                                *)

(* The states before ffmpeg is started. *)
Early == {"idle", "lookup", "join", "waiting", "recheck", "spawn"}

(* RunningHoldsSlot keeps itself once it is known that whoever starts ffmpeg *)
(* has a slot, and has not started one before.                              *)
SlotsFit ==
  /\ pc \in [Requests -> States]
  /\ proc \in [Requests -> {"none", "running", "killed", "ok", "err"}]
  /\ \A r \in Requests : pc[r] \in Early => proc[r] = "none"
  /\ \A r \in Requests : pc[r] = "spawn" => r \in slots
  /\ RunningHoldsSlot

(* The handler of r goes on, to a state before ffmpeg is started only if it  *)
(* stands at one; its process ends or goes on; nobody else is touched.      *)
LEMMA OnlyOneMoves ==
  ASSUME SlotsFit, NEW r \in Requests, NEW state \in States, Goto(r, state),
         state \in Early => pc[r] \in Early /\ proc'[r] = "none",
         state = "spawn" => r \in slots',
         \A q \in Requests \ {r} : proc'[q] = proc[q] /\ (q \in slots => q \in slots'),
         proc' \in [Requests -> {"none", "running", "killed", "ok", "err"}],
         proc'[r] = "running" => r \in slots'
  PROVE  SlotsFit'
<1>1. \A q \in Requests : pc'[q] = IF q = r THEN state ELSE pc[q]
  BY DEF SlotsFit, Goto
<1>2. pc' \in [Requests -> States]
  BY DEF SlotsFit, Goto
<1>3. QED
  BY <1>1, <1>2 DEF SlotsFit, RunningHoldsSlot

(* What becomes of the slots and of the process of a handler that is killed. *)
LEMMA KillsOne ==
  ASSUME SlotsFit, NEW r \in Requests, Kill(r)
  PROVE  /\ proc' \in [Requests -> {"none", "running", "killed", "ok", "err"}]
         /\ proc'[r] # "running"
         /\ \A q \in Requests \ {r} : proc'[q] = proc[q]
BY DEF SlotsFit, Kill

LEMMA DropsOne ==
  ASSUME NEW r \in Requests, SlotDrop(r)
  PROVE  \A q \in Requests \ {r} : q \in slots => q \in slots'
BY DEF SlotDrop

(* Every step of a handler. *)
LEMMA HandlersKeepSlots ==
  ASSUME SlotsFit, NEW r \in Requests, HandlerStep(r)
  PROVE  SlotsFit'
<1> USE DEF States, Early, Guarded, Finished
<1>a. /\ proc \in [Requests -> {"none", "running", "killed", "ok", "err"}]
      /\ pc[r] \in Early => proc[r] = "none"
      /\ proc[r] = "running" => r \in slots
  BY DEF SlotsFit, RunningHoldsSlot
<1>1. CASE Lookup(r)
  BY <1>1, <1>a, OnlyOneMoves DEF Lookup, admissionVars, processVars
<1>2. CASE Read(r)
  BY <1>2, <1>a, OnlyOneMoves DEF Read, admissionVars, processVars
<1>3. CASE JoinOrStart(r)
  BY <1>3, <1>a, OnlyOneMoves DEF JoinOrStart, admissionVars, processVars
<1>4. CASE Wake(r)
  BY <1>4, <1>a, OnlyOneMoves DEF Wake, admissionVars, processVars
<1>5. CASE Admit(r)
  BY <1>5, <1>a, OnlyOneMoves DEF Admit, EndGuarded, TryAcquire, admissionVars, processVars
<1>6. CASE Spawn(r)
  <2>1. CASE SlotDrop(r) /\ EndGuarded(r, "failed") /\ UNCHANGED proc
    BY <1>6, <2>1, <1>a, DropsOne, OnlyOneMoves DEF Spawn, EndGuarded
  <2>2. CASE /\ proc' = [proc EXCEPT ![r] = "running"]
             /\ Goto(r, IF rendition[r] = Direct THEN "stream" ELSE "generate")
             /\ UNCHANGED admissionVars
    <3>1. r \in slots'
      BY <1>6, <2>2 DEF Spawn, SlotsFit, admissionVars
    <3>2. QED
      BY <2>2, <3>1, <1>a, OnlyOneMoves DEF admissionVars
  <2>3. QED
    BY <1>6, <2>1, <2>2 DEF Spawn
<1>7. CASE StreamDrop(r)
  <2>1. CASE proc[r] \in {"ok", "err"} /\ SlotDrop(r) /\ UNCHANGED proc
    BY <1>7, <2>1, <1>a, DropsOne, OnlyOneMoves DEF StreamDrop
  <2>2. CASE UNCHANGED <<admissionVars, proc>>
    BY <1>7, <2>2, <1>a, OnlyOneMoves DEF StreamDrop, admissionVars
  <2>3. CASE SlotDrop(r) /\ Kill(r)
    BY <1>7, <2>3, KillsOne, DropsOne, OnlyOneMoves DEF StreamDrop
  <2>4. QED
    BY <1>7, <2>1, <2>2, <2>3 DEF StreamDrop
<1>8. CASE DownloadExited(r)
  BY <1>8, <1>a, DropsOne, OnlyOneMoves DEF DownloadExited, EndGuarded, processVars
<1>9. CASE DownloadPublish(r)
  BY <1>9, <1>a, OnlyOneMoves DEF DownloadPublish, EndGuarded, admissionVars, processVars
<1>10. CASE ManifestReady(r)
  <2>1. CASE Goto(r, "probe") /\ UNCHANGED admissionVars
    BY <1>10, <2>1, <1>a, OnlyOneMoves DEF ManifestReady, admissionVars, processVars
  <2>2. CASE /\ proc[r] \in {"ok", "err"}
             /\ SlotDrop(r)
             /\ EndGuarded(r, "failed")
    BY <1>10, <2>2, <1>a, DropsOne, OnlyOneMoves DEF ManifestReady, EndGuarded, processVars
  <2>3. QED
    BY <1>10, <2>1, <2>2 DEF ManifestReady
<1>11. CASE HlsPublish(r)
  <2>1. CASE YieldToPublished(r)
    BY <2>1, KillsOne, OnlyOneMoves DEF YieldToPublished, EndGuarded, admissionVars
  <2>2. CASE MoveIntoPlace(r)
    BY <2>2, <1>a, OnlyOneMoves DEF MoveIntoPlace, EndGuarded, admissionVars
  <2>3. CASE Abandon(r)
    BY <2>3, KillsOne, DropsOne, OnlyOneMoves DEF Abandon, EndGuarded
  <2>4. ASSUME NEW state \in {"rename", "reprobe", "clear", "rename_again"},
               Goto(r, state), UNCHANGED <<admissionVars, proc>>
        PROVE  SlotsFit'
    BY <2>4, <1>a, OnlyOneMoves DEF admissionVars
  <2>5. QED
    BY <1>11, <2>1, <2>2, <2>3, <2>4 DEF HlsPublish
<1>12. QED
  BY <1>1, <1>2, <1>3, <1>4, <1>5, <1>6, <1>7, <1>8, <1>9, <1>10, <1>11 DEF HandlerStep

(* A step that moves no handler and takes a slot only from an ffmpeg that    *)
(* has ended.                                                               *)
LEMMA ProcessesKeepSlots ==
  ASSUME SlotsFit, NEW r \in Requests, BackgroundStep(r)
  PROVE  SlotsFit'
<1>1. CASE Exit(r)
  BY <1>1 DEF Exit, SlotsFit, RunningHoldsSlot, Early, admissionVars, handlerVars
<1>2. CASE Reap(r)
  BY <1>2 DEF Reap, SlotDrop, SlotsFit, RunningHoldsSlot, Early, handlerVars, processVars
<1>3. CASE CleanUp(r) \/ OrphanRuns(r)
  BY <1>3 DEF CleanUp, OrphanRuns, SlotsFit, RunningHoldsSlot, admissionVars, handlerVars,
              processVars
<1>4. QED
  BY <1>1, <1>2, <1>3 DEF BackgroundStep

(* Every step at all. *)
LEMMA StepsKeepSlots ==
  ASSUME SlotsFit, [MediaNext]_vars
  PROVE  SlotsFit'
<1>a. ASSUME UNCHANGED <<pc, proc, slots>> PROVE SlotsFit'
  BY <1>a DEF SlotsFit, RunningHoldsSlot
<1>1. ASSUME NEW r \in Requests, NEW k \in Renditions \cup {Direct}, Arrive(r, k)
      PROVE  SlotsFit'
  BY <1>1, OnlyOneMoves
     DEF Arrive, SlotsFit, RunningHoldsSlot, States, Early, Guarded, admissionVars, processVars
<1>2. ASSUME NEW r \in Requests, HandlerStep(r) PROVE SlotsFit'
  BY <1>2, HandlersKeepSlots
<1>3. ASSUME NEW r \in Requests, WriteManifest(r) PROVE SlotsFit'
  BY <1>a, <1>3 DEF WriteManifest, admissionVars, handlerVars
<1>4. ASSUME NEW r \in Requests, BackgroundStep(r) PROVE SlotsFit'
  BY <1>4, ProcessesKeepSlots
<1>5. ASSUME NEW r \in Requests, Cancel(r) PROVE SlotsFit'
  <2>1. \A q \in Requests \ {r} : q \in slots => q \in slots'
    BY <1>5, DropsOne DEF Cancel, admissionVars
  <2>2. QED
    BY <1>5, <2>1, KillsOne, OnlyOneMoves DEF Cancel, EndGuarded, States, Early, Finished
<1>6. ASSUME NEW l \in Limits, ChangeLimit(l) PROVE SlotsFit'
  BY <1>a, <1>6 DEF ChangeLimit, SetLimit, handlerVars, processVars
<1>7. CASE UNCHANGED vars
  BY <1>a, <1>7 DEF vars, admissionVars, handlerVars, processVars
<1>8. QED
  BY <1>1, <1>2, <1>3, <1>4, <1>5, <1>6, <1>7 DEF MediaNext

(* An ffmpeg that was not told to die holds a slot, so that no more of them  *)
(* run than slots are taken, whatever became of the requests.               *)
THEOREM ProcessesHoldSlots == MediaSpec => []RunningHoldsSlot
<1>1. MediaInit => SlotsFit
  BY DEF MediaInit, SlotsFit, RunningHoldsSlot, States, Early
<1>2. SlotsFit /\ [MediaNext]_vars => SlotsFit'
  BY StepsKeepSlots
<1>3. SlotsFit => RunningHoldsSlot
  BY DEF SlotsFit
<1>4. QED
  BY <1>1, <1>2, <1>3, PTL DEF MediaSpec

-----------------------------------------------------------------------------
(* Renditions.                                                              *)

(* A removal that outlived its handler has been, or will be, at the path.   *)
Swept(k) == \E s \in Requests : orphan[s] \in {"clear", "cleared"} /\ rendition[s] = k

(* Where a request whose call or task is still about stands, and what its    *)
(* ffmpeg must have done.                                                   *)
Stands(r) ==
  /\ pc[r] \in {"probe", "reprobe", "clear", "rename_again"} => rendition[r] \in HlsRenditions
  /\ pc[r] = "rename" => rendition[r] \in Renditions
  /\ pc[r] = "rename" /\ rendition[r] \in DownloadRenditions => proc[r] = "ok"
  /\ orphan[r] # "none" => pc[r] = "cancelled" /\ rendition[r] \in Renditions
  /\ orphan[r] = "rename" /\ rendition[r] \in DownloadRenditions => proc[r] = "ok"
  /\ reaper[r] # "none" => pc[r] = "served"
  /\ reaper[r] \in {"output", "cleanup", "rmdir"} => rendition[r] \in HlsRenditions
  /\ reaper[r] = "cleanup" => proc[r] = "err"

(* What is at a path was made for it by a request that has published.       *)
Sound(k) ==
  LET r == output[k].by IN
    r # NoRequest =>
      /\ rendition[r] = k
      /\ pc[r] \in Finished \cup {"read"}
      /\ Exists(k) =>
           \/ proc[r] = "ok"
           \/ k \in HlsRenditions /\ (reaper[r] \in {"output", "cleanup"} \/ pc[r] = "cancelled")

(* Who clears a path has seen nothing there, and only a rename that outlived *)
(* its handler can have come since; what a task watches is the rendition its *)
(* own request published, unless a removal was at the path.                 *)
Clears(r) ==
  pc[r] = "clear" /\ Exists(rendition[r]) => pc[output[rendition[r]].by] = "cancelled"

Watches(r) ==
  reaper[r] \in {"output", "cleanup"} =>
    \/ output[rendition[r]] = [by |-> r, manifest |-> TRUE]
    \/ Swept(rendition[r])

RenditionTypes ==
  /\ proc \in [Requests -> {"none", "running", "killed", "ok", "err"}]
  /\ output \in [Renditions -> Output]
  /\ reaper \in [Requests -> {"none", "stream", "temp", "output", "cleanup", "rmdir"}]
  /\ orphan \in [Requests -> {"none", "rename", "clear", "cleared"}]

RenditionsFit ==
  /\ GuardsFit
  /\ RenditionTypes
  /\ \A r \in Requests : Stands(r) /\ Clears(r) /\ Watches(r)
  /\ \A k \in Renditions : Sound(k)

(* The step of one request: nobody else's handler, process, task or call     *)
(* moves.                                                                   *)
Alone(r) ==
  \A q \in Requests \ {r} :
    /\ pc'[q] = pc[q] /\ rendition'[q] = rendition[q] /\ proc'[q] = proc[q]
    /\ reaper'[q] = reaper[q] /\ orphan'[q] = orphan[q]

(* What is over stays over. *)
StaysOver(r) ==
  /\ pc[r] = "idle" \/ rendition'[r] = rendition[r]
  /\ pc[r] = "cancelled" => pc'[r] = "cancelled"
  /\ orphan[r] \in {"clear", "cleared"} => orphan'[r] \in {"clear", "cleared"}

(* Who has published goes on watching, or its ffmpeg has succeeded.          *)
GoesOnWatching(r) ==
  pc[r] \in Finished \cup {"read"} =>
    /\ pc'[r] \in Finished \cup {"read"}
    /\ proc[r] = "ok" => proc'[r] = "ok"
    /\ reaper[r] \in {"output", "cleanup"} =>
         reaper'[r] \in {"output", "cleanup"} \/ proc'[r] = "ok"

(* A step that leaves every path alone. *)
LEMMA TurnKeepsRenditions ==
  ASSUME RenditionsFit, GuardsFit', RenditionTypes', NEW r \in Requests,
         Alone(r), StaysOver(r), GoesOnWatching(r), UNCHANGED output, Stands(r)',
         pc'[r] = "clear" => pc[r] = "clear" \/ (pc[r] # "idle" /\ ~Exists(rendition[r])),
         reaper'[r] \in {"output", "cleanup"} => reaper[r] \in {"output", "cleanup"}
  PROVE  RenditionsFit'
<1> USE DEF Exists
<1>0. pc[r] = "idle" => reaper[r] = "none" /\ orphan[r] = "none"
  BY DEF RenditionsFit, Stands
<1>1. \A k \in Renditions : Sound(k)'
  <2> SUFFICES ASSUME NEW k \in Renditions, output[k].by # NoRequest PROVE Sound(k)'
    BY DEF Sound
  <2>1. output[k].by \in Requests
    BY DEF RenditionsFit, RenditionTypes, Output, Absent
  <2>2. Sound(k)
    BY DEF RenditionsFit
  <2>3. CASE output[k].by = r
    BY <2>2, <2>3 DEF Sound, StaysOver, GoesOnWatching, Finished
  <2>4. CASE output[k].by # r
    BY <2>1, <2>2, <2>4 DEF Sound, Alone
  <2> QED
    BY <2>3, <2>4
<1>2. \A q \in Requests : Stands(q)'
  BY DEF RenditionsFit, Stands, Alone
<1>3. \A q \in Requests : pc[q] = "cancelled" => pc'[q] = "cancelled"
  BY DEF Alone, StaysOver
<1>4. \A k \in Renditions : Swept(k) => Swept(k)'
  BY <1>0 DEF Swept, Alone, StaysOver
<1>5. ASSUME NEW q \in Requests PROVE Clears(q)'
  <2> SUFFICES ASSUME pc'[q] = "clear", output'[rendition'[q]].manifest
               PROVE  pc'[output[rendition'[q]].by] = "cancelled"
    BY DEF Clears
  <2>1. rendition'[q] \in Renditions
    BY <1>2 DEF Stands, Renditions
  <2>2. rendition'[q] = rendition[q]
    <3>1. pc[q] # "idle" \/ q # r
      OBVIOUS
    <3> QED
      BY <3>1 DEF Alone, StaysOver
  <2>3. Exists(rendition[q])
    BY <2>2
  <2>5. pc[q] = "clear"
    BY <2>2, <2>3 DEF Alone
  <2>6. pc[output[rendition[q]].by] = "cancelled"
    BY <2>3, <2>5 DEF RenditionsFit, Clears
  <2>4. output[rendition[q]].by \in Requests
    BY <2>1, <2>2, <2>3 DEF RenditionsFit, RenditionTypes, Output, Absent
  <2> QED
    BY <1>3, <2>2, <2>4, <2>6
<1>6. ASSUME NEW q \in Requests PROVE Watches(q)'
  <2> SUFFICES ASSUME reaper'[q] \in {"output", "cleanup"} PROVE Watches(q)'
    BY DEF Watches
  <2>1. reaper[q] \in {"output", "cleanup"} /\ rendition'[q] = rendition[q]
    BY <1>0 DEF Alone, StaysOver
  <2>2. PICK k \in Renditions : k = rendition[q]
    BY <2>1 DEF RenditionsFit, Stands, Renditions
  <2>3. output[k] = [by |-> q, manifest |-> TRUE] \/ Swept(k)
    BY <2>1, <2>2 DEF RenditionsFit, Watches, Swept
  <2>4. output'[k] = [by |-> q, manifest |-> TRUE] \/ Swept(k)'
    BY <1>4, <2>3
  <2> QED
    BY <2>1, <2>2, <2>4 DEF Watches, Swept
<1> QED
  BY <1>1, <1>2, <1>5, <1>6 DEF RenditionsFit

(* A step that touches the path of its own request. *)
LEMMA OtherPathsAreKept ==
  ASSUME RenditionsFit, NEW r \in Requests, Alone(r), StaysOver(r), pc[r] # "idle",
         \A k \in Renditions \ {rendition[r]} : output'[k] = output[k]
  PROVE  /\ \A k \in Renditions \ {rendition[r]} : Sound(k)'
         /\ \A k \in Renditions : Swept(k) => Swept(k)'
         /\ \A q \in Requests \ {r} :
              /\ Stands(q)'
              /\ rendition[q] # rendition[r] => Clears(q)' /\ Watches(q)'
<1> USE DEF Exists
<1>1. ASSUME NEW k \in Renditions \ {rendition[r]} PROVE Sound(k)'
  <2>1. Sound(k) /\ output[k].by \in Requests \cup {NoRequest}
    BY DEF RenditionsFit, RenditionTypes, Output, Absent
  <2>2. output[k].by # r
    BY <2>1, RenditionsDistinct DEF Sound
  <2> QED
    BY <2>1, <2>2 DEF Sound, Alone
<1>2. ASSUME NEW k \in Renditions, Swept(k) PROVE Swept(k)'
  BY <1>2 DEF Swept, Alone, StaysOver
<1>3. ASSUME NEW q \in Requests \ {r} PROVE Stands(q)'
  BY DEF RenditionsFit, Stands, Alone
<1>4. ASSUME NEW q \in Requests \ {r}, rendition[q] # rendition[r] PROVE Clears(q)'
  <2> SUFFICES ASSUME pc[q] = "clear", output'[rendition'[q]].manifest
               PROVE  pc'[output'[rendition'[q]].by] = "cancelled"
    BY DEF Clears, Alone
  <2>1. rendition'[q] = rendition[q] /\ rendition[q] \in Renditions \ {rendition[r]}
    BY <1>4 DEF RenditionsFit, Stands, Renditions, Alone
  <2>2. output'[rendition[q]] = output[rendition[q]]
    BY <2>1
  <2>3. pc[output[rendition[q]].by] = "cancelled"
    BY <2>1, <2>2 DEF RenditionsFit, Clears
  <2>4. output[rendition[q]].by \in Requests
    BY <2>1, <2>2 DEF RenditionsFit, RenditionTypes, Output, Absent
  <2> QED
    BY <2>1, <2>2, <2>3, <2>4 DEF Alone, StaysOver
<1>5. ASSUME NEW q \in Requests \ {r}, rendition[q] # rendition[r] PROVE Watches(q)'
  <2> SUFFICES ASSUME reaper[q] \in {"output", "cleanup"} PROVE Watches(q)'
    BY DEF Watches, Alone
  <2>1. PICK k \in Renditions \ {rendition[r]} : k = rendition[q] /\ k = rendition'[q]
    BY <1>5 DEF RenditionsFit, Stands, Renditions, Alone
  <2>2. output[k] = [by |-> q, manifest |-> TRUE] \/ Swept(k)
    BY <2>1 DEF RenditionsFit, Watches, Swept
  <2>3. output'[k] = [by |-> q, manifest |-> TRUE] \/ Swept(k)'
    BY <1>2, <2>2
  <2> QED
    BY <2>1, <2>3 DEF Watches, Swept
<1> QED
  BY <1>1, <1>2, <1>3, <1>4, <1>5

(* A handler whose output is not at stake goes on, its process running on or *)
(* killed.                                                                  *)
LEMMA HandlerTurns ==
  ASSUME RenditionsFit, GuardsFit', NEW r \in Requests, NEW state \in States, Goto(r, state),
         UNCHANGED <<rendition, output, reaper, orphan>>,
         pc[r] \notin {"idle"} \cup Finished,
         UNCHANGED proc \/ Kill(r) \/ (pc[r] = "spawn" /\ proc' = [proc EXCEPT ![r] = "running"]),
         pc[r] = "read" => state \in Finished,
         state \in {"probe", "reprobe", "clear", "rename_again"} => rendition[r] \in HlsRenditions,
         state = "rename" => rendition[r] \in Renditions,
         state = "rename" /\ rendition[r] \in DownloadRenditions => proc[r] = "ok" /\ UNCHANGED proc,
         state = "clear" => ~Exists(rendition[r])
  PROVE  RenditionsFit'
<1>0. /\ pc[r] \in States /\ pc'[r] = state
      /\ \A q \in Requests \ {r} : pc'[q] = pc[q]
  BY DEF RenditionsFit, GuardsFit, Goto
<1>1. /\ proc' \in [Requests -> {"none", "running", "killed", "ok", "err"}]
      /\ \A q \in Requests \ {r} : proc'[q] = proc[q]
      /\ pc[r] # "spawn" /\ proc[r] \in {"ok", "err"} => proc'[r] = proc[r]
  BY DEF RenditionsFit, RenditionTypes, Kill
<1>2. reaper[r] = "none" /\ orphan[r] = "none"
  BY DEF RenditionsFit, RenditionTypes, Stands, Finished
<1>3. RenditionTypes'
  BY <1>1 DEF RenditionsFit, RenditionTypes
<1>4. Alone(r)
  BY <1>0, <1>1 DEF Alone
<1>5. StaysOver(r)
  BY <1>2 DEF StaysOver, Finished
<1>6. Stands(r)'
  BY <1>0, <1>1, <1>2 DEF Stands
<1> QED
  BY <1>0, <1>1, <1>2, <1>3, <1>4, <1>5, <1>6, TurnKeepsRenditions DEF GoesOnWatching, Finished

(* The path of one's own request after a step that published there. *)
LEMMA PublishingKeepsRenditions ==
  ASSUME RenditionsFit, GuardsFit', NEW r \in Requests, rendition[r] \in Renditions,
         UNCHANGED <<rendition, proc>>, Alone(r), RenditionTypes',
         output' = [output EXCEPT ![rendition[r]] = [by |-> r, manifest |-> TRUE]],
         pc'[r] \in Finished \cup {"read"}, pc[r] \notin {"idle", "served"}, Stands(r)',
         StaysOver(r),
         \/ proc[r] = "ok"
         \/ rendition[r] \in HlsRenditions /\ (reaper'[r] = "output" \/ pc'[r] = "cancelled"),
         pc[r] = "cancelled" \/ generations[rendition[r]] = r,
         rendition[r] \in DownloadRenditions \/ ~Exists(rendition[r])
  PROVE  RenditionsFit'
<1> DEFINE k == rendition[r]
<1>0. /\ output'[k] = [by |-> r, manifest |-> TRUE]
      /\ \A l \in Renditions \ {k} : output'[l] = output[l]
      /\ r # NoRequest
  BY RenditionsDistinct DEF RenditionsFit, RenditionTypes
<1>1. /\ \A l \in Renditions \ {k} : Sound(l)'
      /\ \A l \in Renditions : Swept(l) => Swept(l)'
      /\ \A q \in Requests \ {r} : Stands(q)' /\ (rendition[q] # k => Clears(q)' /\ Watches(q)')
  BY <1>0, OtherPathsAreKept
<1>2. Sound(k)'
  BY <1>0 DEF Sound, Exists
<1>3. ASSUME NEW q \in Requests \ {r}, rendition[q] = k PROVE Clears(q)'
  <2> SUFFICES ASSUME pc[q] = "clear" PROVE Clears(q)'
    BY DEF Clears, Alone
  <2>1. generations[k] = q
    BY <1>3 DEF RenditionsFit, GuardsFit, Guarded
  <2>2. pc[r] = "cancelled"
    BY <2>1
  <2>3. pc'[r] = "cancelled" /\ rendition'[q] = k
    BY <1>3, <2>2 DEF StaysOver
  <2> QED
    BY <1>0, <2>3 DEF Clears
<1>4. ASSUME NEW q \in Requests \ {r}, rendition[q] = k PROVE Watches(q)'
  <2> SUFFICES ASSUME reaper[q] \in {"output", "cleanup"} PROVE Watches(q)'
    BY DEF Watches, Alone
  <2>1. k \in HlsRenditions
    BY <1>3, <1>4 DEF RenditionsFit, Stands
  <2>2. ~Exists(k)
    BY <2>1, RenditionsDistinct
  <2>3. Swept(k)
    <3>1. output[k] # [by |-> q, manifest |-> TRUE]
      BY <2>2 DEF Exists
    <3>2. Watches(q)
      BY DEF RenditionsFit
    <3> QED
      BY <1>4, <3>1, <3>2 DEF Watches
  <2>4. Swept(k)' /\ rendition'[q] = k
    BY <1>1, <1>4, <2>3
  <2> QED
    BY <2>4 DEF Watches, Swept
<1>5. Clears(r)' /\ Watches(r)'
  BY <1>0 DEF Clears, Watches, Finished
<1>6. \A l \in Renditions : Sound(l)'
  BY <1>1, <1>2
<1>7. \A q \in Requests : Stands(q)' /\ Clears(q)' /\ Watches(q)'
  BY <1>1, <1>3, <1>4, <1>5
<1> QED
  BY <1>6, <1>7 DEF RenditionsFit

(* The path of one's own request after a step that took away what was there. *)
LEMMA RemovalKeepsRenditions ==
  ASSUME RenditionsFit, GuardsFit', NEW r \in Requests, rendition[r] \in Renditions,
         UNCHANGED <<rendition, proc>>, Alone(r), RenditionTypes', pc[r] # "idle",
         StaysOver(r), Stands(r)',
         \A l \in Renditions \ {rendition[r]} : output'[l] = output[l],
         ~output'[rendition[r]].manifest,
         \/ output'[rendition[r]] = Absent
         \/ output'[rendition[r]].by = output[rendition[r]].by /\ UNCHANGED pc,
         \A q \in Requests : reaper'[q] \in {"output", "cleanup"} /\ rendition[q] = rendition[r] =>
            Swept(rendition[r])'
  PROVE  RenditionsFit'
<1> DEFINE k == rendition[r]
<1>1. /\ \A l \in Renditions \ {k} : Sound(l)'
      /\ \A q \in Requests \ {r} : Stands(q)' /\ (rendition[q] # k => Clears(q)' /\ Watches(q)')
  BY OtherPathsAreKept
<1>2. Sound(k)'
  <2>1. CASE output'[k] = Absent
    BY <2>1 DEF Sound, Absent
  <2>2. CASE output'[k].by = output[k].by /\ UNCHANGED pc
    BY <2>2 DEF RenditionsFit, Sound, Exists
  <2> QED
    BY <2>1, <2>2
<1>3. ASSUME NEW q \in Requests, rendition[q] = k PROVE Clears(q)' /\ Watches(q)'
  BY <1>3 DEF Clears, Watches, Exists, Swept
<1>4. \A l \in Renditions : Sound(l)'
  BY <1>1, <1>2
<1>5. \A q \in Requests : Stands(q)' /\ Clears(q)' /\ Watches(q)'
  BY <1>1, <1>3
<1> QED
  BY <1>4, <1>5 DEF RenditionsFit

(* A handler ends and leaves its ffmpeg to a task. *)
LEMMA TaskStarts ==
  ASSUME RenditionsFit, GuardsFit', NEW r \in Requests, Goto(r, "served"),
         pc[r] \in {"stream", "probe", "reprobe"},
         NEW task \in {"stream", "temp"}, reaper' = [reaper EXCEPT ![r] = task],
         UNCHANGED <<rendition, output, orphan>>, UNCHANGED proc \/ Kill(r)
  PROVE  RenditionsFit'
<1>0. Stands(r) /\ GuardsFit /\ RenditionTypes
  BY DEF RenditionsFit
<1>1. /\ pc'[r] = "served" /\ reaper'[r] = task /\ orphan[r] = "none"
      /\ \A q \in Requests \ {r} : pc'[q] = pc[q] /\ reaper'[q] = reaper[q] /\ proc'[q] = proc[q]
  BY <1>0 DEF Goto, Kill, GuardsFit, RenditionTypes, Stands
<1>2. RenditionTypes'
  BY <1>0 DEF RenditionTypes, Kill
<1>3. Alone(r) /\ StaysOver(r) /\ GoesOnWatching(r) /\ Stands(r)'
  BY <1>1 DEF Alone, StaysOver, GoesOnWatching, Stands, Finished
<1> QED
  BY <1>1, <1>2, <1>3, TurnKeepsRenditions

(* A download is renamed once its ffmpeg has succeeded. *)
LEMMA DownloadsAreWhole ==
  ASSUME RenditionsFit, GuardsFit', NEW r \in Requests, pc[r] = "rename",
         rendition[r] \in DownloadRenditions, Goto(r, "read"),
         output' = [output EXCEPT ![rendition[r]] = [by |-> r, manifest |-> TRUE]],
         UNCHANGED <<rendition, proc, reaper, orphan>>
  PROVE  RenditionsFit'
<1>0. Stands(r) /\ GuardsFit /\ RenditionTypes /\ rendition[r] \in Renditions
  BY DEF RenditionsFit, Renditions
<1>1. /\ pc'[r] = "read" /\ reaper[r] = "none" /\ orphan[r] = "none"
      /\ \A q \in Requests \ {r} : pc'[q] = pc[q]
      /\ generations[rendition[r]] = r /\ proc[r] = "ok"
  BY <1>0 DEF Goto, GuardsFit, RenditionTypes, Stands, Guarded
<1>2. RenditionTypes'
  BY <1>0 DEF RenditionTypes, Output
<1>3. Alone(r) /\ StaysOver(r) /\ Stands(r)'
  BY <1>1 DEF Alone, StaysOver, Stands
<1> QED
  BY <1>0, <1>1, <1>2, <1>3, PublishingKeepsRenditions

(* The publication of an HLS rendition. *)
LEMMA HlsPublishKeepsRenditions ==
  ASSUME RenditionsFit, GuardsFit', NEW r \in Requests, HlsPublish(r)
  PROVE  RenditionsFit'
<1> USE DEF IsHls
<1>0. /\ Stands(r) /\ Clears(r) /\ GuardsFit /\ RenditionTypes
      /\ rendition[r] \in HlsRenditions /\ rendition[r] \in Renditions
      /\ rendition[r] \notin DownloadRenditions
      /\ UNCHANGED <<rendition, orphan>>
  BY RenditionsDistinct DEF RenditionsFit, Renditions, HlsPublish
<1>1. CASE pc[r] \in {"probe", "reprobe"} /\ YieldToPublished(r)
  BY <1>0, <1>1, TaskStarts DEF YieldToPublished, EndGuarded
<1>2. CASE pc[r] \in {"rename", "rename_again"} /\ MoveIntoPlace(r)
  <2>1. /\ pc'[r] = "served" /\ reaper'[r] = "output" /\ orphan[r] = "none"
        /\ \A q \in Requests \ {r} : pc'[q] = pc[q] /\ reaper'[q] = reaper[q]
        /\ generations[rendition[r]] = r
    BY <1>0, <1>2 DEF MoveIntoPlace, EndGuarded, Goto, GuardsFit, RenditionTypes, Stands, Guarded
  <2>2. RenditionTypes' /\ UNCHANGED proc
    BY <1>0, <1>2 DEF MoveIntoPlace, RenditionTypes, Output
  <2>3. Alone(r) /\ StaysOver(r) /\ Stands(r)'
    BY <1>0, <1>2, <2>1, <2>2 DEF Alone, StaysOver, Stands
  <2> QED
    BY <1>0, <1>2, <2>1, <2>2, <2>3, PublishingKeepsRenditions DEF MoveIntoPlace, Finished
<1>3. CASE /\ pc[r] = "clear"
           /\ output' = [output EXCEPT ![rendition[r]] = Absent]
           /\ Goto(r, "rename_again")
           /\ UNCHANGED <<proc, reaper>>
  <2> DEFINE k == rendition[r]
  <2>1. /\ pc'[r] = "rename_again" /\ reaper[r] = "none" /\ orphan[r] = "none"
        /\ \A q \in Requests \ {r} : pc'[q] = pc[q]
    BY <1>0, <1>3 DEF Goto, GuardsFit, RenditionTypes, Stands
  <2>2. RenditionTypes' /\ output'[k] = Absent
    BY <1>0, <1>3 DEF RenditionTypes, Output
  <2>3. Alone(r) /\ StaysOver(r) /\ Stands(r)'
    BY <1>0, <1>3, <2>1 DEF Alone, StaysOver, Stands
  <2>4. ASSUME NEW q \in Requests, reaper[q] \in {"output", "cleanup"}, rendition[q] = k
        PROVE  Swept(k)'
    <3>1. Watches(q) /\ pc[q] = "served"
      BY <2>4 DEF RenditionsFit, Stands
    <3>2. output[k] # [by |-> q, manifest |-> TRUE]
      BY <1>0, <1>3, <3>1 DEF Clears, Exists
    <3>3. Swept(k)
      BY <2>4, <3>1, <3>2 DEF Watches
    <3> QED
      BY <1>0, <3>3 DEF Swept
  <2>5. \A l \in Renditions \ {k} : output'[l] = output[l]
    BY <1>0, <1>3 DEF RenditionTypes
  <2>6. ~output'[k].manifest
    BY <2>2 DEF Absent
  <2> QED
    BY <1>0, <1>3, <2>2, <2>3, <2>4, <2>5, <2>6, RemovalKeepsRenditions
<1>4. CASE pc[r] \in {"clear", "rename_again"} /\ Abandon(r)
  BY <1>0, <1>4, HandlerTurns DEF Abandon, EndGuarded, States, Finished
<1>5. ASSUME NEW state \in {"rename", "reprobe", "clear"}, Goto(r, state),
             pc[r] \in {"probe", "rename", "reprobe"}, state = "clear" => ~Exists(rendition[r]),
             UNCHANGED <<proc, output, reaper>>
      PROVE  RenditionsFit'
  BY <1>0, <1>5, HandlerTurns DEF States, Guarded, Finished
<1>6. \/ pc[r] \in {"probe", "reprobe"} /\ YieldToPublished(r)
      \/ pc[r] \in {"rename", "rename_again"} /\ MoveIntoPlace(r)
      \/ /\ pc[r] = "clear"
         /\ output' = [output EXCEPT ![rendition[r]] = Absent]
         /\ Goto(r, "rename_again")
         /\ UNCHANGED <<proc, reaper>>
      \/ pc[r] \in {"clear", "rename_again"} /\ Abandon(r)
      \/ \E state \in {"rename", "reprobe", "clear"} :
            /\ Goto(r, state)
            /\ pc[r] \in {"probe", "rename", "reprobe"}
            /\ state = "clear" => ~Exists(rendition[r])
            /\ UNCHANGED <<proc, output, reaper>>
  BY DEF HlsPublish
<1> QED
  BY <1>1, <1>2, <1>3, <1>4, <1>5, <1>6

(* Every step of a handler. *)
LEMMA HandlersKeepRenditions ==
  ASSUME RenditionsFit, GuardsFit', NEW r \in Requests, HandlerStep(r)
  PROVE  RenditionsFit'
<1> USE DEF States, Guarded, Finished
<1>0. GuardsFit /\ RenditionTypes /\ Stands(r) /\ Clears(r) /\ Watches(r)
  BY DEF RenditionsFit
<1>1. CASE Lookup(r)
  BY <1>1, HandlerTurns DEF Lookup, processVars, fileVars
<1>2. CASE Read(r)
  BY <1>2, HandlerTurns DEF Read, processVars, fileVars
<1>3. CASE JoinOrStart(r)
  BY <1>3, HandlerTurns DEF JoinOrStart, processVars, fileVars
<1>4. CASE Wake(r)
  BY <1>4, HandlerTurns DEF Wake, processVars, fileVars
<1>5. CASE Admit(r)
  BY <1>5, HandlerTurns DEF Admit, EndGuarded, processVars, fileVars
<1>6. CASE Spawn(r)
  <2>1. CASE EndGuarded(r, "failed") /\ UNCHANGED proc
    BY <1>6, <2>1, HandlerTurns DEF Spawn, EndGuarded, fileVars
  <2>2. CASE /\ proc' = [proc EXCEPT ![r] = "running"]
             /\ Goto(r, IF rendition[r] = Direct THEN "stream" ELSE "generate")
    BY <1>6, <2>2, HandlerTurns DEF Spawn, fileVars
  <2> QED
    BY <1>6, <2>1, <2>2 DEF Spawn
<1>7. CASE StreamDrop(r)
  <2>1. CASE UNCHANGED reaper /\ (UNCHANGED proc \/ Kill(r))
    BY <1>7, <2>1, HandlerTurns DEF StreamDrop, fileVars
  <2>2. CASE reaper' = [reaper EXCEPT ![r] = "stream"] /\ UNCHANGED proc
    BY <1>0, <1>7, <2>2, TaskStarts DEF StreamDrop, fileVars
  <2> QED
    BY <1>7, <2>1, <2>2 DEF StreamDrop
<1>8. CASE DownloadExited(r)
  <2>1. CASE proc[r] = "ok" /\ Goto(r, "rename")
    BY <1>8, <2>1, HandlerTurns DEF DownloadExited, processVars, fileVars, Renditions
  <2>2. CASE EndGuarded(r, "failed")
    BY <1>8, <2>2, HandlerTurns DEF DownloadExited, EndGuarded, processVars, fileVars
  <2> QED
    BY <1>8, <2>1, <2>2 DEF DownloadExited
<1>9. CASE DownloadPublish(r)
  <2>1. CASE EndGuarded(r, "failed") /\ UNCHANGED output
    BY <1>9, <2>1, HandlerTurns DEF DownloadPublish, EndGuarded, processVars
  <2>2. CASE /\ output' = [output EXCEPT ![rendition[r]] = [by |-> r, manifest |-> TRUE]]
             /\ EndGuarded(r, "read")
    BY <1>0, <1>9, <2>2, DownloadsAreWhole DEF DownloadPublish, EndGuarded, processVars
  <2> QED
    BY <1>9, <2>1, <2>2 DEF DownloadPublish
<1>10. CASE ManifestReady(r)
  BY <1>10, HandlerTurns DEF ManifestReady, EndGuarded, IsHls, processVars, fileVars
<1>11. CASE HlsPublish(r)
  BY <1>11, HlsPublishKeepsRenditions
<1> QED
  BY <1>1, <1>2, <1>3, <1>4, <1>5, <1>6, <1>7, <1>8, <1>9, <1>10, <1>11 DEF HandlerStep

(* ffmpeg ends, and the task that waits for it goes on. *)
LEMMA ProcessesKeepRenditions ==
  ASSUME RenditionsFit, GuardsFit', NEW r \in Requests, Exit(r) \/ Reap(r)
  PROVE  RenditionsFit'
<1>0. Stands(r) /\ Clears(r) /\ GuardsFit /\ RenditionTypes
  BY DEF RenditionsFit
<1>1. UNCHANGED <<pc, rendition, output, orphan>>
  BY DEF Exit, Reap, handlerVars, fileVars
<1>2. CASE Exit(r)
  <2>1. PICK status \in {"ok", "err"} : proc' = [proc EXCEPT ![r] = status]
    BY <1>2 DEF Exit
  <2>2. /\ RenditionTypes' /\ UNCHANGED reaper /\ proc[r] \notin {"ok", "err"}
        /\ \A q \in Requests \ {r} : proc'[q] = proc[q]
    BY <1>0, <1>1, <1>2, <2>1 DEF Exit, RenditionTypes
  <2>3. Alone(r) /\ StaysOver(r) /\ GoesOnWatching(r) /\ Stands(r)'
    BY <1>0, <1>1, <2>2 DEF Alone, StaysOver, GoesOnWatching, Stands
  <2> QED
    BY <1>1, <2>2, <2>3, TurnKeepsRenditions
<1>3. CASE Reap(r)
  <2>1. /\ RenditionTypes' /\ UNCHANGED proc
        /\ \A q \in Requests \ {r} : reaper'[q] = reaper[q]
        /\ reaper[r] \in {"stream", "temp", "output"} /\ proc[r] \in {"ok", "err"}
        /\ reaper'[r] = IF reaper[r] = "output" /\ proc[r] = "err" THEN "cleanup" ELSE "none"
    BY <1>0, <1>1, <1>3 DEF Reap, RenditionTypes, processVars
  <2>2. Alone(r) /\ StaysOver(r) /\ GoesOnWatching(r) /\ Stands(r)'
    BY <1>0, <1>1, <2>1 DEF Alone, StaysOver, GoesOnWatching, Stands
  <2> QED
    BY <1>1, <2>1, <2>2, TurnKeepsRenditions
<1> QED
  BY <1>2, <1>3

(* A task removes the rendition of an ffmpeg that failed: what is there is    *)
(* its own, unless a removal was at the path.                               *)
LEMMA CleanUpKeepsRenditions ==
  ASSUME RenditionsFit, GuardsFit', NEW r \in Requests, CleanUp(r)
  PROVE  RenditionsFit'
<1> DEFINE k == rendition[r]
<1>0. /\ Stands(r) /\ Clears(r) /\ GuardsFit /\ RenditionTypes /\ Watches(r)
      /\ UNCHANGED <<pc, rendition, proc, orphan>>
      /\ reaper[r] \in {"cleanup", "rmdir"} /\ pc[r] = "served"
      /\ k \in Renditions
  BY DEF RenditionsFit, CleanUp, handlerVars, processVars, Stands, Renditions
<1>1. \A q \in Requests \ {r} : reaper'[q] = reaper[q]
  BY <1>0 DEF CleanUp, RenditionTypes
<1>2. CASE reaper[r] = "cleanup"
  <2>1. /\ output' = [output EXCEPT ![k].manifest = FALSE]
        /\ reaper'[r] = "rmdir"
        /\ reaper' \in [Requests -> {"none", "stream", "temp", "output", "cleanup", "rmdir"}]
    BY <1>0, <1>2 DEF CleanUp, RenditionTypes
  <2>2. /\ output'[k].by = output[k].by /\ output'[k].manifest = FALSE
        /\ output'[k] \in Output
        /\ \A l \in Renditions \ {k} : output'[l] = output[l]
    <3> DEFINE new == [output[k] EXCEPT !.manifest = FALSE]
    <3>1. output[k] \in [by : Requests, manifest : BOOLEAN] \/ output[k] = Absent
      BY <1>0 DEF RenditionTypes, Output
    <3>2. ASSUME output[k] \in [by : Requests, manifest : BOOLEAN]
          PROVE  new.by = output[k].by /\ new.manifest = FALSE /\ new \in Output
      BY <3>2 DEF Output
    <3>3. ASSUME output[k] = Absent
          PROVE  new.by = output[k].by /\ new.manifest = FALSE /\ new \in Output
      <4>1. output[k] \in [by : {NoRequest}, manifest : {FALSE}]
        BY <3>3 DEF Absent
      <4>2. new \in [by : {NoRequest}, manifest : {FALSE}]
        BY <4>1
      <4> QED
        BY <4>1, <4>2 DEF Output, Absent
    <3>6. new.by = output[k].by /\ new.manifest = FALSE /\ new \in Output
      BY <3>1, <3>2, <3>3
    <3>4. output' = [output EXCEPT ![k] = new]
      BY <2>1
    <3> HIDE DEF new
    <3>5. /\ output'[k] = new
          /\ \A l \in Renditions \ {k} : output'[l] = output[l]
      BY <1>0, <3>4 DEF RenditionTypes
    <3> QED
      BY <3>6, <3>5
  <2>3. RenditionTypes'
    BY <1>0, <2>1, <2>2 DEF RenditionTypes
  <2>4. Alone(r) /\ StaysOver(r) /\ Stands(r)'
    BY <1>0, <1>1, <2>1 DEF Alone, StaysOver, Stands
  <2>5. ASSUME NEW q \in Requests, reaper'[q] \in {"output", "cleanup"}, rendition[q] = k
        PROVE  Swept(k)'
    <3>1. q # r /\ reaper[q] \in {"output", "cleanup"}
      BY <1>1, <2>1, <2>5
    <3>2. Watches(q)
      BY DEF RenditionsFit
    <3>3. Swept(k)
      BY <1>0, <1>2, <2>5, <3>1, <3>2 DEF Watches
    <3> QED
      BY <1>0, <3>3 DEF Swept
  <2> QED
    BY <1>0, <2>2, <2>3, <2>4, <2>5, RemovalKeepsRenditions
<1>3. CASE reaper[r] = "rmdir"
  <2>1. /\ output' = [output EXCEPT ![k] = IF Exists(k) THEN output[k] ELSE Absent]
        /\ reaper'[r] = "none"
        /\ reaper' \in [Requests -> {"none", "stream", "temp", "output", "cleanup", "rmdir"}]
    BY <1>0, <1>3 DEF CleanUp, RenditionTypes
  <2>2. RenditionTypes'
    BY <1>0, <2>1 DEF RenditionTypes, Output
  <2>3. Alone(r) /\ StaysOver(r) /\ Stands(r)'
    BY <1>0, <1>1, <2>1 DEF Alone, StaysOver, Stands
  <2>4. CASE Exists(k)
    <3>1. UNCHANGED output
      BY <1>0, <2>1, <2>4 DEF RenditionTypes
    <3> QED
      BY <1>0, <1>3, <2>1, <2>2, <2>3, <3>1, TurnKeepsRenditions DEF GoesOnWatching
  <2>5. CASE ~Exists(k)
    <3>1. output'[k] = Absent /\ \A l \in Renditions \ {k} : output'[l] = output[l]
      BY <1>0, <2>1, <2>5 DEF RenditionTypes
    <3>2. ASSUME NEW q \in Requests, reaper'[q] \in {"output", "cleanup"}, rendition[q] = k
          PROVE  Swept(k)'
      <4>1. Watches(q) /\ reaper[q] \in {"output", "cleanup"}
        BY <1>1, <2>1, <3>2 DEF RenditionsFit
      <4>2. output[k] # [by |-> q, manifest |-> TRUE]
        BY <2>5 DEF Exists
      <4>3. Swept(k)
        BY <3>2, <4>1, <4>2 DEF Watches
      <4> QED
        BY <1>0, <4>3 DEF Swept
    <3>3. ~output'[k].manifest
      BY <3>1 DEF Absent
    <3> QED
      BY <1>0, <2>2, <2>3, <3>1, <3>2, <3>3, RemovalKeepsRenditions
  <2> QED
    BY <2>4, <2>5
<1> QED
  BY <1>0, <1>2, <1>3

(* A call that outlived its handler. *)
LEMMA OrphansKeepRenditions ==
  ASSUME RenditionsFit, GuardsFit', NEW r \in Requests, OrphanRuns(r)
  PROVE  RenditionsFit'
<1> DEFINE k == rendition[r]
<1>0. /\ Stands(r) /\ Clears(r) /\ GuardsFit /\ RenditionTypes
      /\ UNCHANGED <<pc, rendition, proc, reaper>>
      /\ orphan[r] \in {"rename", "clear"} /\ pc[r] = "cancelled" /\ reaper[r] = "none"
      /\ k \in Renditions
  BY DEF RenditionsFit, OrphanRuns, handlerVars, processVars, Stands
<1>1. /\ \A q \in Requests \ {r} : orphan'[q] = orphan[q]
      /\ orphan'[r] = IF orphan[r] = "clear" THEN "cleared" ELSE "none"
      /\ orphan' \in [Requests -> {"none", "rename", "clear", "cleared"}]
  BY <1>0 DEF OrphanRuns, RenditionTypes
<1>2. Alone(r) /\ StaysOver(r) /\ Stands(r)' /\ GoesOnWatching(r)
  BY <1>0, <1>1 DEF Alone, StaysOver, Stands, GoesOnWatching
<1>3. CASE UNCHANGED output
  <2>1. RenditionTypes'
    BY <1>0, <1>1, <1>3 DEF RenditionTypes
  <2> QED
    BY <1>0, <1>2, <1>3, <2>1, TurnKeepsRenditions
<1>4. CASE /\ orphan[r] = "rename"
           /\ IsHls(r) => ~Exists(k)
           /\ output' = [output EXCEPT ![k] = [by |-> r, manifest |-> TRUE]]
  <2>1. RenditionTypes'
    BY <1>0, <1>1, <1>4 DEF RenditionTypes, Output
  <2>2. \/ k \in DownloadRenditions /\ proc[r] = "ok"
        \/ k \in HlsRenditions /\ ~Exists(k)
    BY <1>0, <1>4 DEF Stands, Renditions, IsHls
  <2> QED
    BY <1>0, <1>2, <1>4, <2>1, <2>2, PublishingKeepsRenditions DEF Finished
<1>5. CASE orphan[r] = "clear" /\ output' = [output EXCEPT ![k] = Absent]
  <2>1. RenditionTypes' /\ output'[k] = Absent
    BY <1>0, <1>1, <1>5 DEF RenditionTypes, Output
  <2>2. Swept(k)'
    BY <1>0, <1>1, <1>5 DEF Swept
  <2>3. \A l \in Renditions \ {k} : output'[l] = output[l]
    BY <1>0, <1>5 DEF RenditionTypes
  <2>4. ~output'[k].manifest
    BY <2>1 DEF Absent
  <2> QED
    BY <1>0, <1>2, <2>1, <2>2, <2>3, <2>4, RemovalKeepsRenditions
<1> QED
  BY <1>3, <1>4, <1>5 DEF OrphanRuns

(* A handler is dropped: its call, if one is under way, goes on. *)
LEMMA CancelKeepsRenditions ==
  ASSUME RenditionsFit, GuardsFit', NEW r \in Requests, Cancel(r)
  PROVE  RenditionsFit'
<1>0. /\ Stands(r) /\ GuardsFit /\ RenditionTypes
      /\ UNCHANGED <<rendition, output, reaper>>
  BY DEF RenditionsFit, Cancel
<1>1. /\ pc'[r] = "cancelled" /\ \A q \in Requests \ {r} : pc'[q] = pc[q]
      /\ pc[r] \notin {"idle"} \cup Finished
  BY <1>0 DEF Cancel, EndGuarded, Goto, GuardsFit
<1>2. /\ proc' \in [Requests -> {"none", "running", "killed", "ok", "err"}]
      /\ \A q \in Requests \ {r} : proc'[q] = proc[q]
      /\ proc[r] = "ok" => proc'[r] = "ok"
  BY <1>0 DEF Cancel, Kill, RenditionTypes
<1>3. /\ orphan'[r] \in {"none", "rename", "clear"}
      /\ orphan'[r] = "rename" => pc[r] \in {"rename", "rename_again"}
      /\ orphan'[r] = "clear" => pc[r] = "clear"
      /\ \A q \in Requests \ {r} : orphan'[q] = orphan[q]
      /\ orphan' \in [Requests -> {"none", "rename", "clear", "cleared"}]
  <2>1. PICK o \in {"none", "rename", "clear"} :
             /\ orphan' = [orphan EXCEPT ![r] = o]
             /\ o = "rename" => pc[r] \in {"rename", "rename_again"}
             /\ o = "clear" => pc[r] = "clear"
    BY DEF Cancel
  <2> QED
    BY <1>0, <2>1 DEF RenditionTypes
<1>4. reaper[r] = "none" /\ orphan[r] = "none"
  BY <1>0, <1>1 DEF Stands, Finished
<1>5. RenditionTypes'
  BY <1>0, <1>2, <1>3 DEF RenditionTypes
<1>6. Alone(r) /\ StaysOver(r) /\ GoesOnWatching(r)
  BY <1>0, <1>1, <1>2, <1>3, <1>4 DEF Alone, StaysOver, GoesOnWatching, Finished
<1>7. Stands(r)'
  BY <1>0, <1>1, <1>2, <1>3, <1>4, RenditionsDistinct DEF Stands, Renditions
<1> QED
  BY <1>0, <1>1, <1>4, <1>5, <1>6, <1>7, TurnKeepsRenditions

(* Every step at all. *)
LEMMA StepsKeepRenditions ==
  ASSUME RenditionsFit, [MediaNext]_vars
  PROVE  RenditionsFit'
<1>0. GuardsFit'
  BY StepsKeepGuards DEF RenditionsFit
<1>a. ASSUME UNCHANGED <<pc, rendition, proc, output, reaper, orphan>> PROVE RenditionsFit'
  BY <1>0, <1>a DEF RenditionsFit, RenditionTypes, Stands, Clears, Watches, Sound, Exists, Swept
<1>1. ASSUME NEW r \in Requests, NEW k \in Renditions \cup {Direct}, Arrive(r, k)
      PROVE  RenditionsFit'
  <2>1. /\ UNCHANGED <<proc, output, reaper, orphan>>
        /\ pc[r] = "idle" /\ pc'[r] \in {"recheck", "lookup"}
        /\ \A q \in Requests \ {r} : pc'[q] = pc[q] /\ rendition'[q] = rendition[q]
    BY <1>1 DEF Arrive, Goto, RenditionsFit, GuardsFit, processVars, fileVars
  <2>2. orphan[r] = "none" /\ reaper[r] = "none"
    BY <2>1 DEF RenditionsFit, Stands
  <2>3. RenditionTypes'
    BY <2>1 DEF RenditionsFit, RenditionTypes
  <2>4. Alone(r) /\ StaysOver(r) /\ GoesOnWatching(r) /\ Stands(r)'
    BY <2>1, <2>2 DEF Alone, StaysOver, GoesOnWatching, Stands, Finished
  <2> QED
    BY <1>0, <2>1, <2>2, <2>3, <2>4, TurnKeepsRenditions
<1>2. ASSUME NEW r \in Requests, HandlerStep(r) PROVE RenditionsFit'
  BY <1>0, <1>2, HandlersKeepRenditions
<1>3. ASSUME NEW r \in Requests, WriteManifest(r) PROVE RenditionsFit'
  BY <1>a, <1>3 DEF WriteManifest, handlerVars, fileVars
<1>4. ASSUME NEW r \in Requests, BackgroundStep(r) PROVE RenditionsFit'
  BY <1>0, <1>4, ProcessesKeepRenditions, CleanUpKeepsRenditions, OrphansKeepRenditions
     DEF BackgroundStep
<1>5. ASSUME NEW r \in Requests, Cancel(r) PROVE RenditionsFit'
  BY <1>0, <1>5, CancelKeepsRenditions
<1>6. ASSUME NEW l \in Limits, ChangeLimit(l) PROVE RenditionsFit'
  BY <1>a, <1>6 DEF ChangeLimit, handlerVars, processVars, fileVars
<1>7. CASE UNCHANGED vars
  BY <1>a, <1>7 DEF vars, handlerVars, processVars, fileVars
<1> QED
  BY <1>1, <1>2, <1>3, <1>4, <1>5, <1>6, <1>7 DEF MediaNext

LEMMA RenditionsFitAtFirst == MediaInit => RenditionsFit
<1> SUFFICES ASSUME MediaInit PROVE RenditionsFit
  OBVIOUS
<1>1. GuardsFit
  BY GuardsFitAtFirst
<1>2. RenditionTypes
  BY DEF MediaInit, RenditionTypes, Output
<1>3. \A r \in Requests : Stands(r) /\ Clears(r) /\ Watches(r)
  BY DEF MediaInit, Stands, Clears, Watches
<1>4. \A k \in Renditions : Sound(k)
  BY DEF MediaInit, Sound, Absent
<1> QED
  BY <1>1, <1>2, <1>3, <1>4 DEF RenditionsFit

(* What is published is complete or watched, whatever handlers were dropped   *)
(* and whatever calls outlived them.                                        *)
THEOREM RenditionsAreWatched == MediaSpec => []RenditionIsWatched
<1>1. MediaInit => RenditionsFit
  BY RenditionsFitAtFirst
<1>2. RenditionsFit /\ [MediaNext]_vars => RenditionsFit'
  BY StepsKeepRenditions
<1>3. RenditionsFit => RenditionIsWatched
  <2> SUFFICES ASSUME RenditionsFit, NEW k \in Renditions, Exists(k)
               PROVE  LET r == output[k].by IN
                        \/ proc[r] = "ok"
                        \/ k \in HlsRenditions /\ (reaper[r] \in {"output", "cleanup"}
                                                  \/ pc[r] = "cancelled")
    BY DEF RenditionIsWatched
  <2>1. Sound(k) /\ output[k].by # NoRequest
    BY RenditionsDistinct DEF RenditionsFit, RenditionTypes, Output, Absent, Exists
  <2> QED
    BY <2>1 DEF Sound
<1>4. QED
  BY <1>1, <1>2, <1>3, PTL DEF MediaSpec

(* What may become of a rendition that is there. *)
Kept(k) ==
  \/ output'[k].by = output[k].by /\ proc[output[k].by] = "err"
  \/ pc[output[k].by] = "cancelled"
  \/ Swept(k)

(* Who publishes found nothing there, who clears had seen nothing there, and  *)
(* a task removes its own.                                                  *)
LEMMA StepsKeepWhatIsThere ==
  ASSUME RenditionsFit, [MediaNext]_vars, NEW k \in HlsRenditions, Exists(k), output'[k] # output[k]
  PROVE  Kept(k)
<1>0. k \in Renditions /\ k \notin DownloadRenditions /\ RenditionTypes
  BY RenditionsDistinct DEF Renditions, RenditionsFit
<1>1. ASSUME NEW r \in Requests, DownloadPublish(r) PROVE Kept(k)
  BY <1>0, <1>1 DEF DownloadPublish, RenditionTypes
<1>2. ASSUME NEW r \in Requests, HlsPublish(r) PROVE Kept(k)
  <2>1. k = rendition[r] /\ pc[r] = "clear"
    BY <1>0, <1>2 DEF HlsPublish, YieldToPublished, MoveIntoPlace, Abandon, RenditionTypes
  <2> QED
    BY <2>1 DEF Kept, RenditionsFit, Clears
<1>3. ASSUME NEW r \in Requests, CleanUp(r) PROVE Kept(k)
  <2>1. k = rendition[r] /\ reaper[r] = "cleanup" /\ output' = [output EXCEPT ![k].manifest = FALSE]
    BY <1>0, <1>3 DEF CleanUp, RenditionTypes
  <2>2. output'[k].by = output[k].by
    BY <1>0, <2>1 DEF RenditionTypes
  <2>3. proc[r] = "err" /\ (output[k] = [by |-> r, manifest |-> TRUE] \/ Swept(k))
    BY <2>1 DEF RenditionsFit, Stands, Watches
  <2> QED
    BY <2>2, <2>3 DEF Kept
<1>4. ASSUME NEW r \in Requests, OrphanRuns(r) PROVE Kept(k)
  <2>1. k = rendition[r] /\ orphan[r] = "clear"
    BY <1>0, <1>4 DEF OrphanRuns, IsHls, RenditionTypes
  <2> QED
    BY <2>1 DEF Kept, Swept
<1>5. CASE UNCHANGED output
  BY <1>5
<1> QED
  BY <1>1, <1>2, <1>3, <1>4, <1>5 DEF MediaNext, vars, fileVars, Arrive, HandlerStep, Lookup, Read,
     JoinOrStart, Wake, Admit, Spawn, StreamDrop, DownloadExited, ManifestReady, WriteManifest,
     BackgroundStep, Exit, Reap, Cancel, ChangeLimit

(* A rendition of a handler that ran to its end stays, unless its own ffmpeg  *)
(* failed or a removal outlived its handler.                                *)
THEOREM RenditionsAreKept == MediaSpec => RenditionIsKept
<1>1. MediaInit => RenditionsFit
  BY RenditionsFitAtFirst
<1>2. RenditionsFit /\ [MediaNext]_vars => RenditionsFit'
  BY StepsKeepRenditions
<1>3. RenditionsFit /\ [MediaNext]_vars =>
        [\A k \in HlsRenditions :
           Exists(k) /\ output'[k] # output[k] =>
             \/ output'[k].by = output[k].by /\ proc[output[k].by] = "err"
             \/ pc[output[k].by] = "cancelled"
             \/ \E r \in Requests : orphan[r] \in {"clear", "cleared"} /\ rendition[r] = k]_vars
  BY StepsKeepWhatIsThere DEF Kept, Swept
<1>4. QED
  BY <1>1, <1>2, <1>3, PTL DEF MediaSpec, RenditionIsKept

-----------------------------------------------------------------------------
(* Types.                                                                   *)

(* Only requests are done or have written a manifest.                       *)
LEMMA StepsKeepSets ==
  ASSUME done \subseteq Requests, usable \subseteq Requests, [MediaNext]_vars
  PROVE  done' \subseteq Requests /\ usable' \subseteq Requests
<1>1. ASSUME NEW r \in Requests, DropGuard(r) PROVE done' \subseteq Requests
  BY <1>1 DEF DropGuard
<1>2. ASSUME NEW r \in Requests, HandlerStep(r)
      PROVE  done' \subseteq Requests /\ UNCHANGED usable
  <2>1. CASE Lookup(r) \/ Read(r) \/ JoinOrStart(r) \/ Wake(r) \/ StreamDrop(r)
    BY <2>1 DEF Lookup, Read, JoinOrStart, Wake, StreamDrop, guardVars, processVars
  <2>2. CASE Admit(r) \/ Spawn(r) \/ DownloadExited(r) \/ DownloadPublish(r) \/ ManifestReady(r)
    BY <1>1, <2>2 DEF Admit, Spawn, DownloadExited, DownloadPublish, ManifestReady,
       EndGuarded, guardVars, processVars
  <2>3. CASE HlsPublish(r)
    BY <1>1, <2>3 DEF HlsPublish, YieldToPublished, MoveIntoPlace, Abandon, EndGuarded, guardVars
  <2>4. QED
    BY <1>2, <2>1, <2>2, <2>3 DEF HandlerStep
<1>3. ASSUME NEW r \in Requests, BackgroundStep(r) PROVE UNCHANGED <<done, usable>>
  BY <1>3 DEF BackgroundStep, Exit, Reap, CleanUp, OrphanRuns, guardVars, processVars
<1>4. ASSUME NEW r \in Requests, Cancel(r) PROVE done' \subseteq Requests /\ UNCHANGED usable
  BY <1>1, <1>4 DEF Cancel, EndGuarded
<1>5. ASSUME NEW r \in Requests, WriteManifest(r) PROVE usable' \subseteq Requests /\ UNCHANGED done
  BY <1>5 DEF WriteManifest, guardVars
<1>6. ASSUME NEW r \in Requests, NEW k, Arrive(r, k) PROVE UNCHANGED <<done, usable>>
  BY <1>6 DEF Arrive, guardVars, processVars
<1>7. ASSUME NEW l \in Limits, ChangeLimit(l) PROVE UNCHANGED <<done, usable>>
  BY <1>7 DEF ChangeLimit, guardVars, processVars
<1>8. CASE UNCHANGED vars
  BY <1>8 DEF vars, guardVars, processVars
<1>9. QED
  BY <1>2, <1>3, <1>4, <1>5, <1>6, <1>7, <1>8 DEF MediaNext

(* The handlers are where the code has an await, wait for requests and hold   *)
(* guards of renditions, and a path has what a request published or nothing.  *)
THEOREM MediaTypes == MediaSpec => []MediaTypeOK
<1> DEFINE Sets == done \subseteq Requests /\ usable \subseteq Requests
<1>1. MediaInit => RenditionsFit /\ WaitersFit /\ Sets
  BY RenditionsFitAtFirst, WaitersFitAtFirst DEF MediaInit
<1>2. RenditionsFit /\ WaitersFit /\ Sets /\ [MediaNext]_vars
        => RenditionsFit' /\ WaitersFit' /\ Sets'
  BY StepsKeepRenditions, StepsKeepWaiters, StepsKeepSets
<1>3. AdmissionTypeOK /\ RenditionsFit /\ WaitersFit /\ Sets => MediaTypeOK
  BY DEF MediaTypeOK, RenditionsFit, RenditionTypes, GuardsFit, States, WaitersFit
<1> HIDE DEF Sets
<1>4. QED
  BY <1>1, <1>2, <1>3, MediaAccounting, PTL DEF MediaSpec
===============================================================================
