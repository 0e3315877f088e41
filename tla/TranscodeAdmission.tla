-------------------------- MODULE TranscodeAdmission --------------------------
(***************************************************************************)
(* The transcode slot pool (src/src/transcode.rs, TranscodeAdmission): a   *)
(* limit and a counter behind one mutex, and slots that give their unit    *)
(* back when they are dropped.  Each operation takes the mutex once and    *)
(* never across an await, so each is one step.                             *)
(*                                                                         *)
(* `slots' is the set of TranscodeSlot values alive, named by the request  *)
(* that was granted them.  The code has no such set: it only counts, and   *)
(* what is checked is that the counter and the set never part.             *)
(***************************************************************************)
EXTENDS Naturals, FiniteSets

CONSTANTS
  Requests,     \* everything that may ask for a slot
  Limits        \* values an administrator may give the concurrency limit

ASSUME RequestsFinite == IsFiniteSet(Requests)
ASSUME LimitsAreNat == Limits \subseteq Nat

VARIABLES
  limit,        \* TranscodeAdmissionState.limit
  in_use,       \* TranscodeAdmissionState.in_use
  slots         \* the slots alive

admissionVars == <<limit, in_use, slots>>

AdmissionTypeOK ==
  /\ limit \in Nat
  /\ in_use \in Nat
  /\ slots \subseteq Requests

-----------------------------------------------------------------------------
(* The limit is the configured one when the server starts; any later value *)
(* may also be the first.                                                  *)
AdmissionInit ==
  /\ limit \in Limits
  /\ in_use = 0
  /\ slots = {}

TryAcquire(r) ==
  /\ r \notin slots
  /\ in_use < limit
  /\ in_use' = in_use + 1
  /\ slots' = slots \cup {r}
  /\ UNCHANGED limit

(* The error path of try_acquire, which changes nothing. *)
Exhausted == in_use >= limit

(* A drop that forgets the counter, for the mutants. *)
SlotDropForgotten(r) ==
  /\ r \in slots
  /\ slots' = slots \ {r}
  /\ UNCHANGED <<limit, in_use>>

(* saturating_sub: an empty counter stays empty. *)
SlotDrop(r) ==
  /\ r \in slots
  /\ slots' = slots \ {r}
  /\ in_use' = IF in_use > 0 THEN in_use - 1 ELSE 0
  /\ UNCHANGED limit

SetLimit(l) ==
  /\ limit' = l
  /\ UNCHANGED <<in_use, slots>>

AdmissionNext ==
  \/ \E r \in Requests : TryAcquire(r)
  \/ \E r \in Requests : SlotDrop(r)
  \/ \E l \in Limits : SetLimit(l)

AdmissionSpec == AdmissionInit /\ [][AdmissionNext]_admissionVars

-----------------------------------------------------------------------------
(* The counter is the number of slots alive: no path drops a slot twice or *)
(* loses one, so the debug_assert of TranscodeSlot::drop ("transcode slot  *)
(* counter underflow") cannot fire and saturating_sub never saturates.     *)
SlotAccounting == in_use = Cardinality(slots)

(* The hard slot limit: a slot is granted one at a time, and only while    *)
(* fewer slots are alive than the limit of that moment allows.  A limit    *)
(* lowered under the number in use admits nobody until enough have ended.  *)
HardLimit ==
  [][slots' \subseteq slots
       \/ (Cardinality(slots) < limit
             /\ \E r \in Requests : slots' = slots \cup {r})]_admissionVars
===============================================================================
