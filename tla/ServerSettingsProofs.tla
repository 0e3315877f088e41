------------------------ MODULE ServerSettingsProofs ------------------------
(***************************************************************************)
(* What holds of the settings and of the health of the providers, for any  *)
(* number of administrators, slots and providers: whoever writes a row of  *)
(* health back as a whole has read one that fits, and one with the switch  *)
(* and the key of the settings, unless it met a change of them.            *)
(***************************************************************************)
EXTENDS ServerSettings, FiniteSetTheorems, SequenceTheorems, WellFoundedInduction, TLAPS

-----------------------------------------------------------------------------
(* Rows.                                                                    *)

SettingType == [enabled : BOOLEAN, key : BOOLEAN]

Statuses == {"Disabled", "Unconfigured", "Healthy", "Degraded", "BackingOff"}

RowType ==
  [enabled : BOOLEAN, key : BOOLEAN, status : Statuses, ready : BOOLEAN,
   failures : Nat, failedAt : Nat \cup {None}, retry : Nat \cup {None}]

(* A row that backs off does so to the end its failures ask for.            *)
BacksOffRightly(row) ==
  row.status = "BackingOff" =>
     /\ row.failures > 0 /\ row.retry # None
     /\ row.retry = row.failedAt + BackoffAfter(row.failures)

FitRows == {row \in RowType : BacksOffRightly(row)}

(* A row shows the switch and the key of a setting.                         *)
Shows(row, setting) == row.enabled = setting.enabled /\ row.key = setting.key

LEMMA MinIsThere ==
  ASSUME NEW S, S \subseteq Int, \A n \in S : n >= 0, S # {}
  PROVE  Min(S) \in S
<1>0. S \subseteq Nat
  OBVIOUS
<1>1. PICK n \in S : \A k \in S : <<k, n>> \notin OpToRel(<, Nat)
  BY <1>0, WFMin, NatLessThanWellFounded, Zenon
<1>2. \A k \in S : n <= k
  <2> SUFFICES ASSUME NEW k \in S PROVE ~(k < n)
    BY <1>0
  <2> QED
    BY <1>0, <1>1, Zenon DEF OpToRel
<1>3. QED
  BY <1>1, <1>2 DEF Min

LEMMA BackoffIsLong ==
  ASSUME NEW n \in Nat, n > 0
  PROVE  BackoffAfter(n) \in Nat
<1> DEFINE S == {n, Len(Backoff)}
<1>1. Backoff \in Seq(Nat \ {0}) /\ Backoff # <<>>
  BY SettingsAssumption
<1>2. Len(Backoff) \in Nat /\ Len(Backoff) > 0
  BY <1>1
<1>3. Min(S) \in S
  BY <1>2, MinIsThere
<1>4. Min(S) \in 1..Len(Backoff)
  <2>1. Min(S) <= Len(Backoff)
    BY <1>2 DEF Min
  <2>2. QED
    BY <1>2, <1>3, <2>1
<1>5. Backoff[Min(S)] \in Nat \ {0}
  BY <1>1, <1>4, ElementOfSeq
<1>6. QED
  BY <1>5 DEF BackoffAfter

LEMMA ConfigHealthFits ==
  ASSUME NEW p, NEW setting \in SettingType
  PROVE  /\ ConfigHealth(p, setting) \in FitRows
         /\ Shows(ConfigHealth(p, setting), setting)
BY DEF ConfigHealth, FitRows, RowType, Statuses, SettingType, Shows, BacksOffRightly

LEMMA ReconciledFits ==
  ASSUME NEW row \in FitRows, NEW t
  PROVE  /\ Reconciled(row, t) \in FitRows
         /\ Shows(Reconciled(row, t), row)
         /\ Off(Reconciled(row, t).status) <=> Off(row.status)
<1>1. row \in RowType /\ BacksOffRightly(row)
  BY DEF FitRows
<1>2. CASE Reconciled(row, t) = row
  BY <1>1, <1>2 DEF FitRows, Shows
<1>3. CASE Reconciled(row, t) = [row EXCEPT !.ready = FALSE]
  <2> DEFINE n == [row EXCEPT !.ready = FALSE]
  <2>1. /\ n \in RowType /\ n.status = row.status /\ n.failures = row.failures
        /\ n.retry = row.retry /\ n.failedAt = row.failedAt
        /\ n.enabled = row.enabled /\ n.key = row.key
    BY <1>1 DEF RowType
  <2> HIDE DEF n
  <2>2. QED
    BY <1>1, <1>3, <2>1 DEF FitRows, Shows, BacksOffRightly, n
<1>4. CASE /\ ~Off(row.status)
           /\ Reconciled(row, t) = [row EXCEPT !.status = "Degraded", !.ready = TRUE, !.retry = None]
  <2> DEFINE n == [row EXCEPT !.status = "Degraded", !.ready = TRUE, !.retry = None]
  <2>1. /\ n \in RowType /\ n.status = "Degraded"
        /\ n.enabled = row.enabled /\ n.key = row.key
    BY <1>1 DEF RowType, Statuses
  <2> HIDE DEF n
  <2>2. QED
    BY <1>1, <1>4, <2>1 DEF FitRows, Shows, BacksOffRightly, Off, n
<1>5. QED
  BY <1>2, <1>3, <1>4 DEF Reconciled

LEMMA HealthOfFits ==
  ASSUME NEW p, NEW setting \in SettingType, NEW row \in FitRows
  PROVE  /\ HealthOf(p, setting, row) \in FitRows
         /\ Shows(HealthOf(p, setting, row), setting)
         /\ Off(HealthOf(p, setting, row).status) <=> Off(ConfigHealth(p, setting).status)
<1> DEFINE config == ConfigHealth(p, setting)
           flagged == [row EXCEPT !.enabled = config.enabled, !.key = config.key]
<1>1. row \in RowType /\ BacksOffRightly(row)
  BY DEF FitRows
<1>2. config \in RowType /\ config.enabled = setting.enabled /\ config.key = setting.key
  BY ConfigHealthFits DEF FitRows, Shows
<1> HIDE DEF config
<1>3. /\ flagged \in RowType /\ flagged.status = row.status
      /\ flagged.failures = row.failures /\ flagged.retry = row.retry
      /\ flagged.failedAt = row.failedAt
      /\ flagged.enabled = config.enabled /\ flagged.key = config.key
  BY <1>1, <1>2 DEF RowType
<1>4. CASE Off(config.status)
  <2> DEFINE n == [config EXCEPT !.failures = row.failures, !.failedAt = row.failedAt]
  <2>1. /\ n \in RowType /\ n.status = config.status
        /\ n.enabled = config.enabled /\ n.key = config.key
    BY <1>1, <1>2 DEF RowType
  <2>2. HealthOf(p, setting, row) = n
    BY <1>4 DEF HealthOf, config
  <2> HIDE DEF n
  <2>3. QED
    BY <1>2, <1>4, <2>1, <2>2 DEF FitRows, Shows, BacksOffRightly, Off, config
<1>5. CASE ~Off(config.status) /\ Off(row.status)
  <2> DEFINE n == [flagged EXCEPT !.status = "Healthy", !.ready = TRUE, !.retry = None]
  <2>2. HealthOf(p, setting, row) = n
    BY <1>5 DEF HealthOf, config
  <2> HIDE DEF flagged
  <2>1. /\ n \in RowType /\ n.status = "Healthy"
        /\ n.enabled = flagged.enabled /\ n.key = flagged.key
    BY <1>3 DEF RowType, Statuses
  <2> HIDE DEF n
  <2>3. QED
    BY <1>2, <1>3, <1>5, <2>1, <2>2 DEF FitRows, Shows, BacksOffRightly, Off, config
<1>6. CASE ~Off(config.status) /\ ~Off(row.status)
  <2>1. HealthOf(p, setting, row) = flagged
    BY <1>6 DEF HealthOf, config
  <2> HIDE DEF flagged
  <2>2. QED
    BY <1>1, <1>2, <1>3, <1>6, <2>1 DEF FitRows, Shows, BacksOffRightly, config
<1>7. QED
  BY <1>4, <1>5, <1>6

LEMMA PreparedFits ==
  ASSUME NEW row \in FitRows
  PROVE  Prepared(row) \in FitRows /\ Shows(Prepared(row), row)
<1> DEFINE n == [row EXCEPT !.retry = None, !.ready = TRUE,
                            !.status = IF row.status = "BackingOff" THEN "Degraded" ELSE row.status]
<1>1. row \in RowType /\ BacksOffRightly(row)
  BY DEF FitRows
<1>2. /\ n \in RowType /\ n.status # "BackingOff"
      /\ n.enabled = row.enabled /\ n.key = row.key
  BY <1>1 DEF RowType, Statuses
<1>3. Prepared(row) = n
  BY <1>1 DEF Prepared, RowType
<1> HIDE DEF n
<1>4. QED
  BY <1>2, <1>3 DEF FitRows, Shows, BacksOffRightly

LEMMA AppliedFits ==
  ASSUME NEW row \in FitRows, NEW o, now \in Nat
  PROVE  Applied(row, o) \in FitRows /\ Shows(Applied(row, o), row)
<1>1. row \in RowType /\ row.failures \in Nat
  BY DEF FitRows, RowType
<1>2. CASE o = "failed"
  <2> DEFINE more == row.failures + 1
             end == now + BackoffAfter(more)
             n == [row EXCEPT !.failures = more, !.status = "BackingOff",
                              !.ready = FALSE, !.failedAt = now, !.retry = end]
  <2>1. more \in Nat /\ more > 0 /\ end \in Nat
    BY <1>1, BackoffIsLong
  <2>2. end # None /\ end = now + BackoffAfter(more)
    BY <2>1, SettingsAssumption
  <2>3. Applied(row, o) = n
    BY <1>1, <1>2 DEF Applied, RowType
  <2> HIDE DEF more, end
  <2>4. n \in RowType
    BY <1>1, <2>1 DEF RowType, Statuses
  <2>5. /\ n.status = "BackingOff" /\ n.failures = more
        /\ n.failedAt = now /\ n.retry = end
        /\ n.enabled = row.enabled /\ n.key = row.key
    BY <1>1, <2>1 DEF RowType, Statuses
  <2> HIDE DEF n
  <2>6. QED
    BY <2>1, <2>2, <2>3, <2>4, <2>5 DEF FitRows, Shows, BacksOffRightly
<1>3. CASE o # "failed"
  <2> DEFINE n == [row EXCEPT !.failures = 0, !.status = "Healthy", !.ready = TRUE,
                              !.retry = None]
  <2>1. /\ n \in RowType /\ n.status = "Healthy"
        /\ n.enabled = row.enabled /\ n.key = row.key
    BY <1>1 DEF RowType, Statuses
  <2>2. Applied(row, o) = n
    BY <1>3 DEF Applied
  <2> HIDE DEF n
  <2>3. QED
    BY <2>1, <2>2 DEF FitRows, Shows, BacksOffRightly
<1>4. QED
  BY <1>2, <1>3

-----------------------------------------------------------------------------
(* The invariant: where the actors are, and the rows they hold there.       *)

Reading == {"fetch", "fetchOne", "writeBack"}
Heading(x) == IF phase[x] \in Reading THEN then[x] ELSE phase[x]

RequestFits(asked, known) ==
  /\ asked.kind = "setting" =>
        /\ asked.provider \in known
        /\ asked.enabled \in BOOLEAN \cup {None} /\ asked.key \in BOOLEAN \cup {None}
  /\ asked.kind = "repair" => asked.providers \subseteq known

(* The tables.                                                              *)
TablesFit ==
  /\ Providers \subseteq Nat
  /\ settings \in [Providers -> SettingType]
  /\ health \in [Providers -> FitRows]
  /\ now \in Nat /\ crashes \in Nat
  /\ jobs \in Seq([repair : BOOLEAN, filter : SUBSET Providers])
  /\ \A h \in Handlers : RequestFits(op[h], Providers)

(* What the actors keep.                                                    *)
LocalsFit ==
  /\ phase = [x \in Actors |-> phase[x]]
  /\ answer = [x \in Actors |-> answer[x]]
  /\ rows = [x \in Actors |-> rows[x]]
  /\ then = [x \in Actors |-> then[x]]
  /\ dirty \in [Actors -> SUBSET Providers]
  /\ todo \in [Actors -> SUBSET Providers]
  /\ pending = [h \in Handlers |-> pending[h]]
  /\ active \in [Slots -> SUBSET Providers]

WritesDirty(x) == phase[x] = "writeBack" => dirty[x] # {} /\ dirty[x] \subseteq DOMAIN rows[x]

HoldsAll(x) == rows[x] \in [Providers -> FitRows]
HoldsNext(x) == todo[x] # {} /\ rows[x] \in [{Min(todo[x])} -> FitRows]

HandlerFits(h) ==
  /\ phase[h] \in {"idle", "save", "remember", "admit", "reconcile", "saveHealth", "looked",
                    "check", "choose", "prepare", "enqueue", "done"} \cup Reading
  /\ phase[h] = "idle" => rows[h] = Nothing
  /\ phase[h] \in {"reconcile", "saveHealth"} =>
        op[h].kind = "setting" /\ pending[h] \in SettingType
  /\ phase[h] = "saveHealth" => rows[h] \in [{op[h].provider} -> FitRows]
  /\ phase[h] = "fetch" => then[h] \in {"looked", "choose"}
  /\ phase[h] = "fetchOne" => then[h] \in {"check", "prepare"}
  /\ phase[h] = "writeBack" => then[h] \in {"looked", "choose", "check", "prepare"}
  /\ phase[h] \in {"check", "prepare"} => then[h] = phase[h]
  /\ WritesDirty(h)
  /\ Heading(h) \in {"check", "prepare"} => todo[h] # {}
  /\ Heading(h) = "check" => op[h].kind = "repair" /\ todo[h] \subseteq op[h].providers
  /\ Heading(h) \in {"prepare", "enqueue"} => pending[h] \in SUBSET Providers
  /\ phase[h] \notin {"fetch", "fetchOne"} =>
        /\ Heading(h) \in {"check", "prepare"} => HoldsNext(h)
        /\ Heading(h) \in {"looked", "choose"} => HoldsAll(h)

SlotFits(s) ==
  /\ phase[s] \in {"idle", "fetch", "writeBack", "registry", "join", "enrich", "recordRead",
                    "record", "settle"}
  /\ phase[s] \in {"fetch", "writeBack"} => then[s] = "registry"
  /\ WritesDirty(s)
  /\ phase[s] \in {"writeBack", "registry", "join"} => HoldsAll(s)
  /\ phase[s] = "recordRead" => todo[s] # {}
  /\ phase[s] = "record" => HoldsNext(s)

ImporterFits ==
  /\ phase[Worker] \in {"idle", "fetch", "writeBack", "claim", "keys", "running"}
  /\ phase[Worker] \in {"fetch", "writeBack"} => then[Worker] = "claim"
  /\ WritesDirty(Worker)
  /\ phase[Worker] \in {"writeBack", "claim"} => HoldsAll(Worker)

(* A job runs as long as one of its files is under way.                     *)
RunFits ==
  /\ \A s \in Slots : phase[s] # "idle" => phase[Worker] = "running"
  /\ phase[Worker] \in {"keys", "running"} =>
        job \in [repair : BOOLEAN, filter : SUBSET Providers, keys : SUBSET Providers, left : Nat]

ServerFits ==
  /\ TablesFit /\ LocalsFit
  /\ \A h \in Handlers : HandlerFits(h)
  /\ \A s \in Slots : SlotFits(s)
  /\ ImporterFits /\ RunFits

-----------------------------------------------------------------------------
(* One actor's step.                                                        *)

(* Nothing of another actor's changes.                                      *)
Alone(x) ==
  /\ \A y \in Actors \ {x} :
        /\ phase'[y] = phase[y] /\ rows'[y] = rows[y] /\ dirty'[y] = dirty[y]
        /\ then'[y] = then[y] /\ todo'[y] = todo[y]
  /\ \A h \in Handlers \ {x} : pending'[h] = pending[h]
  /\ \A s \in Slots \ {x} : active'[s] = active[s]

LEMMA ActorsDiffer ==
  /\ \A h \in Handlers : h \in Actors /\ h \notin Slots /\ h # Worker
  /\ \A s \in Slots : s \in Actors /\ s \notin Handlers /\ s # Worker
  /\ Worker \in Actors /\ Worker \notin Handlers /\ Worker \notin Slots
BY SettingsAssumption DEF Actors

LEMMA OthersFit ==
  ASSUME ServerFits, NEW x \in Actors, Alone(x), Providers' = Providers, UNCHANGED op
  PROVE  /\ \A h \in Handlers \ {x} : HandlerFits(h)'
         /\ \A s \in Slots \ {x} : SlotFits(s)'
         /\ x # Worker => ImporterFits'
<1>1. ASSUME NEW h \in Handlers \ {x} PROVE HandlerFits(h)'
  <2>1. h \in Actors \ {x} /\ HandlerFits(h)
    BY ActorsDiffer DEF ServerFits
  <2>2. /\ phase'[h] = phase[h] /\ rows'[h] = rows[h] /\ then'[h] = then[h]
        /\ pending'[h] = pending[h] /\ op' = op /\ todo'[h] = todo[h]
    BY <2>1 DEF Alone
  <2>3. Heading(h)' = Heading(h)
    BY <2>2 DEF Heading
  <2>4. /\ WritesDirty(h)' <=> WritesDirty(h)
        /\ HoldsAll(h)' <=> HoldsAll(h)
        /\ HoldsNext(h)' <=> HoldsNext(h)
    BY <2>1 DEF Alone, WritesDirty, HoldsAll, HoldsNext
  <2>5. QED
    BY <2>1, <2>2, <2>3, <2>4 DEF HandlerFits
<1>2. ASSUME NEW s \in Slots \ {x} PROVE SlotFits(s)'
  <2>1. s \in Actors \ {x} /\ SlotFits(s)
    BY ActorsDiffer DEF ServerFits
  <2>2. QED
    BY <2>1 DEF Alone, SlotFits, WritesDirty, HoldsAll, HoldsNext
<1>3. ASSUME x # Worker PROVE ImporterFits'
  <2>1. Worker \in Actors \ {x} /\ ImporterFits
    BY <1>3, ActorsDiffer DEF ServerFits
  <2> HIDE DEF Worker
  <2>2. QED
    BY <1>3, <2>1 DEF Alone, ImporterFits, WritesDirty, HoldsAll
<1>4. QED
  BY <1>1, <1>2, <1>3

LEMMA HandlerStepFits ==
  ASSUME ServerFits, NEW h \in Handlers, Alone(h), Providers' = Providers, UNCHANGED <<op, job>>,
         TablesFit', LocalsFit', HandlerFits(h)'
  PROVE  ServerFits'
<1>1. h \in Actors /\ h # Worker /\ h \notin Slots /\ Worker \in Actors /\ Slots \subseteq Actors
  BY ActorsDiffer
<1>2. /\ \A g \in Handlers \ {h} : HandlerFits(g)'
      /\ \A s \in Slots \ {h} : SlotFits(s)'
      /\ ImporterFits'
  BY <1>1, OthersFit
<1>3. phase'[Worker] = phase[Worker] /\ \A s \in Slots : phase'[s] = phase[s]
  BY <1>1 DEF Alone
<1>4. RunFits'
  BY <1>3 DEF ServerFits, RunFits
<1>5. QED
  BY <1>1, <1>2, <1>4 DEF ServerFits

LEMMA SlotStepFits ==
  ASSUME ServerFits, NEW s \in Slots, Alone(s), Providers' = Providers, UNCHANGED <<op, jobs>>,
         phase[s] # "idle" \/ phase[Worker] = "running",
         UNCHANGED job \/ job' \in [repair : BOOLEAN, filter : SUBSET Providers,
                                    keys : SUBSET Providers, left : Nat],
         TablesFit', LocalsFit', SlotFits(s)'
  PROVE  ServerFits'
<1>1. s \in Actors /\ s # Worker /\ s \notin Handlers /\ Worker \in Actors /\ Slots \subseteq Actors
  BY ActorsDiffer
<1>2. /\ \A h \in Handlers \ {s} : HandlerFits(h)'
      /\ \A t \in Slots \ {s} : SlotFits(t)'
      /\ ImporterFits'
  BY <1>1, OthersFit
<1>3. phase'[Worker] = phase[Worker] /\ \A t \in Slots \ {s} : phase'[t] = phase[t]
  BY <1>1 DEF Alone
<1>4. RunFits'
  BY <1>3 DEF ServerFits, RunFits
<1>5. QED
  BY <1>1, <1>2, <1>4 DEF ServerFits

LEMMA ImporterStepFits ==
  ASSUME ServerFits, Alone(Worker), Providers' = Providers, UNCHANGED op,
         TablesFit', LocalsFit', ImporterFits', RunFits'
  PROVE  ServerFits'
<1>1. Worker \in Actors /\ Worker \notin Slots /\ Worker \notin Handlers
  BY ActorsDiffer
<1>2. /\ \A h \in Handlers : HandlerFits(h)'
      /\ \A t \in Slots : SlotFits(t)'
  BY <1>1, OthersFit
<1>3. QED
  BY <1>2 DEF ServerFits

(* The provider whose turn it is.                                           *)
LEMMA NextIsThere ==
  ASSUME TablesFit, NEW S, S \subseteq Providers, S # {}
  PROVE  Min(S) \in S /\ Min(S) \in Providers
<1>1. S \subseteq Int /\ \A n \in S : n >= 0
  BY DEF TablesFit
<1>2. QED
  BY <1>1, MinIsThere

LEMMA ReadsConfigFits ==
  ASSUME ServerFits, NEW h \in Handlers, ReadsConfig(h), UNCHANGED <<op, now, crashes>>
  PROVE  ServerFits' /\ Alone(h) /\ Providers' = Providers
<1>1. h \in Actors /\ HandlerFits(h) /\ TablesFit /\ LocalsFit
  BY ActorsDiffer DEF ServerFits
<1>2. Alone(h) /\ Providers' = Providers /\ job' = job
  BY <1>1 DEF Alone, LocalsFit, Providers, ReadsConfig, Returns, Continues, Goes, Forgets, configVars, jobVars, rowVars, fileVars
<1>3. TablesFit'
  BY <1>1 DEF TablesFit, Providers, ReadsConfig, Returns, Continues, Goes, Forgets, configVars, jobVars, rowVars
<1>4. LocalsFit'
  BY <1>1 DEF TablesFit, LocalsFit, Providers, ReadsConfig, Returns, Continues, Goes, Forgets, configVars, jobVars, rowVars, fileVars
<1>5. HandlerFits(h)'
  BY <1>1 DEF HandlerFits, Heading, Reading, WritesDirty, HoldsAll, HoldsNext, LocalsFit, ReadsConfig, Returns, Continues, Goes, Forgets, configVars, jobVars, rowVars
<1>6. QED
  BY <1>2, <1>3, <1>4, <1>5, HandlerStepFits

LEMMA SavesConfigFits ==
  ASSUME ServerFits, NEW h \in Handlers, SavesConfig(h), UNCHANGED <<op, now, crashes>>
  PROVE  ServerFits' /\ Alone(h) /\ Providers' = Providers
<1>1. h \in Actors /\ HandlerFits(h) /\ TablesFit /\ LocalsFit
  BY ActorsDiffer DEF ServerFits
<1>2. Alone(h) /\ Providers' = Providers /\ job' = job
  BY <1>1 DEF Alone, LocalsFit, Providers, SavesConfig, Returns, Continues, Goes, Forgets, configVars, jobVars, rowVars, fileVars
<1>3. TablesFit'
  BY <1>1 DEF TablesFit, Providers, SavesConfig, Returns, Continues, Goes, Forgets, configVars, jobVars, rowVars
<1>4. LocalsFit'
  BY <1>1 DEF TablesFit, LocalsFit, Providers, SavesConfig, Returns, Continues, Goes, Forgets, configVars, jobVars, rowVars, fileVars
<1>5. HandlerFits(h)'
  BY <1>1 DEF HandlerFits, Heading, Reading, WritesDirty, HoldsAll, HoldsNext, LocalsFit, SavesConfig, Returns, Continues, Goes, Forgets, configVars, jobVars, rowVars
<1>6. QED
  BY <1>2, <1>3, <1>4, <1>5, HandlerStepFits

LEMMA RemembersConfigFits ==
  ASSUME ServerFits, NEW h \in Handlers, RemembersConfig(h), UNCHANGED <<op, now, crashes>>
  PROVE  ServerFits' /\ Alone(h) /\ Providers' = Providers
<1>1. h \in Actors /\ HandlerFits(h) /\ TablesFit /\ LocalsFit
  BY ActorsDiffer DEF ServerFits
<1>2. Alone(h) /\ Providers' = Providers /\ job' = job
  BY <1>1 DEF Alone, LocalsFit, Providers, RemembersConfig, Returns, Continues, Goes, Forgets, configVars, jobVars, rowVars, fileVars
<1>3. TablesFit'
  BY <1>1 DEF TablesFit, Providers, RemembersConfig, Returns, Continues, Goes, Forgets, configVars, jobVars, rowVars
<1>4. LocalsFit'
  BY <1>1 DEF TablesFit, LocalsFit, Providers, RemembersConfig, Returns, Continues, Goes, Forgets, configVars, jobVars, rowVars, fileVars
<1>5. HandlerFits(h)'
  BY <1>1 DEF HandlerFits, Heading, Reading, WritesDirty, HoldsAll, HoldsNext, LocalsFit, RemembersConfig, Returns, Continues, Goes, Forgets, configVars, jobVars, rowVars
<1>6. QED
  BY <1>2, <1>3, <1>4, <1>5, HandlerStepFits

LEMMA SetsLimitFits ==
  ASSUME ServerFits, NEW h \in Handlers, SetsLimit(h), UNCHANGED <<op, now, crashes>>
  PROVE  ServerFits' /\ Alone(h) /\ Providers' = Providers
<1>1. h \in Actors /\ HandlerFits(h) /\ TablesFit /\ LocalsFit
  BY ActorsDiffer DEF ServerFits
<1>2. Alone(h) /\ Providers' = Providers /\ job' = job
  BY <1>1 DEF Alone, LocalsFit, Providers, SetsLimit, Returns, Continues, Goes, Forgets, configVars, jobVars, rowVars, fileVars
<1>3. TablesFit'
  BY <1>1 DEF TablesFit, Providers, SetsLimit, Returns, Continues, Goes, Forgets, configVars, jobVars, rowVars
<1>4. LocalsFit'
  BY <1>1 DEF TablesFit, LocalsFit, Providers, SetsLimit, Returns, Continues, Goes, Forgets, configVars, jobVars, rowVars, fileVars
<1>5. HandlerFits(h)'
  BY <1>1 DEF HandlerFits, Heading, Reading, WritesDirty, HoldsAll, HoldsNext, LocalsFit, SetsLimit, Returns, Continues, Goes, Forgets, configVars, jobVars, rowVars
<1>6. QED
  BY <1>2, <1>3, <1>4, <1>5, HandlerStepFits

LEMMA ChangesSettingFits ==
  ASSUME ServerFits, NEW h \in Handlers, ChangesSetting(h), UNCHANGED <<op, now, crashes>>
  PROVE  ServerFits' /\ Alone(h) /\ Providers' = Providers
<1> DEFINE p == op[h].provider
           setting == [enabled |-> Given(op[h].enabled, settings[p].enabled),
                       key |-> Given(op[h].key, settings[p].key)]
<1>1. h \in Actors /\ HandlerFits(h) /\ TablesFit /\ LocalsFit
  BY ActorsDiffer DEF ServerFits
<1>2. Alone(h) /\ Providers' = Providers /\ job' = job
  BY <1>1 DEF Alone, LocalsFit, Providers, ChangesSetting, Continues, Goes, configVars, jobVars,
              rowVars, fileVars
<1>3. /\ op[h].kind = "setting" /\ p \in Providers /\ settings[p] \in SettingType
      /\ op[h].enabled \in BOOLEAN \cup {None} /\ op[h].key \in BOOLEAN \cup {None}
  BY <1>1 DEF ChangesSetting, TablesFit, RequestFits
<1>4. setting \in SettingType
  BY <1>3 DEF SettingType, Given
<1>5. /\ settings' = [settings EXCEPT ![p] = setting]
      /\ pending' = [pending EXCEPT ![h] = setting]
      /\ phase' = [phase EXCEPT ![h] = "reconcile"]
      /\ UNCHANGED <<health, jobs, rows, dirty, then, todo, active, answer>>
  BY DEF ChangesSetting, Continues, Goes, configVars, jobVars, rowVars, fileVars
<1> HIDE DEF setting, p
<1>6. TablesFit'
  BY <1>1, <1>2, <1>3, <1>4, <1>5 DEF TablesFit
<1>7. LocalsFit'
  BY <1>1, <1>2, <1>5 DEF LocalsFit
<1>8. HandlerFits(h)'
  BY <1>1, <1>3, <1>4, <1>5
     DEF HandlerFits, Heading, Reading, WritesDirty, HoldsAll, HoldsNext, LocalsFit
<1>9. QED
  BY <1>2, <1>6, <1>7, <1>8, HandlerStepFits

LEMMA ReadsHealthFits ==
  ASSUME ServerFits, NEW h \in Handlers, ReadsHealth(h), UNCHANGED <<op, now, crashes>>
  PROVE  ServerFits' /\ Alone(h) /\ Providers' = Providers
<1> DEFINE p == op[h].provider
           row == Reconciled(HealthOf(p, pending[h], health[p]), now)
<1>1. h \in Actors /\ HandlerFits(h) /\ TablesFit /\ LocalsFit
  BY ActorsDiffer DEF ServerFits
<1>2. Alone(h) /\ Providers' = Providers /\ job' = job
  BY <1>1 DEF Alone, LocalsFit, Providers, ReadsHealth, Returns, Continues, Goes, Forgets, Row, configVars, jobVars, rowVars, fileVars
<1>3. TablesFit'
  BY <1>1 DEF TablesFit, Providers, ReadsHealth, Returns, Continues, Goes, Forgets, Row, configVars, jobVars, rowVars
<1>4. LocalsFit'
  BY <1>1 DEF TablesFit, LocalsFit, Providers, ReadsHealth, Returns, Continues, Goes, Forgets, Row, configVars, jobVars, rowVars, fileVars
<1>5. p \in Providers /\ health[p] \in FitRows /\ pending[h] \in SettingType
  BY <1>1 DEF ReadsHealth, HandlerFits, TablesFit, RequestFits
<1>6. row \in FitRows
  BY <1>5, HealthOfFits, ReconciledFits
<1>7. /\ rows' = [rows EXCEPT ![h] = Row(p, row)] /\ Row(p, row) \in [{p} -> FitRows]
      /\ phase[h] = "reconcile" /\ phase' = [phase EXCEPT ![h] = "saveHealth"]
      /\ UNCHANGED <<pending, dirty, then, todo>>
  BY <1>6 DEF ReadsHealth, Continues, Goes, configVars, Row
<1> HIDE DEF row
<1>8. HandlerFits(h)'
  BY <1>1, <1>7 DEF HandlerFits, Heading, Reading, WritesDirty, HoldsAll, HoldsNext, LocalsFit
<1>9. QED
  BY <1>2, <1>3, <1>4, <1>8, HandlerStepFits

LEMMA SavesHealthFits ==
  ASSUME ServerFits, NEW h \in Handlers, SavesHealth(h), UNCHANGED <<op, now, crashes>>
  PROVE  ServerFits' /\ Alone(h) /\ Providers' = Providers
<1>1. h \in Actors /\ HandlerFits(h) /\ TablesFit /\ LocalsFit
  BY ActorsDiffer DEF ServerFits
<1>2. Alone(h) /\ Providers' = Providers /\ job' = job
  BY <1>1 DEF Alone, LocalsFit, Providers, SavesHealth, Returns, Continues, Goes, Forgets, configVars, jobVars, rowVars, fileVars
<1>3. TablesFit'
  <2> DEFINE p == op[h].provider
  <2>1. p \in Providers /\ rows[h][p] \in FitRows
    BY <1>1 DEF SavesHealth, HandlerFits, TablesFit, RequestFits
  <2>2. health' = [health EXCEPT ![p] = rows[h][p]] /\ UNCHANGED <<settings, jobs>>
    BY DEF SavesHealth, configVars, jobVars
  <2> HIDE DEF p
  <2>3. QED
    BY <1>1, <2>1, <2>2 DEF TablesFit, Providers
<1>4. LocalsFit'
  BY <1>1 DEF TablesFit, LocalsFit, Providers, SavesHealth, Returns, Continues, Goes, Forgets, configVars, jobVars, rowVars, fileVars
<1>5. HandlerFits(h)'
  BY <1>1 DEF HandlerFits, Heading, Reading, WritesDirty, HoldsAll, HoldsNext, LocalsFit, SavesHealth, Returns, Continues, Goes, Forgets, configVars, jobVars, rowVars
<1>6. QED
  BY <1>2, <1>3, <1>4, <1>5, HandlerStepFits

LEMMA LooksFits ==
  ASSUME ServerFits, NEW h \in Handlers, Looks(h), UNCHANGED <<op, now, crashes>>
  PROVE  ServerFits' /\ Alone(h) /\ Providers' = Providers
<1>1. h \in Actors /\ HandlerFits(h) /\ TablesFit /\ LocalsFit
  BY ActorsDiffer DEF ServerFits
<1>2. Alone(h) /\ Providers' = Providers /\ job' = job
  BY <1>1 DEF Alone, LocalsFit, Providers, Looks, Returns, Continues, Goes, Forgets, configVars, jobVars, rowVars, fileVars
<1>3. TablesFit'
  BY <1>1 DEF TablesFit, Providers, Looks, Returns, Continues, Goes, Forgets, configVars, jobVars, rowVars
<1>4. LocalsFit'
  BY <1>1 DEF TablesFit, LocalsFit, Providers, Looks, Returns, Continues, Goes, Forgets, configVars, jobVars, rowVars, fileVars
<1>5. HandlerFits(h)'
  BY <1>1 DEF HandlerFits, Heading, Reading, WritesDirty, HoldsAll, HoldsNext, LocalsFit, Looks, Returns, Continues, Goes, Forgets, configVars, jobVars, rowVars
<1>6. QED
  BY <1>2, <1>3, <1>4, <1>5, HandlerStepFits

LEMMA HasLookedFits ==
  ASSUME ServerFits, NEW h \in Handlers, HasLooked(h), UNCHANGED <<op, now, crashes>>
  PROVE  ServerFits' /\ Alone(h) /\ Providers' = Providers
<1>1. h \in Actors /\ HandlerFits(h) /\ TablesFit /\ LocalsFit
  BY ActorsDiffer DEF ServerFits
<1>2. Alone(h) /\ Providers' = Providers /\ job' = job
  BY <1>1 DEF Alone, LocalsFit, Providers, HasLooked, Returns, Continues, Goes, Forgets, configVars, jobVars, rowVars, fileVars
<1>3. TablesFit'
  BY <1>1 DEF TablesFit, Providers, HasLooked, Returns, Continues, Goes, Forgets, configVars, jobVars, rowVars
<1>4. LocalsFit'
  BY <1>1 DEF TablesFit, LocalsFit, Providers, HasLooked, Returns, Continues, Goes, Forgets, configVars, jobVars, rowVars, fileVars
<1>5. HandlerFits(h)'
  BY <1>1 DEF HandlerFits, Heading, Reading, WritesDirty, HoldsAll, HoldsNext, LocalsFit, HasLooked, Returns, Continues, Goes, Forgets, configVars, jobVars, rowVars
<1>6. QED
  BY <1>2, <1>3, <1>4, <1>5, HandlerStepFits

LEMMA AsksRepairFits ==
  ASSUME ServerFits, NEW h \in Handlers, AsksRepair(h), UNCHANGED <<op, now, crashes>>
  PROVE  ServerFits' /\ Alone(h) /\ Providers' = Providers
<1>1. h \in Actors /\ HandlerFits(h) /\ TablesFit /\ LocalsFit
  BY ActorsDiffer DEF ServerFits
<1>2. Alone(h) /\ Providers' = Providers /\ job' = job
  BY <1>1 DEF Alone, LocalsFit, Providers, AsksRepair, Returns, Continues, Goes, Forgets, configVars, jobVars, rowVars, fileVars
<1>3. TablesFit'
  BY <1>1 DEF TablesFit, Providers, AsksRepair, Returns, Continues, Goes, Forgets, configVars, jobVars, rowVars
<1>4. LocalsFit'
  <2>1. op[h].providers \subseteq Providers
    BY <1>1 DEF AsksRepair, TablesFit, RequestFits
  <2>2. QED
    BY <1>1, <2>1 DEF LocalsFit, Providers, AsksRepair, Continues, Goes, configVars, jobVars,
                      fileVars
<1>5. HandlerFits(h)'
  BY <1>1 DEF HandlerFits, Heading, Reading, WritesDirty, HoldsAll, HoldsNext, LocalsFit, AsksRepair, Returns, Continues, Goes, Forgets, configVars, jobVars, rowVars
<1>6. QED
  BY <1>2, <1>3, <1>4, <1>5, HandlerStepFits

LEMMA ChecksFits ==
  ASSUME ServerFits, NEW h \in Handlers, Checks(h), UNCHANGED <<op, now, crashes>>
  PROVE  ServerFits' /\ Alone(h) /\ Providers' = Providers
<1>1. h \in Actors /\ HandlerFits(h) /\ TablesFit /\ LocalsFit
  BY ActorsDiffer DEF ServerFits
<1>2. Alone(h) /\ Providers' = Providers /\ job' = job
  BY <1>1 DEF Alone, LocalsFit, Providers, Checks, Returns, Continues, Goes, Forgets, Prepares, configVars, jobVars, rowVars, fileVars
<1>3. TablesFit'
  BY <1>1 DEF TablesFit, Providers, Checks, Returns, Continues, Goes, Forgets, Prepares, configVars, jobVars, rowVars
<1>4. /\ op[h].kind = "repair" /\ op[h].providers \in SUBSET Providers
      /\ todo[h] # {} /\ todo[h] \subseteq op[h].providers
      /\ phase[h] = "check"
  BY <1>1 DEF Checks, HandlerFits, Heading, Reading, TablesFit, RequestFits
<1>5. /\ UNCHANGED <<rows, dirty, op, active>>
      /\ \/ /\ phase' = [phase EXCEPT ![h] = "done"] /\ answer' = [answer EXCEPT ![h] = "conflict"]
            /\ UNCHANGED <<pending, then, todo>>
         \/ /\ todo[h] # {Min(todo[h])} /\ phase' = [phase EXCEPT ![h] = "fetchOne"]
            /\ todo' = [todo EXCEPT ![h] = todo[h] \ {Min(todo[h])}]
            /\ UNCHANGED <<pending, answer, then>>
         \/ /\ phase' = [phase EXCEPT ![h] = "fetchOne"] /\ UNCHANGED answer
            /\ pending' = [pending EXCEPT ![h] = op[h].providers]
            /\ then' = [then EXCEPT ![h] = "prepare"]
            /\ todo' = [todo EXCEPT ![h] = op[h].providers]
  BY DEF Checks, Prepares, Returns, Continues, Goes, fileVars
<1>6. LocalsFit'
  BY <1>1, <1>2, <1>4, <1>5 DEF LocalsFit
<1>7. HandlerFits(h)'
  <2>1. then[h] = "check" \/ phase'[h] # "fetchOne" \/ then'[h] = "prepare"
    BY <1>1, <1>4, <1>5 DEF HandlerFits, LocalsFit
  <2>2. QED
    BY <1>1, <1>2, <1>4, <1>5, <2>1
       DEF HandlerFits, Heading, Reading, WritesDirty, HoldsAll, HoldsNext, LocalsFit
<1>8. QED
  BY <1>2, <1>3, <1>6, <1>7, HandlerStepFits

LEMMA ChoosesFits ==
  ASSUME ServerFits, NEW h \in Handlers, Chooses(h), UNCHANGED <<op, now, crashes>>
  PROVE  ServerFits' /\ Alone(h) /\ Providers' = Providers
<1>1. h \in Actors /\ HandlerFits(h) /\ TablesFit /\ LocalsFit
  BY ActorsDiffer DEF ServerFits
<1>2. Alone(h) /\ Providers' = Providers /\ job' = job
  BY <1>1 DEF Alone, LocalsFit, Providers, Chooses, Returns, Continues, Goes, Forgets, Prepares, configVars, jobVars, rowVars, fileVars
<1>3. TablesFit'
  BY <1>1 DEF TablesFit, Providers, Chooses, Returns, Continues, Goes, Forgets, Prepares, configVars, jobVars, rowVars
<1>4. LocalsFit'
  BY <1>1 DEF TablesFit, LocalsFit, Providers, Chooses, Returns, Continues, Goes, Forgets, Prepares, configVars, jobVars, rowVars, fileVars
<1>5. HandlerFits(h)'
  <2> DEFINE chosen == {p \in Providers : Repairable(rows[h][p])}
  <2>1. /\ phase[h] = "choose"
        /\ UNCHANGED <<rows, dirty, op>>
        /\ \/ phase' = [phase EXCEPT ![h] = "done"] /\ UNCHANGED <<pending, then, todo>>
           \/ /\ chosen # {} /\ phase' = [phase EXCEPT ![h] = "fetchOne"]
              /\ pending' = [pending EXCEPT ![h] = chosen]
              /\ then' = [then EXCEPT ![h] = "prepare"]
              /\ todo' = [todo EXCEPT ![h] = chosen]
    BY DEF Chooses, Prepares, Returns, Continues, Goes
  <2>2. chosen \in SUBSET Providers
    OBVIOUS
  <2> HIDE DEF chosen
  <2>3. Providers' = Providers
    BY <1>2
  <2>4. QED
    BY <1>1, <2>1, <2>2, <2>3
       DEF HandlerFits, Heading, Reading, WritesDirty, HoldsAll, HoldsNext, LocalsFit
<1>6. QED
  BY <1>2, <1>3, <1>4, <1>5, HandlerStepFits

LEMMA PreparesOneFits ==
  ASSUME ServerFits, NEW h \in Handlers, PreparesOne(h), UNCHANGED <<op, now, crashes>>
  PROVE  ServerFits' /\ Alone(h) /\ Providers' = Providers
<1>1. h \in Actors /\ HandlerFits(h) /\ TablesFit /\ LocalsFit
  BY ActorsDiffer DEF ServerFits
<1>2. Alone(h) /\ Providers' = Providers /\ job' = job
  BY <1>1 DEF Alone, LocalsFit, Providers, PreparesOne, Returns, Continues, Goes, Forgets, configVars, jobVars, rowVars, fileVars
<1> DEFINE p == Min(todo[h])
           row == Prepared(rows[h][p])
<1>3. /\ phase[h] = "prepare" /\ then[h] = "prepare"
      /\ todo[h] # {} /\ todo[h] \in SUBSET Providers /\ pending[h] \in SUBSET Providers
      /\ rows[h] \in [{p} -> FitRows]
  BY <1>1 DEF PreparesOne, HandlerFits, HoldsNext, Heading, Reading, LocalsFit
<1>4. p \in Providers /\ p \in todo[h]
  BY <1>1, <1>3, NextIsThere
<1>5. row \in FitRows
  BY <1>3, PreparedFits
<1>6. /\ UNCHANGED <<settings, jobs, rows, dirty, then, op, active, pending>>
      /\ \/ /\ phase' = [phase EXCEPT ![h] = "done"] /\ answer' = [answer EXCEPT ![h] = "conflict"]
            /\ UNCHANGED <<health, todo>>
         \/ /\ health' = [health EXCEPT ![p] = row]
            /\ todo' = [todo EXCEPT ![h] = todo[h] \ {p}]
            /\ UNCHANGED answer
            /\ \/ todo[h] = {p} /\ phase' = [phase EXCEPT ![h] = "enqueue"]
               \/ todo[h] # {p} /\ phase' = [phase EXCEPT ![h] = "fetchOne"]
  BY DEF PreparesOne, Returns, Continues, Goes, fileVars, configVars, jobVars, rowVars
<1> HIDE DEF p, row
<1>7. TablesFit'
  BY <1>1, <1>2, <1>4, <1>5, <1>6 DEF TablesFit
<1>8. LocalsFit'
  BY <1>1, <1>2, <1>3, <1>6 DEF LocalsFit
<1>9. HandlerFits(h)'
  BY <1>1, <1>2, <1>3, <1>4, <1>6
     DEF HandlerFits, Heading, Reading, WritesDirty, HoldsAll, HoldsNext, LocalsFit
<1>10. QED
  BY <1>2, <1>7, <1>8, <1>9, HandlerStepFits

LEMMA EnqueuesFits ==
  ASSUME ServerFits, NEW h \in Handlers, Enqueues(h), UNCHANGED <<op, now, crashes>>
  PROVE  ServerFits' /\ Alone(h) /\ Providers' = Providers
<1>1. h \in Actors /\ HandlerFits(h) /\ TablesFit /\ LocalsFit
  BY ActorsDiffer DEF ServerFits
<1>2. Alone(h) /\ Providers' = Providers /\ job' = job
  BY <1>1 DEF Alone, LocalsFit, Providers, Enqueues, Returns, Continues, Goes, Forgets, configVars, jobVars, rowVars, fileVars
<1>3. TablesFit'
  <2> DEFINE queued == [repair |-> TRUE, filter |-> pending[h]]
             J == [repair : BOOLEAN, filter : SUBSET Providers]
  <2>1. queued \in J
    BY <1>1 DEF Enqueues, HandlerFits, Heading, Reading
  <2>2. jobs \in Seq(J) /\ jobs' = Append(jobs, queued)
    BY <1>1 DEF TablesFit, Enqueues
  <2> HIDE DEF queued, J
  <2>3. jobs' \in Seq(J)
    BY <2>1, <2>2
  <2>4. UNCHANGED <<settings, health>>
    BY DEF Enqueues
  <2>5. QED
    BY <1>1, <2>3, <2>4 DEF TablesFit, Providers, J
<1>4. LocalsFit'
  BY <1>1 DEF TablesFit, LocalsFit, Providers, Enqueues, Returns, Continues, Goes, Forgets, configVars, jobVars, rowVars, fileVars
<1>5. HandlerFits(h)'
  BY <1>1 DEF HandlerFits, Heading, Reading, WritesDirty, HoldsAll, HoldsNext, LocalsFit, Enqueues, Returns, Continues, Goes, Forgets, configVars, jobVars, rowVars
<1>6. QED
  BY <1>2, <1>3, <1>4, <1>5, HandlerStepFits

LEMMA IsDroppedFits ==
  ASSUME ServerFits, NEW h \in Handlers, IsDropped(h), UNCHANGED <<op, now, crashes>>
  PROVE  ServerFits' /\ Alone(h) /\ Providers' = Providers
<1>1. h \in Actors /\ HandlerFits(h) /\ TablesFit /\ LocalsFit
  BY ActorsDiffer DEF ServerFits
<1>2. Alone(h) /\ Providers' = Providers /\ job' = job
  BY <1>1 DEF Alone, LocalsFit, Providers, IsDropped, Returns, Continues, Goes, Forgets, configVars, jobVars, rowVars, fileVars
<1>3. TablesFit'
  BY <1>1 DEF TablesFit, Providers, IsDropped, Returns, Continues, Goes, Forgets, configVars, jobVars, rowVars
<1>4. LocalsFit'
  BY <1>1 DEF TablesFit, LocalsFit, Providers, IsDropped, Returns, Continues, Goes, Forgets, configVars, jobVars, rowVars, fileVars
<1>5. HandlerFits(h)'
  BY <1>1 DEF HandlerFits, Heading, Reading, WritesDirty, HoldsAll, HoldsNext, LocalsFit, IsDropped, Returns, Continues, Goes, Forgets, configVars, jobVars, rowVars
<1>6. QED
  BY <1>2, <1>3, <1>4, <1>5, HandlerStepFits

(* Whoever reads rows of health holds rows that fit, and goes on to what it *)
(* has read them for, or writes those back first that have changed.         *)
LEMMA FetchesRead ==
  ASSUME ServerFits, NEW x \in Actors, Fetches(x), Wants(x) \in SUBSET Providers
  PROVE  /\ Alone(x) /\ Providers' = Providers /\ LocalsFit'
         /\ UNCHANGED <<settings, health, jobs, job, then, todo, pending>>
         /\ rows'[x] \in [Wants(x) -> FitRows]
         /\ \A p \in Wants(x) : Shows(rows'[x][p], health[p])
         /\ \/ phase'[x] = then[x]
            \/ phase'[x] = "writeBack" /\ dirty'[x] # {} /\ dirty'[x] \subseteq DOMAIN rows'[x]
<1> DEFINE read == [p \in Wants(x) |-> Reconciled(health[p], now)]
           changed == {p \in Wants(x) : read[p] # health[p]}
<1>1. TablesFit /\ LocalsFit
  BY DEF ServerFits
<1>2. /\ UNCHANGED <<settings, health, jobs, job, then, todo, pending, active, answer>>
      /\ rows' = [rows EXCEPT ![x] = read] /\ dirty' = [dirty EXCEPT ![x] = changed]
      /\ phase' = [phase EXCEPT ![x] = IF changed = {} THEN then[x] ELSE "writeBack"]
  <2>1. PICK r \in {[p \in Wants(x) |-> Reconciled(health[p], now)]} :
          \E c \in {{p \in Wants(x) : r[p] # health[p]}} :
             /\ rows' = [rows EXCEPT ![x] = r] /\ dirty' = [dirty EXCEPT ![x] = c]
             /\ Continues(x, IF c = {} THEN then[x] ELSE "writeBack")
    BY DEF Fetches
  <2>2. r = read
    BY <2>1
  <2>3. /\ rows' = [rows EXCEPT ![x] = read] /\ dirty' = [dirty EXCEPT ![x] = changed]
        /\ Continues(x, IF changed = {} THEN then[x] ELSE "writeBack")
    <3> HIDE DEF read
    <3>1. QED
      BY <2>1, <2>2
  <2>4. UNCHANGED <<settings, health, jobs, job, then, todo, pending, active>>
    BY DEF Fetches, configVars, jobVars, fileVars
  <2> HIDE DEF read, changed
  <2>5. QED
    BY <2>3, <2>4 DEF Continues, Goes
<1>3. \A p \in Wants(x) : health[p] \in FitRows
  BY <1>1 DEF TablesFit
<1>4. /\ read \in [Wants(x) -> FitRows]
      /\ \A p \in Wants(x) : Shows(read[p], health[p])
  BY <1>3, ReconciledFits
<1>5. changed \in SUBSET Wants(x)
  OBVIOUS
<1> HIDE DEF read, changed
<1>6. /\ rows'[x] = read /\ dirty'[x] = changed
      /\ phase'[x] = IF changed = {} THEN then[x] ELSE "writeBack"
  BY <1>1, <1>2 DEF LocalsFit
<1>7. Providers' = Providers
  BY <1>2 DEF Providers
<1>8. Alone(x)
  BY <1>1, <1>2 DEF Alone, LocalsFit
<1>9. LocalsFit'
  BY <1>1, <1>2, <1>5, <1>7 DEF LocalsFit
<1>10. QED
  BY <1>2, <1>4, <1>5, <1>6, <1>7, <1>8, <1>9

LEMMA WritesBackWrites ==
  ASSUME ServerFits, NEW x \in Actors, WritesBack(x), WritesDirty(x),
         NEW S, S \subseteq Providers, rows[x] \in [S -> FitRows]
  PROVE  /\ Alone(x) /\ Providers' = Providers /\ LocalsFit'
         /\ UNCHANGED <<settings, jobs, job, then, todo, pending, rows>>
         /\ health' \in [Providers -> FitRows]
         /\ Min(dirty[x]) \in S
         /\ health' = [health EXCEPT ![Min(dirty[x])] = rows[x][Min(dirty[x])]]
         /\ \/ phase'[x] = then[x]
            \/ phase'[x] = "writeBack" /\ dirty'[x] # {} /\ dirty'[x] \subseteq DOMAIN rows'[x]
<1> DEFINE p == Min(dirty[x])
<1>1. TablesFit /\ LocalsFit
  BY DEF ServerFits
<1>2. dirty[x] # {} /\ dirty[x] \subseteq S
  BY DEF WritesDirty, WritesBack
<1>3. p \in dirty[x] /\ p \in Providers
  BY <1>1, <1>2, NextIsThere
<1>4. /\ UNCHANGED <<settings, jobs, job, then, todo, pending, rows, active, answer>>
      /\ health' = [health EXCEPT ![p] = rows[x][p]]
      /\ dirty' = [dirty EXCEPT ![x] = dirty[x] \ {p}]
      /\ phase' = [phase EXCEPT ![x] = IF dirty[x] = {p} THEN then[x] ELSE "writeBack"]
  BY <1>1 DEF WritesBack, Continues, Goes, configVars, jobVars, fileVars, LocalsFit
<1> HIDE DEF p
<1>5. health' \in [Providers -> FitRows]
  BY <1>1, <1>2, <1>3, <1>4 DEF TablesFit
<1>6. Providers' = Providers
  BY <1>4 DEF Providers
<1>7. Alone(x)
  BY <1>1, <1>4 DEF Alone, LocalsFit
<1>8. LocalsFit'
  BY <1>1, <1>4, <1>6 DEF LocalsFit
<1>9. /\ dirty'[x] = dirty[x] \ {p}
      /\ phase'[x] = IF dirty[x] = {p} THEN then[x] ELSE "writeBack"
  BY <1>1, <1>4 DEF LocalsFit
<1>10. QED
  BY <1>2, <1>3, <1>4, <1>5, <1>6, <1>7, <1>8, <1>9 DEF p

(* What an actor reads is known, and so are the rows it writes back.        *)
LEMMA ReadersAreKnown ==
  ASSUME ServerFits, NEW x \in Actors
  PROVE  /\ phase[x] \in {"fetch", "fetchOne"} => Wants(x) \in SUBSET Providers
         /\ phase[x] = "writeBack" =>
               /\ WritesDirty(x)
               /\ \E S \in SUBSET Providers : rows[x] \in [S -> FitRows]
<1>1. TablesFit /\ LocalsFit
  BY DEF ServerFits
<1>2. CASE x \in Handlers
  <2>1. HandlerFits(x)
    BY <1>2 DEF ServerFits
  <2>2. todo[x] # {} => {Min(todo[x])} \in SUBSET Providers
    BY <1>1, NextIsThere DEF LocalsFit
  <2>3. phase[x] \in {"fetch", "fetchOne"} => Wants(x) \in SUBSET Providers
    BY <2>1, <2>2 DEF Wants, HandlerFits, Heading, Reading
  <2>4. phase[x] = "writeBack" => \E S \in SUBSET Providers : rows[x] \in [S -> FitRows]
    BY <2>1, <2>2 DEF HandlerFits, Heading, Reading, HoldsAll, HoldsNext
  <2>5. QED
    BY <2>1, <2>3, <2>4 DEF HandlerFits
<1>3. CASE x \in Slots
  <2>1. SlotFits(x)
    BY <1>3 DEF ServerFits
  <2>2. QED
    BY <2>1 DEF SlotFits, Wants, HoldsAll
<1>4. CASE x = Worker
  <2>1. ImporterFits
    BY DEF ServerFits
  <2>2. QED
    BY <1>4, <2>1 DEF ImporterFits, Wants, HoldsAll
<1>5. QED
  BY <1>2, <1>3, <1>4 DEF Actors

LEMMA FetchesFits ==
  ASSUME ServerFits, NEW x \in Actors, Fetches(x), UNCHANGED <<op, now, crashes>>
  PROVE  ServerFits' /\ Alone(x) /\ Providers' = Providers
<1>1. phase[x] \in {"fetch", "fetchOne"} /\ Wants(x) \in SUBSET Providers
  BY ReadersAreKnown DEF Fetches
<1>2. /\ Alone(x) /\ Providers' = Providers /\ LocalsFit'
      /\ UNCHANGED <<settings, health, jobs, job, then, todo, pending>>
      /\ rows'[x] \in [Wants(x) -> FitRows]
      /\ \/ phase'[x] = then[x]
         \/ phase'[x] = "writeBack" /\ dirty'[x] # {} /\ dirty'[x] \subseteq DOMAIN rows'[x]
  BY <1>1, FetchesRead
<1>3. TablesFit'
  BY <1>2 DEF ServerFits, TablesFit
<1>4. CASE x \in Handlers
  <2>1. HandlerFits(x)
    BY <1>4 DEF ServerFits
  <2>2. HandlerFits(x)'
    BY <1>1, <1>2, <2>1
       DEF HandlerFits, Heading, Reading, WritesDirty, HoldsAll, HoldsNext, Wants
  <2>3. QED
    BY <1>2, <1>3, <1>4, <2>2, HandlerStepFits
<1>5. CASE x \in Slots
  <2>1. SlotFits(x)
    BY <1>5 DEF ServerFits
  <2>2. SlotFits(x)'
    BY <1>1, <1>2, <2>1 DEF SlotFits, WritesDirty, HoldsAll, HoldsNext, Wants
  <2>3. QED
    BY <1>1, <1>2, <1>3, <1>5, <2>2, SlotStepFits
<1>6. CASE x = Worker
  <2>1. ImporterFits /\ RunFits
    BY DEF ServerFits
  <2>2. ImporterFits'
    BY <1>1, <1>2, <1>6, <2>1 DEF ImporterFits, WritesDirty, HoldsAll, Wants
  <2>3. \A s \in Slots : phase'[s] = phase[s]
    BY <1>2, <1>6, ActorsDiffer DEF Alone
  <2>4. RunFits'
    BY <1>1, <1>2, <1>6, <2>1, <2>3 DEF RunFits, ImporterFits
  <2>5. QED
    BY <1>2, <1>3, <1>6, <2>2, <2>4, ImporterStepFits
<1>7. QED
  BY <1>2, <1>4, <1>5, <1>6 DEF Actors

LEMMA WritesBackFits ==
  ASSUME ServerFits, NEW x \in Actors, WritesBack(x), UNCHANGED <<op, now, crashes>>
  PROVE  ServerFits' /\ Alone(x) /\ Providers' = Providers
<1>1. phase[x] = "writeBack" /\ WritesDirty(x)
  BY ReadersAreKnown DEF WritesBack
<1>2. PICK S \in SUBSET Providers : rows[x] \in [S -> FitRows]
  BY <1>1, ReadersAreKnown
<1>3. /\ Alone(x) /\ Providers' = Providers /\ LocalsFit'
      /\ UNCHANGED <<settings, jobs, job, then, todo, pending, rows>>
      /\ health' \in [Providers -> FitRows]
      /\ \/ phase'[x] = then[x]
         \/ phase'[x] = "writeBack" /\ dirty'[x] # {} /\ dirty'[x] \subseteq DOMAIN rows'[x]
  BY <1>1, <1>2, WritesBackWrites
<1>4. TablesFit'
  BY <1>3 DEF ServerFits, TablesFit
<1>5. CASE x \in Handlers
  <2>1. HandlerFits(x)
    BY <1>5 DEF ServerFits
  <2>2. HandlerFits(x)'
    BY <1>1, <1>3, <2>1 DEF HandlerFits, Heading, Reading, WritesDirty, HoldsAll, HoldsNext
  <2>3. QED
    BY <1>3, <1>4, <1>5, <2>2, HandlerStepFits
<1>6. CASE x \in Slots
  <2>1. SlotFits(x)
    BY <1>6 DEF ServerFits
  <2>2. SlotFits(x)'
    BY <1>1, <1>3, <2>1 DEF SlotFits, WritesDirty, HoldsAll, HoldsNext
  <2>3. QED
    BY <1>1, <1>3, <1>4, <1>6, <2>2, SlotStepFits
<1>7. CASE x = Worker
  <2>1. ImporterFits /\ RunFits
    BY DEF ServerFits
  <2>2. ImporterFits'
    BY <1>1, <1>3, <1>7, <2>1 DEF ImporterFits, WritesDirty, HoldsAll
  <2>3. \A s \in Slots : phase'[s] = phase[s]
    BY <1>3, <1>7, ActorsDiffer DEF Alone
  <2>4. RunFits'
    BY <1>1, <1>3, <1>7, <2>1, <2>3 DEF RunFits, ImporterFits
  <2>5. QED
    BY <1>3, <1>4, <1>7, <2>2, <2>4, ImporterStepFits
<1>8. QED
  BY <1>3, <1>5, <1>6, <1>7 DEF Actors

LEMMA TakesFileFits ==
  ASSUME ServerFits, NEW s \in Slots, TakesFile(s), UNCHANGED <<op, now, crashes>>
  PROVE  ServerFits' /\ Alone(s) /\ Providers' = Providers
<1>1. s \in Actors /\ SlotFits(s) /\ TablesFit /\ LocalsFit /\ RunFits
  BY ActorsDiffer DEF ServerFits
<1>2. Alone(s) /\ Providers' = Providers /\ jobs' = jobs
  BY <1>1 DEF Alone, LocalsFit, Providers, TakesFile, Continues, Goes, Forgets, configVars, jobVars, rowVars, fileVars
<1>3. TablesFit'
  BY <1>1 DEF TablesFit, Providers, TakesFile, Continues, Goes, Forgets, configVars, jobVars, rowVars
<1>4. LocalsFit'
  BY <1>1 DEF TablesFit, LocalsFit, Providers, TakesFile, Continues, Goes, Forgets, configVars, jobVars, rowVars, fileVars
<1>5. SlotFits(s)'
  BY <1>1 DEF SlotFits, WritesDirty, HoldsAll, HoldsNext, LocalsFit, TakesFile, Continues, Goes, Forgets, configVars, jobVars, rowVars
<1>6. /\ phase[s] # "idle" \/ phase[Worker] = "running"
      /\ UNCHANGED job \/ job' \in [repair : BOOLEAN, filter : SUBSET Providers, keys : SUBSET Providers, left : Nat]
  BY <1>1 DEF RunFits, TakesFile, Continues, Goes, Forgets, jobVars
<1>7. QED
  BY <1>1, <1>2, <1>3, <1>4, <1>5, <1>6, SlotStepFits

LEMMA BuildsRegistryFits ==
  ASSUME ServerFits, NEW s \in Slots, BuildsRegistry(s), UNCHANGED <<op, now, crashes>>
  PROVE  ServerFits' /\ Alone(s) /\ Providers' = Providers
<1>1. s \in Actors /\ SlotFits(s) /\ TablesFit /\ LocalsFit /\ RunFits
  BY ActorsDiffer DEF ServerFits
<1>2. Alone(s) /\ Providers' = Providers /\ jobs' = jobs
  BY <1>1 DEF Alone, LocalsFit, Providers, BuildsRegistry, Continues, Goes, Forgets, Asked, Filtered, configVars, jobVars, rowVars, fileVars
<1>3. TablesFit'
  BY <1>1 DEF TablesFit, Providers, BuildsRegistry, Continues, Goes, Forgets, Asked, Filtered, configVars, jobVars, rowVars
<1>4. LocalsFit'
  <2> DEFINE asked == Asked(s)
  <2>1. Filtered \subseteq Providers
    BY <1>1 DEF BuildsRegistry, RunFits, Filtered
  <2>2. asked \in SUBSET Providers
    BY <2>1 DEF Asked
  <2>3. /\ active' = [active EXCEPT ![s] = asked] /\ phase' = [phase EXCEPT ![s] = "join"]
        /\ UNCHANGED <<answer, rows, dirty, then, todo, pending>>
    BY DEF BuildsRegistry, Continues, Goes, configVars, rowVars
  <2> HIDE DEF asked
  <2>4. QED
    BY <1>1, <1>2, <2>2, <2>3 DEF LocalsFit
<1>5. SlotFits(s)'
  <2>1. /\ phase[s] = "registry" /\ phase' = [phase EXCEPT ![s] = "join"]
        /\ UNCHANGED <<rows, dirty, then, todo>>
    BY DEF BuildsRegistry, Continues, Goes, configVars, rowVars
  <2>2. QED
    BY <1>1, <1>2, <2>1 DEF SlotFits, WritesDirty, HoldsAll, HoldsNext, LocalsFit
<1>6. /\ phase[s] # "idle" \/ phase[Worker] = "running"
      /\ UNCHANGED job \/ job' \in [repair : BOOLEAN, filter : SUBSET Providers, keys : SUBSET Providers, left : Nat]
  BY <1>1 DEF RunFits, BuildsRegistry, Continues, Goes, Forgets, Asked, Filtered, jobVars
<1>7. QED
  BY <1>1, <1>2, <1>3, <1>4, <1>5, <1>6, SlotStepFits

LEMMA JoinsRunFits ==
  ASSUME ServerFits, NEW s \in Slots, JoinsRun(s), UNCHANGED <<op, now, crashes>>
  PROVE  ServerFits' /\ Alone(s) /\ Providers' = Providers
<1>1. s \in Actors /\ SlotFits(s) /\ TablesFit /\ LocalsFit /\ RunFits
  BY ActorsDiffer DEF ServerFits
<1>2. Alone(s) /\ Providers' = Providers /\ jobs' = jobs
  BY <1>1 DEF Alone, LocalsFit, Providers, JoinsRun, Continues, Goes, Forgets, configVars, jobVars, rowVars, fileVars
<1>3. TablesFit'
  BY <1>1 DEF TablesFit, Providers, JoinsRun, Continues, Goes, Forgets, configVars, jobVars, rowVars
<1>4. LocalsFit'
  BY <1>1 DEF TablesFit, LocalsFit, Providers, JoinsRun, Continues, Goes, Forgets, configVars, jobVars, rowVars, fileVars
<1>5. SlotFits(s)'
  BY <1>1 DEF SlotFits, WritesDirty, HoldsAll, HoldsNext, LocalsFit, JoinsRun, Continues, Goes, Forgets, configVars, jobVars, rowVars
<1>6. /\ phase[s] # "idle" \/ phase[Worker] = "running"
      /\ UNCHANGED job \/ job' \in [repair : BOOLEAN, filter : SUBSET Providers, keys : SUBSET Providers, left : Nat]
  BY <1>1 DEF RunFits, JoinsRun, Continues, Goes, Forgets, jobVars
<1>7. QED
  BY <1>1, <1>2, <1>3, <1>4, <1>5, <1>6, SlotStepFits

LEMMA EnrichesFits ==
  ASSUME ServerFits, NEW s \in Slots, Enriches(s), UNCHANGED <<op, now, crashes>>
  PROVE  ServerFits' /\ Alone(s) /\ Providers' = Providers
<1>1. s \in Actors /\ SlotFits(s) /\ TablesFit /\ LocalsFit /\ RunFits
  BY ActorsDiffer DEF ServerFits
<1>2. Alone(s) /\ Providers' = Providers /\ jobs' = jobs
  BY <1>1 DEF Alone, LocalsFit, Providers, Enriches, Continues, Goes, Forgets, configVars, jobVars, rowVars, fileVars
<1>3. TablesFit'
  BY <1>1 DEF TablesFit, Providers, Enriches, Continues, Goes, Forgets, configVars, jobVars, rowVars
<1>4. LocalsFit'
  <2>1. PICK o \in [active[s] -> {"ok", "failed", "none"}] :
          todo' = [todo EXCEPT ![s] = {p \in active[s] : o[p] # "none"}]
    BY DEF Enriches
  <2> DEFINE asked == {p \in active[s] : o[p] # "none"}
  <2>2. asked \in SUBSET Providers
    BY <1>1 DEF LocalsFit
  <2>3. /\ phase' = [phase EXCEPT ![s] = phase'[s]] /\ UNCHANGED <<answer, rows, dirty, then, pending, active>>
    BY <1>1 DEF Enriches, Continues, Goes, configVars, rowVars, LocalsFit
  <2>4. todo' = [todo EXCEPT ![s] = asked]
    BY <2>1
  <2> HIDE DEF asked
  <2>5. QED
    BY <1>1, <1>2, <2>2, <2>3, <2>4 DEF LocalsFit
<1>5. SlotFits(s)'
  BY <1>1 DEF SlotFits, WritesDirty, HoldsAll, HoldsNext, LocalsFit, Enriches, Continues, Goes, Forgets, configVars, jobVars, rowVars
<1>6. /\ phase[s] # "idle" \/ phase[Worker] = "running"
      /\ UNCHANGED job \/ job' \in [repair : BOOLEAN, filter : SUBSET Providers, keys : SUBSET Providers, left : Nat]
  BY <1>1 DEF RunFits, Enriches, Continues, Goes, Forgets, jobVars
<1>7. QED
  BY <1>1, <1>2, <1>3, <1>4, <1>5, <1>6, SlotStepFits

LEMMA ReadsRowFits ==
  ASSUME ServerFits, NEW s \in Slots, ReadsRow(s), UNCHANGED <<op, now, crashes>>
  PROVE  ServerFits' /\ Alone(s) /\ Providers' = Providers
<1>1. s \in Actors /\ SlotFits(s) /\ TablesFit /\ LocalsFit /\ RunFits
  BY ActorsDiffer DEF ServerFits
<1>2. Alone(s) /\ Providers' = Providers /\ jobs' = jobs
  BY <1>1 DEF Alone, LocalsFit, Providers, ReadsRow, Continues, Goes, Forgets, Row, configVars, jobVars, rowVars, fileVars
<1>3. TablesFit'
  BY <1>1 DEF TablesFit, Providers, ReadsRow, Continues, Goes, Forgets, Row, configVars, jobVars, rowVars
<1>4. LocalsFit'
  BY <1>1 DEF TablesFit, LocalsFit, Providers, ReadsRow, Continues, Goes, Forgets, Row, configVars, jobVars, rowVars, fileVars
<1>5. SlotFits(s)'
  <2> DEFINE p == Min(todo[s])
             row == Row(p, health[p])
  <2>1. todo[s] # {} /\ todo[s] \in SUBSET Providers
    BY <1>1 DEF ReadsRow, SlotFits, LocalsFit
  <2>2. p \in Providers /\ health[p] \in FitRows
    BY <1>1, <2>1, NextIsThere DEF TablesFit
  <2>3. row \in [{p} -> FitRows]
    BY <2>2 DEF Row
  <2>4. /\ rows' = [rows EXCEPT ![s] = row] /\ phase' = [phase EXCEPT ![s] = "record"]
        /\ UNCHANGED <<dirty, then, todo>>
    BY DEF ReadsRow, Continues, Goes
  <2> HIDE DEF row
  <2>5. QED
    BY <1>1, <1>2, <2>1, <2>3, <2>4 DEF SlotFits, WritesDirty, HoldsAll, HoldsNext, LocalsFit
<1>6. /\ phase[s] # "idle" \/ phase[Worker] = "running"
      /\ UNCHANGED job \/ job' \in [repair : BOOLEAN, filter : SUBSET Providers, keys : SUBSET Providers, left : Nat]
  BY <1>1 DEF RunFits, ReadsRow, Continues, Goes, Forgets, Row, jobVars
<1>7. QED
  BY <1>1, <1>2, <1>3, <1>4, <1>5, <1>6, SlotStepFits

LEMMA RecordsFits ==
  ASSUME ServerFits, NEW s \in Slots, Records(s), UNCHANGED <<op, now, crashes>>
  PROVE  ServerFits' /\ Alone(s) /\ Providers' = Providers
<1>1. s \in Actors /\ SlotFits(s) /\ TablesFit /\ LocalsFit /\ RunFits
  BY ActorsDiffer DEF ServerFits
<1>2. Alone(s) /\ Providers' = Providers /\ jobs' = jobs
  BY <1>1 DEF Alone, LocalsFit, Providers, Records, Continues, Goes, Forgets, configVars, jobVars, rowVars, fileVars
<1>3. TablesFit'
  <2> DEFINE p == Min(todo[s])
             row == Applied(rows[s][p], outcome[s][p])
  <2>1. todo[s] # {} /\ todo[s] \in SUBSET Providers /\ rows[s] \in [{p} -> FitRows]
    BY <1>1 DEF Records, SlotFits, HoldsNext, LocalsFit
  <2>2. p \in Providers /\ rows[s][p] \in FitRows
    BY <1>1, <2>1, NextIsThere
  <2>3. row \in FitRows
    BY <1>1, <2>2, AppliedFits DEF TablesFit
  <2>4. health' = [health EXCEPT ![p] = row] /\ UNCHANGED <<settings, jobs>>
    BY DEF Records, configVars, jobVars
  <2> HIDE DEF row, p
  <2>5. QED
    BY <1>1, <1>2, <2>2, <2>3, <2>4 DEF TablesFit
<1>4. LocalsFit'
  BY <1>1 DEF TablesFit, LocalsFit, Providers, Records, Continues, Goes, Forgets, configVars, jobVars, rowVars, fileVars
<1>5. SlotFits(s)'
  BY <1>1 DEF SlotFits, WritesDirty, HoldsAll, HoldsNext, LocalsFit, Records, Continues, Goes, Forgets, configVars, jobVars, rowVars
<1>6. /\ phase[s] # "idle" \/ phase[Worker] = "running"
      /\ UNCHANGED job \/ job' \in [repair : BOOLEAN, filter : SUBSET Providers, keys : SUBSET Providers, left : Nat]
  BY <1>1 DEF RunFits, Records, Continues, Goes, Forgets, jobVars
<1>7. QED
  BY <1>1, <1>2, <1>3, <1>4, <1>5, <1>6, SlotStepFits

LEMMA SettlesFits ==
  ASSUME ServerFits, NEW s \in Slots, Settles(s), UNCHANGED <<op, now, crashes>>
  PROVE  ServerFits' /\ Alone(s) /\ Providers' = Providers
<1>1. s \in Actors /\ SlotFits(s) /\ TablesFit /\ LocalsFit /\ RunFits
  BY ActorsDiffer DEF ServerFits
<1>2. Alone(s) /\ Providers' = Providers /\ jobs' = jobs
  BY <1>1 DEF Alone, LocalsFit, Providers, Settles, Continues, Goes, Forgets, configVars, jobVars, rowVars, fileVars
<1>3. TablesFit'
  BY <1>1 DEF TablesFit, Providers, Settles, Continues, Goes, Forgets, configVars, jobVars, rowVars
<1>4. LocalsFit'
  BY <1>1 DEF TablesFit, LocalsFit, Providers, Settles, Continues, Goes, Forgets, configVars, jobVars, rowVars, fileVars
<1>5. SlotFits(s)'
  BY <1>1 DEF SlotFits, WritesDirty, HoldsAll, HoldsNext, LocalsFit, Settles, Continues, Goes, Forgets, configVars, jobVars, rowVars
<1>6. /\ phase[s] # "idle" \/ phase[Worker] = "running"
      /\ UNCHANGED job \/ job' \in [repair : BOOLEAN, filter : SUBSET Providers, keys : SUBSET Providers, left : Nat]
  BY <1>1 DEF RunFits, Settles, Continues, Goes, Forgets, jobVars
<1>7. QED
  BY <1>1, <1>2, <1>3, <1>4, <1>5, <1>6, SlotStepFits

LEMMA PollsFits ==
  ASSUME ServerFits, Polls, UNCHANGED <<op, now, crashes>>
  PROVE  ServerFits' /\ Alone(Worker) /\ Providers' = Providers
<1>1. Worker \in Actors /\ ImporterFits /\ TablesFit /\ LocalsFit /\ RunFits
  BY ActorsDiffer DEF ServerFits
<1>2. Alone(Worker) /\ Providers' = Providers
  BY <1>1 DEF Alone, LocalsFit, Providers, Polls, Continues, Goes, Forgets, configVars, jobVars, rowVars, fileVars
<1>3. TablesFit'
  BY <1>1 DEF TablesFit, Providers, Polls, Continues, Goes, Forgets, configVars, jobVars, rowVars
<1>4. LocalsFit'
  BY <1>1 DEF TablesFit, LocalsFit, Providers, Polls, Continues, Goes, Forgets, configVars, jobVars, rowVars, fileVars
<1>5. ImporterFits'
  BY <1>1 DEF ImporterFits, WritesDirty, HoldsAll, LocalsFit, Polls, Continues, Goes, Forgets, configVars, jobVars, rowVars
<1>6. \A s \in Slots : phase'[s] = phase[s]
  BY <1>2, ActorsDiffer DEF Alone
<1>7. RunFits'
  BY <1>1, <1>6 DEF RunFits, ImporterFits, LocalsFit, TablesFit, Providers, Polls, Continues, Goes, Forgets, jobVars
<1>8. QED
  BY <1>1, <1>2, <1>3, <1>4, <1>5, <1>7, ImporterStepFits

LEMMA ClaimsNothingFits ==
  ASSUME ServerFits, ClaimsNothing, UNCHANGED <<op, now, crashes>>
  PROVE  ServerFits' /\ Alone(Worker) /\ Providers' = Providers
<1>1. Worker \in Actors /\ ImporterFits /\ TablesFit /\ LocalsFit /\ RunFits
  BY ActorsDiffer DEF ServerFits
<1>2. Alone(Worker) /\ Providers' = Providers
  BY <1>1 DEF Alone, LocalsFit, Providers, ClaimsNothing, Continues, Goes, Forgets, configVars, jobVars, rowVars, fileVars
<1>3. TablesFit'
  BY <1>1 DEF TablesFit, Providers, ClaimsNothing, Continues, Goes, Forgets, configVars, jobVars, rowVars
<1>4. LocalsFit'
  BY <1>1 DEF TablesFit, LocalsFit, Providers, ClaimsNothing, Continues, Goes, Forgets, configVars, jobVars, rowVars, fileVars
<1>5. ImporterFits'
  BY <1>1 DEF ImporterFits, WritesDirty, HoldsAll, LocalsFit, ClaimsNothing, Continues, Goes, Forgets, configVars, jobVars, rowVars
<1>6. \A s \in Slots : phase'[s] = phase[s]
  BY <1>2, ActorsDiffer DEF Alone
<1>7. RunFits'
  BY <1>1, <1>6 DEF RunFits, ImporterFits, LocalsFit, TablesFit, Providers, ClaimsNothing, Continues, Goes, Forgets, jobVars
<1>8. QED
  BY <1>1, <1>2, <1>3, <1>4, <1>5, <1>7, ImporterStepFits

LEMMA ClaimsFits ==
  ASSUME ServerFits, Claims, UNCHANGED <<op, now, crashes>>
  PROVE  ServerFits' /\ Alone(Worker) /\ Providers' = Providers
<1>1. Worker \in Actors /\ ImporterFits /\ TablesFit /\ LocalsFit /\ RunFits
  BY ActorsDiffer DEF ServerFits
<1>2. Alone(Worker) /\ Providers' = Providers
  BY <1>1 DEF Alone, LocalsFit, Providers, Claims, Continues, Goes, Forgets, configVars, jobVars, rowVars, fileVars
<1>3. /\ TablesFit'
      /\ Head(jobs) \in [repair : BOOLEAN, filter : SUBSET Providers]
  <2> DEFINE J == [repair : BOOLEAN, filter : SUBSET Providers]
  <2>1. jobs \in Seq(J) /\ jobs # <<>>
    BY <1>1 DEF TablesFit, ImporterFits, Claims
  <2>2. UNCHANGED <<settings, health>> /\ jobs' = Tail(jobs)
    BY DEF Claims
  <2> HIDE DEF J
  <2>3. jobs' \in Seq(J) /\ Head(jobs) \in J
    BY <2>1, <2>2
  <2>4. QED
    BY <1>1, <1>2, <2>2, <2>3 DEF TablesFit, J
<1>4. LocalsFit'
  BY <1>1 DEF TablesFit, LocalsFit, Providers, Claims, Continues, Goes, Forgets, configVars, jobVars, rowVars, fileVars
<1>5. ImporterFits'
  BY <1>1 DEF ImporterFits, WritesDirty, HoldsAll, LocalsFit, Claims, Continues, Goes, Forgets, configVars, jobVars, rowVars
<1>6. \A s \in Slots : phase'[s] = phase[s]
  BY <1>2, ActorsDiffer DEF Alone
<1>7. RunFits'
  <2>1. job' \in [repair : BOOLEAN, filter : SUBSET Providers, keys : SUBSET Providers,
                  left : Nat]
    BY <1>2, <1>3, SettingsAssumption DEF Claims
  <2>2. phase[Worker] = "claim" /\ phase' = [phase EXCEPT ![Worker] = "keys"]
    BY DEF Claims, Continues, Goes
  <2>3. QED
    BY <1>1, <1>2, <1>6, <2>1, <2>2 DEF RunFits, LocalsFit
<1>8. QED
  BY <1>1, <1>2, <1>3, <1>4, <1>5, <1>7, ImporterStepFits

LEMMA ReadsKeysFits ==
  ASSUME ServerFits, ReadsKeys, UNCHANGED <<op, now, crashes>>
  PROVE  ServerFits' /\ Alone(Worker) /\ Providers' = Providers
<1>1. Worker \in Actors /\ ImporterFits /\ TablesFit /\ LocalsFit /\ RunFits
  BY ActorsDiffer DEF ServerFits
<1>2. Alone(Worker) /\ Providers' = Providers
  BY <1>1 DEF Alone, LocalsFit, Providers, ReadsKeys, Continues, Goes, Forgets, configVars, jobVars, rowVars, fileVars
<1>3. TablesFit'
  BY <1>1 DEF TablesFit, Providers, ReadsKeys, Continues, Goes, Forgets, configVars, jobVars, rowVars
<1>4. LocalsFit'
  BY <1>1 DEF TablesFit, LocalsFit, Providers, ReadsKeys, Continues, Goes, Forgets, configVars, jobVars, rowVars, fileVars
<1>5. ImporterFits'
  BY <1>1 DEF ImporterFits, WritesDirty, HoldsAll, LocalsFit, ReadsKeys, Continues, Goes, Forgets, configVars, jobVars, rowVars
<1>6. \A s \in Slots : phase'[s] = phase[s]
  BY <1>2, ActorsDiffer DEF Alone
<1>7. RunFits'
  BY <1>1, <1>6 DEF RunFits, ImporterFits, LocalsFit, TablesFit, Providers, ReadsKeys, Continues, Goes, Forgets, jobVars
<1>8. QED
  BY <1>1, <1>2, <1>3, <1>4, <1>5, <1>7, ImporterStepFits

LEMMA EndsJobFits ==
  ASSUME ServerFits, EndsJob, UNCHANGED <<op, now, crashes>>
  PROVE  ServerFits' /\ Alone(Worker) /\ Providers' = Providers
<1>1. Worker \in Actors /\ ImporterFits /\ TablesFit /\ LocalsFit /\ RunFits
  BY ActorsDiffer DEF ServerFits
<1>2. Alone(Worker) /\ Providers' = Providers
  BY <1>1 DEF Alone, LocalsFit, Providers, EndsJob, Continues, Goes, Forgets, configVars, jobVars, rowVars, fileVars
<1>3. TablesFit'
  BY <1>1 DEF TablesFit, Providers, EndsJob, Continues, Goes, Forgets, configVars, jobVars, rowVars
<1>4. LocalsFit'
  BY <1>1 DEF TablesFit, LocalsFit, Providers, EndsJob, Continues, Goes, Forgets, configVars, jobVars, rowVars, fileVars
<1>5. ImporterFits'
  BY <1>1 DEF ImporterFits, WritesDirty, HoldsAll, LocalsFit, EndsJob, Continues, Goes, Forgets, configVars, jobVars, rowVars
<1>6. \A s \in Slots : phase'[s] = phase[s]
  BY <1>2, ActorsDiffer DEF Alone
<1>7. RunFits'
  BY <1>1, <1>6 DEF RunFits, ImporterFits, LocalsFit, TablesFit, Providers, EndsJob, Continues, Goes, Forgets, jobVars
<1>8. QED
  BY <1>1, <1>2, <1>3, <1>4, <1>5, <1>7, ImporterStepFits

(* The server starts again: nobody is under way, and every row of health    *)
(* follows from the settings.                                               *)
LEMMA SeedsFit ==
  ASSUME TablesFit, NEW p \in Providers
  PROVE  /\ Seeded(p) \in FitRows /\ Shows(Seeded(p), settings[p])
         /\ Off(Seeded(p).status) <=> Off(ConfigHealth(p, settings[p]).status)
<1> DEFINE row == HealthOf(p, settings[p], health[p])
<1>1. settings[p] \in SettingType /\ health[p] \in FitRows
  BY DEF TablesFit
<1>2. /\ row \in FitRows /\ Shows(row, settings[p])
      /\ Off(row.status) <=> Off(ConfigHealth(p, settings[p]).status)
  BY <1>1, HealthOfFits
<1> HIDE DEF row
<1>3. /\ Reconciled(row, now) \in FitRows /\ Shows(Reconciled(row, now), row)
      /\ Off(Reconciled(row, now).status) <=> Off(row.status)
  BY <1>2, ReconciledFits
<1>4. Seeded(p) = Reconciled(row, now)
  BY DEF Seeded, row
<1>5. QED
  BY <1>2, <1>3, <1>4 DEF Shows

LEMMA RestartsFits ==
  ASSUME ServerFits, Restarts, UNCHANGED <<op, now>>
  PROVE  ServerFits'
<1>1. TablesFit /\ LocalsFit
  BY DEF ServerFits
<1>2. /\ UNCHANGED <<settings, jobs, answer, rows, dirty, then, todo, pending, active>>
      /\ health' = [p \in Providers |-> Seeded(p)]
      /\ crashes > 0 /\ crashes' = crashes - 1
      /\ phase' = [x \in Actors |->
                     IF x \in Handlers /\ phase[x] # "idle" THEN "done" ELSE "idle"]
  BY DEF Restarts, rowVars, fileVars
<1>3. Providers' = Providers
  BY <1>2 DEF Providers
<1>4. TablesFit'
  <2>1. health' \in [Providers -> FitRows]
    BY <1>1, <1>2, SeedsFit
  <2>2. QED
    BY <1>1, <1>2, <1>3, <2>1 DEF TablesFit
<1>5. LocalsFit'
  BY <1>1, <1>2, <1>3 DEF LocalsFit
<1>6. ASSUME NEW h \in Handlers PROVE HandlerFits(h)'
  <2>1. HandlerFits(h) /\ h \in Actors
    BY ActorsDiffer DEF ServerFits
  <2>2. phase'[h] = IF phase[h] # "idle" THEN "done" ELSE "idle"
    BY <1>2, <2>1
  <2>3. QED
    BY <1>2, <2>1, <2>2 DEF HandlerFits, Heading, Reading, WritesDirty
<1>7. \A x \in Slots \cup {Worker} : phase'[x] = "idle"
  BY <1>2, ActorsDiffer
<1>8. /\ \A s \in Slots : SlotFits(s)'
      /\ ImporterFits' /\ RunFits'
  BY <1>7 DEF SlotFits, ImporterFits, RunFits, WritesDirty
<1>9. QED
  BY <1>4, <1>5, <1>6, <1>8 DEF ServerFits

(* The steps of the actors, one of whom moves.                              *)
Acts(x) ==
  \/ x \in Handlers /\ Administers(x)
  \/ x \in Slots /\ Imports(x)
  \/ Fetches(x) \/ WritesBack(x)
  \/ x = Worker /\ Works

LEMMA ActsFit ==
  ASSUME ServerFits, NEW x \in Actors, Acts(x), UNCHANGED <<op, now, crashes>>
  PROVE  ServerFits' /\ Alone(x) /\ Providers' = Providers
<1>1. CASE x \in Handlers /\ Administers(x)
  BY <1>1, ReadsConfigFits, SavesConfigFits, RemembersConfigFits, SetsLimitFits,
     ChangesSettingFits, ReadsHealthFits, SavesHealthFits, LooksFits, HasLookedFits,
     AsksRepairFits, ChecksFits, ChoosesFits, PreparesOneFits, EnqueuesFits, IsDroppedFits
     DEF Administers
<1>2. CASE x \in Slots /\ Imports(x)
  BY <1>2, TakesFileFits, BuildsRegistryFits, JoinsRunFits, EnrichesFits, ReadsRowFits,
     RecordsFits, SettlesFits DEF Imports
<1>3. CASE Fetches(x) \/ WritesBack(x)
  BY <1>3, FetchesFits, WritesBackFits
<1>4. CASE x = Worker /\ Works
  BY <1>4, PollsFits, ClaimsNothingFits, ClaimsFits, ReadsKeysFits, EndsJobFits DEF Works
<1>5. QED
  BY <1>1, <1>2, <1>3, <1>4 DEF Acts

(* A step of the server is one of an actor, of the clock, or a restart.     *)
LEMMA StepsAre ==
  ASSUME Next
  PROVE  /\ UNCHANGED op
         /\ \/ /\ \E x \in Actors : Acts(x)
               /\ UNCHANGED <<now, crashes>> /\ Remembered
            \/ Tick /\ UNCHANGED crashes /\ Remembered
            \/ Restarts /\ raced' = {} /\ UNCHANGED <<now, enabledSince>>
BY ActorsDiffer DEF Next, Acts

LEMMA NobodyMoves ==
  ASSUME ServerFits, now' \in Nat,
         UNCHANGED <<settings, health, jobs, job, phase, answer, rows, dirty, then, todo,
                     pending, active, crashes, op>>
  PROVE  ServerFits' /\ Providers' = Providers /\ \A x \in Actors : Alone(x)
<1>1. Providers' = Providers
  BY DEF Providers
<1>2. TablesFit' /\ LocalsFit' /\ RunFits'
  BY <1>1 DEF ServerFits, TablesFit, LocalsFit, RunFits
<1>3. \A x \in Actors : Alone(x)
  BY DEF Alone
<1>4. ASSUME NEW h \in Handlers PROVE HandlerFits(h)'
  <2>1. Worker \in Actors /\ h # Worker
    BY ActorsDiffer
  <2>2. QED
    BY <1>1, <1>3, <2>1, OthersFit
<1>5. ASSUME NEW s \in Slots PROVE SlotFits(s)'
  <2>1. Worker \in Actors /\ s # Worker
    BY ActorsDiffer
  <2>2. QED
    BY <1>1, <1>3, <2>1, OthersFit
<1>6. ImporterFits'
  BY <1>1 DEF ServerFits, ImporterFits, WritesDirty, HoldsAll
<1>7. QED
  BY <1>1, <1>2, <1>3, <1>4, <1>5, <1>6 DEF ServerFits

LEMMA TickFits ==
  ASSUME ServerFits, Tick, UNCHANGED <<op, crashes>>
  PROVE  ServerFits' /\ Providers' = Providers /\ \A x \in Actors : Alone(x)
<1>1. /\ UNCHANGED <<settings, health, jobs, job, phase, answer, rows, dirty, then, todo,
                     pending, active>>
      /\ now' \in Nat
  BY DEF Tick, configVars, jobVars, rowVars, fileVars, ServerFits, TablesFit
<1>2. QED
  BY <1>1, NobodyMoves

LEMMA ServerStepsFit == ASSUME ServerFits, [Next]_vars PROVE ServerFits'
<1>1. CASE Next
  BY <1>1, StepsAre, ActsFit, TickFits, RestartsFits
<1>2. CASE UNCHANGED vars
  <2>1. /\ UNCHANGED <<settings, health, jobs, job, phase, answer, rows, dirty, then, todo,
                       pending, active, crashes, op>>
        /\ now' \in Nat
    BY <1>2 DEF vars, configVars, jobVars, rowVars, fileVars, ServerFits, TablesFit
  <2>2. QED
    BY <2>1, NobodyMoves
<1>3. QED
  BY <1>1, <1>2

LEMMA ServerStartsFit == ASSUME Init PROVE ServerFits
<1>1. PICK w \in Workloads :
        /\ op = w.asked /\ settings = w.settings /\ jobs = w.jobs /\ crashes = w.crashes
        /\ health = [p \in DOMAIN w.settings |-> ConfigHealth(p, w.settings[p])]
  BY DEF Init
<1>2. Providers = DOMAIN w.settings
  BY <1>1 DEF Providers
<1>3. /\ Providers \subseteq Nat
      /\ settings \in [Providers -> SettingType]
      /\ jobs \in Seq([repair : BOOLEAN, filter : SUBSET Providers])
      /\ crashes \in Nat
  BY <1>1, <1>2, WorkloadsAssumption DEF SettingType
<1>4. \A h \in Handlers : RequestFits(op[h], Providers)
  BY <1>1, <1>2, WorkloadsAssumption DEF RequestFits
<1>5. health \in [Providers -> FitRows]
  <2>1. health = [p \in Providers |-> ConfigHealth(p, settings[p])]
    BY <1>1, <1>2
  <2>2. QED
    BY <1>3, <2>1, ConfigHealthFits
<1>6. now = 0
  BY DEF Init
<1>7. TablesFit
  BY <1>3, <1>4, <1>5, <1>6 DEF TablesFit
<1>8. LocalsFit
  BY DEF Init, LocalsFit
<1>9. \A x \in Actors : phase[x] = "idle" /\ rows[x] = Nothing
  BY DEF Init
<1>10. \A h \in Handlers : HandlerFits(h)
  BY <1>9, ActorsDiffer DEF HandlerFits, Heading, Reading, WritesDirty
<1>11. /\ \A s \in Slots : SlotFits(s)
       /\ ImporterFits /\ RunFits
  BY <1>9, ActorsDiffer DEF SlotFits, ImporterFits, RunFits, WritesDirty
<1>12. QED
  BY <1>7, <1>8, <1>10, <1>11 DEF ServerFits

LEMMA ServerKeepsFit == Spec => []ServerFits
<1>1. Init => ServerFits
  BY ServerStartsFit
<1>2. ServerFits /\ [Next]_vars => ServerFits'
  BY ServerStepsFit
<1>3. QED
  BY <1>1, <1>2, PTL DEF Spec

(* No row of health backs off without an end, or longer or shorter than its *)
(* failures in a row ask for, whoever has read it, merged it and written it *)
(* back.                                                                    *)
THEOREM BackoffEnds == Spec => []BackoffFits
<1>1. ServerFits => BackoffFits
  BY DEF ServerFits, TablesFit, FitRows, BacksOffRightly, BackoffFits
<1>2. QED
  BY <1>1, ServerKeepsFit, PTL

(* A restart runs what is stored, and shows the providers as they are set.  *)
THEOREM ServerRestartsAsStored == Spec => RestartsAsStored
<1> DEFINE A == crashes' # crashes =>
               /\ memory' = stored' /\ limit' = stored'.limit
               /\ \A p \in Providers :
                     /\ health'[p].enabled = settings'[p].enabled
                     /\ Off(health'[p].status) <=> Off(ConfigHealth(p, settings'[p]).status)
<1>1. ASSUME ServerFits, [Next]_vars PROVE A
  <2>1. SUFFICES ASSUME crashes' # crashes, NEW p \in Providers
                 PROVE  /\ memory' = stored' /\ limit' = stored'.limit
                        /\ health'[p].enabled = settings'[p].enabled
                        /\ Off(health'[p].status) <=> Off(ConfigHealth(p, settings'[p]).status)
    <3>1. crashes' # crashes => Restarts
      BY <1>1, StepsAre DEF vars
    <3>2. crashes' # crashes => memory' = stored' /\ limit' = stored'.limit
      BY <3>1 DEF Restarts
    <3>3. QED
      BY <3>2
  <2>2. Restarts
    BY <1>1, <2>1, StepsAre DEF vars
  <2>3. /\ memory' = stored /\ limit' = stored.limit /\ stored' = stored
        /\ settings' = settings /\ health' = [q \in Providers |-> Seeded(q)]
    BY <2>2 DEF Restarts
  <2>4. /\ Shows(Seeded(p), settings[p])
        /\ Off(Seeded(p).status) <=> Off(ConfigHealth(p, settings[p]).status)
    BY <1>1, SeedsFit DEF ServerFits
  <2>5. QED
    BY <2>3, <2>4 DEF Shows
<1>2. QED
  BY <1>1, ServerKeepsFit, PTL DEF Spec, RestartsAsStored

-----------------------------------------------------------------------------
(* The switch and the key that rows of health show.                         *)

(* Unless it was met, a provider's settings are changed by one handler, who *)
(* alone holds its row until it has written it; otherwise the row, and what *)
(* anybody holds of it, shows the settings.                                 *)
FlagFits(p) ==
  /\ \A g, h \in Changing(p) : g = h
  /\ Changing(p) # {} => Holding(p) \subseteq Changing(p)
  /\ Changing(p) = {} =>
        /\ Shows(health[p], settings[p])
        /\ \A x \in Holding(p) : p \in DOMAIN rows[x] => Shows(rows[x][p], settings[p])
  /\ \A h \in Changing(p) :
        /\ Shows(pending[h], settings[p])
        /\ phase[h] = "saveHealth" => Shows(rows[h][p], settings[p])

FlagsFit == \A p \in Providers \ raced : FlagFits(p)

LEMMA RacedTells ==
  ASSUME Remembered, NEW p \in Providers, p \notin raced'
  PROVE  /\ p \notin raced
         /\ \A h \in Changing(p) : answer'[h] # "dropped"
         /\ \A g, h \in Changing(p)' : g = h
         /\ Changing(p)' # {} => Holding(p)' \subseteq Changing(p)'
<1>1. /\ p \notin raced /\ \A h \in Changing(p) : answer'[h] # "dropped"
      /\ ~(Changing(p)' # {} /\ (Cardinality(Changing(p)') > 1
                                   \/ Holding(p)' \ Changing(p)' # {}))
  BY DEF Remembered
<1>2. ASSUME NEW S, S \subseteq Handlers, Cardinality(S) <= 1, NEW g \in S, NEW h \in S
      PROVE  g = h
  <2>1. SUFFICES ASSUME g # h PROVE FALSE
    OBVIOUS
  <2>2. IsFiniteSet(S) /\ Cardinality(S) \in Nat
    BY <1>2, SettingsAssumption, FS_Subset, FS_CardinalityType
  <2>3. {g, h} \subseteq S
    OBVIOUS
  <2>4. Cardinality({g, h}) = 2
    <3>1. IsFiniteSet({g}) /\ Cardinality({g}) = 1
      BY FS_Singleton
    <3>2. Cardinality({g} \cup {h}) = 2
      BY <2>1, <3>1, FS_AddElement
    <3>3. {g, h} = {g} \cup {h}
      OBVIOUS
    <3>4. QED
      BY <3>2, <3>3
  <2>5. QED
    BY <1>2, <2>2, <2>3, <2>4, FS_Subset
<1>3. Changing(p)' \subseteq Handlers /\ Cardinality(Changing(p)') \in Nat
  <2>1. Changing(p)' \subseteq Handlers
    BY DEF Changing
  <2>2. QED
    BY <2>1, SettingsAssumption, FS_Subset, FS_CardinalityType
<1>4. \A g, h \in Changing(p)' : g = h
  <2>1. CASE Changing(p)' = {}
    BY <2>1
  <2>2. CASE Cardinality(Changing(p)') <= 1
    BY <1>2, <1>3, <2>2
  <2>3. QED
    BY <1>1, <1>3, <2>1, <2>2
<1>5. QED
  BY <1>1, <1>4

Away == {"idle", "done", "fetch", "running", "keys"}

(* A step of an actor that does not change the settings of a provider: what *)
(* it writes it has held, and what it comes to hold it has read.            *)
PlainAt(x, p) ==
  /\ settings'[p] = settings[p]
  /\ x \notin Changing(p) /\ x \notin Changing(p)'
  /\ \/ health'[p] = health[p]
     \/ x \in Holding(p) /\ p \in DOMAIN rows[x] /\ Shows(health'[p], rows[x][p])
  /\ x \in Holding(p)' /\ p \in DOMAIN rows'[x] =>
        \/ Shows(rows'[x][p], health[p])
        \/ x \in Holding(p) /\ p \in DOMAIN rows[x] /\ rows'[x][p] = rows[x][p]

Plain(x) == \A p \in Providers : PlainAt(x, p)

LEMMA PlainKeepsFlags ==
  ASSUME ServerFits, FlagsFit, NEW x \in Actors, Alone(x), UNCHANGED op, Remembered,
         NEW p \in Providers, p \notin raced', PlainAt(x, p)
  PROVE  FlagFits(p)'
<1>1. /\ p \notin raced
      /\ \A g, h \in Changing(p)' : g = h
      /\ Changing(p)' # {} => Holding(p)' \subseteq Changing(p)'
  BY RacedTells
<1>2. FlagFits(p)
  BY <1>1 DEF FlagsFit
<1>3. ASSUME NEW y \in Actors, y # x
      PROVE  /\ y \in Changing(p)' => y \in Changing(p)
             /\ y \in Changing(p) => y \in Changing(p)'
             /\ y \in Holding(p)' => y \in Holding(p)
             /\ rows'[y] = rows[y]
  BY <1>3 DEF Alone, Changing, Holding
<1>4. Changing(p)' = Changing(p) /\ x \notin Changing(p) /\ Changing(p) \subseteq Actors
  <2>1. x \notin Changing(p) /\ x \notin Changing(p)'
    BY DEF PlainAt
  <2>2. Changing(p) \subseteq Actors /\ Changing(p)' \subseteq Actors
    BY ActorsDiffer DEF Changing
  <2>3. ASSUME NEW y \in Changing(p) PROVE y \in Changing(p)'
    <3>1. y \in Actors /\ y # x
      BY <2>1, <2>2
    <3>2. QED
      BY <1>3, <3>1
  <2>4. ASSUME NEW y \in Changing(p)' PROVE y \in Changing(p)
    <3>1. y \in Actors /\ y # x
      BY <2>1, <2>2
    <3>2. QED
      BY <1>3, <2>4, <3>1
  <2>5. QED
    BY <2>1, <2>2, <2>3, <2>4
<1>5. ASSUME Changing(p)' = {}
      PROVE  /\ Shows(health'[p], settings'[p])
             /\ \A y \in Holding(p)' : p \in DOMAIN rows'[y] => Shows(rows'[y][p], settings'[p])
  <2>1. /\ Shows(health[p], settings[p]) /\ settings'[p] = settings[p]
        /\ \A y \in Holding(p) : p \in DOMAIN rows[y] => Shows(rows[y][p], settings[p])
    BY <1>2, <1>4, <1>5 DEF FlagFits, PlainAt
  <2>2. Shows(health'[p], settings[p])
    BY <2>1 DEF PlainAt, Shows
  <2>3. ASSUME NEW y \in Holding(p)', p \in DOMAIN rows'[y]
        PROVE  Shows(rows'[y][p], settings[p])
    <3>1. CASE y = x
      <4>1. \/ Shows(rows'[x][p], health[p])
            \/ x \in Holding(p) /\ p \in DOMAIN rows[x] /\ rows'[x][p] = rows[x][p]
        BY <2>3, <3>1 DEF PlainAt
      <4>2. QED
        BY <2>1, <3>1, <4>1 DEF Shows
    <3>2. CASE y # x
      <4>1. y \in Actors
        BY <2>3 DEF Holding
      <4>2. y \in Holding(p) /\ rows'[y] = rows[y]
        BY <1>3, <2>3, <3>2, <4>1
      <4>3. QED
        BY <2>1, <2>3, <4>2
    <3>3. QED
      BY <3>1, <3>2
  <2>4. QED
    BY <2>1, <2>2, <2>3
<1>6. ASSUME NEW h \in Changing(p)'
      PROVE  /\ Shows(pending'[h], settings'[p])
             /\ phase'[h] = "saveHealth" => Shows(rows'[h][p], settings'[p])
  <2>1. h \in Changing(p) /\ h # x /\ h \in Actors /\ h \in Handlers
    BY <1>4, <1>6 DEF Changing
  <2>2. pending'[h] = pending[h] /\ rows'[h] = rows[h] /\ phase'[h] = phase[h]
    BY <2>1 DEF Alone
  <2>3. settings'[p] = settings[p]
    BY DEF PlainAt
  <2>4. QED
    BY <1>2, <2>1, <2>2, <2>3 DEF FlagFits
<1>7. QED
  BY <1>1, <1>5, <1>6 DEF FlagFits

(* Steps that neither read nor write health are plain.                      *)
Quiet(x) ==
  /\ UNCHANGED <<settings, health>>
  /\ phase[x] \notin {"reconcile", "saveHealth"} /\ phase'[x] \notin {"reconcile", "saveHealth"}
  /\ \/ phase'[x] \in Away
     \/ rows'[x] = Nothing
     \/ rows'[x] = rows[x] /\ (phase[x] \notin Away \/ rows[x] = Nothing)

LEMMA QuietIsPlain ==
  ASSUME NEW x \in Actors, Quiet(x) PROVE Plain(x)
<1>1. Nothing = [p \in {} |-> None]
  BY DEF Nothing
<1>2. DOMAIN Nothing = {}
  BY <1>1
<1>3. ASSUME NEW p \in Providers
      PROVE  /\ x \notin Changing(p) /\ x \notin Changing(p)'
             /\ x \in Holding(p)' /\ p \in DOMAIN rows'[x] =>
                  x \in Holding(p) /\ p \in DOMAIN rows[x] /\ rows'[x][p] = rows[x][p]
  BY <1>2 DEF Quiet, Changing, Holding, Away
<1>4. QED
  BY <1>3 DEF Plain, PlainAt, Quiet

LEMMA HandlersAreQuiet ==
  ASSUME ServerFits, NEW h \in Handlers
  PROVE  /\ ReadsConfig(h) \/ SavesConfig(h) \/ RemembersConfig(h) \/ SetsLimit(h) => Quiet(h)
         /\ Looks(h) \/ HasLooked(h) \/ AsksRepair(h) => Quiet(h)
         /\ Checks(h) \/ Chooses(h) \/ Enqueues(h) => Quiet(h)
         /\ IsDropped(h) /\ phase[h] \notin {"reconcile", "saveHealth"} => Quiet(h)
<1>1. /\ h \in Actors
      /\ phase = [x \in Actors |-> phase[x]]
      /\ phase[h] = "idle" => rows[h] = Nothing
  BY ActorsDiffer DEF ServerFits, LocalsFit, HandlerFits
<1>2. ASSUME ReadsConfig(h) PROVE Quiet(h)
  BY <1>1, <1>2 DEF Quiet, Away, ReadsConfig, Returns, Continues, Goes, rowVars
<1>3. ASSUME SavesConfig(h) PROVE Quiet(h)
  BY <1>1, <1>3 DEF Quiet, Away, SavesConfig, Continues, Goes, rowVars
<1>4. ASSUME RemembersConfig(h) PROVE Quiet(h)
  BY <1>1, <1>4 DEF Quiet, Away, RemembersConfig, Continues, Goes, rowVars
<1>5. ASSUME SetsLimit(h) PROVE Quiet(h)
  BY <1>1, <1>5 DEF Quiet, Away, SetsLimit, Returns, Goes, rowVars
<1>6. ASSUME Looks(h) PROVE Quiet(h)
  BY <1>1, <1>6 DEF Quiet, Away, Looks, Continues, Goes, rowVars
<1>7. ASSUME HasLooked(h) PROVE Quiet(h)
  BY <1>1, <1>7 DEF Quiet, Away, HasLooked, Returns, Goes, Forgets, rowVars
<1>8. ASSUME AsksRepair(h) PROVE Quiet(h)
  BY <1>1, <1>8 DEF Quiet, Away, AsksRepair, Continues, Goes, rowVars
<1>9. ASSUME Checks(h) PROVE Quiet(h)
  BY <1>1, <1>9 DEF Quiet, Away, Checks, Prepares, Returns, Continues, Goes, rowVars
<1>10. ASSUME Chooses(h) PROVE Quiet(h)
  BY <1>1, <1>10 DEF Quiet, Away, Chooses, Prepares, Returns, Continues, Goes, rowVars
<1>11. ASSUME Enqueues(h) PROVE Quiet(h)
  BY <1>1, <1>11 DEF Quiet, Away, Enqueues, Returns, Goes, Forgets, rowVars
<1>12. ASSUME IsDropped(h), phase[h] \notin {"reconcile", "saveHealth"} PROVE Quiet(h)
  BY <1>1, <1>12 DEF Quiet, Away, IsDropped, Returns, Goes
<1>13. QED
  BY <1>2, <1>3, <1>4, <1>5, <1>6, <1>7, <1>8, <1>9, <1>10, <1>11, <1>12

LEMMA ImportersAreQuiet ==
  ASSUME ServerFits
  PROVE  /\ Works => Quiet(Worker)
         /\ \A s \in Slots :
               /\ TakesFile(s) \/ BuildsRegistry(s) \/ JoinsRun(s) => Quiet(s)
               /\ Enriches(s) \/ Settles(s) => Quiet(s)
<1>1. /\ Worker \in Actors /\ Slots \subseteq Actors
      /\ phase = [x \in Actors |-> phase[x]]
      /\ rows = [x \in Actors |-> rows[x]]
  BY ActorsDiffer DEF ServerFits, LocalsFit
<1>2. ASSUME Polls PROVE Quiet(Worker)
  BY <1>1, <1>2 DEF Quiet, Away, Polls, Continues, Goes
<1>3. ASSUME ClaimsNothing \/ Claims PROVE Quiet(Worker)
  BY <1>1, <1>3 DEF Quiet, Away, ClaimsNothing, Claims, Continues, Goes
<1>4. ASSUME ReadsKeys PROVE Quiet(Worker)
  BY <1>1, <1>4 DEF Quiet, Away, ReadsKeys, Continues, Goes
<1>5. ASSUME EndsJob PROVE Quiet(Worker)
  BY <1>1, <1>5 DEF Quiet, Away, EndsJob, Continues, Goes
<1>6. ASSUME NEW s \in Slots, TakesFile(s) PROVE Quiet(s)
  BY <1>1, <1>6 DEF Quiet, Away, TakesFile, Continues, Goes
<1>7. ASSUME NEW s \in Slots, BuildsRegistry(s) PROVE Quiet(s)
  BY <1>1, <1>7 DEF Quiet, Away, BuildsRegistry, Continues, Goes, rowVars
<1>8. ASSUME NEW s \in Slots, JoinsRun(s) PROVE Quiet(s)
  BY <1>1, <1>8 DEF Quiet, Away, JoinsRun, Continues, Goes, rowVars
<1>9. ASSUME NEW s \in Slots, Enriches(s) PROVE Quiet(s)
  BY <1>1, <1>9 DEF Quiet, Away, Enriches, Continues, Goes, rowVars
<1>10. ASSUME NEW s \in Slots, Settles(s) PROVE Quiet(s)
  BY <1>1, <1>10 DEF Quiet, Away, Settles, Goes
<1>11. QED
  BY <1>2, <1>3, <1>4, <1>5, <1>6, <1>7, <1>8, <1>9, <1>10 DEF Works

(* What reads or writes health, but for a change of settings.               *)
LEMMA FetchesIsPlain ==
  ASSUME ServerFits, NEW x \in Actors, Fetches(x) PROVE Plain(x)
<1>1. phase[x] \in {"fetch", "fetchOne"} /\ Wants(x) \in SUBSET Providers
  BY ReadersAreKnown DEF Fetches
<1>2. /\ UNCHANGED <<settings, health>>
      /\ DOMAIN rows'[x] = Wants(x)
      /\ \A p \in Wants(x) : Shows(rows'[x][p], health[p])
      /\ phase'[x] \in {then[x], "writeBack"}
  BY <1>1, FetchesRead
<1>3. then[x] \notin {"reconcile", "saveHealth"}
  BY <1>1 DEF ServerFits, HandlerFits, SlotFits, ImporterFits, Actors
<1>4. QED
  BY <1>1, <1>2, <1>3 DEF Plain, PlainAt, Changing

LEMMA WritesBackIsPlain ==
  ASSUME ServerFits, NEW x \in Actors, WritesBack(x) PROVE Plain(x)
<1>1. phase[x] = "writeBack" /\ WritesDirty(x)
  BY ReadersAreKnown DEF WritesBack
<1>2. PICK S \in SUBSET Providers : rows[x] \in [S -> FitRows]
  BY <1>1, ReadersAreKnown
<1> DEFINE p == Min(dirty[x])
<1>3. /\ UNCHANGED <<settings, rows>>
      /\ p \in S /\ health' = [health EXCEPT ![p] = rows[x][p]]
      /\ phase'[x] \in {then[x], "writeBack"}
  BY <1>1, <1>2, WritesBackWrites
<1> HIDE DEF p
<1>4. then[x] \notin {"reconcile", "saveHealth"}
  BY <1>1 DEF ServerFits, HandlerFits, SlotFits, ImporterFits, Actors
<1>5. health \in [Providers -> FitRows] /\ p \in DOMAIN rows[x]
  BY <1>2, <1>3 DEF ServerFits, TablesFit
<1>6. \A q \in Providers : q \in DOMAIN rows[x] => x \in Holding(q)
  BY <1>1 DEF Holding
<1>7. ASSUME NEW q \in Providers
      PROVE  \/ health'[q] = health[q]
             \/ x \in Holding(q) /\ q \in DOMAIN rows[x] /\ Shows(health'[q], rows[x][q])
  <2>1. CASE q = p
    BY <1>3, <1>5, <1>6, <2>1 DEF Shows
  <2>2. CASE q # p
    BY <1>3, <1>5, <2>2
  <2>3. QED
    BY <2>1, <2>2
<1>8. QED
  BY <1>1, <1>3, <1>4, <1>6, <1>7 DEF Plain, PlainAt, Changing

LEMMA PreparesOneIsPlain ==
  ASSUME ServerFits, NEW h \in Handlers, PreparesOne(h) PROVE Plain(h)
<1> DEFINE p == Min(todo[h])
<1>1. h \in Actors /\ HandlerFits(h) /\ TablesFit /\ LocalsFit
  BY ActorsDiffer DEF ServerFits
<1>2. /\ phase[h] = "prepare" /\ rows[h] \in [{p} -> FitRows]
      /\ todo[h] # {} /\ todo[h] \in SUBSET Providers
  BY <1>1 DEF PreparesOne, HandlerFits, HoldsNext, Heading, Reading, LocalsFit
<1>3. p \in Providers
  BY <1>1, <1>2, NextIsThere
<1>4. /\ UNCHANGED <<settings, rows>>
      /\ phase'[h] \in {"done", "enqueue", "fetchOne"}
      /\ health' = health \/ health' = [health EXCEPT ![p] = Prepared(rows[h][p])]
  BY <1>1 DEF PreparesOne, Returns, Continues, Goes, rowVars, LocalsFit
<1> HIDE DEF p
<1>5. Shows(Prepared(rows[h][p]), rows[h][p])
  BY <1>2, PreparedFits
<1>6. health \in [Providers -> FitRows]
  BY <1>1 DEF TablesFit
<1>7. \A q \in Providers : q \in DOMAIN rows[h] => h \in Holding(q)
  BY <1>1, <1>2 DEF Holding
<1>8. ASSUME NEW q \in Providers
      PROVE  \/ health'[q] = health[q]
             \/ h \in Holding(q) /\ q \in DOMAIN rows[h] /\ Shows(health'[q], rows[h][q])
  BY <1>2, <1>3, <1>4, <1>5, <1>6, <1>7
<1>9. QED
  BY <1>2, <1>4, <1>7, <1>8 DEF Plain, PlainAt, Changing

LEMMA ReadsRowIsPlain ==
  ASSUME ServerFits, NEW s \in Slots, ReadsRow(s) PROVE Plain(s)
<1>1. s \in Actors /\ rows = [x \in Actors |-> rows[x]] /\ phase = [x \in Actors |-> phase[x]]
  BY ActorsDiffer DEF ServerFits, LocalsFit
<1> DEFINE p == Min(todo[s])
<1>2. /\ UNCHANGED <<settings, health>>
      /\ phase[s] = "recordRead" /\ phase'[s] = "record"
      /\ rows'[s] = Row(p, health[p])
  BY <1>1 DEF ReadsRow, Continues, Goes
<1> HIDE DEF p
<1>3. DOMAIN rows'[s] = {p} /\ rows'[s][p] = health[p]
  BY <1>2 DEF Row
<1>4. QED
  BY <1>2, <1>3 DEF Plain, PlainAt, Changing, Shows

LEMMA RecordsIsPlain ==
  ASSUME ServerFits, NEW s \in Slots, Records(s) PROVE Plain(s)
<1> DEFINE p == Min(todo[s])
<1>1. s \in Actors /\ SlotFits(s) /\ TablesFit /\ LocalsFit
  BY ActorsDiffer DEF ServerFits
<1>2. /\ phase[s] = "record" /\ rows[s] \in [{p} -> FitRows]
      /\ todo[s] # {} /\ todo[s] \in SUBSET Providers
  BY <1>1 DEF Records, SlotFits, HoldsNext, LocalsFit
<1>3. p \in Providers
  BY <1>1, <1>2, NextIsThere
<1>4. /\ UNCHANGED <<settings, rows>>
      /\ phase'[s] \in {"settle", "recordRead"}
      /\ health' = [health EXCEPT ![p] = Applied(rows[s][p], outcome[s][p])]
  BY <1>1 DEF Records, Continues, Goes, rowVars, LocalsFit
<1> HIDE DEF p
<1>5. Shows(Applied(rows[s][p], outcome[s][p]), rows[s][p])
  BY <1>1, <1>2, AppliedFits DEF TablesFit
<1>6. health \in [Providers -> FitRows]
  BY <1>1 DEF TablesFit
<1>7. \A q \in Providers : q \in DOMAIN rows[s] => s \in Holding(q)
  BY <1>1, <1>2 DEF Holding
<1>8. ASSUME NEW q \in Providers
      PROVE  \/ health'[q] = health[q]
             \/ s \in Holding(q) /\ q \in DOMAIN rows[s] /\ Shows(health'[q], rows[s][q])
  BY <1>2, <1>3, <1>4, <1>5, <1>6, <1>7
<1>9. QED
  BY <1>2, <1>4, <1>7, <1>8 DEF Plain, PlainAt, Changing

(* A change of settings, from the row of settings to the row of health.     *)
LEMMA ChangesSettingAgrees ==
  ASSUME ServerFits, FlagsFit, NEW h \in Handlers, ChangesSetting(h), UNCHANGED <<op, now, crashes>>,
         Remembered, NEW p \in Providers, p \notin raced'
  PROVE  FlagFits(p)'
<1>1. /\ h \in Actors /\ Alone(h)
      /\ phase = [x \in Actors |-> phase[x]] /\ pending = [g \in Handlers |-> pending[g]]
      /\ settings \in [Providers -> SettingType]
      /\ rows[h] = Nothing
  <2>1. HandlerFits(h) /\ phase[h] = "idle"
    BY DEF ServerFits, ChangesSetting
  <2>2. QED
    BY <2>1, ActorsDiffer, ChangesSettingFits DEF ServerFits, LocalsFit, TablesFit, HandlerFits
<1>2. /\ phase[h] = "idle" /\ phase' = [phase EXCEPT ![h] = "reconcile"]
      /\ UNCHANGED <<health, rows, op>>
      /\ settings' = [settings EXCEPT ![op[h].provider] = pending'[h]]
  <2> DEFINE new == [enabled |-> Given(op[h].enabled, settings[op[h].provider].enabled),
                     key |-> Given(op[h].key, settings[op[h].provider].key)]
  <2>1. /\ settings' = [settings EXCEPT ![op[h].provider] = new]
        /\ pending' = [pending EXCEPT ![h] = new]
    BY DEF ChangesSetting
  <2> HIDE DEF new
  <2>2. pending'[h] = new
    BY <1>1, <2>1
  <2>3. QED
    BY <2>1, <2>2 DEF ChangesSetting, Continues, Goes, rowVars
<1>3. CASE op[h].provider = p
  <2>1. h \in Changing(p)' /\ phase'[h] = "reconcile"
    BY <1>1, <1>2, <1>3 DEF Changing
  <2>2. Changing(p)' = {h} /\ Holding(p)' \subseteq Changing(p)'
    BY <2>1, RacedTells
  <2>3. settings'[p] = pending'[h]
    BY <1>1, <1>2, <1>3
  <2>4. QED
    BY <2>1, <2>2, <2>3 DEF FlagFits, Shows
<1>4. CASE op[h].provider # p
  <2>1. Nothing = [q \in {} |-> None]
    BY DEF Nothing
  <2>2. DOMAIN rows'[h] = {}
    BY <1>1, <1>2, <2>1
  <2>3. PlainAt(h, p)
    BY <1>1, <1>2, <1>4, <2>2 DEF PlainAt, Changing
  <2>4. QED
    BY <1>1, <2>3, PlainKeepsFlags
<1>5. QED
  BY <1>3, <1>4

LEMMA ReadsHealthAgrees ==
  ASSUME ServerFits, FlagsFit, NEW h \in Handlers, ReadsHealth(h), UNCHANGED <<op, now, crashes>>,
         Remembered, NEW p \in Providers, p \notin raced'
  PROVE  FlagFits(p)'
<1>1. /\ h \in Actors /\ Alone(h)
      /\ phase = [x \in Actors |-> phase[x]] /\ rows = [x \in Actors |-> rows[x]]
      /\ pending[h] \in SettingType /\ op[h].kind = "setting"
      /\ TablesFit
  <2>1. HandlerFits(h) /\ phase[h] = "reconcile"
    BY DEF ServerFits, ReadsHealth
  <2>2. QED
    BY <2>1, ActorsDiffer, ReadsHealthFits DEF ServerFits, LocalsFit, HandlerFits
<1> DEFINE q == op[h].provider
           row == Reconciled(HealthOf(q, pending[h], health[q]), now)
<1>2. /\ phase[h] = "reconcile" /\ phase' = [phase EXCEPT ![h] = "saveHealth"]
      /\ UNCHANGED <<settings, health, pending, op>>
      /\ rows' = [rows EXCEPT ![h] = Row(q, row)]
  BY DEF ReadsHealth, Continues, Goes, configVars
<1>3. Shows(row, pending[h])
  <2>1. q \in Providers
    BY <1>1 DEF TablesFit, RequestFits
  <2>2. health[q] \in FitRows
    BY <1>1, <2>1 DEF TablesFit
  <2> DEFINE merged == HealthOf(q, pending[h], health[q])
  <2>3. merged \in FitRows /\ Shows(merged, pending[h])
    BY <1>1, <2>2, HealthOfFits
  <2> HIDE DEF merged
  <2>4. Shows(Reconciled(merged, now), merged)
    BY <2>3, ReconciledFits
  <2>5. QED
    BY <2>3, <2>4 DEF Shows, merged
<1> HIDE DEF row
<1>4. rows'[h] = [x \in {q} |-> row]
  BY <1>1, <1>2 DEF Row
<1>5. CASE q = p
  <2>1. h \in Changing(p) /\ h \in Changing(p)'
    BY <1>1, <1>2, <1>5 DEF Changing
  <2>2. Changing(p)' = {h} /\ Holding(p)' \subseteq Changing(p)' /\ FlagFits(p)
    BY <2>1, RacedTells DEF FlagsFit
  <2>3. Shows(pending'[h], settings'[p])
    BY <1>2, <2>1, <2>2 DEF FlagFits
  <2>4. Shows(rows'[h][p], settings'[p])
    BY <1>2, <1>3, <1>4, <1>5, <2>3 DEF Shows
  <2>5. QED
    BY <2>2, <2>3, <2>4 DEF FlagFits
<1>6. CASE q # p
  <2>1. p \notin DOMAIN rows'[h]
    BY <1>4, <1>6
  <2>2. PlainAt(h, p)
    BY <1>1, <1>2, <1>6, <2>1 DEF PlainAt, Changing
  <2>3. QED
    BY <1>1, <2>2, PlainKeepsFlags
<1>7. QED
  BY <1>5, <1>6

LEMMA SavesHealthAgrees ==
  ASSUME ServerFits, FlagsFit, NEW h \in Handlers, SavesHealth(h), UNCHANGED <<op, now, crashes>>,
         Remembered, NEW p \in Providers, p \notin raced'
  PROVE  FlagFits(p)'
<1> DEFINE q == op[h].provider
<1>1. /\ h \in Actors /\ Alone(h)
      /\ phase = [x \in Actors |-> phase[x]] /\ rows = [x \in Actors |-> rows[x]]
      /\ health \in [Providers -> FitRows]
  BY ActorsDiffer, SavesHealthFits DEF ServerFits, LocalsFit, TablesFit
<1>2. /\ phase[h] = "saveHealth" /\ phase' = [phase EXCEPT ![h] = "done"]
      /\ UNCHANGED <<settings, op>>
      /\ health' = [health EXCEPT ![q] = rows[h][q]]
  BY DEF SavesHealth, Returns, Goes
<1> HIDE DEF q
<1>3. phase'[h] = "done"
  BY <1>1, <1>2
<1>4. h \notin Changing(p)' /\ h \notin Holding(p)'
  BY <1>3 DEF Changing, Holding
<1>5. CASE q = p
  <2>1. h \in Changing(p)
    BY <1>2, <1>5 DEF Changing, q
  <2>2. p \notin raced /\ FlagFits(p)
    BY RacedTells DEF FlagsFit
  <2>3. Changing(p) = {h} /\ Holding(p) \subseteq {h} /\ Shows(rows[h][p], settings[p])
    BY <1>2, <2>1, <2>2 DEF FlagFits
  <2>4. ASSUME NEW y \in Actors, y # h PROVE y \notin Changing(p)' /\ y \notin Holding(p)'
    <3>1. phase'[y] = phase[y] /\ rows'[y] = rows[y]
      BY <1>1, <2>4 DEF Alone
    <3>2. y \notin Changing(p) /\ y \notin Holding(p)
      BY <2>3, <2>4
    <3>3. QED
      BY <1>2, <2>4, <3>1, <3>2 DEF Changing, Holding
  <2>5. Changing(p)' = {} /\ Holding(p)' = {}
    <3>1. Changing(p)' \subseteq Actors /\ Holding(p)' \subseteq Actors
      BY ActorsDiffer DEF Changing, Holding
    <3>2. QED
      BY <1>4, <2>4, <3>1
  <2>6. Shows(health'[p], settings'[p])
    BY <1>1, <1>2, <1>5, <2>3
  <2>7. QED
    BY <2>5, <2>6 DEF FlagFits
<1>6. CASE q # p
  <2>1. PlainAt(h, p)
    BY <1>1, <1>2, <1>4, <1>6 DEF PlainAt, Changing, q
  <2>2. QED
    BY <1>1, <2>1, PlainKeepsFlags
<1>7. QED
  BY <1>5, <1>6

LEMMA IsDroppedAgrees ==
  ASSUME ServerFits, FlagsFit, NEW h \in Handlers, IsDropped(h), UNCHANGED <<op, now, crashes>>,
         Remembered, NEW p \in Providers, p \notin raced'
  PROVE  FlagFits(p)'
<1>1. /\ h \in Actors /\ Alone(h)
      /\ phase = [x \in Actors |-> phase[x]] /\ answer = [x \in Actors |-> answer[x]]
  BY ActorsDiffer, IsDroppedFits DEF ServerFits, LocalsFit
<1>2. /\ UNCHANGED <<settings, health, op>>
      /\ phase'[h] = "done" /\ answer'[h] = "dropped"
  BY <1>1 DEF IsDropped, Returns, Goes
<1>3. h \notin Changing(p)
  BY <1>2, RacedTells
<1>4. PlainAt(h, p)
  BY <1>2, <1>3 DEF PlainAt, Changing, Holding
<1>5. QED
  BY <1>1, <1>4, PlainKeepsFlags

LEMMA ActsAgree ==
  ASSUME ServerFits, FlagsFit, NEW x \in Actors, Acts(x), UNCHANGED <<op, now, crashes>>, Remembered
  PROVE  FlagsFit'
<1>1. Alone(x) /\ Providers' = Providers
  BY ActsFit
<1> SUFFICES ASSUME NEW p \in Providers, p \notin raced' PROVE FlagFits(p)'
  BY <1>1 DEF FlagsFit
<1>2. \/ Plain(x)
      \/ x \in Handlers /\ (ChangesSetting(x) \/ ReadsHealth(x) \/ SavesHealth(x) \/ IsDropped(x))
  <2>1. CASE x \in Handlers /\ Administers(x)
    BY <2>1, HandlersAreQuiet, QuietIsPlain, PreparesOneIsPlain DEF Administers
  <2>2. CASE x \in Slots /\ Imports(x)
    BY <2>2, ImportersAreQuiet, QuietIsPlain, ReadsRowIsPlain, RecordsIsPlain DEF Imports
  <2>3. CASE Fetches(x) \/ WritesBack(x)
    BY <2>3, FetchesIsPlain, WritesBackIsPlain
  <2>4. CASE x = Worker /\ Works
    BY <2>4, ImportersAreQuiet, QuietIsPlain
  <2>5. QED
    BY <2>1, <2>2, <2>3, <2>4 DEF Acts
<1>3. CASE Plain(x)
  BY <1>1, <1>3, PlainKeepsFlags DEF Plain
<1>4. CASE x \in Handlers /\ (ChangesSetting(x) \/ ReadsHealth(x) \/ SavesHealth(x) \/ IsDropped(x))
  BY <1>4, ChangesSettingAgrees, ReadsHealthAgrees, SavesHealthAgrees, IsDroppedAgrees
<1>5. QED
  BY <1>2, <1>3, <1>4

LEMMA NobodyMovesAgrees ==
  ASSUME FlagsFit, UNCHANGED <<settings, health, phase, op, rows, pending>>,
         \A p \in Providers : p \in raced => p \in raced'
  PROVE  FlagsFit'
<1>1. Providers' = Providers
  BY DEF Providers
<1>2. SUFFICES ASSUME NEW p \in Providers, p \notin raced' PROVE FlagFits(p)'
  BY <1>1 DEF FlagsFit
<1>3. FlagFits(p)
  BY <1>2 DEF FlagsFit
<1>4. Changing(p)' = Changing(p) /\ Holding(p)' = Holding(p)
  BY DEF Changing, Holding
<1>5. QED
  BY <1>3, <1>4 DEF FlagFits

LEMMA RestartsAgree ==
  ASSUME ServerFits, Restarts PROVE FlagsFit'
<1>1. TablesFit
  BY DEF ServerFits
<1>2. /\ settings' = settings /\ health' = [p \in Providers |-> Seeded(p)]
      /\ phase' = [x \in Actors |->
                     IF x \in Handlers /\ phase[x] # "idle" THEN "done" ELSE "idle"]
  BY DEF Restarts
<1>3. Providers' = Providers
  BY <1>2 DEF Providers
<1>4. \A x \in Actors : phase'[x] \in {"idle", "done"}
  BY <1>2
<1>5. ASSUME NEW p \in Providers PROVE FlagFits(p)'
  <2>1. Changing(p)' = {} /\ Holding(p)' = {}
    BY <1>4, ActorsDiffer DEF Changing, Holding
  <2>2. Shows(health'[p], settings'[p])
    BY <1>1, <1>2, SeedsFit
  <2>3. QED
    BY <2>1, <2>2 DEF FlagFits
<1>6. QED
  BY <1>3, <1>5 DEF FlagsFit

LEMMA FlagsStart == ASSUME Init PROVE FlagsFit
<1>1. PICK w \in Workloads :
        settings = w.settings /\ health = [p \in DOMAIN w.settings |-> ConfigHealth(p, w.settings[p])]
  BY DEF Init
<1>2. TablesFit
  BY ServerStartsFit DEF ServerFits
<1>3. ASSUME NEW p \in Providers PROVE FlagFits(p)
  <2>1. settings[p] \in SettingType /\ health[p] = ConfigHealth(p, settings[p])
    BY <1>1, <1>2 DEF TablesFit, Providers
  <2>2. Shows(health[p], settings[p])
    BY <2>1, ConfigHealthFits
  <2>3. \A x \in Actors : phase[x] = "idle"
    BY DEF Init
  <2>4. Changing(p) = {} /\ Holding(p) = {}
    BY <2>3, ActorsDiffer DEF Changing, Holding
  <2>5. QED
    BY <2>2, <2>4 DEF FlagFits
<1>4. QED
  BY <1>3 DEF FlagsFit

LEMMA FlagStepsFit == ASSUME ServerFits, FlagsFit, [Next]_vars PROVE FlagsFit'
<1>1. CASE Next
  <2>1. Remembered => \A p \in Providers : p \in raced => p \in raced'
    BY DEF Remembered
  <2>2. Tick => UNCHANGED <<settings, health, phase, rows, pending>>
    BY DEF Tick, configVars, rowVars
  <2>3. QED
    BY <1>1, <2>1, <2>2, StepsAre, ActsAgree, NobodyMovesAgrees, RestartsAgree
<1>2. CASE UNCHANGED vars
  BY <1>2, NobodyMovesAgrees DEF vars, configVars, rowVars
<1>3. QED
  BY <1>1, <1>2

LEMMA FlagsKeepFit == Spec => []FlagsFit
<1>1. Init => FlagsFit
  BY FlagsStart
<1>2. ServerFits /\ FlagsFit /\ [Next]_vars => FlagsFit'
  BY FlagStepsFit
<1>3. QED
  BY <1>1, <1>2, ServerKeepsFit, PTL DEF Spec

(* The health of a provider shows its switch and its key, unless a change   *)
(* of them was dropped half-way or met another or a reader of the old row.  *)
THEOREM ProvidersShowTheirSettings == Spec => []FlagsAgree
<1>1. FlagsFit => FlagsAgree
  BY DEF FlagsFit, FlagFits, FlagsAgree, Shows
<1>2. QED
  BY <1>1, FlagsKeepFit, PTL

-----------------------------------------------------------------------------
(* The providers that a file asks.                                          *)

AskedFits ==
  \A s \in Slots : phase[s] \in {"join", "enrich"} => active[s] \subseteq enabledSince[s] \cup raced

(* What is remembered of a file that is under way is not forgotten.         *)
LEMMA RememberedKeepsAsked ==
  ASSUME ServerFits, AskedFits, Remembered, NEW s \in Slots, phase[s] \in {"join", "enrich"}
  PROVE  active[s] \subseteq enabledSince'[s] \cup raced'
<1>1. active[s] \subseteq Providers
  BY DEF ServerFits, LocalsFit
<1>2. active[s] \subseteq enabledSince[s] \cup raced
  BY DEF AskedFits
<1>3. enabledSince[s] \subseteq enabledSince'[s]
  BY DEF Remembered
<1>4. \A p \in Providers : p \in raced => p \in raced'
  BY DEF Remembered
<1>5. QED
  BY <1>1, <1>2, <1>3, <1>4

LEMMA BuildsRegistryAsks ==
  ASSUME ServerFits, FlagsFit, Remembered, NEW s \in Slots, BuildsRegistry(s)
  PROVE  active'[s] \subseteq enabledSince'[s] \cup raced'
<1>1. s \in Actors /\ SlotFits(s) /\ LocalsFit /\ RunFits
  BY ActorsDiffer DEF ServerFits
<1>2. phase[s] = "registry" /\ UNCHANGED settings /\ active'[s] = Asked(s)
  BY <1>1 DEF BuildsRegistry, LocalsFit
<1>3. phase[Worker] = "running" /\ rows[s] \in [Providers -> FitRows]
  BY <1>1, <1>2 DEF RunFits, SlotFits, HoldsAll
<1>4. Filtered \subseteq Providers
  BY <1>1, <1>3 DEF RunFits, Filtered
<1>5. SUFFICES ASSUME NEW p \in Providers, rows[s][p].enabled, p \notin raced'
               PROVE  p \in enabledSince'[s]
  BY <1>2, <1>4 DEF Asked, Ready
<1>6. p \notin raced /\ FlagFits(p)
  BY <1>5, RacedTells DEF FlagsFit
<1>7. s \in Holding(p) /\ s \notin Changing(p)
  BY <1>1, <1>2, ActorsDiffer DEF Holding, Changing
<1>8. Changing(p) = {}
  BY <1>6, <1>7 DEF FlagFits
<1>9. p \in DOMAIN rows[s]
  BY <1>3
<1>10. settings[p].enabled
  BY <1>5, <1>6, <1>7, <1>8, <1>9 DEF FlagFits, Shows
<1>11. QED
  BY <1>2, <1>10 DEF Remembered

LEMMA ActsAsk ==
  ASSUME ServerFits, FlagsFit, AskedFits, NEW x \in Actors, Acts(x), Alone(x),
         UNCHANGED <<op, now, crashes>>, Remembered
  PROVE  AskedFits'
<1> SUFFICES ASSUME NEW s \in Slots, phase'[s] \in {"join", "enrich"}
             PROVE  active'[s] \subseteq enabledSince'[s] \cup raced'
  BY DEF AskedFits
<1>1. CASE x # s
  <2>1. phase'[s] = phase[s] /\ active'[s] = active[s]
    BY <1>1, ActorsDiffer DEF Alone
  <2>2. QED
    BY <2>1, RememberedKeepsAsked
<1>2. CASE x = s
  <2>1. /\ s \in Actors /\ SlotFits(s) /\ phase = [y \in Actors |-> phase[y]]
        /\ s \notin Handlers /\ s # Worker
    BY ActorsDiffer DEF ServerFits, LocalsFit
  <2>2. BuildsRegistry(s) \/ JoinsRun(s)
    <3>1. Imports(s) \/ Fetches(s) \/ WritesBack(s)
      BY <1>2, <2>1 DEF Acts
    <3>2. ~(Fetches(s) \/ WritesBack(s))
      BY <2>1 DEF SlotFits, Fetches, WritesBack, Continues, Goes
    <3>3. QED
      BY <2>1, <3>1, <3>2 DEF Imports, TakesFile, Enriches, ReadsRow, Records, Settles,
                              Continues, Goes
  <2>3. CASE BuildsRegistry(s)
    BY <2>3, BuildsRegistryAsks
  <2>4. CASE JoinsRun(s)
    <3>1. phase[s] = "join" /\ UNCHANGED active
      BY <2>4 DEF JoinsRun
    <3>2. QED
      BY <3>1, RememberedKeepsAsked
  <2>5. QED
    BY <2>2, <2>3, <2>4
<1>3. QED
  BY <1>1, <1>2

LEMMA AskedStepsFit ==
  ASSUME ServerFits, FlagsFit, AskedFits, [Next]_vars PROVE AskedFits'
<1>1. ASSUME NEW x \in Actors, Acts(x), UNCHANGED <<op, now, crashes>>, Remembered
      PROVE  AskedFits'
  BY <1>1, ActsFit, ActsAsk
<1>2. ASSUME Tick, Remembered PROVE AskedFits'
  <2>1. UNCHANGED <<phase, active>>
    BY <1>2 DEF Tick, fileVars
  <2>2. QED
    BY <1>2, <2>1, RememberedKeepsAsked DEF AskedFits
<1>3. ASSUME Restarts PROVE AskedFits'
  <2>1. \A s \in Slots : phase'[s] = "idle"
    BY <1>3, ActorsDiffer DEF Restarts
  <2>2. QED
    BY <2>1 DEF AskedFits
<1>4. CASE UNCHANGED vars
  BY <1>4 DEF AskedFits, vars, fileVars
<1>5. QED
  BY <1>1, <1>2, <1>3, <1>4, StepsAre

(* No file asks a provider that was switched off when it was begun and ever *)
(* since.                                                                   *)
THEOREM FilesAskWhatIsOn == Spec => AskedWasEnabled
<1> DEFINE A == \A s \in Slots : phase[s] = "enrich" /\ phase'[s] # "enrich" /\ crashes' = crashes
                  => active[s] \subseteq enabledSince[s] \cup raced
<1>1. Init => AskedFits
  BY ActorsDiffer DEF Init, AskedFits
<1>2. ServerFits /\ FlagsFit /\ AskedFits /\ [Next]_vars => AskedFits'
  BY AskedStepsFit
<1>3. AskedFits => A
  BY DEF AskedFits
<1>4. QED
  BY <1>1, <1>2, <1>3, ServerKeepsFit, FlagsKeepFit, PTL DEF Spec, AskedWasEnabled
=============================================================================
