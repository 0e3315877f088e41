--------------------------- MODULE ServerSettings ---------------------------
(***************************************************************************)
(* What an administrator sets, and what becomes of it                      *)
(* (src/src/state.rs, src/src/providers.rs, src/src/pipeline.rs): the      *)
(* system configuration, stored in one row and held in memory, and the     *)
(* metadata providers, each with a row of settings and a row of health.    *)
(*                                                                         *)
(* A row of health is written as a whole by everybody that has read it:    *)
(* by the update of the settings, by a look at the health of providers, by *)
(* an administrator that asks for a repair, and by each file of an import  *)
(* job, which asks the providers that are ready and records what came of   *)
(* it.  Nothing but PostgreSQL orders them: each statement is a step.      *)
(***************************************************************************)
EXTENDS Integers, Sequences, FiniteSetsExt

CONSTANTS
    None,
    Handlers,       \* requests of administrators
    Slots,          \* files that a job works on at a time: scan_thread_count
    Cancellable,    \* handlers that may be dropped
    Workloads,      \* what the handlers ask for, in which state of the server
    Malformed,      \* values that are no path under the library
    KeyProviders,   \* provider_requires_runtime_key
    Backoff,        \* provider_backoff_duration, from the number of failures
    Files,          \* bound: files of a job
    MaxTime         \* bound: how often time moves on

Worker == "worker"
Actors == Handlers \cup Slots \cup {Worker}

ASSUME SettingsAssumption ==
    /\ Cancellable \subseteq Handlers
    /\ Handlers \cap Slots = {} /\ Worker \notin Handlers \cup Slots
    /\ Files \in Nat \ {0} /\ MaxTime \in Nat
    /\ Backoff \in Seq(Nat \ {0}) /\ Backoff # <<>>
    /\ None \notin Nat /\ IsFiniteSet(Handlers)

\* Providers are numbers, in the order in which they are checked.  Handlers and jobs
\* name providers that are there.
ASSUME WorkloadsAssumption ==
    \A w \in Workloads :
        LET Known == DOMAIN w.settings IN
        /\ Known \subseteq Nat
        /\ w.settings \in [Known -> [enabled : BOOLEAN, key : BOOLEAN]]
        /\ w.jobs \in Seq([repair : BOOLEAN, filter : SUBSET Known])
        /\ w.crashes \in Nat
        /\ \A h \in Handlers :
              /\ w.asked[h].kind = "setting" =>
                    /\ w.asked[h].provider \in Known
                    /\ w.asked[h].enabled \in BOOLEAN \cup {None}
                    /\ w.asked[h].key \in BOOLEAN \cup {None}
              /\ w.asked[h].kind = "repair" => w.asked[h].providers \subseteq Known

VARIABLES
    stored, memory, limit,  \* system_config: the row, the copy, transcode_admission
    settings, health,       \* provider_settings, provider_health
    jobs, job, backing,     \* queued jobs, the running one, providers_backing_off_in_run
    now, crashes,           \* crashes: how often the server may still stop
    phase, op, answer,
    pending,                \* the configuration a handler is about to store
    rows, dirty, then,      \* rows of health an actor has read; those it writes back
    todo,                   \* providers still to be checked, prepared or recorded
    active, outcome, snap   \* of a file: providers it asks, what came of it, who backs off

\* History, no part of the program: providers whose settings were changed while
\* somebody held their health, and the providers that were switched on at some
\* time since a file was begun.
VARIABLES raced, enabledSince

configVars == <<stored, memory, limit, pending>>
jobVars == <<jobs, job, backing>>
rowVars == <<rows, dirty, then>>
fileVars == <<active, outcome, snap>>
vars == <<configVars, settings, health, jobVars, now, crashes, phase, op, answer, rowVars, todo,
          fileVars, raced, enabledSince>>

Providers == DOMAIN settings

Nothing == [p \in {} |-> None]
Row(p, row) == [q \in {p} |-> row]

Goes(x, to) == phase' = [phase EXCEPT ![x] = to]
Returns(x, what) == Goes(x, "done") /\ answer' = [answer EXCEPT ![x] = what]
Continues(x, to) == Goes(x, to) /\ UNCHANGED answer

\* What an actor has read goes with it.
Forgets(x) ==
    /\ rows' = [rows EXCEPT ![x] = Nothing]
    /\ dirty' = [dirty EXCEPT ![x] = {}]
    /\ then' = [then EXCEPT ![x] = "idle"]
    /\ todo' = [todo EXCEPT ![x] = {}]

-----------------------------------------------------------------------------
\* PUT /admin/system/config: what is omitted is taken from the copy in memory.
Given(value, otherwise) == IF value = None THEN otherwise ELSE value

\* normalize_transcode_concurrency_limit, normalize_podcast_subtree and the others.
Acceptable(config) == config.limit >= 0 /\ config.subtree \notin Malformed

ReadsConfig(h) ==
    /\ phase[h] = "idle" /\ op[h].kind = "config"
    /\ LET config == [limit |-> Given(op[h].limit, memory.limit),
                      subtree |-> Given(op[h].subtree, memory.subtree)] IN
       IF Acceptable(config)
       THEN Continues(h, "save") /\ pending' = [pending EXCEPT ![h] = config]
       ELSE Returns(h, "bad_request") /\ UNCHANGED pending
    /\ UNCHANGED <<stored, memory, limit, settings, health, jobVars, rowVars, todo, fileVars>>

SavesConfig(h) ==
    /\ phase[h] = "save"
    /\ stored' = pending[h]
    /\ Continues(h, "remember")
    /\ UNCHANGED <<memory, limit, pending, settings, health, jobVars, rowVars, todo, fileVars>>

RemembersConfig(h) ==
    /\ phase[h] = "remember"
    /\ memory' = pending[h]
    /\ Continues(h, "admit")
    /\ UNCHANGED <<stored, limit, pending, settings, health, jobVars, rowVars, todo, fileVars>>

SetsLimit(h) ==
    /\ phase[h] = "admit"
    /\ limit' = pending[h].limit
    /\ Returns(h, "saved")
    /\ UNCHANGED <<stored, memory, pending, settings, health, jobVars, rowVars, todo, fileVars>>

-----------------------------------------------------------------------------
\* provider_backoff_active_at, provider_refresh_ready_at
BackoffActive(row, t) ==
    row.enabled /\ row.status = "BackingOff" /\ row.retry # None /\ row.retry > t

Off(status) == status \in {"Disabled", "Unconfigured"}

Ready(row, t) ==
    /\ row.enabled /\ ~Off(row.status)
    /\ IF row.status = "BackingOff" THEN row.retry # None /\ row.retry <= t ELSE row.ready

\* reconcile_provider_readiness
Reconciled(row, t) ==
    IF ~row.enabled \/ Off(row.status) THEN [row EXCEPT !.ready = FALSE]
    ELSE IF row.status # "BackingOff" THEN row
    ELSE IF row.retry # None /\ row.retry <= t
    THEN [row EXCEPT !.status = "Degraded", !.ready = TRUE, !.retry = None]
    ELSE [row EXCEPT !.ready = FALSE]

\* provider_setting_health
ConfigHealth(p, setting) ==
    LET status == IF ~setting.enabled THEN "Disabled"
                  ELSE IF p \in KeyProviders /\ ~setting.key THEN "Unconfigured"
                  ELSE "Healthy"
    IN  [enabled |-> setting.enabled, key |-> setting.key, status |-> status,
         ready |-> status = "Healthy", failures |-> 0, failedAt |-> None, retry |-> None]

\* Mutant of HealthOf: providers that are switched on keep their row.
HealthOfUnlessOn(p, setting, row) ==
    IF Off(ConfigHealth(p, setting).status) THEN ConfigHealth(p, setting) ELSE row

\* reconcile_provider_health_record: the row that follows from the settings.
HealthOf(p, setting, row) ==
    LET config == ConfigHealth(p, setting)
        flagged == [row EXCEPT !.enabled = config.enabled, !.key = config.key]
    IN  IF Off(config.status)
        THEN [config EXCEPT !.failures = row.failures, !.failedAt = row.failedAt]
        ELSE IF Off(row.status)
        THEN [flagged EXCEPT !.status = "Healthy", !.ready = TRUE, !.retry = None]
        ELSE flagged

\* PATCH /admin/providers/{provider}/settings: the row of settings, then the row
\* of health that follows from what the statement has returned.
ChangesSetting(h) ==
    /\ phase[h] = "idle" /\ op[h].kind = "setting"
    /\ LET p == op[h].provider
           setting == [enabled |-> Given(op[h].enabled, settings[p].enabled),
                       key |-> Given(op[h].key, settings[p].key)]
       IN  /\ settings' = [settings EXCEPT ![p] = setting]
           /\ pending' = [pending EXCEPT ![h] = setting]
    /\ Continues(h, "reconcile")
    /\ UNCHANGED <<stored, memory, limit, health, jobVars, rowVars, todo, fileVars>>

ReadsHealth(h) ==
    LET p == op[h].provider IN
    /\ phase[h] = "reconcile"
    /\ rows' = [rows EXCEPT ![h] = Row(p, Reconciled(HealthOf(p, pending[h], health[p]), now))]
    /\ Continues(h, "saveHealth")
    /\ UNCHANGED <<configVars, settings, health, jobVars, dirty, then, todo, fileVars>>

SavesHealth(h) ==
    /\ phase[h] = "saveHealth"
    /\ health' = [health EXCEPT ![op[h].provider] = rows[h][op[h].provider]]
    /\ Returns(h, "updated") /\ Forgets(h)
    /\ UNCHANGED <<configVars, settings, jobVars, fileVars>>

-----------------------------------------------------------------------------
\* provider_health and provider: rows are read, and those whose backoff has
\* elapsed are written back one by one.
Wants(x) == IF phase[x] = "fetch" THEN Providers ELSE {Min(todo[x])}

Fetches(x) ==
    /\ phase[x] \in {"fetch", "fetchOne"}
    /\ \E read \in {[p \in Wants(x) |-> Reconciled(health[p], now)]} :
       \E changed \in {{p \in Wants(x) : read[p] # health[p]}} :
           /\ rows' = [rows EXCEPT ![x] = read]
           /\ dirty' = [dirty EXCEPT ![x] = changed]
           /\ Continues(x, IF changed = {} THEN then[x] ELSE "writeBack")
    /\ UNCHANGED <<configVars, settings, health, jobVars, then, todo, fileVars>>

WritesBack(x) ==
    LET p == Min(dirty[x]) IN
    /\ phase[x] = "writeBack"
    /\ health' = [health EXCEPT ![p] = rows[x][p]]
    /\ dirty' = [dirty EXCEPT ![x] = @ \ {p}]
    /\ Continues(x, IF dirty[x] = {p} THEN then[x] ELSE "writeBack")
    /\ UNCHANGED <<configVars, settings, jobVars, rows, then, todo, fileVars>>

\* GET /admin/providers/health, and the readiness for maintenance.
Looks(h) ==
    /\ phase[h] = "idle" /\ op[h].kind = "look"
    /\ Continues(h, "fetch") /\ then' = [then EXCEPT ![h] = "looked"]
    /\ UNCHANGED <<configVars, settings, health, jobVars, rows, dirty, todo, fileVars>>

HasLooked(h) ==
    /\ phase[h] = "looked"
    /\ Returns(h, "ok") /\ Forgets(h)
    /\ UNCHANGED <<configVars, settings, health, jobVars, fileVars>>

-----------------------------------------------------------------------------
\* POST /admin/providers/{provider}/repair: the providers are checked one by one,
\* or those that can be repaired are taken, then they are prepared one by one.
Repairable(row) == row.enabled /\ row.status # "Unconfigured"

AsksRepair(h) ==
    /\ phase[h] = "idle" /\ op[h].kind = "repair"
    /\ Continues(h, IF op[h].providers = {} THEN "fetch" ELSE "fetchOne")
    /\ then' = [then EXCEPT ![h] = IF op[h].providers = {} THEN "choose" ELSE "check"]
    /\ todo' = [todo EXCEPT ![h] = op[h].providers]
    /\ UNCHANGED <<configVars, settings, health, jobVars, rows, dirty, fileVars>>

\* The providers of the job: pending[h].
Prepares(h, chosen) ==
    /\ Continues(h, "fetchOne")
    /\ pending' = [pending EXCEPT ![h] = chosen]
    /\ then' = [then EXCEPT ![h] = "prepare"]
    /\ todo' = [todo EXCEPT ![h] = chosen]

Checks(h) ==
    LET p == Min(todo[h]) IN
    /\ phase[h] = "check"
    /\ IF ~Repairable(rows[h][p])
       THEN Returns(h, "conflict") /\ UNCHANGED <<pending, then, todo>>
       ELSE IF todo[h] # {p}
       THEN /\ Continues(h, "fetchOne")
            /\ todo' = [todo EXCEPT ![h] = @ \ {p}]
            /\ UNCHANGED <<pending, then>>
       ELSE Prepares(h, op[h].providers)
    /\ UNCHANGED <<stored, memory, limit, settings, health, jobVars, rows, dirty, fileVars>>

Chooses(h) ==
    /\ phase[h] = "choose"
    /\ \E chosen \in {{p \in Providers : Repairable(rows[h][p])}} :
           IF chosen = {} THEN Returns(h, "conflict") /\ UNCHANGED <<pending, then, todo>>
           ELSE Prepares(h, chosen)
    /\ UNCHANGED <<stored, memory, limit, settings, health, jobVars, rows, dirty, fileVars>>

\* Mutant of Prepared: only the deadline is removed.
PreparedByDeadline(row) == [row EXCEPT !.retry = None]

Prepared(row) ==
    [row EXCEPT !.retry = None, !.ready = TRUE,
                !.status = IF @ = "BackingOff" THEN "Degraded" ELSE @]

\* prepare_provider_admin_retry, and the job when all are prepared.
PreparesOne(h) ==
    LET p == Min(todo[h]) IN
    /\ phase[h] = "prepare"
    /\ IF ~Repairable(rows[h][p])
       THEN Returns(h, "conflict") /\ UNCHANGED <<health, todo>>
       ELSE /\ health' = [health EXCEPT ![p] = Prepared(rows[h][p])]
            /\ todo' = [todo EXCEPT ![h] = @ \ {p}]
            /\ Continues(h, IF todo[h] = {p} THEN "enqueue" ELSE "fetchOne")
    /\ UNCHANGED <<configVars, settings, jobVars, rowVars, fileVars>>

Enqueues(h) ==
    /\ phase[h] = "enqueue"
    /\ jobs' = Append(jobs, [repair |-> TRUE, filter |-> pending[h]])
    /\ Returns(h, "accepted") /\ Forgets(h)
    /\ UNCHANGED <<configVars, settings, health, job, backing, fileVars>>

-----------------------------------------------------------------------------
\* run_next_import_job: the health of the providers, a job, the keys.
Polls ==
    /\ phase[Worker] = "idle"
    /\ Continues(Worker, "fetch") /\ then' = [then EXCEPT ![Worker] = "claim"]
    /\ UNCHANGED <<configVars, settings, health, jobVars, rows, dirty, todo, fileVars>>

ClaimsNothing ==
    /\ phase[Worker] = "claim"
    /\ jobs = <<>>
    /\ Continues(Worker, "idle") /\ Forgets(Worker)
    /\ UNCHANGED <<configVars, settings, health, jobVars, fileVars>>

Claims ==
    /\ phase[Worker] = "claim"
    /\ jobs # <<>>
    /\ jobs' = Tail(jobs)
    /\ job' = [repair |-> Head(jobs).repair, filter |-> Head(jobs).filter,
               keys |-> {}, left |-> Files]
    /\ backing' = {}
    /\ Continues(Worker, "keys") /\ Forgets(Worker)
    /\ UNCHANGED <<configVars, settings, health, fileVars>>

ReadsKeys ==
    /\ phase[Worker] = "keys"
    /\ job' = [job EXCEPT !.keys = {p \in Providers : settings[p].key}]
    /\ Continues(Worker, "running")
    /\ UNCHANGED <<configVars, settings, health, jobs, backing, rowVars, todo, fileVars>>

EndsJob ==
    /\ phase[Worker] = "running"
    /\ job.left = 0 /\ \A s \in Slots : phase[s] = "idle"
    /\ job' = None
    /\ Continues(Worker, "idle")
    /\ UNCHANGED <<configVars, settings, health, jobs, backing, rowVars, todo, fileVars>>

-----------------------------------------------------------------------------
\* One file of the job: provider_registry_for_job.
TakesFile(s) ==
    /\ phase[Worker] = "running" /\ phase[s] = "idle"
    /\ job.left > 0
    /\ job' = [job EXCEPT !.left = @ - 1]
    /\ Continues(s, "fetch") /\ then' = [then EXCEPT ![s] = "registry"]
    /\ UNCHANGED <<configVars, settings, health, jobs, backing, rows, dirty, todo, fileVars>>

\* provider_relevant_to_live_backoff, for a job whose failures matter.
Filtered == IF job.filter = {} THEN Providers ELSE job.filter
Relevant == IF job.repair THEN Filtered ELSE {}

\* Mutant of Asked: everybody who does not back off.
AskedUnlessBackingOff(s) ==
    {p \in Filtered : ~BackoffActive(rows[s][p], now) /\ (p \in KeyProviders => p \in job.keys)}

Asked(s) == {p \in Filtered : Ready(rows[s][p], now) /\ (p \in KeyProviders => p \in job.keys)}

BuildsRegistry(s) ==
    /\ phase[s] = "registry"
    /\ active' = [active EXCEPT ![s] = Asked(s)]
    /\ Continues(s, "join")
    /\ UNCHANGED <<configVars, settings, health, jobVars, rowVars, todo, outcome, snap>>

\* Those that back off, when they were read, are added for the whole run.
JoinsRun(s) ==
    /\ phase[s] = "join"
    /\ backing' = backing \cup
           {p \in Relevant : rows[s][p].enabled /\ rows[s][p].status = "BackingOff"
                                                /\ rows[s][p].retry # None}
    /\ snap' = [snap EXCEPT ![s] = backing']
    /\ Continues(s, "enrich")
    /\ UNCHANGED <<configVars, settings, health, jobs, job, rowVars, todo, active, outcome>>

\* Each is asked, up to three times, unless it finds nothing to ask for.
Enriches(s) ==
    /\ phase[s] = "enrich"
    /\ \E o \in [active[s] -> {"ok", "failed", "none"}] :
           /\ outcome' = [outcome EXCEPT ![s] = o]
           /\ todo' = [todo EXCEPT ![s] = {p \in active[s] : o[p] # "none"}]
           /\ Continues(s, IF \A p \in active[s] : o[p] = "none" THEN "settle" ELSE "recordRead")
    /\ UNCHANGED <<configVars, settings, health, jobVars, rowVars, active, snap>>

\* record_provider_outcomes
ReadsRow(s) ==
    /\ phase[s] = "recordRead"
    /\ rows' = [rows EXCEPT ![s] = Row(Min(todo[s]), health[Min(todo[s])])]
    /\ Continues(s, "record")
    /\ UNCHANGED <<configVars, settings, health, jobVars, dirty, then, todo, fileVars>>

BackoffAfter(failures) == Backoff[Min({failures, Len(Backoff)})]

\* apply_provider_execution_outcome
Applied(row, o) ==
    IF o = "failed"
    THEN [row EXCEPT !.failures = @ + 1, !.status = "BackingOff", !.ready = FALSE,
                     !.failedAt = now, !.retry = now + BackoffAfter(row.failures + 1)]
    ELSE [row EXCEPT !.failures = 0, !.status = "Healthy", !.ready = TRUE, !.retry = None]

Records(s) ==
    LET p == Min(todo[s]) IN
    /\ phase[s] = "record"
    /\ health' = [health EXCEPT ![p] = Applied(rows[s][p], outcome[s][p])]
    /\ todo' = [todo EXCEPT ![s] = @ \ {p}]
    /\ Continues(s, IF todo[s] = {p} THEN "settle" ELSE "recordRead")
    /\ UNCHANGED <<configVars, settings, jobVars, rowVars, fileVars>>

\* live_backoff_outcomes: what is not asked because it backs off.
Skipped(s) == (snap[s] \cap Relevant) \ active[s]
Failed(s) == {p \in active[s] : outcome[s][p] = "failed"}

\* update_live_provider_backoff; the file of a repair goes to quarantine if a
\* provider failed or was skipped.
Settles(s) ==
    /\ phase[s] = "settle"
    /\ backing' = (backing \cup Failed(s)) \ {p \in active[s] : outcome[s][p] = "ok"}
    /\ Goes(s, "idle")
    /\ answer' = [answer EXCEPT ![s] =
           IF job.repair /\ Failed(s) \cup Skipped(s) # {} THEN "quarantined" ELSE "imported"]
    /\ Forgets(s)
    /\ active' = [active EXCEPT ![s] = {}]
    /\ outcome' = [outcome EXCEPT ![s] = Nothing]
    /\ snap' = [snap EXCEPT ![s] = {}]
    /\ UNCHANGED <<configVars, settings, health, jobs, job>>

-----------------------------------------------------------------------------
Tick ==
    /\ now < MaxTime
    /\ now' = now + 1
    /\ UNCHANGED <<configVars, settings, health, jobVars, phase, answer, rowVars, todo, fileVars>>

\* The handler is dropped at an await.
IsDropped(h) ==
    /\ h \in Cancellable
    /\ phase[h] \notin {"idle", "admit", "done"}
    /\ Returns(h, "dropped") /\ Forgets(h)
    /\ UNCHANGED <<configVars, settings, health, jobVars, fileVars>>

\* Mutant of Seeded: a row that exists is kept.
SeededOnce(p) == health[p]

\* seed_provider_health
Seeded(p) == Reconciled(HealthOf(p, settings[p], health[p]), now)

\* The server stops, and starts again before anybody asks it something: its rows
\* of health are seeded from the settings.  A running job has nobody to run it.
Restarts ==
    /\ crashes > 0
    /\ crashes' = crashes - 1
    /\ memory' = stored /\ limit' = stored.limit
    /\ health' = [p \in Providers |-> Seeded(p)]
    /\ job' = None /\ backing' = {}
    /\ phase' = [x \in Actors |-> IF x \in Handlers /\ phase[x] # "idle" THEN "done" ELSE "idle"]
    /\ UNCHANGED <<stored, pending, settings, jobs, answer, rowVars, todo, fileVars>>

-----------------------------------------------------------------------------
Administers(h) ==
    \/ ReadsConfig(h) \/ SavesConfig(h) \/ RemembersConfig(h) \/ SetsLimit(h)
    \/ ChangesSetting(h) \/ ReadsHealth(h) \/ SavesHealth(h)
    \/ Looks(h) \/ HasLooked(h)
    \/ AsksRepair(h) \/ Checks(h) \/ Chooses(h) \/ PreparesOne(h) \/ Enqueues(h)
    \/ IsDropped(h)

Imports(s) ==
    \/ TakesFile(s) \/ BuildsRegistry(s) \/ JoinsRun(s) \/ Enriches(s)
    \/ ReadsRow(s) \/ Records(s) \/ Settles(s)

Works == Polls \/ ClaimsNothing \/ Claims \/ ReadsKeys \/ EndsJob

\* Handlers between the two statements of a change of settings.
Changing(p) == {h \in Handlers : phase[h] \in {"reconcile", "saveHealth"} /\ op[h].provider = p}

\* Those that have read the health of p and may write it or act on it.
Holding(p) ==
    {x \in Actors : /\ phase[x] \notin {"idle", "done", "fetch", "running", "keys"}
                    /\ p \in DOMAIN rows[x] \/ x \in Slots}

Remembered ==
    /\ raced' = {p \in Providers :
           LET changing == Changing(p)' IN
           \/ changing # {} /\ (Cardinality(changing) > 1 \/ Holding(p)' \ changing # {})
           \/ \E h \in Changing(p) : answer'[h] = "dropped"
           \/ p \in raced}
    /\ enabledSince' = [s \in Slots |->
           {p \in Providers : settings'[p].enabled}
               \cup (IF phase[s] = "idle" THEN {} ELSE enabledSince[s])]

Init ==
    /\ \E w \in Workloads :
           /\ op = w.asked
           /\ stored = w.config /\ settings = w.settings /\ jobs = w.jobs /\ crashes = w.crashes
           /\ health = [p \in DOMAIN w.settings |-> ConfigHealth(p, w.settings[p])]
    /\ memory = stored /\ limit = stored.limit
    /\ job = None /\ backing = {} /\ now = 0
    /\ phase = [x \in Actors |-> "idle"]
    /\ answer = [x \in Actors |-> None]
    /\ pending = [h \in Handlers |-> None]
    /\ rows = [x \in Actors |-> Nothing]
    /\ dirty = [x \in Actors |-> {}]
    /\ then = [x \in Actors |-> "idle"]
    /\ todo = [x \in Actors |-> {}]
    /\ active = [s \in Slots |-> {}]
    /\ outcome = [s \in Slots |-> Nothing]
    /\ snap = [s \in Slots |-> {}]
    /\ raced = {}
    /\ enabledSince = [s \in Slots |-> {}]

Next ==
    /\ UNCHANGED op
    /\ \/ /\ \/ \E h \in Handlers : Administers(h)
             \/ \E s \in Slots : Imports(s)
             \/ \E x \in Actors : Fetches(x) \/ WritesBack(x)
             \/ Works
          /\ UNCHANGED <<now, crashes>>
          /\ Remembered
       \/ Tick /\ UNCHANGED crashes /\ Remembered
       \/ Restarts /\ raced' = {} /\ UNCHANGED <<now, enabledSince>>

Spec == Init /\ [][Next]_vars

-----------------------------------------------------------------------------
\* A provider that backs off does so for as long as its failures in a row ask
\* for, and to an end: no row without a deadline, which nothing would ever lift
\* (apply_provider_execution_outcome, pipeline.rs, and all who rewrite the row).
BackoffFits ==
    \A p \in Providers : health[p].status = "BackingOff" =>
        /\ health[p].failures > 0 /\ health[p].retry # None
        /\ health[p].retry = health[p].failedAt + BackoffAfter(health[p].failures)

\* The health of a provider shows the switch and the key of its settings, unless
\* a change of them was dropped half-way, met another change, or met somebody who
\* had read the row before, since the server started (update_provider_setting,
\* state.rs).
FlagsAgree ==
    \A p \in Providers \ raced : Changing(p) = {} =>
        health[p].enabled = settings[p].enabled /\ health[p].key = settings[p].key

\* A file asks no provider that was switched off when it was begun and ever since,
\* with the same exception (provider_registry_for_job, pipeline.rs).
AskedWasEnabled ==
    [][\A s \in Slots : phase[s] = "enrich" /\ phase'[s] # "enrich" /\ crashes' = crashes
           => active[s] \subseteq enabledSince[s] \cup raced]_vars

\* After a restart the server runs with what is stored, whatever was under way
\* when it stopped.
RestartsAsStored ==
    [][crashes' # crashes =>
           /\ memory' = stored' /\ limit' = stored'.limit
           /\ \A p \in Providers :
                  /\ health'[p].enabled = settings'[p].enabled
                  /\ Off(health'[p].status) <=> Off(ConfigHealth(p, settings'[p]).status)]_vars
=============================================================================
