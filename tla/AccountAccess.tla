--------------------------- MODULE AccountAccess ---------------------------
(***************************************************************************)
(* The accounts of the server (src/src/storage.rs, src/src/state.rs,       *)
(* src/src/auth.rs).  Every request but the first-run bootstrap names an   *)
(* account: its row is read, the cache of verified credentials is asked,   *)
(* the password is verified against the row.  Then an administrator may    *)
(* create, reset and delete accounts, and anybody keeps playlists.         *)
(*                                                                         *)
(* Statements of PostgreSQL are single steps; a transaction is several of  *)
(* them, with the locks it holds in between.  Deleting an account and the  *)
(* bootstrap take the table of accounts in EXCLUSIVE MODE, which no write  *)
(* of an account and no foreign key check gets past.                       *)
(***************************************************************************)
EXTENDS Integers, FiniteSets

CONSTANTS
    None,
    Requests,
    Cancellable,    \* those whose handler may be dropped
    Workloads,      \* what the requests ask for, with the accounts there are
    Ids,            \* ids of accounts
    CacheLimit,     \* AUTH_CACHE_MAX_ENTRIES
    Ttl,            \* AUTH_CACHE_TTL_SECONDS
    MaxTicks        \* bound: how often time moves on its own

ASSUME AccountAssumption ==
    /\ Cancellable \subseteq Requests
    /\ CacheLimit \in Nat \ {0} /\ Ttl \in Nat \ {0} /\ MaxTicks \in Nat
    /\ None \notin Requests

\* A row of local_accounts.
IsRow(row) ==
    /\ DOMAIN row = {"name", "password", "admin", "disabled", "stamp"}
    /\ row.stamp \in Int

\* The accounts there are have been written before, and their names are unique.
ASSUME AccountsAreThere ==
    \A w \in Workloads :
        /\ \A a \in DOMAIN w.accounts : IsRow(w.accounts[a]) /\ w.accounts[a].stamp <= 0
        /\ \A a, b \in DOMAIN w.accounts : w.accounts[a].name = w.accounts[b].name => a = b

VARIABLES
    accounts,       \* local_accounts: name, password, admin, disabled, updated_at
    used,           \* ids that were given out
    playlists,      \* the owner of each personal playlist
    projection,     \* the playlists in catalog_search_projection
    tableLock,      \* who holds the table of accounts in EXCLUSIVE MODE
    rowLocks,       \* the playlists whose row a transaction holds, and which
    cache,          \* verified credentials
    time, ticks,
    phase, op,
    seen,           \* when a request came, its account and the row, the playlists it swept
    answer

\* History, no part of the program: the accounts that were open to the
\* credentials of each request at some time since it came.
VARIABLE rightful

tables == <<accounts, used, playlists, projection>>
locks == <<tableLock, rowLocks>>
requestVars == <<phase, seen, answer>>
vars == <<tables, locks, cache, time, ticks, requestVars, op, rightful>>

-----------------------------------------------------------------------------
Accounts == DOMAIN accounts
Admins == {a \in Accounts : accounts[a].admin /\ ~accounts[a].disabled}
Without(f, S) == [x \in DOMAIN f \ S |-> f[x]]
With(f, x, v) == [y \in DOMAIN f \cup {x} |-> IF y = x THEN v ELSE f[y]]

\* local_account_by_username: usernames are unique, whatever their case.
ByName(name) == {a \in Accounts : accounts[a].name = name /\ ~accounts[a].disabled}

\* The accounts the credentials of r are good for.
Entitled(r) == {a \in ByName(op[r].as) : accounts[a].password = op[r].password}

Goes(r, to) == phase' = [phase EXCEPT ![r] = to]
Returns(r, what) == Goes(r, "done") /\ answer' = [answer EXCEPT ![r] = what]
Continues(r, to) == Goes(r, to) /\ UNCHANGED answer

\* Every write of a row has an updated_at of its own.
Writes == time' = time + 1 /\ UNCHANGED ticks
Waits == UNCHANGED <<time, ticks>>

-----------------------------------------------------------------------------
\* The phase in which the work of a request begins.
Begin(kind) ==
    CASE kind = "remove" -> "lock"
      [] kind = "addItem" -> "row"
      [] OTHER -> "write"

Asks(r) ==
    /\ phase[r] = "idle"
    /\ Continues(r, IF op[r].kind = "bootstrap" THEN "lock" ELSE "credentials")
    /\ seen' = [seen EXCEPT ![r].now = time]
    /\ UNCHANGED <<tables, locks, cache, time, ticks>>

ReadsAccount(r) ==
    /\ phase[r] = "credentials"
    /\ IF ByName(op[r].as) = {} THEN Returns(r, "unauthorized") /\ UNCHANGED seen
       ELSE \E a \in ByName(op[r].as) :
                /\ Continues(r, "cached")
                /\ seen' = [seen EXCEPT ![r].id = a, ![r].row = accounts[a]]
    /\ UNCHANGED <<tables, locks, cache, time, ticks>>

\* The account may do what it asks for.
Admitted(r, id, admin) ==
    IF op[r].kind = "login" THEN Returns(r, "ok")
    ELSE IF op[r].kind \in {"playlist", "addItem"} \/ admin
    THEN Continues(r, Begin(op[r].kind))
    ELSE Returns(r, "forbidden")

Key(r) == <<op[r].as, op[r].password>>

\* Mutant of Fresh: an entry is good until it expires.
FreshByTime(r) == cache[Key(r)].expires > seen[r].now

Fresh(r) == cache[Key(r)].stamp = seen[r].row.stamp /\ cache[Key(r)].expires > seen[r].now

\* cached_authenticated_account, else the password is verified.
LooksUp(r) ==
    /\ phase[r] = "cached"
    /\ IF Key(r) \in DOMAIN cache /\ Fresh(r)
       THEN /\ Admitted(r, cache[Key(r)].id, cache[Key(r)].admin)
            /\ seen' = [seen EXCEPT ![r].id = cache[Key(r)].id]
       ELSE Continues(r, "verify") /\ UNCHANGED seen
    /\ UNCHANGED <<tables, locks, cache, time, ticks>>

\* The entries that are kept when one is added: at the limit the expired ones go,
\* and all of them if that makes no room.
Unexpired(now) == {k \in DOMAIN cache : cache[k].expires > now}

Room(now) ==
    IF Cardinality(DOMAIN cache) < CacheLimit THEN DOMAIN cache
    ELSE IF Cardinality(Unexpired(now)) < CacheLimit THEN Unexpired(now)
    ELSE {}

Verifies(r) ==
    /\ phase[r] = "verify"
    /\ IF seen[r].row.password # op[r].password THEN Returns(r, "unauthorized") /\ UNCHANGED cache
       ELSE /\ Admitted(r, seen[r].id, seen[r].row.admin)
            /\ cache' = With([k \in Room(seen[r].now) |-> cache[k]], Key(r),
                             [id |-> seen[r].id, admin |-> seen[r].row.admin,
                              stamp |-> seen[r].row.stamp, expires |-> seen[r].now + Ttl])
    /\ UNCHANGED <<tables, locks, time, ticks, seen>>

-----------------------------------------------------------------------------
\* A write of the table, or a check of a foreign key to it, waits for those that
\* hold it.
Unlocked == tableLock = None

Row(name, password, admin) ==
    [name |-> name, password |-> password, admin |-> admin, disabled |-> FALSE, stamp |-> time + 1]

Inserts(r, admin) ==
    \E a \in Ids \ used :
        /\ accounts' = With(accounts, a, Row(op[r].name, op[r].new, admin))
        /\ used' = used \cup {a}
        /\ Writes
        /\ UNCHANGED <<playlists, projection>>

CreatesAccount(r) ==
    /\ phase[r] = "write" /\ op[r].kind = "create"
    /\ Unlocked
    /\ IF \E a \in Accounts : accounts[a].name = op[r].name
       THEN Returns(r, "conflict") /\ Waits /\ UNCHANGED tables
       ELSE Inserts(r, op[r].admin) /\ Returns(r, "created")
    /\ UNCHANGED <<locks, cache, seen>>

ResetsPassword(r) ==
    /\ phase[r] = "write" /\ op[r].kind = "reset"
    /\ Unlocked
    /\ IF op[r].id \notin Accounts THEN Returns(r, "not_found") /\ Waits /\ UNCHANGED accounts
       ELSE /\ accounts' = [accounts EXCEPT ![op[r].id].password = op[r].new,
                                            ![op[r].id].stamp = time + 1]
            /\ Writes /\ Returns(r, "reset")
    /\ UNCHANGED <<used, playlists, projection, locks, cache, seen>>

-----------------------------------------------------------------------------
\* Transactions that hold the table: LOCK TABLE waits for the transactions that
\* have written to it or checked a key.
Sharing == {r \in Requests : phase[r] \in {"commit", "commitItem"}}

\* Mutant of LocksTable: nothing is locked.
LocksNoTable(r) ==
    /\ phase[r] = "lock"
    /\ Continues(r, "count")
    /\ UNCHANGED <<tables, locks, cache, time, ticks, seen>>

LocksTable(r) ==
    /\ phase[r] = "lock"
    /\ Unlocked /\ Sharing = {}
    /\ tableLock' = r
    /\ Continues(r, "count")
    /\ UNCHANGED <<tables, rowLocks, cache, time, ticks, seen>>

\* The end of a transaction, committed or not.
Releases(r) ==
    /\ tableLock' = IF tableLock = r THEN None ELSE tableLock
    /\ rowLocks' = Without(rowLocks, {p \in DOMAIN rowLocks : rowLocks[p] = r})

\* Mutant of Unrolled: a refusal keeps the transaction open.
UnrolledNever(r) == UNCHANGED locks

\* A transaction that is dropped before it commits is rolled back.
Unrolled(r) == Releases(r)

\* create_first_admin_if_no_accounts.
Bootstraps(r) ==
    /\ phase[r] = "count" /\ op[r].kind = "bootstrap"
    /\ IF Accounts # {}
       THEN Unrolled(r) /\ Returns(r, "conflict") /\ Waits /\ UNCHANGED tables
       ELSE Continues(r, "insert") /\ Waits /\ UNCHANGED <<tables, locks>>
    /\ UNCHANGED <<cache, seen>>

InsertsFirst(r) ==
    /\ phase[r] = "insert"
    /\ IF \E a \in Accounts : accounts[a].name = op[r].name
       THEN Unrolled(r) /\ Returns(r, "conflict") /\ Waits /\ UNCHANGED tables
       ELSE Inserts(r, TRUE) /\ Releases(r) /\ Returns(r, "created")
    /\ UNCHANGED <<cache, seen>>

\* delete_local_account: the row, the number of administrators, the personal
\* playlists with their search projections, the account.
Counts(r) ==
    /\ phase[r] = "count" /\ op[r].kind = "remove"
    /\ IF op[r].id \notin Accounts THEN Unrolled(r) /\ Returns(r, "not_found")
       ELSE IF op[r].id \in Admins /\ Cardinality(Admins) <= 1
       THEN Unrolled(r) /\ Returns(r, "last_admin")
       ELSE Continues(r, "sweep") /\ UNCHANGED locks
    /\ UNCHANGED <<tables, cache, time, ticks, seen>>

OwnedBy(a) == {p \in DOMAIN playlists : playlists[p] = a}

Sweeps(r) ==
    /\ phase[r] = "sweep"
    /\ OwnedBy(op[r].id) \cap DOMAIN rowLocks = {}
    /\ rowLocks' = [p \in DOMAIN rowLocks \cup OwnedBy(op[r].id) |->
                       IF p \in DOMAIN rowLocks THEN rowLocks[p] ELSE r]
    /\ seen' = [seen EXCEPT ![r].swept = OwnedBy(op[r].id)]
    /\ Continues(r, "delete")
    /\ UNCHANGED <<tables, tableLock, cache, time, ticks>>

\* A transaction that has inserted a playlist holds a key of its owner.
Holding(a) == {r \in Requests : phase[r] = "commit" /\ seen[r].id = a}

Deletes(r) ==
    /\ phase[r] = "delete"
    /\ Holding(op[r].id) = {}
    /\ accounts' = Without(accounts, {op[r].id})
    /\ playlists' = Without(playlists, OwnedBy(op[r].id))
    /\ projection' = projection \ seen[r].swept
    /\ Releases(r)
    /\ Returns(r, "deleted")
    /\ UNCHANGED <<used, cache, time, ticks, seen>>

-----------------------------------------------------------------------------
\* create_playlist: the row, whose owner must exist, and its search projection.
InsertsPlaylist(r) ==
    /\ phase[r] = "write" /\ op[r].kind = "playlist"
    /\ Unlocked
    /\ IF seen[r].id \in Accounts THEN Continues(r, "commit") ELSE Returns(r, "failed")
    /\ UNCHANGED <<tables, locks, cache, time, ticks, seen>>

CommitsPlaylist(r) ==
    /\ phase[r] = "commit"
    /\ playlists' = With(playlists, r, seen[r].id)
    /\ projection' = projection \cup {r}
    /\ Returns(r, "created")
    /\ UNCHANGED <<accounts, used, locks, cache, time, ticks, seen>>

\* add_visible_playlist_item: the row of the playlist, then the item, which
\* refers to the account that adds it.
LocksPlaylist(r) ==
    /\ phase[r] = "row"
    /\ op[r].playlist \notin DOMAIN rowLocks
    /\ IF op[r].playlist \in OwnedBy(seen[r].id)
       THEN Continues(r, "item") /\ rowLocks' = With(rowLocks, op[r].playlist, r)
       ELSE Returns(r, "not_found") /\ UNCHANGED rowLocks
    /\ UNCHANGED <<tables, tableLock, cache, time, ticks, seen>>

InsertsItem(r) ==
    /\ phase[r] = "item"
    /\ Unlocked
    /\ Continues(r, "commitItem")
    /\ UNCHANGED <<tables, locks, cache, time, ticks, seen>>

CommitsItem(r) ==
    /\ phase[r] = "commitItem"
    /\ Releases(r)
    /\ Returns(r, "added")
    /\ UNCHANGED <<tables, cache, time, ticks, seen>>

-----------------------------------------------------------------------------
\* A deletion waits for the row of a playlist whose transaction waits for the
\* table: PostgreSQL ends one of the two with an error.
Deadlocks(q, s) ==
    /\ phase[q] = "sweep" /\ tableLock = q
    /\ phase[s] = "item"
    /\ \E p \in OwnedBy(op[q].id) \cap DOMAIN rowLocks : rowLocks[p] = s

Aborts(r) ==
    /\ {s \in Requests : Deadlocks(r, s) \/ Deadlocks(s, r)} # {}
    /\ Unrolled(r)
    /\ Returns(r, "failed")
    /\ UNCHANGED <<tables, cache, time, ticks, seen>>

\* The handler is dropped at an await.
IsDropped(r) ==
    /\ r \in Cancellable
    /\ phase[r] \in {"credentials", "lock", "count", "insert", "sweep", "delete",
                     "write", "commit", "row", "item", "commitItem"}
    /\ Unrolled(r)
    /\ Returns(r, "dropped")
    /\ UNCHANGED <<tables, cache, time, ticks, seen>>

Tick ==
    /\ ticks < MaxTicks
    /\ ticks' = ticks + 1
    /\ time' = time + 1
    /\ UNCHANGED <<tables, locks, cache, requestVars>>

-----------------------------------------------------------------------------
Authenticates(r) == Asks(r) \/ ReadsAccount(r) \/ LooksUp(r) \/ Verifies(r)

Serves(r) ==
    \/ Authenticates(r)
    \/ CreatesAccount(r) \/ ResetsPassword(r)
    \/ LocksTable(r) \/ Bootstraps(r) \/ InsertsFirst(r)
    \/ Counts(r) \/ Sweeps(r) \/ Deletes(r)
    \/ InsertsPlaylist(r) \/ CommitsPlaylist(r)
    \/ LocksPlaylist(r) \/ InsertsItem(r) \/ CommitsItem(r)
    \/ Aborts(r)

\* What the history remembers of the credentials.
Remembers ==
    /\ UNCHANGED op
    /\ rightful' = [r \in Requests |->
            IF phase'[r] \in {"credentials", "cached", "verify"}
            THEN (IF phase[r] = "idle" THEN {} ELSE rightful[r]) \cup Entitled(r)'
            ELSE rightful[r]]

Init ==
    /\ \E w \in Workloads :
           /\ op = w.asked /\ accounts = w.accounts /\ playlists = w.playlists
    /\ used = DOMAIN accounts
    /\ projection = DOMAIN playlists
    /\ tableLock = None
    /\ rowLocks = [p \in {} |-> None]
    /\ cache = [k \in {} |-> None]
    /\ time = 1 /\ ticks = 0
    /\ phase = [r \in Requests |-> "idle"]
    /\ seen = [r \in Requests |-> [id |-> None, now |-> 0, row |-> None, swept |-> {}]]
    /\ answer = [r \in Requests |-> None]
    /\ rightful = [r \in Requests |-> {}]

Next ==
    /\ \/ \E r \in Requests : Serves(r) \/ IsDropped(r)
       \/ Tick
    /\ Remembers

Spec == Init /\ [][Next]_vars

\* A request that came goes on; PostgreSQL lets one of those that wait for a lock
\* have it, again and again, and ends deadlocks.
Fairness == \A r \in Requests : SF_phase(phase[r] # "idle" /\ Serves(r))

FairSpec == Spec /\ Fairness

-----------------------------------------------------------------------------
\* Once somebody can administer the server, somebody always can, though
\* administrators delete each other (delete_local_account, storage.rs).
AnAdminRemains == [][Admins # {} => Admins' # {}]_accounts

\* Search finds the playlists there are: an account that is deleted while one of
\* its playlists is made leaves no projection behind, and loses none of another.
ProjectionMatches == projection = DOMAIN playlists

\* A request acts for an account that was open to its credentials while it was
\* authenticated: no entry of the cache survives a new password, a deletion, or an
\* account of the same name.
Acting(r) ==
    /\ op[r].kind # "bootstrap"
    /\ phase[r] \notin {"idle", "credentials", "cached", "verify"}
    /\ answer[r] \notin {"unauthorized", "dropped"}

ActsRightfully == \A r \in Requests : Acting(r) => seen[r].id \in rightful[r]

\* Every request is answered: none waits for a lock whose holder is gone, and a
\* deletion that meets a change of a playlist does not wait for it for ever.
\* A request is made once, so that whoever has come is done when none is under way.
EveryRequestReturns == []<>(\A r \in Requests : phase[r] \in {"idle", "done"})
=============================================================================
