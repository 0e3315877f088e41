------------------------ MODULE AccountAccessProofs ------------------------
(***************************************************************************)
(* Theorems about AccountAccess, for any requests, workloads and ids, any  *)
(* limit of the cache and any times.                                       *)
(*                                                                         *)
(* TableInv is about the transactions: who holds the table of accounts,    *)
(* and what the transaction that deletes one may rely on since it counted  *)
(* and swept.  VersionInv is about the credentials: a username and an      *)
(* updated_at name one version of one row, wherever a copy of it is.       *)
(***************************************************************************)
EXTENDS AccountAccess, FiniteSetTheorems, TLAPS

-----------------------------------------------------------------------------
(* The inductive invariant of the transactions.                            *)

Exclusive == {"count", "insert", "sweep", "delete"}
Open == {"idle", "credentials", "cached", "verify", "lock", "write", "row", "item", "done"}

\* What the variables of the requests are: functions on Requests.
Shapes ==
    /\ phase \in [Requests -> Open \cup Exclusive \cup {"commit", "commitItem"}]
    /\ DOMAIN answer = Requests
    /\ DOMAIN seen = Requests
    /\ \A r \in Requests : DOMAIN seen[r] = {"id", "now", "row", "swept"}
    /\ time \in Int

Rows == \A a \in Accounts : IsRow(accounts[a])
Given == Accounts \subseteq used
HoldsTable == \A r \in Requests : phase[r] \in Exclusive => tableLock = r

\* Who holds the table found no transaction that writes a playlist or an item.
TableIsAlone == tableLock # None => Sharing = {}

\* What Counts has found still holds: there is another administrator.
Spares ==
    \A r \in Requests :
        phase[r] \in {"sweep", "delete"} /\ op[r].id \in Admins => Admins \ {op[r].id} # {}

\* What Sweeps has found still holds: the playlists of the account.
Sweeping == \A r \in Requests : phase[r] = "delete" => seen[r].swept = OwnedBy(op[r].id)

TableInv ==
    /\ Shapes /\ Rows /\ Given
    /\ HoldsTable /\ TableIsAlone /\ Spares /\ Sweeping
    /\ ProjectionMatches

-----------------------------------------------------------------------------
(* Steps that move one request and write no table.                         *)

Moves(r, to) ==
    /\ phase' = [phase EXCEPT ![r] = to]
    /\ DOMAIN answer' = Requests
    /\ DOMAIN seen' = Requests
    /\ \A s \in Requests : DOMAIN seen'[s] = {"id", "now", "row", "swept"}
    /\ \A s \in Requests \ {r} : seen'[s] = seen[s]
    /\ time' \in Int
    /\ op' = op

\* The table is kept, or let go by the request that moves.
LetsGo(r) == tableLock' = tableLock \/ (tableLock = r /\ tableLock' = None)

Quiet(r, to) ==
    /\ Moves(r, to)
    /\ to \in Open
    /\ UNCHANGED tables
    /\ LetsGo(r)

\* Who goes on holds no table, and lets go of it if it did.
LEMMA QuietKeepsTable ==
    ASSUME TableInv, NEW r \in Requests, NEW to, Quiet(r, to)
    PROVE  TableInv'
<1> USE DEF Quiet, Moves, Open
<1>1. \A s \in Requests : phase'[s] = IF s = r THEN to ELSE phase[s]
  BY DEF TableInv, Shapes
<1>2. Shapes'
  BY <1>1 DEF TableInv, Shapes
<1>3. Rows' /\ Given' /\ ProjectionMatches'
  BY DEF TableInv, Rows, Given, ProjectionMatches, tables, Accounts
<1>4. HoldsTable'
  BY <1>1 DEF TableInv, HoldsTable, LetsGo, Exclusive
<1>5. TableIsAlone'
  <2>1. Sharing' \subseteq Sharing
    BY <1>1 DEF Sharing
  <2> QED
    BY <2>1 DEF TableInv, TableIsAlone, LetsGo
<1>6. Spares'
  <2>1. Admins' = Admins
    BY DEF tables, Admins, Accounts
  <2> QED
    BY <1>1, <2>1 DEF TableInv, Spares, Exclusive
<1>7. Sweeping'
  BY <1>1 DEF TableInv, Sweeping, tables, OwnedBy, Exclusive
<1> QED
  BY <1>2, <1>3, <1>4, <1>5, <1>6, <1>7 DEF TableInv

\* The ends of transactions.
LEMMA ReleasesLetsGo ==
    ASSUME NEW r, Releases(r) \/ Unrolled(r) \/ UNCHANGED locks
    PROVE  LetsGo(r)
BY DEF Releases, Unrolled, LetsGo, locks

LEMMA AuthenticationIsQuiet ==
    ASSUME TableInv, NEW r \in Requests, Authenticates(r), op' = op
    PROVE  TableInv'
<1>0. Shapes
  BY DEF TableInv
<1> USE DEF Goes, Returns, Continues, locks
<1>1. CASE Asks(r)
  <2>1. \E to \in {"lock", "credentials"} : phase' = [phase EXCEPT ![r] = to]
    BY <1>1 DEF Asks
  <2>2. PICK to \in {"lock", "credentials"} : phase' = [phase EXCEPT ![r] = to]
    BY <2>1
  <2>3. Quiet(r, to)
    BY <1>0, <1>1, <2>2 DEF Asks, Quiet, Moves, LetsGo, Open, Shapes
  <2> QED
    BY <2>3, QuietKeepsTable
<1>2. CASE ReadsAccount(r)
  <2>1. CASE ByName(op[r].as) = {}
    <3>1. Quiet(r, "done")
      BY <1>0, <1>2, <2>1 DEF ReadsAccount, Quiet, Moves, LetsGo, Open, Shapes
    <3> QED
      BY <3>1, QuietKeepsTable
  <2>2. CASE ByName(op[r].as) # {}
    <3>1. Quiet(r, "cached")
      BY <1>0, <1>2, <2>2 DEF ReadsAccount, Quiet, Moves, LetsGo, Open, Shapes
    <3> QED
      BY <3>1, QuietKeepsTable
  <2> QED
    BY <2>1, <2>2
<1>3. ASSUME NEW id, NEW admin, Admitted(r, id, admin)
      PROVE  \E to \in Open :
                 phase' = [phase EXCEPT ![r] = to] /\ DOMAIN answer' = Requests
  <2>1. Begin(op[r].kind) \in Open
    BY DEF Begin, Open
  <2>2. "done" \in Open
    BY DEF Open
  <2> QED
    BY <1>0, <1>3, <2>1, <2>2 DEF Admitted, Shapes
<1>5. CASE LooksUp(r)
  <2>1. "verify" \in Open
    BY DEF Open
  <2>2. PICK to \in Open :
            phase' = [phase EXCEPT ![r] = to] /\ DOMAIN answer' = Requests
    BY <1>0, <1>3, <1>5, <2>1 DEF LooksUp, Shapes
  <2>3. Quiet(r, to)
    BY <1>0, <1>5, <2>2 DEF LooksUp, Quiet, Moves, LetsGo, Shapes
  <2> QED
    BY <2>3, QuietKeepsTable
<1>6. CASE Verifies(r)
  <2>1. "done" \in Open
    BY DEF Open
  <2>2. PICK to \in Open :
            phase' = [phase EXCEPT ![r] = to] /\ DOMAIN answer' = Requests
    BY <1>0, <1>3, <1>6, <2>1 DEF Verifies, Shapes
  <2>3. Quiet(r, to)
    BY <1>0, <1>6, <2>2 DEF Verifies, Quiet, Moves, LetsGo, Shapes
  <2> QED
    BY <2>3, QuietKeepsTable
<1> QED
  BY <1>1, <1>2, <1>5, <1>6 DEF Authenticates

-----------------------------------------------------------------------------
(* Steps that write tables or take locks.                                  *)

\* The other requests are where they were.
LEMMA OthersStay ==
    ASSUME TableInv, NEW r \in Requests, NEW to, Moves(r, to)
    PROVE  \A s \in Requests : phase'[s] = IF s = r THEN to ELSE phase[s]
BY DEF TableInv, Shapes, Moves

\* A row is added, or its password changed: administrators stay, and nobody is in
\* the middle of a deletion.
Grows ==
    /\ Rows' /\ Given'
    /\ Admins \subseteq Admins'
    /\ UNCHANGED <<playlists, projection>>

LEMMA GrowsKeepsTable ==
    ASSUME TableInv, NEW r \in Requests, Moves(r, "done"), Grows, LetsGo(r),
           \A s \in Requests \ {r} : phase[s] \notin Exclusive
    PROVE  TableInv'
<1>1. \A s \in Requests : phase'[s] = IF s = r THEN "done" ELSE phase[s]
  BY OthersStay
<1>2. Shapes'
  BY DEF TableInv, Shapes, Moves, Open
<1>3. ProjectionMatches'
  BY DEF TableInv, ProjectionMatches, Grows
<1>4. HoldsTable' /\ Spares' /\ Sweeping'
  BY <1>1 DEF TableInv, HoldsTable, Spares, Sweeping, Exclusive
<1>5. TableIsAlone'
  <2>1. Sharing' \subseteq Sharing
    BY <1>1 DEF Sharing
  <2> QED
    BY <2>1 DEF TableInv, TableIsAlone, LetsGo
<1> QED
  BY <1>2, <1>3, <1>4, <1>5 DEF TableInv, Grows

LEMMA InsertsGrows ==
    ASSUME TableInv, NEW r \in Requests, NEW admin, Inserts(r, admin)
    PROVE  Grows /\ time' \in Int
<1>1. PICK a \in Ids \ used :
          /\ accounts' = With(accounts, a, Row(op[r].name, op[r].new, admin))
          /\ used' = used \cup {a} /\ Writes /\ UNCHANGED <<playlists, projection>>
  BY DEF Inserts
<1>2. a \notin Accounts
  BY DEF TableInv, Given
<1>3. Accounts' = Accounts \cup {a} /\ \A b \in Accounts : accounts'[b] = accounts[b]
  BY <1>1, <1>2 DEF Accounts, With
<1>4. accounts'[a] = Row(op[r].name, op[r].new, admin)
  BY <1>1 DEF With
<1>5. time \in Int
  BY DEF TableInv, Shapes
<1>6. Rows'
  BY <1>3, <1>4, <1>5 DEF TableInv, Rows, IsRow, Row
<1>7. Given'
  BY <1>1, <1>3 DEF TableInv, Given
<1>8. Admins \subseteq Admins'
  BY <1>3 DEF Admins
<1> QED
  BY <1>1, <1>5, <1>6, <1>7, <1>8 DEF Grows, Writes

LEMMA CreatesAccountKeepsTable ==
    ASSUME TableInv, NEW r \in Requests, CreatesAccount(r), op' = op
    PROVE  TableInv'
<1>0. Shapes
  BY DEF TableInv
<1> USE DEF Goes, Returns, locks
<1>1. CASE \E a \in Accounts : accounts[a].name = op[r].name
  <2>1. Quiet(r, "done")
    BY <1>0, <1>1 DEF CreatesAccount, Waits, Quiet, Moves, LetsGo, Open, Shapes
  <2> QED
    BY <2>1, QuietKeepsTable
<1>2. CASE ~\E a \in Accounts : accounts[a].name = op[r].name
  <2>1. Inserts(r, op[r].admin)
    BY <1>2 DEF CreatesAccount
  <2>2. Grows /\ time' \in Int
    BY <2>1, InsertsGrows
  <2>3. Moves(r, "done") /\ LetsGo(r)
    BY <1>0, <1>2, <2>2 DEF CreatesAccount, Moves, LetsGo, Shapes
  <2>4. \A s \in Requests : phase[s] \notin Exclusive
    BY AccountAssumption DEF TableInv, HoldsTable, CreatesAccount, Unlocked
  <2> QED
    BY <2>2, <2>3, <2>4, GrowsKeepsTable
<1> QED
  BY <1>1, <1>2

LEMMA ResetsPasswordKeepsTable ==
    ASSUME TableInv, NEW r \in Requests, ResetsPassword(r), op' = op
    PROVE  TableInv'
<1>0. Shapes
  BY DEF TableInv
<1> USE DEF Goes, Returns, locks
<1>1. CASE op[r].id \notin Accounts
  <2>1. Quiet(r, "done")
    BY <1>0, <1>1 DEF ResetsPassword, Waits, Quiet, Moves, LetsGo, Open, Shapes, tables
  <2> QED
    BY <2>1, QuietKeepsTable
<1>2. CASE op[r].id \in Accounts
  <2>1. accounts' = [accounts EXCEPT ![op[r].id].password = op[r].new, ![op[r].id].stamp = time + 1]
        /\ Writes
    BY <1>2 DEF ResetsPassword
  <2>2. Accounts' = Accounts
        /\ \A a \in Accounts :
              /\ DOMAIN accounts'[a] = DOMAIN accounts[a]
              /\ accounts'[a].stamp \in Int
              /\ accounts'[a].admin = accounts[a].admin
              /\ accounts'[a].disabled = accounts[a].disabled
    BY <1>0, <2>1 DEF TableInv, Rows, IsRow, Accounts, Shapes
  <2>3. Rows' /\ Given'
    BY <2>2 DEF TableInv, Rows, IsRow, Given, ResetsPassword
  <2>4. Admins \subseteq Admins'
    BY <2>2 DEF Admins
  <2>5. Grows /\ time' \in Int
    BY <1>0, <2>1, <2>3, <2>4 DEF Grows, ResetsPassword, Writes, Shapes
  <2>6. Moves(r, "done") /\ LetsGo(r)
    BY <1>0, <1>2, <2>5 DEF ResetsPassword, Moves, LetsGo, Shapes
  <2>7. \A s \in Requests : phase[s] \notin Exclusive
    BY AccountAssumption DEF TableInv, HoldsTable, ResetsPassword, Unlocked
  <2> QED
    BY <2>5, <2>6, <2>7, GrowsKeepsTable
<1> QED
  BY <1>1, <1>2

LEMMA LocksTableKeepsTable ==
    ASSUME TableInv, NEW r \in Requests, LocksTable(r), op' = op
    PROVE  TableInv'
<1>1. Moves(r, "count")
  BY DEF TableInv, Shapes, LocksTable, Continues, Goes, Moves
<1>2. \A s \in Requests : phase'[s] = IF s = r THEN "count" ELSE phase[s]
  BY <1>1, OthersStay
<1>3. UNCHANGED tables /\ tableLock' = r
  BY DEF LocksTable
<1>4. Shapes'
  BY <1>1 DEF TableInv, Shapes, Moves, Exclusive
<1>5. Rows' /\ Given' /\ ProjectionMatches'
  BY <1>3 DEF TableInv, Rows, Given, ProjectionMatches, tables, Accounts
<1>6. \A s \in Requests : phase[s] \notin Exclusive
  BY AccountAssumption DEF TableInv, HoldsTable, LocksTable, Unlocked
<1>7. HoldsTable' /\ Spares' /\ Sweeping'
  BY <1>2, <1>3, <1>6 DEF HoldsTable, Spares, Sweeping, Exclusive
<1>8. TableIsAlone'
  BY <1>2 DEF TableIsAlone, Sharing, LocksTable
<1> QED
  BY <1>4, <1>5, <1>7, <1>8 DEF TableInv

\* A step of the transaction that holds the table: what it relies on is given.
LEMMA ExclusiveKeepsTable ==
    ASSUME TableInv, NEW r \in Requests, NEW to \in Exclusive, Moves(r, to),
           phase[r] \in Exclusive,
           UNCHANGED <<tables, tableLock>>,
           to \in {"sweep", "delete"} /\ op[r].id \in Admins => Admins \ {op[r].id} # {},
           to = "delete" => seen'[r].swept = OwnedBy(op[r].id)
    PROVE  TableInv'
<1>1. \A s \in Requests : phase'[s] = IF s = r THEN to ELSE phase[s]
  BY OthersStay
<1>2. Shapes'
  BY DEF TableInv, Shapes, Moves
<1>3. Rows' /\ Given' /\ ProjectionMatches'
  BY DEF TableInv, Rows, Given, ProjectionMatches, tables, Accounts
<1>4. Admins' = Admins /\ \A a : OwnedBy(a)' = OwnedBy(a)
  BY DEF Admins, Accounts, OwnedBy, tables
<1>5. HoldsTable'
  BY <1>1 DEF TableInv, HoldsTable
<1>6. Spares'
  BY <1>1, <1>4 DEF TableInv, Spares, Moves
<1>7. Sweeping'
  BY <1>1, <1>4 DEF TableInv, Sweeping, Moves
<1>8. TableIsAlone'
  BY <1>1 DEF TableInv, TableIsAlone, Sharing, Exclusive
<1> QED
  BY <1>2, <1>3, <1>5, <1>6, <1>7, <1>8 DEF TableInv

LEMMA BootstrapKeepsTable ==
    ASSUME TableInv, NEW r \in Requests, Bootstraps(r) \/ InsertsFirst(r), op' = op
    PROVE  TableInv'
<1>0. Shapes
  BY DEF TableInv
<1> USE DEF Goes, Returns, Continues
<1>1. CASE Bootstraps(r)
  <2>1. CASE Accounts # {}
    <3>1. Quiet(r, "done")
      BY <1>0, <1>1, <2>1, ReleasesLetsGo DEF Bootstraps, Waits, Quiet, Moves, Open, Shapes
    <3> QED
      BY <3>1, QuietKeepsTable
  <2>2. CASE Accounts = {}
    <3>1. Moves(r, "insert") /\ UNCHANGED <<tables, tableLock>>
      BY <1>0, <1>1, <2>2 DEF Bootstraps, Waits, Moves, Shapes, locks
    <3>2. phase[r] \in Exclusive
      BY <1>1 DEF Bootstraps, Exclusive
    <3> QED
      BY <3>1, <3>2, ExclusiveKeepsTable DEF Exclusive
  <2> QED
    BY <2>1, <2>2
<1>2. CASE InsertsFirst(r)
  <2>1. CASE \E a \in Accounts : accounts[a].name = op[r].name
    <3>1. Quiet(r, "done")
      BY <1>0, <1>2, <2>1, ReleasesLetsGo DEF InsertsFirst, Waits, Quiet, Moves, Open, Shapes
    <3> QED
      BY <3>1, QuietKeepsTable
  <2>2. CASE ~\E a \in Accounts : accounts[a].name = op[r].name
    <3>1. Inserts(r, TRUE) /\ Releases(r) /\ Returns(r, "created")
      BY <1>2, <2>2 DEF InsertsFirst
    <3>2. Grows /\ time' \in Int
      BY <3>1, InsertsGrows
    <3>3. Moves(r, "done")
      BY <1>0, <1>2, <3>1, <3>2 DEF InsertsFirst, Moves, Shapes
    <3>4. \A s \in Requests \ {r} : phase[s] \notin Exclusive
      BY <1>2 DEF TableInv, HoldsTable, InsertsFirst, Exclusive
    <3> QED
      BY <3>1, <3>2, <3>3, <3>4, GrowsKeepsTable, ReleasesLetsGo
  <2> QED
    BY <2>1, <2>2
<1> QED
  BY <1>1, <1>2

LEMMA CountsKeepsTable ==
    ASSUME TableInv, NEW r \in Requests, Counts(r), op' = op
    PROVE  TableInv'
<1>0. Shapes
  BY DEF TableInv
<1> USE DEF Goes, Returns, Continues
<1>1. CASE op[r].id \notin Accounts \/ (op[r].id \in Admins /\ Cardinality(Admins) <= 1)
  <2>1. Quiet(r, "done")
    BY <1>0, <1>1, ReleasesLetsGo DEF Counts, Quiet, Moves, Open, Shapes
  <2> QED
    BY <2>1, QuietKeepsTable
<1>2. CASE op[r].id \in Accounts /\ ~(op[r].id \in Admins /\ Cardinality(Admins) <= 1)
  <2>1. Moves(r, "sweep") /\ UNCHANGED <<tables, tableLock>>
    BY <1>0, <1>2 DEF Counts, Moves, Shapes, locks
  <2>2. ASSUME op[r].id \in Admins, Admins \ {op[r].id} = {}  PROVE FALSE
    <3>1. Admins = {op[r].id}
      BY <2>2
    <3>2. Cardinality(Admins) = 1
      BY <3>1, FS_Singleton
    <3> QED
      BY <1>2, <2>2, <3>2
  <2>3. phase[r] \in Exclusive
    BY DEF Counts, Exclusive
  <2>4. op[r].id \in Admins => Admins \ {op[r].id} # {}
    BY <2>2
  <2> QED
    BY <2>1, <2>3, <2>4, ExclusiveKeepsTable DEF Exclusive
<1> QED
  BY <1>1, <1>2

LEMMA SweepsKeepsTable ==
    ASSUME TableInv, NEW r \in Requests, Sweeps(r), op' = op
    PROVE  TableInv'
<1>1. Moves(r, "delete") /\ UNCHANGED <<tables, tableLock>>
  BY DEF TableInv, Shapes, Sweeps, Continues, Goes, Moves
<1>2. phase[r] \in Exclusive /\ (op[r].id \in Admins => Admins \ {op[r].id} # {})
  BY DEF TableInv, Spares, Sweeps, Exclusive
<1>3. seen'[r].swept = OwnedBy(op[r].id)
  BY DEF TableInv, Shapes, Sweeps
<1> QED
  BY <1>1, <1>2, <1>3, ExclusiveKeepsTable DEF Exclusive

\* Who holds the table deletes what it swept, and nobody else is that far.
LEMMA DeletesKeepsTable ==
    ASSUME TableInv, NEW r \in Requests, Deletes(r), op' = op
    PROVE  TableInv'
<1>1. Moves(r, "done") /\ LetsGo(r)
  BY ReleasesLetsGo DEF TableInv, Shapes, Deletes, Returns, Goes, Moves
<1>2. \A s \in Requests : phase'[s] = IF s = r THEN "done" ELSE phase[s]
  BY <1>1, OthersStay
<1>3. \A s \in Requests \ {r} : phase[s] \notin Exclusive
  BY DEF TableInv, HoldsTable, Deletes, Exclusive
<1>4. Shapes'
  BY <1>1 DEF TableInv, Shapes, Moves, Open
<1>5. Rows' /\ Given'
  BY DEF TableInv, Rows, Given, Deletes, Without, Accounts
<1>6. ProjectionMatches'
  BY DEF TableInv, ProjectionMatches, Sweeping, Deletes, Without, OwnedBy
<1>7. HoldsTable' /\ Spares' /\ Sweeping'
  BY <1>2, <1>3 DEF HoldsTable, Spares, Sweeping, Exclusive
<1>8. TableIsAlone'
  BY <1>1, <1>2 DEF TableInv, TableIsAlone, Sharing, LetsGo
<1> QED
  BY <1>4, <1>5, <1>6, <1>7, <1>8 DEF TableInv

\* Who writes a playlist or an item begins when nobody holds the table.
LEMMA SharesKeepsTable ==
    ASSUME TableInv, NEW r \in Requests, NEW to \in {"commit", "commitItem"}, Moves(r, to),
           Unlocked, UNCHANGED <<tables, tableLock>>
    PROVE  TableInv'
<1>1. \A s \in Requests : phase'[s] = IF s = r THEN to ELSE phase[s]
  BY OthersStay
<1>2. \A s \in Requests : phase'[s] \notin Exclusive
  BY <1>1, AccountAssumption DEF TableInv, HoldsTable, Unlocked, Exclusive
<1>3. Shapes'
  BY DEF TableInv, Shapes, Moves
<1>4. Rows' /\ Given' /\ ProjectionMatches' /\ TableIsAlone'
  BY DEF TableInv, Rows, Given, ProjectionMatches, TableIsAlone, Unlocked, tables, Accounts
<1> QED
  BY <1>2, <1>3, <1>4 DEF TableInv, HoldsTable, Spares, Sweeping, Exclusive

LEMMA PlaylistKeepsTable ==
    ASSUME TableInv, NEW r \in Requests, op' = op,
           \/ InsertsPlaylist(r) \/ CommitsPlaylist(r)
           \/ LocksPlaylist(r) \/ InsertsItem(r) \/ CommitsItem(r)
    PROVE  TableInv'
<1>0. Shapes
  BY DEF TableInv
<1> USE DEF Goes, Returns, Continues
<1>1. CASE InsertsPlaylist(r)
  <2>1. CASE seen[r].id \in Accounts
    <3>1. Moves(r, "commit") /\ Unlocked /\ UNCHANGED <<tables, tableLock>>
      BY <1>0, <1>1, <2>1 DEF InsertsPlaylist, Moves, Shapes, locks
    <3> QED
      BY <3>1, SharesKeepsTable
  <2>2. CASE seen[r].id \notin Accounts
    <3>1. Quiet(r, "done")
      BY <1>0, <1>1, <2>2 DEF InsertsPlaylist, Quiet, Moves, LetsGo, Open, Shapes, locks
    <3> QED
      BY <3>1, QuietKeepsTable
  <2> QED
    BY <2>1, <2>2
<1>2. CASE CommitsPlaylist(r)
  <2>1. Moves(r, "done") /\ LetsGo(r)
    BY <1>0, <1>2 DEF CommitsPlaylist, Moves, LetsGo, Shapes, locks
  <2>2. \A s \in Requests : phase'[s] = IF s = r THEN "done" ELSE phase[s]
    BY <2>1, OthersStay
  <2>3. tableLock = None
    BY <1>2 DEF TableInv, TableIsAlone, Sharing, CommitsPlaylist
  <2>4. \A s \in Requests : phase[s] \notin Exclusive
    BY <2>3, AccountAssumption DEF TableInv, HoldsTable
  <2>5. Shapes'
    BY <2>1 DEF TableInv, Shapes, Moves, Open
  <2>6. Rows' /\ Given' /\ ProjectionMatches'
    BY <1>2 DEF TableInv, Rows, Given, ProjectionMatches, CommitsPlaylist, With, Accounts
  <2>7. HoldsTable' /\ Spares' /\ Sweeping'
    BY <2>2, <2>4 DEF HoldsTable, Spares, Sweeping, Exclusive
  <2>8. TableIsAlone'
    BY <2>1, <2>3 DEF TableIsAlone, LetsGo
  <2> QED
    BY <2>5, <2>6, <2>7, <2>8 DEF TableInv
<1>3. CASE LocksPlaylist(r)
  <2>1. PICK to \in {"item", "done"} : phase' = [phase EXCEPT ![r] = to] /\ DOMAIN answer' = Requests
    BY <1>0, <1>3 DEF LocksPlaylist, Shapes
  <2>2. Quiet(r, to)
    BY <1>0, <1>3, <2>1 DEF LocksPlaylist, Quiet, Moves, LetsGo, Open, Shapes
  <2> QED
    BY <2>2, QuietKeepsTable
<1>4. CASE InsertsItem(r)
  <2>1. Moves(r, "commitItem") /\ Unlocked /\ UNCHANGED <<tables, tableLock>>
    BY <1>0, <1>4 DEF InsertsItem, Moves, Shapes, locks
  <2> QED
    BY <2>1, SharesKeepsTable
<1>5. CASE CommitsItem(r)
  <2>1. Quiet(r, "done")
    BY <1>0, <1>5, ReleasesLetsGo DEF CommitsItem, Quiet, Moves, Open, Shapes
  <2> QED
    BY <2>1, QuietKeepsTable
<1> QED
  BY <1>1, <1>2, <1>3, <1>4, <1>5

LEMMA EndsKeepTable ==
    ASSUME TableInv, NEW r \in Requests, Aborts(r) \/ IsDropped(r), op' = op
    PROVE  TableInv'
<1>1. Quiet(r, "done")
  BY ReleasesLetsGo DEF TableInv, Aborts, IsDropped, Returns, Goes, Quiet, Moves, Open, Shapes
<1> QED
  BY <1>1, QuietKeepsTable

LEMMA TickKeepsTable ==
    ASSUME TableInv, Tick \/ UNCHANGED vars, op' = op
    PROVE  TableInv'
<1>1. UNCHANGED <<tables, locks, phase, seen, answer>> /\ time' \in Int
  BY DEF TableInv, Shapes, Tick, vars, requestVars
<1> QED
  BY <1>1 DEF TableInv, Shapes, Rows, Given, HoldsTable, TableIsAlone, Spares, Sweeping,
    ProjectionMatches, tables, locks, Accounts, Admins, OwnedBy, Sharing

LEMMA TableInvInit == Init => TableInv
<1> SUFFICES ASSUME Init PROVE TableInv
  OBVIOUS
<1>1. PICK w \in Workloads : op = w.asked /\ accounts = w.accounts /\ playlists = w.playlists
  BY DEF Init
<1>2. Rows
  BY <1>1, AccountsAreThere DEF Rows, Accounts
<1>3. Shapes
  BY DEF Init, Shapes, Open
<1> QED
  BY <1>2, <1>3 DEF Init, TableInv, Given, HoldsTable, TableIsAlone, Spares, Sweeping,
    ProjectionMatches, Accounts, Exclusive

LEMMA TableInvStep == TableInv /\ [Next]_vars => TableInv'
<1> SUFFICES ASSUME TableInv, [Next]_vars PROVE TableInv'
  OBVIOUS
<1>1. op' = op
  BY DEF Next, Remembers, vars
<1>2. ASSUME NEW r \in Requests, Serves(r) PROVE TableInv'
  BY <1>1, <1>2, AuthenticationIsQuiet, CreatesAccountKeepsTable, ResetsPasswordKeepsTable,
    LocksTableKeepsTable, BootstrapKeepsTable, CountsKeepsTable, SweepsKeepsTable,
    DeletesKeepsTable, PlaylistKeepsTable, EndsKeepTable DEF Serves
<1>3. ASSUME NEW r \in Requests, IsDropped(r) PROVE TableInv'
  BY <1>1, <1>3, EndsKeepTable
<1> QED
  BY <1>1, <1>2, <1>3, TickKeepsTable DEF Next

LEMMA TablesHold == Spec => []TableInv
BY TableInvInit, TableInvStep, PTL DEF Spec

\* Search finds exactly the playlists there are, whatever accounts are deleted
\* while playlists are made.
THEOREM ProjectionsMatch == Spec => []ProjectionMatches
<1>1. TableInv => ProjectionMatches
  BY DEF TableInv
<1> QED
  BY <1>1, TablesHold, PTL

-----------------------------------------------------------------------------
(* An administrator remains.                                               *)

\* Only a deletion makes an account go, and it spares one administrator.
LEMMA StepKeepsAdmins ==
    ASSUME TableInv, [Next]_vars, Admins # {}
    PROVE  Admins' # {} \/ UNCHANGED accounts
<1>1. ASSUME NEW r \in Requests, Deletes(r) PROVE Admins' # {}
  <2>1. Accounts' = Accounts \ {op[r].id} /\ \A a \in Accounts' : accounts'[a] = accounts[a]
    BY <1>1 DEF Deletes, Without, Accounts
  <2>2. Admins' = Admins \ {op[r].id}
    BY <2>1 DEF Admins
  <2> QED
    BY <1>1, <2>2 DEF TableInv, Spares, Deletes
<1>2. ASSUME NEW r \in Requests, NEW admin, Inserts(r, admin) PROVE Admins' # {}
  BY <1>2, InsertsGrows DEF Grows
<1>3. ASSUME NEW r \in Requests, ResetsPassword(r) PROVE Admins' # {} \/ UNCHANGED accounts
  <2>1. CASE op[r].id \in Accounts
    <3>1. Accounts' = Accounts
          /\ \A a \in Accounts : /\ accounts'[a].admin = accounts[a].admin
                                 /\ accounts'[a].disabled = accounts[a].disabled
      BY <1>3, <2>1 DEF ResetsPassword, TableInv, Rows, IsRow, Accounts
    <3> QED
      BY <3>1 DEF Admins
  <2> QED
    BY <1>3, <2>1 DEF ResetsPassword
<1>4. ASSUME NEW r \in Requests, Serves(r) \/ IsDropped(r) PROVE Admins' # {} \/ UNCHANGED accounts
  BY <1>1, <1>2, <1>3, <1>4 DEF Serves, IsDropped, Authenticates, Asks, ReadsAccount, LooksUp,
    Verifies, CreatesAccount, LocksTable, Bootstraps, InsertsFirst, Counts, Sweeps,
    InsertsPlaylist, CommitsPlaylist, LocksPlaylist, InsertsItem, CommitsItem, Aborts, tables
<1> QED
  BY <1>4 DEF Next, Tick, vars, tables

\* Once somebody can administer the server, somebody always can.
THEOREM AdminsRemain == Spec => AnAdminRemains
<1>1. TableInv /\ [Next]_vars => [Admins # {} => Admins' # {}]_accounts
  BY StepKeepsAdmins
<1> QED
  BY <1>1, TablesHold, PTL DEF Spec, AnAdminRemains

-----------------------------------------------------------------------------
(* The inductive invariant of the credentials.                             *)

Having(r) == phase[r] \in {"cached", "verify"}

Version(id, name, password, stamp) ==
    [id |-> id, name |-> name, password |-> password, stamp |-> stamp]

\* Where a version of an account is: in its row, in what a request has read, in
\* an entry of the cache.
RowVersions ==
    {Version(a, accounts[a].name, accounts[a].password, accounts[a].stamp) : a \in Accounts}

SeenVersions ==
    {Version(seen[r].id, seen[r].row.name, seen[r].row.password, seen[r].row.stamp) :
        r \in {q \in Requests : Having(q)}}

CacheVersions ==
    {Version(cache[k].id, k[1], k[2], cache[k].stamp) : k \in DOMAIN cache}

Versions == RowVersions \cup SeenVersions \cup CacheVersions

VersionInv ==
    /\ \A v \in Versions : v.stamp \in Int /\ v.stamp <= time
    /\ \A v, w \in Versions : v.name = w.name /\ v.stamp = w.stamp => v = w

\* A request has read a row of its username; the account is one its credentials
\* were good for if the password of the row is its password.
ReadsRightly(r) ==
    Having(r) => /\ seen[r].row.name = op[r].as
                 /\ seen[r].row.password = op[r].password => seen[r].id \in rightful[r]

\* It is past the authentication.
Past(r) ==
    /\ op[r].kind # "bootstrap"
    /\ phase[r] \notin {"idle", "credentials", "cached", "verify"}

GoesOnRightly(r) == Past(r) /\ phase[r] # "done" => seen[r].id \in rightful[r]

Rightly(r) == ReadsRightly(r) /\ GoesOnRightly(r) /\ (Acting(r) => seen[r].id \in rightful[r])

CredentialInv == VersionInv /\ \A r \in Requests : Rightly(r)

-----------------------------------------------------------------------------
(* A step of one request says nothing of the others.                       *)

Touches(r) ==
    /\ \A s \in Requests \ {r} : phase'[s] = phase[s] /\ seen'[s] = seen[s] /\ answer'[s] = answer[s]
    /\ DOMAIN answer = Requests /\ DOMAIN seen = Requests
    /\ DOMAIN phase = Requests

LEMMA ServesTouches ==
    ASSUME TableInv, NEW r \in Requests, Serves(r) \/ IsDropped(r)
    PROVE  Touches(r)
<1>0. DOMAIN answer = Requests /\ DOMAIN seen = Requests /\ DOMAIN phase = Requests
  BY DEF TableInv, Shapes
<1>1. \A s \in Requests \ {r} : answer'[s] = answer[s] /\ phase'[s] = phase[s]
  <2>1. \A to, what : Returns(r, what) \/ Continues(r, to) =>
            \A s \in Requests \ {r} : answer'[s] = answer[s] /\ phase'[s] = phase[s]
    BY <1>0 DEF Returns, Continues, Goes
  <2>2. \E to, what : Returns(r, what) \/ Continues(r, to)
    BY DEF Serves, IsDropped, Authenticates, Asks, ReadsAccount, LooksUp,
      Verifies, Admitted, CreatesAccount, ResetsPassword, LocksTable, Bootstraps, InsertsFirst,
      Counts, Sweeps, Deletes, InsertsPlaylist, CommitsPlaylist, LocksPlaylist, InsertsItem,
      CommitsItem, Aborts
  <2> QED
    BY <2>1, <2>2
<1>2. \A s \in Requests \ {r} : seen'[s] = seen[s]
  BY <1>0 DEF Serves, IsDropped, Authenticates, Asks, ReadsAccount, LooksUp,
    Verifies, CreatesAccount, ResetsPassword, LocksTable, Bootstraps, InsertsFirst,
    Counts, Sweeps, Deletes, InsertsPlaylist, CommitsPlaylist, LocksPlaylist, InsertsItem,
    CommitsItem, Aborts
<1> QED
  BY <1>0, <1>1, <1>2 DEF Touches

LEMMA OthersGoRightly ==
    ASSUME NEW r \in Requests, Touches(r), Remembers,
           \A s \in Requests : Rightly(s), Rightly(r)'
    PROVE  \A s \in Requests : Rightly(s)'
<1> SUFFICES ASSUME NEW s \in Requests \ {r} PROVE Rightly(s)'
  OBVIOUS
<1>1. phase'[s] = phase[s] /\ seen'[s] = seen[s] /\ answer'[s] = answer[s] /\ op' = op
  BY DEF Touches, Remembers
<1>2. phase[s] # "idle" => rightful[s] \subseteq rightful'[s]
  BY <1>1 DEF Remembers
<1>3. Rightly(s)
  OBVIOUS
<1> QED
  BY <1>1, <1>2, <1>3 DEF Rightly, ReadsRightly, GoesOnRightly, Past, Acting, Having

-----------------------------------------------------------------------------
(* No step makes a second version of a username and an updated_at.         *)

LEMMA VersionsStay ==
    ASSUME VersionInv, time \in Int, time' \in Int, time' >= time, Versions' \subseteq Versions
    PROVE  VersionInv'
BY DEF VersionInv

LEMMA VersionsGrow ==
    ASSUME VersionInv, time \in Int, time' = time + 1,
           NEW v, v.stamp = time + 1, Versions' \subseteq Versions \cup {v}
    PROVE  VersionInv'
BY DEF VersionInv

LEMMA SeenVersionsStay ==
    ASSUME NEW r \in Requests, Touches(r),
           Having(r)' => Having(r) /\ seen'[r] = seen[r]
    PROVE  SeenVersions' \subseteq SeenVersions
<1>1. \A s \in Requests : Having(s)' => Having(s) /\ seen'[s] = seen[s]
  BY DEF Touches, Having
<1> QED
  BY <1>1 DEF SeenVersions

\* A request reads its account and asks the cache.
LEMMA ReadsAccountGoesRightly ==
    ASSUME TableInv, CredentialInv, NEW r \in Requests, ReadsAccount(r), Remembers
    PROVE  CredentialInv'
<1>1. Touches(r)
  BY ServesTouches DEF Serves, Authenticates
<1>2. UNCHANGED <<accounts, cache, time, op>> /\ time \in Int
  BY DEF ReadsAccount, tables, Remembers, TableInv, Shapes
<1>3. CASE ByName(op[r].as) = {}
  <2>1. phase'[r] = "done" /\ answer'[r] = "unauthorized"
    BY <1>1, <1>3 DEF ReadsAccount, Returns, Goes, Touches
  <2>2. Rightly(r)'
    BY <2>1 DEF Rightly, ReadsRightly, GoesOnRightly, Having, Acting
  <2>3. SeenVersions' \subseteq SeenVersions
    BY <1>1, <2>1, SeenVersionsStay DEF Having
  <2>4. Versions' \subseteq Versions
    BY <1>2, <2>3 DEF Versions, RowVersions, CacheVersions, Accounts
  <2> QED
    BY <1>1, <1>2, <2>2, <2>4, VersionsStay, OthersGoRightly DEF CredentialInv
<1>4. CASE ByName(op[r].as) # {}
  <2>1. PICK a \in ByName(op[r].as) :
            Continues(r, "cached") /\ seen' = [seen EXCEPT ![r].id = a, ![r].row = accounts[a]]
    BY <1>4 DEF ReadsAccount
  <2>2. phase'[r] = "cached" /\ seen'[r].id = a /\ seen'[r].row = accounts[a]
    BY <1>1, <2>1 DEF Continues, Goes, Touches, TableInv, Shapes
  <2>3. a \in Accounts /\ accounts[a].name = op[r].as
    BY DEF ByName
  <2>4. a \in Entitled(r)' <=> accounts[a].password = op[r].password
    BY <1>2, <2>1 DEF Entitled, ByName, Accounts
  <2>5. Entitled(r)' \subseteq rightful'[r]
    BY <2>2 DEF Remembers
  <2>6. Rightly(r)'
    BY <1>2, <2>2, <2>3, <2>4, <2>5 DEF Rightly, ReadsRightly, GoesOnRightly, Having, Acting, Past
  <2>7. SeenVersions' \subseteq SeenVersions \cup RowVersions
    <3>1. \A s \in Requests \ {r} : Having(s)' => Having(s) /\ seen'[s] = seen[s]
      BY <1>1 DEF Touches, Having
    <3>2. Version(seen'[r].id, seen'[r].row.name, seen'[r].row.password, seen'[r].row.stamp)
             \in RowVersions
      BY <2>2, <2>3 DEF RowVersions
    <3> QED
      BY <3>1, <3>2 DEF SeenVersions
  <2>8. Versions' \subseteq Versions
    BY <1>2, <2>7 DEF Versions, RowVersions, CacheVersions, Accounts
  <2> QED
    BY <1>1, <1>2, <2>6, <2>8, VersionsStay, OthersGoRightly DEF CredentialInv
<1> QED
  BY <1>3, <1>4

LEMMA AsksGoesRightly ==
    ASSUME TableInv, CredentialInv, NEW r \in Requests, Asks(r), Remembers
    PROVE  CredentialInv'
<1>1. Touches(r)
  BY ServesTouches DEF Serves, Authenticates
<1>2. UNCHANGED <<accounts, cache, time, op>> /\ time \in Int
  BY DEF Asks, tables, Remembers, TableInv, Shapes
<1>3. phase'[r] = IF op[r].kind = "bootstrap" THEN "lock" ELSE "credentials"
  BY <1>1 DEF Asks, Continues, Goes, Touches
<1>4. Rightly(r)'
  BY <1>2, <1>3 DEF Rightly, ReadsRightly, GoesOnRightly, Having, Acting, Past
<1>5. SeenVersions' \subseteq SeenVersions
  BY <1>1, <1>3, SeenVersionsStay DEF Having
<1>6. Versions' \subseteq Versions
  BY <1>2, <1>5 DEF Versions, RowVersions, CacheVersions, Accounts
<1> QED
  BY <1>1, <1>2, <1>4, <1>6, VersionsStay, OthersGoRightly DEF CredentialInv

LEMMA AdmittedIsPast ==
    ASSUME NEW r \in DOMAIN phase, NEW id, NEW admin, Admitted(r, id, admin)
    PROVE  phase'[r] \notin {"idle", "credentials", "cached", "verify"}
<1>1. Begin(op[r].kind) \in {"lock", "row", "write"}
  BY DEF Begin
<1> QED
  BY <1>1 DEF Admitted, Returns, Continues, Goes

\* Whose account is one its credentials were good for goes on with it.
LEMMA PastGoesRightly ==
    ASSUME NEW r \in Requests, Remembers,
           phase'[r] \notin {"idle", "credentials", "cached", "verify"},
           seen'[r].id \in rightful[r]
    PROVE  Rightly(r)'
<1>1. rightful'[r] = rightful[r]
  BY DEF Remembers
<1> QED
  BY <1>1 DEF Rightly, ReadsRightly, GoesOnRightly, Having

\* An entry with the updated_at of the row is of the version the request has read.
LEMMA LooksUpGoesRightly ==
    ASSUME TableInv, CredentialInv, NEW r \in Requests, LooksUp(r), Remembers
    PROVE  CredentialInv'
<1>1. Touches(r)
  BY ServesTouches DEF Serves, Authenticates
<1>2. UNCHANGED <<accounts, cache, time, op>> /\ time \in Int
  BY DEF LooksUp, tables, Remembers, TableInv, Shapes
<1>3. Having(r) /\ phase[r] = "cached" /\ Rightly(r)
  BY DEF LooksUp, Having, CredentialInv
<1>4. CASE Key(r) \in DOMAIN cache /\ Fresh(r)
  <2>1. Admitted(r, cache[Key(r)].id, cache[Key(r)].admin)
        /\ seen' = [seen EXCEPT ![r].id = cache[Key(r)].id]
    BY <1>4 DEF LooksUp
  <2>2. phase'[r] \notin {"idle", "credentials", "cached", "verify"}
    BY <1>1, <2>1, AdmittedIsPast DEF Touches
  <2>3. seen'[r].id = cache[Key(r)].id
    BY <1>1, <2>1 DEF Touches, TableInv, Shapes
  <2> DEFINE v == Version(seen[r].id, seen[r].row.name, seen[r].row.password, seen[r].row.stamp)
             w == Version(cache[Key(r)].id, Key(r)[1], Key(r)[2], cache[Key(r)].stamp)
  <2>4. v \in SeenVersions /\ w \in CacheVersions
    BY <1>3, <1>4 DEF SeenVersions, CacheVersions
  <2>5. v.name = w.name /\ v.stamp = w.stamp
    BY <1>3, <1>4 DEF Rightly, ReadsRightly, Version, Key, Fresh
  <2>6. v = w
    BY <2>4, <2>5 DEF CredentialInv, VersionInv, Versions
  <2>7. seen[r].id = cache[Key(r)].id /\ seen[r].row.password = op[r].password
    BY <2>6 DEF Version, Key
  <2>8. Rightly(r)'
    BY <1>3, <2>2, <2>3, <2>7, PastGoesRightly DEF Rightly, ReadsRightly
  <2>9. SeenVersions' \subseteq SeenVersions
    BY <1>1, <2>2, SeenVersionsStay DEF Having
  <2>10. Versions' \subseteq Versions
    BY <1>2, <2>9 DEF Versions, RowVersions, CacheVersions, Accounts
  <2> QED
    BY <1>1, <1>2, <2>8, <2>10, VersionsStay, OthersGoRightly DEF CredentialInv
<1>5. CASE ~(Key(r) \in DOMAIN cache /\ Fresh(r))
  <2>1. Continues(r, "verify") /\ UNCHANGED seen
    BY <1>5 DEF LooksUp
  <2>2. phase'[r] = "verify"
    BY <1>1, <2>1 DEF Continues, Goes, Touches
  <2>3. rightful[r] \subseteq rightful'[r]
    BY <1>3, <2>2 DEF Remembers
  <2>4. Rightly(r)'
    BY <1>2, <1>3, <2>1, <2>2, <2>3 DEF Rightly, ReadsRightly, GoesOnRightly, Having, Acting, Past
  <2>5. SeenVersions' \subseteq SeenVersions
    BY <1>1, <1>3, <2>1, SeenVersionsStay
  <2>6. Versions' \subseteq Versions
    BY <1>2, <2>5 DEF Versions, RowVersions, CacheVersions, Accounts
  <2> QED
    BY <1>1, <1>2, <2>4, <2>6, VersionsStay, OthersGoRightly DEF CredentialInv
<1> QED
  BY <1>4, <1>5

\* An entry is made of the version that was verified.
LEMMA VerifiesGoesRightly ==
    ASSUME TableInv, CredentialInv, NEW r \in Requests, Verifies(r), Remembers
    PROVE  CredentialInv'
<1>1. Touches(r)
  BY ServesTouches DEF Serves, Authenticates
<1>2. UNCHANGED <<accounts, time, op, seen>> /\ time \in Int
  BY DEF Verifies, tables, Remembers, TableInv, Shapes
<1>3. Having(r) /\ Rightly(r)
  BY DEF Verifies, Having, CredentialInv
<1>4. CASE seen[r].row.password # op[r].password
  <2>1. phase'[r] = "done" /\ answer'[r] = "unauthorized" /\ cache' = cache
    BY <1>1, <1>4 DEF Verifies, Returns, Goes, Touches
  <2>2. Rightly(r)'
    BY <2>1 DEF Rightly, ReadsRightly, GoesOnRightly, Having, Acting
  <2>3. SeenVersions' \subseteq SeenVersions
    BY <1>1, <2>1, SeenVersionsStay DEF Having
  <2>4. Versions' \subseteq Versions
    BY <1>2, <2>1, <2>3 DEF Versions, RowVersions, CacheVersions, Accounts
  <2> QED
    BY <1>1, <1>2, <2>2, <2>4, VersionsStay, OthersGoRightly DEF CredentialInv
<1>5. CASE seen[r].row.password = op[r].password
  <2> DEFINE entry == [id |-> seen[r].id, admin |-> seen[r].row.admin,
                       stamp |-> seen[r].row.stamp, expires |-> seen[r].now + Ttl]
             room == Room(seen[r].now)
  <2>1. Admitted(r, seen[r].id, seen[r].row.admin)
        /\ cache' = With([k \in room |-> cache[k]], Key(r), entry)
    BY <1>5 DEF Verifies
  <2>2. phase'[r] \notin {"idle", "credentials", "cached", "verify"}
    BY <1>1, <2>1, AdmittedIsPast DEF Touches
  <2>3. Rightly(r)'
    BY <1>2, <1>3, <1>5, <2>2, PastGoesRightly DEF Rightly, ReadsRightly
  <2>4. room \subseteq DOMAIN cache
    BY DEF Room, Unexpired
  <2>5. DOMAIN cache' = room \cup {Key(r)} /\ cache'[Key(r)] = entry
        /\ \A k \in room \ {Key(r)} : cache'[k] = cache[k]
    BY <2>1 DEF With
  <2>6. Version(entry.id, Key(r)[1], Key(r)[2], entry.stamp) \in SeenVersions
    BY <1>3, <1>5 DEF Rightly, ReadsRightly, Key, SeenVersions
  <2>7. CacheVersions' \subseteq CacheVersions \cup SeenVersions
    <3> HIDE DEF entry, room
    <3> SUFFICES ASSUME NEW k \in DOMAIN cache'
                 PROVE  Version(cache'[k].id, k[1], k[2], cache'[k].stamp)
                            \in CacheVersions \cup SeenVersions
      BY DEF CacheVersions
    <3>1. CASE k = Key(r)
      BY <2>5, <2>6, <3>1
    <3>2. CASE k # Key(r)
      BY <2>4, <2>5, <3>2 DEF CacheVersions
    <3> QED
      BY <3>1, <3>2
  <2>8. SeenVersions' \subseteq SeenVersions
    BY <1>1, <2>2, SeenVersionsStay DEF Having
  <2>9. Versions' \subseteq Versions
    BY <1>2, <2>7, <2>8 DEF Versions, RowVersions, Accounts
  <2> QED
    BY <1>1, <1>2, <2>3, <2>9, VersionsStay, OthersGoRightly DEF CredentialInv
<1> QED
  BY <1>4, <1>5

-----------------------------------------------------------------------------
(* Past the authentication.                                                *)

\* A request past the authentication moves on, for the account it has.
Proceeds(r) ==
    /\ Touches(r)
    /\ phase[r] \notin {"idle", "credentials", "cached", "verify", "done"}
    /\ phase'[r] \notin {"idle", "credentials", "cached", "verify"}
    /\ seen'[r].id = seen[r].id
    /\ UNCHANGED <<cache, op>>

LEMMA ProceedsGoesRightly ==
    ASSUME CredentialInv, NEW r \in Requests, Proceeds(r), Remembers
    PROVE  /\ \A s \in Requests : Rightly(s)'
           /\ SeenVersions' \subseteq SeenVersions
           /\ CacheVersions' = CacheVersions
<1>3. Rightly(r)'
  <2>1. CASE op[r].kind # "bootstrap"
    <3>1. seen'[r].id \in rightful[r]
      BY <2>1 DEF Proceeds, CredentialInv, Rightly, GoesOnRightly, Past
    <3> QED
      BY <3>1, PastGoesRightly DEF Proceeds
  <2>2. CASE op[r].kind = "bootstrap"
    BY <2>2 DEF Proceeds, Rightly, ReadsRightly, GoesOnRightly, Having, Past, Acting
  <2> QED
    BY <2>1, <2>2
<1>4. \A s \in Requests : Rightly(s)'
  BY <1>3, OthersGoRightly DEF Proceeds, CredentialInv
<1>5. SeenVersions' \subseteq SeenVersions
  BY SeenVersionsStay DEF Proceeds, Having
<1> QED
  BY <1>4, <1>5 DEF Proceeds, CacheVersions

\* Everything a request does once it is authenticated.
Works(r) ==
    \/ CreatesAccount(r) \/ ResetsPassword(r)
    \/ LocksTable(r) \/ Bootstraps(r) \/ InsertsFirst(r)
    \/ Counts(r) \/ Sweeps(r) \/ Deletes(r)
    \/ InsertsPlaylist(r) \/ CommitsPlaylist(r)
    \/ LocksPlaylist(r) \/ InsertsItem(r) \/ CommitsItem(r)
    \/ Aborts(r)
    \/ IsDropped(r) /\ phase[r] # "credentials"

LEMMA WorksProceeds ==
    ASSUME TableInv, NEW r \in Requests, Works(r), Remembers
    PROVE  Proceeds(r)
<1>1. Touches(r)
  BY ServesTouches DEF Serves, Works
<1>2. phase[r] \notin {"idle", "credentials", "cached", "verify", "done"} /\ cache' = cache
  BY DEF Works, CreatesAccount, ResetsPassword, LocksTable, Bootstraps, InsertsFirst,
    Counts, Sweeps, Deletes, InsertsPlaylist, CommitsPlaylist, LocksPlaylist, InsertsItem,
    CommitsItem, Aborts, IsDropped, Deadlocks
<1>3. phase'[r] \notin {"idle", "credentials", "cached", "verify"}
  <2>1. \A to \in {"done", "count", "insert", "sweep", "delete", "commit", "item", "commitItem"} :
            Goes(r, to) => phase'[r] = to
    BY <1>1 DEF Goes, Touches
  <2>2. \E to \in {"done", "count", "insert", "sweep", "delete", "commit", "item", "commitItem"} :
            Goes(r, to)
    BY DEF Works, CreatesAccount, ResetsPassword, LocksTable, Bootstraps, InsertsFirst,
      Counts, Sweeps, Deletes, InsertsPlaylist, CommitsPlaylist, LocksPlaylist, InsertsItem,
      CommitsItem, Aborts, IsDropped, Returns, Continues
  <2> QED
    BY <2>1, <2>2
<1>4. seen'[r].id = seen[r].id
  BY <1>1 DEF Works, CreatesAccount, ResetsPassword, LocksTable, Bootstraps, InsertsFirst,
    Counts, Sweeps, Deletes, InsertsPlaylist, CommitsPlaylist, LocksPlaylist, InsertsItem,
    CommitsItem, Aborts, IsDropped, Touches, TableInv, Shapes
<1> QED
  BY <1>1, <1>2, <1>3, <1>4 DEF Proceeds, Remembers

\* A row that is written has an updated_at nothing has yet; every other row is as it was.
LEMMA WritesVersions ==
    ASSUME TableInv, NEW r \in Requests, Works(r)
    PROVE  \/ time' = time /\ RowVersions' \subseteq RowVersions
           \/ /\ time' = time + 1
              /\ \E v : v.stamp = time + 1 /\ RowVersions' \subseteq RowVersions \cup {v}
<1>1. ASSUME NEW admin, Inserts(r, admin)
      PROVE  /\ time' = time + 1
             /\ \E v : v.stamp = time + 1 /\ RowVersions' \subseteq RowVersions \cup {v}
  <2>1. PICK a \in Ids \ used :
            accounts' = With(accounts, a, Row(op[r].name, op[r].new, admin)) /\ Writes
    BY <1>1 DEF Inserts
  <2>2. Accounts' = Accounts \cup {a} /\ accounts'[a] = Row(op[r].name, op[r].new, admin)
        /\ \A b \in Accounts \ {a} : accounts'[b] = accounts[b]
    BY <2>1 DEF Accounts, With
  <2> DEFINE v == Version(a, accounts'[a].name, accounts'[a].password, accounts'[a].stamp)
  <2>3. v.stamp = time + 1
    BY <2>2 DEF Version, Row
  <2>4. RowVersions' \subseteq RowVersions \cup {v}
    BY <2>2 DEF RowVersions
  <2> QED
    BY <2>1, <2>3, <2>4 DEF Writes
<1>2. ASSUME ResetsPassword(r), op[r].id \in Accounts
      PROVE  /\ time' = time + 1
             /\ \E v : v.stamp = time + 1 /\ RowVersions' \subseteq RowVersions \cup {v}
  <2> DEFINE a == op[r].id
  <2>1. accounts' = [accounts EXCEPT ![a].password = op[r].new, ![a].stamp = time + 1] /\ Writes
    BY <1>2 DEF ResetsPassword
  <2>2. Accounts' = Accounts /\ accounts'[a].stamp = time + 1
        /\ \A b \in Accounts \ {a} : accounts'[b] = accounts[b]
    BY <1>2, <2>1 DEF Accounts, TableInv, Rows, IsRow
  <2> DEFINE v == Version(a, accounts'[a].name, accounts'[a].password, accounts'[a].stamp)
  <2>3. v.stamp = time + 1
    BY <2>2 DEF Version
  <2>4. RowVersions' \subseteq RowVersions \cup {v}
    BY <2>2 DEF RowVersions
  <2> QED
    BY <2>1, <2>3, <2>4 DEF Writes
<1>3. CASE Deletes(r)
  <2>1. time' = time /\ Accounts' \subseteq Accounts /\ \A b \in Accounts' : accounts'[b] = accounts[b]
    BY <1>3 DEF Deletes, Without, Accounts
  <2> QED
    BY <2>1 DEF RowVersions
<1>4. CASE UNCHANGED <<accounts, time>>
  BY <1>4 DEF RowVersions, Accounts
<1>5. ResetsPassword(r) => op[r].id \in Accounts \/ UNCHANGED <<accounts, time>>
  BY DEF ResetsPassword, Waits
<1>6. CreatesAccount(r) => Inserts(r, op[r].admin) \/ UNCHANGED <<accounts, time>>
  BY DEF CreatesAccount, Waits, tables
<1>7. InsertsFirst(r) => Inserts(r, TRUE) \/ UNCHANGED <<accounts, time>>
  BY DEF InsertsFirst, Waits, tables
<1>8. ~(ResetsPassword(r) \/ CreatesAccount(r) \/ InsertsFirst(r) \/ Deletes(r))
        => UNCHANGED <<accounts, time>>
  BY DEF Works, LocksTable, Bootstraps, Waits, Counts, Sweeps, InsertsPlaylist, CommitsPlaylist,
    LocksPlaylist, InsertsItem, CommitsItem, Aborts, IsDropped, tables
<1> QED
  BY <1>1, <1>2, <1>3, <1>4, <1>5, <1>6, <1>7, <1>8

LEMMA WorksGoesRightly ==
    ASSUME TableInv, CredentialInv, NEW r \in Requests, Works(r), Remembers
    PROVE  CredentialInv'
<1>1. /\ \A s \in Requests : Rightly(s)'
      /\ SeenVersions' \subseteq SeenVersions
      /\ CacheVersions' = CacheVersions
  BY WorksProceeds, ProceedsGoesRightly
<1>2. time \in Int
  BY DEF TableInv, Shapes
<1>3. CASE time' = time /\ RowVersions' \subseteq RowVersions
  <2>1. Versions' \subseteq Versions
    BY <1>1, <1>3 DEF Versions
  <2> QED
    BY <1>1, <1>2, <1>3, <2>1, VersionsStay DEF CredentialInv
<1>4. CASE time' = time + 1 /\ \E v : v.stamp = time + 1 /\ RowVersions' \subseteq RowVersions \cup {v}
  <2>1. PICK v : v.stamp = time + 1 /\ RowVersions' \subseteq RowVersions \cup {v}
    BY <1>4
  <2>2. Versions' \subseteq Versions \cup {v}
    BY <1>1, <2>1 DEF Versions
  <2> QED
    BY <1>1, <1>2, <1>4, <2>1, <2>2, VersionsGrow DEF CredentialInv
<1> QED
  BY <1>3, <1>4, WritesVersions

LEMMA DroppedGoesRightly ==
    ASSUME TableInv, CredentialInv, NEW r \in Requests, IsDropped(r), Remembers
    PROVE  CredentialInv'
<1>1. CASE phase[r] # "credentials"
  BY <1>1, WorksGoesRightly DEF Works
<1>2. CASE phase[r] = "credentials"
  <2>1. Touches(r)
    BY ServesTouches
  <2>2. UNCHANGED <<accounts, cache, time, op>> /\ time \in Int
    BY DEF IsDropped, tables, Remembers, TableInv, Shapes
  <2>3. phase'[r] = "done" /\ answer'[r] = "dropped"
    BY <2>1 DEF IsDropped, Returns, Goes, Touches
  <2>4. Rightly(r)'
    BY <2>3 DEF Rightly, ReadsRightly, GoesOnRightly, Having, Acting
  <2>5. SeenVersions' \subseteq SeenVersions
    BY <2>1, <2>3, SeenVersionsStay DEF Having
  <2>6. Versions' \subseteq Versions
    BY <2>2, <2>5 DEF Versions, RowVersions, CacheVersions, Accounts
  <2> QED
    BY <2>1, <2>2, <2>4, <2>6, VersionsStay, OthersGoRightly DEF CredentialInv
<1> QED
  BY <1>1, <1>2

LEMMA TickGoesRightly ==
    ASSUME TableInv, CredentialInv, (Tick /\ Remembers) \/ UNCHANGED vars
    PROVE  CredentialInv'
<1>1. UNCHANGED <<accounts, cache, phase, seen, answer, op>> /\ time \in Int
      /\ time' \in Int /\ time' >= time
  BY DEF Tick, tables, vars, requestVars, Remembers, TableInv, Shapes
<1>2. Versions' = Versions
  BY <1>1 DEF Versions, RowVersions, SeenVersions, CacheVersions, Accounts, Having
<1>3. \A s \in Requests : phase[s] # "idle" => rightful[s] \subseteq rightful'[s]
  BY <1>1 DEF Remembers, vars
<1>4. ASSUME NEW s \in Requests PROVE Rightly(s)'
  BY <1>1, <1>3 DEF CredentialInv, Rightly, ReadsRightly, GoesOnRightly, Past, Acting, Having
<1> QED
  BY <1>1, <1>2, <1>4, VersionsStay DEF CredentialInv

LEMMA CredentialInvInit == Init => CredentialInv
<1> SUFFICES ASSUME Init PROVE CredentialInv
  OBVIOUS
<1>1. PICK w \in Workloads : accounts = w.accounts
  BY DEF Init
<1>2. SeenVersions = {} /\ CacheVersions = {}
  BY DEF Init, SeenVersions, CacheVersions, Having
<1>3. Versions = RowVersions /\ time = 1
  BY <1>2 DEF Versions, Init
<1>4. ASSUME NEW a \in Accounts
      PROVE  accounts[a].stamp \in Int /\ accounts[a].stamp <= time
  BY <1>1, <1>3, AccountsAreThere DEF Accounts, IsRow
<1>5. ASSUME NEW a \in Accounts, NEW b \in Accounts, accounts[a].name = accounts[b].name
      PROVE  a = b
  BY <1>1, <1>5, AccountsAreThere DEF Accounts
<1>6. VersionInv
  BY <1>3, <1>4, <1>5 DEF VersionInv, RowVersions, Version
<1>7. \A r \in Requests : Rightly(r)
  BY DEF Init, Rightly, ReadsRightly, GoesOnRightly, Past, Acting, Having
<1> QED
  BY <1>6, <1>7 DEF CredentialInv

LEMMA CredentialInvStep == TableInv /\ CredentialInv /\ [Next]_vars => CredentialInv'
<1> SUFFICES ASSUME TableInv, CredentialInv, [Next]_vars PROVE CredentialInv'
  OBVIOUS
<1>1. ASSUME NEW r \in Requests, Serves(r), Remembers PROVE CredentialInv'
  BY <1>1, AsksGoesRightly, ReadsAccountGoesRightly, LooksUpGoesRightly, VerifiesGoesRightly,
    WorksGoesRightly DEF Serves, Authenticates, Works
<1> QED
  BY <1>1, DroppedGoesRightly, TickGoesRightly DEF Next

\* A request acts for an account its credentials were good for while it was being
\* authenticated, whatever the cache kept of earlier passwords and accounts.
THEOREM RequestsActRightfully == Spec => []ActsRightfully
<1>1. TableInv /\ CredentialInv => ActsRightfully
  BY DEF CredentialInv, Rightly, ActsRightfully
<1>2. Init => TableInv /\ CredentialInv
  BY TableInvInit, CredentialInvInit
<1>3. (TableInv /\ CredentialInv) /\ [Next]_vars => (TableInv /\ CredentialInv)'
  BY TableInvStep, CredentialInvStep
<1> QED
  BY <1>1, <1>2, <1>3, PTL DEF Spec

=============================================================================
