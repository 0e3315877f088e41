--------------------------- MODULE PlaylistItems ---------------------------
(***************************************************************************)
(* One playlist and its items in the database (src/src/storage.rs).  Each  *)
(* operation on the items is one transaction: it locks the row of the      *)
(* playlist, deletes the items that are no longer eligible, closes the     *)
(* gaps, makes its change and commits.  The catalog changes while it runs, *)
(* and a handler that is dropped rolls its transaction back.               *)
(***************************************************************************)
EXTENDS Integers, FiniteSets, Sequences, SequencesExt

CONSTANTS
    None,
    Requests,       \* requests of the accounts that see the playlist
    Cancellable,    \* those whose handler may be dropped
    Tracks,         \* catalog items
    MaxId           \* bound: ids of playlist items ever made

ASSUME PlaylistAssumption ==
    /\ Cancellable \subseteq Requests
    /\ None \notin Requests
    /\ MaxId \in Nat

VARIABLES
    eligible,   \* the catalog items a playlist may hold
    row,        \* playlists: how often the row was written, and whether it is there
    rows,       \* playlist_items: the item and the position of each id
    made,       \* ids that were made
    lock,       \* the request whose transaction holds the row of the playlist
    work,       \* the items as the open transaction has them
    phase,      \* where each request is
    op,         \* what it asks for
    answer      \* what it was told, and whether anything was written

itemVars == <<eligible, row, rows, made, lock, work>>
requestVars == <<phase, op, answer>>
playlistVars == <<itemVars, requestVars>>

-----------------------------------------------------------------------------
Ids == 1..MaxId
Unborn == [version |-> 0, there |-> FALSE]
Exists == row.there

NoRows == [i \in {} |-> None]

\* ORDER BY position, id.
Before(t, i, j) ==
    t[i].position < t[j].position \/ (t[i].position = t[j].position /\ i < j)

\* The items of S in their order.
Sorted(t, S) ==
    [n \in 1..Cardinality(S) |->
        CHOOSE i \in S : Cardinality({j \in S : Before(t, j, i)}) = n - 1]

Listing(t) == Sorted(t, DOMAIN t)

\* The items that are still eligible.
Remaining(t) == Sorted(t, {i \in DOMAIN t : t[i].item \in eligible})

\* cleanup_playlist_items_in_transaction deletes the others, and
\* normalize_playlist_item_positions_in_transaction closes the gaps.
Cleaned(t) ==
    LET order == Remaining(t)
    IN  [i \in ToSet(order) |->
            [item |-> t[i].item, position |-> (CHOOSE n \in DOMAIN order : order[n] = i) - 1]]

\* Mutant of Inserted: the item at the position is not moved.
InsertedOnTop(t, i, item, position) ==
    [j \in DOMAIN t \cup {i} |->
        IF j = i THEN [item |-> item, position |-> position]
        ELSE [t[j] EXCEPT !.position = IF @ > position THEN @ + 1 ELSE @]]

Inserted(t, i, item, position) ==
    [j \in DOMAIN t \cup {i} |->
        IF j = i THEN [item |-> item, position |-> position]
        ELSE [t[j] EXCEPT !.position = IF @ >= position THEN @ + 1 ELSE @]]

Removed(t, i) ==
    [j \in DOMAIN t \ {i} |->
        [t[j] EXCEPT !.position = IF @ > t[i].position THEN @ - 1 ELSE @]]

Reordered(t, order) ==
    [i \in DOMAIN t |->
        [t[i] EXCEPT !.position = (CHOOSE k \in DOMAIN order : order[k] = i) - 1]]

-----------------------------------------------------------------------------
\* What a request may ask of the items of the playlist; the ids of an order are
\* distinct (reorder_visible_playlist_items of state.rs).
ItemKinds == {"add", "remove", "reorder", "list"}

ItemRequests ==
    [kind : {"add"}, item : Tracks, position : Nat \cup {None}]
        \cup [kind : {"remove"}, id : Nat]
        \cup [kind : {"reorder"}, order : {ids \in Seq(Nat) : IsInjective(ids)}]

Goes(r, to) == phase' = [phase EXCEPT ![r] = to]
Answers(r, what) == answer' = [answer EXCEPT ![r] = what]

\* The handler returns without having announced anything.
Returns(r, what) == Goes(r, "done") /\ Answers(r, what)

\* Mutant of Locks: the row is read without FOR UPDATE.
LocksNothing(r) ==
    /\ phase[r] = "lock"
    /\ IF Exists THEN lock' = r /\ Goes(r, "clean") /\ UNCHANGED answer
       ELSE Returns(r, "not_found") /\ UNCHANGED lock
    /\ UNCHANGED <<eligible, row, rows, made, work, op>>

\* visible_playlist_for_update_in_transaction waits for the row.
Locks(r) ==
    /\ phase[r] = "lock"
    /\ lock = None
    /\ IF Exists THEN lock' = r /\ Goes(r, "clean") /\ UNCHANGED answer
       ELSE Returns(r, "not_found") /\ UNCHANGED lock
    /\ UNCHANGED <<eligible, row, rows, made, work, op>>

CleansUp(r) ==
    /\ phase[r] = "clean"
    /\ work' = Cleaned(rows)
    /\ Goes(r, "apply")
    /\ UNCHANGED <<eligible, row, rows, made, lock, op, answer>>

\* The transaction commits with nothing but the clean-up.
CommitsCleanUp ==
    /\ rows' = work
    /\ work' = NoRows
    /\ lock' = None
    /\ UNCHANGED <<eligible, row, made>>

\* The change is made, the playlist touched, the transaction committed; the
\* handler then announces it.
Commits(r, t) ==
    /\ rows' = t
    /\ row' = [row EXCEPT !.version = @ + 1]
    /\ work' = NoRows
    /\ lock' = None
    /\ Goes(r, "reread")
    /\ Answers(r, "changed")
    /\ UNCHANGED <<eligible, op>>

Refuses(r, why) ==
    /\ CommitsCleanUp
    /\ Returns(r, why)
    /\ UNCHANGED op

\* A position that is not sent is the end of the list.
Position(r) == IF op[r].position = None THEN Cardinality(DOMAIN work) ELSE op[r].position

Adds(r) ==
    /\ phase[r] = "apply" /\ op[r].kind = "add"
    /\ IF op[r].item \notin eligible THEN Refuses(r, "not_eligible")
       ELSE IF Position(r) > Cardinality(DOMAIN work) THEN Refuses(r, "invalid_position")
       ELSE /\ made < MaxId
            /\ made' = made + 1
            /\ Commits(r, Inserted(work, made + 1, op[r].item, Position(r)))

Removes(r) ==
    /\ phase[r] = "apply" /\ op[r].kind = "remove"
    /\ IF op[r].id \notin DOMAIN work THEN Refuses(r, "not_found")
       ELSE Commits(r, Removed(work, op[r].id)) /\ UNCHANGED made

Reorders(r) ==
    /\ phase[r] = "apply" /\ op[r].kind = "reorder"
    /\ IF ToSet(op[r].order) # DOMAIN work THEN Refuses(r, "mismatch")
       ELSE Commits(r, Reordered(work, op[r].order)) /\ UNCHANGED made

Lists(r) ==
    /\ phase[r] = "apply" /\ op[r].kind = "list"
    /\ CommitsCleanUp
    /\ Returns(r, "listed")
    /\ UNCHANGED op

\* The handler is dropped while its transaction is open: it is rolled back.
RollsBack(r) ==
    /\ r \in Cancellable
    /\ phase[r] \in {"lock", "clean", "apply"}
    /\ lock' = IF lock = r THEN None ELSE lock
    /\ work' = IF lock = r THEN NoRows ELSE work
    /\ Returns(r, "dropped")
    /\ UNCHANGED <<eligible, row, rows, made, op>>

-----------------------------------------------------------------------------
\* The row of the playlist: UPDATE and DELETE wait for those that hold it.
Creates(r) ==
    /\ phase[r] = "write" /\ op[r].kind = "create"
    /\ row = Unborn
    /\ row' = [version |-> 1, there |-> TRUE]
    /\ rows' = NoRows
    /\ Goes(r, "announce") /\ Answers(r, "changed")
    /\ UNCHANGED <<eligible, made, lock, work, op>>

Updates(r) ==
    /\ phase[r] = "write" /\ op[r].kind = "update"
    /\ lock = None
    /\ IF Exists THEN /\ row' = [row EXCEPT !.version = @ + 1]
                      /\ Goes(r, "announce") /\ Answers(r, "changed")
       ELSE Returns(r, "not_found") /\ UNCHANGED row
    /\ UNCHANGED <<eligible, rows, made, lock, work, op>>

\* The items go with their playlist (ON DELETE CASCADE).
Deletes(r) ==
    /\ phase[r] = "write" /\ op[r].kind = "delete"
    /\ lock = None
    /\ IF Exists THEN /\ row' = [version |-> row.version + 1, there |-> FALSE] /\ rows' = NoRows
                      /\ Goes(r, "announce") /\ Answers(r, "changed")
       ELSE Returns(r, "not_found") /\ UNCHANGED <<row, rows>>
    /\ UNCHANGED <<eligible, made, lock, work, op>>

\* An import publishes, quarantines or regroups what the playlist may hold.
CatalogChanges(item) ==
    /\ eligible' = IF item \in eligible THEN eligible \ {item} ELSE eligible \cup {item}
    /\ UNCHANGED <<row, rows, made, lock, work>>

Transaction(r) ==
    \/ Locks(r) \/ CleansUp(r) \/ Adds(r) \/ Removes(r) \/ Reorders(r) \/ Lists(r)
    \/ Creates(r) \/ Updates(r) \/ Deletes(r)

-----------------------------------------------------------------------------
\* The rows implement the list of PlaylistOrder, each transaction one step of it:
\* an item lands where it was asked for among those there are by then, an order is
\* taken only of exactly the items there are, and what was removed does not return.
Order == INSTANCE PlaylistOrder WITH Entries <- Ids, list <- Listing(rows), asked <- op
OrderedList == Order!OrderSpec
=============================================================================
