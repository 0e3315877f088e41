--------------------------- MODULE PlaylistOrder ---------------------------
(* What a playlist is to those who read it and to those who change it: a    *)
(* list in which no entry occurs twice, changed as if one request came after *)
(* the other.  A step may drop entries; it puts a new entry where somebody   *)
(* asked for one, or takes the order somebody asked for, of all that is left.*)
(* PlaylistItems implements it with rows that carry a position.              *)
EXTENDS Integers, Sequences, SequencesExt

CONSTANTS Entries, None

VARIABLES
    list,
    asked       \* what the requests ask for

OrderInit == ToSet(list) \subseteq Entries /\ IsInjective(list)

Precedes(l, e, f) == \E i, j \in DOMAIN l : i < j /\ l[i] = e /\ l[j] = f

\* The list becomes one of the entries of T, those of S in the order they had.
Becomes(T, S) ==
    /\ ToSet(list') = T /\ IsInjective(list')
    /\ \A e, f \in S : Precedes(list', e, f) <=> Precedes(list, e, f)

\* The entries outside S are dropped.
Drop(S) == Becomes(S, S)

\* Without a position the entry goes to the end.
Place(S, position) ==
    LET at == IF position = None THEN Len(list') ELSE position + 1
    IN  /\ at \in DOMAIN list'
        /\ list'[at] \in Entries \ ToSet(list)
        /\ Becomes(S \cup {list'[at]}, S)

Arrange(S, order) == ToSet(order) = S /\ list' = order

OrderNext ==
    /\ list' # list
    /\ UNCHANGED asked
    /\ \E S \in SUBSET ToSet(list) :
           \/ Drop(S)
           \/ \E r \in DOMAIN asked :
                  \/ asked[r].kind = "add" /\ Place(S, asked[r].position)
                  \/ asked[r].kind = "reorder" /\ Arrange(S, asked[r].order)

OrderSpec == OrderInit /\ [][OrderNext]_<<list, asked>>
=============================================================================
