-------------------------- MODULE MCLibraryScreens --------------------------
\* Instances of LibraryScreens for TLC.
EXTENDS LibraryScreens, TLC

CONSTANTS r1, r2, song, other

TwoItems == [i \in {1, 2} |-> [item |-> IF i = 1 THEN song ELSE other, position |-> i - 1]]

AddOf(item, position) == [kind |-> "add", item |-> item, position |-> position]
RemoveOf(i) == [kind |-> "remove", id |-> i]
ReorderOf(order) == [kind |-> "reorder", order |-> order]
Of(kinds) == {[kind |-> k] : k \in kinds}

Pairs(A, B) == {(r1 :> a @@ r2 :> b) : a \in A, b \in B}

\* What meets on one playlist, and on the rows of one account.
Items == {AddOf(song, None), AddOf(other, 0), RemoveOf(1), ReorderOf(<<2, 1>>)}
Overlaps ==
    Pairs(Items, Items)
        \cup Pairs({AddOf(song, 3)}, {RemoveOf(1)})
        \cup Pairs(Of({"delete"}), Items \cup Of({"list", "update"}))
        \cup Pairs(Of({"update"}), {RemoveOf(2)} \cup Of({"update"}))
        \cup Pairs(Of({"import"}), Items \cup Of({"list"}))
        \cup Pairs(Of({"create"}), {AddOf(song, None)} \cup Of({"listPage"}))
        \cup Pairs(Of({"toggle"}), Of({"favor", "unfavor", "homePage", "favoritesPage", "others"}))
        \cup Pairs(Of({"progress"}), Of({"progress", "unfavor", "homePage", "others"}))
        \cup Pairs(Of({"history"}), Of({"history", "import"}))
        \cup Pairs(Of({"import"}), Of({"progress", "toggle", "homePage", "favoritesPage"}))

Interchangeable == Permutations(Requests)
=============================================================================
