------------------------ MODULE LibraryScreensProofs ------------------------
(***************************************************************************)
(* The rows of a playlist implement an ordered list, an item that was      *)
(* added is not lost, a page holds what its revision covers, and once all  *)
(* is quiet the screens show what the database holds: for any requests,    *)
(* tracks and library, any capacity of the channel.                        *)
(***************************************************************************)
EXTENDS LibraryScreens, FiniteSetTheorems, SequenceTheorems, TLAPS

-----------------------------------------------------------------------------
(* Listings.                                                               *)

Item == [item : Tracks, position : Nat]

(* Rows whose ids are among the first n. *)
RowsOf(n) == UNION {[S -> Item] : S \in SUBSET (1..n)}

(* The place of an item among those of S. *)
Lower(t, S, i) == {j \in S : Before(t, j, i)}
Rank(t, S, i) == Cardinality(Lower(t, S, i))

LEMMA RowsAreFunctions ==
  ASSUME NEW n \in Nat, NEW t \in RowsOf(n)
  PROVE  /\ t \in [DOMAIN t -> Item]
         /\ DOMAIN t \subseteq 1..n
         /\ \A i \in DOMAIN t : /\ i \in Nat /\ t[i] \in Item
                                /\ t[i].item \in Tracks /\ t[i].position \in Nat
<1>1. PICK S \in SUBSET (1..n) : t \in [S -> Item]
  BY DEF RowsOf
<1>2. DOMAIN t = S
  BY <1>1
<1>3. \A i \in S : t[i] \in Item /\ i \in Nat
  BY <1>1
<1>4. QED
  BY <1>1, <1>2, <1>3 DEF Item

LEMMA RowsAreFinite ==
  ASSUME NEW n \in Nat, NEW t \in RowsOf(n), NEW S \in SUBSET DOMAIN t
  PROVE  IsFiniteSet(S) /\ Cardinality(S) \in Nat
<1>1. IsFiniteSet(1..n)
  BY FS_Interval
<1>2. S \in SUBSET (1..n)
  BY RowsAreFunctions
<1>3. IsFiniteSet(S)
  BY <1>1, <1>2, FS_Subset
<1>4. QED
  BY <1>3, FS_CardinalityType

(* The order of the items is strict and total. *)
LEMMA OrderIsTotal ==
  ASSUME NEW n \in Nat, NEW t \in RowsOf(n)
  PROVE  /\ \A i \in DOMAIN t : ~Before(t, i, i)
         /\ \A i, j, k \in DOMAIN t : Before(t, i, j) /\ Before(t, j, k) => Before(t, i, k)
         /\ \A i, j \in DOMAIN t : i = j \/ Before(t, i, j) \/ Before(t, j, i)
<1>1. \A i \in DOMAIN t : i \in Nat /\ t[i].position \in Nat
  BY RowsAreFunctions
<1>2. \A i \in DOMAIN t : ~Before(t, i, i)
  BY <1>1 DEF Before
<1>3. \A i, j, k \in DOMAIN t : Before(t, i, j) /\ Before(t, j, k) => Before(t, i, k)
  BY <1>1 DEF Before
<1>4. \A i, j \in DOMAIN t : i = j \/ Before(t, i, j) \/ Before(t, j, i)
  BY <1>1 DEF Before
<1>5. QED
  BY <1>2, <1>3, <1>4

(* An item that comes earlier has the lower rank, and no two have the same. *)
LEMMA RankFollowsOrder ==
  ASSUME NEW n \in Nat, NEW t \in RowsOf(n), NEW S \in SUBSET DOMAIN t,
         NEW i \in S, NEW j \in S
  PROVE  /\ Rank(t, S, i) \in 0..(Cardinality(S) - 1)
         /\ Before(t, i, j) <=> Rank(t, S, i) < Rank(t, S, j)
         /\ i = j <=> Rank(t, S, i) = Rank(t, S, j)
<1>1. \A k \in S : /\ IsFiniteSet(Lower(t, S, k))
                   /\ Rank(t, S, k) \in Nat
                   /\ Rank(t, S, k) < Cardinality(S)
  <2> TAKE k \in S
  <2>1. IsFiniteSet(S) /\ Cardinality(S) \in Nat
    BY RowsAreFinite
  <2>2. Lower(t, S, k) \in SUBSET S
    BY DEF Lower
  <2>3. Lower(t, S, k) # S
    BY OrderIsTotal DEF Lower
  <2>4. /\ IsFiniteSet(Lower(t, S, k))
        /\ Cardinality(Lower(t, S, k)) <= Cardinality(S)
        /\ Cardinality(Lower(t, S, k)) # Cardinality(S)
    BY <2>1, <2>2, <2>3, FS_Subset
  <2>5. Cardinality(Lower(t, S, k)) \in Nat
    BY <2>4, FS_CardinalityType
  <2>6. QED
    BY <2>1, <2>4, <2>5 DEF Rank
<1>2. \A k, l \in S : Before(t, k, l) => Rank(t, S, k) < Rank(t, S, l)
  <2> TAKE k, l \in S
  <2> HAVE Before(t, k, l)
  <2>1. Lower(t, S, k) \in SUBSET Lower(t, S, l)
    BY OrderIsTotal DEF Lower
  <2>2. k \in Lower(t, S, l) /\ k \notin Lower(t, S, k)
    BY OrderIsTotal DEF Lower
  <2>3. Cardinality(Lower(t, S, k)) <= Cardinality(Lower(t, S, l))
    BY <1>1, <2>1, FS_Subset
  <2>4. Cardinality(Lower(t, S, k)) # Cardinality(Lower(t, S, l))
    BY <1>1, <2>1, <2>2, FS_Subset
  <2>5. QED
    BY <1>1, <2>3, <2>4 DEF Rank
<1>3. Rank(t, S, i) \in 0..(Cardinality(S) - 1)
  BY <1>1, RowsAreFinite
<1>4. i = j \/ Before(t, i, j) \/ Before(t, j, i)
  BY OrderIsTotal
<1>5. QED
  BY <1>1, <1>2, <1>3, <1>4, OrderIsTotal

(* Every rank is that of an item. *)
LEMMA RanksAreTaken ==
  ASSUME NEW n \in Nat, NEW t \in RowsOf(n), NEW S \in SUBSET DOMAIN t,
         NEW m \in 0..(Cardinality(S) - 1)
  PROVE  \E i \in S : Rank(t, S, i) = m
<1> DEFINE T == 0..(Cardinality(S) - 1)
           f == [i \in S |-> Rank(t, S, i)]
<1>1. IsFiniteSet(S) /\ Cardinality(S) \in Nat
  BY RowsAreFinite
<1>2. IsFiniteSet(T) /\ Cardinality(T) = Cardinality(S)
  BY <1>1, FS_Interval
<1>3. f \in Injection(S, T)
  BY RankFollowsOrder DEF Injection, IsInjective
<1>4. f \in Surjection(S, T)
  BY <1>2, <1>3, FS_Injection
<1>5. QED
  BY <1>4 DEF Surjection

(* A listing names every item once, in their order. *)
LEMMA SortedFits ==
  ASSUME NEW n \in Nat, NEW t \in RowsOf(n), NEW S \in SUBSET DOMAIN t
  PROVE  /\ Sorted(t, S) \in [1..Cardinality(S) -> S]
         /\ Sorted(t, S) \in Seq(S) /\ Len(Sorted(t, S)) = Cardinality(S)
         /\ \A m \in 1..Cardinality(S) : Rank(t, S, Sorted(t, S)[m]) = m - 1
         /\ \A i \in S : Rank(t, S, i) + 1 \in 1..Cardinality(S)
                         /\ Sorted(t, S)[Rank(t, S, i) + 1] = i
         /\ ToSet(Sorted(t, S)) = S
         /\ IsInjective(Sorted(t, S))
<1> DEFINE s == Sorted(t, S)
           At(m) == CHOOSE i \in S : Cardinality({j \in S : Before(t, j, i)}) = m - 1
<1>1. IsFiniteSet(S) /\ Cardinality(S) \in Nat
  BY RowsAreFinite
<1>2. \A m \in 1..Cardinality(S) : At(m) \in S /\ Rank(t, S, At(m)) = m - 1
  <2> TAKE m \in 1..Cardinality(S)
  <2>1. m - 1 \in 0..(Cardinality(S) - 1)
    BY <1>1
  <2>2. PICK i \in S : Rank(t, S, i) = m - 1
    BY <2>1, RanksAreTaken
  <2>3. \E k \in S : Cardinality({j \in S : Before(t, j, k)}) = m - 1
    BY <2>2 DEF Rank, Lower
  <2>4. QED
    BY <2>3 DEF Rank, Lower
<1>3. s = [m \in 1..Cardinality(S) |-> At(m)]
  BY DEF Sorted
<1> HIDE DEF s, At
<1>4. s \in [1..Cardinality(S) -> S]
  BY <1>2, <1>3
<1>5. s \in Seq(S) /\ Len(s) = Cardinality(S)
  BY <1>1, <1>4, SeqDef
<1>6. \A m \in 1..Cardinality(S) : Rank(t, S, s[m]) = m - 1
  BY <1>2, <1>3
<1>7. \A i \in S : Rank(t, S, i) + 1 \in 1..Cardinality(S) /\ s[Rank(t, S, i) + 1] = i
  <2> TAKE i \in S
  <2>1. Rank(t, S, i) \in 0..(Cardinality(S) - 1)
    BY RankFollowsOrder
  <2>2. Rank(t, S, i) + 1 \in 1..Cardinality(S)
    BY <2>1, <1>1
  <2>3. s[Rank(t, S, i) + 1] \in S /\ Rank(t, S, s[Rank(t, S, i) + 1]) = Rank(t, S, i)
    BY <2>1, <2>2, <1>4, <1>6
  <2>4. QED
    BY <2>2, <2>3, RankFollowsOrder
<1>8. ToSet(s) = S
  BY <1>4, <1>7 DEF ToSet
<1>9. IsInjective(s)
  <2> SUFFICES ASSUME NEW a \in 1..Cardinality(S), NEW b \in 1..Cardinality(S), s[a] = s[b]
               PROVE  a = b
    BY <1>4 DEF IsInjective
  <2>1. QED
    BY <1>1, <1>6
<1>10. QED
  BY <1>4, <1>5, <1>6, <1>7, <1>8, <1>9 DEF s

(* Rows without gaps: each position is the place of its item. *)
Gapless(t) == \A i \in DOMAIN t : t[i].position = Rank(t, DOMAIN t, i)

(* The order of the items of S is the same in both. *)
SameOrder(t, u, S) == \A i, j \in S : Before(t, i, j) <=> Before(u, i, j)

Eligible(t) == {i \in DOMAIN t : t[i].item \in eligible}

(* The clean-up keeps the eligible items in their order and closes the gaps. *)
LEMMA CleanedFits ==
  ASSUME NEW n \in Nat, NEW t \in RowsOf(n)
  PROVE  /\ Cleaned(t) \in RowsOf(n)
         /\ DOMAIN Cleaned(t) = Eligible(t)
         /\ Eligible(t) \in SUBSET DOMAIN t
         /\ SameOrder(t, Cleaned(t), Eligible(t))
         /\ Gapless(Cleaned(t))
         /\ Remaining(t) \in Seq(Nat)
<1> DEFINE S == Eligible(t)
           s == Sorted(t, S)
           c == Cleaned(t)
<1>1. S \in SUBSET DOMAIN t /\ DOMAIN t \subseteq 1..n /\ Remaining(t) = s
  BY RowsAreFunctions DEF Eligible, Remaining
<1>2. /\ s \in [1..Cardinality(S) -> S] /\ s \in Seq(S) /\ ToSet(s) = S
      /\ \A m \in 1..Cardinality(S) : Rank(t, S, s[m]) = m - 1
      /\ \A i \in S : Rank(t, S, i) + 1 \in 1..Cardinality(S) /\ s[Rank(t, S, i) + 1] = i
  BY <1>1, SortedFits
<1>3. Cardinality(S) \in Nat
  BY <1>1, RowsAreFinite
<1>4. c = [i \in S |-> [item |-> t[i].item,
                        position |-> (CHOOSE m \in DOMAIN s : s[m] = i) - 1]]
  BY <1>1, <1>2 DEF Cleaned
<1> HIDE DEF S, s, c
<1>5. \A i \in S : (CHOOSE m \in DOMAIN s : s[m] = i) - 1 = Rank(t, S, i)
  <2> TAKE i \in S
  <2>1. \E m \in DOMAIN s : s[m] = i
    BY <1>2
  <2>2. PICK m \in DOMAIN s : m = CHOOSE k \in DOMAIN s : s[k] = i
    BY <2>1
  <2>3. s[m] = i /\ m \in 1..Cardinality(S)
    BY <2>1, <2>2, <1>2
  <2>4. Rank(t, S, i) = m - 1
    BY <2>3, <1>2
  <2>5. QED
    BY <2>2, <2>4
<1>6. \A i \in S : c[i] = [item |-> t[i].item, position |-> Rank(t, S, i)]
  BY <1>4, <1>5
<1>7. \A i \in S : Rank(t, S, i) \in Nat
  BY <1>1, <1>3, RankFollowsOrder
<1>8. DOMAIN c = S
  BY <1>4
<1>9. c \in [S -> Item]
  <2>1. ASSUME NEW i \in S PROVE c[i] \in Item
    <3>1. t[i].item \in Tracks
      BY <1>1, RowsAreFunctions
    <3>2. Rank(t, S, i) \in Nat
      BY <1>7
    <3>3. c[i] = [item |-> t[i].item, position |-> Rank(t, S, i)]
      BY <1>6
    <3>4. [item |-> t[i].item, position |-> Rank(t, S, i)] \in Item
      BY <3>1, <3>2 DEF Item
    <3>5. QED
      BY <3>3, <3>4
  <2>2. c = [i \in S |-> c[i]]
    BY <1>4
  <2>3. QED
    BY <2>1, <2>2
<1>10. c \in RowsOf(n)
  BY <1>1, <1>9 DEF RowsOf
<1>11. \A i, j \in S : Before(c, i, j) <=> Before(t, i, j)
  <2> TAKE i, j \in S
  <2>0. /\ c[i] = [item |-> t[i].item, position |-> Rank(t, S, i)]
        /\ c[j] = [item |-> t[j].item, position |-> Rank(t, S, j)]
    BY <1>6
  <2>1. c[i].position = Rank(t, S, i) /\ c[j].position = Rank(t, S, j)
    BY <2>0
  <2>2. Before(t, i, j) <=> Rank(t, S, i) < Rank(t, S, j)
    BY <1>1, RankFollowsOrder
  <2>3. i = j <=> Rank(t, S, i) = Rank(t, S, j)
    BY <1>1, RankFollowsOrder
  <2>4. i \in Nat /\ j \in Nat /\ Rank(t, S, i) \in Nat /\ Rank(t, S, j) \in Nat
    BY <1>1, <1>7
  <2>5. QED
    BY <2>1, <2>2, <2>3, <2>4 DEF Before
<1>12. \A i \in S : Rank(c, S, i) = Rank(t, S, i)
  <2> TAKE i \in S
  <2>1. Lower(c, S, i) = Lower(t, S, i)
    BY <1>11 DEF Lower
  <2>2. QED
    BY <2>1 DEF Rank
<1>13. Gapless(c)
  BY <1>6, <1>8, <1>12 DEF Gapless
<1>14. SameOrder(t, c, S)
  BY <1>11 DEF SameOrder
<1>15. s \in Seq(Nat)
  BY <1>1, <1>2, SeqDef
<1>16. QED
  BY <1>1, <1>8, <1>10, <1>13, <1>14, <1>15 DEF S, s, c

(* A listing puts an item before another one exactly if it comes before it. *)
LEMMA ListingPrecedes ==
  ASSUME NEW n \in Nat, NEW t \in RowsOf(n), NEW e \in DOMAIN t, NEW f \in DOMAIN t
  PROVE  Order!Precedes(Listing(t), e, f) <=> Before(t, e, f)
<1> DEFINE D == DOMAIN t
           s == Listing(t)
<1>1. /\ s \in [1..Cardinality(D) -> D]
      /\ \A m \in 1..Cardinality(D) : Rank(t, D, s[m]) = m - 1
      /\ \A i \in D : Rank(t, D, i) + 1 \in 1..Cardinality(D) /\ s[Rank(t, D, i) + 1] = i
  BY SortedFits DEF Listing
<1>2. Cardinality(D) \in Nat
  BY RowsAreFinite
<1>3. Before(t, e, f) <=> Rank(t, D, e) < Rank(t, D, f)
  BY RankFollowsOrder
<1>4. Rank(t, D, e) \in Int /\ Rank(t, D, f) \in Int
  BY <1>2, RankFollowsOrder
<1> HIDE DEF D, s
<1>5. ASSUME NEW i \in DOMAIN s, NEW j \in DOMAIN s, i < j, s[i] = e, s[j] = f
      PROVE  Before(t, e, f)
  <2>1. i \in 1..Cardinality(D) /\ j \in 1..Cardinality(D)
    BY <1>1, <1>5
  <2>2. Rank(t, D, e) = i - 1 /\ Rank(t, D, f) = j - 1
    BY <1>1, <1>5, <2>1
  <2>3. QED
    BY <1>3, <1>5, <2>1, <2>2
<1>6. ASSUME Before(t, e, f)
      PROVE  \E i, j \in DOMAIN s : i < j /\ s[i] = e /\ s[j] = f
  <2>1. e \in D /\ f \in D
    BY DEF D
  <2>2. Rank(t, D, e) + 1 \in DOMAIN s /\ Rank(t, D, f) + 1 \in DOMAIN s
    BY <1>1, <2>1
  <2>3. Rank(t, D, e) + 1 < Rank(t, D, f) + 1
    BY <1>3, <1>4, <1>6
  <2>4. QED
    BY <1>1, <2>1, <2>2, <2>3
<1>7. QED
  BY <1>5, <1>6 DEF Order!Precedes, s

(* What an item is put at is where it is listed. *)
LEMMA InsertedFits ==
  ASSUME NEW n \in Nat, NEW t \in RowsOf(n), Gapless(t), NEW item \in Tracks,
         NEW p \in 0..Cardinality(DOMAIN t),
         NEW e, e = n + 1, NEW u, u = Inserted(t, e, item, p)
  PROVE  /\ u \in RowsOf(n + 1)
         /\ DOMAIN u = DOMAIN t \cup {e}
         /\ SameOrder(t, u, DOMAIN t)
         /\ Cardinality(DOMAIN u) = Cardinality(DOMAIN t) + 1
         /\ Listing(u)[p + 1] = e
<1> DEFINE D == DOMAIN t
           Moved(i) == [item |-> t[i].item,
                        position |-> IF t[i].position >= p THEN t[i].position + 1
                                     ELSE t[i].position]
<1>1. D \in SUBSET (1..n) /\ IsFiniteSet(D) /\ Cardinality(D) \in Nat
  BY RowsAreFunctions, RowsAreFinite
<1>2. /\ e \notin D /\ e \in Nat /\ D \cup {e} \in SUBSET (1..(n + 1))
      /\ \A i \in D : i < e
  BY <1>1
<1>3. \A i \in D : /\ i \in Nat /\ t[i] = [item |-> t[i].item, position |-> t[i].position]
                   /\ t[i].item \in Tracks /\ t[i].position \in Nat
  BY RowsAreFunctions DEF Item
<1>4. u = [i \in D \cup {e} |-> IF i = e THEN [item |-> item, position |-> p] ELSE Moved(i)]
  <2>1. \A i \in D : [t[i] EXCEPT !.position = IF @ >= p THEN @ + 1 ELSE @] = Moved(i)
    BY <1>3
  <2>2. QED
    BY <2>1 DEF Inserted
<1>5. DOMAIN u = D \cup {e}
  BY <1>4
<1>6. /\ u[e] = [item |-> item, position |-> p]
      /\ u[e].position = p
      /\ \A i \in D : u[i] = Moved(i)
  BY <1>2, <1>4
<1>7. u \in RowsOf(n + 1)
  <2>1. \A i \in D : u[i] \in Item
    <3> TAKE i \in D
    <3>1. Moved(i) \in Item
      BY <1>3 DEF Item
    <3>2. QED
      BY <1>6, <3>1
  <2>2. u[e] \in Item
    BY <1>1, <1>6 DEF Item
  <2>3. u = [i \in D \cup {e} |-> u[i]]
    BY <1>4
  <2>4. u \in [D \cup {e} -> Item]
    BY <2>1, <2>2, <2>3
  <2>5. QED
    BY <1>2, <2>4 DEF RowsOf
<1>8. \A i, j \in D : Before(t, i, j) <=> Before(u, i, j)
  <2> TAKE i, j \in D
  <2>0. u[i] = Moved(i) /\ u[j] = Moved(j)
    BY <1>6
  <2>1. /\ u[i].position = IF t[i].position >= p THEN t[i].position + 1 ELSE t[i].position
        /\ u[j].position = IF t[j].position >= p THEN t[j].position + 1 ELSE t[j].position
    BY <2>0
  <2>2. p \in Nat /\ t[i].position \in Nat /\ t[j].position \in Nat
    BY <1>1, <1>3
  <2>3. QED
    BY <2>1, <2>2 DEF Before
<1>9. \A i \in D : Before(u, i, e) <=> t[i].position < p
  <2> TAKE i \in D
  <2>0. u[i] = Moved(i)
    BY <1>6
  <2>1. /\ u[i].position = IF t[i].position >= p THEN t[i].position + 1 ELSE t[i].position
        /\ u[e].position = p
    BY <1>6, <2>0
  <2>2. p \in Nat /\ t[i].position \in Nat /\ i < e /\ i \in Nat /\ e \in Nat
    BY <1>1, <1>2, <1>3
  <2>3. QED
    BY <2>1, <2>2 DEF Before
<1>10. ~Before(u, e, e)
  BY <1>5, <1>7, <1>2, OrderIsTotal
<1>11. Lower(u, D \cup {e}, e) = {i \in D : t[i].position < p}
  BY <1>9, <1>10 DEF Lower
<1>12. Cardinality({i \in D : t[i].position < p}) = p
  <2>1. CASE p = Cardinality(D)
    <3>1. \A i \in D : t[i].position < p
      BY <1>1, <2>1, RankFollowsOrder DEF Gapless
    <3>2. {i \in D : t[i].position < p} = D
      BY <3>1
    <3>3. QED
      BY <2>1, <3>2
  <2>2. CASE p # Cardinality(D)
    <3>1. p \in 0..(Cardinality(D) - 1)
      BY <1>1, <2>2
    <3>2. PICK k \in D : Rank(t, D, k) = p
      BY <3>1, RanksAreTaken
    <3>3. \A i \in D : t[i].position < p <=> Before(t, i, k)
      <4> TAKE i \in D
      <4>1. t[i].position = Rank(t, D, i)
        BY DEF Gapless
      <4>2. Before(t, i, k) <=> Rank(t, D, i) < Rank(t, D, k)
        BY RankFollowsOrder
      <4>3. QED
        BY <3>2, <4>1, <4>2
    <3>4. {i \in D : t[i].position < p} = Lower(t, D, k)
      BY <3>3 DEF Lower
    <3>5. QED
      BY <3>2, <3>4 DEF Rank
  <2>3. QED
    BY <2>1, <2>2
<1>13. Rank(u, D \cup {e}, e) = p
  BY <1>11, <1>12 DEF Rank
<1>14. Listing(u)[p + 1] = e
  <2>1. e \in DOMAIN u /\ Rank(u, DOMAIN u, e) = p
    BY <1>5, <1>13
  <2>2. n + 1 \in Nat
    OBVIOUS
  <2>3. Sorted(u, DOMAIN u)[Rank(u, DOMAIN u, e) + 1] = e
    BY <2>1, <2>2, <1>7, SortedFits
  <2>4. QED
    BY <2>1, <2>3 DEF Listing
<1>15. Cardinality(D \cup {e}) = Cardinality(D) + 1
  BY <1>1, <1>2, FS_AddElement
<1>16. QED
  BY <1>2, <1>5, <1>7, <1>8, <1>14, <1>15 DEF SameOrder

(* What remains after a removal keeps its order. *)
LEMMA RemovedFits ==
  ASSUME NEW n \in Nat, NEW t \in RowsOf(n), Gapless(t), NEW e \in DOMAIN t
  PROVE  /\ Removed(t, e) \in RowsOf(n)
         /\ DOMAIN Removed(t, e) = DOMAIN t \ {e}
         /\ SameOrder(t, Removed(t, e), DOMAIN t \ {e})
<1> DEFINE D == DOMAIN t
           u == Removed(t, e)
           Moved(i) == [item |-> t[i].item,
                        position |-> IF t[i].position > t[e].position THEN t[i].position - 1
                                     ELSE t[i].position]
<1>1. D \ {e} \in SUBSET (1..n)
  BY RowsAreFunctions
<1>2. \A i \in D : /\ i \in Nat /\ t[i] = [item |-> t[i].item, position |-> t[i].position]
                   /\ t[i].item \in Tracks /\ t[i].position \in Nat
  BY RowsAreFunctions DEF Item
<1>3. u = [i \in D \ {e} |-> Moved(i)]
  <2>1. \A i \in D : [t[i] EXCEPT !.position = IF @ > t[e].position THEN @ - 1 ELSE @] = Moved(i)
    BY <1>2
  <2>2. QED
    BY <2>1 DEF Removed
<1>4. DOMAIN u = D \ {e} /\ \A i \in D \ {e} : u[i] = Moved(i)
  BY <1>3
<1> HIDE DEF u
<1>5. u \in RowsOf(n)
  <2>1. ASSUME NEW i \in D \ {e} PROVE u[i] \in Item
    <3>1. t[i].item \in Tracks /\ t[i].position \in Nat /\ t[e].position \in Nat
      BY <1>2
    <3>2. Moved(i) \in Item
      BY <3>1 DEF Item
    <3>3. QED
      BY <1>4, <3>2
  <2>2. u = [i \in D \ {e} |-> u[i]]
    BY <1>3
  <2>3. u \in [D \ {e} -> Item]
    BY <2>1, <2>2
  <2>4. QED
    BY <1>1, <2>3 DEF RowsOf
<1>6. \A i \in D \ {e} : t[i].position # t[e].position
  <2> TAKE i \in D \ {e}
  <2>1. t[i].position = Rank(t, D, i) /\ t[e].position = Rank(t, D, e)
    BY DEF Gapless
  <2>2. Rank(t, D, i) # Rank(t, D, e)
    BY RankFollowsOrder
  <2>3. QED
    BY <2>1, <2>2
<1>7. \A i, j \in D \ {e} : Before(t, i, j) <=> Before(u, i, j)
  <2> TAKE i, j \in D \ {e}
  <2>1. /\ u[i].position = IF t[i].position > t[e].position THEN t[i].position - 1
                           ELSE t[i].position
        /\ u[j].position = IF t[j].position > t[e].position THEN t[j].position - 1
                           ELSE t[j].position
    BY <1>4
  <2>2. t[e].position \in Nat /\ t[i].position \in Nat /\ t[j].position \in Nat
    BY <1>2
  <2>3. t[i].position # t[e].position /\ t[j].position # t[e].position
    BY <1>6
  <2>4. QED
    BY <2>1, <2>2, <2>3 DEF Before
<1>8. QED
  BY <1>4, <1>5, <1>7 DEF SameOrder, u

(* An order of exactly the items there are becomes their listing. *)
LEMMA ReorderedFits ==
  ASSUME NEW n \in Nat, NEW t \in RowsOf(n),
         NEW order \in Seq(Nat), IsInjective(order), ToSet(order) = DOMAIN t
  PROVE  /\ Reordered(t, order) \in RowsOf(n)
         /\ DOMAIN Reordered(t, order) = DOMAIN t
         /\ Listing(Reordered(t, order)) = order
<1> DEFINE D == DOMAIN t
           u == Reordered(t, order)
           At(i) == CHOOSE k \in DOMAIN order : order[k] = i
<1>1. D \in SUBSET (1..n) /\ IsFiniteSet(D) /\ Cardinality(D) \in Nat
  BY RowsAreFunctions, RowsAreFinite
<1>2. \A i \in D : /\ i \in Nat /\ t[i] = [item |-> t[i].item, position |-> t[i].position]
                   /\ t[i].item \in Tracks
  BY RowsAreFunctions DEF Item
<1>3. Len(order) \in Nat /\ DOMAIN order = 1..Len(order)
  BY LenProperties
<1>4. \A i \in D : At(i) \in 1..Len(order) /\ order[At(i)] = i
  BY <1>3 DEF ToSet
<1>5. \A k \in 1..Len(order) : order[k] \in D /\ At(order[k]) = k
  <2> TAKE k \in 1..Len(order)
  <2>1. order[k] \in D
    BY <1>3 DEF ToSet
  <2>2. order[At(order[k])] = order[k] /\ At(order[k]) \in DOMAIN order /\ k \in DOMAIN order
    BY <2>1, <1>3, <1>4
  <2> HIDE DEF At
  <2>3. QED
    BY <2>1, <2>2 DEF IsInjective
<1>6. u = [i \in D |-> [item |-> t[i].item, position |-> At(i) - 1]]
  <2>1. \A i \in D : [t[i] EXCEPT !.position = At(i) - 1]
                     = [item |-> t[i].item, position |-> At(i) - 1]
    BY <1>2
  <2>2. u = [i \in D |-> [t[i] EXCEPT !.position = At(i) - 1]]
    BY DEF Reordered
  <2> HIDE DEF At, u
  <2>3. QED
    BY <2>1, <2>2
<1> HIDE DEF At, u
<1>7. DOMAIN u = D /\ \A i \in D : u[i] = [item |-> t[i].item, position |-> At(i) - 1]
  BY <1>6
<1>8. u \in RowsOf(n)
  <2>1. ASSUME NEW i \in D PROVE u[i] \in Item
    <3>1. t[i].item \in Tracks /\ At(i) - 1 \in Nat
      BY <1>2, <1>3, <1>4
    <3>2. QED
      BY <1>7, <3>1 DEF Item
  <2>2. u = [i \in D |-> u[i]]
    BY <1>6
  <2>3. u \in [D -> Item]
    BY <2>1, <2>2
  <2>4. QED
    BY <1>1, <2>3 DEF RowsOf
<1>9. \A i, j \in D : Before(u, i, j) <=> At(i) < At(j)
  <2> TAKE i, j \in D
  <2>1. u[i].position = At(i) - 1 /\ u[j].position = At(j) - 1
    BY <1>7
  <2>2. At(i) \in 1..Len(order) /\ At(j) \in 1..Len(order) /\ i \in Nat /\ j \in Nat
    BY <1>2, <1>4
  <2>3. At(i) = At(j) => i = j
    BY <1>4
  <2>4. QED
    BY <2>1, <2>2, <2>3, <1>3 DEF Before
<1>10. \A k \in 1..Len(order) : Rank(u, D, order[k]) = k - 1
  <2> TAKE k \in 1..Len(order)
  <2> DEFINE I == 1..(k - 1)
             L == Lower(u, D, order[k])
             f == [m \in I |-> order[m]]
  <2>1. k \in Nat /\ I \subseteq 1..Len(order) /\ order[k] \in D /\ At(order[k]) = k
    BY <1>3, <1>5
  <2>2. \A m \in I : order[m] \in L
    <3> TAKE m \in I
    <3>1. m \in 1..Len(order) /\ m < k
      BY <2>1
    <3>2. order[m] \in D /\ At(order[m]) < At(order[k])
      BY <1>5, <2>1, <3>1
    <3>3. QED
      BY <1>9, <2>1, <3>2 DEF Lower
  <2>3. \A i \in L : \E m \in I : order[m] = i
    <3> TAKE i \in L
    <3>1. i \in D /\ At(i) < k
      BY <1>9, <2>1 DEF Lower
    <3>2. At(i) \in I /\ order[At(i)] = i
      BY <1>3, <1>4, <2>1, <3>1
    <3>3. QED
      BY <3>2
  <2>4. \A a, b \in I : order[a] = order[b] => a = b
    BY <1>3, <2>1 DEF IsInjective
  <2> HIDE DEF I, L
  <2>5. f \in Bijection(I, L)
    <3>1. f \in [I -> L]
      BY <2>2
    <3>2. f \in Injection(I, L)
      BY <3>1, <2>4 DEF Injection, IsInjective
    <3>3. f \in Surjection(I, L)
      BY <3>1, <2>3 DEF Surjection
    <3>4. QED
      BY <3>2, <3>3 DEF Bijection
  <2>6. k - 1 \in Nat
    BY <2>1
  <2>7. Cardinality(L) = k - 1
    BY <2>5, <2>6, FS_CountingElements DEF ExistsBijection, I
  <2>8. QED
    BY <2>7 DEF L, Rank
<1>11. Cardinality(D) = Len(order)
  <2> DEFINE I == 1..Len(order)
  <2>1. order \in [I -> D]
    <3>1. order = [k \in I |-> order[k]]
      BY <1>3
    <3>2. QED
      BY <1>5, <3>1
  <2>2. order \in Injection(I, D)
    BY <2>1 DEF Injection
  <2>3. order \in Surjection(I, D)
    BY <2>1, <1>4 DEF Surjection
  <2>4. order \in Bijection(I, D)
    BY <2>2, <2>3 DEF Bijection
  <2>5. QED
    BY <2>4, <1>3, FS_CountingElements DEF ExistsBijection
<1> DEFINE s == Listing(u)
<1>12. /\ s \in [1..Cardinality(D) -> D]
       /\ \A i \in D : s[Rank(u, D, i) + 1] = i
  BY <1>7, <1>8, SortedFits DEF Listing
<1> HIDE DEF s
<1>13. \A k \in 1..Len(order) : s[k] = order[k]
  <2> TAKE k \in 1..Len(order)
  <2>1. order[k] \in D /\ Rank(u, D, order[k]) = k - 1
    BY <1>5, <1>10
  <2>2. s[Rank(u, D, order[k]) + 1] = order[k]
    BY <1>12, <2>1
  <2>3. Rank(u, D, order[k]) + 1 = k
    BY <1>3, <2>1
  <2>4. QED
    BY <2>2, <2>3
<1>14. s = order
  <2>1. s = [k \in 1..Len(order) |-> s[k]]
    BY <1>11, <1>12
  <2>2. order = [k \in 1..Len(order) |-> order[k]]
    BY <1>3
  <2>3. [k \in 1..Len(order) |-> s[k]] = [k \in 1..Len(order) |-> order[k]]
    BY <1>13
  <2>4. QED
    BY <2>1, <2>2, <2>3
<1>15. QED
  BY <1>7, <1>8, <1>14 DEF s, u

-----------------------------------------------------------------------------
(* The steps of the ordered list.                                          *)

(* A listing holds the ids of the rows, each once. *)
LEMMA ListingFits ==
  ASSUME NEW n \in Nat, NEW t \in RowsOf(n)
  PROVE  Order!ToSet(Listing(t)) = DOMAIN t /\ Order!IsInjective(Listing(t))
<1>1. ToSet(Listing(t)) = DOMAIN t /\ IsInjective(Listing(t))
  BY SortedFits DEF Listing
<1>2. Order!ToSet(Listing(t)) = ToSet(Listing(t))
  BY DEF ToSet, Order!ToSet
<1>3. Order!IsInjective(Listing(t)) <=> IsInjective(Listing(t))
  BY DEF IsInjective, Order!IsInjective
<1>4. QED
  BY <1>1, <1>2, <1>3

LEMMA DropsItems ==
  ASSUME NEW n \in Nat, NEW m \in Nat, rows \in RowsOf(n), rows' \in RowsOf(m),
         DOMAIN rows' \in SUBSET DOMAIN rows,
         SameOrder(rows, rows', DOMAIN rows'), op' = op
  PROVE  [Order!OrderNext]_<<Listing(rows), op>>
<1> DEFINE S == DOMAIN rows'
<1>1. Order!ToSet(Listing(rows)) = DOMAIN rows
  BY ListingFits
<1>2. Order!ToSet(Listing(rows)') = S /\ Order!IsInjective(Listing(rows)')
  BY ListingFits
<1>3. \A e, f \in S : Order!Precedes(Listing(rows)', e, f) <=> Order!Precedes(Listing(rows), e, f)
  <2> TAKE e, f \in S
  <2>1. Order!Precedes(Listing(rows)', e, f) <=> Before(rows', e, f)
    BY ListingPrecedes
  <2>2. Order!Precedes(Listing(rows), e, f) <=> Before(rows, e, f)
    BY ListingPrecedes
  <2>3. QED
    BY <2>1, <2>2 DEF SameOrder
<1>4. Order!Drop(S)
  BY <1>2, <1>3 DEF Order!Drop, Order!Becomes
<1>5. QED
  BY <1>1, <1>4 DEF Order!OrderNext

LEMMA PlacesItem ==
  ASSUME NEW n \in Nat, NEW m \in Nat, rows \in RowsOf(n), rows' \in RowsOf(m),
         NEW S \in SUBSET DOMAIN rows, NEW e \in Ids \ DOMAIN rows,
         DOMAIN rows' = S \cup {e}, SameOrder(rows, rows', S),
         NEW r \in Requests, op[r].kind = "add", NEW p \in 0..(Cardinality(DOMAIN rows') - 1),
         Listing(rows')[p + 1] = e,
         p = IF op[r].position = None THEN Cardinality(DOMAIN rows') - 1 ELSE op[r].position,
         DOMAIN op = Requests, op' = op
  PROVE  [Order!OrderNext]_<<Listing(rows), op>>
<1> DEFINE u == Listing(rows)'
           N == Cardinality(DOMAIN rows')
<1>1. Order!ToSet(Listing(rows)) = DOMAIN rows
  BY ListingFits
<1>2. /\ Order!ToSet(u) = S \cup {e} /\ Order!IsInjective(u)
      /\ Len(u) = N /\ DOMAIN u = 1..N /\ N \in Nat
      /\ u[p + 1] = e
  BY ListingFits, SortedFits, RowsAreFinite DEF Listing
<1>3. \A i, j \in S : Order!Precedes(u, i, j) <=> Order!Precedes(Listing(rows), i, j)
  <2> TAKE i, j \in S
  <2>1. Order!Precedes(u, i, j) <=> Before(rows', i, j)
    BY ListingPrecedes
  <2>2. Order!Precedes(Listing(rows), i, j) <=> Before(rows, i, j)
    BY ListingPrecedes
  <2>3. QED
    BY <2>1, <2>2 DEF SameOrder
<1> HIDE DEF u, N
<1>4. Order!Becomes(S \cup {e}, S)
  BY <1>2, <1>3 DEF Order!Becomes, u
<1>5. (IF op[r].position = None THEN Len(u) ELSE op[r].position + 1) = p + 1 /\ p + 1 \in DOMAIN u
  BY <1>2 DEF N
<1>6. Order!Place(S, op[r].position)
  BY <1>1, <1>2, <1>4, <1>5 DEF Order!Place, u
<1>7. QED
  BY <1>1, <1>6 DEF Order!OrderNext

LEMMA ArrangesItems ==
  ASSUME NEW n \in Nat, rows \in RowsOf(n), NEW S \in SUBSET DOMAIN rows,
         NEW r \in Requests, op[r].kind = "reorder", ToSet(op[r].order) = S,
         Listing(rows)' = op[r].order, DOMAIN op = Requests, op' = op
  PROVE  [Order!OrderNext]_<<Listing(rows), op>>
<1>1. Order!ToSet(Listing(rows)) = DOMAIN rows
  BY ListingFits
<1>2. Order!Arrange(S, op[r].order)
  BY DEF Order!Arrange, Order!ToSet, ToSet
<1>3. QED
  BY <1>1, <1>2 DEF Order!OrderNext

-----------------------------------------------------------------------------
(* The inductive invariant.                                                *)

Phases == {"idle", "lock", "clean", "apply", "reread", "write", "store", "unfavor", "insert",
           "insertQuietly", "announce", "items", "read", "send", "revision", "content", "done"}

(* The phases in which a request has an event at hand. *)
Announcing == {"announce", "items", "read", "send"}

(* What a screen shows: numbers, and the items of a playlist. *)
Values == Seq(Nat \cup Seq(Nat))
Contents == UNION {[S -> Values] : S \in SUBSET Surfaces}

Events == {e \in [surfaces : SUBSET Surfaces, how : {"row", "project", "detail", "removed", "marker"}] :
              e.how \in {"detail", "removed"} => e.surfaces = {"detail"}}

LogEntries == [shows : Contents, marks : SUBSET Surfaces, for : ItemKinds \cup OtherKinds]

PlaylistTypes ==
    /\ row \in [version : Nat, there : BOOLEAN]
    /\ made \in 0..MaxId
    /\ rows \in RowsOf(made)
    /\ work \in RowsOf(made)
    /\ lock \in Requests \cup {None}

RequestTypes ==
    /\ op \in [Requests -> ItemRequests \cup [kind : OtherKinds]]
    /\ phase \in [Requests -> Phases]

EventTypes ==
    /\ todo \in [Requests -> Seq(Events)]
    /\ held \in [Requests -> Contents]
    /\ number \in [Requests -> Nat \cup {None}]
    /\ log \in Seq(LogEntries)
    /\ sent \in Seq(Nat)

PageTypes == page \in [Requests -> [revision : Nat \cup {None}, content : Values \cup {None}]]

ScreenTypes ==
    /\ facts \in [favorite : Nat, progress : Nat, history : Nat, catalog : Nat]
    /\ EventTypes
    /\ PageTypes
    /\ client \in [read : Nat, seen : Nat, fetch : SUBSET Surfaces]
    /\ screen \in [Surfaces -> Values]
    /\ unsettled \in SUBSET Surfaces
    /\ crossed \in [Requests -> SUBSET Surfaces]

(* The transaction that holds the row has the items in the order they have. *)
PlaylistFits ==
    /\ \A r \in Requests : phase[r] \in {"clean", "apply"} => lock = r
    /\ lock # None => row.there
    /\ ~row.there => rows = NoRows
    /\ \A r \in Requests :
           phase[r] = "apply" => /\ DOMAIN work \in SUBSET DOMAIN rows
                                 /\ SameOrder(rows, work, DOMAIN work)
                                 /\ Gapless(work)

(* The screens an event of the log brings up to date, or has fetched again. *)
Touches(n) == DOMAIN log[n].shows \cup log[n].marks

Pages == {"homePage", "listPage", "favoritesPage"}

(* What a request is about to announce. *)
PhaseFits(r) ==
    /\ phase[r] \in Announcing <=> todo[r] # <<>>
    /\ phase[r] = "reread" => op[r].kind \in ItemKinds
    /\ phase[r] \in {"revision", "content"} => op[r].kind \in Pages
    /\ phase[r] = "items" => /\ Current(r).how = "detail"
                             /\ "detail" \in DOMAIN held[r]
                             /\ held[r]["detail"][1] \in Nat
    /\ phase[r] = "send" => /\ number[r] \in 1..Len(log)
                            /\ Touches(number[r]) = Current(r).surfaces
    /\ op[r].kind = "others" => \A i \in DOMAIN todo[r] : todo[r][i].surfaces = {}

PhasesFit == \A r \in Requests : PhaseFits(r)

ChannelFits ==
    /\ \A n \in 1..Len(log) : log[n].for = "others" => Touches(n) = {}
    /\ \A i \in 1..Len(sent) : sent[i] \in 1..Len(log)
    /\ client.read <= Len(sent)

(* What was read for a page of these kinds only grows. *)
Growing == {"continue", "list"}
Below(s, shown) ==
    /\ DOMAIN shown = DOMAIN Truth(s)
    /\ \A i \in DOMAIN shown : shown[i] \in Nat /\ Truth(s)[i] >= shown[i]

LogFits == \A n \in 1..Len(log) : \A s \in Growing \cap DOMAIN log[n].shows : Below(s, log[n].shows[s])
HeldFits == \A r \in Requests : \A s \in Growing \cap DOMAIN held[r] : Below(s, held[r][s])

Covers(r) ==
    \A n \in 1..page[r].revision :
        Surface(op[r].kind) \in DOMAIN log[n].shows
        => NotOlder(page[r].content, log[n].shows[Surface(op[r].kind)])

PageFits ==
    \A r \in Requests : op[r].kind \in {"homePage", "listPage"} =>
        /\ phase[r] \in {"idle", "revision", "content", "done"}
        /\ phase[r] \in {"content", "done"} => page[r].revision \in 0..Len(log)
        /\ phase[r] = "done" => Covers(r)

(* What a request holds for a screen that no change has crossed is what the *)
(* screen has to show, and so is what its event shows.                      *)
FreshAt(n, s) == s \in DOMAIN log[n].shows => log[n].shows[s] = Truth(s)

FreshFor(r, s) ==
    /\ s \in DOMAIN held[r] =>
           held[r][s] = IF phase[r] = "items" /\ s = "detail" THEN PlaylistRow ELSE Truth(s)
    /\ phase[r] = "send" => FreshAt(number[r], s)

HeldIsFresh ==
    \A r \in Requests : phase[r] \in Announcing => \A s \in Owes(r) \ crossed[r] : FreshFor(r, s)

(* From some event the client has yet to read on, or from what it has, it   *)
(* is brought to show the screen as it is.                                  *)
From(p, s) == IF p = client.read THEN s \in client.fetch \/ screen[s] = Truth(s)
              ELSE s \in Touches(sent[p])

CatchesUp(s) ==
    \E p \in client.read..Len(sent) :
        /\ From(p, s)
        /\ \A i \in p..Len(sent) : i > client.read => FreshAt(sent[i], s)

ClientCatchesUp ==
    \A s \in Surfaces \ unsettled : (\A r \in Requests : s \notin Owes(r)) => CatchesUp(s)

CrossedIsUnsettled == \A r \in Requests : crossed[r] \subseteq unsettled

PlaylistInv == PlaylistTypes /\ RequestTypes /\ PlaylistFits
PageInv == ScreenTypes /\ PhasesFit /\ ChannelFits /\ LogFits /\ HeldFits /\ PageFits
ScreenInv == HeldIsFresh /\ CrossedIsUnsettled /\ ClientCatchesUp

-----------------------------------------------------------------------------
(* The playlist.                                                           *)

(* A request takes one step at a time, and never changes what it asked for. *)
LEMMA StepMoves ==
  ASSUME RequestTypes, NEW r \in Requests, RequestSteps(r)
  PROVE  op' = op /\ \E to \in Phases : phase' = [phase EXCEPT ![r] = to]
<1>1. CASE Asks(r)
  <2>1. First(op[r].kind) \in {"lock", "write", "revision", "store"}
    BY DEF First
  <2>2. QED
    BY <1>1, <2>1 DEF Asks, Goes, Phases
<1>2. CASE Stores(r)
  <2>1. CASE Locks(r)
    BY <2>1 DEF Locks, Goes, Returns, Phases
  <2>2. CASE CleansUp(r)
    BY <2>2 DEF CleansUp, Goes, Phases
  <2>3. CASE Adds(r)
    BY <2>3 DEF Adds, Refuses, Commits, Goes, Returns, Phases
  <2>4. CASE Removes(r)
    BY <2>4 DEF Removes, Refuses, Commits, Goes, Returns, Phases
  <2>5. CASE Reorders(r)
    BY <2>5 DEF Reorders, Refuses, Commits, Goes, Returns, Phases
  <2>6. CASE Lists(r)
    BY <2>6 DEF Lists, Goes, Returns, Phases
  <2>7. CASE Creates(r)
    BY <2>7 DEF Creates, Goes, Phases
  <2>8. CASE Updates(r)
    BY <2>8 DEF Updates, Goes, Returns, Phases
  <2>9. CASE Deletes(r)
    BY <2>9 DEF Deletes, Goes, Returns, Phases
  <2>10. QED
    BY <1>2, <2>1, <2>2, <2>3, <2>4, <2>5, <2>6, <2>7, <2>8, <2>9 DEF Stores, Transaction
<1>3. CASE Rereads(r)
  BY <1>3 DEF Rereads, Goes, Phases
<1>4. CASE RereadsNothing(r)
  BY <1>4 DEF RereadsNothing, Goes, Phases
<1>5. CASE RollsBack(r)
  BY <1>5 DEF RollsBack, Returns, Goes, Phases
<1>6. CASE Records(r)
  BY <1>6 DEF Records, Writes, Goes, Phases
<1>7. CASE Imports(r)
  BY <1>7 DEF Imports, Writes, Goes, Phases
<1>8. CASE Elsewhere(r)
  BY <1>8 DEF Elsewhere, Goes, Phases
<1>9. CASE Toggles(r)
  BY <1>9 DEF Toggles, Writes, Keeps, Goes, Phases
<1>10. CASE Favors(r)
  BY <1>10 DEF Favors, Writes, Keeps, Returns, Goes, Phases
<1>11. CASE Unfavors(r)
  BY <1>11 DEF Unfavors, Writes, Keeps, Goes, Phases
<1>12. CASE Projects(r)
  BY <1>12 DEF Projects, Goes, Phases
<1>13. CASE ProjectsRow(r)
  BY <1>13 DEF ProjectsRow, Goes, Phases
<1>14. CASE ProjectsItems(r)
  BY <1>14 DEF ProjectsItems, Goes, Phases
<1>15. CASE ReadFails(r)
  BY <1>15 DEF ReadFails, Goes, Phases
<1>16. CASE TakesNumber(r)
  BY <1>16 DEF TakesNumber, Goes, Phases
<1>17. CASE Sends(r)
  BY <1>17 DEF Sends, Goes, Phases
<1>18. CASE StopsAnnouncing(r)
  BY <1>18 DEF StopsAnnouncing, Goes, Phases
<1>19. CASE ReadsRevision(r)
  BY <1>19 DEF ReadsRevision, Goes, Phases
<1>20. CASE ReadsContent(r)
  BY <1>20 DEF ReadsContent, Goes, Phases
<1>21. QED
  BY <1>1, <1>2, <1>3, <1>4, <1>5, <1>6, <1>7, <1>8, <1>9, <1>10, <1>11, <1>12, <1>13, <1>14,
     <1>15, <1>16, <1>17, <1>18, <1>19, <1>20 DEF RequestSteps

(* The steps that leave the playlist and its transactions alone. *)
Aside(r) ==
    /\ UNCHANGED <<row, rows, made, lock, work>>
    /\ phase'[r] \notin {"clean", "apply"}

LEMMA PlaylistSteps ==
  ASSUME RequestTypes, NEW r \in Requests, RequestSteps(r)
  PROVE  \/ Aside(r)
         \/ Transaction(r)
         \/ RollsBack(r)
         \/ ProjectsItems(r)
<1> USE DEF RequestTypes
<1>1. CASE Asks(r)
  BY <1>1 DEF Asks, Goes, First, Aside, itemVars
<1>2. CASE Rereads(r) \/ RereadsNothing(r)
  BY <1>2 DEF Rereads, RereadsNothing, Goes, Aside, itemVars
<1>3. CASE Records(r) \/ Elsewhere(r)
  BY <1>3 DEF Records, Elsewhere, Writes, Goes, Aside, itemVars
<1>4. CASE Imports(r)
  BY <1>4 DEF Imports, CatalogChanges, Writes, Goes, Aside
<1>5. CASE Toggles(r)
  BY <1>5 DEF Toggles, Writes, Keeps, Goes, Aside, itemVars
<1>6. CASE Favors(r)
  BY <1>6 DEF Favors, Writes, Keeps, Returns, Goes, Aside, itemVars
<1>7. CASE Unfavors(r)
  BY <1>7 DEF Unfavors, Writes, Keeps, Goes, Aside, itemVars
<1>8. CASE Projects(r) \/ ProjectsRow(r) \/ ReadFails(r)
  BY <1>8 DEF Projects, ProjectsRow, ReadFails, Goes, Aside, itemVars
<1>9. CASE TakesNumber(r) \/ Sends(r) \/ StopsAnnouncing(r)
  BY <1>9 DEF TakesNumber, Sends, StopsAnnouncing, Goes, Aside, itemVars
<1>10. CASE ReadsRevision(r) \/ ReadsContent(r)
  BY <1>10 DEF ReadsRevision, ReadsContent, Goes, Aside, itemVars
<1>11. QED
  BY <1>1, <1>2, <1>3, <1>4, <1>5, <1>6, <1>7, <1>8, <1>9, <1>10 DEF RequestSteps, Stores

(* What a request asks for has what its kind calls for. *)
LEMMA RequestsFit ==
  ASSUME RequestTypes, NEW r \in Requests
  PROVE  /\ op[r].kind = "add" => op[r].item \in Tracks /\ op[r].position \in Nat \cup {None}
         /\ op[r].kind = "reorder" => op[r].order \in Seq(Nat) /\ IsInjective(op[r].order)
         /\ op[r].kind \in ItemKinds \cup OtherKinds
<1>1. op[r] \in ItemRequests \cup [kind : OtherKinds]
  BY DEF RequestTypes
<1>2. CASE op[r] \in [kind : {"add"}, item : Tracks, position : Nat \cup {None}]
  BY <1>2 DEF ItemKinds
<1>3. CASE op[r] \in [kind : {"remove"}, id : Nat]
  BY <1>3 DEF ItemKinds
<1>4. CASE op[r] \in [kind : {"reorder"}, order : {ids \in Seq(Nat) : IsInjective(ids)}]
  BY <1>4 DEF ItemKinds
<1>5. CASE op[r] \in [kind : OtherKinds]
  BY <1>5 DEF OtherKinds
<1>6. QED
  BY <1>1, <1>2, <1>3, <1>4, <1>5 DEF ItemRequests

LEMMA NoRowsFit ==
  ASSUME NEW n \in Nat
  PROVE  NoRows \in RowsOf(n) /\ DOMAIN NoRows = {}
<1>1. NoRows \in [{} -> Item]
  BY DEF NoRows
<1>2. QED
  BY <1>1 DEF RowsOf, NoRows

LEMMA RowsOfMore ==
  ASSUME NEW n \in Nat, NEW t \in RowsOf(n)
  PROVE  t \in RowsOf(n + 1)
<1>1. PICK S \in SUBSET (1..n) : t \in [S -> Item]
  BY DEF RowsOf
<1>2. S \in SUBSET (1..(n + 1))
  BY <1>1
<1>3. QED
  BY <1>1, <1>2 DEF RowsOf

(* The steps of a request that leave the lock free. *)
LEMMA FreeFits ==
  ASSUME PlaylistInv, NEW r \in Requests, lock' = None,
         \A q \in Requests : q # r /\ phase[q] \in {"clean", "apply"} => lock = r \/ lock = None,
         \A q \in Requests \ {r} : phase'[q] = phase[q], phase'[r] \notin {"clean", "apply"},
         row' \in [version : Nat, there : BOOLEAN], ~row'.there => rows' = NoRows,
         made' \in 0..MaxId, rows' \in RowsOf(made'), work' \in RowsOf(made')
  PROVE  PlaylistTypes' /\ PlaylistFits'
<1>1. \A q \in Requests : phase'[q] \notin {"clean", "apply"}
  <2> TAKE q \in Requests
  <2>1. CASE q # r
    BY <2>1, PlaylistAssumption DEF PlaylistInv, PlaylistFits
  <2>2. QED
    BY <2>1
<1>2. PlaylistTypes'
  BY DEF PlaylistTypes
<1>3. QED
  BY <1>1, <1>2 DEF PlaylistFits

(* The one that holds the row lets go of it. *)
LEMMA HolderFits ==
  ASSUME PlaylistInv, NEW r \in Requests, phase[r] = "apply"
  PROVE  /\ lock = r /\ row.there
         /\ DOMAIN work \in SUBSET DOMAIN rows
         /\ SameOrder(rows, work, DOMAIN work)
         /\ Gapless(work)
         /\ \A q \in Requests : q # r /\ phase[q] \in {"clean", "apply"} => lock = r \/ lock = None
         /\ made \in Nat /\ rows \in RowsOf(made) /\ work \in RowsOf(made)
BY PlaylistAssumption DEF PlaylistInv, PlaylistFits, PlaylistTypes

(* Each way in which a transaction ends, with what it makes of the items. *)
EndsWith(r, t) ==
    /\ lock' = None /\ work' = NoRows /\ rows' = t
    /\ phase'[r] \notin {"clean", "apply"}
    /\ row' \in [version : Nat, there : BOOLEAN] /\ row'.there = row.there

LEMMA TransactionEnds ==
  ASSUME PlaylistInv, NEW r \in Requests, Adds(r) \/ Removes(r) \/ Reorders(r) \/ Lists(r)
  PROVE  /\ phase[r] = "apply"
         /\ \/ EndsWith(r, work) /\ made' = made
            \/ /\ op[r].kind = "add" /\ op[r].item \in Tracks /\ made < MaxId /\ made' = made + 1
               /\ Position(r) \in 0..Cardinality(DOMAIN work)
               /\ EndsWith(r, Inserted(work, made + 1, op[r].item, Position(r)))
            \/ /\ op[r].kind = "remove" /\ op[r].id \in DOMAIN work /\ made' = made
               /\ EndsWith(r, Removed(work, op[r].id))
            \/ /\ op[r].kind = "reorder" /\ ToSet(op[r].order) = DOMAIN work /\ made' = made
               /\ EndsWith(r, Reordered(work, op[r].order))
<1>1. row \in [version : Nat, there : BOOLEAN] /\ phase \in [Requests -> Phases]
  BY DEF PlaylistInv, PlaylistTypes, RequestTypes
<1>2. [row EXCEPT !.version = @ + 1] = [version |-> row.version + 1, there |-> row.there]
      /\ row.version + 1 \in Nat
  BY <1>1
<1>3. ASSUME NEW t, Commits(r, t)
      PROVE  EndsWith(r, t)
  BY <1>1, <1>2, <1>3 DEF Commits, Goes, EndsWith
<1>4. ASSUME NEW why, Refuses(r, why)
      PROVE  EndsWith(r, work) /\ made' = made
  BY <1>1, <1>4 DEF Refuses, CommitsCleanUp, Returns, Goes, EndsWith
<1>5. CASE Adds(r)
  <2>1. CASE op[r].item \notin eligible \/ Position(r) > Cardinality(DOMAIN work)
    BY <1>4, <1>5, <2>1 DEF Adds
  <2>2. CASE ~(op[r].item \notin eligible \/ Position(r) > Cardinality(DOMAIN work))
    <3>1. /\ phase[r] = "apply" /\ op[r].kind = "add"
          /\ made < MaxId /\ made' = made + 1
          /\ Commits(r, Inserted(work, made + 1, op[r].item, Position(r)))
      BY <1>5, <2>2 DEF Adds
    <3>2. op[r].item \in Tracks /\ op[r].position \in Nat \cup {None}
      BY <3>1, RequestsFit DEF PlaylistInv
    <3>3. Cardinality(DOMAIN work) \in Nat
      BY <3>1, HolderFits, RowsAreFinite
    <3>4. Position(r) \in 0..Cardinality(DOMAIN work)
      BY <2>2, <3>2, <3>3 DEF Position
    <3>5. QED
      BY <1>3, <3>1, <3>2, <3>4
  <2>3. QED
    BY <2>1, <2>2
<1>6. CASE Removes(r)
  <2>1. CASE op[r].id \notin DOMAIN work
    BY <1>4, <1>6, <2>1 DEF Removes
  <2>2. CASE op[r].id \in DOMAIN work
    BY <1>3, <1>6, <2>2 DEF Removes
  <2>3. QED
    BY <2>1, <2>2
<1>7. CASE Reorders(r)
  <2>1. CASE ToSet(op[r].order) # DOMAIN work
    BY <1>4, <1>7, <2>1 DEF Reorders
  <2>2. CASE ToSet(op[r].order) = DOMAIN work
    BY <1>3, <1>7, <2>2 DEF Reorders
  <2>3. QED
    BY <2>1, <2>2
<1>8. CASE Lists(r)
  BY <1>1, <1>8 DEF Lists, CommitsCleanUp, Returns, Goes, EndsWith
<1>9. QED
  BY <1>5, <1>6, <1>7, <1>8

LEMMA AddedFits ==
  ASSUME PlaylistInv, NEW r \in Requests, phase[r] = "apply", op[r].item \in Tracks,
         Position(r) \in 0..Cardinality(DOMAIN work),
         rows' = Inserted(work, made + 1, op[r].item, Position(r))
  PROVE  /\ rows' \in RowsOf(made + 1)
         /\ DOMAIN rows' = DOMAIN work \cup {made + 1}
         /\ SameOrder(work, rows', DOMAIN work)
         /\ Cardinality(DOMAIN rows') = Cardinality(DOMAIN work) + 1
         /\ Listing(rows')[Position(r) + 1] = made + 1
<1>1. made \in Nat /\ work \in RowsOf(made) /\ Gapless(work)
  BY HolderFits
<1>2. ASSUME NEW n, n = made, NEW t, t = work, NEW item, item = op[r].item,
             NEW p, p = Position(r), NEW e, e = made + 1, NEW u, u = rows'
      PROVE  /\ u \in RowsOf(n + 1)
             /\ DOMAIN u = DOMAIN t \cup {e}
             /\ SameOrder(t, u, DOMAIN t)
             /\ Cardinality(DOMAIN u) = Cardinality(DOMAIN t) + 1
             /\ Listing(u)[p + 1] = e
  <2>1. /\ n \in Nat /\ t \in RowsOf(n) /\ Gapless(t) /\ item \in Tracks
        /\ p \in 0..Cardinality(DOMAIN t) /\ e = n + 1 /\ u = Inserted(t, e, item, p)
    BY <1>1, <1>2
  <2>2. QED
    BY ONLY <2>1, InsertedFits
<1>3. QED
  BY <1>2

LEMMA StepPlaylist ==
  ASSUME PlaylistInv, NEW r \in Requests, RequestSteps(r)
  PROVE  PlaylistInv'
<1>1. /\ op' = op /\ RequestTypes' /\ phase \in [Requests -> Phases]
      /\ \A q \in Requests \ {r} : phase'[q] = phase[q]
  <2>1. RequestTypes
    BY DEF PlaylistInv
  <2>2. PICK to \in Phases : phase' = [phase EXCEPT ![r] = to]
    BY <2>1, StepMoves
  <2>3. op' = op
    BY <2>1, StepMoves
  <2>4. QED
    BY <2>1, <2>2, <2>3 DEF RequestTypes
<1>2. /\ PlaylistTypes /\ PlaylistFits
      /\ row \in [version : Nat, there : BOOLEAN]
      /\ made \in 0..MaxId /\ made \in Nat /\ rows \in RowsOf(made) /\ work \in RowsOf(made)
      /\ lock \in Requests \cup {None} /\ None \notin Requests /\ MaxId \in Nat
  BY PlaylistAssumption DEF PlaylistInv, PlaylistTypes
<1> SUFFICES PlaylistTypes' /\ PlaylistFits'
  BY <1>1 DEF PlaylistInv
<1>3. CASE Aside(r)
  <2>1. PlaylistTypes'
    BY <1>2, <1>3 DEF Aside, PlaylistTypes
  <2>2. \A q \in Requests : phase'[q] \in {"clean", "apply"} => phase'[q] = phase[q]
    BY <1>1, <1>3 DEF Aside
  <2>3. QED
    BY <1>2, <1>3, <2>1, <2>2 DEF Aside, PlaylistFits
<1>4. CASE Locks(r)
  <2>1. lock = None /\ UNCHANGED <<row, rows, made, work>>
    BY <1>4 DEF Locks
  <2>2. \A q \in Requests : phase[q] \notin {"clean", "apply"}
    BY <1>2, <2>1 DEF PlaylistFits
  <2>3. \A q \in Requests : phase'[q] \in {"clean", "apply"} => q = r /\ phase'[r] = "clean" /\ lock' = r
    BY <1>1, <1>4, <2>2 DEF Locks, Goes, Returns
  <2>4. lock' # None => lock' = r /\ row.there
    BY <1>4, <2>1 DEF Locks, Exists
  <2>5. PlaylistTypes'
    BY <1>2, <2>1, <2>4 DEF PlaylistTypes
  <2>6. QED
    BY <1>2, <2>1, <2>3, <2>4, <2>5 DEF PlaylistFits
<1>5. CASE CleansUp(r)
  <2>1. /\ UNCHANGED <<row, rows, made, lock>> /\ work' = Cleaned(rows)
        /\ phase[r] = "clean" /\ phase'[r] = "apply"
    BY <1>1, <1>5 DEF CleansUp, Goes
  <2>2. lock = r
    BY <1>2, <2>1 DEF PlaylistFits
  <2>3. \A q \in Requests : phase'[q] \in {"clean", "apply"} => q = r
    BY <1>1, <1>2, <2>2 DEF PlaylistFits
  <2>4. /\ work' \in RowsOf(made') /\ DOMAIN work' \in SUBSET DOMAIN rows'
        /\ SameOrder(rows', work', DOMAIN work') /\ Gapless(work')
    BY <1>2, <2>1, CleanedFits
  <2>5. PlaylistTypes'
    BY <1>2, <2>1, <2>4 DEF PlaylistTypes
  <2>6. QED
    BY <1>2, <2>1, <2>2, <2>3, <2>4, <2>5 DEF PlaylistFits
<1>6. CASE Adds(r) \/ Removes(r) \/ Reorders(r) \/ Lists(r)
  <2>1. phase[r] = "apply" /\ \E t : EndsWith(r, t)
    BY <1>6, TransactionEnds
  <2>2. /\ lock' = None /\ work' = NoRows /\ phase'[r] \notin {"clean", "apply"}
        /\ row' \in [version : Nat, there : BOOLEAN] /\ row'.there
    BY <2>1, HolderFits DEF EndsWith
  <2>3. made' \in 0..MaxId /\ rows' \in RowsOf(made')
    <3>1. CASE EndsWith(r, work) /\ made' = made
      BY <1>2, <3>1 DEF EndsWith
    <3>2. CASE /\ op[r].kind = "add" /\ op[r].item \in Tracks /\ made < MaxId /\ made' = made + 1
               /\ Position(r) \in 0..Cardinality(DOMAIN work)
               /\ EndsWith(r, Inserted(work, made + 1, op[r].item, Position(r)))
      <4>1. rows' \in RowsOf(made + 1)
        BY <2>1, <3>2, AddedFits DEF EndsWith
      <4>2. QED
        BY <1>2, <3>2, <4>1 DEF EndsWith
    <3>3. CASE /\ op[r].kind = "remove" /\ op[r].id \in DOMAIN work /\ made' = made
               /\ EndsWith(r, Removed(work, op[r].id))
      BY <1>2, <2>1, <3>3, HolderFits, RemovedFits DEF EndsWith
    <3>4. CASE /\ op[r].kind = "reorder" /\ ToSet(op[r].order) = DOMAIN work /\ made' = made
               /\ EndsWith(r, Reordered(work, op[r].order))
      <4>1. op[r].order \in Seq(Nat) /\ IsInjective(op[r].order)
        BY <3>4, RequestsFit DEF PlaylistInv
      <4>2. Reordered(work, op[r].order) \in RowsOf(made)
        BY <1>2, <3>4, <4>1, ReorderedFits
      <4>3. QED
        BY <1>2, <3>4, <4>2 DEF EndsWith
    <3>5. QED
      BY <1>6, TransactionEnds, <3>1, <3>2, <3>3, <3>4
  <2>4. work' \in RowsOf(made')
    BY <2>2, <2>3, NoRowsFit
  <2>5. \A q \in Requests : q # r /\ phase[q] \in {"clean", "apply"} => lock = r \/ lock = None
    BY <2>1, HolderFits
  <2>6. QED
    BY <1>1, <2>2, <2>3, <2>4, <2>5, FreeFits
<1>7. CASE Creates(r) \/ Updates(r) \/ Deletes(r) \/ ProjectsItems(r)
  <2>1. lock = None /\ UNCHANGED <<made, lock, work>> /\ phase'[r] \notin {"clean", "apply"}
    <3>1. CASE Creates(r)
      BY <1>1, <1>2, <3>1 DEF Creates, Goes, Unborn, PlaylistFits
    <3>2. CASE Updates(r)
      BY <1>1, <3>2 DEF Updates, Goes, Returns
    <3>3. CASE Deletes(r)
      BY <1>1, <3>3 DEF Deletes, Goes, Returns
    <3>4. CASE ProjectsItems(r)
      BY <1>1, <3>4 DEF ProjectsItems, Goes
    <3>5. QED
      BY <1>7, <3>1, <3>2, <3>3, <3>4
  <2>2. row' \in [version : Nat, there : BOOLEAN] /\ (~row'.there => rows' = NoRows)
    <3>1. CASE Creates(r)
      BY <3>1 DEF Creates
    <3>2. CASE Updates(r)
      BY <1>2, <3>2 DEF Updates, Exists, PlaylistFits
    <3>3. CASE Deletes(r)
      <4>1. CASE row.there
        <5>1. row' = [version |-> row.version + 1, there |-> FALSE] /\ rows' = NoRows
          BY <3>3, <4>1 DEF Deletes, Exists
        <5>2. row.version + 1 \in Nat
          BY <1>2
        <5>3. QED
          BY <5>1, <5>2
      <4>2. CASE ~row.there
        BY <1>2, <3>3, <4>2 DEF Deletes, Exists, PlaylistFits
      <4>3. QED
        BY <4>1, <4>2
    <3>4. CASE ProjectsItems(r)
      BY <1>2, <3>4 DEF ProjectsItems, Exists
    <3>5. QED
      BY <1>7, <3>1, <3>2, <3>3, <3>4
  <2>3. rows' \in RowsOf(made)
    <3>1. CASE rows' = rows
      BY <1>2, <3>1
    <3>2. CASE rows' = NoRows
      BY <1>2, <3>2, NoRowsFit
    <3>3. CASE rows' = Cleaned(rows)
      BY <1>2, <3>3, CleanedFits
    <3>4. QED
      BY <1>7, <3>1, <3>2, <3>3 DEF Creates, Updates, Deletes, ProjectsItems
  <2>4. QED
    BY <1>1, <1>2, <2>1, <2>2, <2>3, FreeFits
<1>8. CASE RollsBack(r)
  <2>1. UNCHANGED <<row, rows, made>> /\ phase'[r] = "done"
    BY <1>1, <1>8 DEF RollsBack, Returns, Goes
  <2>2. CASE lock = r
    <3>1. lock' = None /\ work' = NoRows
      BY <1>8, <2>2 DEF RollsBack
    <3>2. \A q \in Requests : q # r /\ phase[q] \in {"clean", "apply"} => lock = r \/ lock = None
      BY <2>2
    <3>3. work' \in RowsOf(made)
      BY <1>2, <3>1, NoRowsFit
    <3>4. QED
      BY <1>1, <1>2, <2>1, <3>1, <3>2, <3>3, FreeFits DEF PlaylistFits
  <2>3. CASE lock # r
    <3>1. UNCHANGED <<lock, work>>
      BY <1>8, <2>3 DEF RollsBack
    <3>2. \A q \in Requests : phase'[q] \in {"clean", "apply"} => phase'[q] = phase[q]
      BY <1>1, <2>1
    <3>3. PlaylistTypes'
      BY <1>2, <2>1, <3>1 DEF PlaylistTypes
    <3>4. QED
      BY <1>2, <2>1, <3>1, <3>2, <3>3 DEF PlaylistFits
  <2>4. QED
    BY <2>2, <2>3
<1>9. QED
  <2>1. Aside(r) \/ Transaction(r) \/ RollsBack(r) \/ ProjectsItems(r)
    BY PlaylistSteps DEF PlaylistInv
  <2>2. QED
    BY <2>1, <1>3, <1>4, <1>5, <1>6, <1>7, <1>8 DEF Transaction

LEMMA StartPlaylist ==
  ASSUME Init
  PROVE  PlaylistInv
<1>1. op \in [Requests -> ItemRequests \cup [kind : OtherKinds]]
  BY ScreensAssumption DEF Init
<1>2. PICK n \in 0..MaxId : Library \in [1..n -> [item : Tracks, position : Nat]]
  BY ScreensAssumption
<1>3. n \in Nat /\ MaxId \in Nat /\ None \notin Requests
  BY PlaylistAssumption
<1>4. Library \in RowsOf(n) /\ DOMAIN Library = 1..n
  BY <1>2 DEF RowsOf, Item
<1>5. Cardinality(1..n) = n /\ Cardinality({}) = 0
  BY <1>3, FS_Interval, FS_EmptySet
<1>6. /\ row \in [version : Nat, there : BOOLEAN] /\ (~row.there => rows = NoRows)
      /\ made \in 0..MaxId /\ rows \in RowsOf(made)
  <2>1. CASE \E r \in Requests : op[r].kind = "create"
    <3>1. row = Unborn /\ rows = NoRows /\ made = Cardinality(DOMAIN rows)
      BY <2>1 DEF Init
    <3>2. made = 0
      BY <1>5, <3>1, NoRowsFit
    <3>3. QED
      BY <1>3, <3>1, <3>2, NoRowsFit DEF Unborn
  <2>2. CASE ~\E r \in Requests : op[r].kind = "create"
    <3>1. /\ row = [version |-> 1, there |-> TRUE] /\ rows = Library
          /\ made = Cardinality(DOMAIN rows)
      BY <2>2 DEF Init
    <3>2. made = n
      BY <1>4, <1>5, <3>1
    <3>3. QED
      BY <1>4, <3>1, <3>2
  <2>3. QED
    BY <2>1, <2>2
<1>7. lock = None /\ work = NoRows /\ phase = [r \in Requests |-> "idle"]
  BY DEF Init
<1>8. work \in RowsOf(made)
  BY <1>3, <1>6, <1>7, NoRowsFit
<1>9. PlaylistTypes
  BY <1>6, <1>7, <1>8 DEF PlaylistTypes
<1>10. RequestTypes
  BY <1>1, <1>7 DEF RequestTypes, Phases
<1>11. PlaylistFits
  BY <1>6, <1>7 DEF PlaylistFits
<1>12. QED
  BY <1>9, <1>10, <1>11 DEF PlaylistInv

(* The client and what stutters leave the playlist alone. *)
LEMMA OthersLeavePlaylist ==
  ASSUME Lags \/ Receives \/ Fetches \/ UNCHANGED vars
  PROVE  UNCHANGED playlistVars
BY DEF Lags, Receives, Fetches, vars

LEMMA KeepsPlaylist ==
  ASSUME PlaylistInv, UNCHANGED playlistVars
  PROVE  PlaylistInv'
<1>1. UNCHANGED <<row, rows, made, lock, work, phase, op>>
  BY DEF playlistVars, itemVars, requestVars
<1>2. QED
  BY <1>1 DEF PlaylistInv, PlaylistTypes, RequestTypes, PlaylistFits

(* No item is lost in a step of a request. *)
LEMMA StepKeepsItems ==
  ASSUME PlaylistInv, NEW r \in Requests, RequestSteps(r), NEW i \in DOMAIN rows \ DOMAIN rows'
  PROVE  \/ ~Exists'
         \/ op[r].kind = "remove" /\ op[r].id = i /\ phase[r] = "apply"
         \/ lock = r /\ phase[r] = "apply" /\ i \notin DOMAIN work
         \/ rows[i].item \notin eligible
<1>1. rows' # rows
  OBVIOUS
<1>2. made \in Nat /\ rows \in RowsOf(made) /\ work \in RowsOf(made) /\ (~row.there => rows = NoRows)
  BY PlaylistAssumption DEF PlaylistInv, PlaylistTypes, PlaylistFits
<1>3. CASE Adds(r) \/ Removes(r) \/ Reorders(r) \/ Lists(r)
  <2>1. phase[r] = "apply"
    BY <1>3, TransactionEnds
  <2>2. lock = r /\ Gapless(work)
    BY <2>1, HolderFits
  <2>3. CASE EndsWith(r, work)
    BY <2>1, <2>2, <2>3 DEF EndsWith
  <2>4. CASE /\ op[r].kind = "add" /\ op[r].item \in Tracks /\ made < MaxId /\ made' = made + 1
             /\ Position(r) \in 0..Cardinality(DOMAIN work)
             /\ EndsWith(r, Inserted(work, made + 1, op[r].item, Position(r)))
    <3>1. DOMAIN rows' = DOMAIN work \cup {made + 1}
      BY <2>1, <2>4, AddedFits DEF EndsWith
    <3>2. QED
      BY <2>1, <2>2, <3>1
  <2>5. CASE /\ op[r].kind = "remove" /\ op[r].id \in DOMAIN work /\ made' = made
             /\ EndsWith(r, Removed(work, op[r].id))
    <3>1. DOMAIN rows' = DOMAIN work \ {op[r].id}
      BY <1>2, <2>2, <2>5, RemovedFits DEF EndsWith
    <3>2. QED
      BY <2>1, <2>2, <2>5, <3>1
  <2>6. CASE /\ op[r].kind = "reorder" /\ ToSet(op[r].order) = DOMAIN work /\ made' = made
             /\ EndsWith(r, Reordered(work, op[r].order))
    <3>1. op[r].order \in Seq(Nat) /\ IsInjective(op[r].order)
      BY <2>6, RequestsFit DEF PlaylistInv
    <3>2. DOMAIN rows' = DOMAIN work
      BY <1>2, <2>6, <3>1, ReorderedFits DEF EndsWith
    <3>3. QED
      BY <2>1, <2>2, <3>2
  <2>7. QED
    BY <1>3, TransactionEnds, <2>3, <2>4, <2>5, <2>6
<1>4. CASE Creates(r)
  BY <1>2, <1>4, NoRowsFit DEF Creates, Unborn
<1>5. CASE Deletes(r)
  BY <1>1, <1>5 DEF Deletes, Exists
<1>6. CASE ProjectsItems(r)
  <2>1. DOMAIN rows' = Eligible(rows)
    BY <1>2, <1>6, CleanedFits DEF ProjectsItems
  <2>2. QED
    BY <2>1 DEF Eligible
<1>7. Aside(r) \/ Transaction(r) \/ RollsBack(r) \/ ProjectsItems(r)
  BY PlaylistSteps DEF PlaylistInv
<1>8. QED
  BY <1>1, <1>3, <1>4, <1>5, <1>6, <1>7
     DEF Aside, Transaction, Locks, CleansUp, Updates, RollsBack

(* An item that was added stays until it is removed, the playlist is deleted *)
(* or the item leaves the catalog: each transaction works on the items as    *)
(* they are when it has the lock of the row.                                 *)
THEOREM KeptItems == Spec => ItemsAreKept
<1> DEFINE Kept == \A i \in DOMAIN rows \ DOMAIN rows' :
                       \/ ~Exists'
                       \/ \E r \in Requests :
                              \/ op[r].kind = "remove" /\ op[r].id = i /\ phase[r] = "apply"
                              \/ lock = r /\ phase[r] = "apply" /\ i \notin DOMAIN work
                       \/ rows[i].item \notin eligible
<1>1. Init => PlaylistInv
  BY StartPlaylist
<1>2. PlaylistInv /\ [Next]_vars => PlaylistInv' /\ [Kept]_vars
  <2> SUFFICES ASSUME PlaylistInv, [Next]_vars
               PROVE  PlaylistInv' /\ [Kept]_vars
    OBVIOUS
  <2>1. ASSUME NEW r \in Requests, RequestSteps(r)
        PROVE  PlaylistInv' /\ Kept
    BY <2>1, StepPlaylist, StepKeepsItems
  <2>2. ASSUME Lags \/ Receives \/ Fetches \/ UNCHANGED vars
        PROVE  PlaylistInv' /\ Kept
    <3>1. UNCHANGED playlistVars /\ rows' = rows
      BY <2>2, OthersLeavePlaylist DEF playlistVars, itemVars
    <3>2. QED
      BY <3>1, KeepsPlaylist
  <2>3. QED
    BY <2>1, <2>2 DEF Next
<1>3. QED
  BY <1>1, <1>2, PTL DEF Spec, ItemsAreKept

(* One step of the rows is one step of the ordered list. *)
LEMMA StepOrders ==
  ASSUME PlaylistInv, NEW r \in Requests, RequestSteps(r)
  PROVE  [Order!OrderNext]_<<Listing(rows), op>>
<1>1. /\ PlaylistInv' /\ op' = op /\ DOMAIN op = Requests
  BY StepPlaylist, StepMoves DEF PlaylistInv, RequestTypes
<1>2. /\ made \in Nat /\ rows \in RowsOf(made) /\ work \in RowsOf(made)
      /\ made' \in Nat /\ rows' \in RowsOf(made') /\ MaxId \in Nat
  BY <1>1, PlaylistAssumption DEF PlaylistInv, PlaylistTypes
<1>3. CASE rows' = rows
  BY <1>1, <1>3
<1>4. CASE rows' = NoRows
  BY <1>1, <1>2, <1>4, NoRowsFit, DropsItems DEF SameOrder
<1>5. CASE Adds(r) \/ Removes(r) \/ Reorders(r) \/ Lists(r)
  <2>1. phase[r] = "apply"
    BY <1>5, TransactionEnds
  <2>2. /\ DOMAIN work \in SUBSET DOMAIN rows /\ SameOrder(rows, work, DOMAIN work)
        /\ Gapless(work)
    BY <2>1, HolderFits
  <2>3. CASE EndsWith(r, work)
    BY <1>1, <1>2, <2>2, <2>3, DropsItems DEF EndsWith
  <2>4. CASE /\ op[r].kind = "add" /\ op[r].item \in Tracks /\ made < MaxId /\ made' = made + 1
             /\ Position(r) \in 0..Cardinality(DOMAIN work)
             /\ EndsWith(r, Inserted(work, made + 1, op[r].item, Position(r)))
    <3> DEFINE S == DOMAIN work
               e == made + 1
               p == Position(r)
    <3>1. /\ DOMAIN rows' = S \cup {e}
          /\ SameOrder(work, rows', S)
          /\ Cardinality(DOMAIN rows') = Cardinality(S) + 1
          /\ Listing(rows')[p + 1] = e
      BY <2>1, <2>4, AddedFits DEF EndsWith
    <3>2. e \in Ids \ DOMAIN rows
      <4>1. DOMAIN rows \subseteq 1..made
        BY <1>2, RowsAreFunctions
      <4>2. e \in 1..MaxId /\ e \notin 1..made
        BY <1>2, <2>4
      <4>3. QED
        BY <4>1, <4>2 DEF Ids
    <3>3. SameOrder(rows, rows', S)
      BY <2>2, <3>1 DEF SameOrder
    <3>4. Cardinality(S) \in Nat
      BY <1>2, RowsAreFinite
    <3>5. /\ p \in 0..(Cardinality(DOMAIN rows') - 1)
          /\ p = IF op[r].position = None THEN Cardinality(DOMAIN rows') - 1 ELSE op[r].position
      BY <2>4, <3>1, <3>4 DEF Position
    <3> HIDE DEF S, e, p
    <3>6. S \in SUBSET DOMAIN rows /\ op[r].kind = "add"
      BY <2>2, <2>4 DEF S
    <3>7. QED
      BY <1>1, <1>2, <3>1, <3>2, <3>3, <3>5, <3>6, PlacesItem
  <2>5. CASE /\ op[r].kind = "remove" /\ op[r].id \in DOMAIN work /\ made' = made
             /\ EndsWith(r, Removed(work, op[r].id))
    <3>1. DOMAIN rows' = DOMAIN work \ {op[r].id} /\ SameOrder(work, rows', DOMAIN rows')
      BY <1>2, <2>2, <2>5, RemovedFits DEF EndsWith
    <3>2. SameOrder(rows, rows', DOMAIN rows')
      BY <2>2, <3>1 DEF SameOrder
    <3>3. DOMAIN rows' \in SUBSET DOMAIN rows
      BY <2>2, <3>1
    <3>4. QED
      BY <1>1, <1>2, <3>2, <3>3, DropsItems
  <2>6. CASE /\ op[r].kind = "reorder" /\ ToSet(op[r].order) = DOMAIN work /\ made' = made
             /\ EndsWith(r, Reordered(work, op[r].order))
    <3>1. op[r].order \in Seq(Nat) /\ IsInjective(op[r].order)
      BY <2>6, RequestsFit DEF PlaylistInv
    <3>2. Listing(rows') = op[r].order
      BY <1>2, <2>6, <3>1, ReorderedFits DEF EndsWith
    <3>3. QED
      BY <1>1, <1>2, <2>2, <2>6, <3>2, ArrangesItems
  <2>7. QED
    BY <1>5, TransactionEnds, <2>3, <2>4, <2>5, <2>6
<1>6. CASE ProjectsItems(r)
  <2>1. rows' = Cleaned(rows)
    BY <1>6 DEF ProjectsItems
  <2>2. DOMAIN rows' \in SUBSET DOMAIN rows /\ SameOrder(rows, rows', DOMAIN rows')
    BY <1>2, <2>1, CleanedFits
  <2>3. QED
    BY <1>1, <1>2, <2>2, DropsItems
<1>7. Aside(r) \/ Transaction(r) \/ RollsBack(r) \/ ProjectsItems(r)
  BY PlaylistSteps DEF PlaylistInv
<1>8. QED
  BY <1>3, <1>4, <1>5, <1>6, <1>7
     DEF Aside, Transaction, Locks, CleansUp, Creates, Updates, Deletes, RollsBack

(* The rows and their positions implement the ordered list of PlaylistOrder: *)
(* however the transactions, the clean-ups and the catalog interleave, each  *)
(* step drops entries, places one where it was asked for, or takes the order *)
(* that was asked for of all that is left.                                   *)
THEOREM ListIsOrdered == Spec => OrderedList
<1>1. Init => PlaylistInv /\ Order!OrderInit
  <2> SUFFICES ASSUME Init PROVE PlaylistInv /\ Order!OrderInit
    OBVIOUS
  <2>1. PlaylistInv
    BY StartPlaylist
  <2>2. made \in Nat /\ made <= MaxId /\ rows \in RowsOf(made) /\ MaxId \in Nat
    BY <2>1, PlaylistAssumption DEF PlaylistInv, PlaylistTypes
  <2>3. DOMAIN rows \subseteq Ids
    BY <2>2, RowsAreFunctions DEF Ids
  <2>4. QED
    BY <2>1, <2>2, <2>3, ListingFits DEF Order!OrderInit
<1>2. PlaylistInv /\ [Next]_vars => PlaylistInv' /\ [Order!OrderNext]_<<Listing(rows), op>>
  <2> SUFFICES ASSUME PlaylistInv, [Next]_vars
               PROVE  PlaylistInv' /\ [Order!OrderNext]_<<Listing(rows), op>>
    OBVIOUS
  <2>1. ASSUME NEW r \in Requests, RequestSteps(r)
        PROVE  PlaylistInv' /\ [Order!OrderNext]_<<Listing(rows), op>>
    BY <2>1, StepPlaylist, StepOrders
  <2>2. ASSUME Lags \/ Receives \/ Fetches \/ UNCHANGED vars
        PROVE  PlaylistInv' /\ [Order!OrderNext]_<<Listing(rows), op>>
    <3>1. UNCHANGED playlistVars /\ UNCHANGED <<rows, op>>
      BY <2>2, OthersLeavePlaylist DEF playlistVars, itemVars, requestVars
    <3>2. UNCHANGED <<Listing(rows), op>>
      BY <3>1
    <3>3. QED
      BY <3>1, <3>2, KeepsPlaylist
  <2>3. QED
    BY <2>1, <2>2 DEF Next
<1>3. QED
  BY <1>1, <1>2, PTL DEF Spec, OrderedList, Order!OrderSpec

-----------------------------------------------------------------------------
(* What the screens have to show.                                          *)

FactsTyped ==
    /\ facts \in [favorite : Nat, progress : Nat, history : Nat, catalog : Nat]
    /\ row \in [version : Nat, there : BOOLEAN]

LEMMA OneValue ==
  ASSUME NEW a \in Nat
  PROVE  <<a>> \in Values
BY DEF Values

LEMMA TwoValues ==
  ASSUME NEW a \in Nat, NEW b \in Nat \cup Seq(Nat)
  PROVE  <<a, b>> \in Values
BY DEF Values

LEMMA ThreeValues ==
  ASSUME NEW a \in Nat, NEW b \in Nat \cup Seq(Nat), NEW c \in Nat
  PROVE  <<a, b, c>> \in Values
BY DEF Values

LEMMA TruthIsValue ==
  ASSUME FactsTyped, NEW n \in Nat, rows \in RowsOf(n), NEW s \in Surfaces
  PROVE  Truth(s) \in Values
<1>1. /\ facts.favorite \in Nat /\ facts.progress \in Nat /\ facts.history \in Nat
      /\ facts.catalog \in Nat /\ row.version \in Nat
  BY DEF FactsTyped
<1>2. Remaining(rows) \in Seq(Nat)
  BY CleanedFits
<1>3. /\ s = "list" => Truth(s) = <<row.version>>
      /\ s = "detail" => Truth(s) = <<row.version, Remaining(rows), facts.favorite>>
      /\ s = "favorites" => Truth(s) = <<facts.favorite, facts.catalog>>
      /\ s = "continue" => Truth(s) = <<facts.progress, facts.favorite, facts.catalog>>
      /\ s = "recent" => Truth(s) = <<facts.history, facts.favorite, facts.catalog>>
      /\ s = "recentItems" => Truth(s) = <<facts.history, row.version, facts.catalog>>
      /\ s = "progress" => Truth(s) = <<facts.progress>>
      /\ s = "history" => Truth(s) = <<facts.history>>
      /\ s = "releases" => Truth(s) = <<facts.catalog>>
  BY DEF Truth, PlaylistRow, PlaylistSnapshot, FavoriteEntries, HomeContinue, HomeRecent,
         HomeRecentItems, HomeReleases
<1>4. QED
  BY <1>1, <1>2, <1>3, OneValue, TwoValues, ThreeValues DEF Surfaces

LEMMA EventsFit ==
  ASSUME NEW kind \in ItemKinds \cup {"create", "update", "delete", "toggle", "favor", "unfavor",
                                      "progress", "history", "import", "others"}
  PROVE  /\ EventsOf(kind) \in Seq(Events) /\ EventsOf(kind) # <<>>
         /\ kind = "others" => \A i \in DOMAIN EventsOf(kind) : EventsOf(kind)[i].surfaces = {}
<1>1. /\ Event({"list"}, "row") \in Events
      /\ Event({"detail"}, "removed") \in Events
      /\ Event({"detail"}, "detail") \in Events
      /\ Event({"continue", "recent"}, "project") \in Events
      /\ Event({"favorites"}, "project") \in Events
      /\ Event({"continue"}, "project") \in Events
      /\ Event({"progress"}, "row") \in Events
      /\ Event({"recentItems", "recent"}, "project") \in Events
      /\ Event({"history"}, "row") \in Events
      /\ Event({"releases"}, "project") \in Events
      /\ Event({}, "marker") \in Events /\ Event({}, "marker").surfaces = {}
  BY DEF Event, Events, Surfaces
<1>2. \A a, b \in Events : <<a>> \in Seq(Events) /\ <<a, b>> \in Seq(Events)
                           /\ <<a>> # <<>> /\ <<a, b>> # <<>>
  OBVIOUS
<1>3. CASE kind \in {"create", "update", "delete"} \cup ItemKinds
  <2>1. EventsOf(kind) = <<Event({"list"}, "row"),
                           Event({"detail"}, IF kind = "delete" THEN "removed" ELSE "detail")>>
    BY <1>3 DEF EventsOf, PlaylistEvents, ItemKinds
  <2>2. QED
    BY <1>1, <1>2, <1>3, <2>1 DEF ItemKinds
<1>4. CASE kind \in {"toggle", "favor", "unfavor"}
  <2>1. EventsOf(kind) = <<Event({"continue", "recent"}, "project"), Event({"favorites"}, "project")>>
    BY <1>4 DEF EventsOf, FavoriteEvents, ItemKinds
  <2>2. QED
    BY <1>1, <1>2, <1>4, <2>1
<1>5. CASE kind = "progress"
  <2>1. EventsOf(kind) = <<Event({"continue"}, "project"), Event({"progress"}, "row")>>
    BY <1>5 DEF EventsOf, ProgressEvents, ItemKinds
  <2>2. QED
    BY <1>1, <1>2, <1>5, <2>1
<1>6. CASE kind = "history"
  <2>1. EventsOf(kind) = <<Event({"recentItems", "recent"}, "project"), Event({"history"}, "row")>>
    BY <1>6 DEF EventsOf, HistoryEvents, ItemKinds
  <2>2. QED
    BY <1>1, <1>2, <1>6, <2>1
<1>7. CASE kind = "import"
  <2>1. EventsOf(kind) = <<Event({"releases"}, "project")>>
    BY <1>7 DEF EventsOf, ImportEvents, ItemKinds
  <2>2. QED
    BY <1>1, <1>2, <1>7, <2>1
<1>8. CASE kind = "others"
  <2>1. EventsOf(kind) = <<Event({}, "marker")>>
    BY <1>8 DEF EventsOf, ItemKinds
  <2>2. QED
    BY <1>1, <1>2, <2>1
<1>9. QED
  BY <1>3, <1>4, <1>5, <1>6, <1>7, <1>8

LEMMA RowsFit ==
  ASSUME NEW events \in Seq(Events)
  PROVE  Rows(events) \in SUBSET Surfaces
<1>1. \A i \in DOMAIN events : events[i] \in Events
  OBVIOUS
<1>2. QED
  BY <1>1 DEF Rows, Events

(* The event at hand and those after it. *)
LEMMA CurrentFits ==
  ASSUME NEW events \in Seq(Events), events # <<>>
  PROVE  /\ events[1] \in Events /\ events[1].surfaces \in SUBSET Surfaces
         /\ events[1].how \in {"detail", "removed"} => events[1].surfaces = {"detail"}
         /\ Tail(events) \in Seq(Events)
         /\ Len(events) = 1 <=> Tail(events) = <<>>
         /\ 1 \in DOMAIN events
         /\ \A i \in DOMAIN Tail(events) : i + 1 \in DOMAIN events /\ Tail(events)[i] = events[i + 1]
         /\ \A i \in DOMAIN events : i = 1 \/ (i - 1 \in DOMAIN Tail(events) /\ Tail(events)[i - 1] = events[i])
<1>1. Len(events) \in Nat /\ Len(events) # 0 /\ DOMAIN events = 1..Len(events)
  BY EmptySeq
<1>2. 1 \in DOMAIN events /\ events[1] \in Events
  BY <1>1
<1>3. /\ Tail(events) \in Seq(Events) /\ Len(Tail(events)) = Len(events) - 1
      /\ \A i \in 1..Len(Tail(events)) : Tail(events)[i] = events[i + 1]
      /\ DOMAIN Tail(events) = 1..(Len(events) - 1)
  BY HeadTailProperties
<1>4. Len(events) = 1 <=> Tail(events) = <<>>
  BY <1>1, <1>3, EmptySeq
<1>5. /\ \A i \in DOMAIN Tail(events) : i + 1 \in DOMAIN events /\ Tail(events)[i] = events[i + 1]
      /\ \A i \in DOMAIN events : i = 1 \/ (i - 1 \in DOMAIN Tail(events) /\ Tail(events)[i - 1] = events[i])
  BY <1>1, <1>3
<1>6. events[1].surfaces \in SUBSET Surfaces
      /\ (events[1].how \in {"detail", "removed"} => events[1].surfaces = {"detail"})
  BY <1>2 DEF Events
<1>7. QED
  BY <1>2, <1>3, <1>4, <1>5, <1>6

(* What is read for the event at hand replaces what was held for it. *)
LEMMA ReadingFits ==
  ASSUME held \in [Requests -> Contents], NEW r \in Requests, NEW content \in Contents,
         Reading(r, content)
  PROVE  /\ held' \in [Requests -> Contents]
         /\ \A q \in Requests \ {r} : held'[q] = held[q]
         /\ DOMAIN held'[r] = (DOMAIN held[r] \ Current(r).surfaces) \cup DOMAIN content
         /\ \A s \in DOMAIN held'[r] :
                held'[r][s] = IF s \in DOMAIN content THEN content[s] ELSE held[r][s]
<1> DEFINE h == [s \in (DOMAIN held[r] \ Current(r).surfaces) \cup DOMAIN content |->
                    IF s \in DOMAIN content THEN content[s] ELSE held[r][s]]
<1>1. held' = [held EXCEPT ![r] = h]
  BY DEF Reading
<1>2. PICK S \in SUBSET Surfaces : held[r] \in [S -> Values]
  BY DEF Contents
<1>3. PICK T \in SUBSET Surfaces : content \in [T -> Values]
  BY DEF Contents
<1> DEFINE U == (S \ Current(r).surfaces) \cup T
<1>4. h = [s \in U |-> IF s \in T THEN content[s] ELSE held[r][s]] /\ U \in SUBSET Surfaces
  BY <1>2, <1>3
<1>5. \A s \in U : (IF s \in T THEN content[s] ELSE held[r][s]) \in Values
  BY <1>2, <1>3
<1>6. h \in [U -> Values]
  BY <1>4, <1>5
<1>7. h \in Contents
  BY <1>4, <1>6 DEF Contents
<1>8. held'[r] = h
  BY <1>1
<1>9. QED
  BY <1>1, <1>4, <1>7, <1>8

LEMMA NothingFits == Nothing \in Contents /\ DOMAIN Nothing = {}
<1>1. Nothing \in [{} -> Values]
  BY DEF Nothing
<1>2. QED
  BY <1>1 DEF Contents, Nothing

-----------------------------------------------------------------------------
(* What a step does to the events: it leaves them alone, it declares those   *)
(* of a change, or it is one of the steps of the announcement.               *)

Announcers == ItemKinds \cup {"create", "update", "delete", "toggle", "favor", "unfavor",
                              "progress", "history", "import", "others"}

Mutes(r) ==
    /\ UNCHANGED eventVars
    /\ phase[r] \notin Announcing /\ phase'[r] \notin Announcing
    /\ phase'[r] = "reread" => op[r].kind \in ItemKinds
    /\ phase[r] = "reread" => phase'[r] = "done"
    /\ phase'[r] \in {"revision", "content"} =>
           op[r].kind \in Pages \/ phase[r] \in {"revision", "content"}

Declares(r) ==
    /\ Announces(r)
    /\ phase[r] \notin Announcing \cup {"reread"} /\ phase'[r] = "announce"
    /\ op[r].kind \in Announcers
    /\ UNCHANGED <<number, log, sent>>

LEMMA EventSteps ==
  ASSUME RequestTypes, NEW r \in Requests, RequestSteps(r)
  PROVE  \/ Mutes(r)
         \/ Declares(r)
         \/ Rereads(r) \/ Projects(r) \/ ProjectsRow(r) \/ ProjectsItems(r) \/ ReadFails(r)
         \/ TakesNumber(r) \/ Sends(r) \/ StopsAnnouncing(r)
<1> USE DEF RequestTypes, Announcing
<1>1. CASE Asks(r)
  <2>1. /\ First(op[r].kind) \in {"lock", "write", "revision", "store"}
        /\ First(op[r].kind) = "revision" => op[r].kind \in Pages
    BY DEF First, Pages
  <2>2. QED
    BY <1>1, <2>1 DEF Asks, Goes, Mutes
<1>2. CASE Stores(r)
  <2>1. CASE Locks(r)
    <3>1. phase[r] = "lock" /\ phase'[r] \in {"clean", "done"}
      BY <2>1 DEF Locks, Goes, Returns
    <3>2. QED
      BY <1>2, <3>1 DEF Stores, Mutes, eventVars
  <2>2. CASE CleansUp(r)
    <3>1. phase[r] = "clean" /\ phase'[r] = "apply"
      BY <2>2 DEF CleansUp, Goes
    <3>2. QED
      BY <1>2, <3>1 DEF Stores, Mutes, eventVars
  <2>3. CASE Adds(r) \/ Removes(r) \/ Reorders(r) \/ Lists(r)
    <3>1. /\ phase[r] = "apply" /\ phase'[r] \in {"reread", "done"}
          /\ phase'[r] = "reread" => op[r].kind \in ItemKinds
      BY <2>3 DEF Adds, Removes, Reorders, Lists, Refuses, Commits, Goes, Returns, ItemKinds
    <3>2. QED
      BY <1>2, <3>1 DEF Stores, Mutes, eventVars
  <2>4. CASE Creates(r) \/ Updates(r) \/ Deletes(r)
    <3>1. /\ phase[r] = "write" /\ phase'[r] \in {"announce", "done"}
          /\ op[r].kind \in {"create", "update", "delete"}
      BY <2>4 DEF Creates, Updates, Deletes, Goes, Returns
    <3>2. QED
      BY <1>2, <3>1 DEF Stores, Mutes, Declares, Announcers, eventVars
  <2>5. QED
    BY <1>2, <2>1, <2>2, <2>3, <2>4 DEF Stores, Transaction
<1>3. CASE RereadsNothing(r)
  BY <1>3 DEF RereadsNothing, Goes, Mutes
<1>4. CASE RollsBack(r) /\ UNCHANGED <<facts, eventVars, page, clientVars>>
  BY <1>4 DEF RollsBack, Returns, Goes, Mutes
<1>5. CASE Records(r)
  BY <1>5 DEF Records, Writes, Goes, Declares, Announcers
<1>6. CASE Imports(r)
  BY <1>6 DEF Imports, Writes, Goes, Declares, Announcers
<1>7. CASE Elsewhere(r)
  BY <1>7 DEF Elsewhere, Goes, Declares, Announcers
<1>8. CASE Toggles(r)
  <2>1. op[r].kind = "toggle" /\ UNCHANGED <<number, log, sent>>
    BY <1>8 DEF Toggles
  <2>2. phase[r] \in {"store", "unfavor"}
    BY <1>8 DEF Toggles
  <2>3. \/ phase'[r] = "announce" /\ Announces(r)
        \/ phase'[r] = "unfavor" /\ UNCHANGED <<todo, held>>
    BY <1>8 DEF Toggles, Writes, Keeps, Goes
  <2>4. QED
    BY <2>1, <2>2, <2>3 DEF Mutes, Declares, Announcers, eventVars
<1>9. CASE Favors(r)
  <2>1. op[r].kind = "favor" /\ UNCHANGED <<number, log, sent>>
    BY <1>9 DEF Favors
  <2>2. phase[r] \in {"store", "insert", "insertQuietly"}
    BY <1>9 DEF Favors
  <2>3. \/ phase'[r] = "announce" /\ Announces(r)
        \/ phase'[r] \in {"insert", "insertQuietly", "done"} /\ UNCHANGED <<todo, held>>
    BY <1>9 DEF Favors, Writes, Keeps, Goes, Returns
  <2>4. QED
    BY <2>1, <2>2, <2>3 DEF Mutes, Declares, Announcers, eventVars
<1>10. CASE Unfavors(r)
  <2>1. op[r].kind = "unfavor" /\ UNCHANGED <<number, log, sent>> /\ phase[r] = "store"
    BY <1>10 DEF Unfavors
  <2>2. \/ phase'[r] = "announce" /\ Announces(r)
        \/ phase'[r] = "done" /\ UNCHANGED <<todo, held>>
    BY <1>10 DEF Unfavors, Writes, Keeps, Goes
  <2>3. QED
    BY <2>1, <2>2 DEF Mutes, Declares, Announcers, eventVars
<1>11. CASE ReadsRevision(r)
  BY <1>11 DEF ReadsRevision, Goes, Mutes
<1>12. CASE ReadsContent(r)
  BY <1>12 DEF ReadsContent, Goes, Mutes
<1>13. QED
  BY <1>1, <1>2, <1>3, <1>4, <1>5, <1>6, <1>7, <1>8, <1>9, <1>10, <1>11, <1>12 DEF RequestSteps

(* What a step of the announcement does to the request. *)
LEMMA AnnouncementMoves ==
  ASSUME RequestTypes, NEW r \in Requests
  PROVE  /\ Rereads(r) => phase[r] = "reread" /\ phase'[r] = "announce"
         /\ Projects(r) => phase[r] = "announce" /\ phase'[r] = "read"
         /\ ProjectsRow(r) => phase[r] = "announce" /\ phase'[r] = "items"
         /\ ProjectsItems(r) => phase[r] = "items" /\ phase'[r] = "read"
         /\ ReadFails(r) => phase[r] \in {"announce", "items"} /\ phase'[r] = "read"
         /\ TakesNumber(r) => phase[r] \in {"announce", "read"} /\ phase'[r] = "send"
         /\ Sends(r) => /\ phase[r] = "send"
                        /\ phase'[r] = IF Len(todo[r]) = 1 THEN "done" ELSE "announce"
         /\ StopsAnnouncing(r) =>
                /\ phase[r] \in {"reread", "announce", "items", "unfavor", "insert", "insertQuietly"}
                /\ phase'[r] = "done"
<1> USE DEF RequestTypes, Goes, Reads
<1>1. Rereads(r) => phase[r] = "reread" /\ phase'[r] = "announce"
  BY DEF Rereads
<1>2. Projects(r) => phase[r] = "announce" /\ phase'[r] = "read"
  BY DEF Projects
<1>3. ProjectsRow(r) => phase[r] = "announce" /\ phase'[r] = "items"
  BY DEF ProjectsRow
<1>4. ProjectsItems(r) => phase[r] = "items" /\ phase'[r] = "read"
  BY DEF ProjectsItems
<1>5. ReadFails(r) => phase[r] \in {"announce", "items"} /\ phase'[r] = "read"
  BY DEF ReadFails
<1>6. TakesNumber(r) => phase[r] \in {"announce", "read"} /\ phase'[r] = "send"
  BY DEF TakesNumber
<1>7. Sends(r) => phase[r] = "send" /\ phase'[r] = IF Len(todo[r]) = 1 THEN "done" ELSE "announce"
  BY DEF Sends
<1>8. StopsAnnouncing(r) =>
          /\ phase[r] \in {"reread", "announce", "items", "unfavor", "insert", "insertQuietly"}
          /\ phase'[r] = "done"
  BY DEF StopsAnnouncing
<1>9. QED
  BY <1>1, <1>2, <1>3, <1>4, <1>5, <1>6, <1>7, <1>8

-----------------------------------------------------------------------------
(* What a step does to what the screens have to show.                      *)

Bumps(fact) == facts' = [facts EXCEPT ![fact] = @ + 1] /\ UNCHANGED row

DataSteps(r) ==
    \/ UNCHANGED <<facts, row>>
    \/ /\ UNCHANGED facts
       /\ row' \in [version : Nat, there : BOOLEAN] /\ row'.version = row.version + 1
       /\ \/ phase'[r] = "reread"
          \/ phase'[r] = "announce" /\ Announces(r) /\ op[r].kind \in {"create", "update", "delete"}
    \/ /\ Bumps("favorite")
       /\ \/ phase[r] = "insertQuietly"
          \/ phase'[r] = "announce" /\ Announces(r) /\ op[r].kind \in {"toggle", "favor", "unfavor"}
    \/ /\ Bumps("progress")
       /\ phase'[r] = "announce" /\ Announces(r) /\ op[r].kind = "progress"
    \/ /\ Bumps("history")
       /\ phase'[r] = "announce" /\ Announces(r) /\ op[r].kind = "history"
    \/ /\ Bumps("catalog")
       /\ phase'[r] = "announce" /\ Announces(r) /\ op[r].kind = "import"

LEMMA StepData ==
  ASSUME RequestTypes, FactsTyped, NEW r \in Requests, RequestSteps(r)
  PROVE  DataSteps(r)
<1> USE DEF RequestTypes
<1>0. /\ row \in [version : Nat, there : BOOLEAN]
      /\ [row EXCEPT !.version = @ + 1] = [version |-> row.version + 1, there |-> row.there]
      /\ row.version + 1 \in Nat
  BY DEF FactsTyped
<1>1. CASE Asks(r)
  BY <1>1 DEF Asks, itemVars, DataSteps
<1>2. CASE Stores(r)
  <2>1. CASE Locks(r)
    BY <1>2, <2>1 DEF Stores, Locks, DataSteps
  <2>2. CASE CleansUp(r)
    BY <1>2, <2>2 DEF Stores, CleansUp, DataSteps
  <2>3. CASE Adds(r) \/ Removes(r) \/ Reorders(r) \/ Lists(r)
    <3>1. ASSUME NEW t, Commits(r, t)
          PROVE  DataSteps(r)
      <4>1. row' = [version |-> row.version + 1, there |-> row.there] /\ phase'[r] = "reread"
        BY <1>0, <3>1 DEF Commits, Goes
      <4>2. QED
        BY <1>0, <1>2, <4>1 DEF Stores, DataSteps
    <3>2. ASSUME CommitsCleanUp
          PROVE  DataSteps(r)
      BY <1>2, <3>2 DEF Stores, CommitsCleanUp, DataSteps
    <3>3. QED
      BY <2>3, <3>1, <3>2 DEF Adds, Removes, Reorders, Lists, Refuses
  <2>4. CASE Creates(r)
    <3>1. /\ row' = [version |-> 1, there |-> TRUE] /\ row.version = 0
          /\ phase'[r] = "announce" /\ op[r].kind = "create"
      BY <2>4 DEF Creates, Unborn, Goes
    <3>2. QED
      BY <1>2, <3>1 DEF Stores, DataSteps
  <2>5. CASE Updates(r)
    <3>1. CASE Exists
      <4>1. /\ row' = [version |-> row.version + 1, there |-> row.there]
            /\ phase'[r] = "announce" /\ op[r].kind = "update"
        BY <1>0, <2>5, <3>1 DEF Updates, Goes
      <4>2. QED
        BY <1>0, <1>2, <4>1 DEF Stores, DataSteps
    <3>2. CASE ~Exists
      BY <1>2, <2>5, <3>2 DEF Stores, Updates, DataSteps
    <3>3. QED
      BY <3>1, <3>2
  <2>6. CASE Deletes(r)
    <3>1. CASE Exists
      <4>1. /\ row' = [version |-> row.version + 1, there |-> FALSE]
            /\ phase'[r] = "announce" /\ op[r].kind = "delete"
        BY <2>6, <3>1 DEF Deletes, Goes
      <4>2. QED
        BY <1>0, <1>2, <4>1 DEF Stores, DataSteps
    <3>2. CASE ~Exists
      BY <1>2, <2>6, <3>2 DEF Stores, Deletes, DataSteps
    <3>3. QED
      BY <3>1, <3>2
  <2>7. QED
    BY <1>2, <2>1, <2>2, <2>3, <2>4, <2>5, <2>6 DEF Stores, Transaction
<1>3. CASE Rereads(r) \/ RereadsNothing(r)
  BY <1>3 DEF Rereads, RereadsNothing, itemVars, DataSteps
<1>4. CASE RollsBack(r) /\ UNCHANGED <<facts, eventVars, page, clientVars>>
  BY <1>4 DEF RollsBack, DataSteps
<1>5. CASE Records(r)
  <2>1. phase'[r] = "announce" /\ Announces(r) /\ Bumps(op[r].kind)
    BY <1>5 DEF Records, Writes, Goes, Bumps, itemVars
  <2>2. QED
    BY <1>5, <2>1 DEF Records, DataSteps
<1>6. CASE Imports(r)
  <2>1. phase'[r] = "announce" /\ Announces(r) /\ Bumps("catalog")
    BY <1>6 DEF Imports, CatalogChanges, Writes, Goes, Bumps
  <2>2. QED
    BY <1>6, <2>1 DEF Imports, DataSteps
<1>7. CASE Elsewhere(r)
  BY <1>7 DEF Elsewhere, itemVars, DataSteps
<1>8. CASE Toggles(r)
  <2>1. \/ UNCHANGED facts
        \/ phase'[r] = "announce" /\ Announces(r) /\ facts' = [facts EXCEPT !["favorite"] = @ + 1]
    BY <1>8 DEF Toggles, Writes, Keeps, Goes
  <2>2. UNCHANGED row /\ op[r].kind = "toggle"
    BY <1>8 DEF Toggles, itemVars
  <2>3. QED
    BY <2>1, <2>2 DEF Bumps, DataSteps
<1>9. CASE Favors(r)
  <2>1. UNCHANGED row /\ op[r].kind = "favor"
    BY <1>9 DEF Favors, itemVars
  <2>2. CASE phase[r] = "store"
    BY <1>9, <2>1, <2>2 DEF Favors, Keeps, DataSteps
  <2>3. CASE phase[r] = "insert"
    <3>1. \/ UNCHANGED facts
          \/ phase'[r] = "announce" /\ Announces(r) /\ facts' = [facts EXCEPT !["favorite"] = @ + 1]
      BY <1>9, <2>3 DEF Favors, Writes, Goes
    <3>2. QED
      BY <2>1, <3>1 DEF Bumps, DataSteps
  <2>4. CASE phase[r] = "insertQuietly"
    <3>1. facts' = [facts EXCEPT !.favorite = IF Favorite THEN @ ELSE @ + 1]
      BY <1>9, <2>4 DEF Favors
    <3>2. UNCHANGED facts \/ facts' = [facts EXCEPT !["favorite"] = @ + 1]
      BY <3>1 DEF FactsTyped
    <3>3. QED
      BY <2>1, <2>4, <3>2 DEF Bumps, DataSteps
  <2>5. QED
    BY <1>9, <2>2, <2>3, <2>4 DEF Favors
<1>10. CASE Unfavors(r)
  <2>1. \/ UNCHANGED facts
        \/ phase'[r] = "announce" /\ Announces(r) /\ facts' = [facts EXCEPT !["favorite"] = @ + 1]
    BY <1>10 DEF Unfavors, Writes, Keeps, Goes
  <2>2. UNCHANGED row /\ op[r].kind = "unfavor"
    BY <1>10 DEF Unfavors, itemVars
  <2>3. QED
    BY <2>1, <2>2 DEF Bumps, DataSteps
<1>11. CASE Projects(r) \/ ProjectsRow(r) \/ ProjectsItems(r) \/ ReadFails(r)
  BY <1>11 DEF Projects, ProjectsRow, ProjectsItems, ReadFails, itemVars, DataSteps
<1>12. CASE TakesNumber(r) \/ Sends(r) \/ StopsAnnouncing(r)
  BY <1>12 DEF TakesNumber, Sends, StopsAnnouncing, itemVars, DataSteps
<1>13. CASE ReadsRevision(r) \/ ReadsContent(r)
  BY <1>13 DEF ReadsRevision, ReadsContent, itemVars, DataSteps
<1>14. QED
  BY <1>1, <1>2, <1>3, <1>4, <1>5, <1>6, <1>7, <1>8, <1>9, <1>10, <1>11, <1>12, <1>13
     DEF RequestSteps

(* The numbers of the database only grow. *)
LEMMA DataGrows ==
  ASSUME FactsTyped, NEW r \in Requests, DataSteps(r)
  PROVE  /\ FactsTyped'
         /\ facts'.favorite >= facts.favorite /\ facts'.progress >= facts.progress
         /\ facts'.history >= facts.history /\ facts'.catalog >= facts.catalog
         /\ row'.version >= row.version
<1>1. /\ row \in [version : Nat, there : BOOLEAN]
      /\ facts \in [favorite : Nat, progress : Nat, history : Nat, catalog : Nat]
  BY DEF FactsTyped
<1>2. CASE UNCHANGED <<facts, row>>
  BY <1>1, <1>2 DEF FactsTyped
<1>3. CASE /\ UNCHANGED facts
           /\ row' \in [version : Nat, there : BOOLEAN] /\ row'.version = row.version + 1
  BY <1>1, <1>3 DEF FactsTyped
<1>4. CASE Bumps("favorite")
  <2>1. UNCHANGED row /\ facts' = [facts EXCEPT !.favorite = @ + 1]
    BY <1>4 DEF Bumps
  <2>2. QED
    BY <1>1, <2>1 DEF FactsTyped
<1>5. CASE Bumps("progress")
  <2>1. UNCHANGED row /\ facts' = [facts EXCEPT !.progress = @ + 1]
    BY <1>5 DEF Bumps
  <2>2. QED
    BY <1>1, <2>1 DEF FactsTyped
<1>6. CASE Bumps("history")
  <2>1. UNCHANGED row /\ facts' = [facts EXCEPT !.history = @ + 1]
    BY <1>6 DEF Bumps
  <2>2. QED
    BY <1>1, <2>1 DEF FactsTyped
<1>7. CASE Bumps("catalog")
  <2>1. UNCHANGED row /\ facts' = [facts EXCEPT !.catalog = @ + 1]
    BY <1>7 DEF Bumps
  <2>2. QED
    BY <1>1, <2>1 DEF FactsTyped
<1>8. QED
  BY <1>2, <1>3, <1>4, <1>5, <1>6, <1>7 DEF DataSteps

(* The screens a declared change is about. *)
LEMMA DeclaredSurfaces ==
  ASSUME todo \in [Requests -> Seq(Events)], NEW r \in Requests, Announces(r), phase'[r] = "announce"
  PROVE  /\ op[r].kind \in {"create", "update", "delete"} => {"list", "detail"} \subseteq Owes(r)'
         /\ op[r].kind \in {"toggle", "favor", "unfavor"} =>
                {"continue", "recent", "favorites"} \subseteq Owes(r)'
         /\ op[r].kind = "progress" => {"continue", "progress"} \subseteq Owes(r)'
         /\ op[r].kind = "history" => {"recentItems", "recent", "history"} \subseteq Owes(r)'
         /\ op[r].kind = "import" => "releases" \in Owes(r)'
<1>1. todo'[r] = EventsOf(op[r].kind)
  BY DEF Announces
<1>2. Owes(r)' = UNION {todo'[r][i].surfaces : i \in DOMAIN todo'[r]}
  BY DEF Owes
<1>3. ASSUME NEW a, NEW b, todo'[r] = <<a, b>>
      PROVE  Owes(r)' = a.surfaces \cup b.surfaces
  BY <1>2, <1>3
<1>4. CASE op[r].kind \in {"create", "update", "delete"}
  <2>1. todo'[r] = <<Event({"list"}, "row"),
                     Event({"detail"}, IF op[r].kind = "delete" THEN "removed" ELSE "detail")>>
    BY <1>1, <1>4 DEF EventsOf, PlaylistEvents
  <2>2. QED
    BY <1>3, <1>4, <2>1 DEF Event
<1>5. CASE op[r].kind \in {"toggle", "favor", "unfavor"}
  <2>1. todo'[r] = <<Event({"continue", "recent"}, "project"), Event({"favorites"}, "project")>>
    BY <1>1, <1>5 DEF EventsOf, FavoriteEvents, ItemKinds
  <2>2. QED
    BY <1>3, <1>5, <2>1 DEF Event
<1>6. CASE op[r].kind = "progress"
  <2>1. todo'[r] = <<Event({"continue"}, "project"), Event({"progress"}, "row")>>
    BY <1>1, <1>6 DEF EventsOf, ProgressEvents, ItemKinds
  <2>2. QED
    BY <1>3, <1>6, <2>1 DEF Event
<1>7. CASE op[r].kind = "history"
  <2>1. todo'[r] = <<Event({"recentItems", "recent"}, "project"), Event({"history"}, "row")>>
    BY <1>1, <1>7 DEF EventsOf, HistoryEvents, ItemKinds
  <2>2. QED
    BY <1>3, <1>7, <2>1 DEF Event
<1>8. CASE op[r].kind = "import"
  <2>1. todo'[r] = <<Event({"releases"}, "project")>>
    BY <1>1, <1>8 DEF EventsOf, ImportEvents, ItemKinds
  <2>2. QED
    BY <1>2, <1>8, <2>1 DEF Event
<1>9. QED
  BY <1>4, <1>5, <1>6, <1>7, <1>8

(* A change of what a screen has to show is announced, or is one of those   *)
(* nobody announces.                                                        *)
LEMMA ChangesAreAnnounced ==
  ASSUME FactsTyped, todo \in [Requests -> Seq(Events)], NEW r \in Requests, DataSteps(r),
         NEW s \in Surfaces, Truth(s)' # Truth(s)
  PROVE  s \in Owes(r)' \/ Unannounced({r}, s)
<1>1. CASE s = "detail" /\ row' = row
  BY <1>1 DEF Unannounced
<1>2. CASE row' # row
  <2>1. /\ UNCHANGED facts
        /\ \/ phase'[r] = "reread"
           \/ phase'[r] = "announce" /\ Announces(r) /\ op[r].kind \in {"create", "update", "delete"}
    BY <1>2 DEF DataSteps, Bumps
  <2>2. s \in {"list", "detail", "recentItems"}
    BY <2>1 DEF Surfaces, Truth, FavoriteEntries, HomeContinue, HomeRecent, HomeReleases
  <2>3. s = "recentItems" => Unannounced({r}, s)
    BY <1>2 DEF Unannounced
  <2>4. {"list", "detail"} \subseteq Owes(r)'
    BY <2>1, DeclaredSurfaces DEF Owes
  <2>5. QED
    BY <2>2, <2>3, <2>4
<1>3. CASE row' = row /\ s # "detail"
  <2>1. /\ s = "list" => Truth(s)' = Truth(s)
        /\ s = "favorites" /\ facts'.favorite = facts.favorite /\ facts'.catalog = facts.catalog
           => Truth(s)' = Truth(s)
        /\ s = "continue" /\ facts'.favorite = facts.favorite /\ facts'.progress = facts.progress
           /\ facts'.catalog = facts.catalog
           => Truth(s)' = Truth(s)
        /\ s = "recent" /\ facts'.favorite = facts.favorite /\ facts'.history = facts.history
           /\ facts'.catalog = facts.catalog
           => Truth(s)' = Truth(s)
        /\ s = "recentItems" /\ facts'.history = facts.history /\ facts'.catalog = facts.catalog
           => Truth(s)' = Truth(s)
        /\ s = "progress" /\ facts'.progress = facts.progress => Truth(s)' = Truth(s)
        /\ s = "history" /\ facts'.history = facts.history => Truth(s)' = Truth(s)
        /\ s = "releases" /\ facts'.catalog = facts.catalog => Truth(s)' = Truth(s)
    BY <1>3 DEF Truth, PlaylistRow, FavoriteEntries, HomeContinue, HomeRecent, HomeRecentItems,
                HomeReleases
  <2>2. UNCHANGED facts => Truth(s)' = Truth(s)
    BY <1>3, <2>1 DEF Surfaces
  <2>3. CASE /\ Bumps("favorite")
             /\ \/ phase[r] = "insertQuietly"
                \/ phase'[r] = "announce" /\ Announces(r) /\ op[r].kind \in {"toggle", "favor", "unfavor"}
    <3>1. /\ facts'.progress = facts.progress /\ facts'.history = facts.history
          /\ facts'.catalog = facts.catalog
      BY <2>3 DEF Bumps, FactsTyped
    <3>2. s \in {"continue", "recent", "favorites"}
      BY <1>3, <2>1, <3>1 DEF Surfaces
    <3>3. QED
      BY <2>3, <3>2, DeclaredSurfaces DEF Unannounced
  <2>4. CASE /\ Bumps("progress")
             /\ phase'[r] = "announce" /\ Announces(r) /\ op[r].kind = "progress"
    <3>1. /\ facts'.favorite = facts.favorite /\ facts'.history = facts.history
          /\ facts'.catalog = facts.catalog
      BY <2>4 DEF Bumps, FactsTyped
    <3>2. s \in {"continue", "progress"}
      BY <1>3, <2>1, <3>1 DEF Surfaces
    <3>3. QED
      BY <2>4, <3>2, DeclaredSurfaces
  <2>5. CASE /\ Bumps("history")
             /\ phase'[r] = "announce" /\ Announces(r) /\ op[r].kind = "history"
    <3>1. /\ facts'.favorite = facts.favorite /\ facts'.progress = facts.progress
          /\ facts'.catalog = facts.catalog
      BY <2>5 DEF Bumps, FactsTyped
    <3>2. s \in {"recentItems", "recent", "history"}
      BY <1>3, <2>1, <3>1 DEF Surfaces
    <3>3. QED
      BY <2>5, <3>2, DeclaredSurfaces
  <2>6. CASE /\ Bumps("catalog")
             /\ phase'[r] = "announce" /\ Announces(r) /\ op[r].kind = "import"
    <3>1. /\ facts'.favorite = facts.favorite /\ facts'.progress = facts.progress
          /\ facts'.history = facts.history
      BY <2>6 DEF Bumps, FactsTyped
    <3>2. s \in {"releases", "continue", "recent", "recentItems", "favorites"}
      BY <1>3, <2>1, <3>1 DEF Surfaces
    <3>3. facts'.catalog # facts.catalog
      BY <2>6 DEF Bumps, FactsTyped
    <3>4. QED
      BY <2>6, <3>2, <3>3, DeclaredSurfaces DEF Unannounced
  <2>7. QED
    BY <2>2, <2>3, <2>4, <2>5, <2>6 DEF DataSteps
<1>4. QED
  BY <1>1, <1>2, <1>3

-----------------------------------------------------------------------------
(* What the steps of the announcement leave.                               *)

LEMMA TruthsAreValues ==
  \A n \in Nat : FactsTyped /\ rows \in RowsOf(n) => \A s \in Surfaces : Truth(s) \in Values
BY TruthIsValue

LEMMA TruthsStayValues ==
  (\A n \in Nat : FactsTyped /\ rows \in RowsOf(n) => \A s \in Surfaces : Truth(s) \in Values)'
BY TruthsAreValues, PTL

LEMMA HeldFits1 ==
  ASSUME EventTypes, NEW r \in Requests
  PROVE  /\ DOMAIN held[r] \in SUBSET Surfaces
         /\ \A s \in DOMAIN held[r] : held[r][s] \in Values
<1>1. PICK S \in SUBSET Surfaces : held[r] \in [S -> Values]
  BY DEF EventTypes, Contents
<1>2. QED
  BY <1>1

(* What an event shows is what was read for it, or that the playlist is gone. *)
LEMMA ShownFits ==
  ASSUME EventTypes, FactsTyped, NEW n \in Nat, rows \in RowsOf(n),
         NEW r \in Requests, todo[r] # <<>>
  PROVE  /\ Shown(r) \in Contents
         /\ DOMAIN Shown(r) \subseteq Current(r).surfaces
         /\ \A s \in DOMAIN Shown(r) :
                \/ Current(r).how = "removed" /\ s = "detail" /\ Shown(r)[s] = Truth(s)
                \/ s \in DOMAIN held[r] /\ Shown(r)[s] = held[r][s]
<1>1. /\ Current(r).surfaces \in SUBSET Surfaces
      /\ Current(r).how = "removed" => Current(r).surfaces = {"detail"}
  BY CurrentFits DEF EventTypes, Current
<1>2. CASE Current(r).how = "removed"
  <2>1. Shown(r) = [s \in {"detail"} |-> Truth("detail")]
    BY <1>2 DEF Shown
  <2>2. Truth("detail") \in Values /\ {"detail"} \in SUBSET Surfaces
    BY TruthIsValue DEF Surfaces
  <2>3. Shown(r) \in [{"detail"} -> Values]
    BY <2>1, <2>2
  <2>4. QED
    BY <1>1, <1>2, <2>1, <2>2, <2>3 DEF Contents
<1>3. CASE Current(r).how = "marker"
  <2>1. Shown(r) = Nothing
    BY <1>3 DEF Shown
  <2>2. QED
    BY <2>1, NothingFits
<1>4. CASE Current(r).how \notin {"removed", "marker"}
  <2>1. Shown(r) = [s \in Current(r).surfaces \cap DOMAIN held[r] |-> held[r][s]]
    BY <1>4 DEF Shown
  <2>2. /\ Current(r).surfaces \cap DOMAIN held[r] \in SUBSET Surfaces
        /\ \A s \in Current(r).surfaces \cap DOMAIN held[r] : held[r][s] \in Values
    BY HeldFits1
  <2>3. Shown(r) \in [Current(r).surfaces \cap DOMAIN held[r] -> Values]
    BY <2>1, <2>2
  <2>4. QED
    BY <2>1, <2>2, <2>3 DEF Contents
<1>5. QED
  BY <1>2, <1>3, <1>4

(* The event is added to the log, and touches all its screens. *)
LEMMA NumberTaken ==
  ASSUME EventTypes, RequestTypes, FactsTyped, NEW n \in Nat, rows \in RowsOf(n),
         NEW r \in Requests, todo[r] # <<>>, TakesNumber(r)
  PROVE  /\ log' \in Seq(LogEntries) /\ Len(log') = Len(log) + 1 /\ Len(log) \in Nat
         /\ \A m \in 1..Len(log) : log'[m] = log[m]
         /\ log'[Len(log) + 1].shows = Shown(r)
         /\ log'[Len(log) + 1].for = op[r].kind
         /\ DOMAIN log'[Len(log) + 1].shows \cup log'[Len(log) + 1].marks = Current(r).surfaces
         /\ number' = [number EXCEPT ![r] = Len(log) + 1]
         /\ UNCHANGED <<todo, held, sent, page, facts, row, rows, eligible>>
<1> DEFINE e == [shows |-> Shown(r), marks |-> Current(r).surfaces \ DOMAIN Shown(r),
                 for |-> op[r].kind]
<1>1. Current(r).surfaces \in SUBSET Surfaces
  BY CurrentFits DEF EventTypes, Current
<1>2. Shown(r) \in Contents /\ DOMAIN Shown(r) \subseteq Current(r).surfaces
  BY ShownFits
<1>3. e \in LogEntries
  BY <1>1, <1>2, RequestsFit DEF LogEntries
<1>4. log' = Append(log, e) /\ log \in Seq(LogEntries)
  BY DEF TakesNumber, EventTypes
<1> HIDE DEF e
<1>5. /\ log' \in Seq(LogEntries) /\ Len(log') = Len(log) + 1 /\ Len(log) \in Nat
      /\ \A m \in 1..Len(log) : log'[m] = log[m]
      /\ log'[Len(log) + 1] = e
  BY <1>3, <1>4, AppendProperties
<1>6. /\ number' = [number EXCEPT ![r] = Len(log')]
      /\ UNCHANGED <<todo, held, sent, page, facts, row, rows, eligible>>
  BY DEF TakesNumber, itemVars
<1>7. DOMAIN log'[Len(log) + 1].shows \cup log'[Len(log) + 1].marks = Current(r).surfaces
  <2>1. e.shows = Shown(r) /\ e.marks = Current(r).surfaces \ DOMAIN Shown(r)
    BY DEF e
  <2>2. QED
    BY <1>2, <1>5, <2>1
<1>8. QED
  BY <1>5, <1>6, <1>7 DEF e

LEMMA EventSent ==
  ASSUME EventTypes, RequestTypes, PhasesFit, NEW r \in Requests, Sends(r)
  PROVE  /\ sent' \in Seq(Nat) /\ Len(sent') = Len(sent) + 1 /\ Len(sent) \in Nat
         /\ \A i \in 1..Len(sent) : sent'[i] = sent[i]
         /\ sent'[Len(sent) + 1] = number[r] /\ number[r] \in 1..Len(log)
         /\ todo[r] # <<>> /\ todo' = [todo EXCEPT ![r] = Tail(todo[r])]
         /\ number' = [number EXCEPT ![r] = None]
         /\ UNCHANGED <<log, page, facts, row, rows, eligible>>
<1>1. phase[r] = "send" /\ sent' = Append(sent, number[r]) /\ sent \in Seq(Nat)
  BY DEF Sends, EventTypes
<1>2. number[r] \in 1..Len(log) /\ todo[r] # <<>>
  BY <1>1 DEF PhasesFit, PhaseFits, Announcing
<1>3. Len(log) \in Nat
  BY LenProperties DEF EventTypes
<1>4. number[r] \in Nat
  BY <1>2, <1>3
<1>5. /\ sent' \in Seq(Nat) /\ Len(sent') = Len(sent) + 1 /\ Len(sent) \in Nat
      /\ \A i \in 1..Len(sent) : sent'[i] = sent[i]
      /\ sent'[Len(sent) + 1] = number[r]
  BY <1>1, <1>4, AppendProperties
<1>6. QED
  BY <1>2, <1>5 DEF Sends, itemVars

(* The types of what the events are made of. *)
LEMMA StepEventTypes ==
  ASSUME PlaylistInv, PlaylistInv', EventTypes, FactsTyped, FactsTyped', PhasesFit,
         NEW r \in Requests, RequestSteps(r)
  PROVE  EventTypes'
<1>1. /\ RequestTypes /\ EventTypes
      /\ todo \in [Requests -> Seq(Events)] /\ held \in [Requests -> Contents]
      /\ number \in [Requests -> Nat \cup {None}] /\ log \in Seq(LogEntries) /\ sent \in Seq(Nat)
      /\ made \in Nat /\ rows \in RowsOf(made) /\ made' \in Nat /\ rows' \in RowsOf(made')
  BY PlaylistAssumption DEF PlaylistInv, PlaylistTypes, EventTypes
<1>2. \A s \in Surfaces : Truth(s) \in Values /\ Truth(s)' \in Values
  BY <1>1, TruthsAreValues, TruthsStayValues
<1>3. CASE Mutes(r)
  BY <1>3 DEF Mutes, eventVars, EventTypes
<1>4. CASE Declares(r)
  <2> DEFINE S == Rows(EventsOf(op[r].kind))
             h == [s \in S |-> Truth(s)']
  <2>1. EventsOf(op[r].kind) \in Seq(Events)
    BY <1>4, EventsFit DEF Declares, Announcers
  <2>2. S \in SUBSET Surfaces
    BY <2>1, RowsFit
  <2>3. h \in [S -> Values]
    BY <1>2, <2>2
  <2>4. h \in Contents
    BY <2>2, <2>3 DEF Contents
  <2>5. /\ todo' = [todo EXCEPT ![r] = EventsOf(op[r].kind)] /\ held' = [held EXCEPT ![r] = h]
        /\ UNCHANGED <<number, log, sent>>
    BY <1>4 DEF Declares, Announces
  <2> HIDE DEF h, S
  <2>6. QED
    BY <1>1, <2>1, <2>4, <2>5 DEF EventTypes
<1>5. CASE Rereads(r)
  <2>1. phase[r] = "reread" /\ op[r].kind \in ItemKinds
    BY <1>5 DEF Rereads, PhasesFit, PhaseFits
  <2>2. EventsOf(op[r].kind) \in Seq(Events)
    BY <2>1, EventsFit
  <2>3. PlaylistRow \in Values
    BY OneValue DEF PlaylistRow, FactsTyped
  <2>4. [s \in {"list"} |-> PlaylistRow] \in Contents
    <3>1. [s \in {"list"} |-> PlaylistRow] \in [{"list"} -> Values] /\ {"list"} \in SUBSET Surfaces
      BY <2>3 DEF Surfaces
    <3>2. QED
      BY <3>1 DEF Contents
  <2>5. /\ todo' = [todo EXCEPT ![r] = EventsOf(op[r].kind)]
        /\ held' = [held EXCEPT ![r] = [s \in {"list"} |-> PlaylistRow]]
        /\ UNCHANGED <<number, log, sent>>
    BY <1>5 DEF Rereads
  <2>6. QED
    BY <1>1, <2>2, <2>4, <2>5 DEF EventTypes
<1>6. ASSUME NEW content \in Contents, Reading(r, content), UNCHANGED <<todo, number, log, sent>>
      PROVE  EventTypes'
  BY <1>1, <1>6, ReadingFits DEF EventTypes
<1>7. CASE Projects(r)
  <2> DEFINE S == Current(r).surfaces
             c == [s \in S |-> Truth(s)]
  <2>1. todo[r] # <<>>
    BY <1>7 DEF Projects, Reads
  <2>2. S \in SUBSET Surfaces
    BY <1>1, <2>1, CurrentFits DEF Current
  <2>3. c \in [S -> Values]
    BY <1>2, <2>2
  <2>4. c \in Contents
    BY <2>2, <2>3 DEF Contents
  <2>5. QED
    BY <1>6, <1>7, <2>4 DEF Projects
<1>8. CASE ProjectsRow(r)
  <2>1. PlaylistRow \in Values
    BY OneValue DEF PlaylistRow, FactsTyped
  <2>2. [s \in {"detail"} |-> PlaylistRow] \in [{"detail"} -> Values] /\ {"detail"} \in SUBSET Surfaces
    BY <2>1 DEF Surfaces
  <2>3. [s \in {"detail"} |-> PlaylistRow] \in Contents
    BY <2>2 DEF Contents
  <2>4. QED
    BY <1>6, <1>8, <2>3 DEF ProjectsRow
<1>9. CASE ProjectsItems(r)
  <2>1. phase[r] = "items" /\ rows' = Cleaned(rows) /\ eligible' = eligible
    BY <1>9 DEF ProjectsItems
  <2>2. held[r]["detail"][1] \in Nat
    BY <2>1 DEF PhasesFit, PhaseFits
  <2>3. Remaining(rows') \in Seq(Nat)
    BY <1>1, CleanedFits
  <2>4. <<held[r].detail[1], Remaining(rows'), facts.favorite>> \in Values
    BY <2>2, <2>3, ThreeValues DEF FactsTyped
  <2>5. [s \in {"detail"} |-> <<held[r].detail[1], Remaining(rows'), facts.favorite>>] \in Contents
    <3>1. /\ [s \in {"detail"} |-> <<held[r].detail[1], Remaining(rows'), facts.favorite>>] \in [{"detail"} -> Values]
          /\ {"detail"} \in SUBSET Surfaces
      BY <2>4 DEF Surfaces
    <3>2. QED
      BY <3>1 DEF Contents
  <2>6. QED
    BY <1>6, <1>9, <2>5 DEF ProjectsItems
<1>10. CASE ReadFails(r)
  BY <1>6, <1>10, NothingFits DEF ReadFails
<1>11. CASE TakesNumber(r)
  <2>1. todo[r] # <<>>
    BY <1>11 DEF TakesNumber, Reads, PhasesFit, PhaseFits, Announcing
  <2>2. /\ log' \in Seq(LogEntries) /\ Len(log) + 1 \in Nat
        /\ number' = [number EXCEPT ![r] = Len(log) + 1] /\ UNCHANGED <<todo, held, sent>>
    BY <1>1, <1>11, <2>1, NumberTaken
  <2>3. QED
    BY <1>1, <2>2 DEF EventTypes
<1>12. CASE Sends(r)
  <2>1. /\ sent' \in Seq(Nat) /\ todo' = [todo EXCEPT ![r] = Tail(todo[r])] /\ todo[r] # <<>>
        /\ number' = [number EXCEPT ![r] = None] /\ log' = log
    BY <1>1, <1>12, EventSent
  <2>2. Tail(todo[r]) \in Seq(Events)
    BY <1>1, <2>1, CurrentFits
  <2>3. held' \in [Requests -> Contents]
    BY <1>1, <1>12, NothingFits, ReadingFits DEF Sends
  <2>4. QED
    BY <1>1, <2>1, <2>2, <2>3 DEF EventTypes
<1>13. CASE StopsAnnouncing(r)
  <2>1. <<>> \in Seq(Events) /\ Nothing \in Contents
    BY NothingFits
  <2>2. /\ todo' = [todo EXCEPT ![r] = <<>>] /\ held' = [held EXCEPT ![r] = Nothing]
        /\ UNCHANGED <<number, log, sent>>
    BY <1>13 DEF StopsAnnouncing
  <2>3. QED
    BY <1>1, <2>1, <2>2 DEF EventTypes
<1>14. QED
  BY <1>1, <1>3, <1>4, <1>5, <1>7, <1>8, <1>9, <1>10, <1>11, <1>12, <1>13, EventSteps

(* A step leaves the other requests and the client as they are. *)
LEMMA OthersStay ==
  ASSUME RequestTypes, EventTypes, NEW r \in Requests, RequestSteps(r)
  PROVE  \A q \in Requests \ {r} :
             /\ phase'[q] = phase[q] /\ todo'[q] = todo[q] /\ held'[q] = held[q]
             /\ number'[q] = number[q]
<1>1. /\ phase \in [Requests -> Phases]
      /\ todo \in [Requests -> Seq(Events)] /\ held \in [Requests -> Contents]
      /\ number \in [Requests -> Nat \cup {None}]
  BY DEF RequestTypes, EventTypes
<1>2. \A q \in Requests \ {r} : phase'[q] = phase[q]
  BY <1>1, StepMoves
<1>3. ASSUME NEW content, Reading(r, content)
      PROVE  \A q \in Requests \ {r} : held'[q] = held[q]
  BY <1>1, <1>3 DEF Reading
<1>4. CASE Mutes(r)
  BY <1>2, <1>4 DEF Mutes, eventVars
<1>5. CASE Declares(r)
  BY <1>1, <1>2, <1>5 DEF Declares, Announces
<1>6. CASE Rereads(r)
  BY <1>1, <1>2, <1>6 DEF Rereads
<1>7. CASE Projects(r)
  BY <1>2, <1>3, <1>7 DEF Projects
<1>8. CASE ProjectsRow(r)
  BY <1>2, <1>3, <1>8 DEF ProjectsRow
<1>9. CASE ProjectsItems(r)
  BY <1>2, <1>3, <1>9 DEF ProjectsItems
<1>10. CASE ReadFails(r)
  BY <1>2, <1>3, <1>10 DEF ReadFails
<1>11. CASE TakesNumber(r)
  BY <1>1, <1>2, <1>11 DEF TakesNumber
<1>12. CASE Sends(r)
  BY <1>1, <1>2, <1>3, <1>12 DEF Sends
<1>13. CASE StopsAnnouncing(r)
  BY <1>1, <1>2, <1>13 DEF StopsAnnouncing
<1>14. QED
  BY <1>4, <1>5, <1>6, <1>7, <1>8, <1>9, <1>10, <1>11, <1>12, <1>13, EventSteps

LEMMA ClientStays ==
  ASSUME NEW r \in Requests, RequestSteps(r)
  PROVE  UNCHANGED clientVars
<1>1. CASE Asks(r) \/ Stores(r) \/ Rereads(r) \/ RereadsNothing(r)
  BY <1>1 DEF Asks, Stores, Rereads, RereadsNothing
<1>2. CASE Records(r) \/ Imports(r) \/ Elsewhere(r) \/ Toggles(r) \/ Favors(r) \/ Unfavors(r)
  BY <1>2 DEF Records, Imports, Elsewhere, Toggles, Favors, Unfavors
<1>3. CASE Projects(r) \/ ProjectsRow(r) \/ ProjectsItems(r) \/ ReadFails(r)
  BY <1>3 DEF Projects, ProjectsRow, ProjectsItems, ReadFails
<1>4. CASE TakesNumber(r) \/ Sends(r) \/ StopsAnnouncing(r) \/ ReadsRevision(r) \/ ReadsContent(r)
  BY <1>4 DEF TakesNumber, Sends, StopsAnnouncing, ReadsRevision, ReadsContent
<1>5. QED
  BY <1>1, <1>2, <1>3, <1>4 DEF RequestSteps

(* The log only grows, and the channel takes the event of the step. *)
LEMMA ChannelGrows ==
  ASSUME PlaylistInv, EventTypes, FactsTyped, PhasesFit, NEW r \in Requests, RequestSteps(r)
  PROVE  /\ \/ TakesNumber(r) /\ UNCHANGED sent
            \/ Sends(r) /\ UNCHANGED log
            \/ UNCHANGED <<log, sent>>
         /\ Len(log) \in Nat /\ Len(log') \in Nat /\ Len(log') >= Len(log)
         /\ \A n \in 1..Len(log) : log'[n] = log[n]
<1>1. RequestTypes /\ made \in Nat /\ rows \in RowsOf(made)
  BY PlaylistAssumption DEF PlaylistInv, PlaylistTypes
<1>2. Len(log) \in Nat
  BY LenProperties DEF EventTypes
<1>3. CASE TakesNumber(r)
  <2>1. todo[r] # <<>>
    BY <1>3 DEF TakesNumber, Reads, PhasesFit, PhaseFits, Announcing
  <2>2. /\ Len(log') = Len(log) + 1 /\ UNCHANGED sent
        /\ \A m \in 1..Len(log) : log'[m] = log[m]
    BY <1>1, <1>3, <2>1, NumberTaken
  <2>3. QED
    BY <1>2, <1>3, <2>2
<1>4. CASE Sends(r)
  BY <1>2, <1>4 DEF Sends
<1>5. CASE Mutes(r) \/ Declares(r)
  BY <1>2, <1>5 DEF Mutes, Declares, eventVars
<1>6. CASE Rereads(r) \/ Projects(r) \/ ProjectsRow(r) \/ ProjectsItems(r) \/ ReadFails(r)
           \/ StopsAnnouncing(r)
  BY <1>2, <1>6 DEF Rereads, Projects, ProjectsRow, ProjectsItems, ReadFails, StopsAnnouncing
<1>7. QED
  BY <1>1, <1>3, <1>4, <1>5, <1>6, EventSteps

(* What each request is about to announce. *)
LEMMA StepPhases ==
  ASSUME PlaylistInv, EventTypes, FactsTyped, PhasesFit, NEW r \in Requests, RequestSteps(r)
  PROVE  PhasesFit'
<1>1. /\ RequestTypes /\ made \in Nat /\ rows \in RowsOf(made)
      /\ todo \in [Requests -> Seq(Events)] /\ held \in [Requests -> Contents]
      /\ number \in [Requests -> Nat \cup {None}]
  BY PlaylistAssumption DEF PlaylistInv, PlaylistTypes, EventTypes
<1>2. op' = op
  BY <1>1, StepMoves
<1>3. ASSUME NEW q \in Requests \ {r}
      PROVE  PhaseFits(q)'
  <2>1. /\ phase'[q] = phase[q] /\ todo'[q] = todo[q] /\ held'[q] = held[q]
        /\ number'[q] = number[q]
    BY <1>1, OthersStay
  <2>2. PhaseFits(q)
    BY DEF PhasesFit
  <2>3. /\ Len(log) \in Nat /\ Len(log') \in Nat /\ Len(log') >= Len(log)
        /\ \A n \in 1..Len(log) : log'[n] = log[n]
    BY ChannelGrows
  <2>4. phase[q] = "send" => /\ number'[q] \in 1..Len(log')
                             /\ Touches(number[q])' = Current(q)'.surfaces
    BY <2>1, <2>2, <2>3 DEF PhaseFits, Touches, Current
  <2>5. QED
    BY <1>2, <2>1, <2>2, <2>4 DEF PhaseFits, Touches, Current
<1>4. PhaseFits(r)
  BY DEF PhasesFit
<1> SUFFICES PhaseFits(r)'
  BY <1>3 DEF PhasesFit
<1>5. CASE Mutes(r)
  <2>1. UNCHANGED <<todo, held, number, log, sent>>
    BY <1>5 DEF Mutes, eventVars
  <2>2. QED
    BY <1>2, <1>4, <1>5, <2>1 DEF Mutes, PhaseFits, Announcing
<1>6. CASE Declares(r)
  <2>1. todo'[r] = EventsOf(op[r].kind) /\ phase'[r] = "announce" /\ op[r].kind \in Announcers
    BY <1>1, <1>6 DEF Declares, Announces
  <2>2. /\ todo'[r] # <<>>
        /\ op[r].kind = "others" => \A i \in DOMAIN todo'[r] : todo'[r][i].surfaces = {}
    BY <2>1, EventsFit DEF Announcers
  <2>3. QED
    BY <1>2, <2>1, <2>2 DEF PhaseFits, Announcing
<1>7. CASE Rereads(r)
  <2>1. phase[r] = "reread" /\ phase'[r] = "announce" /\ todo'[r] = EventsOf(op[r].kind)
    BY <1>1, <1>7, AnnouncementMoves DEF Rereads
  <2>2. op[r].kind \in ItemKinds
    BY <1>4, <2>1 DEF PhaseFits
  <2>3. todo'[r] # <<>> /\ op[r].kind # "others"
    BY <2>1, <2>2, EventsFit DEF ItemKinds
  <2>4. QED
    BY <1>2, <2>1, <2>3 DEF PhaseFits, Announcing
<1>8. CASE Projects(r) \/ ProjectsItems(r) \/ ReadFails(r)
  <2>1. /\ phase[r] \in Announcing /\ phase'[r] = "read" /\ UNCHANGED todo
    BY <1>1, <1>8, AnnouncementMoves DEF Projects, ProjectsItems, ReadFails, Announcing
  <2>2. QED
    BY <1>2, <1>4, <2>1 DEF PhaseFits, Announcing
<1>9. CASE ProjectsRow(r)
  <2>1. /\ phase[r] = "announce" /\ phase'[r] = "items" /\ UNCHANGED todo
        /\ Current(r).how = "detail" /\ Reading(r, [s \in {"detail"} |-> PlaylistRow])
    BY <1>1, <1>9, AnnouncementMoves DEF ProjectsRow
  <2>2. /\ [s \in {"detail"} |-> PlaylistRow] \in [{"detail"} -> Values]
        /\ {"detail"} \in SUBSET Surfaces
    BY OneValue DEF PlaylistRow, FactsTyped, Surfaces
  <2>3. [s \in {"detail"} |-> PlaylistRow] \in Contents
    BY <2>2 DEF Contents
  <2>4. "detail" \in DOMAIN held'[r] /\ held'[r]["detail"] = PlaylistRow
    BY <1>1, <2>1, <2>3, ReadingFits
  <2>5. held'[r]["detail"][1] \in Nat
    BY <2>4 DEF PlaylistRow, FactsTyped
  <2>6. QED
    BY <1>2, <1>4, <2>1, <2>4, <2>5 DEF PhaseFits, Announcing, Current
<1>10. CASE TakesNumber(r)
  <2>1. phase[r] \in {"announce", "read"} /\ phase'[r] = "send"
    BY <1>1, <1>10, AnnouncementMoves
  <2>2. todo[r] # <<>>
    BY <1>4, <2>1 DEF PhaseFits, Announcing
  <2>3. /\ number'[r] = Len(log) + 1 /\ Len(log') = Len(log) + 1 /\ Len(log) \in Nat
        /\ DOMAIN log'[Len(log) + 1].shows \cup log'[Len(log) + 1].marks = Current(r).surfaces
        /\ UNCHANGED todo
    BY <1>1, <1>10, <2>2, NumberTaken
  <2>4. number'[r] \in 1..Len(log') /\ Touches(number[r])' = Current(r)'.surfaces
    BY <2>3 DEF Touches, Current
  <2>5. QED
    BY <1>2, <1>4, <2>1, <2>3, <2>4 DEF PhaseFits, Announcing
<1>11. CASE Sends(r)
  <2>1. /\ phase[r] = "send" /\ phase'[r] = IF Len(todo[r]) = 1 THEN "done" ELSE "announce"
    BY <1>1, <1>11, AnnouncementMoves
  <2>2. todo[r] # <<>> /\ todo'[r] = Tail(todo[r])
    BY <1>1, <1>11, EventSent
  <2>3. /\ Len(todo[r]) = 1 <=> todo'[r] = <<>>
        /\ \A i \in DOMAIN todo'[r] : i + 1 \in DOMAIN todo[r] /\ todo'[r][i] = todo[r][i + 1]
    BY <1>1, <2>2, CurrentFits
  <2>4. QED
    BY <1>2, <1>4, <2>1, <2>3 DEF PhaseFits, Announcing
<1>12. CASE StopsAnnouncing(r)
  <2>1. phase'[r] = "done" /\ todo'[r] = <<>>
    BY <1>1, <1>12, AnnouncementMoves DEF StopsAnnouncing
  <2>2. QED
    BY <2>1 DEF PhaseFits, Announcing
<1>13. QED
  BY <1>1, <1>5, <1>6, <1>7, <1>8, <1>9, <1>10, <1>11, <1>12, EventSteps

-----------------------------------------------------------------------------
(* What only grows.                                                        *)

LEMMA GrowingTruths ==
  FactsTyped => /\ Truth("list") = <<row.version>> /\ row.version \in Nat
                /\ Truth("continue") = <<facts.progress, facts.favorite, facts.catalog>>
                /\ facts.progress \in Nat /\ facts.favorite \in Nat /\ facts.catalog \in Nat
BY DEF FactsTyped, Truth, PlaylistRow, HomeContinue

LEMMA TruthBelow ==
  FactsTyped => \A s \in Growing : Below(s, Truth(s))
BY GrowingTruths DEF Growing, Below

LEMMA TruthStaysBelow ==
  (FactsTyped => \A s \in Growing : Below(s, Truth(s)))'
BY TruthBelow, PTL

LEMMA GrowingTruthsAfter ==
  (FactsTyped => /\ Truth("list") = <<row.version>> /\ row.version \in Nat
                 /\ Truth("continue") = <<facts.progress, facts.favorite, facts.catalog>>
                 /\ facts.progress \in Nat /\ facts.favorite \in Nat
                 /\ facts.catalog \in Nat)'
BY GrowingTruths, PTL

LEMMA StaysBelow ==
  ASSUME FactsTyped, NEW r \in Requests, DataSteps(r), NEW s \in Growing, NEW x, Below(s, x)
  PROVE  Below(s, x)'
<1>1. /\ FactsTyped' /\ facts'.favorite >= facts.favorite /\ facts'.progress >= facts.progress
      /\ facts'.catalog >= facts.catalog /\ row'.version >= row.version
  BY DataGrows
<1>2. CASE s = "list"
  <2>1. /\ Truth(s) = <<row.version>> /\ Truth(s)' = <<row'.version>>
        /\ row.version \in Nat /\ row'.version \in Nat
    BY <1>1, <1>2, GrowingTruths, GrowingTruthsAfter
  <2>2. DOMAIN x = 1..1 /\ x[1] \in Nat /\ row.version >= x[1]
    BY <2>1 DEF Below
  <2>3. row'.version >= x[1]
    BY <1>1, <2>1, <2>2
  <2>4. \A i \in DOMAIN x : i = 1
    BY <2>2
  <2>5. QED
    BY <2>1, <2>2, <2>3, <2>4 DEF Below
<1>3. CASE s = "continue"
  <2>1. /\ Truth(s) = <<facts.progress, facts.favorite, facts.catalog>>
        /\ Truth(s)' = <<facts'.progress, facts'.favorite, facts'.catalog>>
        /\ facts.progress \in Nat /\ facts.favorite \in Nat /\ facts.catalog \in Nat
        /\ facts'.progress \in Nat /\ facts'.favorite \in Nat /\ facts'.catalog \in Nat
    BY <1>1, <1>3, GrowingTruths, GrowingTruthsAfter
  <2>2. /\ DOMAIN x = 1..3 /\ x[1] \in Nat /\ x[2] \in Nat /\ x[3] \in Nat
        /\ facts.progress >= x[1] /\ facts.favorite >= x[2] /\ facts.catalog >= x[3]
    BY <2>1 DEF Below
  <2>3. facts'.progress >= x[1] /\ facts'.favorite >= x[2] /\ facts'.catalog >= x[3]
    BY <1>1, <2>1, <2>2
  <2>4. \A i \in DOMAIN x : i = 1 \/ i = 2 \/ i = 3
    BY <2>2
  <2>5. QED
    BY <2>1, <2>2, <2>3, <2>4 DEF Below
<1>4. QED
  BY <1>2, <1>3 DEF Growing

(* What a request holds of what only grows is not newer than the database. *)
LEMMA StepHeld ==
  ASSUME PlaylistInv, EventTypes, FactsTyped, FactsTyped', HeldFits,
         NEW r \in Requests, RequestSteps(r), DataSteps(r)
  PROVE  HeldFits'
<1>1. RequestTypes /\ held \in [Requests -> Contents] /\ todo \in [Requests -> Seq(Events)]
  BY DEF PlaylistInv, EventTypes
<1>2. ASSUME NEW q \in Requests, NEW s \in Growing \cap DOMAIN held[q]
      PROVE  Below(s, held[q][s]) /\ \A x : x = held[q][s] => Below(s, x)'
  BY <1>2, StaysBelow DEF HeldFits
<1>3. \A s \in Growing : Below(s, Truth(s))'
  BY TruthStaysBelow
<1>4. \A q \in Requests \ {r} : held'[q] = held[q]
  BY <1>1, OthersStay
<1>5. SUFFICES ASSUME NEW s \in Growing \cap DOMAIN held'[r]
               PROVE  \/ s \in DOMAIN held[r] /\ held'[r][s] = held[r][s]
                      \/ held'[r][s] = Truth(s)'
  <2>1. ASSUME NEW s \in Growing \cap DOMAIN held'[r]
        PROVE  Below(s, held[r][s])'
    <3>1. CASE s \in DOMAIN held[r] /\ held'[r][s] = held[r][s]
      BY <1>2, <3>1 DEF Below
    <3>2. CASE held'[r][s] = Truth(s)'
      BY <1>3, <3>2 DEF Below
    <3>3. QED
      BY <1>5, <3>1, <3>2
  <2>2. ASSUME NEW q \in Requests \ {r}, NEW s \in Growing \cap DOMAIN held'[q]
        PROVE  Below(s, held[q][s])'
    BY <1>2, <1>4 DEF Below
  <2>3. QED
    BY <2>1, <2>2 DEF HeldFits
<1>6. s \in {"list", "continue"}
  BY DEF Growing
<1>7. CASE Mutes(r) \/ TakesNumber(r)
  BY <1>7 DEF Mutes, TakesNumber, eventVars
<1>8. CASE Declares(r)
  BY <1>1, <1>8 DEF Declares, Announces
<1>9. CASE Rereads(r)
  <2>1. held'[r] = [x \in {"list"} |-> PlaylistRow] /\ UNCHANGED row
    BY <1>1, <1>9 DEF Rereads, itemVars
  <2>2. s = "list" /\ held'[r][s] = PlaylistRow
    BY <2>1
  <2>3. Truth(s)' = PlaylistRow
    BY <2>1, <2>2 DEF Truth, PlaylistRow
  <2>4. QED
    BY <2>2, <2>3
<1>10. CASE Projects(r)
  <2>1. Reading(r, [x \in Current(r).surfaces |-> Truth(x)]) /\ UNCHANGED <<facts, row>>
    BY <1>10 DEF Projects, itemVars
  <2>2. \/ s \in Current(r).surfaces /\ held'[r][s] = Truth(s)
        \/ s \in DOMAIN held[r] /\ held'[r][s] = held[r][s]
    BY <1>1, <2>1 DEF Reading
  <2>3. Truth(s)' = Truth(s)
    BY <1>6, <2>1 DEF Truth, PlaylistRow, HomeContinue
  <2>4. QED
    BY <2>2, <2>3
<1>11. CASE ProjectsRow(r) \/ ProjectsItems(r) \/ ReadFails(r) \/ Sends(r)
  <2>1. ASSUME NEW content, DOMAIN content \subseteq {"detail"}, Reading(r, content)
        PROVE  s \in DOMAIN held[r] /\ held'[r][s] = held[r][s]
    BY <1>1, <1>6, <2>1 DEF Reading
  <2>2. QED
    BY <1>11, <2>1, NothingFits DEF ProjectsRow, ProjectsItems, ReadFails, Sends
<1>12. CASE StopsAnnouncing(r)
  BY <1>1, <1>12, NothingFits DEF StopsAnnouncing
<1>13. QED
  BY <1>1, <1>7, <1>8, <1>9, <1>10, <1>11, <1>12, EventSteps

(* And so is what the log shows of it. *)
LEMMA StepLog ==
  ASSUME PlaylistInv, EventTypes, FactsTyped, PhasesFit, HeldFits, LogFits,
         NEW r \in Requests, RequestSteps(r), DataSteps(r)
  PROVE  LogFits'
<1>1. RequestTypes /\ made \in Nat /\ rows \in RowsOf(made)
  BY PlaylistAssumption DEF PlaylistInv, PlaylistTypes
<1>2. /\ Len(log) \in Nat /\ \A n \in 1..Len(log) : log'[n] = log[n]
      /\ TakesNumber(r) \/ log' = log
  BY ChannelGrows
<1>3. ASSUME NEW n \in 1..Len(log), NEW s \in Growing \cap DOMAIN log'[n].shows
      PROVE  Below(s, log[n].shows[s])'
  <2>1. \A x : x = log[n].shows[s] => Below(s, x)'
    BY <1>2, StaysBelow DEF LogFits
  <2>2. log'[n].shows[s] = log[n].shows[s]
    BY <1>2
  <2>3. QED
    BY <2>1, <2>2 DEF Below
<1>4. CASE log' = log
  BY <1>3, <1>4 DEF LogFits
<1>5. CASE TakesNumber(r)
  <2> DEFINE N == Len(log) + 1
  <2>1. todo[r] # <<>>
    BY <1>5 DEF TakesNumber, Reads, PhasesFit, PhaseFits, Announcing
  <2>2. /\ Len(log') = N /\ log'[N].shows = Shown(r) /\ UNCHANGED <<facts, row>>
    BY <1>1, <1>5, <2>1, NumberTaken
  <2>3. ASSUME NEW n \in 1..Len(log'), n \notin 1..Len(log), NEW s \in Growing \cap DOMAIN log'[n].shows
        PROVE  Below(s, log[n].shows[s])'
    <3>1. n = N
      BY <1>2, <2>2, <2>3
    <3>2. s \in DOMAIN Shown(r) /\ s # "detail" /\ log'[n].shows[s] = Shown(r)[s]
      BY <2>2, <2>3, <3>1 DEF Growing
    <3>3. s \in DOMAIN held[r] /\ Shown(r)[s] = held[r][s]
      BY <1>1, <2>1, <3>2, ShownFits
    <3>4. Below(s, held[r][s])
      BY <2>3, <3>3 DEF HeldFits
    <3>5. \A x : x = held[r][s] => Below(s, x)'
      BY <2>3, <3>4, StaysBelow
    <3>6. QED
      BY <3>2, <3>3, <3>5 DEF Below
  <2>4. QED
    BY <1>3, <2>3 DEF LogFits
<1>6. QED
  BY <1>2, <1>4, <1>5

LEMMA StepChannel ==
  ASSUME PlaylistInv, EventTypes, FactsTyped, PhasesFit, ChannelFits,
         client \in [read : Nat, seen : Nat, fetch : SUBSET Surfaces],
         NEW r \in Requests, RequestSteps(r)
  PROVE  ChannelFits'
<1>1. RequestTypes /\ made \in Nat /\ rows \in RowsOf(made)
  BY PlaylistAssumption DEF PlaylistInv, PlaylistTypes
<1>2. /\ Len(log) \in Nat /\ Len(log') \in Nat /\ Len(log') >= Len(log)
      /\ \A n \in 1..Len(log) : log'[n] = log[n]
      /\ client' = client
  BY ChannelGrows, ClientStays DEF clientVars
<1>3. ASSUME NEW n \in 1..Len(log)
      PROVE  log'[n].for = "others" => Touches(n)' = {}
  BY <1>2 DEF ChannelFits, Touches
<1>4. Len(sent) \in Nat
  BY LenProperties DEF EventTypes
<1>5. CASE TakesNumber(r) /\ UNCHANGED sent
  <2>1. todo[r] # <<>>
    BY <1>5 DEF TakesNumber, Reads, PhasesFit, PhaseFits, Announcing
  <2>2. /\ Len(log') = Len(log) + 1 /\ log'[Len(log) + 1].for = op[r].kind
        /\ DOMAIN log'[Len(log) + 1].shows \cup log'[Len(log) + 1].marks = Current(r).surfaces
    BY <1>1, <1>5, <2>1, NumberTaken
  <2>3. op[r].kind = "others" => Current(r).surfaces = {}
    <3>1. 1 \in DOMAIN todo[r]
      BY <2>1, CurrentFits DEF EventTypes
    <3>2. QED
      BY <3>1 DEF PhasesFit, PhaseFits, Current
  <2>4. \A n \in 1..Len(log') : log'[n].for = "others" => Touches(n)' = {}
    <3> TAKE n \in 1..Len(log')
    <3>1. CASE n \in 1..Len(log)
      BY <1>3, <3>1
    <3>2. CASE n = Len(log) + 1
      BY <2>2, <2>3, <3>2 DEF Touches
    <3>3. QED
      BY <1>2, <2>2, <3>1, <3>2
  <2>5. \A i \in 1..Len(sent') : sent'[i] \in 1..Len(log')
    BY <1>2, <1>5 DEF ChannelFits
  <2>6. QED
    BY <1>2, <1>5, <2>4, <2>5 DEF ChannelFits
<1>6. CASE Sends(r) /\ UNCHANGED log
  <2>1. /\ Len(sent') = Len(sent) + 1 /\ \A i \in 1..Len(sent) : sent'[i] = sent[i]
        /\ sent'[Len(sent) + 1] = number[r] /\ number[r] \in 1..Len(log)
    BY <1>1, <1>6, EventSent
  <2>2. \A i \in 1..Len(sent') : sent'[i] \in 1..Len(log')
    <3> TAKE i \in 1..Len(sent')
    <3>1. CASE i \in 1..Len(sent)
      BY <1>6, <2>1, <3>1 DEF ChannelFits
    <3>2. CASE i = Len(sent) + 1
      BY <1>6, <2>1, <3>2
    <3>3. QED
      BY <1>4, <2>1, <3>1, <3>2
  <2>3. client'.read <= Len(sent')
    BY <1>2, <1>4, <2>1 DEF ChannelFits
  <2>4. QED
    BY <1>3, <1>6, <2>2, <2>3 DEF ChannelFits
<1>7. CASE UNCHANGED <<log, sent>>
  BY <1>2, <1>3, <1>7 DEF ChannelFits
<1>8. QED
  BY <1>5, <1>6, <1>7, ChannelGrows

(* A page. *)
LEMMA PageSteps ==
  ASSUME NEW r \in Requests, RequestSteps(r)
  PROVE  UNCHANGED page \/ ReadsRevision(r) \/ ReadsContent(r)
<1>1. CASE Asks(r) \/ Stores(r) \/ Rereads(r) \/ RereadsNothing(r)
  BY <1>1 DEF Asks, Stores, Rereads, RereadsNothing
<1>2. CASE Records(r) \/ Imports(r) \/ Elsewhere(r) \/ Toggles(r) \/ Favors(r) \/ Unfavors(r)
  BY <1>2 DEF Records, Imports, Elsewhere, Toggles, Favors, Unfavors
<1>3. CASE Projects(r) \/ ProjectsRow(r) \/ ProjectsItems(r) \/ ReadFails(r)
  BY <1>3 DEF Projects, ProjectsRow, ProjectsItems, ReadFails
<1>4. CASE TakesNumber(r) \/ Sends(r) \/ StopsAnnouncing(r)
  BY <1>4 DEF TakesNumber, Sends, StopsAnnouncing
<1>5. QED
  BY <1>1, <1>2, <1>3, <1>4 DEF RequestSteps

LEMMA StepPageTypes ==
  ASSUME PlaylistInv, EventTypes, FactsTyped, PageTypes, PhasesFit,
         NEW r \in Requests, RequestSteps(r)
  PROVE  PageTypes'
<1>1. Len(log) \in Nat
  BY LenProperties DEF EventTypes
<1>2. made \in Nat /\ rows \in RowsOf(made) /\ phase \in [Requests -> Phases]
  BY PlaylistAssumption DEF PlaylistInv, PlaylistTypes, RequestTypes
<1>3. CASE ReadsRevision(r)
  <2>1. page' = [page EXCEPT ![r].revision = Len(log)]
    BY <1>3 DEF ReadsRevision
  <2>2. QED
    BY <1>1, <2>1 DEF PageTypes
<1>4. CASE ReadsContent(r)
  <2> DEFINE c == Truth(Surface(op[r].kind))
  <2>1. page' = [page EXCEPT ![r].content = c] /\ phase[r] \in {"revision", "content"}
    BY <1>4 DEF ReadsContent
  <2>2. op[r].kind \in Pages
    BY <2>1 DEF PhasesFit, PhaseFits
  <2>3. Surface(op[r].kind) \in Surfaces
    BY <2>2 DEF Pages, Surface, Surfaces
  <2>4. c \in Values
    BY <1>2, <2>3, TruthIsValue
  <2> HIDE DEF c
  <2>5. QED
    BY <2>1, <2>4 DEF PageTypes
<1>5. QED
  BY <1>3, <1>4, PageSteps DEF PageTypes

(* A request for a page takes no other steps. *)
LEMMA PageRequests ==
  ASSUME NEW r \in Requests, phase[r] \in {"idle", "revision", "content", "done"}, RequestSteps(r)
  PROVE  Asks(r) \/ ReadsRevision(r) \/ ReadsContent(r)
<1>1. ~Stores(r)
  BY DEF Stores, Transaction, Locks, CleansUp, Adds, Removes, Reorders, Lists, Creates, Updates,
         Deletes
<1>2. ~(Rereads(r) \/ RereadsNothing(r) \/ RollsBack(r))
  BY DEF Rereads, RereadsNothing, RollsBack
<1>3. ~(Records(r) \/ Imports(r) \/ Elsewhere(r) \/ Toggles(r) \/ Favors(r) \/ Unfavors(r))
  BY DEF Records, Imports, Elsewhere, Toggles, Favors, Unfavors
<1>4. ~(Projects(r) \/ ProjectsRow(r) \/ ProjectsItems(r) \/ ReadFails(r))
  BY DEF Projects, ProjectsRow, ProjectsItems, ReadFails, Reads
<1>5. ~(TakesNumber(r) \/ Sends(r) \/ StopsAnnouncing(r))
  BY DEF TakesNumber, Sends, StopsAnnouncing, Reads
<1>6. QED
  BY <1>1, <1>2, <1>3, <1>4, <1>5 DEF RequestSteps

LEMMA StepPage ==
  ASSUME PlaylistInv, EventTypes, FactsTyped, PageTypes, PhasesFit, LogFits, PageFits,
         NEW r \in Requests, RequestSteps(r)
  PROVE  PageFits'
<1> DEFINE Fits(q) == /\ phase[q] \in {"idle", "revision", "content", "done"}
                      /\ phase[q] \in {"content", "done"} => page[q].revision \in 0..Len(log)
                      /\ phase[q] = "done" => Covers(q)
<1>1. /\ RequestTypes /\ phase \in [Requests -> Phases]
      /\ page \in [Requests -> [revision : Nat \cup {None}, content : Values \cup {None}]]
  BY DEF PlaylistInv, RequestTypes, PageTypes
<1>2. op' = op
  BY <1>1, StepMoves
<1>3. /\ Len(log) \in Nat /\ Len(log') \in Nat /\ Len(log') >= Len(log)
      /\ \A n \in 1..Len(log) : log'[n] = log[n]
  BY ChannelGrows
<1>4. SUFFICES ASSUME NEW q \in Requests, op[q].kind \in {"homePage", "listPage"}
               PROVE  Fits(q)'
  BY <1>2 DEF PageFits
<1>5. Fits(q)
  BY <1>4 DEF PageFits
<1>6. ASSUME phase'[q] = phase[q], page'[q] = page[q]
      PROVE  Fits(q)'
  <2>1. phase[q] = "done" => Covers(q)'
    BY <1>2, <1>3, <1>5, <1>6 DEF Covers
  <2>2. phase[q] \in {"content", "done"} => page'[q].revision \in 0..Len(log')
    BY <1>3, <1>5, <1>6
  <2>3. QED
    BY <1>5, <1>6, <2>1, <2>2
<1>7. CASE q # r
  <2>1. page'[q] = page[q]
    BY <1>1, <1>7, PageSteps DEF ReadsRevision, ReadsContent
  <2>2. phase'[q] = phase[q]
    BY <1>1, <1>7, StepMoves
  <2>3. QED
    BY <1>6, <2>1, <2>2
<1>8. CASE q = r
  <2>1. RevisionFirst(r) /\ op[r].kind \in {"homePage", "listPage"}
    BY <1>4, <1>8 DEF RevisionFirst
  <2>2. CASE ReadsRevision(r)
    <3>1. /\ page'[r].revision = Len(log) /\ phase'[r] = "content" /\ UNCHANGED log
      BY <1>1, <2>1, <2>2 DEF ReadsRevision, Goes, eventVars
    <3>2. QED
      BY <1>3, <1>8, <3>1
  <2>3. CASE ReadsContent(r)
    <3>1. /\ page'[r].content = Truth(Surface(op[r].kind)) /\ page'[r].revision = page[r].revision
          /\ phase[r] = "content" /\ phase'[r] = "done" /\ UNCHANGED <<log, op>>
      BY <1>1, <2>1, <2>3 DEF ReadsContent, Goes, eventVars
    <3>2. page[r].revision \in 0..Len(log)
      BY <1>5, <1>8, <3>1
    <3>3. Surface(op[r].kind) \in Growing
      BY <2>1 DEF Surface, Growing
    <3>4. \A n \in 1..page[r].revision :
              Surface(op[r].kind) \in DOMAIN log[n].shows
              => NotOlder(Truth(Surface(op[r].kind)), log[n].shows[Surface(op[r].kind)])
      BY <1>3, <3>2, <3>3 DEF LogFits, Below, NotOlder
    <3>5. Covers(r)'
      BY <3>1, <3>4 DEF Covers
    <3>6. QED
      BY <1>8, <3>1, <3>2, <3>5
  <2>4. CASE Asks(r)
    <3>1. phase'[r] = "revision"
      BY <1>1, <2>1, <2>4 DEF Asks, Goes, First, ItemKinds
    <3>2. QED
      BY <1>8, <3>1
  <2>5. QED
    BY <1>5, <1>8, <2>2, <2>3, <2>4, PageRequests
<1>9. QED
  BY <1>7, <1>8

-----------------------------------------------------------------------------
(* The client, and the history.                                            *)

ClientTypes ==
    /\ client \in [read : Nat, seen : Nat, fetch : SUBSET Surfaces]
    /\ screen \in [Surfaces -> Values]

HistoryTypes ==
    /\ unsettled \in SUBSET Surfaces
    /\ crossed \in [Requests -> SUBSET Surfaces]

LEMMA LogEntriesFit ==
  ASSUME EventTypes, ChannelFits, NEW n \in 1..Len(log)
  PROVE  /\ log[n].marks \in SUBSET Surfaces /\ DOMAIN log[n].shows \in SUBSET Surfaces
         /\ \A s \in DOMAIN log[n].shows : log[n].shows[s] \in Values
<1>1. log[n] \in LogEntries
  BY DEF EventTypes
<1>2. log[n].marks \in SUBSET Surfaces /\ log[n].shows \in Contents
  BY <1>1 DEF LogEntries
<1>3. PICK S \in SUBSET Surfaces : log[n].shows \in [S -> Values]
  BY <1>2 DEF Contents
<1>4. QED
  BY <1>2, <1>3

(* How far a client is. *)
LEMMA ChannelTypes ==
  ASSUME EventTypes, ClientTypes, ChannelFits
  PROVE  /\ Len(sent) \in Nat /\ Len(log) \in Nat
         /\ client.read \in Nat /\ client.seen \in Nat /\ client.fetch \in SUBSET Surfaces
         /\ client.read <= Len(sent)
         /\ Capacity \in Nat
         /\ \A i \in 1..Len(sent) : sent[i] \in 1..Len(log)
BY LenProperties, ScreensAssumption DEF EventTypes, ClientTypes, ChannelFits

LEMMA ClientLags ==
  ASSUME EventTypes, ClientTypes, ChannelFits, Lags
  PROVE  /\ ClientTypes'
         /\ client'.read \in (client.read + 1)..Len(sent) /\ client'.fetch = Surfaces
         /\ UNCHANGED <<playlistVars, facts, eventVars, page, screen>>
<1>1. /\ client' = [client EXCEPT !.read = Len(sent) - Capacity, !.fetch = Surfaces]
      /\ Len(sent) - client.read > Capacity
      /\ UNCHANGED <<playlistVars, facts, eventVars, page, screen>>
  BY DEF Lags, Unread
<1>2. Len(sent) - Capacity \in Nat /\ Len(sent) - Capacity \in (client.read + 1)..Len(sent)
  BY <1>1, ChannelTypes
<1>3. /\ client' \in [read : Nat, seen : Nat, fetch : SUBSET Surfaces]
      /\ client'.read = Len(sent) - Capacity /\ client'.fetch = Surfaces
  BY <1>1, <1>2 DEF ClientTypes
<1>4. QED
  BY <1>1, <1>2, <1>3 DEF ClientTypes

LEMMA ClientReceives ==
  ASSUME EventTypes, ClientTypes, ChannelFits, Receives
  PROVE  LET n == sent[client.read + 1]
         IN  /\ ClientTypes'
             /\ client.read + 1 \in 1..Len(sent) /\ n \in 1..Len(log)
             /\ client'.read = client.read + 1
             /\ UNCHANGED <<playlistVars, facts, eventVars, page>>
             /\ \/ log[n].for = "others" /\ client'.fetch = client.fetch /\ screen' = screen
                \/ client'.fetch = Surfaces /\ screen' = screen
                \/ /\ client'.fetch = client.fetch \cup log[n].marks
                   /\ screen' = [s \in Surfaces |->
                                    IF s \in DOMAIN log[n].shows THEN log[n].shows[s] ELSE screen[s]]
<1> DEFINE n == sent[client.read + 1]
           shown == [s \in Surfaces |->
                        IF s \in DOMAIN log[n].shows THEN log[n].shows[s] ELSE screen[s]]
<1>1. /\ Len(sent) - client.read >= 1
      /\ UNCHANGED <<playlistVars, facts, eventVars, page>>
  BY ChannelTypes DEF Receives, Unread
<1>2. client.read + 1 \in 1..Len(sent)
  BY <1>1, ChannelTypes
<1>3. n \in 1..Len(log) /\ n \in Nat
  BY <1>2, ChannelTypes
<1>4. /\ log[n].marks \in SUBSET Surfaces
      /\ \A s \in DOMAIN log[n].shows : log[n].shows[s] \in Values
  BY <1>3, LogEntriesFit
<1>5. screen \in [Surfaces -> Values] /\ client \in [read : Nat, seen : Nat, fetch : SUBSET Surfaces]
  BY DEF ClientTypes
<1>6. shown \in [Surfaces -> Values]
  BY <1>4, <1>5
<1>7. \/ /\ log[n].for = "others"
         /\ client' = [client EXCEPT !.read = @ + 1] /\ UNCHANGED screen
      \/ /\ client' = [read |-> client.read + 1,
                       seen |-> IF n > client.seen THEN n ELSE client.seen,
                       fetch |-> Surfaces]
         /\ screen' = screen
      \/ /\ client' = [read |-> client.read + 1,
                       seen |-> IF n > client.seen THEN n ELSE client.seen,
                       fetch |-> client.fetch \cup log[n].marks]
         /\ screen' = shown
  BY DEF Receives
<1> HIDE DEF n, shown
<1>8. CASE /\ log[n].for = "others"
           /\ client' = [client EXCEPT !.read = @ + 1] /\ UNCHANGED screen
  <2>1. client'.read = client.read + 1 /\ client'.fetch = client.fetch /\ ClientTypes'
    BY <1>5, <1>8 DEF ClientTypes
  <2>2. QED
    BY <1>1, <1>2, <1>3, <1>8, <2>1 DEF n
<1>9. CASE /\ client' = [read |-> client.read + 1,
                         seen |-> IF n > client.seen THEN n ELSE client.seen,
                         fetch |-> Surfaces]
           /\ screen' = screen
  <2>1. client'.read = client.read + 1 /\ client'.fetch = Surfaces /\ ClientTypes'
    BY <1>3, <1>5, <1>9 DEF ClientTypes
  <2>2. QED
    BY <1>1, <1>2, <1>3, <1>9, <2>1 DEF n
<1>10. CASE /\ client' = [read |-> client.read + 1,
                          seen |-> IF n > client.seen THEN n ELSE client.seen,
                          fetch |-> client.fetch \cup log[n].marks]
            /\ screen' = shown
  <2>1. /\ client'.read = client.read + 1 /\ client'.fetch = client.fetch \cup log[n].marks
        /\ ClientTypes'
    BY <1>3, <1>4, <1>5, <1>6, <1>10 DEF ClientTypes
  <2>2. QED
    BY <1>1, <1>2, <1>3, <1>10, <2>1 DEF n, shown
<1>11. QED
  BY <1>7, <1>8, <1>9, <1>10

LEMMA ClientFetches ==
  ASSUME ClientTypes, FactsTyped, NEW n \in Nat, rows \in RowsOf(n), Fetches
  PROVE  /\ ClientTypes'
         /\ client'.read = client.read /\ client'.fetch = {}
         /\ \A s \in Surfaces : screen'[s] = IF s \in client.fetch THEN Truth(s) ELSE screen[s]
         /\ UNCHANGED <<playlistVars, facts, eventVars, page>>
<1>1. /\ client' = [client EXCEPT !.fetch = {}]
      /\ screen' = [s \in Surfaces |-> IF s \in client.fetch THEN Truth(s) ELSE screen[s]]
      /\ UNCHANGED <<playlistVars, facts, eventVars, page>>
  BY DEF Fetches
<1>2. \A s \in Surfaces : Truth(s) \in Values
  BY TruthIsValue
<1>3. QED
  BY <1>1, <1>2 DEF ClientTypes

(* What a step leaves of the history. *)
LEMMA HistoryFits ==
  ASSUME HistoryTypes, NEW R \in SUBSET Requests, Remembers(R)
  PROVE  \E C : /\ C = {s \in Surfaces : Truth(s)' # Truth(s)}
                /\ HistoryTypes' /\ Keeping(R, C)
<1>1. PICK C : C = {s \in Surfaces : Truth(s)' # Truth(s)} /\ Keeping(R, C)
  BY DEF Remembers
<1>2. C \in SUBSET Surfaces
  BY <1>1
<1>3. crossed' \in [Requests -> SUBSET Surfaces] /\ unsettled' \in SUBSET Surfaces
  BY <1>1, <1>2 DEF Keeping, HistoryTypes
<1>4. QED
  BY <1>1, <1>3 DEF HistoryTypes

LEMMA HistoryStays ==
  ASSUME HistoryTypes, NEW R \in SUBSET Requests, Remembers(R)
  PROVE  HistoryTypes'
BY HistoryFits

-----------------------------------------------------------------------------
(* The invariant of the pages.                                             *)

(* What there is to show where the playlist has its type. *)
LEMMA TruthsFit ==
  ASSUME PlaylistInv, FactsTyped
  PROVE  /\ made \in Nat /\ rows \in RowsOf(made)
         /\ \A s \in Surfaces : Truth(s) \in Values
<1>1. made \in Nat /\ rows \in RowsOf(made)
  BY PlaylistAssumption DEF PlaylistInv, PlaylistTypes
<1>2. QED
  BY <1>1, TruthIsValue

LEMMA StartScreens ==
  ASSUME Init
  PROVE  PageInv /\ ScreenInv
<1>1. PlaylistInv
  BY StartPlaylist
<1>2. /\ phase = [r \in Requests |-> "idle"]
      /\ facts = [favorite |-> 0, progress |-> 0, history |-> 0, catalog |-> 0]
      /\ todo = [r \in Requests |-> <<>>] /\ held = [r \in Requests |-> Nothing]
      /\ number = [r \in Requests |-> None]
      /\ log = <<>> /\ sent = <<>>
      /\ page = [r \in Requests |-> [revision |-> None, content |-> None]]
      /\ client = [read |-> 0, seen |-> 0, fetch |-> {}]
      /\ screen = [s \in Surfaces |-> Truth(s)]
      /\ unsettled = {} /\ crossed = [r \in Requests |-> {}]
  BY DEF Init
<1>3. FactsTyped
  BY <1>1, <1>2 DEF FactsTyped, PlaylistInv, PlaylistTypes
<1>4. \A s \in Surfaces : Truth(s) \in Values /\ screen[s] = Truth(s)
  BY <1>1, <1>2, <1>3, TruthsFit
<1>5. Len(log) = 0 /\ Len(sent) = 0 /\ \A r \in Requests : Owes(r) = {}
  BY <1>2 DEF Owes
<1>6. ScreenTypes
  <2>1. EventTypes
    BY <1>2, NothingFits DEF EventTypes
  <2>2. PageTypes
    BY <1>2 DEF PageTypes
  <2>3. screen \in [Surfaces -> Values]
    BY <1>2, <1>4
  <2>4. QED
    BY <1>2, <2>1, <2>2, <2>3 DEF ScreenTypes
<1>7. PhasesFit
  BY <1>2 DEF PhasesFit, PhaseFits, Announcing
<1>8. ChannelFits /\ LogFits
  BY <1>2, <1>5 DEF ChannelFits, LogFits
<1>9. HeldFits
  BY <1>2, NothingFits DEF HeldFits
<1>10. PageFits
  BY <1>2 DEF PageFits
<1>11. HeldIsFresh /\ CrossedIsUnsettled
  BY <1>2 DEF HeldIsFresh, CrossedIsUnsettled, Announcing
<1>12. ClientCatchesUp
  <2> SUFFICES ASSUME NEW s \in Surfaces PROVE CatchesUp(s)
    BY DEF ClientCatchesUp
  <2>1. client.read = 0 /\ From(0, s)
    BY <1>2, <1>4 DEF From
  <2>2. 0 \in client.read..Len(sent) /\ \A i \in 0..Len(sent) : ~(i > client.read)
    BY <1>5, <2>1
  <2>3. QED
    BY <2>1, <2>2 DEF CatchesUp
<1>13. QED
  BY <1>6, <1>7, <1>8, <1>9, <1>10, <1>11, <1>12 DEF PageInv, ScreenInv

LEMMA TypesFit ==
  ASSUME PlaylistInv, ScreenTypes
  PROVE  FactsTyped /\ EventTypes /\ PageTypes /\ ClientTypes /\ HistoryTypes
BY DEF PlaylistInv, PlaylistTypes, ScreenTypes, FactsTyped, ClientTypes, HistoryTypes

LEMMA RequestKeepsPages ==
  ASSUME PlaylistInv, PlaylistInv', PageInv, NEW r \in Requests, RequestSteps(r), Remembers({r})
  PROVE  PageInv' /\ DataSteps(r) /\ FactsTyped'
<1>1. /\ FactsTyped /\ EventTypes /\ PageTypes /\ ClientTypes /\ HistoryTypes
      /\ PhasesFit /\ ChannelFits /\ LogFits /\ HeldFits /\ PageFits
  BY TypesFit DEF PageInv
<1>2. DataSteps(r)
  BY <1>1, StepData DEF PlaylistInv
<1>3. FactsTyped'
  BY <1>1, <1>2, DataGrows
<1>4. EventTypes'
  BY <1>1, <1>3, StepEventTypes
<1>5. PageTypes'
  BY <1>1, StepPageTypes
<1>6. UNCHANGED clientVars
  BY ClientStays
<1>7. HistoryTypes'
  BY <1>1, HistoryStays
<1>8. ScreenTypes'
  BY <1>1, <1>3, <1>4, <1>5, <1>6, <1>7
     DEF ScreenTypes, FactsTyped, ClientTypes, HistoryTypes, clientVars
<1>9. PhasesFit'
  BY <1>1, StepPhases
<1>10. ChannelFits'
  BY <1>1, StepChannel DEF ClientTypes
<1>11. LogFits'
  BY <1>1, <1>2, <1>3, StepLog
<1>12. HeldFits'
  BY <1>1, <1>2, <1>3, StepHeld
<1>13. PageFits'
  BY <1>1, StepPage
<1>14. QED
  BY <1>2, <1>3, <1>8, <1>9, <1>10, <1>11, <1>12, <1>13 DEF PageInv

(* What the client does, and what stutters, leaves the database and the      *)
(* events alone.                                                           *)
LEMMA TruthsStay ==
  ASSUME UNCHANGED <<facts, eligible, row, rows>>, NEW s \in Surfaces
  PROVE  Truth(s)' = Truth(s)
BY DEF Truth, PlaylistRow, PlaylistSnapshot, FavoriteEntries, HomeContinue, HomeRecent,
       HomeRecentItems, HomeReleases, Remaining, Sorted, Before

LEMMA OthersKeepPages ==
  ASSUME PlaylistInv, PageInv, UNCHANGED <<playlistVars, facts, eventVars, page>>,
         ClientTypes', HistoryTypes', client'.read <= Len(sent)
  PROVE  PageInv'
<1>1. /\ UNCHANGED <<row, rows, eligible, phase, op, facts, todo, held, number, log, sent, page>>
  BY DEF playlistVars, itemVars, requestVars, eventVars
<1>2. /\ ScreenTypes /\ PhasesFit /\ ChannelFits /\ LogFits /\ HeldFits /\ PageFits
  BY DEF PageInv
<1>3. ScreenTypes'
  BY <1>1, <1>2 DEF ScreenTypes, EventTypes, PageTypes, ClientTypes, HistoryTypes
<1>4. PhasesFit'
  BY <1>1, <1>2 DEF PhasesFit, PhaseFits, Current, Touches
<1>5. ChannelFits'
  BY <1>1, <1>2 DEF ChannelFits, Touches
<1>6. \A s \in Growing : Truth(s)' = Truth(s)
  BY <1>1, TruthsStay DEF Growing, Surfaces
<1>8. LogFits'
  BY <1>1, <1>2, <1>6 DEF LogFits, Below
<1>9. HeldFits'
  BY <1>1, <1>2, <1>6 DEF HeldFits, Below
<1>10. PageFits'
  BY <1>1, <1>2 DEF PageFits, Covers
<1>11. QED
  BY <1>3, <1>4, <1>5, <1>8, <1>9, <1>10 DEF PageInv

LEMMA ClientKeepsPages ==
  ASSUME PlaylistInv, PageInv, Lags \/ Receives \/ Fetches, Remembers({})
  PROVE  PageInv' /\ UNCHANGED <<playlistVars, facts, eventVars, page>>
<1>1. EventTypes /\ ClientTypes /\ ChannelFits /\ HistoryTypes /\ FactsTyped
  BY TypesFit DEF PageInv
<1>2. HistoryTypes'
  BY <1>1, HistoryStays
<1>3. made \in Nat /\ rows \in RowsOf(made)
  BY <1>1, TruthsFit
<1>4. client.read <= Len(sent)
  BY <1>1, ChannelTypes
<1>5. /\ ClientTypes' /\ client'.read <= Len(sent)
      /\ UNCHANGED <<playlistVars, facts, eventVars, page>>
  <2>1. CASE Lags
    BY <1>1, <2>1, ClientLags, ChannelTypes
  <2>2. CASE Receives
    BY <1>1, <2>2, ClientReceives, ChannelTypes
  <2>3. CASE Fetches
    BY <1>1, <1>3, <1>4, <2>3, ClientFetches
  <2>4. QED
    BY <2>1, <2>2, <2>3
<1>6. QED
  BY <1>2, <1>5, OthersKeepPages

LEMMA StutterKeepsPages ==
  ASSUME PlaylistInv, PageInv, UNCHANGED vars
  PROVE  PageInv'
<1>1. UNCHANGED <<playlistVars, facts, eventVars, page, client, screen, unsettled, crossed>>
  BY DEF vars, clientVars, historyVars
<1>2. ClientTypes /\ HistoryTypes /\ EventTypes /\ ChannelFits
  BY TypesFit DEF PageInv
<1>3. ClientTypes' /\ HistoryTypes' /\ client'.read <= Len(sent)
  BY <1>1, <1>2, ChannelTypes DEF ClientTypes, HistoryTypes
<1>4. QED
  BY <1>1, <1>3, OthersKeepPages

LEMMA PagesKept ==
  ASSUME PlaylistInv, PageInv, [Next]_vars
  PROVE  PlaylistInv' /\ PageInv'
<1>1. ASSUME NEW r \in Requests, RequestSteps(r), Remembers({r})
      PROVE  PlaylistInv' /\ PageInv'
  <2>1. PlaylistInv'
    BY <1>1, StepPlaylist
  <2>2. QED
    BY <1>1, <2>1, RequestKeepsPages
<1>2. CASE (Lags \/ Receives \/ Fetches) /\ Remembers({})
  BY <1>2, OthersLeavePlaylist, KeepsPlaylist, ClientKeepsPages
<1>3. CASE UNCHANGED vars
  BY <1>3, OthersLeavePlaylist, KeepsPlaylist, StutterKeepsPages
<1>4. QED
  BY <1>1, <1>2, <1>3 DEF Next

(* A page of Home or of the playlists that names a revision holds every       *)
(* change announced up to it: its handler reads the revision before the       *)
(* content, and what its events show of these two only grows, whatever was     *)
(* read for them and however long ago.                                        *)
THEOREM PagesCoverRevisions == Spec => []PageCoversRevision
<1>1. Init => PlaylistInv /\ PageInv
  BY StartPlaylist, StartScreens
<1>2. PlaylistInv /\ PageInv /\ [Next]_vars => PlaylistInv' /\ PageInv'
  BY PagesKept
<1>3. PlaylistInv /\ PageInv => PageCoversRevision
  BY DEF PageInv, PageFits, PageCoversRevision, Covers
<1>4. QED
  BY <1>1, <1>2, <1>3, PTL DEF Spec

-----------------------------------------------------------------------------
(* The screens: what an event holds is what there is to show, unless a       *)
(* change met it.                                                          *)

(* What a request's step does to the history. *)
LEMMA HistoryOfRequest ==
  ASSUME HistoryTypes, NEW r \in Requests, Remembers({r})
  PROVE  /\ CrossedIsUnsettled'
         /\ \A q \in Requests : phase'[q] # "done" => crossed[q] \subseteq crossed'[q]
         /\ \A q \in Requests \ {r}, s \in Surfaces :
                phase'[q] # "done" /\ s \in Owes(q) /\ Truth(s)' # Truth(s) => s \in crossed'[q]
         /\ \A s \in Surfaces \ unsettled' :
                /\ NoLongerOwes(r, s) => phase[r] = "send"
                /\ Truth(s)' # Truth(s) => ~Unannounced({r}, s)
                /\ s \in unsettled => /\ phase[r] = "send" /\ NoLongerOwes(r, s)
                                      /\ s \notin crossed[r]
<1>1. PICK C : /\ C = {s \in Surfaces : Truth(s)' # Truth(s)}
               /\ HistoryTypes' /\ Keeping({r}, C)
  BY HistoryFits
<1>2. \A q \in Requests :
          crossed'[q] = IF phase'[q] = "done" THEN {}
                        ELSE crossed[q] \cup
                             {s \in C : IF q \in {r} THEN \E p \in Requests \ {r} : s \in Owes(p)
                                        ELSE s \in Owes(q)}
  BY <1>1 DEF Keeping
<1>3. unsettled' = {s \in Surfaces :
          \/ \E q \in Requests : s \in crossed'[q]
          \/ \E q \in {r} : phase[q] # "send" /\ NoLongerOwes(q, s)
          \/ s \in C /\ Unannounced({r}, s)
          \/ /\ s \in unsettled
             /\ ~\E q \in {r} : phase[q] = "send" /\ NoLongerOwes(q, s) /\ s \notin crossed[q]}
  BY <1>1 DEF Keeping
<1>4. \A q \in Requests : phase'[q] # "done" => crossed[q] \subseteq crossed'[q]
  BY <1>2
<1>5. \A q \in Requests \ {r}, s \in Surfaces :
          phase'[q] # "done" /\ s \in Owes(q) /\ Truth(s)' # Truth(s) => s \in crossed'[q]
  BY <1>1, <1>2
<1>6. CrossedIsUnsettled'
  BY <1>1, <1>3 DEF CrossedIsUnsettled, HistoryTypes
<1>7. ASSUME NEW s \in Surfaces \ unsettled'
      PROVE  /\ NoLongerOwes(r, s) => phase[r] = "send"
             /\ Truth(s)' # Truth(s) => ~Unannounced({r}, s)
             /\ s \in unsettled => /\ phase[r] = "send" /\ NoLongerOwes(r, s)
                                   /\ s \notin crossed[r]
  <2> HIDE DEF NoLongerOwes, Unannounced
  <2>1. /\ ~(phase[r] # "send" /\ NoLongerOwes(r, s))
        /\ ~(s \in C /\ Unannounced({r}, s))
        /\ ~(s \in unsettled /\ ~(phase[r] = "send" /\ NoLongerOwes(r, s) /\ s \notin crossed[r]))
    BY <1>3, <1>7
  <2>2. Truth(s)' # Truth(s) => s \in C
    BY <1>1, <1>7
  <2>3. QED
    BY <2>1, <2>2
<1>8. QED
  BY <1>4, <1>5, <1>6, <1>7

(* The others, whose events a change has not met. *)
LEMMA OthersStayFresh ==
  ASSUME PlaylistInv, PageInv, HeldIsFresh, NEW r \in Requests, RequestSteps(r), Remembers({r}),
         NEW q \in Requests \ {r}, phase'[q] \in Announcing, NEW s \in Owes(q)' \ crossed'[q]
  PROVE  FreshFor(q, s)'
<1>1. RequestTypes /\ EventTypes /\ FactsTyped /\ HistoryTypes /\ PhaseFits(q) /\ PhasesFit
  BY TypesFit DEF PlaylistInv, PageInv, PhasesFit
<1>2. /\ phase'[q] = phase[q] /\ todo'[q] = todo[q] /\ held'[q] = held[q]
      /\ number'[q] = number[q]
  BY <1>1, OthersStay
<1>3. Owes(q)' = Owes(q) /\ phase[q] # "done"
  BY <1>2 DEF Owes, Announcing
<1>4. s \in Surfaces
  <2>1. \A i \in DOMAIN todo[q] : todo[q][i] \in Events
    BY <1>1 DEF EventTypes
  <2>2. Owes(q) = UNION {todo[q][i].surfaces : i \in DOMAIN todo[q]}
    BY <1>2 DEF Owes, Announcing
  <2>3. QED
    BY <1>3, <2>1, <2>2 DEF Events
<1>5. Truth(s)' = Truth(s) /\ s \in Owes(q) \ crossed[q]
  BY <1>1, <1>2, <1>3, <1>4, HistoryOfRequest
<1>6. FreshFor(q, s)
  BY <1>2, <1>5 DEF HeldIsFresh
<1>7. phase[q] = "items" /\ s = "detail" => PlaylistRow' = PlaylistRow
  BY <1>5 DEF Truth, PlaylistSnapshot, PlaylistRow
<1>8. phase[q] = "send" => /\ number[q] \in 1..Len(log)
                           /\ log'[number[q]] = log[number[q]]
  BY <1>1, ChannelGrows DEF PhaseFits
<1>9. QED
  BY <1>2, <1>5, <1>6, <1>7, <1>8 DEF FreshFor, FreshAt

(* What a request owes while it announces. *)
LEMMA OwesEvents ==
  ASSUME EventTypes, NEW r \in Requests
  PROVE  /\ Owes(r) \in SUBSET Surfaces
         /\ phase[r] # "reread" => Owes(r) = UNION {todo[r][i].surfaces : i \in DOMAIN todo[r]}
<1>1. \A i \in DOMAIN todo[r] : todo[r][i] \in Events
  BY DEF EventTypes
<1>2. UNION {todo[r][i].surfaces : i \in DOMAIN todo[r]} \in SUBSET Surfaces
  BY <1>1 DEF Events
<1>3. {"list", "detail"} \in SUBSET Surfaces
  BY DEF Surfaces
<1>4. QED
  BY <1>2, <1>3 DEF Owes

(* The screens of the event at hand are owed, and are no longer once it is    *)
(* sent, unless a later one is about them too.                             *)
LEMMA SentIsOwed ==
  ASSUME EventTypes, NEW r \in Requests, todo[r] # <<>>, phase[r] = "send",
         todo'[r] = Tail(todo[r]), phase'[r] # "reread"
  PROVE  /\ Current(r).surfaces \subseteq Owes(r)
         /\ Owes(r)' \subseteq Owes(r)
         /\ Owes(r) \subseteq Owes(r)' \cup Current(r).surfaces
<1>1. todo[r] \in Seq(Events)
  BY DEF EventTypes
<1>2. /\ 1 \in DOMAIN todo[r]
      /\ \A i \in DOMAIN todo'[r] : i + 1 \in DOMAIN todo[r] /\ todo'[r][i] = todo[r][i + 1]
      /\ \A i \in DOMAIN todo[r] : i = 1 \/ (i - 1 \in DOMAIN todo'[r] /\ todo'[r][i - 1] = todo[r][i])
  BY <1>1, CurrentFits
<1>3. /\ Owes(r) = UNION {todo[r][i].surfaces : i \in DOMAIN todo[r]}
      /\ Owes(r)' = UNION {todo'[r][i].surfaces : i \in DOMAIN todo'[r]}
  BY DEF Owes
<1>4. Current(r).surfaces \subseteq Owes(r)
  BY <1>2, <1>3 DEF Current
<1>5. Owes(r)' \subseteq Owes(r)
  BY <1>2, <1>3
<1>6. ASSUME NEW s \in Owes(r)
      PROVE  s \in Owes(r)' \cup Current(r).surfaces
  <2>1. PICK i \in DOMAIN todo[r] : s \in todo[r][i].surfaces
    BY <1>3, <1>6
  <2>2. CASE i = 1
    BY <2>1, <2>2 DEF Current
  <2>3. CASE i # 1
    <3>1. i - 1 \in DOMAIN todo'[r] /\ todo'[r][i - 1] = todo[r][i]
      BY <1>2, <2>3
    <3>2. QED
      BY <1>3, <2>1, <3>1
  <2>4. QED
    BY <2>2, <2>3
<1>7. QED
  BY <1>4, <1>5, <1>6

(* What the step of the request leaves it with. *)
LEMMA OwnStaysFresh ==
  ASSUME PlaylistInv, PageInv, HeldIsFresh, NEW r \in Requests, RequestSteps(r), Remembers({r}),
         phase'[r] \in Announcing, NEW s \in Owes(r)' \ crossed'[r]
  PROVE  FreshFor(r, s)'
<1>1. /\ RequestTypes /\ EventTypes /\ FactsTyped /\ HistoryTypes /\ PhasesFit /\ PhaseFits(r)
      /\ held \in [Requests -> Contents] /\ todo \in [Requests -> Seq(Events)]
      /\ phase \in [Requests -> Phases]
  BY TypesFit DEF PlaylistInv, PageInv, PhasesFit, EventTypes, RequestTypes
<1>2. made \in Nat /\ rows \in RowsOf(made) /\ \A t \in Surfaces : Truth(t) \in Values
  BY <1>1, TruthsFit
<1>3. s \notin crossed[r]
  BY <1>1, HistoryOfRequest DEF Announcing
<1>4. ASSUME phase[r] \in Announcing, s \in Owes(r)
      PROVE  FreshFor(r, s)
  BY <1>3, <1>4 DEF HeldIsFresh
<1>5. ASSUME UNCHANGED <<facts, eligible, row, rows>>
      PROVE  \A t \in Surfaces : Truth(t)' = Truth(t)
  BY <1>5, TruthsStay
<1>6. CASE Mutes(r)
  BY <1>6 DEF Mutes
<1>7. CASE Declares(r)
  <2>1. /\ held'[r] = [t \in Rows(EventsOf(op[r].kind)) |-> Truth(t)'] /\ phase'[r] = "announce"
    BY <1>1, <1>7 DEF Declares, Announces
  <2>2. QED
    BY <2>1 DEF FreshFor
<1>8. CASE Rereads(r)
  <2>1. /\ held'[r] = [t \in {"list"} |-> PlaylistRow] /\ phase'[r] = "announce"
        /\ UNCHANGED row
    BY <1>1, <1>8, AnnouncementMoves DEF Rereads, itemVars
  <2>2. Truth("list")' = PlaylistRow
    BY <2>1 DEF Truth, PlaylistRow
  <2>3. QED
    BY <2>1, <2>2 DEF FreshFor
<1>9. CASE Projects(r)
  <2> DEFINE c == [t \in Current(r).surfaces |-> Truth(t)]
  <2>1. /\ phase[r] = "announce" /\ phase'[r] = "read" /\ todo[r] # <<>>
        /\ UNCHANGED <<facts, eligible, row, rows, todo>> /\ Reading(r, c)
    BY <1>1, <1>9, AnnouncementMoves DEF Projects, Reads, itemVars
  <2>2. Current(r).surfaces \in SUBSET Surfaces
    BY <1>1, <2>1, CurrentFits DEF Current
  <2>3. c \in [Current(r).surfaces -> Values]
    BY <1>2, <2>2
  <2>4. c \in Contents
    BY <2>2, <2>3 DEF Contents
  <2>5. \A t \in DOMAIN held'[r] :
            held'[r][t] = IF t \in Current(r).surfaces THEN Truth(t) ELSE held[r][t]
    BY <1>1, <2>1, <2>4, ReadingFits
  <2>6. s \in DOMAIN held'[r] => s \in Current(r).surfaces \/ s \in DOMAIN held[r]
    BY <1>1, <2>1, <2>4, ReadingFits
  <2>7. s \in Owes(r) /\ s \in Surfaces
    BY <1>1, <2>1, OwesEvents DEF Owes
  <2>8. FreshFor(r, s) /\ Truth(s)' = Truth(s)
    BY <1>4, <1>5, <2>1, <2>7 DEF Announcing
  <2>9. QED
    BY <2>1, <2>5, <2>6, <2>8 DEF FreshFor
<1>10. CASE ProjectsRow(r)
  <2> DEFINE c == [t \in {"detail"} |-> PlaylistRow]
  <2>1. /\ phase[r] = "announce" /\ phase'[r] = "items"
        /\ UNCHANGED <<facts, eligible, row, rows, todo>> /\ Reading(r, c)
    BY <1>1, <1>10, AnnouncementMoves DEF ProjectsRow, itemVars
  <2>2. c \in [{"detail"} -> Values] /\ {"detail"} \in SUBSET Surfaces
    BY <1>1, OneValue DEF PlaylistRow, FactsTyped, Surfaces
  <2>3. c \in Contents
    BY <2>2 DEF Contents
  <2>4. \A t \in DOMAIN held'[r] : held'[r][t] = IF t = "detail" THEN PlaylistRow ELSE held[r][t]
    BY <1>1, <2>1, <2>3, ReadingFits
  <2>5. s \in DOMAIN held'[r] => s = "detail" \/ s \in DOMAIN held[r]
    BY <1>1, <2>1, <2>3, ReadingFits
  <2>6. s \in Owes(r) /\ s \in Surfaces
    BY <1>1, <2>1, OwesEvents DEF Owes
  <2>7. FreshFor(r, s) /\ Truth(s)' = Truth(s) /\ PlaylistRow' = PlaylistRow
    BY <1>4, <1>5, <2>1, <2>6 DEF Announcing, PlaylistRow
  <2>8. QED
    BY <2>1, <2>4, <2>5, <2>7 DEF FreshFor
<1>11. CASE ProjectsItems(r)
  <2> DEFINE v == <<held[r].detail[1], Remaining(rows'), facts.favorite>>
             c == [t \in {"detail"} |-> v]
  <2>1. /\ phase[r] = "items" /\ phase'[r] = "read"
        /\ rows' = Cleaned(rows) /\ UNCHANGED <<facts, eligible, row, todo>> /\ Reading(r, c)
    BY <1>1, <1>11, AnnouncementMoves DEF ProjectsItems, itemVars
  <2>2. held[r]["detail"][1] \in Nat /\ "detail" \in DOMAIN held[r]
    BY <1>1, <2>1 DEF PhaseFits
  <2>3. Remaining(rows') \in Seq(Nat)
    BY <1>2, <2>1, CleanedFits
  <2>4. v \in Values
    BY <1>1, <2>2, <2>3, ThreeValues DEF FactsTyped
  <2> HIDE DEF v
  <2>5. c \in [{"detail"} -> Values] /\ {"detail"} \in SUBSET Surfaces
    BY <2>4 DEF Surfaces
  <2>6. c \in Contents
    BY <2>5 DEF Contents
  <2>7. \A t \in DOMAIN held'[r] : held'[r][t] = IF t = "detail" THEN v ELSE held[r][t]
    BY <1>1, <2>1, <2>6, ReadingFits
  <2>8. s \in DOMAIN held'[r] => s = "detail" \/ s \in DOMAIN held[r]
    BY <1>1, <2>1, <2>6, ReadingFits
  <2>9. s \in Owes(r) /\ s \in Surfaces
    BY <1>1, <2>1, OwesEvents DEF Owes
  <2>10. FreshFor(r, s)
    BY <1>4, <2>1, <2>9 DEF Announcing
  <2>11. CASE s = "detail"
    <3>1. held[r]["detail"] = <<row.version>>
      BY <2>1, <2>2, <2>10, <2>11 DEF FreshFor, PlaylistRow
    <3>2. v = <<row.version, Remaining(rows'), facts.favorite>>
      BY <3>1 DEF v
    <3>3. Truth("detail")' = <<row'.version, Remaining(rows'), facts'.favorite>>
      <4>1. eligible' = eligible
        BY <2>1
      <4>2. Remaining(rows)' = Remaining(rows')
        BY <4>1 DEF Remaining, Sorted, Before
      <4>3. QED
        BY <4>2 DEF Truth, PlaylistSnapshot
    <3>4. QED
      BY <2>1, <2>7, <2>11, <3>2, <3>3 DEF FreshFor
  <2>12. CASE s # "detail"
    <3>1. Truth(s)' = Truth(s)
      BY <2>1, <2>9, <2>12
         DEF Truth, Surfaces, PlaylistRow, FavoriteEntries, HomeContinue, HomeRecent,
             HomeRecentItems, HomeReleases
    <3>2. QED
      BY <2>1, <2>7, <2>8, <2>10, <2>12, <3>1 DEF FreshFor
  <2>13. QED
    BY <2>11, <2>12
<1>12. CASE ReadFails(r)
  <2>1. /\ phase[r] \in {"announce", "items"} /\ phase'[r] = "read"
        /\ UNCHANGED <<facts, eligible, row, rows, todo>> /\ Reading(r, Nothing)
    BY <1>1, <1>12, AnnouncementMoves DEF ReadFails, itemVars
  <2>2. /\ DOMAIN held'[r] = DOMAIN held[r] \ Current(r).surfaces
        /\ \A t \in DOMAIN held'[r] : held'[r][t] = held[r][t]
    BY <1>1, <2>1, NothingFits, ReadingFits
  <2>3. s \in Owes(r) /\ s \in Surfaces
    BY <1>1, <2>1, OwesEvents DEF Owes
  <2>4. FreshFor(r, s) /\ Truth(s)' = Truth(s)
    BY <1>4, <1>5, <2>1, <2>3 DEF Announcing
  <2>5. phase[r] = "items" => "detail" \in Current(r).surfaces
    <3>1. phase[r] = "items" => Current(r).how = "detail" /\ todo[r] # <<>>
      BY <1>1 DEF PhaseFits, Announcing
    <3>2. QED
      BY <1>1, <3>1, CurrentFits DEF Current
  <2>6. QED
    BY <2>1, <2>2, <2>4, <2>5 DEF FreshFor
<1>13. CASE TakesNumber(r)
  <2>1. phase[r] \in {"announce", "read"} /\ phase'[r] = "send"
    BY <1>1, <1>13, AnnouncementMoves
  <2>2. todo[r] # <<>>
    BY <1>1, <2>1 DEF PhaseFits, Announcing
  <2>3. /\ log'[Len(log) + 1].shows = Shown(r) /\ number'[r] = Len(log) + 1
        /\ UNCHANGED <<todo, held, facts, eligible, row, rows>>
    BY <1>1, <1>2, <1>13, <2>2, NumberTaken DEF EventTypes
  <2>4. s \in Owes(r) /\ s \in Surfaces
    BY <1>1, <2>1, <2>3, OwesEvents DEF Owes
  <2>5. FreshFor(r, s) /\ Truth(s)' = Truth(s)
    BY <1>4, <1>5, <2>1, <2>3, <2>4 DEF Announcing
  <2>6. s \in DOMAIN Shown(r) => Shown(r)[s] = Truth(s)
    BY <1>1, <1>2, <2>1, <2>2, <2>5, ShownFits DEF FreshFor
  <2>7. FreshAt(number[r], s)'
    BY <2>3, <2>5, <2>6 DEF FreshAt
  <2>8. QED
    BY <2>1, <2>3, <2>5, <2>7 DEF FreshFor
<1>14. CASE Sends(r)
  <2>1. phase[r] = "send" /\ phase'[r] = "announce" /\ Reading(r, Nothing)
    BY <1>1, <1>14, AnnouncementMoves DEF Sends, Announcing
  <2>2. /\ todo[r] # <<>> /\ todo'[r] = Tail(todo[r])
        /\ UNCHANGED <<facts, eligible, row, rows>>
    BY <1>1, <1>14, EventSent
  <2>3. /\ DOMAIN held'[r] \subseteq DOMAIN held[r]
        /\ \A t \in DOMAIN held'[r] : held'[r][t] = held[r][t]
    BY <1>1, <2>1, NothingFits, ReadingFits
  <2>4. s \in Owes(r) /\ s \in Surfaces
    BY <1>1, <2>1, <2>2, OwesEvents, SentIsOwed
  <2>5. FreshFor(r, s) /\ Truth(s)' = Truth(s)
    BY <1>4, <1>5, <2>1, <2>2, <2>4 DEF Announcing
  <2>6. QED
    BY <2>1, <2>3, <2>5 DEF FreshFor
<1>15. CASE StopsAnnouncing(r)
  BY <1>1, <1>15, AnnouncementMoves DEF Announcing
<1>16. QED
  BY <1>1, <1>6, <1>7, <1>8, <1>9, <1>10, <1>11, <1>12, <1>13, <1>14, <1>15, EventSteps

-----------------------------------------------------------------------------
(* The client catches up with every screen nobody owes an event.             *)

(* A request that is at its send takes no other step. *)
LEMMA SendingSends ==
  ASSUME RequestTypes, NEW r \in Requests, RequestSteps(r), phase[r] = "send"
  PROVE  Sends(r)
BY EventSteps, AnnouncementMoves DEF Mutes, Declares, Announcing

(* An event that no change met brings its screens up to date. *)
LEMMA SentCatchesUp ==
  ASSUME PlaylistInv, PageInv, HeldIsFresh, NEW r \in Requests, Sends(r), UNCHANGED clientVars,
         NEW s \in Surfaces, s \in Owes(r), s \notin Owes(r)', s \notin crossed[r]
  PROVE  CatchesUp(s)'
<1>1. RequestTypes /\ EventTypes /\ ClientTypes /\ PhasesFit /\ PhaseFits(r) /\ ChannelFits
  BY TypesFit DEF PlaylistInv, PageInv, PhasesFit
<1>2. /\ Len(sent') = Len(sent) + 1 /\ Len(sent) \in Nat
      /\ sent'[Len(sent) + 1] = number[r]
      /\ todo[r] # <<>> /\ todo' = [todo EXCEPT ![r] = Tail(todo[r])]
      /\ UNCHANGED <<log, facts, row, rows, eligible>>
  BY <1>1, EventSent
<1>3. phase[r] = "send" /\ phase'[r] \in {"done", "announce"}
  BY <1>1, AnnouncementMoves
<1>4. todo'[r] = Tail(todo[r])
  BY <1>1, <1>2 DEF EventTypes
<1>5. s \in Current(r).surfaces
  BY <1>1, <1>2, <1>3, <1>4, SentIsOwed
<1>6. s \in Touches(number[r])
  BY <1>1, <1>3, <1>5 DEF PhaseFits
<1>7. FreshAt(number[r], s)
  BY <1>3 DEF HeldIsFresh, FreshFor, Announcing
<1>8. Truth(s)' = Truth(s)
  BY <1>2, TruthsStay
<1>9. client.read \in Nat /\ client.read <= Len(sent) /\ client' = client
  BY <1>1, ChannelTypes DEF clientVars
<1> DEFINE p == Len(sent) + 1
<1>10. p \in client'.read..Len(sent') /\ p # client'.read
  BY <1>2, <1>9
<1>11. s \in DOMAIN log'[sent'[p]].shows \cup log'[sent'[p]].marks
  BY <1>2, <1>6 DEF Touches
<1>12. s \in DOMAIN log'[sent'[p]].shows => log'[sent'[p]].shows[s] = Truth(s)'
  BY <1>2, <1>7, <1>8 DEF FreshAt
<1>13. \A i \in p..Len(sent') : i = p
  BY <1>2
<1> HIDE DEF p
<1>14. \A i \in p..Len(sent') : FreshAt(sent[i], s)'
  BY <1>12, <1>13 DEF FreshAt
<1>15. \E k \in client'.read..Len(sent') :
          /\ IF k = client'.read THEN s \in client'.fetch \/ screen'[s] = Truth(s)'
             ELSE s \in DOMAIN log'[sent'[k]].shows \cup log'[sent'[k]].marks
          /\ \A i \in k..Len(sent') : i > client'.read => FreshAt(sent[i], s)'
  BY <1>10, <1>11, <1>14
<1>16. QED
  BY <1>15 DEF CatchesUp, From, Touches

(* What else a request does takes nothing from it. *)
LEMMA StillCatchesUp ==
  ASSUME PlaylistInv, PageInv, NEW r \in Requests, RequestSteps(r),
         NEW s \in Surfaces, CatchesUp(s), s \notin Owes(r), Truth(s)' = Truth(s)
  PROVE  CatchesUp(s)'
<1>1. /\ RequestTypes /\ EventTypes /\ FactsTyped /\ ClientTypes /\ PhasesFit /\ PhaseFits(r)
      /\ ChannelFits
  BY TypesFit DEF PlaylistInv, PageInv, PhasesFit
<1>2. /\ Len(log) \in Nat /\ \A n \in 1..Len(log) : log'[n] = log[n]
      /\ UNCHANGED <<client, screen>>
  BY <1>1, ChannelGrows, ClientStays DEF clientVars
<1>3. /\ Len(sent) \in Nat /\ client.read \in Nat /\ client.read <= Len(sent)
      /\ \A i \in 1..Len(sent) : sent[i] \in 1..Len(log)
  BY <1>1, ChannelTypes
<1>4. PICK p \in client.read..Len(sent) :
          From(p, s) /\ \A i \in p..Len(sent) : i > client.read => FreshAt(sent[i], s)
  BY DEF CatchesUp
<1>5. /\ Len(sent') \in Nat /\ Len(sent') >= Len(sent)
      /\ \A i \in 1..Len(sent) : sent'[i] = sent[i]
      /\ \A i \in (Len(sent) + 1)..Len(sent') :
             s \notin DOMAIN log'[sent'[i]].shows
  <2>1. CASE Sends(r)
    <3>1. /\ Len(sent') = Len(sent) + 1 /\ Len(sent) \in Nat
          /\ \A i \in 1..Len(sent) : sent'[i] = sent[i]
          /\ sent'[Len(sent) + 1] = number[r] /\ number[r] \in 1..Len(log)
          /\ todo[r] # <<>> /\ todo' = [todo EXCEPT ![r] = Tail(todo[r])] /\ log' = log
      BY <1>1, <2>1, EventSent
    <3>2. phase[r] = "send" /\ phase'[r] # "reread"
      BY <1>1, <2>1, AnnouncementMoves
    <3>3. todo'[r] = Tail(todo[r])
      BY <1>1, <3>1 DEF EventTypes
    <3>4. s \notin Current(r).surfaces
      BY <1>1, <3>1, <3>2, <3>3, SentIsOwed
    <3>5. s \notin DOMAIN log[number[r]].shows
      BY <1>1, <3>2, <3>4 DEF PhaseFits, Touches
    <3>6. QED
      BY <3>1, <3>5
  <2>2. CASE UNCHANGED sent
    BY <1>3, <2>2
  <2>3. QED
    BY <1>1, <2>1, <2>2, ChannelGrows
<1>6. IF p = client'.read THEN s \in client'.fetch \/ screen'[s] = Truth(s)'
      ELSE s \in DOMAIN log'[sent'[p]].shows \cup log'[sent'[p]].marks
  <2>1. p # client.read => p \in 1..Len(sent)
    BY <1>3
  <2>2. QED
    BY <1>2, <1>3, <1>4, <1>5, <2>1 DEF From, Touches
<1>7. \A i \in p..Len(sent') : i > client'.read => FreshAt(sent[i], s)'
  <2> SUFFICES ASSUME NEW i \in p..Len(sent'), i > client'.read
               PROVE  FreshAt(sent[i], s)'
    OBVIOUS
  <2>1. CASE i <= Len(sent)
    <3>1. i \in 1..Len(sent) /\ i \in p..Len(sent) /\ i > client.read
      BY <1>2, <1>3, <2>1
    <3>2. FreshAt(sent[i], s) /\ sent'[i] = sent[i] /\ log'[sent[i]] = log[sent[i]]
      BY <1>2, <1>3, <1>4, <1>5, <3>1
    <3>3. QED
      BY <3>2 DEF FreshAt
  <2>2. CASE i > Len(sent)
    <3>1. i \in (Len(sent) + 1)..Len(sent')
      BY <1>3, <1>5, <2>2
    <3>2. QED
      BY <1>5, <3>1 DEF FreshAt
  <2>3. QED
    BY <1>3, <2>1, <2>2
<1>8. p \in client'.read..Len(sent')
  BY <1>2, <1>3, <1>5
<1>9. QED
  BY <1>6, <1>7, <1>8 DEF CatchesUp, From, Touches

LEMMA RequestKeepsScreens ==
  ASSUME PlaylistInv, PageInv, ScreenInv, NEW r \in Requests, RequestSteps(r), Remembers({r}),
         DataSteps(r)
  PROVE  ScreenInv'
<1>1. /\ RequestTypes /\ EventTypes /\ FactsTyped /\ HistoryTypes
      /\ HeldIsFresh /\ CrossedIsUnsettled /\ ClientCatchesUp
      /\ todo \in [Requests -> Seq(Events)]
  BY TypesFit DEF PlaylistInv, PageInv, ScreenInv, EventTypes
<1>2. CrossedIsUnsettled'
  BY <1>1, HistoryOfRequest
<1>3. HeldIsFresh'
  <2>1. ASSUME NEW q \in Requests, phase'[q] \in Announcing, NEW s \in Owes(q)' \ crossed'[q]
        PROVE  FreshFor(q, s)'
    BY <1>1, <2>1, OthersStayFresh, OwnStaysFresh
  <2>2. QED
    BY <2>1 DEF HeldIsFresh
<1>4. ASSUME NEW s \in Surfaces \ unsettled', \A q \in Requests : s \notin Owes(q)'
      PROVE  CatchesUp(s)'
  <2>1. /\ NoLongerOwes(r, s) => phase[r] = "send"
        /\ Truth(s)' # Truth(s) => ~Unannounced({r}, s)
        /\ s \in unsettled => phase[r] = "send" /\ NoLongerOwes(r, s) /\ s \notin crossed[r]
    BY <1>1, HistoryOfRequest
  <2>2. \A q \in Requests \ {r} : s \notin Owes(q)
    <3>1. \A q \in Requests \ {r} : phase'[q] = phase[q] /\ todo'[q] = todo[q]
      BY <1>1, OthersStay
    <3>2. QED
      BY <1>4, <3>1 DEF Owes
  <2>3. UNCHANGED clientVars
    BY ClientStays
  <2>4. CASE s \in unsettled \/ s \in Owes(r)
    <3>1. NoLongerOwes(r, s) /\ phase[r] = "send"
      BY <1>4, <2>1, <2>4 DEF NoLongerOwes
    <3>2. s \notin crossed[r]
      BY <1>1, <2>1 DEF CrossedIsUnsettled
    <3>3. Sends(r)
      BY <1>1, <3>1, SendingSends
    <3>4. QED
      BY <1>1, <1>4, <2>3, <3>1, <3>2, <3>3, SentCatchesUp DEF NoLongerOwes
  <2>5. CASE s \notin unsettled /\ s \notin Owes(r)
    <3>1. CatchesUp(s)
      BY <1>1, <1>4, <2>2, <2>5 DEF ClientCatchesUp
    <3>2. Truth(s)' = Truth(s)
      BY <1>1, <1>4, <2>1, ChangesAreAnnounced
    <3>3. QED
      BY <2>5, <3>1, <3>2, StillCatchesUp
  <2>6. QED
    BY <2>4, <2>5
<1>5. ClientCatchesUp'
  BY <1>4 DEF ClientCatchesUp
<1>6. QED
  BY <1>2, <1>3, <1>5 DEF ScreenInv

(* What the client does leaves the events as fresh as they were. *)
LEMMA ClientKeepsHeld ==
  ASSUME PageInv, HeldIsFresh, UNCHANGED <<playlistVars, facts, eventVars>>,
         \A q \in Requests : phase[q] # "done" => crossed[q] \subseteq crossed'[q]
  PROVE  /\ HeldIsFresh'
         /\ \A q \in Requests : Owes(q)' = Owes(q)
         /\ \A s \in Surfaces : Truth(s)' = Truth(s)
<1>1. UNCHANGED <<phase, todo, held, number, log, sent, facts, eligible, row, rows>>
  BY DEF playlistVars, itemVars, requestVars, eventVars
<1>2. \A s \in Surfaces : Truth(s)' = Truth(s)
  BY <1>1, TruthsStay
<1>3. \A q \in Requests : Owes(q)' = Owes(q) /\ Owes(q) \in SUBSET Surfaces
  BY <1>1, OwesEvents DEF Owes, PageInv, ScreenTypes
<1>4. ASSUME NEW q \in Requests, phase'[q] \in Announcing, NEW s \in Owes(q)' \ crossed'[q]
      PROVE  FreshFor(q, s)'
  <2>1. phase[q] \in Announcing /\ s \in Owes(q) \ crossed[q] /\ s \in Surfaces
    BY <1>1, <1>3, <1>4 DEF Announcing
  <2>2. FreshFor(q, s) /\ Truth(s)' = Truth(s)
    BY <1>2, <2>1 DEF HeldIsFresh
  <2>3. QED
    BY <1>1, <2>2 DEF FreshFor, FreshAt, PlaylistRow
<1>5. HeldIsFresh'
  BY <1>4 DEF HeldIsFresh
<1>6. QED
  BY <1>2, <1>3, <1>5

(* It comes closer to the screen as it is. *)
LEMMA ClientKeepsUp ==
  ASSUME PlaylistInv, PageInv, Lags \/ Receives \/ Fetches,
         NEW s \in Surfaces, CatchesUp(s), Truth(s)' = Truth(s)
  PROVE  CatchesUp(s)'
<1>1. EventTypes /\ FactsTyped /\ ClientTypes /\ ChannelFits
  BY TypesFit DEF PageInv
<1>2. /\ Len(sent) \in Nat /\ client.read \in Nat /\ client.read <= Len(sent)
      /\ \A i \in 1..Len(sent) : sent[i] \in 1..Len(log)
  BY <1>1, ChannelTypes
<1>3. PICK p \in client.read..Len(sent) :
          From(p, s) /\ \A i \in p..Len(sent) : i > client.read => FreshAt(sent[i], s)
  BY DEF CatchesUp
<1>4. ASSUME UNCHANGED <<log, sent>>, client'.read \in client.read..Len(sent),
             NEW k \in client'.read..Len(sent), k >= p,
             IF k = client'.read THEN s \in client'.fetch \/ screen'[s] = Truth(s)
             ELSE s \in Touches(sent[k])
      PROVE  CatchesUp(s)'
  <2>1. \A i \in k..Len(sent') : i > client'.read => FreshAt(sent[i], s)'
    <3> SUFFICES ASSUME NEW i \in k..Len(sent'), i > client'.read
                 PROVE  FreshAt(sent[i], s)'
      OBVIOUS
    <3>1. i \in p..Len(sent) /\ i > client.read
      BY <1>2, <1>3, <1>4
    <3>2. FreshAt(sent[i], s)
      BY <1>3, <3>1
    <3>3. QED
      BY <1>4, <3>2 DEF FreshAt
  <2>2. IF k = client'.read THEN s \in client'.fetch \/ screen'[s] = Truth(s)'
        ELSE s \in DOMAIN log'[sent'[k]].shows \cup log'[sent'[k]].marks
    BY <1>4 DEF Touches
  <2>3. k \in client'.read..Len(sent')
    BY <1>4
  <2>4. QED
    BY <2>1, <2>2, <2>3 DEF CatchesUp, From, Touches
<1>5. CASE Lags
  <2>1. /\ client'.read \in (client.read + 1)..Len(sent) /\ client'.fetch = Surfaces
        /\ UNCHANGED <<log, sent>>
    BY <1>1, <1>5, ClientLags DEF eventVars
  <2>2. client'.read \in Nat /\ client'.read > client.read /\ client'.read <= Len(sent)
    BY <1>2, <2>1
  <2>3. CASE p <= client'.read
    <3>1. client'.read \in client'.read..Len(sent) /\ client'.read >= p
          /\ client'.read \in client.read..Len(sent)
      BY <1>2, <2>2, <2>3
    <3>2. QED
      BY <1>4, <2>1, <3>1
  <2>4. CASE p > client'.read
    <3>1. p \in client'.read..Len(sent) /\ p >= p /\ client'.read \in client.read..Len(sent)
          /\ p # client'.read /\ p # client.read
      BY <1>2, <2>2, <2>4
    <3>2. s \in Touches(sent[p])
      BY <1>3, <3>1 DEF From
    <3>3. QED
      BY <1>4, <2>1, <3>1, <3>2
  <2>5. QED
    BY <1>2, <2>2, <2>3, <2>4
<1>6. CASE Receives
  <2> DEFINE n == sent[client.read + 1]
  <2>1. /\ client.read + 1 \in 1..Len(sent) /\ n \in 1..Len(log)
        /\ client'.read = client.read + 1
        /\ UNCHANGED <<log, sent>>
        /\ \/ log[n].for = "others" /\ client'.fetch = client.fetch /\ screen' = screen
           \/ client'.fetch = Surfaces /\ screen' = screen
           \/ /\ client'.fetch = client.fetch \cup log[n].marks
              /\ screen' = [t \in Surfaces |->
                               IF t \in DOMAIN log[n].shows THEN log[n].shows[t] ELSE screen[t]]
    BY <1>1, <1>6, ClientReceives DEF eventVars
  <2>2. client'.read \in client'.read..Len(sent) /\ client'.read \in client.read..Len(sent)
    BY <1>2, <2>1
  <2>3. CASE p > client.read + 1
    <3>1. p \in client'.read..Len(sent) /\ p >= p /\ p # client'.read /\ p # client.read
      BY <1>2, <2>1, <2>3
    <3>2. s \in Touches(sent[p])
      BY <1>3, <3>1 DEF From
    <3>3. QED
      BY <1>4, <2>1, <2>2, <3>1, <3>2
  <2>4. CASE p <= client.read + 1
    <3>1. client.read + 1 \in p..Len(sent) /\ client.read + 1 > client.read
          /\ (p = client.read \/ p = client.read + 1) /\ client'.read >= p
          /\ client.read + 1 # client.read
      BY <1>2, <2>1, <2>4
    <3>2. FreshAt(n, s)
      BY <1>3, <3>1
    <3>3. \/ p = client.read /\ (s \in client.fetch \/ screen[s] = Truth(s))
          \/ p = client.read + 1 /\ s \in Touches(n)
      BY <1>3, <3>1 DEF From
    <3> HIDE DEF n
    <3>4. s \in client'.fetch \/ screen'[s] = Truth(s)
      <4>1. CASE log[n].for = "others" /\ client'.fetch = client.fetch /\ screen' = screen
        <5>1. Touches(n) = {}
          BY <1>1, <2>1, <4>1 DEF ChannelFits
        <5>2. QED
          BY <3>3, <4>1, <5>1
      <4>2. CASE client'.fetch = Surfaces /\ screen' = screen
        BY <4>2
      <4>3. CASE /\ client'.fetch = client.fetch \cup log[n].marks
                 /\ screen' = [t \in Surfaces |->
                                  IF t \in DOMAIN log[n].shows THEN log[n].shows[t] ELSE screen[t]]
        <5>1. s \in DOMAIN log[n].shows => screen'[s] = Truth(s)
          BY <3>2, <4>3 DEF FreshAt
        <5>2. s \notin DOMAIN log[n].shows => screen'[s] = screen[s]
          BY <4>3
        <5>3. QED
          BY <3>3, <4>3, <5>1, <5>2 DEF Touches
      <4>4. QED
        BY <2>1, <4>1, <4>2, <4>3
    <3>5. QED
      BY <1>4, <2>1, <2>2, <3>1, <3>4
  <2>5. QED
    BY <1>2, <2>1, <2>3, <2>4
<1>7. CASE Fetches
  <2>1. made \in Nat /\ rows \in RowsOf(made)
    BY <1>1, TruthsFit
  <2>2. /\ client'.read = client.read
        /\ \A t \in Surfaces : screen'[t] = IF t \in client.fetch THEN Truth(t) ELSE screen[t]
        /\ UNCHANGED <<log, sent>>
    BY <1>1, <1>7, <2>1, ClientFetches DEF eventVars
  <2>3. p \in client'.read..Len(sent) /\ p >= p /\ client'.read \in client.read..Len(sent)
    BY <1>2, <2>2
  <2>4. IF p = client'.read THEN s \in client'.fetch \/ screen'[s] = Truth(s)
        ELSE s \in Touches(sent[p])
    BY <1>3, <2>2 DEF From
  <2>5. QED
    BY <1>4, <2>2, <2>3, <2>4
<1>8. QED
  BY <1>5, <1>6, <1>7

LEMMA ClientKeepsScreens ==
  ASSUME PlaylistInv, PageInv, ScreenInv, Lags \/ Receives \/ Fetches, Remembers({})
  PROVE  ScreenInv'
<1>1. HistoryTypes /\ HeldIsFresh /\ CrossedIsUnsettled /\ ClientCatchesUp
  BY TypesFit DEF PageInv, ScreenInv
<1>2. UNCHANGED <<playlistVars, facts, eventVars, page>>
  BY ClientKeepsPages
<1>3. phase' = phase
  BY <1>2 DEF playlistVars, requestVars
<1>4. PICK C : HistoryTypes' /\ Keeping({}, C)
  BY <1>1, HistoryFits
<1>5. /\ CrossedIsUnsettled' /\ unsettled \subseteq unsettled'
      /\ \A q \in Requests : phase[q] # "done" => crossed[q] \subseteq crossed'[q]
  <2>1. \A q \in Requests : phase[q] # "done" => crossed[q] \subseteq crossed'[q]
    BY <1>3, <1>4 DEF Keeping
  <2>2. /\ \A s \in Surfaces : (\E q \in Requests : s \in crossed'[q]) => s \in unsettled'
        /\ \A s \in Surfaces : s \in unsettled => s \in unsettled'
    BY <1>4 DEF Keeping
  <2>3. QED
    BY <1>1, <1>4, <2>1, <2>2 DEF CrossedIsUnsettled, HistoryTypes
<1>6. /\ HeldIsFresh'
      /\ \A q \in Requests : Owes(q)' = Owes(q)
      /\ \A s \in Surfaces : Truth(s)' = Truth(s)
  BY <1>1, <1>2, <1>5, ClientKeepsHeld
<1>7. ASSUME NEW s \in Surfaces \ unsettled', \A q \in Requests : s \notin Owes(q)'
      PROVE  CatchesUp(s)'
  <2>1. CatchesUp(s) /\ Truth(s)' = Truth(s)
    BY <1>1, <1>5, <1>6, <1>7 DEF ClientCatchesUp
  <2>2. QED
    BY <2>1, ClientKeepsUp
<1>8. ClientCatchesUp'
  BY <1>7 DEF ClientCatchesUp
<1>9. QED
  BY <1>5, <1>6, <1>8 DEF ScreenInv

LEMMA StutterKeepsScreens ==
  ASSUME PageInv, ScreenInv, UNCHANGED vars
  PROVE  ScreenInv'
<1>1. /\ UNCHANGED <<playlistVars, facts, eventVars, page, client, screen, unsettled, crossed>>
      /\ UNCHANGED <<log, sent>>
  BY DEF vars, eventVars, clientVars, historyVars
<1>2. HeldIsFresh /\ CrossedIsUnsettled /\ ClientCatchesUp
  BY DEF ScreenInv
<1>3. /\ HeldIsFresh'
      /\ \A q \in Requests : Owes(q)' = Owes(q)
      /\ \A s \in Surfaces : Truth(s)' = Truth(s)
  BY <1>1, <1>2, ClientKeepsHeld
<1>4. ASSUME NEW s \in Surfaces, CatchesUp(s)
      PROVE  CatchesUp(s)'
  BY <1>1, <1>3, <1>4 DEF CatchesUp, From, FreshAt, Touches
<1>5. ClientCatchesUp'
  BY <1>1, <1>2, <1>3, <1>4 DEF ClientCatchesUp
<1>6. QED
  BY <1>1, <1>2, <1>3, <1>5 DEF ScreenInv, CrossedIsUnsettled

(* Where everything was announced and received, a screen shows what it has to. *)
LEMMA SettledScreens ==
  ASSUME PlaylistInv, PageInv, ScreenInv
  PROVE  ScreensSettle
<1> SUFFICES ASSUME Quiet, NEW s \in Surfaces \ unsettled
             PROVE  screen[s] = Truth(s)
  BY DEF ScreensSettle
<1>1. EventTypes /\ ClientTypes /\ ChannelFits /\ PhasesFit /\ ClientCatchesUp
  BY TypesFit DEF PageInv, ScreenInv
<1>2. /\ \A r \in Requests : phase[r] \in {"idle", "done"}
      /\ Len(sent) - client.read = 0 /\ client.fetch = {}
  BY DEF Quiet, Unread
<1>3. \A r \in Requests : todo[r] = <<>>
  BY <1>1, <1>2 DEF PhasesFit, PhaseFits, Announcing
<1>4. \A r \in Requests : Owes(r) = {}
  BY <1>2, <1>3 DEF Owes
<1>5. CatchesUp(s)
  BY <1>1, <1>4 DEF ClientCatchesUp
<1>6. PICK p \in client.read..Len(sent) : From(p, s)
  BY <1>5 DEF CatchesUp
<1>7. p = client.read
  BY <1>1, <1>2, ChannelTypes
<1>8. QED
  BY <1>2, <1>6, <1>7 DEF From

(* Once everything has been announced and received, every screen shows what   *)
(* the database holds, unless the last changes of what it shows overlapped or  *)
(* one of them was never announced: whatever was lost, came late, failed to    *)
(* be read or was sent in another order than it was numbered.                  *)
THEOREM SettledScreensAreTrue == Spec => []ScreensSettle
<1> DEFINE Inv == PlaylistInv /\ PageInv /\ ScreenInv
<1>1. Init => Inv
  BY StartPlaylist, StartScreens
<1>2. Inv /\ [Next]_vars => Inv'
  <2> SUFFICES ASSUME Inv, [Next]_vars PROVE Inv'
    OBVIOUS
  <2>1. PlaylistInv' /\ PageInv'
    BY PagesKept
  <2>2. ASSUME NEW r \in Requests, RequestSteps(r), Remembers({r})
        PROVE  ScreenInv'
    BY <2>1, <2>2, RequestKeepsPages, RequestKeepsScreens
  <2>3. ASSUME (Lags \/ Receives \/ Fetches) /\ Remembers({})
        PROVE  ScreenInv'
    BY <2>3, ClientKeepsScreens
  <2>4. ASSUME UNCHANGED vars
        PROVE  ScreenInv'
    BY <2>4, StutterKeepsScreens
  <2>5. QED
    BY <2>1, <2>2, <2>3, <2>4 DEF Next
<1>3. Inv => ScreensSettle
  BY SettledScreens
<1>4. QED
  BY <1>1, <1>2, <1>3, PTL DEF Spec
=============================================================================
