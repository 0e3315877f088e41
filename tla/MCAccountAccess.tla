--------------------------- MODULE MCAccountAccess ---------------------------
\* Instances of AccountAccess for TLC.
EXTENDS AccountAccess, TLC

CONSTANTS r1, r2, r3, ann, bob, cat, old, new

Account(name, admin, disabled) ==
    [name |-> name, password |-> old, admin |-> admin, disabled |-> disabled, stamp |-> 0]

TwoAdmins == (1 :> Account(ann, TRUE, FALSE)) @@ (2 :> Account(bob, TRUE, FALSE))
AdminAndUser == (1 :> Account(ann, TRUE, FALSE)) @@ (2 :> Account(bob, FALSE, FALSE))
OneDisabled == (1 :> Account(ann, TRUE, FALSE)) @@ (2 :> Account(bob, TRUE, TRUE))

Login(as, password) == [kind |-> "login", as |-> as, password |-> password]
As(as, request) == request @@ [as |-> as, password |-> old]
Remove(i) == [kind |-> "remove", id |-> i]
Reset(i) == [kind |-> "reset", id |-> i, new |-> new]
Create(name, admin) == [kind |-> "create", name |-> name, new |-> new, admin |-> admin]
AddItem == [kind |-> "addItem", playlist |-> "mix"]
Playlist == [kind |-> "playlist"]
Bootstrap(name) == [kind |-> "bootstrap", name |-> name, new |-> new]

Asking(a, b, c) == r1 :> a @@ r2 :> b @@ r3 :> c
Workload(accts, owner, a, b, c) ==
    [accounts |-> accts, asked |-> Asking(a, b, c),
     playlists |-> IF owner = None THEN [p \in {} |-> None] ELSE ("mix" :> owner)]

\* What meets: the bootstrap with itself, administrators who delete each other,
\* an account that is deleted while it makes or changes a playlist, credentials
\* that change, go and come back while they are used.
Meetings ==
    {Workload([a \in {} |-> None], None, Bootstrap(ann), Bootstrap(bob), Login(ann, new)),
     Workload(TwoAdmins, None, As(ann, Remove(2)), As(bob, Remove(1)), As(bob, Create(cat, FALSE))),
     Workload(TwoAdmins, None, As(ann, Remove(2)), As(bob, Remove(1)), Bootstrap(cat)),
     Workload(AdminAndUser, 2, As(ann, Remove(2)), As(bob, Playlist), As(bob, AddItem)),
     Workload(AdminAndUser, 1, As(ann, Remove(1)), As(bob, Create(cat, TRUE)), As(ann, AddItem)),
     Workload(OneDisabled, None, As(ann, Remove(1)), Login(bob, old), As(ann, Reset(2))),
     Workload(AdminAndUser, None, As(ann, Reset(2)), Login(bob, old), Login(bob, new)),
     Workload(AdminAndUser, None, As(ann, Reset(2)), Login(bob, old), Login(bob, old)),
     Workload(AdminAndUser, None, As(ann, Remove(2)), As(ann, Create(bob, FALSE)), Login(bob, new)),
     Workload(AdminAndUser, None, As(ann, Remove(2)), Login(bob, old), As(bob, Playlist))}
=============================================================================
