-------------------------- MODULE MCServerSettings --------------------------
\* Instances of ServerSettings for TLC.
EXTENDS ServerSettings, TLC

CONSTANTS h1, h2, s1, s2

Durations == <<1, 2>>

Interchangeable == Permutations(Slots)

Config(slots, podcasts) == [kind |-> "config", limit |-> slots, subtree |-> podcasts]
Setting(p, enabled, key) == [kind |-> "setting", provider |-> p, enabled |-> enabled, key |-> key]
Repair(providers) == [kind |-> "repair", providers |-> providers]
Look == [kind |-> "look"]

Set(enabled, key) == [enabled |-> enabled, key |-> key]
Job(repair, filter) == [repair |-> repair, filter |-> filter]

Workload(given, queue, a, b, restarts) ==
    [settings |-> given, jobs |-> queue, asked |-> h1 :> a @@ h2 :> b, crashes |-> restarts,
     config |-> [limit |-> 2, subtree |-> "Podcasts"]]

\* Provider 1 needs a key, provider 2 does not.
One(enabled, key) == <<Set(enabled, key)>>
Two == <<Set(TRUE, FALSE), Set(TRUE, FALSE)>>

\* What meets: two changes of the configuration, a change of settings with a job
\* that asks the provider, with another change or a look, repairs of what backs
\* off, each with restarts.
Meetings ==
    {Workload(One(TRUE, TRUE), <<>>, Config(1, None), Config(None, "Casts"), 1),
     Workload(One(TRUE, TRUE), <<>>, Config(-1, None), Config(0, "../Casts"), 1),
     Workload(One(TRUE, TRUE), <<Job(FALSE, {})>>, Setting(1, FALSE, None), Setting(1, TRUE, None), 0),
     Workload(One(TRUE, TRUE), <<Job(FALSE, {})>>, Setting(1, None, FALSE), Look, 1),
     Workload(One(FALSE, TRUE), <<Job(TRUE, {1})>>, Setting(1, TRUE, None), Repair({1}), 0),
     Workload(One(TRUE, TRUE), <<Job(TRUE, {1})>>, Repair({1}), Look, 0),
     Workload(Two, <<>>, Repair({}), Setting(1, None, TRUE), 0),
     Workload(Two, <<>>, Repair({1, 2}), Setting(1, None, TRUE), 0)}
=============================================================================
