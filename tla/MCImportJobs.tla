---------------------------- MODULE MCImportJobs ----------------------------
\* Instances of ImportJobs for TLC.
EXTENDS ImportJobs

CONSTANTS p1, p2, s1, r1, r2

Copies == [p \in Paths |-> s1]

\* A scan of all the files, which may leave alone what is published.
OneScan == {[kind |-> "provider_repair", scope |-> Paths, reuse |-> TRUE, item |-> None]}
Fresh == {FALSE}
=============================================================================
