------------------------------- MODULE TestJobs ------------------------------
(***************************************************************************)
(* test_match_jobs of one project, and the bundles stored for its rows     *)
(* (sa_common/db/test_match_jobs.py).  Ids are given out in the order of   *)
(* requested_at.                                                           *)
(***************************************************************************)
EXTENDS Integers, FiniteSets

CONSTANTS
  MaxTests,      \* bound: rows ever inserted
  BundleLimit,   \* _BUNDLE_LIMIT
  MaxPinned      \* _MAX_PINNED

ASSUME TestsAssumption ==
  MaxTests \in Nat /\ BundleLimit \in Nat /\ MaxPinned \in Nat

VARIABLES
  test,     \* test[j]: status, pinned, and whether bundle_key is set
  bundles   \* the rows whose bundle is in storage

TestIds == 1 .. MaxTests
Terminal == {"success", "failure", "cancelled"}
Active == {"queued", "running"}

TestRow ==
  [status : {"none", "gone"} \union Active \union Terminal,
   pinned : BOOLEAN,
   key    : BOOLEAN]

Unused(status) == [status |-> status, pinned |-> FALSE, key |-> FALSE]

TestsInit ==
  /\ test = [j \in TestIds |-> Unused("none")]
  /\ bundles = {}

TestsIn(statuses) == {j \in TestIds : test[j].status \in statuses}
Exists(j) == test[j].status \notin {"none", "gone"}
Pinned(rows) == {j \in TestIds : rows[j].pinned}
Keyed(rows) == {j \in TestIds : rows[j].key}

\* enqueue_test_match_job
InsertTest ==
  \E j \in TestsIn({"none"}) :
    /\ \A i \in TestsIn({"none"}) : j <= i
    /\ test' = [test EXCEPT ![j].status = "queued"]

\* Mutant: a runner takes over what another one is playing.
ClaimActive(j) ==
  /\ j \in TestsIn(Active)
  /\ \A i \in TestsIn(Active) : j <= i
  /\ test' = [test EXCEPT ![j].status = "running"]

\* claim_one_queued_test_job: the oldest queued row.
ClaimTest(j) ==
  /\ j \in TestsIn({"queued"})
  /\ \A i \in TestsIn({"queued"}) : j <= i
  /\ test' = [test EXCEPT ![j].status = "running"]

\* mark_test_job_success: an UPDATE by id, whatever the status is.
Succeeded(j, key) ==
  IF Exists(j) THEN [test EXCEPT ![j].status = "success", ![j].key = key] ELSE test

\* Mutant: a status outside the enumeration.
FailedAsError(j) == IF Exists(j) THEN [test EXCEPT ![j].status = "error"] ELSE test

\* Mutant: only a queued job can fail.
FailedBeforeItRan(j) ==
  IF test[j].status = "queued" THEN [test EXCEPT ![j].status = "failure"] ELSE test

\* mark_test_job_failure leaves bundle_key alone.
Failed(j) == IF Exists(j) THEN [test EXCEPT ![j].status = "failure"] ELSE test

\* Mutant: pinned rows do not count against the limit.
NewestUnpinned(rows) ==
  LET loose == {j \in TestIds \ Pinned(rows) : rows[j].status \in Terminal}
  IN {j \in loose : Cardinality({i \in loose : i > j}) >= BundleLimit}

\* The rows prune_unpinned_test_jobs deletes: terminal and unpinned, beyond the
\* newest so many that pinned and unpinned together stay within the limit.
Prunable(rows) ==
  LET loose == {j \in TestIds \ Pinned(rows) : rows[j].status \in Terminal}
      room == BundleLimit - Cardinality(Pinned(rows))
  IN {j \in loose : Cardinality({i \in loose : i > j}) >= room}

Pruned(rows) == [j \in TestIds |-> IF j \in Prunable(rows) THEN Unused("gone") ELSE rows[j]]

\* Mutant: a job can be cancelled while it runs.
CancelActive(j) ==
  /\ j \in TestsIn(Active)
  /\ test' = [test EXCEPT ![j].status = "cancelled"]

\* cancel_queued_test_job
CancelTest(j) ==
  /\ j \in TestsIn({"queued"})
  /\ test' = [test EXCEPT ![j].status = "cancelled"]

\* reset_stale_running_jobs: of the rows left 'running', those old enough.
ResetStale(old) ==
  /\ old \subseteq TestsIn({"running"})
  /\ test' = [j \in TestIds |-> IF j \in old THEN [test[j] EXCEPT !.status = "failure"] ELSE test[j]]

\* ON DELETE CASCADE with the project.
AllGone == [j \in TestIds |-> IF Exists(j) THEN Unused("gone") ELSE test[j]]
=============================================================================
