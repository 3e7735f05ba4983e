------------------------------ MODULE MatchJobs ------------------------------
(***************************************************************************)
(* The match_jobs table (sa_common/db/match_jobs.py): the queue of ranked  *)
(* matches, and the statements the daemons run against it.  A row never    *)
(* leaves the table; its status walks                                      *)
(*     queued -> running -> success | failure,  queued | running ->        *)
(*     cancelled; but an outcome is written whatever the status is by now. *)
(* Row ids are serial, and only the scheduler inserts, so ordering by      *)
(* requested_at is ordering by id.                                         *)
(***************************************************************************)
EXTENDS Integers, FiniteSets, Sequences

CONSTANTS
  Modes,      \* ranked modes, the rows of the modes table
  Projects,   \* projects that users may submit
  MaxSeats,   \* largest participant_count of a mode
  MaxJobs,    \* bound: rows ever inserted into match_jobs
  NoMode      \* the mode of a row that does not exist yet

ASSUME JobsAssumption ==
  /\ MaxSeats \in Nat \ {0}
  /\ MaxJobs \in Nat
  /\ IsFiniteSet(Projects)
  /\ NoMode \notin Modes

VARIABLE job  \* job[j]: status, mode and project_ids (one per seat) of row j

JobIds == 1 .. MaxJobs

Seating == UNION {[1 .. n -> Projects] : n \in 1 .. MaxSeats}

JobRow ==
  [status : {"none", "queued", "running", "success", "failure", "cancelled"},
   mode   : Modes \union {NoMode},
   who    : Seating \union {<<>>}]

JobsInit ==
  job = [j \in JobIds |-> [status |-> "none", mode |-> NoMode, who |-> <<>>]]

WithStatus(st) == {j \in JobIds : job[j].status = st}

Queued(m) == {j \in WithStatus("queued") : job[j].mode = m}

\* Rows that involve one of these projects: project_ids && ps.
Involving(ps) == {j \in JobIds : \E s \in DOMAIN job[j].who : job[j].who[s] \in ps}

NextId(j) ==
  /\ job[j].status = "none"
  /\ \A k \in JobIds : k < j => job[k].status # "none"

Enqueue(m, who) ==
  \E j \in JobIds :
    /\ NextId(j)
    /\ job' = [job EXCEPT ![j] = [status |-> "queued", mode |-> m, who |-> who]]

\* SKIP LOCKED: the rows of claims that are not yet committed are passed over.
Claimable(locked) == WithStatus("queued") \ locked

\* Mutant: no row lock, as without FOR UPDATE.
PickUnlocked(j, locked) ==
  /\ j \in WithStatus("queued")
  /\ \A k \in WithStatus("queued") : j <= k

\* Mutant: no ORDER BY.
PickAny(j, locked) == j \in Claimable(locked)

\* claim_one_queued_job picks and locks a row, the first by requested_at ...
Pick(j, locked) ==
  /\ j \in Claimable(locked)
  /\ \A k \in Claimable(locked) : j <= k

\* ... and its UPDATE is there for others once the transaction commits.
Claim(j) == job' = [job EXCEPT ![j].status = "running"]

\* Both updates are WHERE id = %s alone: neither looks at the present status.
MarkSuccess(j) == job' = [job EXCEPT ![j].status = "success"]

\* Mutant: a status the job_status type does not have.
MarkFailed(j) == job' = [job EXCEPT ![j].status = "failed"]

MarkFailure(j) == job' = [job EXCEPT ![j].status = "failure"]

\* Waits for a claim that has the row; if that commits, there is nothing to
\* cancel.
Cancel(j, locked) ==
  /\ j \in Claimable(locked)
  /\ job' = [job EXCEPT ![j].status = "cancelled"]

\* delete_user_by_clerk_id: the jobs of a user's projects, queued or running.
CancelAll(js) ==
  job' = [j \in JobIds |-> IF j \in js THEN [job[j] EXCEPT !.status = "cancelled"] ELSE job[j]]
=============================================================================
