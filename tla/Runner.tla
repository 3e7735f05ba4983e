-------------------------------- MODULE Runner -------------------------------
(***************************************************************************)
(* The match runner daemon (orchestrator/runner_daemon.py): claim a job,   *)
(* resolve its agents, run the match outside any transaction, quarantine   *)
(* versions that never came up, then write the outcome.  Several replicas  *)
(* run it against one table.                                               *)
(***************************************************************************)
EXTENDS Processes

VARIABLE runner  \* runner[r]: program counter, the claimed job (0 = none),
                 \* the roster (project_version by seat) resolved for it,
                 \* absent: the seats the sim began without, and
                 \* blame: those of init_failed_seats still to be dealt with

RunnerRest(pc) == [pc |-> pc, job |-> 0, roster |-> <<>>, absent |-> {}, blame |-> {}]

RunnerState ==
  [pc     : {"down", "clear", "claim", "commit", "dispatch", "playing", "blame", "fail", "record", "sleep"},
   job    : 0 .. MaxJobs,
   roster : Versions \union {<<>>},
   absent : SUBSET (1 .. MaxSeats),
   blame  : SUBSET (1 .. MaxSeats)]

RunnerInit == runner = [r \in Runners |-> RunnerRest("clear")]

Busy(r) == runner[r].job # 0
Who(r) == job[runner[r].job].who

RunnerClear(r) ==
  /\ runner[r].pc = "clear"
  /\ runner' = [runner EXCEPT ![r] = RunnerRest("claim")]
  /\ ClearWakeup(r)
  /\ UNCHANGED <<job, ver, crashed, result, listening, pending>>

\* The rows locked by claims under way.
Locked == {runner[r].job : r \in {q \in Runners : runner[q].pc = "commit"}}

\* Block 1, the statement: the row is locked and still 'queued' for others.
\* Rows in held are locked by somebody else, an erasure or a cancel.
RunnerPicks(r, held) ==
  /\ runner[r].pc = "claim"
  /\ \E j \in JobIds :
       /\ Pick(j, Locked \union held)
       /\ runner' = [runner EXCEPT ![r].pc = "commit", ![r].job = j]
  /\ UNCHANGED <<job, ver, crashed, result, notifyVars>>

\* Block 1, the commit: the row leaves 'queued', which wakes the scheduler.
RunnerClaims(r) ==
  /\ runner[r].pc = "commit"
  /\ Claim(runner[r].job)
  /\ runner' = [runner EXCEPT ![r].pc = "dispatch"]
  /\ NotifyAll({Scheduler})
  /\ UNCHANGED <<ver, crashed, result, listening, wakeup>>

\* Nothing is queued, or all of it is locked by others.
RunnerFindsNothing(r, held) ==
  /\ runner[r].pc = "claim"
  /\ Claimable(Locked \union held) = {}
  /\ runner' = [runner EXCEPT ![r] = RunnerRest("sleep")]
  /\ UNCHANGED <<job, ver, crashed, result, notifyVars>>

\* resolve_agents: every project must still have a submitted version.  The
\* versions are those of now, not those of the time of the insert.
RunnerDispatch(r) ==
  /\ runner[r].pc = "dispatch"
  /\ IF \A s \in DOMAIN Who(r) : Who(r)[s] \in Submitted
     THEN runner' = [runner EXCEPT ![r].pc = "playing",
                       ![r].roster = [s \in DOMAIN Who(r) |-> ver[Who(r)[s]]]]
     ELSE runner' = [runner EXCEPT ![r].pc = "fail"]
  /\ UNCHANGED <<job, ver, crashed, result, notifyVars>>

MatchSucceeds(r) ==
  /\ runner[r].pc = "playing"
  /\ runner' = [runner EXCEPT ![r].pc = "record"]
  /\ UNCHANGED <<job, ver, crashed, result, notifyVars>>

\* run_match reports a failure or raises, the replay is missing, or the
\* analysis fails.
MatchFails(r) ==
  /\ runner[r].pc = "playing"
  /\ runner' = [runner EXCEPT ![r].pc = "fail"]
  /\ UNCHANGED <<job, ver, crashed, result, notifyVars>>

\* Seats that the probe gave up on, which ends the match, or that the sim
\* began without, which need not.  The latter may go unreported, when the
\* callback that looks for them raised.
SeatsDropOut(r, absent, blamed) ==
  /\ runner[r].pc = "playing"
  /\ absent # {} /\ absent \subseteq DOMAIN Who(r) /\ blamed \subseteq absent
  /\ runner' = [runner EXCEPT ![r].pc = IF blamed = {} THEN "record" ELSE "blame",
                              ![r].absent = absent, ![r].blame = blamed]
  /\ UNCHANGED <<job, ver, crashed, result, notifyVars>>

\* mark_submitted_crashed, one autocommitted UPDATE per seat: it names the
\* project, and whatever version the project has by now is the one flagged.
\* The job then goes the way of the match, success or failure.
Quarantine(r, s) ==
  /\ runner[r].pc = "blame"
  /\ s \in runner[r].blame
  /\ crashed' = [p \in Projects |-> crashed[p] \/ (p = Who(r)[s] /\ ver[p] > 0)]
  /\ \E pc \in IF runner[r].blame = {s} THEN {"fail", "record"} ELSE {"blame"} :
       runner' = [runner EXCEPT ![r].blame = @ \ {s}, ![r].pc = pc]
  /\ UNCHANGED <<job, ver, result, notifyVars>>

\* build_participants makes a row for each snake of the game, none for an
\* absent seat.
Participants(r) ==
  [s \in DOMAIN runner[r].roster |-> IF s \in runner[r].absent THEN 0 ELSE runner[r].roster[s]]

SomebodyIsGone(r) == \E s \in DOMAIN Who(r) \ runner[r].absent : Who(r)[s] \in deleted

\* Mutant: block 2 without the transaction: a crash can fall in between.
RecordBeforeMark(r) ==
  /\ runner[r].pc = "record"
  /\ ~SomebodyIsGone(r)
  /\ \/ /\ result[runner[r].job] = <<>>
        /\ result' = [result EXCEPT ![runner[r].job] = Participants(r)]
        /\ UNCHANGED <<job, runner, pending>>
     \/ /\ result[runner[r].job] # <<>>
        /\ MarkSuccess(runner[r].job)
        /\ runner' = [runner EXCEPT ![r] = RunnerRest("claim")]
        /\ NotifyAll({Scheduler})
        /\ UNCHANGED result
  /\ UNCHANGED <<ver, crashed, listening, wakeup>>

\* Mutant: the new match does not wake the scheduler.
RecordQuietly(r) ==
  /\ runner[r].pc = "record"
  /\ ~SomebodyIsGone(r)
  /\ result' = [result EXCEPT ![runner[r].job] = Participants(r)]
  /\ MarkSuccess(runner[r].job)
  /\ runner' = [runner EXCEPT ![r] = RunnerRest("claim")]
  /\ UNCHANGED <<ver, crashed, notifyVars>>

\* Block 2: the match row, its participants and the job's status together,
\* the latter by id: a job that was cancelled meanwhile becomes a success.
RunnerRecord(r) ==
  /\ runner[r].pc = "record"
  /\ ~SomebodyIsGone(r)
  /\ result' = [result EXCEPT ![runner[r].job] = Participants(r)]
  /\ MarkSuccess(runner[r].job)
  /\ runner' = [runner EXCEPT ![r] = RunnerRest("claim")]
  /\ NotifyAll({Scheduler})
  /\ UNCHANGED <<ver, crashed, listening, wakeup>>

\* A participant's project was deleted during the match: its foreign key
\* fails, the transaction rolls back and the exception handler takes over.
RunnerRecordRefused(r) ==
  /\ runner[r].pc = "record"
  /\ SomebodyIsGone(r)
  /\ runner' = [runner EXCEPT ![r].pc = "fail"]
  /\ UNCHANGED <<job, ver, crashed, result, notifyVars>>

\* Neither trigger of migrations/001.sql fires on running -> failure.
RunnerFail(r) ==
  /\ runner[r].pc = "fail"
  /\ MarkFailure(runner[r].job)
  /\ runner' = [runner EXCEPT ![r] = RunnerRest("claim")]
  /\ UNCHANGED <<ver, crashed, result, notifyVars>>

\* An exception outside the handler's try (the commit of the claim fails, the
\* work directory cannot be made): the loop logs it and goes to sleep; the row
\* stays as it is.
RunnerIterationFails(r) ==
  /\ runner[r].pc \in {"commit", "dispatch"}
  /\ runner' = [runner EXCEPT ![r] = RunnerRest("sleep")]
  /\ UNCHANGED <<job, ver, crashed, result, notifyVars>>

RunnerWake(r) ==
  /\ runner[r].pc = "sleep"
  /\ wakeup[r]
  /\ runner' = [runner EXCEPT ![r] = RunnerRest("clear")]
  /\ UNCHANGED <<job, ver, crashed, result, notifyVars>>

\* The process dies; its row stays 'running', nothing reclaims it.  If the
\* claim was not committed, the row stays 'queued', and nobody is told.
RunnerCrash(r) ==
  /\ runner[r].pc # "down"
  /\ runner' = [runner EXCEPT ![r] = RunnerRest("down")]
  /\ Vanish(r)
  /\ UNCHANGED <<job, ver, crashed, result>>

RunnerRestart(r) ==
  /\ runner[r].pc = "down"
  /\ runner' = [runner EXCEPT ![r] = RunnerRest("clear")]
  /\ UNCHANGED <<job, ver, crashed, result, notifyVars>>

RunnerWork(r) ==
  \/ RunnerClear(r)
  \/ RunnerPicks(r, {})
  \/ RunnerClaims(r)
  \/ RunnerFindsNothing(r, {})
  \/ RunnerDispatch(r)
  \/ MatchSucceeds(r)
  \/ \E s \in 1 .. MaxSeats : Quarantine(r, s)
  \/ RunnerRecord(r)
  \/ RunnerRecordRefused(r)
  \/ RunnerFail(r)
  \/ RunnerWake(r)
  \/ RunnerRestart(r)
=============================================================================
