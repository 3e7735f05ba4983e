------------------------- MODULE RankedSupplyProofs --------------------------
(***************************************************************************)
(* The supply of matches, for every instance.  A match row tells the truth *)
(* about its job and its players; no job is inserted but for a version     *)
(* that lacks matches, and no version of a solo mode gets more than the    *)
(* target; and the scheduler never goes to rest on work that is due,       *)
(* unless a failure or an erasure left it there.                           *)
(***************************************************************************)
EXTENDS RankedProofs, WellFoundedInduction

------------------------------------------------------------------------------
(* What a step does to versions, match rows and jobs.                      *)

\* A project's version only grows, until the project is deleted.
VersionsGrow ==
  /\ deleted \subseteq deleted'
  /\ \A p \in Projects \ deleted' : ver[p] <= ver'[p]
  /\ \A p \in deleted' : ver'[p] = IF p \in deleted THEN ver[p] ELSE 0

\* Rows of matches go away, or lose a participant that went with its project.
ResultsFade ==
  \A j \in JobIds : result'[j] # <<>> =>
    /\ result[j] # <<>>
    /\ DOMAIN result'[j] = DOMAIN result[j]
    /\ \A s \in DOMAIN result[j] :
         \/ /\ result'[j][s] = 0
            /\ job[j].who[s] \in deleted'
         \/ /\ result'[j][s] = result[j][s]
            /\ ver[job[j].who[s]] <= ver'[job[j].who[s]]

Open == {"queued", "running"}

\* Jobs keep mode and seats; none is queued again, and the outcome of a job
\* stands, unless it was cancelled when a player of it was erased.
JobsAge ==
  \A j \in JobIds :
    /\ job'[j].mode = job[j].mode
    /\ job'[j].who = job[j].who
    /\ job'[j].status # job[j].status =>
         \/ /\ job[j].status \in Open
            /\ job'[j].status \in {"running", "success", "failure", "cancelled"}
         \/ /\ job[j].status = "cancelled" /\ j \in Void
            /\ job'[j].status \in {"success", "failure"}

Inserts == SchedulerProcess /\ (SchedSolo \/ SchedMultiPick)

Records == \E r \in Runners : RunnerRecord(r) /\ UNCHANGED deleted

LEMMA StatusAges ==
  ASSUME IInv, NEW j \in JobIds, job[j].status \in Open,
         NEW st \in {"running", "success", "failure", "cancelled"},
         job' = [job EXCEPT ![j].status = st]
  PROVE  JobsAge
  BY DEF JobsAge, IInv, TypeOK, JobRow

LEMMA OutcomeAges ==
  ASSUME IInv, NEW r \in Runners, runner[r].pc \in {"record", "fail"},
         NEW st \in {"success", "failure"}, job' = [job EXCEPT ![runner[r].job].status = st]
  PROVE  JobsAge
<1>1. /\ runner[r].job \in JobIds
      /\ \/ job[runner[r].job].status \in Open
         \/ job[runner[r].job].status = "cancelled" /\ runner[r].job \in Void
  BY RowInHand DEF Idle, Open
<1>2. \A j \in JobIds \ {runner[r].job} : job'[j] = job[j]
  BY DEF IInv, TypeOK
<1>3. job'[runner[r].job] = [job[runner[r].job] EXCEPT !.status = st]
  BY <1>1 DEF IInv, TypeOK
<1>4. job[runner[r].job] \in JobRow
  BY <1>1 DEF IInv, TypeOK
<1>5. QED
  BY <1>1, <1>2, <1>3, <1>4 DEF JobsAge, JobRow

LEMMA SameJobsAge ==
  ASSUME UNCHANGED job
  PROVE  JobsAge
  BY DEF JobsAge

LEMMA SameResultsFade ==
  ASSUME IInv, MatchesBackedByJobs, UNCHANGED <<result, ver>>
  PROVE  ResultsFade
<1>1. ASSUME NEW j \in JobIds, result[j] # <<>>, NEW s \in DOMAIN result[j]
      PROVE  ver[job[j].who[s]] <= ver[job[j].who[s]]
  <2>1. job[j].who \in Seating /\ s \in DOMAIN job[j].who
    BY <1>1 DEF MatchesBackedByJobs, IInv, RowsFilled
  <2>2. job[j].who[s] \in Projects
    BY <2>1 DEF Seating
  <2>3. QED
    BY <2>2, ModesAssumption DEF IInv, TypeOK
<1>2. QED
  BY <1>1 DEF ResultsFade

LEMMA SameVersionsGrow ==
  ASSUME IInv, UNCHANGED <<ver, deleted>>
  PROVE  VersionsGrow
  BY ModesAssumption DEF VersionsGrow, IInv, TypeOK

LEMMA PrunedFades ==
  ASSUME NEW rows, NEW v, NEW j \in JobIds, Pruned(rows, v)[j] # <<>>
  PROVE  Pruned(rows, v)[j] = rows[j] /\ rows[j] # <<>>
<1>1. Pruned(rows, v)[j] = IF \E s \in DOMAIN rows[j] : rows[j][s] > 0 /\ rows[j][s] = v[job[j].who[s]]
                           THEN rows[j] ELSE <<>>
  BY DEF Pruned
<1>2. QED
  BY <1>1

LEMMA PlayersOfRow ==
  ASSUME IInv, MatchesBackedByJobs, NEW j \in JobIds, result[j] # <<>>
  PROVE  /\ job[j].status = "success"
         /\ DOMAIN result[j] = DOMAIN job[j].who
         /\ DOMAIN result[j] \subseteq 1 .. MaxSeats
         /\ \A s \in DOMAIN result[j] :
              /\ job[j].who[s] \in Projects
              /\ result[j][s] \in 0 .. MaxVersion
              /\ ver[job[j].who[s]] \in 0 .. MaxVersion
              /\ result[j][s] <= ver[job[j].who[s]]
<1>1. job[j].who \in Seating /\ DOMAIN result[j] = DOMAIN job[j].who /\ job[j].status = "success"
  BY DEF MatchesBackedByJobs, IInv, RowsFilled
<1>2. PICK n \in 1 .. MaxSeats : job[j].who \in [1 .. n -> Projects]
  BY <1>1 DEF Seating
<1>3. PICK k \in 1 .. MaxSeats : result[j] \in [1 .. k -> 0 .. MaxVersion]
  BY DEF IInv, TypeOK, Versions
<1>4. DOMAIN result[j] \subseteq 1 .. MaxSeats
  BY <1>2, <1>1, JobsAssumption
<1>5. QED
  BY <1>1, <1>2, <1>3, <1>4 DEF MatchesBackedByJobs, IInv, TypeOK

LEMMA SubmitShape ==
  ASSUME IInv, MatchesBackedByJobs, NEW p \in Projects, Submit(p)
  PROVE  VersionsGrow /\ ResultsFade /\ JobsAge
<1>1. /\ ver \in [Projects -> 0 .. MaxVersion]
      /\ ver' = [ver EXCEPT ![p] = @ + 1]
      /\ deleted' = deleted /\ p \notin deleted /\ deleted \subseteq Projects
  BY DEF Submit, IInv, TypeOK
<1>2. \A q \in Projects : ver[q] <= ver'[q] /\ (q # p => ver'[q] = ver[q])
  BY <1>1, ModesAssumption
<1>3. VersionsGrow
  BY <1>1, <1>2 DEF VersionsGrow
<1>4. ResultsFade
  <2>1. ASSUME NEW j \in JobIds, result'[j] # <<>>
        PROVE  result'[j] = result[j] /\ result[j] # <<>>
    BY <2>1, PrunedFades DEF Submit
  <2>2. QED
    BY <1>2, <2>1, PlayersOfRow DEF ResultsFade
<1>5. QED
  BY <1>3, <1>4, SameJobsAge DEF Submit

\* Rows that lost some players fade.
LEMMA OrphansFade ==
  ASSUME IInv, MatchesBackedByJobs, NEW ps \in SUBSET Projects, deleted' = deleted \union ps,
         \A q \in Projects \ ps : ver[q] <= ver'[q],
         \A j \in JobIds : result'[j] # <<>> =>
            result'[j] = WithoutPlayers(ps)[j] /\ result[j] # <<>>
  PROVE  ResultsFade
<1>1. ASSUME NEW j \in JobIds, result'[j] # <<>>
      PROVE  /\ result[j] # <<>>
             /\ DOMAIN result'[j] = DOMAIN result[j]
             /\ \A s \in DOMAIN result[j] :
                  result'[j][s] = IF job[j].who[s] \in ps THEN 0 ELSE result[j][s]
  BY <1>1 DEF WithoutPlayers
<1>2. QED
  BY <1>1, PlayersOfRow DEF ResultsFade

LEMMA DeleteShape ==
  ASSUME IInv, MatchesBackedByJobs, NEW p \in Projects, Delete(p)
  PROVE  VersionsGrow /\ ResultsFade /\ JobsAge
<1>1. /\ ver \in [Projects -> 0 .. MaxVersion]
      /\ ver' = [ver EXCEPT ![p] = 0]
      /\ deleted' = deleted \union {p} /\ p \notin deleted /\ deleted \subseteq Projects
  BY DEF Delete, IInv, TypeOK
<1>2. \A q \in Projects : q # p => ver[q] <= ver'[q] /\ ver'[q] = ver[q]
  BY <1>1, ModesAssumption
<1>3. VersionsGrow
  BY <1>1, <1>2 DEF VersionsGrow
<1>4. result' = Pruned(WithoutPlayers({p}), ver')
  BY DEF Delete
<1>5. ASSUME NEW j \in JobIds, result'[j] # <<>>
      PROVE  result'[j] = WithoutPlayers({p})[j] /\ result[j] # <<>>
  <2>1. result'[j] = WithoutPlayers({p})[j] /\ WithoutPlayers({p})[j] # <<>>
    BY <1>4, <1>5, PrunedFades
  <2>2. ASSUME result[j] = <<>>
        PROVE  WithoutPlayers({p})[j] = <<>>
    <3>1. DOMAIN [s \in DOMAIN result[j] |-> IF job[j].who[s] \in {p} THEN 0 ELSE result[j][s]] = {}
      BY <2>2
    <3>2. QED
      BY <3>1 DEF WithoutPlayers
  <2>3. QED
    BY <2>1, <2>2
<1>6. ResultsFade
  BY <1>1, <1>2, <1>5, OrphansFade
<1>7. QED
  BY <1>3, <1>6, SameJobsAge DEF Delete

LEMMA EraseShape ==
  ASSUME IInv, MatchesBackedByJobs, NEW ps \in SUBSET Projects, EraseUser(ps)
  PROVE  VersionsGrow /\ ResultsFade /\ JobsAge
<1>1. /\ ver \in [Projects -> 0 .. MaxVersion]
      /\ ver' = [q \in Projects |-> IF q \in ps THEN 0 ELSE ver[q]]
      /\ deleted' = deleted \union ps /\ ps \intersect deleted = {} /\ deleted \subseteq Projects
  BY DEF EraseUser, IInv, TypeOK
<1>2. \A q \in Projects \ ps : ver[q] <= ver'[q] /\ ver'[q] = ver[q]
  BY <1>1, ModesAssumption
<1>3. VersionsGrow
  BY <1>1, <1>2 DEF VersionsGrow
<1>4. ASSUME NEW j \in JobIds, result'[j] # <<>>
      PROVE  result'[j] = WithoutPlayers(ps)[j] /\ result[j] # <<>>
  <2> DEFINE row == WithoutPlayers(ps)[j]
  <2>1. result'[j] = IF row # result[j] /\ \A s \in DOMAIN row : row[s] = 0 THEN <<>> ELSE row
    BY DEF EraseUser
  <2>2. result[j] = <<>> => DOMAIN row = {}
    BY WithoutPlayersTyped
  <2> HIDE DEF row
  <2>3. result'[j] = row /\ result[j] # <<>>
    BY <1>4, <2>1, <2>2
  <2>4. QED
    BY <2>3 DEF row
<1>5. ResultsFade
  BY <1>1, <1>2, <1>4, OrphansFade
<1>6. JobsAge
  <2>1. PICK js \in SUBSET JobIds :
           /\ \A j \in js : job[j].status = "running" \/ (job[j].status = "queued" /\ j \notin Locked)
           /\ \A j \in JobIds : /\ job'[j].mode = job[j].mode /\ job'[j].who = job[j].who
                              /\ job'[j].status = IF j \in js THEN "cancelled" ELSE job[j].status
    BY ErasedJobs
  <2>2. QED
    BY <2>1 DEF JobsAge, Open
<1>7. QED
  BY <1>3, <1>5, <1>6

LEMMA StepShape ==
  ASSUME IInv, MatchesBackedByJobs, [Next]_vars
  PROVE  /\ VersionsGrow
         /\ ResultsFade \/ Records
         /\ JobsAge \/ Inserts
<1> USE DEF projectVars
<1>0. ASSUME UNCHANGED <<ver, deleted, result, job>>
      PROVE  VersionsGrow /\ ResultsFade /\ JobsAge
  BY <1>0, SameVersionsGrow, SameResultsFade, SameJobsAge
<1>1. CASE User
  <2>1. ASSUME NEW j \in JobIds, CancelQueued(j)
        PROVE  VersionsGrow /\ ResultsFade /\ JobsAge
    <3>1. UNCHANGED <<ver, deleted, result>> /\ job[j].status \in Open
            /\ job' = [job EXCEPT ![j].status = "cancelled"]
      BY <2>1 DEF CancelQueued, Cancel, Claimable, WithStatus, Open
    <3>2. QED
      BY <3>1, StatusAges, SameVersionsGrow, SameResultsFade
  <2>2. QED
    BY <1>0, <1>1, <2>1, SubmitShape, DeleteShape, EraseShape DEF User, DisableMode, EnableMode
<1>2. CASE SchedulerProcess
  <2>1. UNCHANGED <<ver, deleted, result>>
    BY <1>2 DEF SchedulerProcess
  <2>2. CASE SchedSolo \/ SchedMultiPick
    BY <1>2, <2>1, <2>2, SameVersionsGrow, SameResultsFade DEF Inserts
  <2>3. CASE ~(SchedSolo \/ SchedMultiPick)
    BY <1>0, <1>2, <2>1, <2>3
       DEF SchedulerProcess, SchedWork, SchedClear, SchedCount, SchedWalk, SchedTickDone,
           SchedSoloDone, SchedMultiList, SchedNoGroup, SchedWake, SchedRestart
  <2>4. QED
    BY <2>2, <2>3
<1>3. ASSUME NEW r \in Runners, RunnerProcess(r)
      PROVE  VersionsGrow /\ (ResultsFade \/ Records) /\ JobsAge
  <2>0. UNCHANGED deleted
    BY <1>3 DEF RunnerProcess
  <2>1. CASE RunnerClaims(r)
    <3>1. runner[r].job \in JobIds /\ job[runner[r].job].status \in Open
      BY <2>1, RowInHand DEF RunnerClaims, Idle, Open
    <3>2. QED
      BY <2>0, <2>1, <3>1, StatusAges, SameVersionsGrow, SameResultsFade DEF RunnerClaims, Claim
  <2>2. CASE RunnerRecord(r) \/ RunnerFail(r)
    <3>2. JobsAge
      BY <2>2, OutcomeAges DEF RunnerRecord, RunnerFail, MarkSuccess, MarkFailure
    <3>3. UNCHANGED ver /\ (Records \/ UNCHANGED result)
      BY <2>0, <2>2 DEF RunnerRecord, RunnerFail, Records
    <3>4. QED
      BY <2>0, <3>2, <3>3, SameVersionsGrow, SameResultsFade
  <2>3. CASE ~(RunnerClaims(r) \/ RunnerRecord(r) \/ RunnerFail(r))
    BY <1>0, <1>3, <2>0, <2>3
       DEF RunnerProcess, RunnerWork, RunnerClear, RunnerPicks, RunnerFindsNothing, RunnerDispatch,
           MatchSucceeds, Quarantine, RunnerRecordRefused, RunnerWake, RunnerRestart
  <2>4. QED
    BY <2>1, <2>2, <2>3
<1>4. ASSUME NEW r \in Runners, MatchGoesWrong(r)
      PROVE  VersionsGrow /\ ResultsFade /\ JobsAge
  BY <1>0, <1>4 DEF MatchGoesWrong, MatchFails, SeatsDropOut
<1>5. CASE \E d \in Daemons : ListenerReceives(d) \/ ListenerConnects(d) \/ ListenerDrops(d)
  BY <1>0, <1>5 DEF ListenerReceives, ListenerConnects, ListenerDrops
<1>6. CASE Crash
  BY <1>0, <1>6 DEF Crash, SchedCrash, RunnerCrash
<1>7. CASE Escape \/ PassOver
  BY <1>0, <1>7 DEF Escape, SchedTickFails, RunnerIterationFails, PassOver, RunnerPicks,
                    RunnerFindsNothing
<1>8. CASE UNCHANGED vars
  BY <1>0, <1>8 DEF vars
<1>9. QED
  BY <1>1, <1>2, <1>3, <1>4, <1>5, <1>6, <1>7, <1>8 DEF Next

------------------------------------------------------------------------------
(* Versions played.                                                        *)

\* From the dispatch on, a runner's roster has a version of every player that
\* the player has had, unless the player's project is gone.
Playing == {"playing", "blame", "record"}

Resolved ==
  \A r \in Runners : runner[r].pc \in Playing =>
    /\ DOMAIN runner[r].roster = DOMAIN Who(r)
    /\ \A s \in DOMAIN Who(r) :
         Who(r)[s] \in deleted \/ runner[r].roster[s] <= ver[Who(r)[s]]

\* Who gets as far as a match, and with what.
LEMMA WhoPlays ==
  ASSUME IInv, [Next]_vars, NEW r \in Runners, runner'[r].pc \in Playing
  PROVE  /\ runner'[r].job = runner[r].job
         /\ runner[r].pc \notin Idle
         /\ \/ /\ runner[r].pc \in Playing
               /\ runner'[r].roster = runner[r].roster
            \/ /\ UNCHANGED <<job, ver, deleted>>
               /\ runner'[r].roster = [s \in DOMAIN Who(r) |-> ver[Who(r)[s]]]
<1> DEFINE Goal == /\ runner'[r].job = runner[r].job
                   /\ runner[r].pc \notin Idle
                   /\ \/ /\ runner[r].pc \in Playing
                         /\ runner'[r].roster = runner[r].roster
                      \/ /\ UNCHANGED <<job, ver, deleted>>
                         /\ runner'[r].roster = [s \in DOMAIN Who(r) |-> ver[Who(r)[s]]]
<1>0. ASSUME runner'[r] = runner[r] PROVE Goal
  BY <1>0 DEF Idle, Playing
<1>1. runner \in [Runners -> RunnerState]
  BY DEF IInv, TypeOK
<1>2. ASSUME NEW q \in Runners, \A z \in Runners \ {q} : runner'[z] = runner[z],
             runner'[q].pc \notin Playing
      PROVE  Goal
  BY <1>0, <1>2
<1> HIDE DEF Goal
<1> SUFFICES Goal
  BY DEF Goal
<1>3. CASE User
  BY <1>0, <1>3 DEF User, Submit, Delete, EraseUser, CancelQueued, DisableMode, EnableMode
<1>4. CASE SchedulerProcess
  BY <1>0, <1>4 DEF SchedulerProcess
<1>5. ASSUME NEW q \in Runners, RunnerProcess(q)
      PROVE  Goal
  <2>1. CASE RunnerClear(q) \/ RunnerFindsNothing(q, {}) \/ RunnerRecord(q) \/ RunnerFail(q)
             \/ RunnerWake(q) \/ RunnerRestart(q) \/ RunnerPicks(q, {}) \/ RunnerClaims(q)
             \/ RunnerRecordRefused(q)
    <3>1. \A z \in Runners \ {q} : runner'[z] = runner[z]
      BY <1>1, <2>1 DEF RunnerClear, RunnerFindsNothing, RunnerRecord, RunnerFail, RunnerWake,
                        RunnerRestart, RunnerPicks, RunnerClaims, RunnerRecordRefused
    <3>2. runner'[q].pc \in {"claim", "sleep", "clear", "commit", "dispatch", "fail"}
      BY <1>1, <2>1 DEF RunnerClear, RunnerFindsNothing, RunnerRecord, RunnerFail, RunnerWake,
                        RunnerRestart, RunnerPicks, RunnerClaims, RunnerRecordRefused, RunnerRest,
                        RunnerState
    <3>3. QED
      BY <1>2, <3>1, <3>2 DEF Playing
  <2>4. ASSUME NEW s \in 1 .. MaxSeats, Quarantine(q, s)
        PROVE  Goal
    <3>1. \A z \in Runners \ {q} : runner'[z] = runner[z]
      BY <1>1, <2>4 DEF Quarantine
    <3>2. /\ runner[q].pc = "blame"
          /\ runner'[q].roster = runner[q].roster
          /\ runner'[q].job = runner[q].job
      BY <1>1, <2>4 DEF Quarantine, RunnerState
    <3>3. QED
      BY <1>0, <3>1, <3>2 DEF Idle, Playing, Goal
  <2>5. CASE RunnerDispatch(q)
    <3> DEFINE now == [s \in DOMAIN Who(q) |-> ver[Who(q)[s]]]
    <3>1. \A z \in Runners \ {q} : runner'[z] = runner[z]
      BY <1>1, <2>5 DEF RunnerDispatch
    <3>2. runner[q].pc = "dispatch" /\ UNCHANGED <<job, ver, deleted>>
      BY <1>5, <2>5 DEF RunnerDispatch, RunnerProcess
    <3>3. CASE runner' = [runner EXCEPT ![q].pc = "fail"]
      <4>1. runner'[q].pc = "fail"
        BY <1>1, <3>3 DEF RunnerState
      <4>2. QED
        BY <1>2, <3>1, <4>1 DEF Playing
    <3>4. CASE runner' = [runner EXCEPT ![q].pc = "playing", ![q].roster = now]
      <4> HIDE DEF now
      <4>1. runner'[q].roster = now /\ runner'[q].job = runner[q].job
        BY <1>1, <3>4 DEF RunnerState
      <4>2. CASE q = r
        BY <3>2, <4>1, <4>2 DEF now, Idle, Goal
      <4>3. CASE q # r
        BY <1>0, <3>1, <4>3
      <4>4. QED
        BY <4>2, <4>3
    <3>5. QED
      BY <2>5, <3>3, <3>4 DEF RunnerDispatch
  <2>6. CASE MatchSucceeds(q)
    <3>1. \A z \in Runners \ {q} : runner'[z] = runner[z]
      BY <1>1, <2>6 DEF MatchSucceeds
    <3>2. /\ runner[q].pc = "playing"
          /\ runner'[q].roster = runner[q].roster
          /\ runner'[q].job = runner[q].job
      BY <1>1, <2>6 DEF MatchSucceeds, RunnerState
    <3>3. QED
      BY <1>0, <3>1, <3>2 DEF Idle, Playing, Goal
  <2>7. QED
    BY <1>5, <2>1, <2>4, <2>5, <2>6 DEF RunnerProcess, RunnerWork
<1>6. ASSUME NEW q \in Runners, MatchGoesWrong(q)
      PROVE  Goal
  <2>1. \A z \in Runners \ {q} : runner'[z] = runner[z]
    BY <1>1, <1>6 DEF MatchGoesWrong, MatchFails, SeatsDropOut
  <2>2. /\ runner[q].pc = "playing"
        /\ runner'[q].roster = runner[q].roster
        /\ runner'[q].job = runner[q].job
    <3>1. CASE MatchFails(q)
      BY <1>1, <3>1 DEF MatchFails, RunnerState
    <3>2. ASSUME NEW absent, NEW blamed, SeatsDropOut(q, absent, blamed)
          PROVE  /\ runner[q].pc = "playing"
                 /\ runner'[q].roster = runner[q].roster
                 /\ runner'[q].job = runner[q].job
      BY <1>1, <3>2 DEF SeatsDropOut, RunnerState
    <3>3. QED
      BY <1>6, <3>1, <3>2 DEF MatchGoesWrong
  <2>3. QED
    BY <1>0, <2>1, <2>2 DEF Idle, Playing, Goal
<1>7. CASE \E d \in Daemons : ListenerReceives(d) \/ ListenerConnects(d) \/ ListenerDrops(d)
  BY <1>0, <1>7 DEF ListenerReceives, ListenerConnects, ListenerDrops
<1>8. ASSUME NEW q \in Runners, RunnerCrash(q) \/ RunnerIterationFails(q)
      PROVE  Goal
  <2>1. \A z \in Runners \ {q} : runner'[z] = runner[z]
    BY <1>1, <1>8 DEF RunnerCrash, RunnerIterationFails
  <2>2. runner'[q].pc \in {"down", "sleep"}
    BY <1>1, <1>8 DEF RunnerCrash, RunnerIterationFails, RunnerRest, RunnerState
  <2>3. QED
    BY <1>2, <2>1, <2>2 DEF Playing
<1>9. CASE Crash \/ Escape \/ PassOver
  <2>1. ASSUME NEW q \in Runners, NEW held, RunnerPicks(q, held) \/ RunnerFindsNothing(q, held)
        PROVE  Goal
    <3>1. \A z \in Runners \ {q} : runner'[z] = runner[z]
      BY <1>1, <2>1 DEF RunnerPicks, RunnerFindsNothing
    <3>2. runner'[q].pc \in {"commit", "sleep"}
      BY <1>1, <2>1 DEF RunnerPicks, RunnerFindsNothing, RunnerRest, RunnerState
    <3>3. QED
      BY <1>2, <2>1, <3>1, <3>2 DEF Playing, RunnerPicks, RunnerFindsNothing
  <2>2. QED
    BY <1>0, <1>8, <1>9, <2>1 DEF Crash, Escape, PassOver
<1>10. CASE UNCHANGED vars
  BY <1>0, <1>10 DEF vars
<1>11. QED
  BY <1>3, <1>4, <1>5, <1>6, <1>7, <1>9, <1>10 DEF Next

\* What an insert inserts.
LEMMA InsertShape ==
  ASSUME IInv, Inserts
  PROVE  \E j \in JobIds, who \in Seating :
           /\ sched.mode \in Modes
           /\ job[j].status = "none"
           /\ job' = [job EXCEPT ![j] = [status |-> "queued", mode |-> sched.mode, who |-> who]]
           /\ \/ SchedSolo /\ \E v \in sched.plan :
                  /\ who = <<v[1]>>
                  /\ sched' = [sched EXCEPT !.plan = @ \ {v}, !.room = @ - 1]
              \/ SchedMultiPick /\ \E g \in Groups(sched.mode, sched.plan, sched.tally) :
                  who = GroupSeating(sched.mode, g)
<1>0. sched \in SchedState /\ sched.plan \in SUBSET Ref
  BY DEF IInv, TypeOK, SchedState
<1>1. CASE SchedSolo
  <2>1. sched.mode \in Modes
    BY <1>1 DEF SchedSolo, IInv, ModeChosen
  <2>2. PICK v \in sched.plan :
          /\ Enqueue(sched.mode, <<v[1]>>)
          /\ sched' = [sched EXCEPT !.plan = @ \ {v}, !.room = @ - 1]
    BY <1>1 DEF SchedSolo
  <2>3. <<v[1]>> \in Seating
    BY <1>0, SoloSeating DEF Ref
  <2>4. QED
    BY <1>1, <2>1, <2>2, <2>3 DEF Enqueue, NextId
<1>2. CASE SchedMultiPick
  <2>1. sched.mode \in Modes
    BY <1>2 DEF SchedMultiPick, IInv, ModeChosen
  <2>2. PICK g \in Groups(sched.mode, sched.plan, sched.tally) :
          Enqueue(sched.mode, GroupSeating(sched.mode, g))
    BY <1>2 DEF SchedMultiPick
  <2>3. GroupSeating(sched.mode, g) \in Seating
    BY <1>0, <2>1, SeatingOfGroup
  <2>4. QED
    BY <1>2, <2>1, <2>2, <2>3 DEF Enqueue, NextId
<1>3. QED
  BY <1>1, <1>2 DEF Inserts

LEMMA RowsStay ==
  ASSUME IInv, JobsAge \/ Inserts, NEW j \in JobIds, job[j].status # "none"
  PROVE  /\ job'[j].mode = job[j].mode /\ job'[j].who = job[j].who
         /\ job[j].status = "success" => job'[j].status = "success"
<1>1. CASE JobsAge
  BY <1>1 DEF JobsAge, Open
<1>2. CASE Inserts
  <2>1. PICK k \in JobIds : \E who \in Seating : job[k].status = "none" /\
          job' = [job EXCEPT ![k] = [status |-> "queued", mode |-> sched.mode, who |-> who]]
    BY <1>2, InsertShape
  <2>2. QED
    BY <2>1 DEF IInv, TypeOK
<1>3. QED
  BY <1>1, <1>2

\* A match is recorded without the players that were absent.  Of the others,
\* none is gone.
LEMMA RecordShape ==
  ASSUME IInv, Resolved, Records
  PROVE  \E r \in Runners :
           /\ runner[r].pc = "record"
           /\ runner[r].job \in JobIds
           /\ \/ job[runner[r].job].status = "running"
              \/ job[runner[r].job].status = "cancelled" /\ runner[r].job \in Void
           /\ \A s \in DOMAIN Who(r) \ runner[r].absent : Who(r)[s] \notin deleted
           /\ \E row : /\ result' = [result EXCEPT ![runner[r].job] = row]
                       /\ DOMAIN row = DOMAIN Who(r)
                       /\ \A s \in DOMAIN Who(r) :
                            row[s] = IF s \in runner[r].absent THEN 0 ELSE runner[r].roster[s]
           /\ job' = [job EXCEPT ![runner[r].job].status = "success"]
           /\ UNCHANGED <<ver, deleted>>
<1>1. PICK r \in Runners : RunnerRecord(r) /\ UNCHANGED deleted
  BY DEF Records
<1>2. /\ runner[r].job \in JobIds /\ runner[r].pc = "record"
      /\ \/ job[runner[r].job].status = "running"
         \/ job[runner[r].job].status = "cancelled" /\ runner[r].job \in Void
  BY <1>1, RowInHand DEF RunnerRecord, Idle
<1>3. DOMAIN runner[r].roster = DOMAIN Who(r)
  BY <1>2 DEF Resolved, Playing
<1>4. /\ DOMAIN Participants(r) = DOMAIN Who(r)
      /\ \A s \in DOMAIN Who(r) :
           Participants(r)[s] = IF s \in runner[r].absent THEN 0 ELSE runner[r].roster[s]
  BY <1>3 DEF Participants
<1>5. QED
  BY <1>1, <1>2, <1>4 DEF RunnerRecord, MarkSuccess, SomebodyIsGone

LEMMA MatchesKept ==
  ASSUME IInv, MatchesBackedByJobs, Resolved, [Next]_vars
  PROVE  MatchesBackedByJobs'
<1>0. VersionsGrow /\ (ResultsFade \/ Records) /\ (JobsAge \/ Inserts)
  BY StepShape
<1> SUFFICES ASSUME NEW j \in JobIds, result'[j] # <<>>
             PROVE  /\ job'[j].status = "success"
                    /\ DOMAIN result'[j] = DOMAIN job'[j].who
                    /\ \A s \in DOMAIN result'[j] : result'[j][s] <= ver'[job'[j].who[s]]
  BY DEF MatchesBackedByJobs
<1>1. CASE ResultsFade
  <2>1. /\ result[j] # <<>> /\ DOMAIN result'[j] = DOMAIN result[j]
        /\ \A s \in DOMAIN result[j] :
             \/ /\ result'[j][s] = 0
                /\ job[j].who[s] \in deleted'
             \/ /\ result'[j][s] = result[j][s]
                /\ ver[job[j].who[s]] <= ver'[job[j].who[s]]
    BY <1>1 DEF ResultsFade
  <2>2. job'[j].status = "success" /\ job'[j].who = job[j].who
    BY <1>0, <2>1, RowsStay, PlayersOfRow
  <2>3. ver' \in [Projects -> 0 .. MaxVersion]
    BY NextKeepsIInv DEF IInv, TypeOK
  <2>4. \A s \in DOMAIN result[j] : result'[j][s] <= ver'[job[j].who[s]]
    <3>1. ASSUME NEW s \in DOMAIN result[j]
          PROVE  result'[j][s] <= ver'[job[j].who[s]]
      <4>1. /\ job[j].who[s] \in Projects /\ result[j][s] \in Nat /\ ver[job[j].who[s]] \in Nat
            /\ result[j][s] <= ver[job[j].who[s]]
        BY <2>1, PlayersOfRow, ModesAssumption
      <4>2. ver'[job[j].who[s]] \in Nat
        BY <2>3, <4>1, ModesAssumption
      <4>3. QED
        BY <2>1, <4>1, <4>2
    <3>2. QED
      BY <3>1
  <2>5. QED
    BY <2>1, <2>2, <2>4, PlayersOfRow
<1>2. CASE Records
  <2>1. PICK r \in Runners :
           /\ runner[r].pc = "record"
           /\ runner[r].job \in JobIds
           /\ \A s \in DOMAIN Who(r) \ runner[r].absent : Who(r)[s] \notin deleted
           /\ \E row : /\ result' = [result EXCEPT ![runner[r].job] = row]
                       /\ DOMAIN row = DOMAIN Who(r)
                       /\ \A s \in DOMAIN Who(r) :
                            row[s] = IF s \in runner[r].absent THEN 0 ELSE runner[r].roster[s]
           /\ job' = [job EXCEPT ![runner[r].job].status = "success"]
           /\ UNCHANGED <<ver, deleted>>
    BY <1>2, RecordShape
  <2>2. CASE j = runner[r].job
    <3>1. /\ DOMAIN result'[j] = DOMAIN Who(r)
          /\ \A s \in DOMAIN Who(r) :
               result'[j][s] = IF s \in runner[r].absent THEN 0 ELSE runner[r].roster[s]
      BY <2>1, <2>2 DEF IInv, TypeOK
    <3>2. job'[j].status = "success" /\ job'[j].who = Who(r)
      BY <2>1, <2>2 DEF IInv, TypeOK, JobRow, Who
    <3>3. \A s \in DOMAIN Who(r) \ runner[r].absent : runner[r].roster[s] <= ver[Who(r)[s]]
      BY <2>1 DEF Resolved, Playing
    <3>4. \A s \in DOMAIN Who(r) : Who(r)[s] \in Projects
      BY <2>1, RowInHand DEF Idle
    <3>5. \A s \in DOMAIN Who(r) : ver[Who(r)[s]] \in 0 .. MaxVersion
      BY <3>4 DEF IInv, TypeOK
    <3>6. \A s \in DOMAIN Who(r) : result'[j][s] <= ver[Who(r)[s]]
      BY <3>1, <3>3, <3>5, ModesAssumption
    <3>7. QED
      BY <2>1, <3>1, <3>2, <3>6
  <2>3. CASE j # runner[r].job
    BY <2>1, <2>3 DEF IInv, TypeOK, MatchesBackedByJobs
  <2>4. QED
    BY <2>2, <2>3
<1>3. QED
  BY <1>0, <1>1, <1>2

LEMMA ResolvedKept ==
  ASSUME IInv, MatchesBackedByJobs, Resolved, [Next]_vars
  PROVE  Resolved'
<1>0. VersionsGrow /\ (JobsAge \/ Inserts)
  BY StepShape
<1> SUFFICES ASSUME NEW r \in Runners, runner'[r].pc \in Playing
             PROVE  /\ DOMAIN runner'[r].roster = DOMAIN Who(r)'
                    /\ \A s \in DOMAIN Who(r)' :
                         Who(r)'[s] \in deleted' \/ runner'[r].roster[s] <= ver'[Who(r)'[s]]
  BY DEF Resolved, Playing
<1>1. runner'[r].job = runner[r].job /\ runner[r].pc \notin Idle
  BY WhoPlays
<1>2. Who(r)' = Who(r)
  BY <1>0, <1>1, RowInHand, RowsStay DEF Who
<1>3. \A s \in DOMAIN Who(r) : Who(r)[s] \in Projects
  BY <1>1, RowInHand
<1>4. CASE UNCHANGED <<job, ver, deleted>> /\ runner'[r].roster = [s \in DOMAIN Who(r) |-> ver[Who(r)[s]]]
  BY <1>2, <1>3, <1>4, ModesAssumption DEF IInv, TypeOK
<1>5. CASE runner[r].pc \in Playing /\ runner'[r].roster = runner[r].roster
  <2>1. DOMAIN runner[r].roster = DOMAIN Who(r)
    BY <1>5 DEF Resolved, Playing
  <2>2. runner[r].roster \in Versions \union {<<>>}
    BY DEF IInv, TypeOK, RunnerState
  <2>3. ASSUME NEW s \in DOMAIN Who(r)
        PROVE  Who(r)[s] \in deleted' \/ runner[r].roster[s] <= ver'[Who(r)[s]]
    <3>1. Who(r)[s] \in deleted \/ runner[r].roster[s] <= ver[Who(r)[s]]
      BY <1>5 DEF Resolved, Playing
    <3>2. runner[r].roster[s] \in Nat
      <4>1. runner[r].roster # <<>>
        BY <2>1, <2>3
      <4>2. PICK n \in 1 .. MaxSeats : runner[r].roster \in [1 .. n -> 0 .. MaxVersion]
        BY <2>2, <4>1 DEF Versions
      <4>3. QED
        BY <2>1, <2>3, <4>2, ModesAssumption
    <3>3. ver[Who(r)[s]] \in Nat /\ ver'[Who(r)[s]] \in Nat
      BY <1>3, NextKeepsIInv, ModesAssumption DEF IInv, TypeOK
    <3>4. QED
      BY <1>0, <1>3, <3>1, <3>2, <3>3 DEF VersionsGrow
  <2>4. QED
    BY <1>2, <1>5, <2>1, <2>3
<1>6. QED
  BY <1>4, <1>5, WhoPlays

------------------------------------------------------------------------------
(* How often a version appears.                                            *)

LEMMA AppearancesFinite ==
  ASSUME NEW m, NEW p
  PROVE  /\ Appearances(m, p) \subseteq JobIds \X (1 .. MaxSeats)
         /\ IsFiniteSet(Appearances(m, p))
         /\ Cardinality(Appearances(m, p)) \in Nat
<1>1. Appearances(m, p) \subseteq JobIds \X (1 .. MaxSeats)
  BY DEF Appearances, Played, InFlight
<1>2. IsFiniteSet(1 .. MaxSeats)
  BY FS_Interval, JobsAssumption
<1>3. IsFiniteSet(JobIds \X (1 .. MaxSeats))
  BY <1>2, JobIdsFinite, FS_Product
<1>4. QED
  BY <1>1, <1>3, FS_Subset, FS_CardinalityType

LEMMA FewerAppearances ==
  ASSUME NEW m, NEW p, NEW S, S \subseteq Appearances(m, p)
  PROVE  IsFiniteSet(S) /\ Cardinality(S) \in Nat /\ Cardinality(S) <= Cardinality(Appearances(m, p))
  BY AppearancesFinite, FS_Subset, FS_CardinalityType

DeletedAreUnsubmitted == \A p \in deleted : ver[p] = 0

\* Nobody is in a job without having submitted.
SeatedHaveSubmitted ==
  \A j \in JobIds : \A s \in DOMAIN job[j].who : job[j].who[s] \in Submitted \union deleted

SolosAreAlone ==
  \A j \in JobIds : job[j].status # "none" /\ Solo(job[j].mode) => DOMAIN job[j].who = {1}

\* Seats stay empty only where versions fail to come up, and a job in hand is
\* cancelled only where users are erased.
SeatsAccounted ==
  \A r \in Runners :
    /\ "initfail" \notin Events => runner[r].absent = {}
    /\ "erase" \notin Events /\ runner[r].pc \notin Idle => job[runner[r].job].status # "cancelled"

\* Where both happen, a match that was cancelled with one of its players may
\* be recorded without that player, and count for the others.
NoComeback == ~({"erase", "initfail"} \subseteq Events)

LEMMA CancelledJobsAreRefused ==
  ASSUME IInv, SolosAreAlone, SeatsAccounted, NEW r \in Runners, runner[r].pc = "record",
         \A s \in DOMAIN Who(r) \ runner[r].absent : Who(r)[s] \notin deleted,
         NEW s \in DOMAIN Who(r) \ runner[r].absent,
         Solo(job[runner[r].job].mode) \/ NoComeback
  PROVE  job[runner[r].job].status = "running"
<1>1. /\ runner[r].job \in JobIds
      /\ \/ job[runner[r].job].status = "running"
         \/ job[runner[r].job].status = "cancelled" /\ runner[r].job \in Void
  BY RowInHand DEF Idle
<1>2. SUFFICES ASSUME job[runner[r].job].status = "cancelled", runner[r].job \in Void
               PROVE  FALSE
  BY <1>1
<1>3. PICK t \in DOMAIN Who(r) : Who(r)[t] \in deleted
  BY <1>2 DEF Void, Involving, Who
<1>4. t \in runner[r].absent /\ s # t
  BY <1>3
<1>5. "initfail" \in Events /\ "erase" \in Events
  BY <1>2, <1>4 DEF SeatsAccounted, Idle
<1>6. Solo(job[runner[r].job].mode)
  BY <1>5 DEF NoComeback
<1>7. DOMAIN Who(r) = {1}
  BY <1>1, <1>2, <1>6 DEF SolosAreAlone, Who
<1>8. QED
  BY <1>3, <1>4, <1>7

\* Only an insert makes a version appear more often: when a match is recorded
\* its job ceases to count, and a new version begins at nothing.
LEMMA CountsNeverGrow ==
  ASSUME IInv, MatchesBackedByJobs, Resolved, SeatedHaveSubmitted, SolosAreAlone, SeatsAccounted,
         [Next]_vars, JobsAge, NEW m, NEW p \in Projects, p \notin deleted', Solo(m) \/ NoComeback
  PROVE  Appearances(m, p)' \subseteq Appearances(m, p)
<1>0. VersionsGrow /\ (ResultsFade \/ Records)
  BY StepShape
<1> SUFFICES ASSUME NEW j \in JobIds, NEW s \in 1 .. MaxSeats, <<j, s>> \in Appearances(m, p)'
             PROVE  <<j, s>> \in Appearances(m, p)
  BY DEF Appearances, Played, InFlight
<1>1. /\ job'[j].mode = job[j].mode /\ job'[j].who = job[j].who
      /\ job'[j].status \in Open => job[j].status \in Open
  BY DEF JobsAge, Open
<1>2. job'[j].mode = m /\ s \in SeatOf(j, p)' /\ SeatOf(j, p)' = SeatOf(j, p)
  BY <1>1 DEF Appearances, Played, InFlight, SeatOf
<1>3. s \in DOMAIN job[j].who /\ job[j].who[s] = p
  BY <1>2 DEF SeatOf
<1>4. CASE job[j].status \in Open
  BY <1>1, <1>2, <1>4 DEF Appearances, InFlight, Open
<1>5. CASE job[j].status \notin Open
  <2>1. result'[j] # <<>> /\ result'[j][s] = ver'[p]
    BY <1>1, <1>5 DEF Appearances, Played, InFlight, Open
  <2>2. CASE ResultsFade
    <3>1. /\ result[j] # <<>>
          /\ DOMAIN result[j] = DOMAIN job[j].who
          /\ result'[j][s] = result[j][s]
      BY <1>3, <2>1, <2>2, PlayersOfRow DEF ResultsFade
    <3>2. result[j][s] \in Nat /\ result[j][s] <= ver[p] /\ ver[p] \in Nat
      BY <1>3, <3>1, PlayersOfRow, ModesAssumption
    <3>3. ver[p] <= ver'[p]
      BY <1>0 DEF VersionsGrow
    <3>4. result[j][s] = ver[p]
      BY <2>1, <3>1, <3>2, <3>3
    <3>5. QED
      BY <1>1, <1>2, <3>1, <3>4 DEF Appearances, Played
  <2>3. CASE Records
    <3>1. PICK r \in Runners :
           /\ runner[r].pc = "record"
           /\ runner[r].job \in JobIds
           /\ \A z \in DOMAIN Who(r) \ runner[r].absent : Who(r)[z] \notin deleted
           /\ \E row : /\ result' = [result EXCEPT ![runner[r].job] = row]
                       /\ DOMAIN row = DOMAIN Who(r)
                       /\ \A z \in DOMAIN Who(r) :
                            row[z] = IF z \in runner[r].absent THEN 0 ELSE runner[r].roster[z]
           /\ UNCHANGED <<ver, deleted>>
      BY <2>3, RecordShape
    <3>2. j # runner[r].job
      <4>1. SUFFICES ASSUME j = runner[r].job PROVE FALSE
        OBVIOUS
      <4>2. s \in DOMAIN Who(r) /\ job[runner[r].job].mode = m
        BY <1>1, <1>2, <1>3, <4>1 DEF Who
      <4>3. p \in Submitted
        BY <1>3, <3>1 DEF SeatedHaveSubmitted
      <4>4. ver'[p] > 0
        BY <3>1, <4>3 DEF Submitted
      <4>5. result'[j][s] = IF s \in runner[r].absent THEN 0 ELSE runner[r].roster[s]
        BY <3>1, <4>1, <4>2 DEF IInv, TypeOK
      <4>6. s \notin runner[r].absent
        BY <2>1, <4>4, <4>5
      <4>7. job[runner[r].job].status = "running"
        BY <3>1, <4>2, <4>6, CancelledJobsAreRefused
      <4>8. QED
        BY <1>5, <4>1, <4>7 DEF Open
    <3>3. result'[j] = result[j]
      BY <3>1, <3>2 DEF IInv, TypeOK
    <3>4. QED
      BY <1>1, <1>2, <2>1, <3>1, <3>3 DEF Appearances, Played
  <2>4. QED
    BY <1>0, <2>2, <2>3
<1>6. QED
  BY <1>4, <1>5

\* An insert adds appearances of its players in its mode, and nothing else.
LEMMA InsertCounts ==
  ASSUME IInv, MatchesBackedByJobs, UNCHANGED <<result, ver>>,
         NEW j \in JobIds, NEW who \in Seating, NEW mode \in Modes, job[j].status = "none",
         job' = [job EXCEPT ![j] = [status |-> "queued", mode |-> mode, who |-> who]],
         NEW m, NEW p
  PROVE  /\ Appearances(m, p) \subseteq Appearances(m, p)'
         /\ m # mode \/ (\A s \in DOMAIN who : who[s] # p) =>
              Appearances(m, p)' \subseteq Appearances(m, p)
         /\ Appearances(m, p)' \subseteq Appearances(m, p) \union {<<j, s>> : s \in DOMAIN who}
<1>1. job'[j] = [status |-> "queued", mode |-> mode, who |-> who]
  BY DEF IInv, TypeOK
<1>2. \A k \in JobIds \ {j} : job'[k] = job[k]
  BY DEF IInv, TypeOK
<1>3. result[j] = <<>>
  BY DEF MatchesBackedByJobs
<1>4. \A k \in JobIds \ {j} : SeatOf(k, p)' = SeatOf(k, p)
  BY <1>2 DEF SeatOf
<1>5. SeatOf(j, p)' = {s \in DOMAIN who : who[s] = p}
  BY <1>1 DEF SeatOf
<1>6. ASSUME NEW k \in JobIds \ {j}, NEW s \in 1 .. MaxSeats
      PROVE  <<k, s>> \in Appearances(m, p)' <=> <<k, s>> \in Appearances(m, p)
  BY <1>2, <1>4, <1>6 DEF Appearances, Played, InFlight
<1>7. ASSUME NEW s \in 1 .. MaxSeats
      PROVE  /\ <<j, s>> \notin Appearances(m, p)
             /\ <<j, s>> \in Appearances(m, p)' <=> (m = mode /\ s \in DOMAIN who /\ who[s] = p)
  BY <1>1, <1>3, <1>5, <1>7 DEF Appearances, Played, InFlight
<1>8. /\ Appearances(m, p) \subseteq JobIds \X (1 .. MaxSeats)
      /\ Appearances(m, p)' \subseteq JobIds \X (1 .. MaxSeats)
  BY DEF Appearances, Played, InFlight
<1>9. Appearances(m, p) \subseteq Appearances(m, p)'
  BY <1>6, <1>7, <1>8
<1>10. m # mode \/ (\A s \in DOMAIN who : who[s] # p) => Appearances(m, p)' \subseteq Appearances(m, p)
  BY <1>6, <1>7, <1>8
<1>11. Appearances(m, p)' \subseteq Appearances(m, p) \union {<<j, s>> : s \in DOMAIN who}
  BY <1>6, <1>7, <1>8
<1>12. QED
  BY <1>9, <1>10, <1>11

------------------------------------------------------------------------------
(* What is put in the queue.                                               *)

Lacks(m, p) == Cardinality(Appearances(m, p)) < Target[m]

\* However old the list of underplayed versions is when it is used, its
\* projects still lack matches in the mode, or are gone.
PlansAreDue ==
  sched.pc \in {"solo", "pick"} =>
    \A v \in sched.plan :
      /\ v[1] \in Submitted \union deleted
      /\ Solo(sched.mode) \/ NoComeback => v[1] \in deleted \/ Lacks(sched.mode, v[1])

\* Which loop the scheduler is in, and that a solo list names nobody twice.
PlansFitMode ==
  /\ sched.pc = "solo" => Solo(sched.mode) /\ \A v, w \in sched.plan : v[1] = w[1] => v = w
  /\ sched.pc \in {"multi", "pick"} => ~Solo(sched.mode)
  /\ sched.pc = "pick" => sched.plan # {}

\* NoOverplay, said of all projects that are there.
WithinTarget ==
  \A m \in Modes, p \in Projects \ deleted :
    Solo(m) => Cardinality(Appearances(m, p)) <= Target[m]

SupplyInv ==
  /\ Resolved
  /\ MatchesBackedByJobs
  /\ DeletedAreUnsubmitted
  /\ SeatedHaveSubmitted
  /\ PlansAreDue
  /\ PlansFitMode
  /\ WithinTarget
  /\ SolosAreAlone
  /\ SeatsAccounted

LEMMA TargetsAreNats ==
  ASSUME NEW m \in Modes
  PROVE  Target[m] \in Nat \ {0} /\ Seats[m] \in Nat \ {0}
  BY ModesAssumption, JobsAssumption

LEMMA OnceSubmitted ==
  ASSUME IInv, DeletedAreUnsubmitted, VersionsGrow, IInv'
  PROVE  /\ Submitted \union deleted \subseteq Submitted' \union deleted'
         /\ DeletedAreUnsubmitted'
<1>1. deleted' \subseteq Projects /\ deleted \subseteq deleted'
  BY DEF IInv, TypeOK, VersionsGrow
<1>2. ASSUME NEW p \in Submitted, p \notin deleted'
      PROVE  p \in Submitted'
  <2>1. p \in Projects /\ ver[p] \in Nat /\ ver'[p] \in Nat /\ ver[p] > 0
    BY ModesAssumption DEF IInv, TypeOK, Submitted
  <2>2. QED
    BY <1>2, <2>1 DEF VersionsGrow, Submitted
<1>3. DeletedAreUnsubmitted'
  BY <1>1 DEF DeletedAreUnsubmitted, VersionsGrow
<1>4. QED
  BY <1>1, <1>2, <1>3

\* The players of a new job: its first seat is for a version of the plan.
LEMMA PlayersOfInsert ==
  ASSUME IInv, PlansAreDue, PlansFitMode, NEW who,
         \/ SchedSolo /\ \E v \in sched.plan : who = <<v[1]>>
         \/ SchedMultiPick /\ \E g \in Groups(sched.mode, sched.plan, sched.tally) :
              who = GroupSeating(sched.mode, g)
  PROVE  /\ 1 \in DOMAIN who
         /\ \E v \in sched.plan : who[1] = v[1]
         /\ \A s \in DOMAIN who : who[s] \in Submitted \union deleted
         /\ SchedSolo \/ NoComeback => who[1] \in deleted \/ Lacks(sched.mode, who[1])
<1>1. CASE SchedSolo /\ \E v \in sched.plan : who = <<v[1]>>
  <2>1. PICK v \in sched.plan : who = <<v[1]>>
    BY <1>1
  <2>2. DOMAIN who = {1} /\ who[1] = v[1]
    BY <2>1
  <2>3. QED
    BY <1>1, <2>1, <2>2 DEF PlansAreDue, PlansFitMode, SchedSolo
<1>2. ASSUME SchedMultiPick, NEW g \in Groups(sched.mode, sched.plan, sched.tally),
             who = GroupSeating(sched.mode, g)
      PROVE  /\ 1 \in DOMAIN who
             /\ \E v \in sched.plan : who[1] = v[1]
             /\ \A s \in DOMAIN who : who[s] \in Submitted \union deleted
             /\ SchedSolo \/ NoComeback => who[1] \in deleted \/ Lacks(sched.mode, who[1])
  <2>1. sched.mode \in Modes
    BY <1>2 DEF SchedMultiPick, IInv, ModeChosen
  <2>2. Seats[sched.mode] \in Nat \ {0}
    BY <2>1, TargetsAreNats
  <2>3. DOMAIN who = 1 .. Seats[sched.mode] /\ 1 \in DOMAIN who
    BY <1>2, <2>2 DEF GroupSeating
  <2>4. who[1] = g[1][1] /\ \A s \in DOMAIN who : s # 1 => who[s] = g[2][s - 1][1]
    BY <1>2, <2>3 DEF GroupSeating
  <2>5. g[1] \in sched.plan
    BY DEF Groups
  <2>6. \A i \in 1 .. Seats[sched.mode] - 1 : g[2][i] \in Candidates(g[1])
    BY DEF Groups
  <2>7. \A v \in Candidates(g[1]) : v[1] \in Submitted
    BY DEF Candidates, CurrentRef
  <2>8. \A s \in DOMAIN who : s # 1 => who[s] \in Submitted
    <3>1. ASSUME NEW s \in DOMAIN who, s # 1
          PROVE  who[s] \in Submitted
      <4>1. s - 1 \in 1 .. Seats[sched.mode] - 1
        BY <2>2, <2>3, <3>1
      <4>2. QED
        BY <2>4, <2>6, <2>7, <3>1, <4>1
    <3>2. QED
      BY <3>1
  <2>9. QED
    BY <1>2, <2>3, <2>4, <2>5, <2>8 DEF PlansAreDue, SchedMultiPick, SchedSolo
<1>3. QED
  BY <1>1, <1>2

LEMMA SeatsKept ==
  ASSUME IInv, SupplyInv, [Next]_vars
  PROVE  SeatedHaveSubmitted' /\ DeletedAreUnsubmitted'
<1>0. VersionsGrow /\ (JobsAge \/ Inserts)
  BY StepShape DEF SupplyInv
<1>1. /\ Submitted \union deleted \subseteq Submitted' \union deleted'
      /\ DeletedAreUnsubmitted'
  BY <1>0, OnceSubmitted, NextKeepsIInv DEF SupplyInv
<1>2. CASE JobsAge
  BY <1>1, <1>2 DEF JobsAge, SupplyInv, SeatedHaveSubmitted
<1>3. CASE Inserts
  <2>1. PICK j \in JobIds, who \in Seating :
           /\ job' = [job EXCEPT ![j] = [status |-> "queued", mode |-> sched.mode, who |-> who]]
           /\ \/ SchedSolo /\ \E v \in sched.plan : who = <<v[1]>>
              \/ SchedMultiPick /\ \E g \in Groups(sched.mode, sched.plan, sched.tally) :
                  who = GroupSeating(sched.mode, g)
    BY <1>3, InsertShape
  <2>2. \A s \in DOMAIN who : who[s] \in Submitted \union deleted
    BY <2>1, PlayersOfInsert DEF SupplyInv
  <2>3. \A k \in JobIds : job'[k].who = IF k = j THEN who ELSE job[k].who
    BY <2>1 DEF IInv, TypeOK
  <2>4. QED
    BY <1>1, <2>2, <2>3 DEF SupplyInv, SeatedHaveSubmitted
<1>4. QED
  BY <1>0, <1>1, <1>2, <1>3

LEMMA SolosKept ==
  ASSUME IInv, SupplyInv, [Next]_vars
  PROVE  SolosAreAlone'
<1>0. JobsAge \/ Inserts
  BY StepShape DEF SupplyInv
<1>1. CASE JobsAge
  BY <1>1 DEF JobsAge, Open, SupplyInv, SolosAreAlone, Solo
<1>2. CASE Inserts
  <2>1. PICK j \in JobIds, who \in Seating :
           /\ job' = [job EXCEPT ![j] = [status |-> "queued", mode |-> sched.mode, who |-> who]]
           /\ \/ SchedSolo /\ \E v \in sched.plan : who = <<v[1]>>
              \/ SchedMultiPick
    BY <1>2, InsertShape
  <2>2. Solo(sched.mode) => DOMAIN who = {1}
    BY <2>1 DEF SchedMultiPick, SupplyInv, PlansFitMode
  <2>3. \A k \in JobIds :
          job'[k] = IF k = j THEN [status |-> "queued", mode |-> sched.mode, who |-> who] ELSE job[k]
    BY <2>1 DEF IInv, TypeOK
  <2>4. QED
    BY <2>2, <2>3 DEF SupplyInv, SolosAreAlone, Solo
<1>3. QED
  BY <1>0, <1>1, <1>2

LEMMA NobodyIsAbsent ==
  ASSUME IInv, [Next]_vars, "initfail" \notin Events, \A r \in Runners : runner[r].absent = {}
  PROVE  \A r \in Runners : runner'[r].absent = {}
<1>0. runner \in [Runners -> RunnerState]
  BY DEF IInv, TypeOK
<1>1. ASSUME UNCHANGED runner PROVE \A r \in Runners : runner'[r].absent = {}
  BY <1>1
<1>2. ASSUME NEW q \in Runners, RunnerProcess(q)
      PROVE  \A r \in Runners : runner'[r].absent = {}
  <2>1. CASE \/ RunnerClear(q) \/ RunnerFindsNothing(q, {}) \/ RunnerRecord(q) \/ RunnerFail(q)
             \/ RunnerWake(q) \/ RunnerRestart(q)
    BY <1>0, <2>1 DEF RunnerClear, RunnerFindsNothing, RunnerRecord, RunnerFail, RunnerWake,
                      RunnerRestart, RunnerRest
  <2>2. CASE RunnerPicks(q, {}) \/ RunnerClaims(q) \/ MatchSucceeds(q) \/ RunnerRecordRefused(q)
    BY <1>0, <2>2 DEF RunnerPicks, RunnerClaims, MatchSucceeds, RunnerRecordRefused, RunnerState
  <2>3. CASE RunnerDispatch(q)
    BY <1>0, <2>3 DEF RunnerDispatch, RunnerState
  <2>4. ASSUME NEW s \in 1 .. MaxSeats, Quarantine(q, s)
        PROVE  \A r \in Runners : runner'[r].absent = {}
    BY <1>0, <2>4 DEF Quarantine, RunnerState
  <2>5. QED
    BY <1>2, <2>1, <2>2, <2>3, <2>4 DEF RunnerProcess, RunnerWork
<1>3. ASSUME NEW q \in Runners, MatchGoesWrong(q)
      PROVE  \A r \in Runners : runner'[r].absent = {}
  BY <1>0, <1>3 DEF MatchGoesWrong, MatchFails, RunnerState
<1>4. CASE User \/ SchedulerProcess
  BY <1>1, <1>4 DEF User, Submit, Delete, EraseUser, CancelQueued, DisableMode, EnableMode,
                    SchedulerProcess
<1>5. CASE \E d \in Daemons : ListenerReceives(d) \/ ListenerConnects(d) \/ ListenerDrops(d)
  BY <1>1, <1>5 DEF ListenerReceives, ListenerConnects, ListenerDrops
<1>6. CASE Crash \/ Escape \/ PassOver
  <2>1. ASSUME NEW q \in Runners, NEW held, RunnerPicks(q, held) \/ RunnerFindsNothing(q, held)
        PROVE  \A r \in Runners : runner'[r].absent = {}
    BY <1>0, <2>1 DEF RunnerPicks, RunnerFindsNothing, RunnerRest, RunnerState
  <2>2. QED
    BY <1>0, <1>1, <1>6, <2>1
       DEF Crash, Escape, RunnerCrash, RunnerIterationFails, RunnerRest, PassOver
<1>7. CASE UNCHANGED vars
  BY <1>1, <1>7 DEF vars
<1>8. QED
  BY <1>2, <1>3, <1>4, <1>5, <1>6, <1>7 DEF Next

\* Nobody but an erasure cancels a job in hand, and nobody takes up a
\* cancelled one.
LEMMA HandsAreOpen ==
  ASSUME IInv, MatchesBackedByJobs, [Next]_vars, "erase" \notin Events,
         \A r \in Runners : runner[r].pc \notin Idle => job[runner[r].job].status # "cancelled",
         NEW r \in Runners, runner'[r].pc \notin Idle
  PROVE  job'[runner'[r].job].status # "cancelled"
<1>0. /\ runner \in [Runners -> RunnerState]
      /\ job \in [JobIds -> JobRow]
  BY DEF IInv, TypeOK
<1>1. ASSUME runner'[r] = runner[r],
             runner[r].job \in JobIds =>
               job'[runner[r].job].status \in {job[runner[r].job].status, "queued", "running", "success", "failure"}
      PROVE  job'[runner'[r].job].status # "cancelled"
  BY <1>1, RowInHand
<1>2. ASSUME UNCHANGED <<runner, job>> PROVE job'[runner'[r].job].status # "cancelled"
  BY <1>1, <1>2
<1>3. CASE User
  <2>1. ASSUME NEW j \in JobIds, CancelQueued(j) PROVE job'[runner'[r].job].status # "cancelled"
    <3>1. /\ UNCHANGED runner /\ job' = [job EXCEPT ![j].status = "cancelled"]
          /\ j \notin Locked /\ job[j].status = "queued"
      BY <2>1 DEF CancelQueued, Cancel, Claimable, WithStatus
    <3>2. runner[r].pc = "commit" => runner[r].job \in Locked
      BY DEF Locked
    <3>3. runner[r].job # j
      BY <3>1, <3>2, RowInHand
    <3>4. QED
      BY <1>0, <1>1, <3>1, <3>3
  <2>2. QED
    BY <1>2, <1>3, <2>1 DEF User, Submit, Delete, EraseUser, DisableMode, EnableMode
<1>4. CASE SchedulerProcess
  <2>1. UNCHANGED runner
    BY <1>4 DEF SchedulerProcess
  <2>2. CASE Inserts
    <3>1. PICK j \in JobIds, who \in Seating :
             job' = [job EXCEPT ![j] = [status |-> "queued", mode |-> sched.mode, who |-> who]]
      BY <2>2, InsertShape
    <3>2. QED
      BY <1>0, <1>1, <2>1, <3>1
  <2>3. CASE ~Inserts
    BY <1>2, <1>4, <2>1, <2>3
       DEF Inserts, SchedulerProcess, SchedWork, SchedClear, SchedCount, SchedWalk, SchedTickDone,
           SchedSoloDone, SchedMultiList, SchedNoGroup, SchedWake, SchedRestart
  <2>4. QED
    BY <2>2, <2>3
<1>5. ASSUME NEW q \in Runners, NEW held, RunnerPicks(q, held)
      PROVE  job'[runner'[r].job].status # "cancelled"
  <2>1. PICK j \in JobIds :
          /\ job[j].status = "queued"
          /\ runner' = [runner EXCEPT ![q].pc = "commit", ![q].job = j] /\ UNCHANGED job
    BY <1>5 DEF RunnerPicks, Pick, Claimable, WithStatus
  <2>2. CASE r = q
    BY <1>0, <2>1, <2>2 DEF RunnerState
  <2>3. CASE r # q
    BY <1>0, <1>1, <2>1, <2>3
  <2>4. QED
    BY <2>2, <2>3
<1>6. ASSUME NEW q \in Runners, NEW held, RunnerFindsNothing(q, held)
      PROVE  job'[runner'[r].job].status # "cancelled"
  <2>1. runner' = [runner EXCEPT ![q] = runner'[q]] /\ runner'[q].pc \in Idle /\ UNCHANGED job
    BY <1>0, <1>6 DEF RunnerFindsNothing, RunnerRest, Idle
  <2>2. r # q
    BY <2>1
  <2>3. QED
    BY <1>0, <1>1, <2>1, <2>2
<1>7. ASSUME NEW q \in Runners, RunnerProcess(q) \/ MatchGoesWrong(q)
      PROVE  job'[runner'[r].job].status # "cancelled"
  <2>1. CASE RunnerClear(q) \/ RunnerWake(q) \/ RunnerRestart(q)
    <3>1. runner' = [runner EXCEPT ![q] = runner'[q]] /\ runner'[q].pc \in Idle /\ UNCHANGED job
      BY <1>0, <2>1 DEF RunnerClear, RunnerWake, RunnerRestart, RunnerRest, Idle
    <3>2. r # q
      BY <3>1
    <3>3. QED
      BY <1>0, <1>1, <3>1, <3>2
  <2>2. CASE RunnerRecord(q) \/ RunnerFail(q)
    <3>1. /\ runner' = [runner EXCEPT ![q] = RunnerRest("claim")]
          /\ \E st \in {"success", "failure"} : job' = [job EXCEPT ![runner[q].job].status = st]
      BY <2>2 DEF RunnerRecord, RunnerFail, MarkSuccess, MarkFailure
    <3>2. r # q
      BY <1>0, <3>1 DEF RunnerRest, Idle
    <3>3. QED
      BY <1>0, <1>1, <3>1, <3>2
  <2>3. CASE RunnerPicks(q, {}) \/ RunnerFindsNothing(q, {})
    BY <2>3, <1>5, <1>6
  <2>4. CASE RunnerClaims(q)
    <3>1. /\ runner' = [runner EXCEPT ![q].pc = "dispatch"] /\ runner[q].pc = "commit"
          /\ job' = [job EXCEPT ![runner[q].job].status = "running"]
      BY <2>4 DEF RunnerClaims, Claim
    <3>2. runner'[r].job = runner[r].job /\ runner[r].pc \notin Idle
      BY <1>0, <3>1 DEF RunnerState, Idle
    <3>3. QED
      BY <1>0, <3>1, <3>2, RowInHand DEF JobRow
  <2>5. CASE \/ RunnerDispatch(q) \/ MatchSucceeds(q) \/ RunnerRecordRefused(q)
             \/ (\E s \in 1 .. MaxSeats : Quarantine(q, s)) \/ MatchGoesWrong(q)
    <3>1. UNCHANGED job /\ \E new : runner' = [runner EXCEPT ![q] = new] /\ new.job = runner[q].job
      BY <2>5, KeepsItsJob
    <3>2. runner'[r].job = runner[r].job
      BY <1>0, <3>1
    <3>3. runner[r].pc \notin Idle
      BY <2>5, <3>1, <1>0 DEF RunnerDispatch, MatchSucceeds, RunnerRecordRefused, Quarantine,
                   MatchGoesWrong, MatchFails, SeatsDropOut, Idle
    <3>4. QED
      BY <3>1, <3>2, <3>3
  <2>6. QED
    BY <1>7, <2>1, <2>2, <2>3, <2>4, <2>5 DEF RunnerProcess, RunnerWork
<1>8. CASE \E d \in Daemons : ListenerReceives(d) \/ ListenerConnects(d) \/ ListenerDrops(d)
  BY <1>2, <1>8 DEF ListenerReceives, ListenerConnects, ListenerDrops
<1>9. CASE Crash \/ Escape
  <2>1. ASSUME NEW q \in Runners, RunnerCrash(q) \/ RunnerIterationFails(q)
        PROVE  job'[runner'[r].job].status # "cancelled"
    <3>1. UNCHANGED job /\ \E pc \in Idle : runner' = [runner EXCEPT ![q] = RunnerRest(pc)]
      BY <2>1 DEF RunnerCrash, RunnerIterationFails, Idle
    <3>2. r # q
      BY <1>0, <3>1 DEF RunnerRest
    <3>3. QED
      BY <1>0, <1>1, <3>1, <3>2
  <2>2. QED
    BY <1>2, <1>9, <2>1 DEF Crash, Escape, SchedCrash, SchedTickFails
<1>10. CASE UNCHANGED vars
  BY <1>2, <1>10 DEF vars
<1>11. QED
  BY <1>3, <1>4, <1>5, <1>6, <1>7, <1>8, <1>9, <1>10 DEF Next, PassOver

LEMMA AccountsKept ==
  ASSUME IInv, SupplyInv, [Next]_vars
  PROVE  SeatsAccounted'
<1>1. "initfail" \notin Events => \A r \in Runners : runner'[r].absent = {}
  BY NobodyIsAbsent DEF SupplyInv, SeatsAccounted
<1>2. ASSUME "erase" \notin Events, NEW r \in Runners, runner'[r].pc \notin Idle
      PROVE  job'[runner'[r].job].status # "cancelled"
  BY <1>2, HandsAreOpen DEF SupplyInv, SeatsAccounted
<1>3. QED
  BY <1>1, <1>2 DEF SeatsAccounted

\* The scheduler's list is the one it had, less what it inserted for, or one
\* that it reads in this step.
Reads ==
  /\ UNCHANGED <<job, result, ver, deleted>>
  /\ sched'.mode \in Modes
  /\ sched'.plan = {CurrentRef(p) : p \in Underplayed(sched'.mode)}
  /\ sched'.pc = "solo" => Solo(sched'.mode)
  /\ sched'.pc = "pick" => ~Solo(sched'.mode) /\ sched'.plan # {}

LEMMA PlanSteps ==
  ASSUME IInv, MatchesBackedByJobs, PlansFitMode, [Next]_vars
  PROVE  /\ sched'.pc \in {"solo", "pick"} =>
              \/ sched' = sched /\ JobsAge
              \/ /\ SchedSolo /\ Inserts
                 /\ sched'.pc = "solo" /\ sched'.mode = sched.mode /\ sched'.plan \subseteq sched.plan
              \/ Reads
         /\ sched'.pc = "multi" => ~Solo(sched'.mode)
<1> DEFINE Goal == /\ sched'.pc \in {"solo", "pick"} =>
                         \/ sched' = sched /\ JobsAge
                         \/ /\ SchedSolo /\ Inserts
                            /\ sched'.pc = "solo" /\ sched'.mode = sched.mode
                            /\ sched'.plan \subseteq sched.plan
                         \/ Reads
                   /\ sched'.pc = "multi" => ~Solo(sched'.mode)
<1>0. ASSUME UNCHANGED sched, JobsAge PROVE Goal
  BY <1>0 DEF PlansFitMode
<1>1. ASSUME sched'.pc \notin {"solo", "multi", "pick"} PROVE Goal
  BY <1>1
<1>2. sched \in SchedState
  BY DEF IInv, TypeOK
<1>3. ASSUME SchedulerProcess
      PROVE  Goal
  <2>0. UNCHANGED <<result, ver, deleted>>
    BY <1>3 DEF SchedulerProcess, projectVars
  <2>1. ASSUME NEW m \in Modes, SchedWalk(m)
        PROVE  Goal
    <3>1. CASE Capacity(m) <= 0
      <4>1. sched'.pc = "walk"
        BY <1>2, <2>1, <3>1 DEF SchedWalk, SchedState
      <4>2. QED
        BY <4>1, <1>1
    <3>2. CASE ~(Capacity(m) <= 0) /\ Solo(m)
      <4>1. /\ sched'.pc = "solo" /\ sched'.mode = m
            /\ sched'.plan = {CurrentRef(p) : p \in Underplayed(m)}
        BY <1>2, <2>1, <3>2 DEF SchedWalk, SchedState
      <4>2. UNCHANGED job
        BY <2>1 DEF SchedWalk
      <4>3. QED
        BY <2>0, <3>2, <4>1, <4>2 DEF Reads
    <3>3. CASE ~(Capacity(m) <= 0) /\ ~Solo(m)
      <4>1. sched'.pc = "multi" /\ sched'.mode = m
        BY <1>2, <2>1, <3>3 DEF SchedWalk, SchedState
      <4>2. QED
        BY <3>3, <4>1
    <3>4. QED
      BY <3>1, <3>2, <3>3
  <2>2. CASE SchedSolo
    <3>1. PICK v \in sched.plan : sched' = [sched EXCEPT !.plan = @ \ {v}, !.room = @ - 1]
      BY <2>2 DEF SchedSolo
    <3>2. sched'.pc = "solo" /\ sched'.mode = sched.mode /\ sched'.plan \subseteq sched.plan
      BY <1>2, <2>2, <3>1 DEF SchedSolo, SchedState
    <3>3. QED
      BY <1>3, <2>2, <3>2 DEF Inserts
  <2>3. CASE SchedMultiList
    <3>1. UNCHANGED job /\ sched.mode \in Modes /\ ~Solo(sched.mode)
      BY <2>3 DEF SchedMultiList, PlansFitMode, IInv, ModeChosen
    <3>2. CASE sched.room <= 0 \/ Underplayed(sched.mode) = {}
      <4>1. sched'.pc = "walk"
        BY <2>3, <3>2 DEF SchedMultiList, NextMode
      <4>2. QED
        BY <4>1, <1>1
    <3>3. CASE ~(sched.room <= 0 \/ Underplayed(sched.mode) = {})
      <4>1. /\ sched'.pc = "pick" /\ sched'.mode = sched.mode
            /\ sched'.plan = {CurrentRef(p) : p \in Underplayed(sched.mode)}
        BY <1>2, <2>3, <3>3 DEF SchedMultiList, SchedState
      <4>2. sched'.plan # {}
        BY <3>3, <4>1
      <4>3. QED
        BY <2>0, <3>1, <4>1, <4>2 DEF Reads
    <3>4. QED
      BY <3>2, <3>3
  <2>4. CASE SchedMultiPick
    <3>1. sched'.pc = "multi" /\ sched'.mode = sched.mode /\ ~Solo(sched.mode)
      BY <1>2, <2>4 DEF SchedMultiPick, SchedState, PlansFitMode
    <3>2. QED
      BY <3>1
  <2>5. CASE SchedClear \/ SchedCount \/ SchedTickDone \/ SchedSoloDone \/ SchedNoGroup
             \/ SchedWake \/ SchedRestart
    <3>1. CASE SchedCount
      BY <1>1, <1>2, <3>1 DEF SchedCount, SchedState
    <3>2. CASE SchedSoloDone \/ SchedNoGroup
      BY <1>1, <3>2 DEF SchedSoloDone, SchedNoGroup, NextMode
    <3>3. CASE SchedClear \/ SchedTickDone \/ SchedWake \/ SchedRestart
      BY <1>1, <3>3 DEF SchedClear, SchedTickDone, SchedWake, SchedRestart, SchedRest
    <3>4. QED
      BY <2>5, <3>1, <3>2, <3>3
  <2>6. QED
    BY <1>3, <2>1, <2>2, <2>3, <2>4, <2>5 DEF SchedulerProcess, SchedWork
<1>5. ASSUME SchedCrash \/ SchedTickFails
      PROVE  Goal
  <2>1. sched'.pc \in {"down", "sleep"}
    BY <1>5 DEF SchedCrash, SchedTickFails, SchedRest
  <2>2. QED
    BY <2>1, <1>1
<1>6. ASSUME UNCHANGED sched
      PROVE  Goal
  <2>1. ~SchedSolo /\ ~SchedMultiPick
    <3>1. ASSUME SchedMultiPick PROVE FALSE
      BY <1>2, <1>6, <3>1 DEF SchedMultiPick, SchedState
    <3>2. ASSUME SchedSolo PROVE FALSE
      <4>1. PICK v \in sched.plan : sched' = [sched EXCEPT !.plan = @ \ {v}, !.room = @ - 1]
        BY <3>2 DEF SchedSolo
      <4>2. sched'.room = sched.room - 1 /\ sched.room \in Int
        BY <1>2, <4>1 DEF SchedState
      <4>3. QED
        BY <1>6, <4>2
    <3>3. QED
      BY <3>1, <3>2
  <2>2. JobsAge
    BY <2>1, StepShape DEF Inserts
  <2>3. QED
    BY <1>0, <1>6, <2>2
<1> HIDE DEF Goal
<1> SUFFICES Goal
  BY DEF Goal
<1>7. CASE User
  BY <1>6, <1>7 DEF User, Submit, Delete, EraseUser, CancelQueued, DisableMode, EnableMode
<1>8. ASSUME NEW r \in Runners, RunnerProcess(r) \/ MatchGoesWrong(r)
      PROVE  Goal
  BY <1>6, <1>8 DEF RunnerProcess, MatchGoesWrong
<1>9. CASE \E d \in Daemons : ListenerReceives(d) \/ ListenerConnects(d) \/ ListenerDrops(d)
  BY <1>6, <1>9 DEF ListenerReceives, ListenerConnects, ListenerDrops
<1>10. CASE Crash \/ Escape \/ PassOver
  BY <1>5, <1>6, <1>10 DEF Crash, Escape, PassOver
<1>11. CASE UNCHANGED vars
  BY <1>6, <1>11 DEF vars
<1>12. QED
  BY <1>3, <1>7, <1>8, <1>9, <1>10, <1>11 DEF Next

LEMMA LacksStays ==
  ASSUME NEW m \in Modes, NEW p, Lacks(m, p), Appearances(m, p)' \subseteq Appearances(m, p)
  PROVE  Cardinality(Appearances(m, p)') < Target[m]
<1>1. /\ Cardinality(Appearances(m, p)') \in Nat
      /\ Cardinality(Appearances(m, p)') <= Cardinality(Appearances(m, p))
  BY FewerAppearances
<1>2. QED
  BY <1>1, AppearancesFinite, TargetsAreNats DEF Lacks

LEMMA PlansKept ==
  ASSUME IInv, SupplyInv, [Next]_vars
  PROVE  PlansAreDue' /\ PlansFitMode'
<1>0. VersionsGrow /\ Submitted \union deleted \subseteq Submitted' \union deleted'
  BY StepShape, OnceSubmitted, NextKeepsIInv DEF SupplyInv
<1>1. sched'.pc = "multi" => ~Solo(sched'.mode)
  BY PlanSteps DEF SupplyInv
<1>2. CASE sched'.pc \notin {"solo", "pick"}
  BY <1>1, <1>2 DEF PlansAreDue, PlansFitMode
<1>3. CASE sched'.pc \in {"solo", "pick"} /\ sched' = sched /\ JobsAge
  <2>1. PlansFitMode'
    BY <1>3 DEF SupplyInv, PlansFitMode
  <2>2. sched.mode \in Modes /\ sched.plan \subseteq Ref
    BY <1>3 DEF IInv, ModeChosen, TypeOK, SchedState
  <2>3. ASSUME NEW v \in sched.plan
        PROVE  /\ v[1] \in Submitted' \union deleted'
               /\ Solo(sched.mode) \/ NoComeback =>
                    v[1] \in deleted' \/ Cardinality(Appearances(sched.mode, v[1])') < Target[sched.mode]
    <3>1. /\ v[1] \in Submitted \union deleted
          /\ Solo(sched.mode) \/ NoComeback => v[1] \in deleted \/ Lacks(sched.mode, v[1])
      BY <1>3 DEF SupplyInv, PlansAreDue
    <3>2. CASE v[1] \in deleted'
      BY <3>2
    <3>3. CASE ~(Solo(sched.mode) \/ NoComeback)
      BY <1>0, <3>1, <3>3
    <3>4. CASE v[1] \notin deleted' /\ (Solo(sched.mode) \/ NoComeback)
      <4>1. v[1] \notin deleted /\ v[1] \in Projects
        BY <1>0, <2>2, <3>4 DEF VersionsGrow, Ref
      <4>2. Appearances(sched.mode, v[1])' \subseteq Appearances(sched.mode, v[1])
        <5>1. \A m : Solo(m) \/ NoComeback => Appearances(m, v[1])' \subseteq Appearances(m, v[1])
          BY <1>3, <3>4, <4>1, CountsNeverGrow DEF SupplyInv
        <5>2. Appearances(sched.mode, v[1])' = Appearances(sched.mode, v[1])' /\ sched'.mode = sched.mode
          BY <1>3
        <5>3. QED
          BY <3>4, <5>1, <5>2
      <4>3. QED
        BY <1>0, <1>3, <2>2, <3>1, <3>4, <4>1, <4>2, LacksStays
    <3>5. QED
      BY <1>0, <3>1, <3>2, <3>3, <3>4
  <2>4. PlansAreDue'
    BY <1>3, <2>3 DEF PlansAreDue, Lacks, Solo
  <2>5. QED
    BY <2>1, <2>4
<1>4. CASE /\ SchedSolo /\ Inserts
           /\ sched'.pc = "solo" /\ sched'.mode = sched.mode /\ sched'.plan \subseteq sched.plan
  <2>1. sched.pc = "solo" /\ Solo(sched.mode)
    BY <1>4 DEF SchedSolo, SupplyInv, PlansFitMode
  <2>2. PlansFitMode'
    BY <1>4, <2>1 DEF SupplyInv, PlansFitMode
  <2>3. sched.mode \in Modes /\ sched.plan \subseteq Ref /\ sched \in SchedState
    BY <2>1 DEF IInv, ModeChosen, TypeOK, SchedState
  <2>4. PICK j \in JobIds, who \in Seating, v \in sched.plan :
           /\ job[j].status = "none"
           /\ job' = [job EXCEPT ![j] = [status |-> "queued", mode |-> sched.mode, who |-> who]]
           /\ who = <<v[1]>>
           /\ sched' = [sched EXCEPT !.plan = @ \ {v}, !.room = @ - 1]
    <3>1. ~SchedMultiPick
      BY <2>1 DEF SchedMultiPick
    <3>2. QED
      BY <1>4, <3>1, InsertShape
  <2>5. sched'.plan = sched.plan \ {v}
    BY <2>3, <2>4 DEF SchedState
  <2>6. UNCHANGED <<result, ver, deleted>>
    BY <1>4 DEF Inserts, SchedulerProcess, projectVars
  <2>7. ASSUME NEW w \in sched'.plan
        PROVE  /\ w[1] \in Submitted' \union deleted'
               /\ w[1] \in deleted' \/ Cardinality(Appearances(sched.mode, w[1])') < Target[sched.mode]
    <3>1. w \in sched.plan /\ w[1] # v[1]
      BY <2>1, <2>5 DEF SupplyInv, PlansFitMode
    <3>2. /\ w[1] \in Submitted \union deleted
          /\ w[1] \in deleted \/ Lacks(sched.mode, w[1])
      BY <2>1, <3>1 DEF SupplyInv, PlansAreDue
    <3>3. \A s \in DOMAIN who : who[s] # w[1]
      BY <2>4, <3>1
    <3>4. \A m : Appearances(m, w[1])' \subseteq Appearances(m, w[1])
      BY <2>3, <2>4, <2>6, <3>3, InsertCounts DEF SupplyInv
    <3>5. Appearances(sched.mode, w[1])' \subseteq Appearances(sched.mode, w[1])
      BY <1>4, <3>4
    <3>6. QED
      BY <1>0, <1>4, <2>3, <2>6, <3>2, <3>5, LacksStays
  <2>8. PlansAreDue'
    BY <1>4, <2>7 DEF PlansAreDue, Lacks
  <2>9. QED
    BY <2>2, <2>8
<1>5. CASE Reads
  <2>1. PlansFitMode'
    <3>1. \A v, w \in sched'.plan : v[1] = w[1] => v = w
      BY <1>5 DEF Reads, CurrentRef
    <3>2. QED
      BY <1>1, <1>5, <3>1 DEF Reads, PlansFitMode
  <2>2. ASSUME NEW p \in Underplayed(sched'.mode)
        PROVE  p \in Submitted' /\ Cardinality(Appearances(sched'.mode, p)) < Target[sched'.mode]
    BY <1>5 DEF Reads, Underplayed, Eligible, Submitted, Counted
  <2>3. \A m, p : Appearances(m, p)' = Appearances(m, p)
    BY <1>5 DEF Reads, Appearances, Played, InFlight, SeatOf
  <2>4. PlansAreDue'
    <3>1. ASSUME NEW v \in sched'.plan
          PROVE  /\ v[1] \in Submitted' \union deleted'
                 /\ Cardinality(Appearances(sched.mode, v[1])') < Target[sched'.mode]
      <4>1. PICK p \in Underplayed(sched'.mode) : v[1] = p
        BY <1>5 DEF Reads, CurrentRef
      <4>2. Appearances(sched.mode, p)' = Appearances(sched'.mode, p)
        BY <1>5 DEF Reads, Appearances, Played, InFlight, SeatOf
      <4>3. QED
        BY <2>2, <4>1, <4>2
    <3>2. QED
      BY <3>1 DEF PlansAreDue, Lacks
  <2>5. QED
    BY <2>1, <2>4
<1>6. QED
  BY <1>2, <1>3, <1>4, <1>5, PlanSteps DEF SupplyInv

LEMMA TargetKept ==
  ASSUME IInv, SupplyInv, [Next]_vars
  PROVE  WithinTarget'
<1>0. VersionsGrow /\ (JobsAge \/ Inserts)
  BY StepShape DEF SupplyInv
<1> SUFFICES ASSUME NEW m \in Modes, NEW p \in Projects \ deleted', Solo(m)
             PROVE  Cardinality(Appearances(m, p)') <= Target[m]
  BY DEF WithinTarget, Solo
<1>1. p \notin deleted /\ Cardinality(Appearances(m, p)) <= Target[m]
  BY <1>0 DEF VersionsGrow, SupplyInv, WithinTarget
<1>2. Target[m] \in Nat /\ Cardinality(Appearances(m, p)) \in Nat
  BY TargetsAreNats, AppearancesFinite
<1>3. ASSUME Appearances(m, p)' \subseteq Appearances(m, p)
      PROVE  Cardinality(Appearances(m, p)') <= Target[m]
  <2>1. /\ Cardinality(Appearances(m, p)') \in Nat
        /\ Cardinality(Appearances(m, p)') <= Cardinality(Appearances(m, p))
    BY <1>3, FewerAppearances
  <2>2. QED
    BY <1>1, <1>2, <2>1
<1>4. CASE JobsAge
  BY <1>3, <1>4, CountsNeverGrow DEF SupplyInv
<1>5. CASE Inserts
  <2>1. PICK j \in JobIds, who \in Seating :
           /\ sched.mode \in Modes
           /\ job[j].status = "none"
           /\ job' = [job EXCEPT ![j] = [status |-> "queued", mode |-> sched.mode, who |-> who]]
           /\ \/ SchedSolo /\ \E v \in sched.plan : who = <<v[1]>>
              \/ SchedMultiPick
    BY <1>5, InsertShape
  <2>2. UNCHANGED <<result, ver, deleted>>
    BY <1>5 DEF Inserts, SchedulerProcess, projectVars
  <2>3. /\ m # sched.mode \/ (\A s \in DOMAIN who : who[s] # p) =>
             Appearances(m, p)' \subseteq Appearances(m, p)
        /\ Appearances(m, p)' \subseteq Appearances(m, p) \union {<<j, s>> : s \in DOMAIN who}
    BY <2>1, <2>2, InsertCounts DEF SupplyInv
  <2>4. CASE SchedMultiPick
    <3>1. m # sched.mode
      BY <2>4 DEF SchedMultiPick, SupplyInv, PlansFitMode
    <3>2. QED
      BY <1>3, <2>3, <3>1
  <2>5. CASE SchedSolo /\ \E v \in sched.plan : who = <<v[1]>>
    <3>1. PICK v \in sched.plan : who = <<v[1]>>
      BY <2>5
    <3>2. DOMAIN who = {1} /\ who[1] = v[1]
      BY <3>1
    <3>3. CASE m # sched.mode \/ v[1] # p
      BY <1>3, <2>3, <3>2, <3>3
    <3>4. CASE m = sched.mode /\ v[1] = p
      <4>1. Lacks(m, p)
        BY <1>1, <2>5, <3>4 DEF SchedSolo, SupplyInv, PlansAreDue
      <4>2. Appearances(m, p)' \subseteq Appearances(m, p) \union {<<j, 1>>}
        BY <2>3, <3>2
      <4>3. /\ IsFiniteSet(Appearances(m, p) \union {<<j, 1>>})
            /\ Cardinality(Appearances(m, p) \union {<<j, 1>>}) <= Cardinality(Appearances(m, p)) + 1
            /\ Cardinality(Appearances(m, p) \union {<<j, 1>>}) \in Nat
        <5> DEFINE S == Appearances(m, p)
        <5>1. IsFiniteSet(S) /\ Cardinality(S) \in Nat
          BY AppearancesFinite
        <5> HIDE DEF S
        <5>2. /\ IsFiniteSet(S \union {<<j, 1>>})
              /\ Cardinality(S \union {<<j, 1>>}) \in {Cardinality(S), Cardinality(S) + 1}
          BY <5>1, FS_AddElement
        <5>3. QED
          BY <5>1, <5>2 DEF S
      <4>4. /\ Cardinality(Appearances(m, p)') \in Nat
            /\ Cardinality(Appearances(m, p)') <= Cardinality(Appearances(m, p) \union {<<j, 1>>})
        BY <4>2, <4>3, FS_Subset, FS_CardinalityType
      <4>5. QED
        BY <1>2, <4>1, <4>3, <4>4 DEF Lacks
    <3>5. QED
      BY <3>3, <3>4
  <2>6. QED
    BY <2>1, <2>4, <2>5
<1>6. QED
  BY <1>0, <1>4, <1>5

\* The inductive invariant of the scheduler's supply: results, versions, lists
\* and counts.
THEOREM SupplyHolds == Spec => []SupplyInv
<1>1. Init => SupplyInv
  <2> SUFFICES ASSUME Init PROVE SupplyInv
    OBVIOUS
  <2>1. /\ result = [j \in JobIds |-> <<>>] /\ sched = SchedRest("clear")
        /\ deleted = {} /\ runner = [r \in Runners |-> RunnerRest("clear")]
        /\ job = [j \in JobIds |-> [status |-> "none", mode |-> NoMode, who |-> <<>>]]
    BY DEF Init, SchedInit, RunnerInit, JobsInit
  <2>2. Resolved /\ MatchesBackedByJobs /\ DeletedAreUnsubmitted
    BY <2>1 DEF Resolved, Playing, MatchesBackedByJobs, DeletedAreUnsubmitted, RunnerRest
  <2>3. SeatedHaveSubmitted
    <3>1. \A j \in JobIds : job[j].who = <<>>
      BY <2>1
    <3>2. QED
      BY <3>1 DEF SeatedHaveSubmitted
  <2>4. PlansAreDue /\ PlansFitMode
    BY <2>1 DEF PlansAreDue, PlansFitMode, SchedRest
  <2>5. WithinTarget
    <3>1. \A m, p : Appearances(m, p) = {}
      BY <2>1 DEF Appearances, Played, InFlight
    <3>2. QED
      BY <3>1, FS_EmptySet, TargetsAreNats DEF WithinTarget
  <2>6. SolosAreAlone /\ SeatsAccounted
    BY <2>1 DEF SolosAreAlone, SeatsAccounted, RunnerRest, Idle
  <2>7. QED
    BY <2>2, <2>3, <2>4, <2>5, <2>6 DEF SupplyInv
<1>2. IInv /\ SupplyInv /\ [Next]_vars => SupplyInv'
  BY MatchesKept, ResolvedKept, SeatsKept, PlansKept, TargetKept, SolosKept, AccountsKept DEF SupplyInv
<1>3. QED
  BY <1>1, <1>2, Invariance, PTL DEF Spec

\* There is no match row without its job's success, none whose seats are not
\* the job's, and none with a version that its project had not reached.  Not
\* every seat need have its participant: a match goes on without a version
\* that did not come up.
THEOREM MatchesAreBacked == Spec => []MatchesBackedByJobs
<1>1. SupplyInv => MatchesBackedByJobs
  BY DEF SupplyInv
<1>2. QED
  BY <1>1, SupplyHolds, PTL

\* No version is given more matches of a solo mode than the target.
THEOREM NobodyIsOverplayed == Spec => []NoOverplay
<1>1. ASSUME SupplyInv, IInv PROVE NoOverplay
  <2>1. \A p \in Submitted : p \in Projects \ deleted
    BY <1>1 DEF SupplyInv, DeletedAreUnsubmitted, Submitted
  <2>2. QED
    BY <1>1, <2>1 DEF SupplyInv, WithinTarget, NoOverplay
<1>2. QED
  BY <1>1, Invariance, SupplyHolds, PTL

\* A job is inserted for a version that still lacks matches, however long ago
\* the list was read, and whatever mode the tick is in; unless users are erased
\* and matches recorded without a player: then a job that no longer counted,
\* for it was cancelled with its player, may turn into a match that does.
THEOREM NoChurn ==
  ~({"erase", "initfail"} \subseteq Events) => (Spec => JobsOnlyWhenDue)
<1> SUFFICES ASSUME NoComeback PROVE Spec => JobsOnlyWhenDue
  BY DEF NoComeback
<1> DEFINE Due1 == \A j \in JobIds :
       job[j].status = "none" /\ job'[j].status = "queued" =>
         \E s \in DOMAIN job'[j].who :
           LET p == job'[j].who[s]
               m == job'[j].mode IN
           p \in deleted \/ Cardinality(Appearances(m, p)) < Target[m]
<1>1. ASSUME IInv, SupplyInv, [Next]_vars
      PROVE  Due1
  <2> SUFFICES ASSUME NEW j \in JobIds, job[j].status = "none", job'[j].status = "queued"
               PROVE  /\ 1 \in DOMAIN job'[j].who
                      /\ \/ job'[j].who[1] \in deleted
                         \/ Lacks(job'[j].mode, job'[j].who[1])
    BY DEF Lacks
  <2>1. Inserts
    <3>1. ~JobsAge
      BY DEF JobsAge, Open
    <3>2. QED
      BY <1>1, <3>1, StepShape DEF SupplyInv
  <2>2. PICK k \in JobIds, who \in Seating :
           /\ job' = [job EXCEPT ![k] = [status |-> "queued", mode |-> sched.mode, who |-> who]]
           /\ \/ SchedSolo /\ \E v \in sched.plan : who = <<v[1]>>
              \/ SchedMultiPick /\ \E g \in Groups(sched.mode, sched.plan, sched.tally) :
                  who = GroupSeating(sched.mode, g)
    BY <1>1, <2>1, InsertShape
  <2>3. k = j
    BY <1>1, <2>2 DEF IInv, TypeOK
  <2>4. job'[j].who = who /\ job'[j].mode = sched.mode
    BY <1>1, <2>2, <2>3 DEF IInv, TypeOK
  <2>5. QED
    BY <1>1, <2>2, <2>4, PlayersOfInsert DEF SupplyInv
<1>2. IInv /\ SupplyInv /\ [Next]_vars => [Due1]_vars
  BY <1>1
<1> HIDE DEF Due1
<1>3. QED
  BY <1>2, Invariance, SupplyHolds, PTL DEF Spec, JobsOnlyWhenDue, Due1

------------------------------------------------------------------------------
(* With enough versions there is a group: the sort of pick_match_group has a *)
(* first element of whatever is left.                                        *)

LEMMA LeastOfNats ==
  ASSUME NEW S, S \subseteq Nat, S # {}
  PROVE  \E m \in S : \A n \in S : m <= n
<1> DEFINE less == {ss \in Nat \X Nat : ss[1] < ss[2]}
<1>1. IsWellFoundedOn(less, Nat)
  BY NatLessThanWellFounded DEF OpToRel
<1> HIDE DEF less
<1>2. PICK m \in S : \A n \in S : ~(<<n, m>> \in less)
  BY <1>1, WFMin
<1>3. \A n \in S : ~(n < m)
  BY <1>2 DEF less
<1>4. QED
  BY <1>3

LEMMA LeastTally ==
  ASSUME NEW S, S \subseteq Ref, S # {}, NEW tally \in [Projects -> Nat]
  PROVE  \E v \in S : \A w \in S : tally[v[1]] <= tally[w[1]]
<1>1. \A v \in S : v[1] \in Projects
  BY DEF Ref
<1> DEFINE weights == {tally[v[1]] : v \in S}
<1>2. weights \subseteq Nat /\ weights # {}
  BY <1>1
<1>3. PICK least \in weights : \A n \in weights : least <= n
  BY <1>2, LeastOfNats
<1>4. QED
  BY <1>3

LEMMA FirstInOrder ==
  ASSUME NEW S, S \subseteq Ref, S # {}, NEW met, NEW plan, NEW tally \in [Projects -> Nat]
  PROVE  \E a \in S : \A b \in S : ~Before(b, a, met, plan, tally)
<1> DEFINE news == {v \in S : v \notin met}
           best == IF news = {} THEN S ELSE news
           ranked == best \intersect plan
<1>1. best # {} /\ best \subseteq S /\ ranked \subseteq Ref
  OBVIOUS
<1>2. \E a \in best : a \in plan \/ ranked = {}
  BY <1>1
<1>3. PICK a \in best : /\ a \in plan \/ ranked = {}
                        /\ a \in plan => \A w \in ranked : tally[a[1]] <= tally[w[1]]
  <2>1. CASE ranked = {}
    BY <1>2, <2>1
  <2>2. CASE ranked # {}
    <3>1. PICK v \in ranked : \A w \in ranked : tally[v[1]] <= tally[w[1]]
      BY <1>1, <2>2, LeastTally
    <3>2. QED
      BY <3>1
  <2>3. QED
    BY <2>1, <2>2
<1>4. ASSUME NEW b \in S, Before(b, a, met, plan, tally)
      PROVE  FALSE
  <2>1. a[1] \in Projects /\ b[1] \in Projects
    BY <1>1 DEF Ref
  <2>2. tally[a[1]] \in Nat /\ tally[b[1]] \in Nat
    BY <2>1
  <2>3. CASE b \notin met /\ a \in met
    BY <2>3
  <2>4. CASE (b \in met <=> a \in met) /\ b \in plan /\ (a \in plan => tally[b[1]] < tally[a[1]])
    <3>1. b \in best
      BY <2>4
    <3>2. b \in ranked
      BY <2>4, <3>1
    <3>3. a \in plan /\ tally[a[1]] <= tally[b[1]]
      BY <1>3, <3>2
    <3>4. QED
      BY <2>2, <2>4, <3>3
  <2>5. QED
    BY <1>4, <2>3, <2>4 DEF Before
<1>5. QED
  BY <1>1, <1>3, <1>4

\* The first n of a pool in an order, as Groups has them.
Leads(rest, n, pool, met, plan, tally) ==
  /\ \A i, k \in 1 .. n : i < k => rest[i] # rest[k] /\ ~Before(rest[k], rest[i], met, plan, tally)
  /\ \A v \in pool \ {rest[i] : i \in 1 .. n} : \A i \in 1 .. n :
       ~Before(v, rest[i], met, plan, tally)

LEMMA OneMoreLeads ==
  ASSUME NEW pool, pool \subseteq Ref, IsFiniteSet(pool), NEW met, NEW plan,
         NEW tally \in [Projects -> Nat], NEW n \in Nat, n < Cardinality(pool),
         NEW rest \in [1 .. n -> pool], Leads(rest, n, pool, met, plan, tally)
  PROVE  \E more \in [1 .. n + 1 -> pool] : Leads(more, n + 1, pool, met, plan, tally)
<1> DEFINE taken == {rest[i] : i \in 1 .. n}
           left == pool \ taken
<1>1. left # {}
  <2>1. rest \in Surjection(1 .. n, taken)
    BY DEF Surjection
  <2>2. IsFiniteSet(1 .. n) /\ Cardinality(1 .. n) = n
    BY FS_Interval
  <2> HIDE DEF taken
  <2>3. Cardinality(taken) <= n
    BY <2>1, <2>2, FS_Surjection
  <2>4. taken # pool
    BY <2>3, FS_CardinalityType, FS_Surjection, <2>1, <2>2
  <2>5. QED
    BY <2>4 DEF taken
<1>2. PICK a \in left : \A b \in left : ~Before(b, a, met, plan, tally)
  <2>1. left \subseteq Ref
    OBVIOUS
  <2> HIDE DEF left
  <2>2. QED
    BY <1>1, <2>1, FirstInOrder
<1> DEFINE more == [i \in 1 .. n + 1 |-> IF i = n + 1 THEN a ELSE rest[i]]
<1>3. more \in [1 .. n + 1 -> pool]
  OBVIOUS
<1>4. more[n + 1] = a /\ \A i \in 1 .. n : more[i] = rest[i]
  OBVIOUS
<1>5. {more[i] : i \in 1 .. n + 1} = taken \union {a}
  <2>1. \A i \in 1 .. n + 1 : i = n + 1 \/ i \in 1 .. n
    OBVIOUS
  <2>2. n + 1 \in 1 .. n + 1 /\ 1 .. n \subseteq 1 .. n + 1
    OBVIOUS
  <2> HIDE DEF more
  <2>3. QED
    BY <1>4, <2>1, <2>2
<1> HIDE DEF more
<1>6. ASSUME NEW i \in 1 .. n + 1, NEW k \in 1 .. n + 1, i < k
      PROVE  more[i] # more[k] /\ ~Before(more[k], more[i], met, plan, tally)
  <2>1. i \in 1 .. n
    BY <1>6
  <2>2. CASE k = n + 1
    <3>1. more[i] \in taken /\ more[k] = a /\ more[i] = rest[i]
      BY <1>4, <2>1, <2>2
    <3>2. QED
      BY <2>1, <3>1 DEF Leads
  <2>3. CASE k \in 1 .. n
    BY <1>4, <1>6, <2>1, <2>3 DEF Leads
  <2>4. QED
    BY <2>2, <2>3
<1>7. ASSUME NEW v \in pool \ {more[i] : i \in 1 .. n + 1}, NEW i \in 1 .. n + 1
      PROVE  ~Before(v, more[i], met, plan, tally)
  <2>1. v \in left
    BY <1>5, <1>7
  <2>2. CASE i = n + 1
    BY <1>2, <1>4, <2>1, <2>2
  <2>3. CASE i \in 1 .. n
    BY <1>4, <2>1, <2>3 DEF Leads
  <2>4. QED
    BY <2>2, <2>3
<1>8. Leads(more, n + 1, pool, met, plan, tally)
  BY <1>6, <1>7 DEF Leads
<1>9. QED
  BY <1>3, <1>8

\* By the least length for which there would be none.
LEMMA SomeLead ==
  ASSUME NEW pool, pool \subseteq Ref, IsFiniteSet(pool), NEW met, NEW plan,
         NEW tally \in [Projects -> Nat], NEW k \in Nat, k <= Cardinality(pool)
  PROVE  \E rest \in [1 .. k -> pool] : Leads(rest, k, pool, met, plan, tally)
<1> DEFINE Has(n) == \E rest \in [1 .. n -> pool] : Leads(rest, n, pool, met, plan, tally)
           none == {n \in 0 .. k : ~Has(n)}
<1>0. Cardinality(pool) \in Nat
  BY FS_CardinalityType
<1>1. Has(0)
  <2>1. 1 .. 0 = {}
    OBVIOUS
  <2>2. <<>> \in [1 .. 0 -> pool] /\ Leads(<<>>, 0, pool, met, plan, tally)
    BY <2>1 DEF Leads
  <2>3. QED
    BY <2>2
<1>2. ASSUME NEW n \in Nat, n < k, Has(n)
      PROVE  Has(n + 1)
  <2>1. n < Cardinality(pool)
    BY <1>0, <1>2
  <2>2. QED
    BY <1>2, <2>1, OneMoreLeads
<1> HIDE DEF Has
<1>3. SUFFICES ASSUME none # {} PROVE FALSE
  BY DEF Has
<1>4. PICK n \in none : \A i \in none : n <= i
  <2>1. none \subseteq Nat
    OBVIOUS
  <2> HIDE DEF none
  <2>2. QED
    BY <1>3, <2>1, LeastOfNats
<1>5. n \in 0 .. k /\ ~Has(n) /\ n # 0
  BY <1>1, <1>4
<1>6. n - 1 \in 0 .. k /\ n - 1 \in Nat /\ n - 1 < k /\ ~(n <= n - 1) /\ n - 1 + 1 = n
  BY <1>5
<1>7. Has(n - 1)
  BY <1>4, <1>6
<1>8. Has(n)
  BY <1>2, <1>6, <1>7
<1>9. QED
  BY <1>5, <1>8

\* pick_match_group finds a group whenever the mode's seats do not outnumber
\* the submitted versions, however old the list is that its seed comes from.
THEOREM GroupsExist ==
  ASSUME IInv, NEW m \in Modes, NEW plan \in SUBSET Ref, plan # {},
         NEW tally \in [Projects -> Nat], Cardinality(Submitted) >= Seats[m]
  PROVE  Groups(m, plan, tally) # {}
<1>1. PICK seed \in plan : \A r \in plan : tally[seed[1]] <= tally[r[1]]
  BY LeastTally
<1> DEFINE current == {CurrentRef(p) : p \in Submitted}
           pool == Candidates(seed)
           k == Seats[m] - 1
<1>2. Seats[m] \in Nat \ {0} /\ k \in Nat
  BY TargetsAreNats
<1>3. /\ IsFiniteSet(Submitted) /\ Cardinality(Submitted) \in Nat
  <2>1. Submitted \in SUBSET Projects
    BY DEF Submitted
  <2>2. QED
    BY <2>1, JobsAssumption, FS_Subset, FS_CardinalityType
<1>4. current \subseteq Ref
  <2>1. \A p \in Submitted : p \in Projects /\ ver[p] \in 1 .. MaxVersion
    BY ModesAssumption DEF Submitted, IInv, TypeOK
  <2>2. QED
    BY <2>1 DEF CurrentRef, Ref
<1>5. IsFiniteSet(current) /\ Cardinality(current) \in Nat
  BY <1>4, RefIsFinite, FS_Subset, FS_CardinalityType
<1>6. Cardinality(Submitted) <= Cardinality(current)
  <2> DEFINE f == [p \in Submitted |-> CurrentRef(p)]
  <2>1. f \in [Submitted -> current]
    OBVIOUS
  <2>2. \A p, q \in Submitted : f[p] = f[q] => p = q
    BY DEF CurrentRef
  <2> HIDE DEF f, current
  <2>3. f \in Injection(Submitted, current)
    BY <2>1, <2>2 DEF Injection, IsInjective
  <2>4. QED
    BY <1>5, <2>3, FS_Injection
<1>7. /\ pool = current \ {seed}
      /\ pool \subseteq Ref
  BY <1>4 DEF Candidates
<1> HIDE DEF current, pool
<1>8. IsFiniteSet(pool) /\ Cardinality(pool) \in Nat /\ Cardinality(pool) >= Cardinality(current) - 1
  <2>1. /\ IsFiniteSet(current \ {seed})
        /\ Cardinality(current \ {seed}) \in {Cardinality(current), Cardinality(current) - 1}
    BY <1>5, FS_RemoveElement
  <2>2. Cardinality(current \ {seed}) \in Nat
    BY <2>1, FS_CardinalityType
  <2>3. QED
    BY <1>5, <1>7, <2>1, <2>2
<1>9. k <= Cardinality(pool)
  BY <1>2, <1>3, <1>5, <1>6, <1>8
<1> HIDE DEF k
<1>10. PICK rest \in [1 .. k -> pool] : Leads(rest, k, pool, Met(m, seed), plan, tally)
  BY <1>2, <1>7, <1>8, <1>9, SomeLead
<1>11. rest \in [1 .. k -> Ref] /\ DOMAIN rest = 1 .. k
  BY <1>7
<1>12. <<seed, rest>> \in Groups(m, plan, tally)
  BY <1>1, <1>10, <1>11 DEF Groups, Leads, k, pool
<1>13. QED
  BY <1>12

------------------------------------------------------------------------------
(* Work that is due.  From the moment it clears its event, the scheduler has *)
(* news of everything that makes work but of the failure of a match, and of  *)
(* the erasure of a player in one that is under way.                         *)

Excuses == WithStatus("failure") \union (WithStatus("cancelled") \intersect Void)

Excused(m) == \E j \in Excuses : job[j].mode = m

Rested(m) == Due(m) => Excused(m)

\* How far a tick without news has come: the modes behind it are rested, the
\* ones ahead have what was counted, and the one at hand is rested or will be.
Progress ==
  /\ sched.pc = "sleep" => \A m \in Modes : Rested(m)
  /\ sched.pc = "walk" => \A m \in Modes \ sched.todo : Rested(m)
  /\ sched.pc \in {"solo", "multi", "pick"} =>
       \A m \in Modes \ (sched.todo \union {sched.mode}) : Rested(m)
  /\ sched.pc \in {"walk", "solo", "multi", "pick"} =>
       \A m \in sched.todo : sched.snap[m] > 0 => Queued(m) # {}
  /\ sched.pc = "solo" => Rested(sched.mode) \/ (sched.room > 0 /\ sched.plan # {})
  /\ sched.pc = "multi" => Rested(sched.mode) \/ sched.room > 0

TickInv == Quiet(Scheduler) => Progress

LEMMA EligibleFinite ==
  /\ Eligible \subseteq Submitted
  /\ IsFiniteSet(Submitted) /\ Cardinality(Submitted) \in Nat
  /\ IsFiniteSet(Eligible) /\ Cardinality(Eligible) \in Nat
  /\ Cardinality(Eligible) <= Cardinality(Submitted)
<1>1. Submitted \in SUBSET Projects /\ Eligible \in SUBSET Submitted
  BY DEF Submitted, Eligible
<1>2. IsFiniteSet(Submitted)
  BY <1>1, JobsAssumption, FS_Subset
<1>3. QED
  BY <1>1, <1>2, FS_Subset, FS_CardinalityType

\* Fewer eligible versions with no fewer matches: no more of them are due.
LEMMA UnderplayedShrinks ==
  ASSUME NEW m \in Modes, Eligible' \subseteq Eligible,
         \A p \in Eligible' : Appearances(m, p) \subseteq Appearances(m, p)'
  PROVE  Underplayed(m)' \subseteq Underplayed(m)
<1> SUFFICES ASSUME NEW p \in Underplayed(m)' PROVE p \in Underplayed(m)
  OBVIOUS
<1>1. /\ p \in Eligible'
      /\ Solo(m) \/ Cardinality(Eligible') >= Seats[m]
      /\ Cardinality(Appearances(m, p)') < Target[m]
  BY DEF Underplayed, Counted, Solo
<1>2. /\ Cardinality(Eligible') \in Nat /\ Cardinality(Eligible') <= Cardinality(Eligible)
  BY EligibleFinite, FS_Subset, FS_CardinalityType
<1>3. /\ Cardinality(Appearances(m, p)') \in Nat
      /\ Cardinality(Appearances(m, p)) <= Cardinality(Appearances(m, p)')
  <2>1. Appearances(m, p)' \subseteq JobIds \X (1 .. MaxSeats)
    BY DEF Appearances, Played, InFlight
  <2>2. IsFiniteSet(JobIds \X (1 .. MaxSeats))
    <3>1. IsFiniteSet(1 .. MaxSeats)
      BY FS_Interval, JobsAssumption
    <3>2. QED
      BY <3>1, JobIdsFinite, FS_Product
  <2>3. IsFiniteSet(Appearances(m, p)') /\ Appearances(m, p) \subseteq Appearances(m, p)'
    BY <1>1, <2>1, <2>2, FS_Subset
  <2>4. QED
    BY <2>3, FS_Subset, FS_CardinalityType
<1>4. Cardinality(Appearances(m, p)) \in Nat
  BY AppearancesFinite
<1>5. Cardinality(Appearances(m, p)) < Target[m]
  BY <1>1, <1>3, <1>4, TargetsAreNats
<1>6. Solo(m) \/ Cardinality(Eligible) >= Seats[m]
  BY <1>1, <1>2, EligibleFinite, TargetsAreNats
<1>7. QED
  BY <1>1, <1>5, <1>6 DEF Underplayed, Counted

\* A step that leaves work where it is, or takes some away.
NoNewWork ==
  \A m \in Modes :
    /\ Rested(m) => Rested(m)'
    /\ Queued(m)' = {} => Queued(m) = {}

LEMMA ExcusesStay ==
  ASSUME NEW m, deleted \subseteq deleted',
         \A j \in Excuses : /\ job'[j].status = job[j].status
                           /\ job'[j].mode = job[j].mode /\ job'[j].who = job[j].who
  PROVE  Excused(m) => Excused(m)'
<1>1. Excuses \subseteq JobIds
  BY DEF Excuses, WithStatus
<1>2. \A j \in Excuses : j \in Void => j \in Void'
  BY <1>1 DEF Void, Involving
<1>3. \A j \in Excuses : j \in Excuses'
  BY <1>1, <1>2 DEF Excuses, WithStatus
<1>4. QED
  BY <1>3 DEF Excused

LEMMA SameWork ==
  ASSUME UNCHANGED <<job, result, ver, deleted>>, \A p \in Projects : crashed[p] => crashed'[p],
         enabled' \subseteq enabled
  PROVE  NoNewWork
<1>1. Eligible' \subseteq Eligible
  BY DEF Eligible, Submitted
<1> SUFFICES ASSUME NEW m \in Modes
             PROVE  (Rested(m) => Rested(m)') /\ (Queued(m)' = {} => Queued(m) = {})
  BY DEF NoNewWork
<1>2. \A p : Appearances(m, p)' = Appearances(m, p)
  BY DEF Appearances, Played, InFlight, SeatOf
<1>3. Underplayed(m)' \subseteq Underplayed(m)
  BY <1>1, <1>2, UnderplayedShrinks
<1>4. Queued(m)' = Queued(m) /\ (Excused(m) => Excused(m)')
  BY ExcusesStay DEF Queued, WithStatus
<1>5. QED
  BY <1>3, <1>4 DEF Rested, Due

LEMMA InsertsMakeNoWork ==
  ASSUME IInv, SupplyInv, Inserts
  PROVE  NoNewWork /\ \A m \in Modes : m = sched.mode => Queued(m)' # {}
<1>1. PICK j \in JobIds, who \in Seating :
         /\ sched.mode \in Modes
         /\ job[j].status = "none"
         /\ job' = [job EXCEPT ![j] = [status |-> "queued", mode |-> sched.mode, who |-> who]]
  BY InsertShape
<1>2. UNCHANGED <<result, ver, crashed, enabled, deleted>>
  BY DEF Inserts, SchedulerProcess, projectVars, SchedSolo, SchedMultiPick
<1>3. \A k \in JobIds : job'[k] = IF k = j THEN [status |-> "queued", mode |-> sched.mode, who |-> who]
                                           ELSE job[k]
  BY <1>1 DEF IInv, TypeOK
<1>4. Eligible' \subseteq Eligible
  BY <1>2 DEF Eligible, Submitted
<1>5. \A m, p : Appearances(m, p) \subseteq Appearances(m, p)'
  BY <1>1, <1>2, InsertCounts DEF SupplyInv
<1>6. ASSUME NEW m \in Modes
      PROVE  /\ Rested(m) => Rested(m)'
             /\ Queued(m) \subseteq Queued(m)'
  <2>1. Underplayed(m)' \subseteq Underplayed(m)
    BY <1>4, <1>5, UnderplayedShrinks
  <2>2. Queued(m) \subseteq Queued(m)'
    BY <1>1, <1>3 DEF Queued, WithStatus
  <2>3. Excused(m) => Excused(m)'
    <3>1. \A k \in Excuses : k \in JobIds /\ k # j
      BY <1>1 DEF Excuses, WithStatus
    <3>2. QED
      BY <1>2, <1>3, <3>1, ExcusesStay
  <2>4. QED
    BY <1>2, <2>1, <2>2, <2>3 DEF Rested, Due
<1>7. ASSUME NEW m \in Modes, m = sched.mode
      PROVE  j \in Queued(m)'
  BY <1>3, <1>7 DEF Queued, WithStatus
<1>8. QED
  BY <1>6, <1>7 DEF NoNewWork

\* A failed match makes work, but its mode has the failure to show for it.
LEMMA FailureIsAnExcuse ==
  ASSUME IInv, NEW r \in Runners, RunnerFail(r), UNCHANGED <<enabled, deleted>>
  PROVE  NoNewWork
<1>1. /\ runner[r].job \in JobIds
      /\ \/ job[runner[r].job].status = "running"
         \/ job[runner[r].job].status = "cancelled" /\ runner[r].job \in Void
      /\ job' = [job EXCEPT ![runner[r].job].status = "failure"]
  BY RowInHand DEF RunnerFail, MarkFailure, Idle
<1>2. PICK j \in JobIds :
        /\ job[j].status \in {"running", "cancelled"}
        /\ job'[j] = [job[j] EXCEPT !.status = "failure"]
        /\ \A k \in JobIds \ {j} : job'[k] = job[k]
  BY <1>1 DEF IInv, TypeOK
<1>3. job'[j].status = "failure" /\ job'[j].mode = job[j].mode /\ job'[j].who = job[j].who
  BY <1>2 DEF IInv, TypeOK, JobRow
<1>4. Eligible' \subseteq Eligible /\ UNCHANGED <<result, ver>>
  BY DEF RunnerFail, Eligible, Submitted
<1> SUFFICES ASSUME NEW m \in Modes
             PROVE  (Rested(m) => Rested(m)') /\ (Queued(m)' = {} => Queued(m) = {})
  BY DEF NoNewWork
<1>5. Queued(m)' = Queued(m)
  BY <1>2, <1>3 DEF Queued, WithStatus
<1>6. CASE job[j].mode = m
  <2>1. Excused(m)'
    BY <1>3, <1>6 DEF Excused, Excuses, WithStatus
  <2>2. QED
    BY <1>5, <2>1 DEF Rested
<1>7. CASE job[j].mode # m
  <2>1. \A k \in JobIds : \A p : SeatOf(k, p)' = SeatOf(k, p)
    BY <1>2, <1>3 DEF SeatOf
  <2>2. ASSUME NEW p, NEW k \in JobIds, NEW s \in 1 .. MaxSeats, <<k, s>> \in Appearances(m, p)
        PROVE  <<k, s>> \in Appearances(m, p)'
    <3>1. k # j
      BY <1>7, <2>2 DEF Appearances, Played, InFlight
    <3>2. job'[k] = job[k]
      BY <1>2, <3>1
    <3>3. QED
      BY <1>4, <2>1, <2>2, <3>2 DEF Appearances, Played, InFlight
  <2>3. \A p : Appearances(m, p) \subseteq Appearances(m, p)'
    BY <2>2 DEF Appearances, Played, InFlight
  <2>4. Underplayed(m)' \subseteq Underplayed(m)
    BY <1>4, <2>3, UnderplayedShrinks
  <2>5. Excused(m) => Excused(m)'
    <3>1. \A k \in Excuses : k \in JobIds /\ (k # j \/ job[k].mode # m)
      BY <1>7 DEF Excuses, WithStatus
    <3>2. \A k \in Excuses : k # j => k \in Excuses'
      BY <1>2, <3>1 DEF Excuses, WithStatus, Void, Involving
    <3>3. QED
      BY <1>2, <3>1, <3>2 DEF Excused
  <2>6. QED
    BY <1>5, <2>4, <2>5 DEF Rested, Due
<1>8. QED
  BY <1>6, <1>7

\* Whoever goes, the others have the matches they played.
LEMMA OthersKeepTheirMatches ==
  ASSUME IInv, SupplyInv, NEW ps \in SUBSET Projects, NEW m, NEW p \in Projects \ ps,
         ver[p] > 0, ver'[p] = ver[p],
         \A j \in JobIds : job'[j].mode = job[j].mode /\ job'[j].who = job[j].who,
         \A j \in JobIds : \A s \in DOMAIN WithoutPlayers(ps)[j] :
           /\ job[j].who[s] = p
           /\ WithoutPlayers(ps)[j][s] = ver[p]
           => result'[j] = WithoutPlayers(ps)[j]
  PROVE  Played(m, p, ver[p]) \subseteq Played(m, p, ver[p])'
<1> SUFFICES ASSUME NEW j \in JobIds, NEW s \in 1 .. MaxSeats, <<j, s>> \in Played(m, p, ver[p])
             PROVE  <<j, s>> \in Played(m, p, ver[p])'
  BY DEF Played
<1>1. /\ job[j].mode = m /\ s \in DOMAIN job[j].who /\ job[j].who[s] = p
      /\ result[j] # <<>> /\ result[j][s] = ver[p]
  BY DEF Played, SeatOf
<1>2. s \in DOMAIN result[j]
  BY <1>1, PlayersOfRow DEF SupplyInv
<1>3. s \in DOMAIN WithoutPlayers(ps)[j] /\ WithoutPlayers(ps)[j][s] = ver[p]
  BY <1>1, <1>2 DEF WithoutPlayers
<1>4. result'[j] = WithoutPlayers(ps)[j]
  BY <1>1, <1>3
<1>5. result'[j] # <<>> /\ result'[j][s] = ver'[p]
  BY <1>3, <1>4
<1>6. QED
  BY <1>1, <1>5 DEF Played, SeatOf

\* A delete leaves the others the matches they played: prune spares a match
\* with a current version.
LEMMA DeleteMakesNoWork ==
  ASSUME IInv, SupplyInv, NEW q \in Projects, Delete(q)
  PROVE  NoNewWork
<1> DEFINE rows == WithoutPlayers({q})
<1>1. /\ ver' = [ver EXCEPT ![q] = 0] /\ crashed' = [crashed EXCEPT ![q] = FALSE]
      /\ UNCHANGED <<job, enabled>> /\ deleted \subseteq deleted'
      /\ ver \in [Projects -> 0 .. MaxVersion] /\ crashed \in [Projects -> BOOLEAN]
  BY DEF Delete, IInv, TypeOK
<1>2. result' = Pruned(rows, ver')
  BY DEF Delete
<1>3. Eligible' \subseteq Eligible /\ q \notin Eligible'
  BY <1>1, ModesAssumption DEF Eligible, Submitted
<1> SUFFICES ASSUME NEW m \in Modes
             PROVE  (Rested(m) => Rested(m)') /\ (Queued(m)' = {} => Queued(m) = {})
  BY DEF NoNewWork
<1>4. Queued(m)' = Queued(m) /\ (Excused(m) => Excused(m)')
  BY <1>1, ExcusesStay DEF Queued, WithStatus
<1> HIDE DEF rows
<1>5. ASSUME NEW p \in Eligible'
      PROVE  Played(m, p, ver[p]) \subseteq Played(m, p, ver[p])'
  <2>1. p \in Projects \ {q} /\ ver'[p] = ver[p] /\ ver[p] > 0
    BY <1>1, <1>3 DEF Eligible, Submitted
  <2>2. ASSUME NEW j \in JobIds, NEW s \in DOMAIN rows[j], job[j].who[s] = p, rows[j][s] = ver[p]
        PROVE  result'[j] = rows[j]
    <3>1. Pruned(rows, ver')[j] =
            IF \E t \in DOMAIN rows[j] : rows[j][t] > 0 /\ rows[j][t] = ver'[job[j].who[t]]
            THEN rows[j] ELSE <<>>
      BY DEF Pruned
    <3>2. rows[j][s] > 0 /\ rows[j][s] = ver'[job[j].who[s]]
      BY <2>1, <2>2
    <3>3. QED
      BY <1>2, <3>1, <3>2
  <2>3. QED
    BY <1>1, <2>1, <2>2, OthersKeepTheirMatches DEF rows
<1>6. \A p \in Eligible' : Appearances(m, p) \subseteq Appearances(m, p)'
  <2>1. \A p : InFlight(m, p)' = InFlight(m, p)
    BY <1>1 DEF InFlight, SeatOf
  <2>2. QED
    BY <1>5, <2>1 DEF Appearances
<1>7. Underplayed(m)' \subseteq Underplayed(m)
  BY <1>3, <1>6, UnderplayedShrinks
<1>8. QED
  BY <1>1, <1>4, <1>7 DEF Rested, Due

\* An erasure that cancels nothing but jobs under way makes work, but their
\* modes have the cancelled jobs to show for it.
LEMMA ErasureIsAnExcuse ==
  ASSUME IInv, SupplyInv, NEW ps \in SUBSET Projects, EraseUser(ps),
         Involving(ps) \intersect WithStatus("queued") = {}
  PROVE  NoNewWork
<1> DEFINE rows == WithoutPlayers(ps)
           js == Involving(ps) \intersect WithStatus("running")
<1>1. /\ ver' = [p \in Projects |-> IF p \in ps THEN 0 ELSE ver[p]]
      /\ crashed' = [p \in Projects |-> crashed[p] /\ p \notin ps]
      /\ UNCHANGED enabled /\ deleted' = deleted \union ps
      /\ ver \in [Projects -> 0 .. MaxVersion] /\ crashed \in [Projects -> BOOLEAN]
  BY DEF EraseUser, IInv, TypeOK
<1>2. /\ js \subseteq JobIds /\ js \subseteq Void' /\ \A j \in js : job[j].status = "running"
      /\ \A j \in JobIds : /\ job'[j].mode = job[j].mode /\ job'[j].who = job[j].who
                         /\ job'[j].status = IF j \in js THEN "cancelled" ELSE job[j].status
  <2>1. CancelAll(js)
    <3>1. Involving(ps) \intersect (WithStatus("queued") \union WithStatus("running")) = js
      OBVIOUS
    <3> HIDE DEF js
    <3>2. QED
      BY <3>1 DEF EraseUser
  <2>2. \A j \in JobIds : /\ job'[j].mode = job[j].mode /\ job'[j].who = job[j].who
                        /\ job'[j].status = IF j \in js THEN "cancelled" ELSE job[j].status
    BY <2>1 DEF CancelAll, IInv, TypeOK, JobRow
  <2>3. QED
    BY <1>1, <2>2 DEF WithStatus, Void, Involving
<1>3. \A j \in JobIds : result'[j] =
        IF rows[j] # result[j] /\ \A s \in DOMAIN rows[j] : rows[j][s] = 0 THEN <<>> ELSE rows[j]
  BY DEF EraseUser
<1>4. Eligible' \subseteq Eligible /\ \A p \in Eligible' : p \notin ps
  BY <1>1, ModesAssumption DEF Eligible, Submitted
<1> HIDE DEF js, rows
<1> SUFFICES ASSUME NEW m \in Modes
             PROVE  (Rested(m) => Rested(m)') /\ (Queued(m)' = {} => Queued(m) = {})
  BY DEF NoNewWork
<1>5. Queued(m)' = Queued(m)
  BY <1>2 DEF Queued, WithStatus
<1>6. CASE \E j \in js : job[j].mode = m
  <2>1. Excused(m)'
    BY <1>2, <1>6 DEF Excused, Excuses, WithStatus
  <2>2. QED
    BY <1>5, <2>1 DEF Rested
<1>7. CASE \A j \in js : job[j].mode # m
  <2>1. Excused(m) => Excused(m)'
    <3>1. \A j \in Excuses : j \in JobIds /\ j \notin js
      BY <1>2 DEF Excuses, WithStatus
    <3>2. QED
      BY <1>1, <1>2, <3>1, ExcusesStay
  <2>2. ASSUME NEW p \in Eligible'
        PROVE  Appearances(m, p) \subseteq Appearances(m, p)'
    <3>1. p \in Projects \ ps /\ ver'[p] = ver[p] /\ ver[p] > 0
      BY <1>1, <1>4 DEF Eligible, Submitted
    <3>2. ASSUME NEW j \in JobIds, NEW s \in DOMAIN rows[j], job[j].who[s] = p, rows[j][s] = ver[p]
          PROVE  result'[j] = rows[j]
      BY <1>3, <3>1, <3>2
    <3>3. Played(m, p, ver[p]) \subseteq Played(m, p, ver[p])'
      BY <1>2, <3>1, <3>2, OthersKeepTheirMatches DEF rows
    <3>4. InFlight(m, p) \subseteq InFlight(m, p)'
      BY <1>2, <1>7 DEF InFlight, SeatOf
    <3>5. QED
      BY <3>3, <3>4 DEF Appearances
  <2>3. Underplayed(m)' \subseteq Underplayed(m)
    BY <1>4, <2>2, UnderplayedShrinks
  <2>4. QED
    BY <1>1, <1>5, <2>1, <2>3 DEF Rested, Due
<1>8. QED
  BY <1>6, <1>7

\* Without news, nothing but its own clearing of the event, and the scheduler
\* had none before.
LEMMA NoNewsIsGoodNews ==
  ASSUME IInv, SupplyInv, [Next]_vars, Quiet(Scheduler)', ~SchedClear
  PROVE  Quiet(Scheduler) /\ NoNewWork
<1> DEFINE Goal == Quiet(Scheduler) /\ NoNewWork
<1> HIDE DEF Goal
<1> SUFFICES Goal
  BY DEF Goal
<1> USE DEF projectVars
<1>1. /\ Scheduler \in Daemons /\ Scheduler \notin Runners /\ Runners \subseteq Daemons
      /\ NotifyTypeOK /\ crashed \in [Projects -> BOOLEAN]
  BY DaemonsAssumption DEF IInv, TypeOK
<1>2. ASSUME UNCHANGED notifyVars PROVE Quiet(Scheduler)
  BY <1>2 DEF notifyVars, Quiet
<1>3. ASSUME NotifyAll({Scheduler}), UNCHANGED <<listening, wakeup>> PROVE FALSE
  BY <1>1, <1>3 DEF NotifyAll, Quiet
<1>4. ASSUME NotifyAll(Runners), UNCHANGED <<listening, wakeup>> PROVE Quiet(Scheduler)
  BY <1>1, <1>4 DEF NotifyAll, Quiet
<1>5. ASSUME NEW d \in Daemons, d # Scheduler,
             Receive(d) \/ Connect(d) \/ Disconnect(d) \/ Vanish(d)
                \/ (ClearWakeup(d) /\ UNCHANGED <<listening, pending>>)
      PROVE  Quiet(Scheduler)
  BY <1>1, <1>5 DEF Receive, Connect, Disconnect, Vanish, ClearWakeup, Quiet, NotifyTypeOK
<1>6. ASSUME Receive(Scheduler) \/ Connect(Scheduler) \/ Disconnect(Scheduler)
      PROVE  FALSE
  BY <1>1, <1>6 DEF Receive, Connect, Disconnect, Quiet, NotifyTypeOK
<1>7. ASSUME UNCHANGED <<job, result, ver, deleted, crashed, enabled>> PROVE NoNewWork
  BY <1>7, SameWork
<1>8. CASE User
  <2>1. ASSUME NEW p \in Projects, Delete(p) PROVE Goal
    BY <2>1, <1>2, DeleteMakesNoWork DEF Delete, Goal
  <2>2. ASSUME NEW m \in Modes, DisableMode(m) PROVE Goal
    <3>1. UNCHANGED <<job, result, ver, deleted, crashed, notifyVars>> /\ enabled' \subseteq enabled
      BY <2>2 DEF DisableMode
    <3>2. QED
      BY <1>2, <3>1, SameWork DEF Goal
  <2>3. ~(\E p \in Projects : Submit(p))
    BY <1>3 DEF Submit
  <2>4. ~(\E j \in JobIds : CancelQueued(j)) /\ ~(\E m \in Modes : EnableMode(m))
    BY <1>3 DEF CancelQueued, EnableMode
  <2>5. ASSUME NEW ps \in SUBSET Projects, EraseUser(ps) PROVE Goal
    <3>1. /\ Involving(ps) \intersect WithStatus("queued") = {}
          /\ UNCHANGED <<listening, pending, wakeup>>
      BY <1>3, <2>5 DEF EraseUser
    <3>2. QED
      BY <1>2, <2>5, <3>1, ErasureIsAnExcuse DEF Goal, notifyVars
  <2>6. QED
    BY <1>8, <2>1, <2>2, <2>3, <2>4, <2>5 DEF User
<1>9. CASE SchedulerProcess
  <2>1. CASE SchedSolo \/ SchedMultiPick
    <3>1. Quiet(Scheduler)
      BY <1>4, <2>1 DEF SchedSolo, SchedMultiPick
    <3>2. QED
      BY <1>9, <2>1, <3>1, InsertsMakeNoWork DEF Inserts, Goal
  <2>2. CASE ~(SchedSolo \/ SchedMultiPick)
    <3>1. UNCHANGED <<job, result, ver, deleted, crashed, enabled, notifyVars>>
      BY <1>9, <2>2 DEF SchedulerProcess, SchedWork, SchedCount, SchedWalk, SchedTickDone,
                        SchedSoloDone, SchedMultiList, SchedNoGroup, SchedWake, SchedRestart
    <3>2. QED
      BY <1>2, <1>7, <3>1 DEF Goal
  <2>3. QED
    BY <2>1, <2>2
<1>10. ASSUME NEW r \in Runners, RunnerProcess(r)
       PROVE  Goal
  <2>0. UNCHANGED <<deleted, enabled>>
    BY <1>10 DEF RunnerProcess
  <2>1. ~RunnerClaims(r) /\ ~RunnerRecord(r)
    BY <1>3 DEF RunnerClaims, RunnerRecord
  <2>2. CASE RunnerFail(r)
    <3>1. UNCHANGED notifyVars
      BY <2>2 DEF RunnerFail
    <3>2. QED
      BY <1>2, <2>0, <2>2, <3>1, FailureIsAnExcuse DEF Goal
  <2>3. CASE RunnerClear(r)
    <3>1. Quiet(Scheduler)
      BY <1>1, <1>5, <2>3 DEF RunnerClear
    <3>2. QED
      BY <1>7, <2>0, <2>3, <3>1 DEF RunnerClear, Goal
  <2>4. ASSUME NEW s \in 1 .. MaxSeats, Quarantine(r, s) PROVE Goal
    <3>1. UNCHANGED <<job, result, ver, notifyVars>> /\ \A p \in Projects : crashed[p] => crashed'[p]
      BY <2>4 DEF Quarantine
    <3>2. QED
      BY <1>2, <2>0, <3>1, SameWork DEF Goal
  <2>5. CASE \/ RunnerPicks(r, {}) \/ RunnerFindsNothing(r, {}) \/ RunnerDispatch(r) \/ MatchSucceeds(r)
             \/ RunnerRecordRefused(r) \/ RunnerWake(r) \/ RunnerRestart(r)
    <3>1. UNCHANGED <<job, result, ver, crashed, notifyVars>>
      BY <2>5 DEF RunnerPicks, RunnerFindsNothing, RunnerDispatch, MatchSucceeds, RunnerRecordRefused,
                  RunnerWake, RunnerRestart
    <3>2. QED
      BY <1>2, <1>7, <2>0, <3>1 DEF Goal
  <2>6. QED
    BY <1>10, <2>1, <2>2, <2>3, <2>4, <2>5 DEF RunnerProcess, RunnerWork
<1>11. ASSUME NEW r \in Runners, MatchGoesWrong(r)
       PROVE  Goal
  BY <1>2, <1>7, <1>11 DEF MatchGoesWrong, MatchFails, SeatsDropOut, Goal
<1>12. ASSUME NEW d \in Daemons, ListenerReceives(d) \/ ListenerConnects(d) \/ ListenerDrops(d)
       PROVE  Goal
  <2>1. NoNewWork
    BY <1>7, <1>12 DEF ListenerReceives, ListenerConnects, ListenerDrops
  <2>2. d # Scheduler
    BY <1>6, <1>12 DEF ListenerReceives, ListenerConnects, ListenerDrops
  <2>3. QED
    BY <1>5, <1>12, <2>1, <2>2 DEF ListenerReceives, ListenerConnects, ListenerDrops, Goal
<1>13. CASE Crash
  <2>1. ~SchedCrash
    BY <1>1 DEF SchedCrash, Vanish, Quiet, NotifyTypeOK
  <2>2. PICK r \in Runners : RunnerCrash(r) /\ UNCHANGED <<deleted, enabled>>
    BY <1>13, <2>1 DEF Crash
  <2>3. Quiet(Scheduler)
    BY <1>1, <1>5, <2>2 DEF RunnerCrash
  <2>4. QED
    BY <1>7, <2>2, <2>3 DEF RunnerCrash, Goal
<1>14. CASE Escape \/ PassOver
  BY <1>2, <1>7, <1>14
     DEF Escape, SchedTickFails, RunnerIterationFails, PassOver, RunnerPicks, RunnerFindsNothing, Goal
<1>15. CASE UNCHANGED vars
  BY <1>2, <1>7, <1>15 DEF vars, notifyVars, Goal
<1>16. QED
  BY <1>8, <1>9, <1>10, <1>11, <1>12, <1>13, <1>14, <1>15 DEF Next

LEMMA ModesAreKnown ==
  ASSUME IInv
  PROVE  /\ sched \in SchedState
         /\ sched.todo \subseteq Modes
         /\ sched.pc \in {"solo", "multi", "pick"} => sched.mode \in Modes
  BY DEF IInv, TypeOK, SchedState, ModeChosen

LEMMA BusyModeRests ==
  ASSUME NEW m, Queued(m) # {}
  PROVE  Rested(m)
  BY DEF Rested, Due

\* A step of somebody else.
LEMMA ProgressStays ==
  ASSUME IInv, Progress, NoNewWork, UNCHANGED sched
  PROVE  Progress'
<1>1. /\ sched.todo \subseteq Modes
      /\ sched.pc \in {"solo", "multi", "pick"} => sched.mode \in Modes
  BY ModesAreKnown
<1>2. \A m \in Modes : (Rested(m) => Rested(m)') /\ (Queued(m) # {} => Queued(m)' # {})
  BY DEF NoNewWork
<1>3. sched.pc \in {"walk", "solo", "multi", "pick"} =>
        \A m \in sched.todo : sched.snap[m] > 0 => Queued(m)' # {}
  BY <1>1, <1>2 DEF Progress
<1>4. QED
  BY <1>1, <1>2, <1>3 DEF Progress

LEMMA WalkMakesProgress ==
  ASSUME IInv, Progress, NoNewWork, NEW m \in Modes, SchedWalk(m), UNCHANGED <<result, ver, crashed>>
  PROVE  Progress'
<1>0. /\ sched \in SchedState /\ sched.todo \subseteq Modes
      /\ sched.pc = "walk" /\ m \in sched.todo
  BY ModesAreKnown DEF SchedWalk
<1>1. \A k \in Modes \ sched.todo : Rested(k)'
  BY <1>0 DEF Progress, NoNewWork
<1>2. \A k \in sched.todo : sched.snap[k] > 0 => Queued(k)' # {}
  BY <1>0 DEF Progress, NoNewWork
<1>3. UNCHANGED <<job, result, ver, crashed, enabled>>
  BY DEF SchedWalk
<1>4. Capacity(m) \in Int /\ (Capacity(m) <= 0 => sched.snap[m] > 0)
  <2>1. sched.snap[m] \in Nat
    BY <1>0 DEF SchedState
  <2>2. QED
    BY <2>1, QueueCapAssumption DEF Capacity
<1>5. sched'.snap = sched.snap /\ sched'.todo = sched.todo \ {m}
  <2>1. CASE Capacity(m) <= 0
    BY <1>0, <2>1 DEF SchedWalk, SchedState
  <2>2. CASE ~(Capacity(m) <= 0)
    BY <1>0, <2>2 DEF SchedWalk, SchedState
  <2>3. QED
    BY <2>1, <2>2
<1>6. CASE Capacity(m) <= 0
  <2>1. sched'.pc = "walk"
    BY <1>0, <1>6 DEF SchedWalk, SchedState
  <2>2. Rested(m)'
    BY <1>0, <1>2, <1>4, <1>6 DEF Rested, Due
  <2>3. QED
    BY <1>1, <1>2, <1>5, <2>1, <2>2 DEF Progress
<1>7. CASE ~(Capacity(m) <= 0) /\ Solo(m)
  <2>1. /\ sched'.pc = "solo" /\ sched'.mode = m /\ sched'.room = Capacity(m)
        /\ sched'.plan = {CurrentRef(p) : p \in Underplayed(m)}
    BY <1>0, <1>7 DEF SchedWalk, SchedState
  <2>2. Rested(m)' \/ sched'.plan # {}
    <3>1. Underplayed(m)' = Underplayed(m)
      BY <1>3 DEF Underplayed, Eligible, Submitted, Counted, Appearances, Played, InFlight, SeatOf, Solo
    <3>2. QED
      BY <2>1, <3>1 DEF Rested, Due
  <2>3. QED
    BY <1>1, <1>2, <1>4, <1>5, <1>7, <2>1, <2>2 DEF Progress
<1>8. CASE ~(Capacity(m) <= 0) /\ ~Solo(m)
  <2>1. sched'.pc = "multi" /\ sched'.mode = m /\ sched'.room = Capacity(m)
    BY <1>0, <1>8 DEF SchedWalk, SchedState
  <2>2. QED
    BY <1>1, <1>2, <1>4, <1>5, <1>8, <2>1 DEF Progress
<1>9. QED
  BY <1>6, <1>7, <1>8

\* pick_match_group finds no group only when the mode has too few versions
\* for any of them to be due.
LEMMA NoGroupMeansNoWork ==
  ASSUME IInv, SupplyInv, SchedNoGroup
  PROVE  Rested(sched.mode)
<1>1. /\ sched.mode \in Modes /\ sched.plan \in SUBSET Ref /\ sched.tally \in [Projects -> Nat]
      /\ sched.pc = "pick" /\ sched.plan # {} /\ ~Solo(sched.mode)
  BY ModesAreKnown DEF SchedNoGroup, SupplyInv, PlansFitMode, SchedState
<1>2. ~(Cardinality(Submitted) >= Seats[sched.mode])
  BY <1>1, GroupsExist DEF SchedNoGroup
<1>3. ~(Cardinality(Eligible) >= Seats[sched.mode])
  BY <1>1, <1>2, EligibleFinite, TargetsAreNats
<1>4. Underplayed(sched.mode) = {}
  BY <1>1, <1>3 DEF Underplayed
<1>5. QED
  BY <1>4 DEF Rested, Due

\* The mode at hand is done with: on to the next.
LEMMA NextModeMakesProgress ==
  ASSUME IInv, Progress, NoNewWork, sched.pc \in {"solo", "multi", "pick"}, Rested(sched.mode),
         sched' = NextMode(sched)
  PROVE  Progress'
<1>1. /\ sched.todo \subseteq Modes /\ sched.mode \in Modes
      /\ \A m \in Modes : (Rested(m) => Rested(m)') /\ (Queued(m) # {} => Queued(m)' # {})
  BY ModesAreKnown DEF NoNewWork
<1>2. sched'.pc = "walk" /\ sched'.todo = sched.todo /\ sched'.snap = sched.snap
  BY DEF NextMode
<1>3. \A m \in Modes \ sched.todo : Rested(m)'
  BY <1>1 DEF Progress
<1>4. \A m \in sched.todo : sched.snap[m] > 0 => Queued(m)' # {}
  BY <1>1 DEF Progress
<1>5. QED
  BY <1>2, <1>3, <1>4 DEF Progress

LEMMA InsertsMakeProgress ==
  ASSUME IInv, SupplyInv, Progress, Inserts
  PROVE  Progress'
<1>0. /\ sched \in SchedState /\ sched.todo \subseteq Modes /\ sched.mode \in Modes
      /\ sched.pc \in {"solo", "pick"}
  BY ModesAreKnown DEF Inserts, SchedSolo, SchedMultiPick
<1>1. /\ sched'.pc \in {"solo", "multi"} /\ sched'.todo = sched.todo
      /\ sched'.mode = sched.mode /\ sched'.snap = sched.snap
  BY <1>0 DEF Inserts, SchedSolo, SchedMultiPick, SchedState
<1>2. \A m \in Modes :
        /\ Rested(m) => Rested(m)'
        /\ Queued(m) # {} => Queued(m)' # {}
        /\ m = sched.mode => Queued(m)' # {}
  BY InsertsMakeNoWork DEF NoNewWork
<1>3. \A m \in Modes : m = sched.mode => Rested(m)'
  BY <1>2 DEF Rested, Due
<1>4. \A m \in Modes \ (sched.todo \union {sched.mode}) : Rested(m)'
  BY <1>0, <1>2 DEF Progress
<1>5. \A m \in sched.todo : sched.snap[m] > 0 => Queued(m)' # {}
  BY <1>0, <1>2 DEF Progress
<1>6. QED
  BY <1>0, <1>1, <1>3, <1>4, <1>5 DEF Progress

LEMMA TickKept ==
  ASSUME IInv, SupplyInv, TickInv, [Next]_vars, "escape" \notin Events
  PROVE  TickInv'
<1> SUFFICES ASSUME Quiet(Scheduler)' PROVE Progress'
  BY DEF TickInv
<1>0. sched \in SchedState
  BY ModesAreKnown
<1>1. ASSUME sched'.pc \in {"down", "clear", "count"} PROVE Progress'
  BY <1>1 DEF Progress
<1>2. CASE SchedClear
  BY <1>1, <1>2 DEF SchedClear, SchedRest
<1>3. CASE ~SchedClear
  <2>1. Progress /\ NoNewWork
    BY <1>3, NoNewsIsGoodNews DEF TickInv
  <2>2. \A m \in Modes : (Rested(m) => Rested(m)') /\ (Queued(m) # {} => Queued(m)' # {})
    BY <2>1 DEF NoNewWork
  <2>3. ASSUME UNCHANGED sched PROVE Progress'
    BY <2>1, <2>3, ProgressStays
  <2>4. CASE SchedulerProcess
    <3>1. UNCHANGED <<result, ver, crashed>>
      BY <2>4 DEF SchedulerProcess, projectVars
    <3>2. CASE SchedCount
      <4>1. /\ sched'.pc = "walk" /\ sched'.todo = enabled
            /\ \A m \in Modes : sched'.snap[m] = Cardinality(Queued(m))
        BY <1>0, <3>2 DEF SchedCount, SchedState
      <4>2. UNCHANGED <<enabled, job>> /\ enabled \subseteq Modes
        BY <3>2 DEF SchedCount, IInv, TypeOK
      <4>3. \A m \in Modes : Queued(m)' = Queued(m)
        BY <4>2 DEF Queued, WithStatus
      <4>4. \A m \in Modes \ enabled : Rested(m)'
        BY <4>2 DEF Rested, Due
      <4>5. \A m \in Modes : Cardinality(Queued(m)) > 0 => Queued(m) # {}
        BY FS_EmptySet
      <4>6. QED
        BY <4>1, <4>2, <4>3, <4>4, <4>5 DEF Progress
    <3>3. ASSUME NEW m \in Modes, SchedWalk(m) PROVE Progress'
      BY <2>1, <3>1, <3>3, WalkMakesProgress
    <3>4. CASE SchedTickDone
      <4>1. sched'.pc = "sleep" /\ \A m \in Modes : Rested(m)
        BY <2>1, <3>4 DEF SchedTickDone, SchedRest, Progress
      <4>2. QED
        BY <2>2, <4>1 DEF Progress
    <3>5. CASE SchedSolo \/ SchedMultiPick
      BY <2>1, <2>4, <3>5, InsertsMakeProgress DEF Inserts
    <3>6. CASE SchedSoloDone
      <4>1. sched.pc = "solo" /\ Rested(sched.mode) /\ sched' = NextMode(sched)
        BY <1>0, <2>1, <3>6 DEF SchedSoloDone, Progress, SchedState
      <4>2. QED
        BY <2>1, <4>1, NextModeMakesProgress
    <3>7. CASE SchedMultiList
      <4>1. sched.pc = "multi"
        BY <3>7 DEF SchedMultiList
      <4>2. CASE sched.room <= 0 \/ Underplayed(sched.mode) = {}
        <5>1. Rested(sched.mode)
          BY <1>0, <2>1, <4>1, <4>2 DEF Progress, SchedState, Rested, Due
        <5>2. QED
          BY <2>1, <3>7, <4>1, <4>2, <5>1, NextModeMakesProgress DEF SchedMultiList
      <4>3. CASE ~(sched.room <= 0 \/ Underplayed(sched.mode) = {})
        <5>1. /\ sched'.pc = "pick" /\ sched'.todo = sched.todo /\ sched'.mode = sched.mode
              /\ sched'.snap = sched.snap
          BY <1>0, <3>7, <4>3 DEF SchedMultiList, SchedState
        <5>2. sched.todo \subseteq Modes
          BY ModesAreKnown
        <5>3. \A m \in sched.todo : sched.snap[m] > 0 => Queued(m)' # {}
          BY <2>1, <2>2, <4>1, <5>2 DEF Progress
        <5>4. \A m \in Modes \ (sched.todo \union {sched.mode}) : Rested(m)'
          BY <2>1, <2>2, <4>1 DEF Progress
        <5>5. QED
          BY <5>1, <5>3, <5>4 DEF Progress
      <4>4. QED
        BY <4>2, <4>3
    <3>8. CASE SchedNoGroup
      BY <2>1, <3>8, NoGroupMeansNoWork, NextModeMakesProgress DEF SchedNoGroup
    <3>9. CASE SchedWake \/ SchedRestart
      BY <1>1, <3>9 DEF SchedWake, SchedRestart, SchedRest
    <3>10. QED
      BY <1>3, <2>4, <3>2, <3>3, <3>4, <3>5, <3>6, <3>7, <3>8, <3>9 DEF SchedulerProcess, SchedWork
  <2>5. CASE Crash
    BY <1>1, <2>3, <2>5 DEF Crash, SchedCrash, SchedRest
  <2>6. CASE User
    BY <2>3, <2>6 DEF User, Submit, Delete, EraseUser, CancelQueued, DisableMode, EnableMode
  <2>7. ASSUME NEW r \in Runners, RunnerProcess(r) \/ MatchGoesWrong(r) PROVE Progress'
    BY <2>3, <2>7 DEF RunnerProcess, MatchGoesWrong
  <2>8. CASE \E d \in Daemons : ListenerReceives(d) \/ ListenerConnects(d) \/ ListenerDrops(d)
    BY <2>3, <2>8 DEF ListenerReceives, ListenerConnects, ListenerDrops
  <2>9. CASE UNCHANGED vars \/ PassOver
    BY <2>3, <2>9 DEF vars, PassOver, RunnerPicks, RunnerFindsNothing
  <2>10. QED
    BY <2>4, <2>5, <2>6, <2>7, <2>8, <2>9 DEF Next, Escape
<1>4. QED
  BY <1>2, <1>3

\* As long as no tick ends in an exception, work is left lying by a scheduler
\* at rest only in a mode with a job that failed or was cancelled with a player
\* that was erased: whatever else makes a version due (a submission, a match
\* that is over, a cancelled queued job, a mode switched on) sends news, however
\* the news and the tick overlap, and a tick that ends by itself left nothing
\* due behind it.
THEOREM DueWorkNeedsAnExcuse ==
  "escape" \notin Events => (Spec => []DueWorkIsLeftOnlyByFailure)
<1> SUFFICES ASSUME "escape" \notin Events
             PROVE  Spec => []DueWorkIsLeftOnlyByFailure
  OBVIOUS
<1>1. Init => TickInv
  BY DEF Init, SchedInit, SchedRest, TickInv, Progress
<1>2. IInv /\ SupplyInv /\ TickInv /\ [Next]_vars => TickInv'
  BY TickKept
<1>3. TickInv => DueWorkIsLeftOnlyByFailure
  BY DEF TickInv, Progress, Rested, Excused, Excuses, DueWorkIsLeftOnlyByFailure
<1>4. QED
  BY <1>1, <1>2, <1>3, Invariance, SupplyHolds, PTL DEF Spec

\* No job fails and no project goes.
AllIsWell ==
  /\ deleted = {}
  /\ WithStatus("failure") = {}
  /\ \A r \in Runners : runner[r].pc \notin {"blame", "fail"}

LEMMA AllStaysWell ==
  ASSUME IInv, SupplyInv, AllIsWell, [Next]_vars, {"fail", "initfail", "delete", "erase"} \cap Events = {}
  PROVE  AllIsWell'
<1>0. runner \in [Runners -> RunnerState]
  BY DEF IInv, TypeOK
<1>1. ASSUME ~(\E r \in Runners : RunnerFail(r))
      PROVE  WithStatus("failure")' = {}
  <2>1. CASE Inserts
    <3>1. PICK j \in JobIds, who \in Seating :
            job' = [job EXCEPT ![j] = [status |-> "queued", mode |-> sched.mode, who |-> who]]
      BY <2>1, InsertShape
    <3>2. \A k \in JobIds : job'[k].status \in {job[k].status, "queued"}
      BY <3>1 DEF IInv, TypeOK
    <3>3. QED
      BY <3>2 DEF AllIsWell, WithStatus
  <2>2. ASSUME NEW j \in JobIds, NEW st, st # "failure", job' = [job EXCEPT ![j].status = st]
        PROVE  WithStatus("failure")' = {}
    <3>1. \A k \in JobIds : job'[k].status \in {job[k].status, st}
      BY <2>2 DEF IInv, TypeOK, JobRow
    <3>2. QED
      BY <2>2, <3>1 DEF AllIsWell, WithStatus
  <2>3. CASE User
    <3>1. ASSUME NEW j \in JobIds, CancelQueued(j) PROVE WithStatus("failure")' = {}
      BY <2>2, <3>1 DEF CancelQueued, Cancel
    <3>2. ASSUME UNCHANGED job PROVE WithStatus("failure")' = {}
      BY <3>2 DEF AllIsWell, WithStatus
    <3>3. QED
      BY <2>3, <3>1, <3>2 DEF User, Submit, Delete, EraseUser, DisableMode, EnableMode
  <2>4. CASE SchedulerProcess
    <3>1. CASE SchedSolo \/ SchedMultiPick
      BY <2>1, <2>4, <3>1 DEF Inserts
    <3>2. CASE ~(SchedSolo \/ SchedMultiPick)
      BY <2>4, <3>2 DEF AllIsWell, WithStatus, SchedulerProcess, SchedWork, SchedClear, SchedCount,
         SchedWalk, SchedTickDone, SchedSoloDone, SchedMultiList, SchedNoGroup, SchedWake, SchedRestart
    <3>3. QED
      BY <3>1, <3>2
  <2>5. ASSUME NEW r \in Runners, RunnerProcess(r)
        PROVE  WithStatus("failure")' = {}
    <3>1. CASE RunnerClaims(r)
      BY <2>2, <3>1, RowInHand DEF RunnerClaims, Claim, Idle
    <3>2. CASE RunnerRecord(r)
      BY <2>2, <3>2, RowInHand DEF RunnerRecord, MarkSuccess, Idle
    <3>3. CASE ~(RunnerClaims(r) \/ RunnerRecord(r))
      BY <1>1, <2>5, <3>3 DEF AllIsWell, WithStatus, RunnerProcess, RunnerWork, RunnerClear,
         RunnerPicks, RunnerFindsNothing, RunnerDispatch, MatchSucceeds, Quarantine, RunnerRecordRefused,
         RunnerWake, RunnerRestart
    <3>4. QED
      BY <3>1, <3>2, <3>3
  <2>6. CASE ~User /\ ~SchedulerProcess /\ ~(\E r \in Runners : RunnerProcess(r))
    BY <2>6 DEF AllIsWell, WithStatus, Next, MatchGoesWrong, 
         ListenerReceives, ListenerConnects, ListenerDrops, Crash, SchedCrash, RunnerCrash,
         Escape, SchedTickFails, RunnerIterationFails, PassOver, RunnerPicks, RunnerFindsNothing, vars
  <2>7. QED
    BY <2>3, <2>4, <2>5, <2>6
<1>2. ASSUME NEW r \in Runners, RunnerProcess(r)
      PROVE  \A q \in Runners : runner'[q].pc \notin {"blame", "fail"}
  <2>1. ASSUME NEW new, runner' = [runner EXCEPT ![r] = new], new.pc \notin {"blame", "fail"}
        PROVE  \A q \in Runners : runner'[q].pc \notin {"blame", "fail"}
    BY <1>0, <2>1 DEF AllIsWell
  <2>2. CASE RunnerDispatch(r)
    <3>1. runner[r].job \in JobIds
      BY <2>2, RowInHand DEF RunnerDispatch, Idle
    <3>2. \A s \in DOMAIN Who(r) : Who(r)[s] \in Submitted
      BY <3>1 DEF Who, SupplyInv, SeatedHaveSubmitted, AllIsWell
    <3>3. runner' = [runner EXCEPT ![r].pc = "playing",
                       ![r].roster = [s \in DOMAIN Who(r) |-> ver[Who(r)[s]]]]
      BY <2>2, <3>2 DEF RunnerDispatch
    <3>4. \A q \in Runners : runner'[q].pc \in {runner[q].pc, "playing"}
      BY <1>0, <3>3 DEF RunnerState
    <3>5. QED
      BY <3>4 DEF AllIsWell
  <2>3. CASE \/ RunnerClear(r) \/ RunnerFindsNothing(r, {}) \/ RunnerRecord(r) \/ RunnerWake(r)
             \/ RunnerRestart(r)
    BY <2>1, <2>3 DEF RunnerClear, RunnerFindsNothing, RunnerRecord, RunnerWake, RunnerRestart, RunnerRest
  <2>4. CASE RunnerPicks(r, {}) \/ RunnerClaims(r) \/ MatchSucceeds(r)
    <3>1. \A q \in Runners : runner'[q].pc \in {runner[q].pc, "commit", "dispatch", "record"}
      BY <1>0, <2>4 DEF RunnerPicks, RunnerClaims, MatchSucceeds, RunnerState
    <3>2. QED
      BY <3>1 DEF AllIsWell
  <2>5. ~RunnerFail(r) /\ ~RunnerRecordRefused(r) /\ ~(\E s \in 1 .. MaxSeats : Quarantine(r, s))
    BY DEF RunnerFail, RunnerRecordRefused, SomebodyIsGone, Quarantine, AllIsWell
  <2>6. QED
    BY <1>2, <2>2, <2>3, <2>4, <2>5 DEF RunnerProcess, RunnerWork
<1>3. \A r \in Runners : ~RunnerFail(r)
  BY DEF RunnerFail, AllIsWell
<1>4. \A r \in Runners : runner'[r].pc \notin {"blame", "fail"}
  <2>1. ASSUME UNCHANGED runner PROVE \A r \in Runners : runner'[r].pc \notin {"blame", "fail"}
    BY <2>1 DEF AllIsWell
  <2>2. CASE User \/ SchedulerProcess
    BY <2>1, <2>2 DEF User, Submit, Delete, EraseUser, CancelQueued, DisableMode, EnableMode, SchedulerProcess
  <2>3. ASSUME NEW r \in Runners, RunnerCrash(r) \/ RunnerIterationFails(r)
        PROVE  \A q \in Runners : runner'[q].pc \notin {"blame", "fail"}
    BY <1>0, <2>3 DEF RunnerCrash, RunnerIterationFails, RunnerRest, AllIsWell
  <2>4. CASE Crash \/ Escape
    BY <2>1, <2>3, <2>4 DEF Crash, Escape
  <2>5. CASE PassOver
    <3>1. PICK r \in Runners, held \in SUBSET JobIds :
            RunnerPicks(r, held) \/ RunnerFindsNothing(r, held)
      BY <2>5 DEF PassOver
    <3>2. \A q \in Runners : runner'[q].pc \in {runner[q].pc, "commit", "sleep"}
      <4>1. CASE RunnerPicks(r, held)
        BY <1>0, <4>1 DEF RunnerPicks, RunnerState
      <4>2. CASE RunnerFindsNothing(r, held)
        BY <1>0, <4>2 DEF RunnerFindsNothing, RunnerRest
      <4>3. QED
        BY <3>1, <4>1, <4>2
    <3>3. QED
      BY <3>2 DEF AllIsWell
  <2>6. CASE \E d \in Daemons : ListenerReceives(d) \/ ListenerConnects(d) \/ ListenerDrops(d)
    BY <2>1, <2>6 DEF ListenerReceives, ListenerConnects, ListenerDrops
  <2>7. ~(\E r \in Runners : MatchGoesWrong(r))
    BY DEF MatchGoesWrong
  <2>8. CASE UNCHANGED vars
    BY <2>1, <2>8 DEF vars
  <2>9. QED
    BY <1>2, <2>2, <2>4, <2>5, <2>6, <2>7, <2>8 DEF Next
<1>5. deleted' = {}
  BY DEF AllIsWell, Next, User, Submit, Delete, EraseUser, CancelQueued, DisableMode, EnableMode, projectVars,
     SchedulerProcess, RunnerProcess, MatchGoesWrong, ListenerReceives, ListenerConnects,
     ListenerDrops, Crash, Escape, PassOver, vars
<1>6. QED
  BY <1>1, <1>3, <1>4, <1>5 DEF AllIsWell

\* Where no match fails, no project or user is deleted and no tick ends in an
\* exception, the scheduler is never at rest with work due and no news of it:
\* no wakeup is lost, whatever crashes, reconnects, cancels and mode switches
\* come in between.
THEOREM NoWakeupIsLost ==
  {"escape", "fail", "initfail", "delete", "erase"} \cap Events = {} =>
    (Spec => []SchedulerSleepsOnlyWhenNothingIsDue)
<1> SUFFICES ASSUME {"escape", "fail", "initfail", "delete", "erase"} \cap Events = {}
             PROVE  Spec => []SchedulerSleepsOnlyWhenNothingIsDue
  OBVIOUS
<1>1. "escape" \notin Events /\ {"fail", "initfail", "delete", "erase"} \cap Events = {}
  OBVIOUS
<1>2. Init => AllIsWell
  BY DEF Init, JobsInit, RunnerInit, RunnerRest, AllIsWell, WithStatus
<1>3. IInv /\ SupplyInv /\ AllIsWell /\ [Next]_vars => AllIsWell'
  BY <1>1, AllStaysWell
<1>4. AllIsWell /\ DueWorkIsLeftOnlyByFailure => SchedulerSleepsOnlyWhenNothingIsDue
  BY DEF AllIsWell, Void, Involving, DueWorkIsLeftOnlyByFailure, SchedulerSleepsOnlyWhenNothingIsDue
<1>5. Spec => []DueWorkIsLeftOnlyByFailure
  BY <1>1, DueWorkNeedsAnExcuse
<1>6. QED
  BY <1>2, <1>3, <1>4, <1>5, Invariance, SupplyHolds, PTL DEF Spec
=============================================================================
