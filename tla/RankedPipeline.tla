---------------------------- MODULE RankedPipeline ---------------------------
(***************************************************************************)
(* The ranked side of the arena: users submit versions, the scheduler      *)
(* keeps every version supplied with matches, the runners play them, and   *)
(* Postgres notifications wake the daemons.  This module composes the      *)
(* scheduler, the runners, the API calls and the environment, and states   *)
(* what the pipeline as a whole must do.                                   *)
(***************************************************************************)
EXTENDS Scheduler, Runner

CONSTANT Events  \* which things the environment of an instance may do

ASSUME EventsAssumption ==
  Events \subseteq
    {"crash", "drop", "fail", "initfail", "escape", "cancel", "delete", "erase", "rollback", "toggle"}

projectVars == <<ver, crashed, deleted>>

vars == <<job, result, projectVars, enabled, sched, runner, notifyVars>>

Init ==
  /\ JobsInit
  /\ NotifyInit
  /\ SchedInit
  /\ RunnerInit
  /\ ver = [p \in Projects |-> 0]
  /\ crashed = [p \in Projects |-> FALSE]
  /\ deleted = {}
  /\ result = [j \in JobIds |-> <<>>]

------------------------------------------------------------------------------
(* The API and the operator's command line.                               *)

\* prune_obsolete_ranked_matches: matches no current version took part in.
Pruned(rows, v) ==
  [j \in JobIds |->
     IF \E s \in DOMAIN rows[j] : rows[j][s] > 0 /\ rows[j][s] = v[job[j].who[s]]
     THEN rows[j] ELSE <<>>]

\* Mutant: the scheduler is not told of the new version.
SubmitQuietly(p) ==
  /\ p \notin deleted
  /\ ver[p] < MaxVersion
  /\ ver' = [ver EXCEPT ![p] = @ + 1]
  /\ crashed' = [crashed EXCEPT ![p] = FALSE]
  /\ result' = Pruned(result, ver')
  /\ UNCHANGED <<job, deleted, enabled, sched, runner, notifyVars>>

\* POST /projects/{id}/submit with a submittable dev build, one transaction:
\* promote_to_submitted, then the prune.  MaxVersion bounds it.
Submit(p) ==
  /\ p \notin deleted
  /\ ver[p] < MaxVersion
  /\ ver' = [ver EXCEPT ![p] = @ + 1]
  /\ crashed' = [crashed EXCEPT ![p] = FALSE]
  /\ result' = Pruned(result, ver')
  /\ NotifyAll({Scheduler})
  /\ UNCHANGED <<job, deleted, enabled, sched, runner, listening, wakeup>>

\* ON DELETE CASCADE: the participants go with their project.
WithoutPlayers(ps) ==
  [j \in JobIds |->
     [s \in DOMAIN result[j] |-> IF job[j].who[s] \in ps THEN 0 ELSE result[j][s]]]

\* DELETE /projects/{id}: participants go with the project, then the prune.
Delete(p) ==
  /\ "delete" \in Events
  /\ p \notin deleted
  /\ deleted' = deleted \union {p}
  /\ ver' = [ver EXCEPT ![p] = 0]
  /\ crashed' = [crashed EXCEPT ![p] = FALSE]
  /\ result' = Pruned(WithoutPlayers({p}), ver')
  /\ UNCHANGED <<job, enabled, sched, runner, notifyVars>>

\* delete_user_by_clerk_id for a user whose projects are ps: matches that were
\* theirs alone go, the jobs they are in are cancelled, and the projects are
\* deleted.  The UPDATE waits for a claim that has one of the rows.  A job that
\* leaves 'queued' wakes the scheduler; one that leaves 'running' does not.
EraseUser(ps) ==
  /\ "erase" \in Events
  /\ ps # {} /\ ps \intersect deleted = {}
  /\ LET theirs == Involving(ps) \intersect (WithStatus("queued") \union WithStatus("running"))
     IN /\ theirs \intersect Locked = {}
        /\ CancelAll(theirs)
        /\ IF theirs \intersect WithStatus("queued") # {}
           THEN NotifyAll({Scheduler}) ELSE UNCHANGED pending
  /\ deleted' = deleted \union ps
  /\ ver' = [p \in Projects |-> IF p \in ps THEN 0 ELSE ver[p]]
  /\ crashed' = [p \in Projects |-> crashed[p] /\ p \notin ps]
  /\ LET rows == WithoutPlayers(ps)
     IN result' = [j \in JobIds |->
          IF rows[j] # result[j] /\ \A s \in DOMAIN rows[j] : rows[j][s] = 0
          THEN <<>> ELSE rows[j]]
  /\ UNCHANGED <<enabled, sched, runner, listening, wakeup>>

\* match_jobs CLI: cancel.  The row leaves 'queued', which wakes the scheduler.
CancelQueued(j) ==
  /\ "cancel" \in Events
  /\ Cancel(j, Locked)
  /\ NotifyAll({Scheduler})
  /\ UNCHANGED <<result, projectVars, enabled, sched, runner, listening, wakeup>>

\* modes CLI: set_mode_enabled.  Only FALSE -> TRUE notifies.
DisableMode(m) ==
  /\ "toggle" \in Events
  /\ m \in enabled
  /\ enabled' = enabled \ {m}
  /\ UNCHANGED <<job, result, projectVars, sched, runner, notifyVars>>

EnableMode(m) ==
  /\ "toggle" \in Events
  /\ m \notin enabled
  /\ enabled' = enabled \union {m}
  /\ NotifyAll({Scheduler})
  /\ UNCHANGED <<job, result, projectVars, sched, runner, listening, wakeup>>

User ==
  \/ \E p \in Projects : Submit(p) \/ Delete(p)
  \/ \E ps \in SUBSET Projects : EraseUser(ps)
  \/ \E j \in JobIds : CancelQueued(j)
  \/ \E m \in Modes : DisableMode(m) \/ EnableMode(m)

------------------------------------------------------------------------------
(* The daemons, their listeners, and what goes wrong.                      *)

SchedulerProcess ==
  SchedWork /\ UNCHANGED <<result, projectVars, runner>>

RunnerProcess(r) ==
  RunnerWork(r) /\ UNCHANGED <<deleted, enabled, sched>>

MatchGoesWrong(r) ==
  /\ \/ "fail" \in Events /\ MatchFails(r)
     \/ "initfail" \in Events
        /\ \E absent, blamed \in SUBSET (1 .. MaxSeats) : SeatsDropOut(r, absent, blamed)
  /\ UNCHANGED <<deleted, enabled, sched>>

Up(d) == IF d = Scheduler THEN sched.pc # "down" ELSE runner[d].pc # "down"

ListenerReceives(d) ==
  Receive(d) /\ UNCHANGED <<job, result, projectVars, enabled, sched, runner>>

ListenerConnects(d) ==
  /\ Up(d)
  /\ Connect(d)
  /\ UNCHANGED <<job, result, projectVars, enabled, sched, runner>>

ListenerDrops(d) ==
  /\ "drop" \in Events
  /\ Disconnect(d)
  /\ UNCHANGED <<job, result, projectVars, enabled, sched, runner>>

Crash ==
  /\ "crash" \in Events
  /\ \/ SchedCrash /\ UNCHANGED <<result, projectVars, runner>>
     \/ \E r \in Runners : RunnerCrash(r) /\ UNCHANGED <<deleted, enabled, sched>>

Escape ==
  /\ "escape" \in Events
  /\ \/ SchedTickFails /\ UNCHANGED <<result, projectVars, runner>>
     \/ \E r \in Runners : RunnerIterationFails(r) /\ UNCHANGED <<deleted, enabled, sched>>

\* An erasure or a cancel has locked queued rows and is rolled back: runners
\* that claimed meanwhile passed over these rows, and nobody is told.
PassOver ==
  /\ "rollback" \in Events
  /\ \E r \in Runners, held \in SUBSET JobIds : RunnerPicks(r, held) \/ RunnerFindsNothing(r, held)
  /\ UNCHANGED <<deleted, enabled, sched>>

Next ==
  \/ User
  \/ SchedulerProcess
  \/ \E r \in Runners : RunnerProcess(r) \/ MatchGoesWrong(r)
  \/ \E d \in Daemons : ListenerReceives(d) \/ ListenerConnects(d) \/ ListenerDrops(d)
  \/ Crash
  \/ Escape
  \/ PassOver

Spec == Init /\ [][Next]_vars

\* The main loops and listener threads run whenever they can; users,
\* failures and crashes happen or not.  MatchGoesWrong is left unfair, so a
\* match under way ends.
Fairness ==
  /\ WF_vars(SchedulerProcess)
  /\ \A r \in Runners : WF_vars(RunnerProcess(r))
  /\ \A d \in Daemons : WF_vars(ListenerReceives(d)) /\ WF_vars(ListenerConnects(d))

FairSpec == Spec /\ Fairness

------------------------------------------------------------------------------
(* What must hold.                                                         *)

\* Every variable stays in its type.
TypeOK ==
  /\ job \in [JobIds -> JobRow]
  /\ result \in [JobIds -> Versions \union {<<>>}]
  /\ ver \in [Projects -> 0 .. MaxVersion]
  /\ crashed \in [Projects -> BOOLEAN]
  /\ deleted \subseteq Projects
  /\ enabled \subseteq Modes
  /\ sched \in SchedState
  /\ runner \in [Runners -> RunnerState]
  /\ NotifyTypeOK

\* Jobs that lost a player with a project.
Void == Involving(deleted)

\* Safety of the claim: no two runners hold the same job, and it is 'running',
\* although completion updates never look at the status; it is still 'queued'
\* before the claim commits, and 'cancelled' only when a user in it was erased.
OneOwnerPerJob ==
  \A r \in Runners : Busy(r) =>
    /\ \/ runner[r].job \in WithStatus(IF runner[r].pc = "commit" THEN "queued" ELSE "running")
       \/ runner[r].job \in WithStatus("cancelled") \intersect Void /\ runner[r].pc # "commit"
    /\ \A q \in Runners \ {r} : runner[q].job # runner[r].job

\* The queue of a mode never exceeds per_mode_queue_cap, although the tick
\* counts once and inserts later while claims and cancels go on.
QueueWithinCap == \A m \in Modes : Cardinality(Queued(m)) <= QueueCap

\* In a solo mode no current version is ever given more matches than the
\* target, finished and under way together: the list of underplayed versions
\* is read once per tick and used later, while jobs count for whatever
\* version is current and results land on the version dispatched.
NoOverplay ==
  \A m \in Modes, p \in Submitted :
    Solo(m) => Cardinality(Appearances(m, p)) <= Target[m]

\* The match row and the job status lie only together: a match row belongs to
\* a job that succeeded, has that job's seats (some of them without their
\* participant), and nobody played a version its project never had.
MatchesBackedByJobs ==
  \A j \in JobIds : result[j] # <<>> =>
    /\ job[j].status = "success"
    /\ DOMAIN result[j] = DOMAIN job[j].who
    /\ \A s \in DOMAIN result[j] : result[j][s] <= ver[job[j].who[s]]

\* No churn: a job is inserted only when some version in it still lacks
\* matches in the mode (or went away since the list was read).
JobsOnlyWhenDue ==
  [][\A j \in JobIds :
       job[j].status = "none" /\ job'[j].status = "queued" =>
         \E s \in DOMAIN job'[j].who :
           LET p == job'[j].who[s]
               m == job'[j].mode IN
           p \in deleted \/ Cardinality(Appearances(m, p)) < Target[m]]_vars

\* The table and its runners are a job board: first come first served, one
\* job per runner, nobody but the claimer settles a job, and only one that
\* lost a player is withdrawn over its head.  (Where an erasure or a cancel is
\* rolled back, the rows it had locked were passed over: out of turn.)
Phase == [j \in JobIds |-> job[j].status]
Hand == [r \in Runners |-> runner[r].job]

Board == INSTANCE JobBoard WITH
  Ids <- JobIds, Workers <- Runners, phase <- Phase, hand <- Hand, void <- Void

ImplementsJobBoard == Board!Spec

Quiet(d) == listening[d] /\ ~pending[d] /\ ~wakeup[d]

\* No lost wakeup: while a job is queued, not all the runners are asleep with
\* nothing on its way to them.  One of them may well be: it passed over a row
\* that another had locked, and is not told when that other dies.  (Not so where
\* an erasure or a cancel that had it locked is rolled back.)
QueuedWorkHasARunner ==
  WithStatus("queued") # {} =>
    \E r \in Runners : ~(runner[r].pc = "sleep" /\ Quiet(r))

\* A solo tick inserts one job per version, however far the version is from
\* its target; the claim of that job brings the next tick.  So it is a mode
\* with underplayed versions and nothing queued that needs a tick.
Due(m) ==
  /\ m \in enabled
  /\ Queued(m) = {}
  /\ Underplayed(m) # {}

\* No lost wakeup for the scheduler: asleep with nothing on its way to it, it
\* has no enabled mode with underplayed versions and an empty queue.
SchedulerSleepsOnlyWhenNothingIsDue ==
  sched.pc = "sleep" /\ Quiet(Scheduler) => \A m \in Modes : ~Due(m)

\* What is left of it when matches fail: work can be left lying only in a
\* mode in which a job failed, or was cancelled with a user that was erased.
DueWorkIsLeftOnlyByFailure ==
  sched.pc = "sleep" /\ Quiet(Scheduler) =>
    \A m \in Modes :
      Due(m) => \E j \in WithStatus("failure") \union (WithStatus("cancelled") \intersect Void) :
                  job[j].mode = m

Settled == {"success", "failure", "cancelled"}

\* Every queued job is played or withdrawn in the end.
EveryJobIsSettled ==
  \A j \in JobIds :
    job[j].status = "queued" ~> job[j].status \in Settled

Served(m, p, v) == Cardinality(Played(m, p, v)) >= Target[m]

\* Fairness per version (docs/09): a version that stays current, in a mode
\* that stays enabled with enough opponents, gets its target of matches.
EveryVersionReachesTarget ==
  \A m \in Modes, p \in Projects, v \in 1 .. MaxVersion :
    LET standing == /\ ver[p] = v /\ ~crashed[p] /\ m \in enabled
                    /\ Cardinality(Eligible) >= Seats[m]
    IN standing ~> (Served(m, p, v) \/ ~standing)

\* What mark_submitted_crashed is for: the version flagged is the version
\* that did not come up.
QuarantineHitsTheVersionThatCrashed ==
  [][\A p \in Projects :
       ~crashed[p] /\ crashed'[p] =>
         \E r \in Runners : \E s \in runner[r].blame :
           Who(r)[s] = p /\ runner[r].roster[s] = ver[p]]_vars

\* A quarantined version takes no part in new matches: at least pick_match_group,
\* which reads the submitted versions anew to fill the seats beside the seed,
\* seats none of them.
NoQuarantinedVersionFillsASeat ==
  [][\A j \in JobIds :
       job[j].status = "none" /\ job'[j].status = "queued" =>
         \A s \in DOMAIN job'[j].who \ {1} : ~crashed[job'[j].who[s]]]_vars

\* project_ids holds a project once: nobody plays against itself.
NobodyPlaysItself ==
  \A j \in JobIds : \A s, t \in DOMAIN job[j].who :
    s # t => job[j].who[s] # job[j].who[t]
=============================================================================
