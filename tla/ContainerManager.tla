--------------------------- MODULE ContainerManager --------------------------
(***************************************************************************)
(* AgentContainerManager (runner/agent_container_manager.py): the budgets  *)
(* of a match's agents, enforced by a poll thread and by the observer      *)
(* callbacks that the delivery thread makes.  Time and CPU pass in ticks;  *)
(* the sustained banks are left to choice.                                 *)
(***************************************************************************)
EXTENDS SimRun

CONSTANTS
  PerStepCpu,    \* per_step_cpu_budget
  PerStepWall,   \* per_step_wall_budget
  MaxWall        \* bound: the poll thread is not later than this in a step

ASSUME BudgetAssumption ==
  PerStepCpu \in Nat /\ PerStepWall \in Nat /\ MaxWall \in Nat

VARIABLES
  tracker,    \* _AgentTracker of each seat, once there are trackers
  poller,     \* the poll thread
  delivery,   \* the SocketObservable's thread, which calls the observers
  timed,      \* the seats in _exec_times_ms
  spared,     \* ghost: the seats whose kill docker refused
  blind       \* ghost: whether an unreadable container raised in a thread

managerVars == <<tracker, poller, delivery, timed, spared, blind>>

BudgetReasons == {"per_step", "wall_clock", "sustained", "sustained_wall", "startup_cpu"}
Reasons == BudgetReasons \union {"init_failure", "dead"}

NewTracker == [reason |-> "none", startup |-> TRUE, known |-> FALSE, responded |-> FALSE,
               cpu |-> 0, wall |-> 0]

TrackerState ==
  [reason : {"none"} \union Reasons, startup : BOOLEAN, known : BOOLEAN,
   responded : BOOLEAN, cpu : 0 .. MaxWall, wall : 0 .. MaxWall]

ManagerInit ==
  /\ tracker = [s \in Seats |-> NewTracker]
  /\ poller = "off" /\ delivery = "off"
  /\ timed = {} /\ spared = {} /\ blind = FALSE

Killed(s) == tracker[s].reason # "none"

Shot(s, reason) == [NewTracker EXCEPT !.reason = reason, !.known = tracker[s].known,
                                      !.startup = FALSE]

\* _read_cpu_ns raises for a container whose cgroup is gone; so a loop over
\* seats gets no further than the first such seat it reads.
Unreadable(s) == box[s] = "down"
Before(seats) == {s \in Seats : \A t \in seats : Unreadable(t) => s < t}

\* _kill_seat, which docker may refuse, over the seats given a reason.
Kill(seats, refused) ==
  /\ refused \subseteq {s \in seats : box[s] = "up"}
  /\ box' = [s \in Seats |-> IF s \in seats \ refused /\ box[s] = "up" THEN "stopping" ELSE box[s]]
  /\ spared' = spared \union refused

\* A tick of the clock while the sim waits for somebody; the seats in burns
\* are on the CPU (more than half of MaxWall makes no difference).  No rule of
\* the poll thread looks at a seat once it has answered, until its window is
\* reset, so that its clock may stand still.
Watched(s) == ~Killed(s) /\ ~tracker[s].startup /\ ~tracker[s].responded

Tick(burns) ==
  /\ sim.pc = "running" /\ sim.thinking # {}
  /\ \A s \in Seats : Watched(s) => tracker[s].wall < MaxWall
  /\ \E s \in Seats : Watched(s)
  /\ burns \subseteq {s \in sim.thinking : Running(s)}
  /\ tracker' = [s \in Seats |->
       IF Watched(s)
       THEN [tracker[s] EXCEPT !.wall = @ + 1,
                               !.cpu = IF s \in burns /\ 2 * @ < MaxWall THEN @ + 1 ELSE @]
       ELSE tracker[s]]
  /\ used' = [s \in Seats |-> IF s \in burns /\ used[s] <= PerStepCpu THEN used[s] + 1 ELSE used[s]]
  /\ UNCHANGED <<box, fit, sim, queue, poller, delivery, timed, spared, blind>>

\* set_agent_containers: baselines, and the poll thread.
InstallTrackers ==
  /\ \A s \in Seats : ~Unreadable(s)
  /\ poller' = "on"
  /\ UNCHANGED <<simVars, tracker, delivery, timed, spared, blind>>

------------------------------------------------------------------------------
(* The poll thread.                                                        *)

Busy(s) == 2 * tracker[s].cpu >= tracker[s].wall

\* Mutant: a reason that the banner and the scoring do not know.
VerdictInOtherWords(s) ==
  IF tracker[s].cpu > PerStepCpu /\ Busy(s) THEN "cpu"
  ELSE IF tracker[s].wall > PerStepWall /\ ~Busy(s) THEN "wall_clock"
  ELSE "none"

\* Mutant: rule 1 alone.
VerdictOnCpu(s) == IF tracker[s].cpu > PerStepCpu /\ Busy(s) THEN "per_step" ELSE "none"

\* Rules 1 and 2.
Verdict(s) ==
  IF tracker[s].cpu > PerStepCpu /\ Busy(s) THEN "per_step"
  ELSE IF tracker[s].wall > PerStepWall /\ ~Busy(s) THEN "wall_clock"
  ELSE "none"

\* One pass of _poll_loop over the trackers; the exception of an unreadable
\* seat ends the thread.
Poll(refused) ==
  /\ poller = "on"
  /\ LET due == {s \in Seats : Watched(s)}
         over == {s \in due \intersect Before(due) : Verdict(s) # "none"}
     IN /\ over # {} \/ \E s \in due : Unreadable(s)
        /\ Kill(over, refused)
        /\ tracker' = [s \in Seats |->
             IF s \in over THEN Shot(s, Verdict(s)) ELSE tracker[s]]
        /\ poller' = IF \E s \in due : Unreadable(s) THEN "dead" ELSE "on"
        /\ blind' = (blind \/ \E s \in due : Unreadable(s))
  /\ UNCHANGED <<fit, sim, queue, used, delivery, timed>>

------------------------------------------------------------------------------
(* The observer callbacks.                                                 *)

Delivers(kind) ==
  /\ delivery = "on"
  /\ queue # <<>> /\ Head(queue).kind = kind
  /\ queue' = Tail(queue)

\* What the delivery thread makes of an exception is up to snake_sim.
Survives(raised) ==
  /\ delivery' \in IF raised THEN {"on", "dead"} ELSE {"on"}
  /\ blind' = (blind \/ raised)

\* Mutant: the seats that are not active are all taken for absent ones.
AbsentOrKilled(active, heavy) == Seats \ active

\* The seats that the sim dropped: neither active nor killed in this call.
Absent(active, heavy) == {s \in Seats \ (active \union heavy) : ~Killed(s)}

\* notify_start.  heavy: the seats over the startup budget.
NotifyStart(heavy, refused) ==
  /\ Delivers("start")
  /\ LET tags == Head(queue).seats
         seen == tags \intersect Before(tags)
         raised == seen # tags
         active == seen \ heavy
         absent == IF raised THEN {} ELSE Absent(active, heavy)
     IN /\ heavy \subseteq seen
        /\ Kill(heavy \union absent, refused)
        /\ tracker' = [s \in Seats |->
             IF s \in absent THEN Shot(s, "init_failure")
             ELSE IF s \in heavy THEN Shot(s, "startup_cpu")
             ELSE IF s \in active THEN [NewTracker EXCEPT !.startup = FALSE, !.known = TRUE]
             ELSE tracker[s]]
        /\ poller' = IF poller = "dead" /\ ~raised THEN "on" ELSE poller
        /\ Survives(raised)
  /\ timed' = {}
  /\ UNCHANGED <<fit, sim, used>>

\* notify_decision
NotifyDecision ==
  /\ Delivers("decision")
  /\ tracker' = [s \in Seats |->
       IF s \in Head(queue).seats /\ tracker[s].known /\ ~Killed(s)
       THEN [tracker[s] EXCEPT !.responded = TRUE] ELSE tracker[s]]
  /\ UNCHANGED <<box, fit, sim, used, poller, delivery, timed, spared, blind>>

\* Mutant: the CPU window is not reset with the wall window.
StepClosedButCpu(t) == [t EXCEPT !.wall = 0, !.responded = FALSE]

\* The reset for the next cycle.
StepClosed(t) == [t EXCEPT !.cpu = 0, !.wall = 0, !.responded = FALSE]

\* Mutant: a seat killed earlier is looked at again.
AnySeat == Seats

Unkilled == {s \in Seats : ~Killed(s)}

\* Mutant: times are recorded only for the seats that stay within their banks.
TimedIfInBudget(seen, over) == timed \union (seen \ over)

\* The seats of this step are in the time series, and so are those it kills.
Timed(seen, over) == timed \union seen

\* notify_step: of the seats not killed, those in broke[reason] overdrew a
\* bank; of the others those whose snake is dead are killed for that.
NotifyStep(broke, wallBroke, refused) ==
  /\ Delivers("step")
  /\ LET seen == Unkilled \intersect Before(Unkilled)
         dead == {s \in seen \ (broke \union wallBroke) :
                    tracker[s].known /\ s \notin Head(queue).seats}
     IN /\ broke \subseteq seen /\ wallBroke \subseteq seen \ broke
        /\ Kill(broke \union wallBroke \union dead, refused)
        /\ tracker' = [s \in Seats |->
             IF s \in broke THEN Shot(s, "sustained")
             ELSE IF s \in wallBroke THEN Shot(s, "sustained_wall")
             ELSE IF s \in dead THEN Shot(s, "dead")
             ELSE IF s \in seen THEN StepClosed(tracker[s])
             ELSE tracker[s]]
        /\ timed' = Timed(seen, broke \union wallBroke)
        /\ Survives(seen # Unkilled)
  /\ UNCHANGED <<fit, sim, used, poller>>

\* notify_stop
NotifyStop ==
  /\ Delivers("stop")
  /\ poller' = IF poller = "on" THEN "off" ELSE poller
  /\ UNCHANGED <<box, fit, sim, used, tracker, delivery, timed, spared, blind>>
=============================================================================
