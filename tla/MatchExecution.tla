---------------------------- MODULE MatchExecution ---------------------------
(***************************************************************************)
(* One match of a runner from the daemon's boot to the end of the cleanup: *)
(* the main thread, the poll thread, the delivery thread, the sim and the  *)
(* agents, on a docker host with other daemons, and what can go wrong.     *)
(***************************************************************************)
EXTENDS MatchRun

CONSTANTS
  Scenarios,   \* what goes wrong: one set of these for a behaviour
  MaxFaults    \* bound: calls of the docker API that fail in a behaviour

ASSUME ScenariosAssumption ==
  /\ Scenarios \subseteq SUBSET {"docker", "unfit", "late", "exits", "burns", "banks", "deaths",
                                 "kill refused", "sim", "crash", "peers"}
  /\ MaxFaults \in Nat

VARIABLES scenario, faults

vars == <<dockerVars, simVars, managerVars, main, scenario, faults>>

Init ==
  /\ scenario \in Scenarios
  /\ faults = 0
  /\ DockerInit
  /\ SimInit
  /\ IF "unfit" \in scenario THEN fit \in SUBSET Seats ELSE fit = Seats
  /\ ManagerInit
  /\ main = MainRest("down")

Happens(what) == what \in scenario

\* An accident, of which there are at most so many.
Fails(what) ==
  /\ Happens(what) /\ faults < MaxFaults
  /\ faults' = faults + 1

Works == faults' = faults

------------------------------------------------------------------------------

Booted == main.pc \notin {"down", "list", "sweepContainers", "sweepNetworks"}

MainThread ==
  /\ \/ Boots \/ SweepLists \/ BeginsMatch
     \/ MakesNet \/ RunsAgent \/ ImageMissing \/ AgentsUp \/ ProbeStarts
     \/ Monitors \/ MakesSimNet \/ Attaches \/ CreatesSim \/ StartsSim
     \/ WaitEnds \/ StopsObserving
     \/ SweepsContainers({}) \/ SweepsNetworks({})
     \/ ProbeEnds(NotServing, {}) \/ CleansContainers({}) \/ CleansNetworks({})
  /\ Works

DockerFails ==
  /\ \/ \E made \in BOOLEAN : MakesNothing(made)
     \/ ProbeRefused
     \/ \E left \in (SUBSET docker) \ {{}} :
          \/ SweepsContainers(left) \/ SweepsNetworks(left)
          \/ ProbeEnds(NotServing, left) \/ ProbeBreaks(left)
          \/ CleansContainers(left) \/ CleansNetworks(left)
     \/ ProbeEnds(Seats, {}) \/ ProbeBreaks({})
     \/ WaitBreaks \/ LogsBreak
  /\ Fails("docker")

\* The kills of a pass that docker refuses.
Refused(refused) == IF refused = {} THEN Works ELSE Fails("kill refused")

PollThread ==
  /\ \E refused \in SUBSET Seats : Poll(refused) /\ Refused(refused)
  /\ UNCHANGED <<dockerVars, main>>

DeliveryThread ==
  /\ \/ \E heavy, refused \in SUBSET Seats :
          /\ heavy # {} => Happens("late")
          /\ NotifyStart(heavy, refused) /\ Refused(refused)
     \/ \E broke, wallBroke, refused \in SUBSET Seats :
          /\ broke \union wallBroke # {} => Happens("banks")
          /\ NotifyStep(broke, wallBroke, refused) /\ Refused(refused)
     \/ NotifyDecision /\ Works
     \/ NotifyStop /\ Works
  /\ UNCHANGED <<dockerVars, main>>

\* Agents may miss the sim's deadline at the start, and die in the game.
SimProcess ==
  /\ \/ \E tags \in SUBSET Seats :
          /\ SimBegins(tags)
          /\ tags = {s \in fit : Running(s)} \/ Happens("late")
     \/ \E dead \in SUBSET Seats : StepEnds(dead) /\ (dead = {} \/ Happens("deaths"))
     \/ SimEnds
     \/ \E s \in Seats : StreamBreaks(s) \/ AgentStops(s)
  /\ Works
  /\ UNCHANGED <<dockerVars, managerVars, main>>

Agents ==
  /\ \/ (\E s \in Seats : Answers(s)) /\ Works
     \/ (\E s \in Seats : AgentExits(s)) /\ Fails("exits")
  /\ UNCHANGED <<dockerVars, managerVars, main>>

Clock ==
  /\ \E burns \in SUBSET Seats : Tick(burns) /\ (burns = {} \/ Happens("burns"))
  /\ Works
  /\ UNCHANGED <<dockerVars, main>>

SimCrashes == SimFails /\ Fails("sim") /\ UNCHANGED <<dockerVars, managerVars, main>>
DaemonDies == Dies /\ Fails("crash")

\* Other daemons; bound: until the daemon is up, for no step of the match
\* looks at what others own.
Peers ==
  /\ Happens("peers") /\ ~Booted
  /\ \E p \in Runners : PeerBoots(p) \/ PeerPlays(p) \/ PeerLeaves(p)
  /\ UNCHANGED <<simVars, managerVars, main>>
  /\ Works

\* The daemon's own container is made anew.
Deploy ==
  /\ Happens("crash") /\ At("down")
  /\ \E id \in Runners : Recreated(id)
  /\ UNCHANGED <<simVars, managerVars, main>>
  /\ Works

Next ==
  /\ \/ MainThread \/ DockerFails \/ PollThread \/ DeliveryThread
     \/ SimProcess \/ Agents \/ Clock
     \/ SimCrashes \/ DaemonDies \/ Peers \/ Deploy
  /\ UNCHANGED scenario

Spec == Init /\ [][Next]_vars

\* The threads and processes go on when they can, and time passes; nothing
\* obliges an agent to answer.
FairSpec ==
  /\ Spec
  /\ WF_vars((MainThread \/ PollThread \/ DeliveryThread \/ SimProcess) /\ UNCHANGED scenario)
  /\ WF_vars(Clock /\ UNCHANGED scenario)

------------------------------------------------------------------------------
(* What must hold.                                                         *)

\* Every variable stays in its type.
TypeOK ==
  /\ docker \subseteq Resource /\ strays \subseteq Resource /\ leftovers \subseteq Resource
  /\ alive \subseteq Runners /\ newcomers \subseteq Runners /\ me \in alive
  /\ box \in [Seats -> {"none", "up", "stopping", "down"}]
  /\ fit \subseteq Seats
  /\ sim \in SimState
  /\ queue \in Seq(Events) /\ Len(queue) <= MaxLag + 1
  /\ used \in [Seats -> 0 .. PerStepCpu + 1]
  /\ tracker \in [Seats -> TrackerState]
  /\ poller \in {"off", "on", "dead"}
  /\ delivery \in {"off", "on", "dead"}
  /\ timed \subseteq Seats /\ spared \subseteq Seats /\ blind \in BOOLEAN
  /\ main \in MainState
  /\ scenario \in Scenarios /\ faults \in 0 .. MaxFaults

\* Nothing accumulates on the docker host: what is there is held by the match
\* that runs, belongs to a live peer, or was not there to be swept at boot;
\* but for what an API call made or kept while it raised, and for what the
\* daemon itself left in an earlier life under the same id.
EverythingIsAccountedFor ==
  \A r \in docker \ strays :
    \/ r \in Mine(main.held \union IF main.pc = "probing" THEN {Probe} ELSE {})
    \/ r.owner = me /\ r \in leftovers
    \/ r.owner \in alive \ {me}
    \/ r.owner # me /\ (Booted => r.owner \in main.seen \union newcomers)

\* A booting daemon leaves the matches of its live peers alone, except of one
\* that boots after the ids were listed.
SweepSparesTheLiving ==
  [][main.pc \in {"sweepContainers", "sweepNetworks"} /\ main'.pc # main.pc =>
       \A r \in docker \ docker' : r.owner \notin alive \/ r.owner \in newcomers]_vars

\* A seat that made it into the game is not among those whose image the
\* daemon quarantines.
NobodyWhoPlayedIsBlamed == main.result.given => main.result.blamed \intersect sim.tags = {}

Pending(kind) == \E i \in 1 .. Len(queue) : queue[i].kind = kind

\* The poll thread kills for cause.  For CPU: unless a step is still to be
\* delivered, it was used in the decision that the sim waits for.  For wall
\* time: unless an answer or a step is, the sim waits for this very seat.
KilledForCause ==
  [][\A s \in Seats : ~Killed(s) /\ ~blind =>
       /\ tracker'[s].reason = "per_step" /\ ~Pending("step") => used[s] > PerStepCpu
       /\ tracker'[s].reason = "wall_clock" /\ ~Pending("step") /\ ~Pending("decision") =>
            s \in sim.thinking]_vars

\* The first reason for a kill stays the one that is shown and stored.
KillReasonsAreFinal ==
  [][\A s \in Seats :
       Killed(s) /\ main'.pc # "down" => tracker'[s].reason = tracker[s].reason]_vars

\* A match that counts as a success can be scored: every player has a time
\* series, if it was not killed before its first step was delivered, and once
\* the events are in.
SuccessCanBeScored ==
  [][main'.result.ok /\ ~main.result.ok /\ queue = <<>> /\ ~blind =>
       \A s \in sim.tags :
         s \in timed \/ tracker[s].reason \in {"startup_cpu", "per_step", "wall_clock"}]_vars

\* However the agents behave, the match comes to an end, if every kill gets
\* through and no thread has stumbled over a container that is gone.
EveryMatchEnds == main.pc = "nets" ~> (main.pc \in {"over", "down"} \/ spared # {} \/ blind)

\* The same without the proviso about containers that are gone, of which
\* docs/08_cpu_and_wall_budgets.md says that they are skipped.
HungAgentsAreKilled == main.pc = "nets" ~> (main.pc \in {"over", "down"} \/ spared # {})
=============================================================================
