------------------------------ MODULE MatchProofs -----------------------------
(***************************************************************************)
(* What holds of a match for every number of seats, steps, peers and       *)
(* faults: types, what is left on the docker host, whom a sweep spares,    *)
(* who is killed and blamed, and which matches can be scored.              *)
(***************************************************************************)
EXTENDS MatchExecution, SequenceTheorems, TLAPS

------------------------------------------------------------------------------
(* Types, but for the length of the queue, which takes more than types.    *)

DockerTyped ==
  /\ docker \subseteq Resource /\ strays \subseteq Resource /\ leftovers \subseteq Resource
  /\ alive \subseteq Runners /\ newcomers \subseteq Runners /\ me \in alive

SimTyped ==
  /\ box \in [Seats -> {"none", "up", "stopping", "down"}]
  /\ fit \subseteq Seats
  /\ sim \in SimState
  /\ queue \in Seq(Events)
  /\ used \in [Seats -> 0 .. PerStepCpu + 1]

ManagerTyped ==
  /\ tracker \in [Seats -> TrackerState]
  /\ poller \in {"off", "on", "dead"}
  /\ delivery \in {"off", "on", "dead"}
  /\ timed \subseteq Seats /\ spared \subseteq Seats /\ blind \in BOOLEAN

MainTyped == main \in MainState /\ main.n \in Seats

CaseTyped == scenario \in Scenarios /\ faults \in 0 .. MaxFaults

Typed == DockerTyped /\ SimTyped /\ ManagerTyped /\ MainTyped /\ CaseTyped

LEMMA SeatsAreNats ==
  /\ \A s \in Seats : s \in Nat /\ s < NumSeats
  /\ 0 \in Seats
  /\ \A n \in Seats : (n + 1) % NumSeats \in Seats
<1>1. NumSeats \in Nat /\ NumSeats > 0
  BY SeatsAssumption
<1>2. \A n \in Seats : (n + 1) % NumSeats \in Seats
  BY <1>1 DEF Seats
<1>3. QED
  BY <1>1, <1>2 DEF Seats

LEMMA DockerUntouched ==
  ASSUME DockerTyped, UNCHANGED dockerVars
  PROVE  DockerTyped'
  BY DEF DockerTyped, dockerVars

LEMMA SimUntouched ==
  ASSUME SimTyped, UNCHANGED simVars
  PROVE  SimTyped'
  BY DEF SimTyped, simVars

LEMMA ManagerUntouched ==
  ASSUME ManagerTyped, UNCHANGED managerVars
  PROVE  ManagerTyped'
  BY DEF ManagerTyped, managerVars

LEMMA CaseAfterStep ==
  ASSUME CaseTyped, UNCHANGED scenario, Works \/ \E what : Fails(what)
  PROVE  CaseTyped'
<1>1. MaxFaults \in Nat
  BY ScenariosAssumption
<1>2. CASE Works
  BY <1>2 DEF CaseTyped, Works
<1>3. ASSUME NEW what, Fails(what)
      PROVE  CaseTyped'
  BY <1>1, <1>3 DEF CaseTyped, Fails
<1>4. QED
  BY <1>2, <1>3

------------------------------------------------------------------------------
(* Resources.                                                              *)

LEMMA MineAreResources ==
  ASSUME DockerTyped, NEW whats \in SUBSET (Containers \union Networks)
  PROVE  Mine(whats) \subseteq Resource
  BY DEF DockerTyped, Mine, Owned, Resource

LEMMA CreatesTyped ==
  ASSUME DockerTyped, NEW what \in Containers \union Networks,
         Creates(what) \/ \E made \in BOOLEAN : CreateRaises(what, made)
  PROVE  DockerTyped'
<1>1. Mine({what}) \subseteq Resource
  BY MineAreResources
<1>2. QED
  BY <1>1 DEF DockerTyped, Creates, CreateRaises

LEMMA RemovesTyped ==
  ASSUME DockerTyped, NEW gone, NEW left, left \subseteq gone, gone \subseteq Resource,
         Removes(gone, left)
  PROVE  DockerTyped'
  BY DEF DockerTyped, Removes

LEMMA NamesOfResources ==
  /\ \A s \in Seats : Net(s) \in Networks /\ Agent(s) \in Containers
  /\ SimNet \in Networks /\ Sim \in Containers /\ Probe \in Containers
  BY DEF Networks, Containers

------------------------------------------------------------------------------
(* The steps, thread by thread.                                            *)

LEMMA RestsTyped ==
  /\ \A pc \in {"none", "created", "booting", "running", "over"} : SimRest(pc) \in SimState
  /\ NewTracker \in TrackerState
  /\ MainRest("down") \in MainState
<1>1. 0 \in 0 .. MaxSteps /\ 0 \in 0 .. MaxWall /\ 0 \in 0 .. NumSeats
  BY SimAssumption, BudgetAssumption, SeatsAssumption
<1>2. QED
  BY <1>1 DEF SimRest, SimState, NewTracker, TrackerState, MainRest, MainState, NoResult

LEMMA GoesOnTyped ==
  ASSUME MainTyped,
         NEW pc \in {"down", "list", "sweepContainers", "sweepNetworks", "idle", "nets", "agents",
                     "ready", "probe", "probing", "monitor", "simnet", "attach", "create",
                     "start", "wait", "clean", "cleanNets", "stop", "over"},
         \/ GoesOn(pc)
         \/ Raises
         \/ \E what \in Containers \union Networks : Holds(what, pc)
         \/ \E ok \in BOOLEAN, blamed \in SUBSET Seats : Gives(ok, blamed)
  PROVE  MainTyped'
<1>1. CASE GoesOn(pc) \/ Raises
  BY <1>1 DEF MainTyped, MainState, GoesOn, Raises
<1>2. ASSUME NEW what \in Containers \union Networks, Holds(what, pc)
      PROVE  MainTyped'
  BY <1>2 DEF MainTyped, MainState, Holds
<1>3. ASSUME NEW ok \in BOOLEAN, NEW blamed \in SUBSET Seats, Gives(ok, blamed)
      PROVE  MainTyped'
  <2>1. main' = [main EXCEPT !.pc = "clean",
                             !.result = [given |-> TRUE, ok |-> ok, blamed |-> blamed]]
    BY <1>3 DEF Gives
  <2>2. [given |-> TRUE, ok |-> ok, blamed |-> blamed]
          \in [given : BOOLEAN, ok : BOOLEAN, blamed : SUBSET Seats]
    OBVIOUS
  <2>3. QED
    BY <2>1, <2>2 DEF MainTyped, MainState
<1>4. QED
  BY <1>1, <1>2, <1>3

LEMMA BootTyped ==
  ASSUME Typed,
         \/ Boots \/ SweepLists \/ BeginsMatch
         \/ \E left : SweepsContainers(left) \/ SweepsNetworks(left)
  PROVE  DockerTyped' /\ SimTyped' /\ ManagerTyped' /\ MainTyped'
<1>1. CASE Boots \/ BeginsMatch
  BY <1>1, GoesOnTyped, DockerUntouched, SimUntouched, ManagerUntouched
     DEF Typed, Boots, BeginsMatch
<1>2. CASE SweepLists
  <2>1. DockerTyped' /\ MainTyped'
    BY <1>2 DEF SweepLists, Typed, DockerTyped, MainTyped, MainState
  <2>2. QED
    BY <1>2, <2>1, SimUntouched, ManagerUntouched DEF Typed, SweepLists
<1>3. ASSUME NEW left, SweepsContainers(left) \/ SweepsNetworks(left)
      PROVE  DockerTyped' /\ SimTyped' /\ ManagerTyped' /\ MainTyped'
  <2>1. \A whats, ids : Orphans(whats, ids) \subseteq Resource
    BY DEF Orphans, Typed, DockerTyped
  <2>2. DockerTyped'
    BY <1>3, <2>1, RemovesTyped DEF Typed, SweepsContainers, SweepsNetworks, Sweeps
  <2>3. QED
    BY <1>3, <2>2, GoesOnTyped, SimUntouched, ManagerUntouched
       DEF Typed, SweepsContainers, SweepsNetworks, Sweeps
<1>4. QED
  BY <1>1, <1>2, <1>3

LEMMA MakesTyped ==
  ASSUME Typed,
         \/ MakesNet \/ RunsAgent \/ ImageMissing \/ \E made \in BOOLEAN : MakesNothing(made)
  PROVE  DockerTyped' /\ SimTyped' /\ ManagerTyped' /\ MainTyped'
<1> USE NamesOfResources DEF Typed
<1>0. main.n \in Seats /\ (main.n + 1) % NumSeats \in Seats /\ Seats \subseteq 0 .. NumSeats
  BY SeatsAreNats, SeatsAssumption DEF MainTyped, Seats
<1>1. CASE MakesNet
  <2>1. MainTyped'
    BY <1>0, <1>1 DEF MakesNet, MainTyped, MainState
  <2>2. QED
    BY <1>0, <1>1, <2>1, CreatesTyped, SimUntouched, ManagerUntouched DEF MakesNet
<1>2. CASE RunsAgent
  <2>1. MainTyped'
    BY <1>0, <1>2 DEF RunsAgent, MainTyped, MainState
  <2>2. SimTyped'
    BY <1>0, <1>2 DEF RunsAgent, SimTyped
  <2>3. QED
    BY <1>0, <1>2, <2>1, <2>2, CreatesTyped, ManagerUntouched DEF RunsAgent
<1>3. CASE ImageMissing
  BY <1>3, GoesOnTyped, DockerUntouched, SimUntouched, ManagerUntouched DEF ImageMissing
<1>4. ASSUME NEW made \in BOOLEAN, MakesNothing(made)
      PROVE  DockerTyped' /\ SimTyped' /\ ManagerTyped' /\ MainTyped'
  <2>1. DockerTyped'
    BY <1>0, <1>4, CreatesTyped, DockerUntouched DEF MakesNothing
  <2>2. QED
    BY <1>4, <2>1, GoesOnTyped, SimUntouched, ManagerUntouched DEF MakesNothing
<1>5. QED
  BY <1>1, <1>2, <1>3, <1>4

LEMMA SetupTyped ==
  ASSUME Typed,
         \/ AgentsUp \/ ProbeStarts \/ ProbeRefused \/ Monitors \/ MakesSimNet
         \/ Attaches \/ CreatesSim \/ StartsSim
         \/ \E failed \in SUBSET Seats : \E left : ProbeEnds(failed, left)
         \/ \E left : ProbeBreaks(left)
  PROVE  DockerTyped' /\ SimTyped' /\ ManagerTyped' /\ MainTyped'
<1> USE NamesOfResources DEF Typed
<1>1. CASE AgentsUp
  BY <1>1, GoesOnTyped, DockerUntouched, SimUntouched, ManagerUntouched DEF AgentsUp
<1>2. CASE ProbeStarts
  BY <1>2, GoesOnTyped, CreatesTyped, SimUntouched, ManagerUntouched DEF ProbeStarts
<1>3. CASE ProbeRefused
  BY <1>3, GoesOnTyped, DockerUntouched, SimUntouched, ManagerUntouched DEF ProbeRefused
<1>4. CASE Monitors
  <2>1. SimTyped' /\ ManagerTyped'
    BY <1>4, SimUntouched, ManagerUntouched DEF Monitors, InstallTrackers, ManagerTyped
  <2>2. QED
    BY <1>4, <2>1, GoesOnTyped, DockerUntouched DEF Monitors
<1>5. CASE MakesSimNet
  BY <1>5, GoesOnTyped, CreatesTyped, SimUntouched, ManagerUntouched DEF MakesSimNet
<1>6. CASE Attaches
  <2>1. SimTyped' /\ ManagerTyped'
    BY <1>6, SimUntouched DEF Attaches, ManagerTyped
  <2>2. QED
    BY <1>6, <2>1, GoesOnTyped, DockerUntouched DEF Attaches
<1>7. CASE CreatesSim \/ StartsSim
  <2>1. SimTyped'
    BY <1>7, RestsTyped DEF CreatesSim, StartsSim, SimTyped
  <2>2. DockerTyped'
    BY <1>7, CreatesTyped, DockerUntouched DEF CreatesSim, StartsSim
  <2>3. QED
    BY <1>7, <2>1, <2>2, GoesOnTyped, ManagerUntouched DEF CreatesSim, StartsSim
<1>8. ASSUME NEW failed \in SUBSET Seats, NEW left, ProbeEnds(failed, left)
      PROVE  DockerTyped' /\ SimTyped' /\ ManagerTyped' /\ MainTyped'
  <2>1. Mine({Probe}) \subseteq Resource
    BY MineAreResources
  <2>2. DockerTyped'
    BY <1>8, <2>1, RemovesTyped DEF ProbeEnds
  <2>3. QED
    BY <1>8, <2>2, GoesOnTyped, SimUntouched, ManagerUntouched DEF ProbeEnds
<1>9. ASSUME NEW left, ProbeBreaks(left)
      PROVE  DockerTyped' /\ SimTyped' /\ ManagerTyped' /\ MainTyped'
  <2>1. Mine({Probe}) \subseteq Resource
    BY MineAreResources
  <2>2. DockerTyped'
    BY <1>9, <2>1, RemovesTyped DEF ProbeBreaks
  <2>3. QED
    BY <1>9, <2>2, GoesOnTyped, SimUntouched, ManagerUntouched DEF ProbeBreaks
<1>10. QED
  BY <1>1, <1>2, <1>3, <1>4, <1>5, <1>6, <1>7, <1>8, <1>9

LEMMA EndTyped ==
  ASSUME Typed,
         \/ WaitEnds \/ WaitBreaks \/ LogsBreak \/ StopsObserving
         \/ \E left : CleansContainers(left) \/ CleansNetworks(left)
  PROVE  DockerTyped' /\ SimTyped' /\ ManagerTyped' /\ MainTyped'
<1> USE DEF Typed
<1>1. CASE WaitEnds \/ WaitBreaks \/ LogsBreak
  <2>1. InitFailed \in SUBSET Seats /\ sim.ok \in BOOLEAN
    BY DEF InitFailed, SimTyped, SimState
  <2>2. MainTyped'
    BY <1>1, <2>1, GoesOnTyped DEF WaitEnds, WaitBreaks, LogsBreak
  <2>3. SimTyped'
    BY <1>1, SimUntouched DEF WaitEnds, WaitBreaks, LogsBreak, SimTyped, SimState
  <2>4. QED
    BY <1>1, <2>2, <2>3, DockerUntouched, ManagerUntouched DEF WaitEnds, WaitBreaks, LogsBreak
<1>2. CASE StopsObserving
  <2>1. SimTyped' /\ ManagerTyped'
    BY <1>2, EmptySeq DEF StopsObserving, SimTyped, ManagerTyped
  <2>2. QED
    BY <1>2, <2>1, GoesOnTyped, DockerUntouched DEF StopsObserving
<1>3. ASSUME NEW left, CleansContainers(left)
      PROVE  DockerTyped' /\ SimTyped' /\ ManagerTyped' /\ MainTyped'
  <2>1. Mine(main.held \intersect Containers) \subseteq Resource
    BY MineAreResources
  <2>2. DockerTyped'
    BY <1>3, <2>1, RemovesTyped DEF CleansContainers
  <2>3. SimTyped'
    BY <1>3 DEF CleansContainers, SimTyped
  <2>4. MainTyped'
    BY <1>3 DEF CleansContainers, MainTyped, MainState
  <2>5. QED
    BY <1>3, <2>2, <2>3, <2>4, ManagerUntouched DEF CleansContainers
<1>4. ASSUME NEW left, CleansNetworks(left)
      PROVE  DockerTyped' /\ SimTyped' /\ ManagerTyped' /\ MainTyped'
  <2>1. Mine(main.held \intersect Networks) \subseteq Resource
    BY MineAreResources
  <2>2. DockerTyped'
    BY <1>4, <2>1, RemovesTyped DEF CleansNetworks
  <2>3. MainTyped'
    BY <1>4 DEF CleansNetworks, MainTyped, MainState
  <2>4. QED
    BY <1>4, <2>2, <2>3, SimUntouched, ManagerUntouched DEF CleansNetworks
<1>5. QED
  BY <1>1, <1>2, <1>3, <1>4

\* What Kill and the verdicts do to the types.
LEMMA KillTyped ==
  ASSUME SimTyped, ManagerTyped, NEW seats \in SUBSET Seats, NEW refused, Kill(seats, refused)
  PROVE  box' \in [Seats -> {"none", "up", "stopping", "down"}] /\ spared' \subseteq Seats
  BY DEF SimTyped, ManagerTyped, Kill

LEMMA TrackersTyped ==
  ASSUME ManagerTyped, NEW s \in Seats
  PROVE  /\ \A reason \in Reasons : Shot(s, reason) \in TrackerState
         /\ [NewTracker EXCEPT !.startup = FALSE, !.known = TRUE] \in TrackerState
         /\ [tracker[s] EXCEPT !.responded = TRUE] \in TrackerState
         /\ StepClosed(tracker[s]) \in TrackerState
         /\ tracker[s] \in TrackerState
<1>1. 0 \in 0 .. MaxWall
  BY BudgetAssumption
<1>2. tracker[s] \in TrackerState /\ NewTracker \in TrackerState
  BY RestsTyped DEF ManagerTyped
<1>3. \A reason \in Reasons : Shot(s, reason) \in TrackerState
  BY <1>2 DEF Shot, TrackerState
<1>4. QED
  BY <1>1, <1>2, <1>3 DEF TrackerState, StepClosed

LEMMA QueueTyped ==
  ASSUME SimTyped
  PROVE  /\ \A e \in Events : Append(queue, e) \in Seq(Events)
         /\ queue # <<>> => Head(queue) \in Events /\ Tail(queue) \in Seq(Events)
  BY HeadTailProperties DEF SimTyped

LEMMA PollTyped ==
  ASSUME Typed, NEW refused, Poll(refused)
  PROVE  SimTyped' /\ ManagerTyped'
<1> USE DEF Typed
<1> DEFINE due == {s \in Seats : Watched(s)}
<1> DEFINE over == {s \in due \intersect Before(due) : Verdict(s) # "none"}
<1>1. /\ Kill(over, refused)
      /\ tracker' = [s \in Seats |-> IF s \in over THEN Shot(s, Verdict(s)) ELSE tracker[s]]
      /\ poller' \in {"dead", "on"}
      /\ blind' = (blind \/ \E s \in due : Unreadable(s))
      /\ UNCHANGED <<fit, sim, queue, used, delivery, timed>>
  BY DEF Poll
<1>2. over \in SUBSET Seats
  OBVIOUS
<1>3. \A s : Verdict(s) # "none" => Verdict(s) \in Reasons
  BY DEF Verdict, Reasons, BudgetReasons
<1> HIDE DEF due
<1>4. tracker' \in [Seats -> TrackerState]
  BY <1>1, <1>3, TrackersTyped
<1>5. (\E s \in due : Unreadable(s)) \in BOOLEAN
  OBVIOUS
<1> HIDE DEF over
<1>6. SimTyped'
  BY <1>1, <1>2, KillTyped DEF SimTyped
<1>7. QED
  BY <1>1, <1>2, <1>4, <1>5, <1>6, KillTyped DEF ManagerTyped

LEMMA StartTyped ==
  ASSUME Typed, NEW heavy, NEW refused, NotifyStart(heavy, refused)
  PROVE  SimTyped' /\ ManagerTyped'
<1> USE DEF Typed
<1> DEFINE tags == Head(queue).seats
<1> DEFINE seen == tags \intersect Before(tags)
<1> DEFINE raised == seen # tags
<1> DEFINE active == seen \ heavy
<1> DEFINE absent == IF raised THEN {} ELSE Absent(active, heavy)
<1>1. /\ Delivers("start") /\ heavy \subseteq seen
      /\ Kill(heavy \union absent, refused)
      /\ tracker' = [s \in Seats |->
             IF s \in absent THEN Shot(s, "init_failure")
             ELSE IF s \in heavy THEN Shot(s, "startup_cpu")
             ELSE IF s \in active THEN [NewTracker EXCEPT !.startup = FALSE, !.known = TRUE]
             ELSE tracker[s]]
      /\ poller' = IF poller = "dead" /\ ~raised THEN "on" ELSE poller
      /\ Survives(raised)
      /\ timed' = {}
      /\ UNCHANGED <<fit, sim, used>>
  BY DEF NotifyStart
<1>2. seen \subseteq Seats /\ absent \subseteq Seats
  BY DEF Before, Absent
<1>3. raised \in BOOLEAN
  OBVIOUS
<1> HIDE DEF seen, raised, active, absent
<1>4. tracker' \in [Seats -> TrackerState]
  BY <1>1, TrackersTyped DEF Reasons, BudgetReasons
<1>5. heavy \union absent \in SUBSET Seats
  BY <1>1, <1>2
<1>6. SimTyped'
  BY <1>1, <1>5, KillTyped, QueueTyped DEF SimTyped, Delivers
<1>7. QED
  BY <1>1, <1>3, <1>4, <1>5, <1>6, KillTyped DEF ManagerTyped, Survives

LEMMA StepTyped ==
  ASSUME Typed, NEW broke, NEW wallBroke, NEW refused, NotifyStep(broke, wallBroke, refused)
  PROVE  SimTyped' /\ ManagerTyped'
<1> USE DEF Typed
<1> DEFINE seen == Unkilled \intersect Before(Unkilled)
<1> DEFINE dead == {s \in seen \ (broke \union wallBroke) :
                      tracker[s].known /\ s \notin Head(queue).seats}
<1>1. /\ Delivers("step") /\ broke \subseteq seen /\ wallBroke \subseteq seen
      /\ Kill(broke \union wallBroke \union dead, refused)
      /\ tracker' = [s \in Seats |->
             IF s \in broke THEN Shot(s, "sustained")
             ELSE IF s \in wallBroke THEN Shot(s, "sustained_wall")
             ELSE IF s \in dead THEN Shot(s, "dead")
             ELSE IF s \in seen THEN StepClosed(tracker[s])
             ELSE tracker[s]]
      /\ timed' = timed \union seen
      /\ Survives(seen # Unkilled)
      /\ UNCHANGED <<fit, sim, used, poller>>
  BY DEF NotifyStep, Timed
<1>2. seen \subseteq Seats /\ dead \subseteq Seats /\ (seen # Unkilled) \in BOOLEAN
  BY DEF Unkilled
<1> HIDE DEF seen, dead
<1>3. tracker' \in [Seats -> TrackerState]
  BY <1>1, TrackersTyped DEF Reasons, BudgetReasons
<1>4. broke \union wallBroke \union dead \in SUBSET Seats
  BY <1>1, <1>2
<1>5. SimTyped'
  BY <1>1, <1>4, KillTyped, QueueTyped DEF SimTyped, Delivers
<1>6. QED
  BY <1>1, <1>2, <1>3, <1>4, <1>5, KillTyped DEF ManagerTyped, Survives

LEMMA DeliveryTyped ==
  ASSUME Typed, DeliveryThread
  PROVE  SimTyped' /\ ManagerTyped'
<1> USE DEF Typed
<1>1. CASE NotifyDecision
  <2>1. tracker' \in [Seats -> TrackerState]
    BY <1>1, TrackersTyped DEF NotifyDecision
  <2>2. QED
    BY <1>1, <2>1, QueueTyped DEF NotifyDecision, SimTyped, ManagerTyped, Delivers
<1>2. CASE NotifyStop
  BY <1>2, QueueTyped DEF NotifyStop, SimTyped, ManagerTyped, Delivers
<1>3. QED
  BY <1>1, <1>2, StartTyped, StepTyped DEF DeliveryThread

LEMMA GameTyped ==
  ASSUME Typed, SimProcess \/ Agents \/ SimCrashes
  PROVE  SimTyped'
<1> USE DEF Typed
<1>0. /\ \A seats \in SUBSET Seats, kind \in {"start", "decision", "step", "stop"} :
           Event(kind, seats) \in Events
      /\ 0 \in 0 .. PerStepCpu + 1 /\ MaxSteps \in Nat
  BY BudgetAssumption, SimAssumption DEF Event, Events
<1>1. ASSUME NEW tags \in SUBSET Seats, SimBegins(tags)
      PROVE  SimTyped'
  BY <1>0, <1>1, QueueTyped DEF SimBegins, SimTyped, SimState
<1>2. ASSUME NEW s \in Seats, Answers(s)
      PROVE  SimTyped'
  <2>1. queue' \in Seq(Events)
    BY <1>0, <1>2, QueueTyped DEF Answers
  <2>2. QED
    BY <1>2, <2>1 DEF Answers, SimTyped, SimState
<1>3. ASSUME NEW s \in Seats, StreamBreaks(s) \/ AgentExits(s) \/ AgentStops(s)
      PROVE  SimTyped'
  <2>1. CASE StreamBreaks(s)
    <3>1. sim' = [sim EXCEPT !.thinking = @ \ {s}, !.broken = @ \union {s}]
          /\ UNCHANGED <<box, fit, queue, used>>
      BY <2>1 DEF StreamBreaks
    <3>2. sim' \in SimState
      BY <3>1 DEF SimTyped, SimState
    <3>3. QED
      BY <3>1, <3>2 DEF SimTyped
  <2>2. CASE AgentExits(s) \/ AgentStops(s)
    BY <2>2 DEF AgentExits, AgentStops, SimTyped
  <2>3. QED
    BY <1>3, <2>1, <2>2
<1>4. ASSUME NEW dead \in SUBSET Seats, StepEnds(dead)
      PROVE  SimTyped'
  <2> DEFINE left == sim.players \ (dead \union sim.broken)
  <2>1. left \in SUBSET Seats /\ sim.step + 1 \in 0 .. MaxSteps
    BY <1>0, <1>4 DEF StepEnds, SimTyped, SimState
  <2>2. /\ sim' = [sim EXCEPT !.players = left, !.broken = {}, !.step = @ + 1,
                               !.thinking = IF sim.step + 1 < MaxSteps THEN left ELSE {}]
        /\ queue' = Append(queue, Event("step", left))
        /\ used' = [s \in Seats |-> 0]
        /\ UNCHANGED <<box, fit>>
    BY <1>4 DEF StepEnds
  <2> HIDE DEF left
  <2>3. sim' \in SimState
    BY <2>1, <2>2 DEF SimTyped, SimState
  <2>4. QED
    BY <1>0, <2>1, <2>2, <2>3, QueueTyped DEF SimTyped
<1>5. CASE SimEnds \/ SimFails
  <2>1. sim' \in SimState /\ UNCHANGED <<box, fit, used>>
    BY <1>5 DEF SimEnds, SimFails, SimTyped, SimState
  <2>2. Event("stop", {}) \in Events
    BY <1>0
  <2>3. queue' = queue \/ queue' = Append(queue, Event("stop", {}))
    BY <1>5 DEF SimEnds, SimFails
  <2>4. queue' \in Seq(Events)
    BY <2>2, <2>3, QueueTyped DEF SimTyped
  <2>5. QED
    BY <2>1, <2>4 DEF SimTyped
<1>6. QED
  BY <1>1, <1>2, <1>3, <1>4, <1>5 DEF SimProcess, Agents, SimCrashes

LEMMA ClockTyped ==
  ASSUME Typed, Clock
  PROVE  SimTyped' /\ ManagerTyped'
<1> USE DEF Typed
<1>1. PICK burns : Tick(burns)
  BY DEF Clock
<1>2. PerStepCpu \in Nat /\ MaxWall \in Nat
  BY BudgetAssumption
<1>3. ASSUME NEW s \in Seats, Watched(s)
      PROVE  [tracker[s] EXCEPT !.wall = @ + 1,
                !.cpu = IF s \in burns /\ 2 * @ < MaxWall THEN @ + 1 ELSE @] \in TrackerState
  <2>1. tracker[s] \in TrackerState /\ tracker[s].wall < MaxWall
    BY <1>1, <1>3 DEF Tick, ManagerTyped
  <2> DEFINE cpu == IF s \in burns /\ 2 * tracker[s].cpu < MaxWall
                     THEN tracker[s].cpu + 1 ELSE tracker[s].cpu
  <2> DEFINE wall == tracker[s].wall + 1
  <2>2. cpu \in 0 .. MaxWall /\ wall \in 0 .. MaxWall
    BY <1>2, <2>1 DEF TrackerState
  <2>3. [tracker[s] EXCEPT !.wall = @ + 1,
                            !.cpu = IF s \in burns /\ 2 * @ < MaxWall THEN @ + 1 ELSE @]
        = [tracker[s] EXCEPT !.wall = wall, !.cpu = cpu]
    BY <2>1 DEF TrackerState
  <2> HIDE DEF cpu, wall
  <2>4. [tracker[s] EXCEPT !.wall = wall, !.cpu = cpu] \in TrackerState
    BY <2>1, <2>2 DEF TrackerState
  <2>5. QED
    BY <2>3, <2>4
<1>4. tracker' \in [Seats -> TrackerState]
  BY <1>1, <1>3 DEF Tick, ManagerTyped
<1>5. used' \in [Seats -> 0 .. PerStepCpu + 1]
  <2>1. used' = [s \in Seats |-> IF s \in burns /\ used[s] <= PerStepCpu
                                 THEN used[s] + 1 ELSE used[s]]
    BY <1>1 DEF Tick
  <2>2. ASSUME NEW s \in Seats
        PROVE  (IF s \in burns /\ used[s] <= PerStepCpu THEN used[s] + 1 ELSE used[s])
                 \in 0 .. PerStepCpu + 1
    <3>1. used[s] \in 0 .. PerStepCpu + 1
      BY DEF SimTyped
    <3>2. QED
      BY <1>2, <3>1
  <2>3. QED
    BY <2>1, <2>2
<1>6. QED
  BY <1>1, <1>4, <1>5 DEF Tick, SimTyped, ManagerTyped

LEMMA AccidentTyped ==
  ASSUME Typed, DaemonDies \/ Peers \/ Deploy
  PROVE  DockerTyped' /\ SimTyped' /\ ManagerTyped' /\ MainTyped'
<1> USE DEF Typed
<1>1. CASE DaemonDies
  <2>1. /\ 0 \in 0 .. PerStepCpu + 1 /\ <<>> \in Seq(Events) /\ 0 \in Seats
        /\ [MainRest("down") EXCEPT !.seen = main.seen] \in MainState
        /\ [MainRest("down") EXCEPT !.seen = main.seen].n = 0
    BY BudgetAssumption, EmptySeq, SeatsAreNats, RestsTyped DEF MainTyped, MainState, MainRest
  <2>2. DockerTyped' /\ MainTyped'
    BY <1>1, <2>1 DEF DaemonDies, Dies, DockerTyped, MainTyped
  <2>3. SimTyped' /\ ManagerTyped'
    BY <1>1, <2>1, RestsTyped DEF DaemonDies, Dies, SimTyped, ManagerTyped
  <2>4. QED
    BY <2>2, <2>3
<1>2. CASE Peers
  <2>1. \A p \in Runners, whats \in SUBSET (Containers \union Networks) :
          Owned(whats, p) \subseteq Resource
    BY DEF Owned, Resource
  <2>2. {Agent(0), Net(0)} \subseteq Containers \union Networks
    BY SeatsAreNats, NamesOfResources
  <2>3. DockerTyped'
    BY <1>2, <2>1, <2>2 DEF Peers, PeerBoots, PeerPlays, PeerLeaves, DockerTyped
  <2>4. QED
    BY <1>2, <2>3, SimUntouched, ManagerUntouched DEF Peers, MainTyped
<1>3. CASE Deploy
  <2>1. DockerTyped'
    BY <1>3 DEF Deploy, Recreated, DockerTyped
  <2>2. QED
    BY <1>3, <2>1, SimUntouched, ManagerUntouched DEF Deploy, MainTyped
<1>4. QED
  BY <1>1, <1>2, <1>3

LEMMA InitTyped ==
  ASSUME Init
  PROVE  Typed
<1>1. DockerTyped
  <2>1. \A r \in Runners : Owned({Agent(0), Net(0)}, r) \subseteq Resource
    BY SeatsAreNats, NamesOfResources DEF Owned, Resource
  <2>2. QED
    BY <2>1 DEF Init, DockerInit, DockerTyped
<1>2. SimTyped
  <2>1. 0 \in 0 .. PerStepCpu + 1
    BY BudgetAssumption
  <2>2. QED
    BY <2>1, EmptySeq, RestsTyped DEF Init, SimInit, SimTyped
<1>3. ManagerTyped
  BY RestsTyped DEF Init, ManagerInit, ManagerTyped
<1>4. MainTyped
  BY RestsTyped, SeatsAreNats DEF Init, MainRest, MainTyped
<1>5. CaseTyped
  <2>1. scenario \in Scenarios /\ faults = 0
    BY DEF Init
  <2>2. MaxFaults \in Nat
    BY ScenariosAssumption
  <2>3. QED
    BY <2>1, <2>2 DEF CaseTyped
<1>6. QED
  BY <1>1, <1>2, <1>3, <1>4, <1>5 DEF Typed

LEMMA NextTyped ==
  ASSUME Typed, Next
  PROVE  Typed'
<1>1. ASSUME DockerTyped' /\ SimTyped' /\ ManagerTyped' /\ MainTyped',
             Works \/ \E what : Fails(what)
      PROVE  Typed'
  BY <1>1, CaseAfterStep DEF Typed, Next
<1>2. CASE MainThread
  <2>1. NotServing \in SUBSET Seats
    BY DEF NotServing
  <2>2. QED
    BY <1>1, <1>2, <2>1, BootTyped, MakesTyped, SetupTyped, EndTyped DEF MainThread
<1>3. CASE DockerFails
  <2>1. NotServing \in SUBSET Seats /\ Seats \in SUBSET Seats
    BY DEF NotServing
  <2>2. DockerTyped' /\ SimTyped' /\ ManagerTyped' /\ MainTyped'
    BY <1>3, <2>1, BootTyped, MakesTyped, SetupTyped, EndTyped DEF DockerFails
  <2>3. QED
    BY <1>1, <1>3, <2>2 DEF DockerFails
<1>4. CASE PollThread
  BY <1>1, <1>4, PollTyped, DockerUntouched DEF PollThread, Refused, Typed, MainTyped
<1>5. CASE DeliveryThread
  BY <1>1, <1>5, DeliveryTyped, DockerUntouched DEF DeliveryThread, Refused, Typed, MainTyped
<1>6. CASE SimProcess \/ Agents \/ SimCrashes
  BY <1>1, <1>6, GameTyped, DockerUntouched, ManagerUntouched
     DEF SimProcess, Agents, SimCrashes, Typed, MainTyped
<1>7. CASE Clock
  BY <1>1, <1>7, ClockTyped, DockerUntouched DEF Clock, Typed, MainTyped
<1>8. CASE DaemonDies \/ Peers \/ Deploy
  BY <1>1, <1>8, AccidentTyped DEF DaemonDies, Peers, Deploy
<1>9. QED
  BY <1>2, <1>3, <1>4, <1>5, <1>6, <1>7, <1>8 DEF Next

LEMMA StutterTyped ==
  ASSUME Typed, UNCHANGED vars
  PROVE  Typed'
  BY DockerUntouched, SimUntouched, ManagerUntouched DEF Typed, MainTyped, CaseTyped, vars

LEMMA AlwaysTyped == Spec => []Typed
<1>1. Typed /\ [Next]_vars => Typed'
  BY NextTyped, StutterTyped
<1>2. QED
  BY InitTyped, <1>1, PTL DEF Spec

------------------------------------------------------------------------------
(* Where the main thread is tells where the sim is.                        *)

Early == {"down", "list", "sweepContainers", "sweepNetworks", "idle", "nets", "agents", "ready",
          "probe", "probing", "monitor", "simnet", "attach", "create"}
Late == {"clean", "cleanNets", "stop", "over"}

Phases ==
  /\ main.pc \in Early => sim = SimRest("none")
  /\ main.pc = "start" => sim = SimRest("created")
  /\ main.pc = "wait" => sim.pc \in {"booting", "running", "over"}
  /\ main.pc \in Late => sim.pc \in {"none", "created", "over"}
  /\ main.result.given => main.pc \in Late
  /\ main.result.ok => main.result.given
  /\ main.pc \in {"cleanNets", "stop", "over"} => \A s \in Seats : box[s] = "down"

\* What the main thread's steps do to the match: the ways in which the sim, the
\* agents' processes and the queue change under it.
MainShape ==
  /\ main.pc # "over"
  /\ UNCHANGED <<used, tracker, timed, blind>>
  /\ \/ UNCHANGED <<box, sim, queue>> /\ main'.pc # "over"
     \/ sim = SimRest("none") /\ UNCHANGED <<sim, queue>> /\ main'.pc # "over"
     \/ /\ sim \in {SimRest("none"), SimRest("created")}
        /\ sim' \in {SimRest("created"), SimRest("booting")}
        /\ UNCHANGED <<box, queue>> /\ main'.pc # "over"
     \/ /\ sim.pc \in {"booting", "running", "over"} /\ sim' = [sim EXCEPT !.pc = "over"]
        /\ UNCHANGED <<box, queue>> /\ main'.pc # "over"
     \/ /\ \A s \in Seats : box'[s] = "down"
        /\ UNCHANGED <<sim, queue>> /\ main'.pc # "over"
     \/ /\ \A s \in Seats : box[s] = "down"
        /\ queue' = <<>> /\ UNCHANGED <<box, sim>> /\ main'.pc = "over"

LEMMA RestFields ==
  \A pc : /\ SimRest(pc).pc = pc /\ SimRest(pc).ok = FALSE /\ SimRest(pc).step = 0
          /\ SimRest(pc).tags = {} /\ SimRest(pc).players = {} /\ SimRest(pc).thinking = {}
  BY DEF SimRest

LEMMA GoesOnFields ==
  ASSUME MainTyped, NEW pc
  PROVE  /\ GoesOn(pc) => main'.pc = pc /\ main'.result = main.result /\ main'.held = main.held
         /\ Raises => main'.pc = "clean" /\ main'.result = main.result /\ main'.held = main.held
         /\ \A what : Holds(what, pc) =>
              main'.pc = pc /\ main'.result = main.result /\ main'.held = main.held \union {what}
         /\ \A ok, blamed : Gives(ok, blamed) =>
              /\ main'.pc = "clean" /\ main'.held = main.held
              /\ main'.result.given /\ main'.result.ok = ok /\ main'.result.blamed = blamed
<1>1. DOMAIN main = {"pc", "n", "seen", "held", "result"}
  BY DEF MainTyped, MainState
<1>2. GoesOn(pc) => main'.pc = pc /\ main'.result = main.result /\ main'.held = main.held
  BY <1>1 DEF GoesOn
<1>3. Raises => main'.pc = "clean" /\ main'.result = main.result /\ main'.held = main.held
  BY <1>1 DEF Raises
<1>4. ASSUME NEW what, Holds(what, pc)
      PROVE  main'.pc = pc /\ main'.result = main.result /\ main'.held = main.held \union {what}
  BY <1>1, <1>4 DEF Holds
<1>5. ASSUME NEW ok, NEW blamed, Gives(ok, blamed)
      PROVE  /\ main'.pc = "clean" /\ main'.held = main.held
             /\ main'.result.given /\ main'.result.ok = ok /\ main'.result.blamed = blamed
  BY <1>1, <1>5 DEF Gives
<1>6. QED
  BY <1>2, <1>3, <1>4, <1>5

\* The steps up to the sim's container, and what they leave alone.
EarlyStep ==
  \/ Boots \/ SweepLists \/ BeginsMatch
  \/ MakesNet \/ RunsAgent \/ ImageMissing \/ AgentsUp \/ ProbeStarts \/ ProbeRefused
  \/ Monitors \/ MakesSimNet \/ Attaches
  \/ \E left : SweepsContainers(left) \/ SweepsNetworks(left)
  \/ \E failed \in SUBSET Seats : \E left : ProbeEnds(failed, left)
  \/ \E left : ProbeBreaks(left)

LEMMA EarlyShape ==
  ASSUME Typed, Phases, EarlyStep
  PROVE  /\ MainShape /\ main.pc \in Early
         /\ main'.pc \in Early \union {"clean"}
         /\ sim' = sim
         /\ main'.result = main.result \/ (main'.result.given /\ main'.pc = "clean")
         /\ main'.result.ok = main.result.ok \/ ~main'.result.ok
<1> USE DEF Typed
<1>1. UNCHANGED <<sim, queue, used, tracker, timed, blind>>
  BY DEF EarlyStep, Boots, SweepLists, BeginsMatch, MakesNet, RunsAgent, ImageMissing, AgentsUp,
         ProbeStarts, ProbeRefused, Monitors, InstallTrackers, MakesSimNet, Attaches,
         SweepsContainers, SweepsNetworks, Sweeps, ProbeEnds, ProbeBreaks, simVars, managerVars
<1>2. main.pc \in Early
  BY DEF EarlyStep, Boots, SweepLists, BeginsMatch, MakesNet, RunsAgent, ImageMissing, AgentsUp,
         ProbeStarts, ProbeRefused, Monitors, MakesSimNet, Attaches,
         SweepsContainers, SweepsNetworks, Sweeps, ProbeEnds, ProbeBreaks, At, Early
<1> DEFINE Onward == main'.pc \in Early \union {"clean"} /\ main'.result = main.result
<1> DEFINE Failed == main'.pc = "clean" /\ main'.result.given /\ ~main'.result.ok
<1>3. \A pc \in Early : GoesOn(pc) => Onward
  BY GoesOnFields
<1>4. \A pc \in Early : \A what : Holds(what, pc) => Onward
  BY GoesOnFields
<1>5. Raises => Onward
  BY GoesOnFields
<1>6. \A blamed : Gives(FALSE, blamed) => Failed
  BY GoesOnFields
<1>7. MakesNet \/ RunsAgent \/ SweepLists => Onward
  BY <1>2 DEF MakesNet, RunsAgent, SweepLists, MainTyped, MainState, Early
<1>8. {"list", "sweepNetworks", "idle", "nets", "probe", "probing", "monitor", "simnet",
       "attach", "create"} \subseteq Early
  BY DEF Early
<1> HIDE DEF Onward, Failed
<1>9. Onward \/ Failed
  BY <1>3, <1>4, <1>5, <1>6, <1>7, <1>8
     DEF EarlyStep, Boots, BeginsMatch, ImageMissing, AgentsUp, ProbeStarts, ProbeRefused,
         Monitors, MakesSimNet, Attaches, SweepsContainers, SweepsNetworks, Sweeps, ProbeEnds, ProbeBreaks
<1>10. sim = SimRest("none") /\ main.pc # "over" /\ main'.pc # "over"
  BY <1>2, <1>9 DEF Onward, Failed, Phases, Early
<1>11. MainShape
  BY <1>1, <1>10 DEF MainShape
<1>12. QED
  BY <1>1, <1>2, <1>9, <1>11 DEF Onward, Failed

LEMMA EarlyPhases ==
  ASSUME Typed, Phases, EarlyStep
  PROVE  Phases'
<1>1. /\ main.pc \in Early /\ main'.pc \in Early \union {"clean"} /\ sim' = sim
      /\ main'.result = main.result \/ (main'.result.given /\ main'.pc = "clean")
      /\ main'.result.ok = main.result.ok \/ ~main'.result.ok
  BY EarlyShape
<1>2. sim = SimRest("none") /\ ~main.result.given /\ sim.pc = "none"
  BY <1>1, RestFields DEF Phases, Early, Late
<1>3. QED
  BY <1>1, <1>2 DEF Phases, Early, Late

LEMMA CallFailed ==
  ASSUME Typed, Phases, NEW made \in BOOLEAN, MakesNothing(made)
  PROVE  MainShape /\ Phases'
<1> USE DEF Typed
<1>1. /\ UNCHANGED <<box, sim, queue, used, tracker, timed, blind>>
      /\ main.pc \in Early \union {"start"}
  BY DEF MakesNothing, At, Early, simVars, managerVars
<1>2. main'.pc = "clean" /\ main'.result = main.result
  BY GoesOnFields DEF MakesNothing
<1>3. sim.pc \in {"none", "created"} /\ main.pc # "over" /\ ~main.result.given
  BY <1>1, RestFields DEF Phases, Early, Late
<1>4. MainShape
  BY <1>1, <1>2, <1>3 DEF MainShape
<1>5. QED
  BY <1>1, <1>2, <1>3, <1>4 DEF Phases, Early, Late

LEMMA SimLaunched ==
  ASSUME Typed, Phases, CreatesSim \/ StartsSim
  PROVE  MainShape /\ Phases'
<1> USE DEF Typed
<1>1. UNCHANGED <<box, queue, used, tracker, timed, blind>>
  BY DEF CreatesSim, StartsSim, managerVars
<1>2. CASE CreatesSim
  <2>1. main.pc = "create" /\ sim' = SimRest("created")
    BY <1>2 DEF CreatesSim, At
  <2>2. main'.pc = "start" /\ main'.result = main.result
    BY <1>2, GoesOnFields DEF CreatesSim
  <2>3. sim = SimRest("none") /\ ~main.result.given
    BY <2>1 DEF Phases, Early, Late
  <2>4. MainShape
    BY <1>1, <2>1, <2>2, <2>3 DEF MainShape
  <2>5. QED
    BY <2>1, <2>2, <2>3, <2>4 DEF Phases, Early, Late
<1>3. CASE StartsSim
  <2>1. main.pc = "start" /\ sim' = SimRest("booting")
    BY <1>3 DEF StartsSim, At
  <2>2. main'.pc = "wait" /\ main'.result = main.result
    BY <1>3, GoesOnFields DEF StartsSim
  <2>3. sim = SimRest("created") /\ ~main.result.given
    BY <2>1 DEF Phases, Early, Late
  <2>4. MainShape
    BY <1>1, <2>1, <2>2, <2>3 DEF MainShape
  <2>5. QED
    BY <2>1, <2>2, <2>3, <2>4, RestFields DEF Phases, Early, Late
<1>4. QED
  BY <1>2, <1>3

LEMMA WaitOver ==
  ASSUME Typed, Phases, WaitEnds \/ WaitBreaks \/ LogsBreak
  PROVE  MainShape /\ Phases'
<1> USE DEF Typed
<1>1. /\ UNCHANGED <<box, queue, used, tracker, timed, blind>>
      /\ main.pc = "wait"
      /\ sim' = [sim EXCEPT !.pc = "over"] \/ (sim.pc = "over" /\ sim' = sim)
  BY DEF WaitEnds, WaitBreaks, LogsBreak, At, managerVars, simVars
<1>2. main'.pc = "clean"
  BY GoesOnFields DEF WaitEnds, WaitBreaks, LogsBreak
<1>3. main'.result.ok => main'.result.given
  BY GoesOnFields DEF WaitEnds, WaitBreaks, LogsBreak, Phases
<1>4. sim.pc \in {"booting", "running", "over"} /\ sim'.pc = "over"
  BY <1>1 DEF Phases, SimTyped, SimState
<1>5. MainShape
  BY <1>1, <1>2, <1>4 DEF MainShape
<1>6. QED
  BY <1>2, <1>3, <1>4, <1>5 DEF Phases, Early, Late

LEMMA CleanupGoesOn ==
  ASSUME Typed, Phases,
         StopsObserving \/ \E left : CleansContainers(left) \/ CleansNetworks(left)
  PROVE  MainShape /\ Phases'
<1> USE DEF Typed
<1>1. /\ UNCHANGED <<sim, used, tracker, timed, blind>>
      /\ main'.result = main.result
  BY GoesOnFields
     DEF StopsObserving, CleansContainers, CleansNetworks, managerVars, simVars, MainTyped, MainState
<1>2. \/ /\ main.pc = "clean" /\ main'.pc = "cleanNets" /\ queue' = queue
         /\ box' = [s \in Seats |-> "down"]
      \/ main.pc = "cleanNets" /\ main'.pc = "stop" /\ UNCHANGED <<box, queue>>
      \/ main.pc = "stop" /\ main'.pc = "over" /\ queue' = <<>> /\ box' = box
  BY GoesOnFields
     DEF StopsObserving, CleansContainers, CleansNetworks, simVars, At, MainTyped, MainState
<1>3. sim.pc \in {"none", "created", "over"}
  BY <1>2 DEF Phases, Late
<1>4. MainShape
  BY <1>1, <1>2 DEF MainShape, Phases
<1>5. QED
  BY <1>1, <1>2, <1>3, <1>4 DEF Phases, Early, Late

LEMMA MainSteps ==
  ASSUME Typed, Phases, MainThread \/ DockerFails
  PROVE  MainShape /\ Phases'
<1>1. NotServing \in SUBSET Seats
  BY DEF NotServing
<1>2. \/ EarlyStep \/ \E made \in BOOLEAN : MakesNothing(made)
      \/ CreatesSim \/ StartsSim \/ WaitEnds \/ WaitBreaks \/ LogsBreak
      \/ StopsObserving \/ \E left : CleansContainers(left) \/ CleansNetworks(left)
  BY <1>1 DEF MainThread, DockerFails, EarlyStep
<1>3. QED
  BY <1>2, EarlyShape, EarlyPhases, CallFailed, SimLaunched, WaitOver, CleanupGoesOn

\* A kill leaves alone what is down.
LEMMA KillLeavesTheDead ==
  ASSUME NEW seats, NEW refused, Kill(seats, refused), NEW s \in Seats
  PROVE  /\ box[s] = "down" => box'[s] = "down"
         /\ box'[s] # box[s] => box[s] = "up" /\ box'[s] = "stopping"
  BY DEF Kill

LEMMA PhasesKept ==
  ASSUME Typed, Phases, Next
  PROVE  Phases'
<1> USE DEF Typed
<1>1. CASE MainThread \/ DockerFails
  BY <1>1, MainSteps
<1>2. CASE PollThread \/ DeliveryThread
  <2>1. UNCHANGED <<main, sim>>
    BY <1>2 DEF PollThread, DeliveryThread, Poll, NotifyStart, NotifyStep, NotifyDecision, NotifyStop
  <2>2. box' = box \/ \E seats, refused : Kill(seats, refused)
    BY <1>2 DEF PollThread, DeliveryThread, Poll, NotifyStart, NotifyStep, NotifyDecision, NotifyStop
  <2>3. \A s \in Seats : box[s] = "down" => box'[s] = "down"
    BY <2>2, KillLeavesTheDead
  <2>4. QED
    BY <2>1, <2>3 DEF Phases
<1>3. CASE SimProcess \/ Agents \/ SimCrashes
  <2>1. main' = main
    BY <1>3 DEF SimProcess, Agents, SimCrashes
  <2>2. \/ sim' = sim
        \/ sim.pc \in {"booting", "running"} /\ sim'.pc \in {"running", "over"}
    BY <1>3 DEF SimProcess, Agents, SimCrashes, SimBegins, Answers, StreamBreaks, StepEnds, SimEnds,
                SimFails, AgentExits, AgentStops, SimTyped, SimState
  <2>3. \A s \in Seats : box[s] = "down" => box'[s] = "down"
    BY <1>3 DEF SimProcess, Agents, SimCrashes, SimBegins, Answers, StreamBreaks, StepEnds, SimEnds,
                SimFails, AgentExits, AgentStops, SimTyped
  <2>4. QED
    BY <2>1, <2>2, <2>3, RestFields DEF Phases, Early, Late
<1>4. CASE Clock \/ Peers \/ Deploy
  BY <1>4 DEF Clock, Tick, Peers, Deploy, simVars, Phases
<1>5. CASE DaemonDies
  <2>1. main'.pc = "down" /\ main'.result = NoResult /\ sim' = SimRest("none")
    BY <1>5 DEF DaemonDies, Dies, MainRest
  <2>2. QED
    BY <2>1 DEF Phases, NoResult, Late
<1>6. QED
  BY <1>1, <1>2, <1>3, <1>4, <1>5 DEF Next

------------------------------------------------------------------------------
(* The docker host: whose resources are on it, and why.                    *)

\* Who is alive was listed or has booted since.
Listed == main.pc \notin {"down", "list"} => alive \subseteq main.seen \union newcomers

\* What the sweep has left of others is of somebody listed, or of a newcomer.
Swept ==
  \A r \in docker \ strays : r.owner # me =>
     /\ Booted => r.owner \in main.seen \union newcomers
     /\ main.pc = "sweepNetworks" /\ r.what \in Containers => r.owner \in main.seen \union newcomers

\* What is the daemon's own is in one of run_match's lists, or it is the probe
\* or a leftover; and when the networks' turn comes there are only networks.
OwnHeld ==
  \A r \in docker \ strays : r.owner = me =>
     \/ r.what \in main.held
     \/ r.what = Probe /\ main.pc = "probing"
     \/ r \in leftovers

NetsLast == main.pc = "cleanNets" => main.held \subseteq Networks

DockerInv == Listed /\ Swept /\ OwnHeld /\ NetsLast

LEMMA MainFields ==
  ASSUME MainTyped
  PROVE  DOMAIN main = {"pc", "n", "seen", "held", "result"}
  BY DEF MainTyped, MainState

\* What removals leave that is not a stray.
LEMMA RemovesLeaves ==
  ASSUME NEW gone, NEW left, left \subseteq gone, Removes(gone, left)
  PROVE  /\ docker' \ strays' = (docker \ strays) \ gone
         /\ UNCHANGED <<alive, me, leftovers, newcomers>>
  BY DEF Removes

LEMMA CreatesAdds ==
  ASSUME NEW what
  PROVE  /\ Creates(what) => docker' \ strays' \subseteq (docker \ strays) \union Mine({what})
         /\ \A made \in BOOLEAN : CreateRaises(what, made) =>
              docker' \ strays' \subseteq docker \ strays
         /\ Creates(what) \/ (\E made \in BOOLEAN : CreateRaises(what, made)) =>
              UNCHANGED <<alive, me, leftovers, newcomers>>
  BY DEF Creates, CreateRaises

LEMMA DockerSteady ==
  ASSUME Typed, DockerInv, docker' \ strays' \subseteq docker \ strays,
         UNCHANGED <<alive, me, leftovers, newcomers>>,
         main'.seen = main.seen, main'.held = main.held,
         main'.pc = main.pc \/ main'.pc \notin {"sweepContainers", "sweepNetworks"},
         main.pc # "probing" \/ main'.pc = "probing",
         main.pc \in {"down", "list"} => main'.pc \in {"down", "list"},
         main.pc \in {"sweepContainers", "sweepNetworks"} => main'.pc = main.pc,
         NetsLast'
  PROVE  DockerInv'
<1>1. Listed'
  BY DEF DockerInv, Listed
<1>2. Swept'
  BY DEF DockerInv, Swept, Booted
<1>3. OwnHeld'
  BY DEF DockerInv, OwnHeld
<1>4. QED
  BY <1>1, <1>2, <1>3 DEF DockerInv

LEMMA BootKeepsDocker ==
  ASSUME Typed, DockerInv, Boots \/ SweepLists \/ BeginsMatch
  PROVE  DockerInv'
<1> USE MainFields DEF Typed, At
<1>1. CASE Boots \/ BeginsMatch
  <2>1. /\ UNCHANGED <<docker, strays, alive, me, leftovers, newcomers>>
        /\ main'.held = main.held /\ main'.seen = main.seen
        /\ \/ main.pc = "down" /\ main'.pc = "list"
           \/ main.pc = "idle" /\ main'.pc = "nets"
    BY <1>1 DEF Boots, BeginsMatch, GoesOn, dockerVars
  <2>2. QED
    BY <2>1, DockerSteady DEF NetsLast
<1>2. CASE SweepLists
  <2>1. /\ UNCHANGED <<docker, strays, alive, me, leftovers>> /\ newcomers' = {}
        /\ main'.pc = "sweepContainers" /\ main'.seen = alive /\ main'.held = main.held
        /\ main.pc = "list"
    BY <1>2 DEF SweepLists
  <2>2. QED
    BY <2>1 DEF DockerInv, Listed, Swept, OwnHeld, NetsLast, Booted
<1>3. QED
  BY <1>1, <1>2

LEMMA SweepKeepsDocker ==
  ASSUME Typed, DockerInv, NEW left, SweepsContainers(left) \/ SweepsNetworks(left)
  PROVE  DockerInv'
<1> USE MainFields DEF Typed, At
<1>1. PICK whats, next :
        /\ Sweeps(main.pc, whats, next, left)
        /\ \/ main.pc = "sweepContainers" /\ next = "sweepNetworks" /\ whats = Containers
           \/ main.pc = "sweepNetworks" /\ next = "idle" /\ whats = Networks
  BY DEF SweepsContainers, SweepsNetworks, Sweeps
<1>2. /\ docker' \ strays' = (docker \ strays) \ Orphans(whats, main.seen)
      /\ UNCHANGED <<alive, me, leftovers, newcomers>>
  BY <1>1, RemovesLeaves DEF Sweeps
<1>3. main'.pc = next /\ main'.held = main.held /\ main'.seen = main.seen
  BY <1>1 DEF Sweeps, GoesOn
<1>4. Listed' /\ NetsLast'
  BY <1>1, <1>2, <1>3 DEF DockerInv, Listed, NetsLast
<1>5. OwnHeld'
  BY <1>1, <1>2, <1>3 DEF DockerInv, OwnHeld
<1>6. ASSUME NEW r \in docker' \ strays', r.owner # me, r.what \in Containers
      PROVE  r.owner \in main.seen \union newcomers
  BY <1>1, <1>2, <1>6 DEF DockerInv, Swept, Orphans
<1>7. ASSUME NEW r \in docker' \ strays', r.owner # me, next = "idle", r.what \in Networks
      PROVE  r.owner \in main.seen \union newcomers
  BY <1>1, <1>2, <1>7 DEF Orphans
<1>8. \A r \in docker' \ strays' : r.what \in Containers \union Networks
  BY <1>2 DEF DockerTyped, Resource
<1>9. Swept'
  BY <1>1, <1>2, <1>3, <1>6, <1>7, <1>8 DEF Swept, Booted
<1>10. QED
  BY <1>4, <1>5, <1>9 DEF DockerInv

\* A create call that answers, of something that is held from then on.
LEMMA CreationKeepsDocker ==
  ASSUME Typed, DockerInv, MakesNet \/ RunsAgent \/ ProbeStarts \/ MakesSimNet \/ CreatesSim
  PROVE  DockerInv'
<1> USE MainFields DEF Typed, At
<1>1. PICK what :
        /\ Creates(what)
        /\ main'.held = main.held \union {what}
           \/ (what = Probe /\ main'.pc = "probing" /\ main'.held = main.held)
        /\ main'.seen = main.seen
        /\ main.pc \in {"nets", "agents", "probe", "simnet", "create"}
        /\ main'.pc \in {"nets", "agents", "ready", "probing", "attach", "start"}
  <2>1. CASE MakesNet
    BY <2>1 DEF MakesNet
  <2>2. CASE RunsAgent
    BY <2>2 DEF RunsAgent
  <2>3. CASE ProbeStarts
    BY <2>3 DEF ProbeStarts, GoesOn
  <2>4. CASE MakesSimNet \/ CreatesSim
    BY <2>4 DEF MakesSimNet, CreatesSim, Holds
  <2>5. QED
    BY <2>1, <2>2, <2>3, <2>4
<1>2. /\ docker' \ strays' \subseteq (docker \ strays) \union Mine({what})
      /\ UNCHANGED <<alive, me, leftovers, newcomers>>
  BY <1>1, CreatesAdds
<1>3. \A r \in Mine({what}) : r.what = what /\ r.owner = me
  BY DEF Mine, Owned
<1>4. Listed' /\ NetsLast'
  BY <1>1, <1>2 DEF DockerInv, Listed, NetsLast
<1>5. Swept'
  BY <1>1, <1>2, <1>3 DEF DockerInv, Swept, Booted
<1>6. OwnHeld'
  BY <1>1, <1>2, <1>3 DEF DockerInv, OwnHeld
<1>7. QED
  BY <1>4, <1>5, <1>6 DEF DockerInv

LEMMA CleanupKeepsDocker ==
  ASSUME Typed, DockerInv, NEW left,
         \/ CleansContainers(left) \/ CleansNetworks(left)
         \/ (\E failed : ProbeEnds(failed, left)) \/ ProbeBreaks(left)
  PROVE  DockerInv'
<1> USE MainFields DEF Typed, At
<1>1. CASE CleansContainers(left)
  <2>1. /\ docker' \ strays' = (docker \ strays) \ Mine(main.held \intersect Containers)
        /\ UNCHANGED <<alive, me, leftovers, newcomers>>
    BY <1>1, RemovesLeaves DEF CleansContainers
  <2>2. /\ main.pc = "clean" /\ main'.pc = "cleanNets"
        /\ main'.held = main.held \ Containers /\ main'.seen = main.seen
    BY <1>1 DEF CleansContainers
  <2>3. main.held \subseteq Containers \union Networks
    BY DEF MainTyped, MainState
  <2>4. \A r \in docker \ strays : r = [what |-> r.what, owner |-> r.owner]
    BY DEF DockerTyped, Resource
  <2>5. \A r \in docker' \ strays' : r.owner = me /\ r.what \in main.held => r.what \in main'.held
    BY <2>1, <2>2, <2>4 DEF Mine, Owned
  <2>6. Listed' /\ NetsLast' /\ Swept'
    BY <2>1, <2>2, <2>3 DEF DockerInv, Listed, NetsLast, Swept, Booted
  <2>7. OwnHeld'
    BY <2>1, <2>2, <2>5 DEF DockerInv, OwnHeld
  <2>8. QED
    BY <2>6, <2>7 DEF DockerInv
<1>2. CASE CleansNetworks(left)
  <2>1. /\ docker' \ strays' = (docker \ strays) \ Mine(main.held \intersect Networks)
        /\ UNCHANGED <<alive, me, leftovers, newcomers>>
    BY <1>2, RemovesLeaves DEF CleansNetworks
  <2>2. /\ main.pc = "cleanNets" /\ main'.pc = "stop"
        /\ main'.held = {} /\ main'.seen = main.seen
    BY <1>2 DEF CleansNetworks
  <2>3. main.held \subseteq Networks
    BY <2>2 DEF DockerInv, NetsLast
  <2>4. \A r \in docker \ strays : r = [what |-> r.what, owner |-> r.owner]
    BY DEF DockerTyped, Resource
  <2>5. \A r \in docker' \ strays' : r.owner = me => r.what \notin main.held
    BY <2>1, <2>3, <2>4 DEF Mine, Owned
  <2>6. Listed' /\ NetsLast' /\ Swept'
    BY <2>1, <2>2 DEF DockerInv, Listed, NetsLast, Swept, Booted
  <2>7. OwnHeld'
    BY <2>1, <2>2, <2>5 DEF DockerInv, OwnHeld
  <2>8. QED
    BY <2>6, <2>7 DEF DockerInv
<1>3. CASE (\E failed : ProbeEnds(failed, left)) \/ ProbeBreaks(left)
  <2>1. /\ docker' \ strays' = (docker \ strays) \ Mine({Probe})
        /\ UNCHANGED <<alive, me, leftovers, newcomers>>
    BY <1>3, RemovesLeaves DEF ProbeEnds, ProbeBreaks
  <2>2. /\ main.pc = "probing" /\ main'.pc \in {"monitor", "clean"}
        /\ main'.held = main.held /\ main'.seen = main.seen
    BY <1>3 DEF ProbeEnds, ProbeBreaks, GoesOn, Gives, Raises
  <2>3. \A r \in docker \ strays : r = [what |-> r.what, owner |-> r.owner]
    BY DEF DockerTyped, Resource
  <2>4. \A r \in docker' \ strays' : r.owner = me => r.what # Probe
    BY <2>1, <2>3 DEF Mine, Owned
  <2>5. Listed' /\ NetsLast' /\ Swept'
    BY <2>1, <2>2 DEF DockerInv, Listed, NetsLast, Swept, Booted
  <2>6. OwnHeld'
    BY <2>1, <2>2, <2>4 DEF DockerInv, OwnHeld
  <2>7. QED
    BY <2>5, <2>6 DEF DockerInv
<1>4. QED
  BY <1>1, <1>2, <1>3

\* The other steps of the main thread create nothing and remove nothing.
LEMMA OthersKeepDocker ==
  ASSUME Typed, DockerInv,
         \/ ImageMissing \/ AgentsUp \/ ProbeRefused \/ Monitors \/ Attaches \/ StartsSim
         \/ WaitEnds \/ WaitBreaks \/ LogsBreak \/ StopsObserving
         \/ \E made \in BOOLEAN : MakesNothing(made)
  PROVE  DockerInv'
<1> USE MainFields DEF Typed, At
<1>1. /\ main'.held = main.held /\ main'.seen = main.seen
      /\ main.pc \in {"nets", "agents", "ready", "probe", "monitor", "simnet", "attach", "create",
                      "start", "wait", "stop"}
      /\ main'.pc \in {"clean", "probe", "simnet", "create", "wait", "over"}
  BY DEF ImageMissing, AgentsUp, ProbeRefused, Monitors, Attaches, StartsSim, WaitEnds, WaitBreaks,
         LogsBreak, StopsObserving, MakesNothing, GoesOn, Gives, Raises
<1>2. /\ docker' \ strays' \subseteq docker \ strays
      /\ UNCHANGED <<alive, me, leftovers, newcomers>>
  BY CreatesAdds DEF ImageMissing, AgentsUp, ProbeRefused, Monitors, Attaches, StartsSim, WaitEnds,
         WaitBreaks, LogsBreak, StopsObserving, MakesNothing, dockerVars
<1>3. QED
  BY <1>1, <1>2, DockerSteady DEF NetsLast

LEMMA PeersKeepDocker ==
  ASSUME Typed, DockerInv, Peers \/ Deploy
  PROVE  DockerInv'
<1> USE DEF Typed, At
<1>1. main' = main
  BY DEF Peers, Deploy
<1>2. CASE Peers
  <2>1. ~Booted
    BY <1>2 DEF Peers
  <2>2. PICK p \in Runners : PeerBoots(p) \/ PeerPlays(p) \/ PeerLeaves(p)
    BY <1>2 DEF Peers
  <2>3. CASE PeerBoots(p)
    BY <1>1, <2>1, <2>3 DEF PeerBoots, DockerInv, Listed, Swept, OwnHeld, NetsLast, Booted
  <2>4. CASE PeerLeaves(p)
    BY <1>1, <2>1, <2>4 DEF PeerLeaves, DockerInv, Listed, Swept, OwnHeld, NetsLast, Booted
  <2>5. CASE PeerPlays(p)
    <3>1. /\ p \in alive /\ p # me /\ UNCHANGED <<alive, me, strays, leftovers, newcomers>>
          /\ docker' \subseteq docker \union Owned({Agent(0), Net(0)}, p)
      BY <2>5 DEF PeerPlays
    <3>2. \A r \in Owned({Agent(0), Net(0)}, p) : r.owner = p
      BY DEF Owned
    <3>3. QED
      BY <1>1, <2>1, <3>1, <3>2 DEF DockerInv, Listed, Swept, OwnHeld, NetsLast, Booted
  <2>6. QED
    BY <2>2, <2>3, <2>4, <2>5
<1>3. CASE Deploy
  <2>1. PICK id \in Runners : Recreated(id)
    BY <1>3 DEF Deploy
  <2>2. /\ main.pc = "down" /\ me' = id /\ UNCHANGED <<docker, strays, leftovers, newcomers>>
        /\ Owned(Containers \union Networks, id) \intersect docker = {}
    BY <1>3, <2>1 DEF Deploy, Recreated
  <2>3. \A r \in docker : r.owner # id
    BY <2>2 DEF Owned, DockerTyped, Resource
  <2>4. QED
    BY <1>1, <2>2, <2>3 DEF DockerInv, Listed, Swept, OwnHeld, NetsLast, Booted
<1>4. QED
  BY <1>2, <1>3

LEMMA DockerKept ==
  ASSUME Typed, DockerInv, Next
  PROVE  DockerInv'
<1> USE DEF Typed
<1>1. CASE MainThread \/ DockerFails
  BY <1>1, BootKeepsDocker, SweepKeepsDocker, CreationKeepsDocker, CleanupKeepsDocker, OthersKeepDocker
     DEF MainThread, DockerFails
<1>2. CASE PollThread \/ DeliveryThread \/ SimProcess \/ Agents \/ SimCrashes \/ Clock
  BY <1>2 DEF PollThread, DeliveryThread, SimProcess, Agents, SimCrashes, Clock, dockerVars,
              DockerInv, Listed, Swept, OwnHeld, NetsLast, Booted
<1>3. CASE DaemonDies
  <2>1. /\ main'.pc = "down" /\ leftovers' = leftovers \union {r \in docker : r.owner = me}
        /\ UNCHANGED <<docker, alive, me, strays, newcomers>>
    BY <1>3 DEF DaemonDies, Dies, MainRest
  <2>2. QED
    BY <2>1 DEF DockerInv, Listed, Swept, OwnHeld, NetsLast, Booted
<1>4. CASE Peers \/ Deploy
  BY <1>4, PeersKeepDocker
<1>5. QED
  BY <1>1, <1>2, <1>3, <1>4 DEF Next

------------------------------------------------------------------------------
(* The queue: what appending an event, or delivering one, does to it.      *)

\* An answer of s that no step has followed.
AnswerQueued(s) ==
  \E i \in 1 .. Len(queue) :
    /\ queue[i].kind = "decision" /\ s \in queue[i].seats
    /\ \A k \in i + 1 .. Len(queue) : queue[k].kind # "step"

LEMMA Appending ==
  ASSUME queue \in Seq(Events), NEW e \in Events, queue' = Append(queue, e)
  PROVE  /\ Len(queue) \in Nat /\ Len(queue') = Len(queue) + 1 /\ queue'[Len(queue) + 1] = e
         /\ \A i \in 1 .. Len(queue) : queue'[i] = queue[i]
         /\ \A kind : Pending(kind)' <=> Pending(kind) \/ e.kind = kind
         /\ \A s : AnswerQueued(s) /\ e.kind # "step" => AnswerQueued(s)'
         /\ \A s : e.kind = "decision" /\ s \in e.seats => AnswerQueued(s)'
<1>1. /\ Len(queue) \in Nat /\ Len(queue') = Len(queue) + 1 /\ queue'[Len(queue) + 1] = e
      /\ \A i \in 1 .. Len(queue) : queue'[i] = queue[i]
  BY AppendProperties
<1>2. 1 .. Len(queue') = (1 .. Len(queue)) \union {Len(queue) + 1}
  BY <1>1
<1>3. \A kind : Pending(kind)' <=> Pending(kind) \/ e.kind = kind
  BY <1>1, <1>2 DEF Pending
<1>4. ASSUME NEW s, AnswerQueued(s), e.kind # "step"
      PROVE  AnswerQueued(s)'
  <2>1. PICK i \in 1 .. Len(queue) :
          /\ queue[i].kind = "decision" /\ s \in queue[i].seats
          /\ \A k \in i + 1 .. Len(queue) : queue[k].kind # "step"
    BY <1>4 DEF AnswerQueued
  <2>2. \A k \in i + 1 .. Len(queue') : k \in i + 1 .. Len(queue) \/ k = Len(queue) + 1
    BY <1>1, <2>1
  <2>3. \A k \in i + 1 .. Len(queue') : queue'[k].kind # "step"
    BY <1>1, <1>4, <2>1, <2>2
  <2>4. QED
    BY <1>1, <1>2, <2>1, <2>3 DEF AnswerQueued
<1>5. ASSUME NEW s, e.kind = "decision", s \in e.seats
      PROVE  AnswerQueued(s)'
  <2>1. ~\E k \in Len(queue) + 2 .. Len(queue') : TRUE
    BY <1>1
  <2>2. Len(queue) + 1 \in 1 .. Len(queue') /\ Len(queue) + 1 + 1 = Len(queue) + 2
    BY <1>1
  <2>3. QED
    BY <1>1, <1>5, <2>1, <2>2 DEF AnswerQueued
<1>6. QED
  BY <1>1, <1>3, <1>4, <1>5

LEMMA Delivering ==
  ASSUME queue \in Seq(Events), NEW kind, Delivers(kind)
  PROVE  /\ Len(queue) \in Nat \ {0} /\ Len(queue') = Len(queue) - 1
         /\ Head(queue) = queue[1] /\ queue[1].kind = kind
         /\ \A i \in 1 .. Len(queue') : queue'[i] = queue[i + 1]
         /\ \A k : Pending(k) <=> Pending(k)' \/ kind = k
         /\ \A s : AnswerQueued(s) =>
              \/ AnswerQueued(s)'
              \/ kind = "decision" /\ s \in Head(queue).seats /\ ~Pending("step")'
<1>1. /\ Len(queue) \in Nat \ {0} /\ Len(queue') = Len(queue) - 1
      /\ Head(queue) = queue[1] /\ queue[1].kind = kind
      /\ \A i \in 1 .. Len(queue') : queue'[i] = queue[i + 1]
  BY HeadTailProperties DEF Delivers
<1>2. \A i \in 1 .. Len(queue) : i = 1 \/ (i - 1 \in 1 .. Len(queue') /\ queue'[i - 1] = queue[i])
  BY <1>1
<1>3. \A i \in 1 .. Len(queue') : i + 1 \in 1 .. Len(queue)
  BY <1>1
<1>4. \A k : Pending(k) <=> Pending(k)' \/ kind = k
  <2>1. ASSUME NEW k, Pending(k)
        PROVE  Pending(k)' \/ kind = k
    BY <1>1, <1>2, <2>1 DEF Pending
  <2>2. ASSUME NEW k, Pending(k)'
        PROVE  Pending(k)
    BY <1>1, <1>3, <2>2 DEF Pending
  <2>3. 1 \in 1 .. Len(queue)
    BY <1>1
  <2>4. QED
    BY <1>1, <2>1, <2>2, <2>3 DEF Pending
<1>5. ASSUME NEW s, AnswerQueued(s)
      PROVE  AnswerQueued(s)' \/ (kind = "decision" /\ s \in Head(queue).seats /\ ~Pending("step")')
  <2>1. PICK i \in 1 .. Len(queue) :
          /\ queue[i].kind = "decision" /\ s \in queue[i].seats
          /\ \A k \in i + 1 .. Len(queue) : queue[k].kind # "step"
    BY <1>5 DEF AnswerQueued
  <2>2. \A k \in i .. Len(queue') : queue'[k].kind # "step"
    <3>1. \A k \in i .. Len(queue') : k \in 1 .. Len(queue') /\ k + 1 \in i + 1 .. Len(queue)
      BY <1>1, <2>1
    <3>2. QED
      BY <1>1, <2>1, <3>1
  <2>3. CASE i = 1
    BY <1>1, <2>1, <2>2, <2>3 DEF Pending
  <2>4. CASE i # 1
    <3>1. i - 1 \in 1 .. Len(queue') /\ queue'[i - 1] = queue[i] /\ i - 1 + 1 = i
      BY <1>2, <2>1, <2>4
    <3>2. QED
      BY <2>1, <2>2, <3>1 DEF AnswerQueued
  <2>5. QED
    BY <2>3, <2>4
<1>6. QED
  BY <1>1, <1>4, <1>5

LEMMA QueueSame ==
  ASSUME queue' = queue
  PROVE  /\ \A kind : Pending(kind)' <=> Pending(kind)
         /\ \A s : AnswerQueued(s)' <=> AnswerQueued(s)
  BY DEF Pending, AnswerQueued

LEMMA QueueEmpty ==
  /\ queue = <<>> => \A kind : ~Pending(kind)
  /\ queue' = <<>> => \A kind : ~Pending(kind)'
  BY DEF Pending

------------------------------------------------------------------------------
(* The game and what is queued of it.                                      *)

Untouched == \A s \in Seats : tracker[s] = NewTracker

\* Until the game begins nothing is queued, and no tracker has been touched.
Quiet ==
  sim.pc \in {"none", "created", "booting"} =>
    sim = SimRest(sim.pc) /\ queue = <<>> /\ Untouched

\* The start is delivered before everything else, and tells who plays.
StartFirst ==
  /\ \A i \in 2 .. Len(queue) : queue[i].kind # "start"
  /\ Pending("start") =>
       Head(queue).seats = sim.tags /\ Untouched /\ (sim.step > 0 => Pending("step"))

\* The last step that is queued tells who is left.
LastStep ==
  \A i \in 1 .. Len(queue) :
    queue[i].kind = "step" /\ (\A k \in i + 1 .. Len(queue) : queue[k].kind # "step") =>
      queue[i].seats = sim.players

Game ==
  /\ sim.players \subseteq sim.tags
  /\ sim.step = 0 => sim.players = sim.tags
  /\ sim.step = MaxSteps => sim.thinking = {}
  /\ sim.ok => sim.pc = "over" /\ (sim.players = {} \/ sim.step = MaxSteps)

\* Only who is not in the game is taken for one that failed to start.
Absentees == \A s \in Seats : tracker[s].reason = "init_failure" => s \notin sim.tags

GameInv == Quiet /\ StartFirst /\ LastStep /\ Game /\ Absentees

LEMMA NewTrackerFields ==
  /\ NewTracker.reason = "none" /\ NewTracker.startup /\ ~NewTracker.responded
  /\ NewTracker.cpu = 0 /\ NewTracker.wall = 0
  BY DEF NewTracker

LEMMA UntouchedSeats ==
  ASSUME Untouched, NEW s \in Seats
  PROVE  ~Killed(s) /\ ~Watched(s)
  BY NewTrackerFields DEF Untouched, Killed, Watched

\* Sim and queue as they were.
LEMMA GameSteady ==
  ASSUME GameInv, UNCHANGED <<sim, queue>>,
         Untouched => tracker' = tracker,
         \A s \in Seats : tracker'[s].reason = "init_failure" => tracker[s].reason = "init_failure"
  PROVE  GameInv'
<1>1. Untouched => Untouched'
  BY DEF Untouched
<1>2. Quiet' /\ StartFirst' /\ LastStep' /\ Game'
  BY <1>1, QueueSame DEF GameInv, Quiet, StartFirst, LastStep, Game
<1>3. Absentees'
  BY DEF GameInv, Absentees
<1>4. QED
  BY <1>2, <1>3 DEF GameInv

\* The sim's process ends.
LEMMA GameBreaksOff ==
  ASSUME Typed, GameInv, sim' = [sim EXCEPT !.pc = "over"], UNCHANGED <<queue, tracker>>
  PROVE  GameInv'
<1>1. /\ sim'.pc = "over" /\ sim'.tags = sim.tags /\ sim'.players = sim.players
      /\ sim'.thinking = sim.thinking /\ sim'.step = sim.step /\ sim'.ok = sim.ok
  BY DEF Typed, SimTyped, SimState
<1>2. Untouched' <=> Untouched
  BY DEF Untouched
<1>3. Quiet' /\ StartFirst' /\ LastStep' /\ Game'
  BY <1>1, <1>2, QueueSame DEF GameInv, Quiet, StartFirst, LastStep, Game
<1>4. Absentees'
  BY <1>1 DEF GameInv, Absentees
<1>5. QED
  BY <1>3, <1>4 DEF GameInv

\* The sim as it is made and launched.
LEMMA GameAtRest ==
  ASSUME NEW pc, sim' = SimRest(pc), queue' = <<>>, Untouched'
  PROVE  GameInv'
<1>1. MaxSteps # 0
  BY SimAssumption
<1>2. Quiet' /\ Game'
  BY <1>1, RestFields DEF Quiet, Game
<1>3. StartFirst' /\ LastStep'
  BY QueueEmpty DEF StartFirst, LastStep
<1>4. Absentees'
  BY RestFields DEF Absentees
<1>5. QED
  BY <1>2, <1>3, <1>4 DEF GameInv

\* An event is delivered.
LEMMA GameDelivered ==
  ASSUME Typed, GameInv, NEW kind, Delivers(kind), sim' = sim,
         \A s \in Seats : tracker'[s].reason = "init_failure" =>
           tracker[s].reason = "init_failure" \/ s \notin sim.tags
  PROVE  GameInv'
<1>1. /\ Len(queue) \in Nat \ {0} /\ Len(queue') = Len(queue) - 1
      /\ \A i \in 1 .. Len(queue') : queue'[i] = queue[i + 1]
  BY Delivering DEF Typed, SimTyped
<1>2. queue # <<>>
  BY DEF Delivers
<1>3. Quiet'
  BY <1>2 DEF GameInv, Quiet
<1>4. StartFirst'
  <2>1. \A i \in 1 .. Len(queue') : i + 1 \in 2 .. Len(queue)
    BY <1>1
  <2>2. \A i \in 1 .. Len(queue') : queue'[i].kind # "start"
    BY <1>1, <2>1 DEF GameInv, StartFirst
  <2>3. 2 .. Len(queue') \subseteq 1 .. Len(queue')
    OBVIOUS
  <2>4. QED
    BY <2>2, <2>3 DEF StartFirst, Pending
<1>5. LastStep'
  <2>1. SUFFICES ASSUME NEW i \in 1 .. Len(queue'), queue'[i].kind = "step",
                        \A k \in i + 1 .. Len(queue') : queue'[k].kind # "step"
                 PROVE  queue'[i].seats = sim.players
    BY DEF LastStep
  <2>2. i + 1 \in 1 .. Len(queue) /\ queue'[i] = queue[i + 1]
    BY <1>1
  <2>3. \A k \in i + 1 + 1 .. Len(queue) :
          k - 1 \in i + 1 .. Len(queue') /\ k - 1 \in 1 .. Len(queue') /\ k - 1 + 1 = k
    <3>1. Len(queue) \in Nat /\ Len(queue') = Len(queue) - 1 /\ i \in Nat /\ i > 0
      BY <1>1
    <3>2. QED
      BY <3>1
  <2>4. ASSUME NEW k \in i + 1 + 1 .. Len(queue)
        PROVE  queue[k].kind # "step"
    <3>1. queue'[k - 1] = queue[k - 1 + 1]
      BY <1>1, <2>3
    <3>2. queue'[k - 1] = queue[k] /\ queue'[k - 1].kind # "step"
      BY <2>1, <2>3, <3>1
    <3>3. QED
      BY <3>2
  <2>5. QED
    BY <2>1, <2>2, <2>4 DEF GameInv, LastStep
<1>6. Game'
  BY DEF GameInv, Game
<1>7. Absentees'
  BY DEF GameInv, Absentees
<1>8. QED
  BY <1>3, <1>4, <1>5, <1>6, <1>7 DEF GameInv

\* The sim plays on and sends an event; the last conjunct is for a step.
LEMMA GamePlayedOn ==
  ASSUME Typed, GameInv, NEW e \in Events, queue' = Append(queue, e), e.kind # "start",
         sim.pc = "running", sim'.pc \in {"running", "over"}, sim'.tags = sim.tags,
         tracker' = tracker, Game',
         IF e.kind = "step" THEN e.seats = sim'.players
         ELSE sim'.players = sim.players /\ sim'.step = sim.step
  PROVE  GameInv'
<1>1. /\ Len(queue) \in Nat /\ Len(queue') = Len(queue) + 1 /\ queue'[Len(queue) + 1] = e
      /\ \A i \in 1 .. Len(queue) : queue'[i] = queue[i]
      /\ \A kind : Pending(kind)' <=> Pending(kind) \/ e.kind = kind
  BY Appending DEF Typed, SimTyped
<1>2. 1 .. Len(queue') = (1 .. Len(queue)) \union {Len(queue) + 1}
  BY <1>1
<1>3. Quiet'
  BY DEF Quiet
<1>4. StartFirst'
  <2>1. \A i \in 2 .. Len(queue') : (i \in 1 .. Len(queue) /\ i \in 2 .. Len(queue)) \/ i = Len(queue) + 1
    BY <1>1
  <2>2. \A i \in 2 .. Len(queue') : queue'[i].kind # "start"
    BY <1>1, <2>1 DEF GameInv, StartFirst
  <2>3. ASSUME Pending("start")
        PROVE  Head(queue') = Head(queue)
    <3>1. queue # <<>> /\ 1 \in 1 .. Len(queue)
      BY <1>1, <2>3 DEF Pending
    <3>2. queue' # <<>> /\ queue' \in Seq(Events)
      BY <1>1, <3>1, AppendProperties DEF Typed, SimTyped
    <3>3. QED
      BY <1>1, <3>1, <3>2, HeadTailProperties DEF Typed, SimTyped
  <2>4. Untouched' <=> Untouched
    BY DEF Untouched
  <2>5. QED
    <3>1. ASSUME Pending("start")'
          PROVE  /\ Head(queue)'.seats = sim'.tags /\ Untouched'
                 /\ (sim'.step > 0 => Pending("step")')
      <4>1. Pending("start")
        BY <1>1, <3>1
      <4>2. Head(queue).seats = sim.tags /\ Untouched /\ (sim.step > 0 => Pending("step"))
        BY <4>1 DEF GameInv, StartFirst
      <4>3. sim'.step > 0 => Pending("step")'
        BY <1>1, <4>2
      <4>4. QED
        BY <2>3, <2>4, <4>1, <4>2, <4>3
    <3>2. QED
      BY <2>2, <3>1 DEF StartFirst
<1>5. LastStep'
  <2>1. SUFFICES ASSUME NEW i \in 1 .. Len(queue'), queue'[i].kind = "step",
                        \A k \in i + 1 .. Len(queue') : queue'[k].kind # "step"
                 PROVE  queue'[i].seats = sim'.players
    BY DEF LastStep
  <2>2. CASE i = Len(queue) + 1
    BY <1>1, <2>1, <2>2
  <2>3. CASE i \in 1 .. Len(queue)
    <3>1. Len(queue) + 1 \in i + 1 .. Len(queue')
      BY <1>1, <2>3
    <3>2. e.kind # "step"
      BY <1>1, <2>1, <3>1
    <3>3. \A k \in i + 1 .. Len(queue) : k \in 1 .. Len(queue) /\ k \in i + 1 .. Len(queue')
      BY <1>1, <2>3
    <3>4. \A k \in i + 1 .. Len(queue) : queue[k].kind # "step"
      BY <1>1, <2>1, <3>3
    <3>5. QED
      BY <1>1, <2>1, <2>3, <3>2, <3>4 DEF GameInv, LastStep
  <2>4. QED
    BY <1>2, <2>2, <2>3
<1>6. Absentees'
  BY DEF GameInv, Absentees
<1>7. QED
  BY <1>3, <1>4, <1>5, <1>6 DEF GameInv

\* What the steps of the threads and of the clock may do to a tracker.
LEMMA PollTrackers ==
  ASSUME NEW refused, Poll(refused), NEW s \in Seats
  PROVE  /\ tracker'[s] = tracker[s] \/
              /\ Watched(s) /\ ~Unreadable(s) /\ Verdict(s) # "none"
              /\ tracker'[s] = Shot(s, Verdict(s))
         /\ UNCHANGED <<sim, queue, used, timed>>
         /\ box[s] = "down" => box'[s] = "down"
         /\ ~blind' => ~blind
<1> DEFINE due == {x \in Seats : Watched(x)}
<1> DEFINE over == {x \in due \intersect Before(due) : Verdict(x) # "none"}
<1>1. /\ Kill(over, refused)
      /\ tracker' = [x \in Seats |-> IF x \in over THEN Shot(x, Verdict(x)) ELSE tracker[x]]
      /\ blind' = (blind \/ \E x \in due : Unreadable(x))
      /\ UNCHANGED <<sim, queue, used, timed>>
  BY DEF Poll
<1>2. s \in over => Watched(s) /\ ~Unreadable(s) /\ Verdict(s) # "none"
  BY SeatsAreNats DEF Before
<1>3. tracker'[s] = IF s \in over THEN Shot(s, Verdict(s)) ELSE tracker[s]
  BY <1>1
<1>4. box[s] = "down" => box'[s] = "down"
  BY <1>1, KillLeavesTheDead
<1> HIDE DEF over, due
<1>5. ~blind' => ~blind
  BY <1>1
<1>6. QED
  BY <1>1, <1>2, <1>3, <1>4, <1>5

LEMMA ShotFields ==
  ASSUME NEW s, NEW reason
  PROVE  /\ Shot(s, reason).reason = reason /\ Shot(s, reason).cpu = 0 /\ Shot(s, reason).wall = 0
         /\ ~Shot(s, reason).startup
  BY DEF Shot, NewTracker

LEMMA VerdictReasons ==
  ASSUME NEW s, Verdict(s) # "none"
  PROVE  Verdict(s) \in {"per_step", "wall_clock"}
  BY DEF Verdict

LEMMA TickTrackers ==
  ASSUME Typed, NEW burns, Tick(burns), NEW s \in Seats
  PROVE  /\ tracker'[s] = tracker[s] \/
              /\ Watched(s)
              /\ tracker'[s].reason = tracker[s].reason
              /\ tracker'[s].startup = tracker[s].startup
              /\ tracker'[s].known = tracker[s].known
              /\ tracker'[s].responded = tracker[s].responded
              /\ tracker'[s].cpu = tracker[s].cpu \/
                   (s \in burns /\ tracker'[s].cpu = tracker[s].cpu + 1)
         /\ sim.thinking # {}
         /\ UNCHANGED <<box, sim, queue, timed, blind>>
<1>1. tracker[s] \in TrackerState
  BY DEF Typed, ManagerTyped
<1>2. tracker'[s] = IF Watched(s)
                    THEN [tracker[s] EXCEPT !.wall = @ + 1,
                            !.cpu = IF s \in burns /\ 2 * @ < MaxWall THEN @ + 1 ELSE @]
                    ELSE tracker[s]
  BY DEF Tick
<1>3. CASE ~Watched(s)
  BY <1>2, <1>3 DEF Tick
<1>4. CASE Watched(s)
  BY <1>1, <1>2, <1>4 DEF Tick, TrackerState
<1>5. QED
  BY <1>3, <1>4

\* notify_start, once it is known that nothing was touched before.
LEMMA StartTrackers ==
  ASSUME GameInv, NEW heavy, NEW refused, NotifyStart(heavy, refused),
         queue \in Seq(Events), NEW s \in Seats
  PROVE  /\ Untouched /\ Pending("start") /\ Delivers("start")
         /\ Head(queue).seats = sim.tags
         /\ UNCHANGED <<sim, used>> /\ timed' = {}
         /\ box[s] = "down" => box'[s] = "down"
         /\ ~blind' => ~blind
         /\ \/ tracker'[s] = Shot(s, "init_failure") /\ s \notin sim.tags
            \/ tracker'[s] = Shot(s, "startup_cpu")
            \/ /\ s \in sim.tags
               /\ tracker'[s] = [NewTracker EXCEPT !.startup = FALSE, !.known = TRUE]
            \/ tracker'[s] = tracker[s] /\ blind'
<1> DEFINE tags == Head(queue).seats
<1> DEFINE seen == tags \intersect Before(tags)
<1> DEFINE raised == seen # tags
<1> DEFINE active == seen \ heavy
<1> DEFINE absent == IF raised THEN {} ELSE Absent(active, heavy)
<1>1. /\ Delivers("start") /\ heavy \subseteq seen
      /\ Kill(heavy \union absent, refused)
      /\ tracker' = [x \in Seats |->
             IF x \in absent THEN Shot(x, "init_failure")
             ELSE IF x \in heavy THEN Shot(x, "startup_cpu")
             ELSE IF x \in active THEN [NewTracker EXCEPT !.startup = FALSE, !.known = TRUE]
             ELSE tracker[x]]
      /\ Survives(raised)
      /\ timed' = {}
      /\ UNCHANGED <<sim, used>>
  BY DEF NotifyStart
<1>2. Pending("start")
  BY <1>1, Delivering
<1>3. Untouched /\ tags = sim.tags
  BY <1>2 DEF GameInv, StartFirst
<1>4. blind' = (blind \/ raised)
  BY <1>1 DEF Survives
<1>5. ~Killed(s)
  BY <1>3, UntouchedSeats
<1>6. s \in absent => s \notin tags
  BY DEF Absent
<1>7. s \in active => s \in tags
  OBVIOUS
<1>8. ~raised /\ s \notin heavy /\ s \notin active => s \in absent
  BY <1>5 DEF Absent
<1>9. box[s] = "down" => box'[s] = "down"
  BY <1>1, KillLeavesTheDead
<1> HIDE DEF tags, seen, raised, active, absent
<1>10. tracker'[s] =
         IF s \in absent THEN Shot(s, "init_failure")
         ELSE IF s \in heavy THEN Shot(s, "startup_cpu")
         ELSE IF s \in active THEN [NewTracker EXCEPT !.startup = FALSE, !.known = TRUE]
         ELSE tracker[s]
  BY <1>1
<1>11. Head(queue).seats = sim.tags
  BY <1>3 DEF tags
<1>12. QED
  BY <1>1, <1>2, <1>3, <1>4, <1>6, <1>7, <1>8, <1>9, <1>10, <1>11

\* notify_step.
LEMMA StepTrackers ==
  ASSUME NEW broke, NEW wallBroke, NEW refused, NotifyStep(broke, wallBroke, refused),
         NEW s \in Seats
  PROVE  /\ Delivers("step") /\ UNCHANGED <<sim, used>>
         /\ box[s] = "down" => box'[s] = "down"
         /\ ~blind' => ~blind
         /\ Killed(s) => tracker'[s] = tracker[s]
         /\ timed \subseteq timed' /\ (~Killed(s) /\ ~blind' => s \in timed')
         /\ \/ ~Killed(s) /\ tracker'[s] \in {Shot(s, "sustained"), Shot(s, "sustained_wall"),
                                              Shot(s, "dead")}
            \/ /\ ~Killed(s) /\ tracker'[s] = StepClosed(tracker[s])
               /\ tracker[s].known => s \in Head(queue).seats
            \/ tracker'[s] = tracker[s] /\ (Killed(s) \/ blind')
<1> DEFINE seen == Unkilled \intersect Before(Unkilled)
<1> DEFINE dead == {x \in seen \ (broke \union wallBroke) :
                      tracker[x].known /\ x \notin Head(queue).seats}
<1>1. /\ Delivers("step") /\ broke \subseteq seen /\ wallBroke \subseteq seen
      /\ Kill(broke \union wallBroke \union dead, refused)
      /\ tracker' = [x \in Seats |->
             IF x \in broke THEN Shot(x, "sustained")
             ELSE IF x \in wallBroke THEN Shot(x, "sustained_wall")
             ELSE IF x \in dead THEN Shot(x, "dead")
             ELSE IF x \in seen THEN StepClosed(tracker[x])
             ELSE tracker[x]]
      /\ timed' = timed \union seen
      /\ Survives(seen # Unkilled)
      /\ UNCHANGED <<sim, used>>
  BY DEF NotifyStep, Timed
<1>2. blind' = (blind \/ seen # Unkilled)
  BY <1>1 DEF Survives
<1>3. s \in seen => ~Killed(s)
  BY DEF Unkilled
<1>4. seen = Unkilled /\ ~Killed(s) => s \in seen
  BY DEF Unkilled
<1>5. s \in dead => s \in seen
  OBVIOUS
<1>6. s \in seen /\ s \notin broke /\ s \notin wallBroke /\ s \notin dead =>
        (tracker[s].known => s \in Head(queue).seats)
  OBVIOUS
<1>7. box[s] = "down" => box'[s] = "down"
  BY <1>1, KillLeavesTheDead
<1> HIDE DEF seen, dead
<1>8. tracker'[s] =
        IF s \in broke THEN Shot(s, "sustained")
        ELSE IF s \in wallBroke THEN Shot(s, "sustained_wall")
        ELSE IF s \in dead THEN Shot(s, "dead")
        ELSE IF s \in seen THEN StepClosed(tracker[s])
        ELSE tracker[s]
  BY <1>1
<1>9. QED
  BY <1>1, <1>2, <1>3, <1>4, <1>5, <1>6, <1>7, <1>8

LEMMA DecisionTrackers ==
  ASSUME Typed, NotifyDecision, NEW s \in Seats
  PROVE  /\ Delivers("decision") /\ UNCHANGED <<box, sim, used, timed, blind>>
         /\ tracker'[s].reason = tracker[s].reason
         /\ tracker'[s].startup = tracker[s].startup
         /\ tracker'[s].known = tracker[s].known
         /\ tracker'[s].cpu = tracker[s].cpu /\ tracker'[s].wall = tracker[s].wall
         /\ tracker[s].responded => tracker'[s].responded
         /\ s \in Head(queue).seats /\ tracker[s].known /\ ~Killed(s) => tracker'[s].responded
<1>1. tracker[s] \in TrackerState
  BY DEF Typed, ManagerTyped
<1>2. tracker'[s] = IF s \in Head(queue).seats /\ tracker[s].known /\ ~Killed(s)
                    THEN [tracker[s] EXCEPT !.responded = TRUE] ELSE tracker[s]
  BY DEF NotifyDecision
<1>3. CASE s \in Head(queue).seats /\ tracker[s].known /\ ~Killed(s)
  BY <1>1, <1>2, <1>3 DEF NotifyDecision, TrackerState
<1>4. CASE ~(s \in Head(queue).seats /\ tracker[s].known /\ ~Killed(s))
  BY <1>2, <1>4 DEF NotifyDecision
<1>5. QED
  BY <1>3, <1>4

LEMMA ClosedFields ==
  ASSUME NEW t \in TrackerState
  PROVE  /\ StepClosed(t).reason = t.reason /\ StepClosed(t).startup = t.startup
         /\ StepClosed(t).known = t.known
         /\ StepClosed(t).cpu = 0 /\ StepClosed(t).wall = 0
  BY DEF StepClosed, TrackerState

------------------------------------------------------------------------------
(* The steps keep the game's invariant.                                    *)

LEMMA MainKeepsGame ==
  ASSUME Typed, GameInv, MainShape
  PROVE  GameInv'
<1>1. tracker' = tracker
  BY DEF MainShape
<1>2. CASE UNCHANGED <<sim, queue>>
  BY <1>1, <1>2, GameSteady
<1>3. CASE sim' = [sim EXCEPT !.pc = "over"] /\ queue' = queue
  BY <1>1, <1>3, GameBreaksOff
<1>4. CASE /\ sim \in {SimRest("none"), SimRest("created")} /\ queue' = queue
           /\ sim' \in {SimRest("created"), SimRest("booting")}
  <2>1. sim.pc \in {"none", "created", "booting"}
    BY <1>4, RestFields
  <2>2. queue = <<>> /\ Untouched
    BY <2>1 DEF GameInv, Quiet
  <2>3. Untouched'
    BY <1>1, <2>2 DEF Untouched
  <2>4. QED
    BY <1>4, <2>2, <2>3, GameAtRest
<1>5. CASE sim' = sim /\ queue' = <<>>
  <2>1. Quiet' /\ Game' /\ Absentees'
    BY <1>1, <1>5 DEF GameInv, Quiet, Untouched, Game, Absentees
  <2>2. StartFirst' /\ LastStep'
    BY <1>5, QueueEmpty DEF StartFirst, LastStep
  <2>3. QED
    BY <2>1, <2>2 DEF GameInv
<1>6. QED
  BY <1>2, <1>3, <1>4, <1>5 DEF MainShape

LEMMA ThreadsKeepGame ==
  ASSUME Typed, GameInv, PollThread \/ DeliveryThread \/ Clock
  PROVE  GameInv'
<1> USE DEF Typed, SimTyped
<1>1. ASSUME NEW refused, Poll(refused)
      PROVE  GameInv'
  <2>1. UNCHANGED <<sim, queue>>
    BY <1>1 DEF Poll
  <2>2. \A s \in Seats : tracker'[s].reason = "init_failure" => tracker[s].reason = "init_failure"
    BY <1>1, PollTrackers, ShotFields, VerdictReasons
  <2>3. Untouched => ~Poll(refused)
    BY UntouchedSeats DEF Poll
  <2>4. QED
    BY <1>1, <2>1, <2>2, <2>3, GameSteady
<1>2. ASSUME NEW heavy, NEW refused, NotifyStart(heavy, refused)
      PROVE  GameInv'
  <2>1. Delivers("start") /\ sim' = sim
    BY <1>2 DEF NotifyStart
  <2>2. ASSUME NEW s \in Seats, tracker'[s].reason = "init_failure"
        PROVE  tracker[s].reason = "init_failure" \/ s \notin sim.tags
    <3>1. [NewTracker EXCEPT !.startup = FALSE, !.known = TRUE].reason # "init_failure"
      BY DEF NewTracker
    <3>2. Shot(s, "startup_cpu").reason # "init_failure"
      BY ShotFields
    <3>3. \/ tracker'[s] = Shot(s, "init_failure") /\ s \notin sim.tags
          \/ tracker'[s] = Shot(s, "startup_cpu")
          \/ tracker'[s] = [NewTracker EXCEPT !.startup = FALSE, !.known = TRUE]
          \/ tracker'[s] = tracker[s]
      BY <1>2, StartTrackers
    <3>4. QED
      BY <2>2, <3>1, <3>2, <3>3
  <2>3. QED
    BY <2>1, <2>2, GameDelivered
<1>3. ASSUME NEW broke, NEW wallBroke, NEW refused, NotifyStep(broke, wallBroke, refused)
      PROVE  GameInv'
  <2>1. Delivers("step") /\ sim' = sim
    BY <1>3 DEF NotifyStep
  <2>2. \A s \in Seats : tracker[s] \in TrackerState
    BY DEF ManagerTyped
  <2>3. \A s \in Seats : tracker'[s].reason = "init_failure" => tracker[s].reason = "init_failure"
    BY <1>3, <2>2, StepTrackers, ShotFields, ClosedFields
  <2>4. QED
    BY <2>1, <2>3, GameDelivered
<1>4. CASE NotifyDecision
  <2>1. Delivers("decision") /\ sim' = sim
    BY <1>4 DEF NotifyDecision
  <2>2. QED
    BY <1>4, <2>1, DecisionTrackers, GameDelivered
<1>5. CASE NotifyStop
  BY <1>5, GameDelivered DEF NotifyStop
<1>6. CASE Clock
  <2>1. PICK burns : Tick(burns)
    BY <1>6 DEF Clock
  <2>2. Untouched => ~Tick(burns)
    BY UntouchedSeats DEF Tick
  <2>3. QED
    BY <2>1, <2>2, TickTrackers, GameSteady DEF Tick
<1>7. QED
  BY <1>1, <1>2, <1>3, <1>4, <1>5, <1>6 DEF PollThread, DeliveryThread

LEMMA EventsAre ==
  \A kind \in {"start", "decision", "step", "stop"}, seats \in SUBSET Seats :
    Event(kind, seats) \in Events /\ Event(kind, seats).kind = kind
                                  /\ Event(kind, seats).seats = seats
  BY DEF Event, Events

LEMMA BeginningKeepsGame ==
  ASSUME Typed, GameInv, NEW tags \in SUBSET Seats, SimBegins(tags), tracker' = tracker
  PROVE  GameInv'
<1> USE DEF Typed
<1>1. sim = SimRest("booting") /\ queue = <<>> /\ Untouched
  BY DEF SimBegins, GameInv, Quiet
<1>2. /\ sim'.pc = "running" /\ sim'.tags = tags /\ sim'.players = tags
      /\ sim'.step = 0 /\ sim'.ok = FALSE
  BY <1>1, RestFields DEF SimBegins, SimTyped, SimState
<1>3. MaxSteps # 0
  BY SimAssumption
<1> DEFINE e == Event("start", tags)
<1>4. queue' = <<e>>
  BY <1>1 DEF SimBegins
<1>5. e.kind = "start" /\ e.seats = tags
  BY EventsAre
<1> HIDE DEF e
<1>6. Len(queue') = 1 /\ queue'[1] = e /\ Head(queue') = e
  BY <1>4
<1>7. Untouched'
  BY <1>1 DEF Untouched
<1>8. Quiet' /\ Game'
  BY <1>2, <1>3 DEF Quiet, Game
<1>9. StartFirst'
  BY <1>2, <1>5, <1>6, <1>7 DEF StartFirst
<1>10. LastStep'
  BY <1>5, <1>6 DEF LastStep
<1>11. Absentees'
  BY <1>1, NewTrackerFields DEF Untouched, Absentees
<1>12. QED
  BY <1>8, <1>9, <1>10, <1>11 DEF GameInv

LEMMA PlayKeepsGame ==
  ASSUME Typed, GameInv, tracker' = tracker,
         \/ \E s \in Seats : Answers(s)
         \/ \E s \in Seats : StreamBreaks(s)
         \/ \E dead \in SUBSET Seats : StepEnds(dead)
         \/ SimEnds
  PROVE  GameInv'
<1> USE DEF Typed
<1>0. MaxSteps \in Nat /\ sim.step \in 0 .. MaxSteps
  BY SimAssumption DEF SimTyped, SimState
<1>1. ASSUME NEW s \in Seats, Answers(s)
      PROVE  GameInv'
  <2>1. /\ sim'.pc = "running" /\ sim'.tags = sim.tags /\ sim'.players = sim.players
        /\ sim'.step = sim.step /\ sim'.ok = sim.ok /\ sim'.thinking \subseteq sim.thinking
        /\ queue' = Append(queue, Event("decision", {s})) /\ sim.pc = "running"
    BY <1>1 DEF Answers, SimTyped, SimState
  <2>2. Game'
    BY <2>1 DEF GameInv, Game
  <2>3. QED
    BY <2>1, <2>2, EventsAre, GamePlayedOn
<1>2. ASSUME NEW s \in Seats, StreamBreaks(s)
      PROVE  GameInv'
  <2>1. /\ sim'.pc = "running" /\ sim'.tags = sim.tags /\ sim'.players = sim.players
        /\ sim'.step = sim.step /\ sim'.ok = sim.ok /\ sim'.thinking \subseteq sim.thinking
        /\ queue' = queue
    BY <1>2 DEF StreamBreaks, SimTyped, SimState
  <2>2. Untouched' <=> Untouched
    BY DEF Untouched
  <2>3. sim.pc = "running"
    BY <1>2 DEF StreamBreaks
  <2>4. Game'
    BY <2>1, <2>3 DEF GameInv, Game
  <2>5. Quiet' /\ Absentees'
    BY <2>1 DEF GameInv, Quiet, Absentees
  <2>6. StartFirst'
    BY <2>1, <2>2, QueueSame DEF GameInv, StartFirst
  <2>7. LastStep'
    BY <2>1 DEF GameInv, LastStep
  <2>8. QED
    BY <2>4, <2>5, <2>6, <2>7 DEF GameInv
<1>3. ASSUME NEW dead \in SUBSET Seats, StepEnds(dead)
      PROVE  GameInv'
  <2> DEFINE left == sim.players \ (dead \union sim.broken)
  <2>1. left \in SUBSET Seats /\ left \subseteq sim.players
    BY DEF SimTyped, SimState
  <2>2. /\ sim'.pc = "running" /\ sim'.tags = sim.tags /\ sim'.players = left
        /\ sim'.step = sim.step + 1 /\ sim'.ok = sim.ok
        /\ sim'.thinking = IF sim.step + 1 < MaxSteps THEN left ELSE {}
        /\ queue' = Append(queue, Event("step", left)) /\ sim.pc = "running"
    BY <1>3 DEF StepEnds, SimTyped, SimState
  <2> HIDE DEF left
  <2>3. Game'
    BY <1>0, <2>1, <2>2 DEF GameInv, Game
  <2>4. QED
    BY <2>1, <2>2, <2>3, EventsAre, GamePlayedOn
<1>4. CASE SimEnds
  <2>1. /\ sim'.pc = "over" /\ sim'.tags = sim.tags /\ sim'.players = sim.players
        /\ sim'.step = sim.step /\ sim'.ok /\ sim'.thinking = sim.thinking
        /\ queue' = Append(queue, Event("stop", {})) /\ sim.pc = "running"
        /\ sim.players = {} \/ sim.step = MaxSteps
    BY <1>4 DEF SimEnds, SimTyped, SimState
  <2>2. Game'
    BY <2>1 DEF GameInv, Game
  <2>3. QED
    BY <2>1, <2>2, EventsAre, GamePlayedOn
<1>5. QED
  BY <1>1, <1>2, <1>3, <1>4

LEMMA GameKept ==
  ASSUME Typed, Phases, GameInv, Next
  PROVE  GameInv'
<1>1. CASE MainThread \/ DockerFails
  BY <1>1, MainSteps, MainKeepsGame
<1>2. CASE PollThread \/ DeliveryThread \/ Clock
  BY <1>2, ThreadsKeepGame
<1>3. CASE SimProcess \/ Agents \/ SimCrashes
  <2>1. tracker' = tracker
    BY <1>3 DEF SimProcess, Agents, SimCrashes, managerVars
  <2>2. ASSUME NEW s \in Seats, AgentExits(s) \/ AgentStops(s)
        PROVE  GameInv'
    BY <2>1, <2>2, GameSteady DEF AgentExits, AgentStops
  <2>3. CASE SimFails
    BY <2>1, <2>3, GameBreaksOff DEF SimFails
  <2>4. QED
    BY <1>3, <2>1, <2>2, <2>3, BeginningKeepsGame, PlayKeepsGame DEF SimProcess, Agents, SimCrashes
<1>4. CASE DaemonDies
  <2>1. sim' = SimRest("none") /\ queue' = <<>> /\ tracker' = [s \in Seats |-> NewTracker]
    BY <1>4 DEF DaemonDies, Dies
  <2>2. QED
    BY <2>1, GameAtRest DEF Untouched
<1>5. CASE Peers \/ Deploy
  BY <1>5, GameSteady DEF Peers, Deploy, simVars, managerVars
<1>6. QED
  BY <1>1, <1>2, <1>3, <1>4, <1>5 DEF Next

------------------------------------------------------------------------------
(* What the trackers know of the game, while somebody observes it.         *)

Observed == ~blind /\ main.pc # "over"

\* Who was killed has an empty window.
Emptied == \A s \in Seats : Killed(s) => tracker[s].cpu = 0

\* The CPU in a seat's window was used in the decision that the sim waits for,
\* unless a step is still to be delivered.
CpuOfThisTurn ==
  Observed /\ ~Pending("step") =>
    \A s \in Seats : tracker[s].cpu <= used[s] \/ used[s] > PerStepCpu

\* After the start every seat in the game is known, and no other is watched.
KnownAfterStart ==
  Observed /\ ~Pending("start") =>
    \A s \in Seats : Killed(s) \/ IF s \in sim.tags THEN tracker[s].known ELSE tracker[s].startup

\* Once all steps are delivered nobody is watched who is no longer a player.
GoneAfterStep ==
  Observed /\ ~Pending("start") /\ ~Pending("step") =>
    \A s \in Seats \ sim.players : Killed(s) \/ tracker[s].startup

\* After the last step no clock runs.
StillAfterLastStep ==
  Observed /\ ~Pending("step") /\ sim.step = MaxSteps =>
    \A s \in Seats : Watched(s) => tracker[s].wall = 0

\* The sim waits for a player, or its answer is on the way or was noted, or
\* nothing is to be expected of it any more.
Turn ==
  ~blind => \A s \in sim.players :
    \/ s \in sim.thinking
    \/ box[s] = "down"
    \/ sim.step = MaxSteps
    \/ AnswerQueued(s)
    \/ ~Pending("start") /\ ~Pending("step") /\ (Killed(s) \/ tracker[s].responded)

InTime == {"startup_cpu", "per_step", "wall_clock"}

\* Who is in the game has a time series, or was killed before its first step
\* was delivered, or that step is still to come.
Scored ==
  Observed =>
    \A s \in sim.tags :
      \/ s \in timed
      \/ tracker[s].reason \in InTime
      \/ ~Killed(s) /\ (Pending("start") \/ Pending("step") \/ sim.step = 0)

BooksInv ==
  /\ Emptied /\ CpuOfThisTurn /\ KnownAfterStart /\ GoneAfterStep
  /\ StillAfterLastStep /\ Turn /\ Scored

\* Nothing that the books are about has changed.
LEMMA BooksSteady ==
  ASSUME BooksInv, UNCHANGED <<tracker, used, timed>>, blind' => blind, blind => blind',
         main.pc = "over" => main'.pc = "over",
         Pending("start")' <=> Pending("start"), Pending("step")' <=> Pending("step"),
         sim'.tags = sim.tags, sim'.players = sim.players, sim'.step = sim.step,
         Turn'
  PROVE  BooksInv'
<1>1. Observed' => Observed
  BY DEF Observed
<1>2. \A s : (Killed(s)' <=> Killed(s)) /\ (Watched(s)' <=> Watched(s))
  BY DEF Killed, Watched
<1>3. Emptied' /\ CpuOfThisTurn' /\ KnownAfterStart'
  BY <1>1, <1>2 DEF BooksInv, Emptied, CpuOfThisTurn, KnownAfterStart
<1>4. GoneAfterStep' /\ StillAfterLastStep' /\ Scored'
  BY <1>1, <1>2 DEF BooksInv, GoneAfterStep, StillAfterLastStep, Scored
<1>5. QED
  BY <1>3, <1>4 DEF BooksInv

LEMMA TurnSteady ==
  ASSUME Turn, UNCHANGED <<tracker, blind>>,
         Pending("start")' <=> Pending("start"), Pending("step")' <=> Pending("step"),
         sim'.players = sim.players, sim'.step = sim.step,
         \A s \in sim.players :
           /\ s \in sim.thinking => s \in sim'.thinking \/ AnswerQueued(s)' \/ box'[s] = "down"
           /\ box[s] = "down" => box'[s] = "down"
           /\ AnswerQueued(s) => AnswerQueued(s)'
  PROVE  Turn'
  BY DEF Turn, Killed

\* The sim as it is made and launched, and nobody touched.
LEMMA BooksAtRest ==
  ASSUME Typed', NEW pc, sim' = SimRest(pc), queue' = <<>>, Untouched'
  PROVE  BooksInv'
<1>1. \A s \in Seats : /\ ~Killed(s)' /\ ~Watched(s)' /\ tracker'[s].startup
                       /\ tracker'[s].cpu = 0 /\ used'[s] >= 0
  BY NewTrackerFields, BudgetAssumption DEF Untouched, Killed, Watched, Typed, SimTyped
<1>2. sim'.tags = {} /\ sim'.players = {}
  BY RestFields
<1>3. Emptied' /\ CpuOfThisTurn' /\ KnownAfterStart' /\ GoneAfterStep' /\ StillAfterLastStep'
  BY <1>1, <1>2
     DEF Emptied, CpuOfThisTurn, KnownAfterStart, GoneAfterStep, StillAfterLastStep
<1>4. Turn' /\ Scored'
  BY <1>2 DEF Turn, Scored
<1>5. QED
  BY <1>3, <1>4 DEF BooksInv

LEMMA MainKeepsBooks ==
  ASSUME Typed, Typed', GameInv, BooksInv, MainShape
  PROVE  BooksInv'
<1> USE DEF Typed
<1>0. /\ UNCHANGED <<used, tracker, timed, blind>> /\ main.pc # "over"
      /\ Untouched => Untouched'
      /\ sim.players \subseteq Seats
  BY DEF MainShape, Untouched, SimTyped, SimState
<1>1. CASE UNCHANGED <<box, sim, queue>> /\ main'.pc # "over"
  <2>1. Turn'
    BY <1>0, <1>1, QueueSame, TurnSteady DEF BooksInv
  <2>2. QED
    BY <1>0, <1>1, <2>1, QueueSame, BooksSteady
<1>2. CASE sim = SimRest("none") /\ UNCHANGED <<sim, queue>>
  <2>1. queue = <<>> /\ Untouched
    BY <1>2, RestFields DEF GameInv, Quiet
  <2>2. QED
    BY <1>0, <1>2, <2>1, BooksAtRest
<1>3. CASE /\ sim \in {SimRest("none"), SimRest("created")} /\ queue' = queue
           /\ sim' \in {SimRest("created"), SimRest("booting")}
  <2>1. queue = <<>> /\ Untouched
    BY <1>3, RestFields DEF GameInv, Quiet
  <2>2. QED
    BY <1>0, <1>3, <2>1, BooksAtRest
<1>4. CASE sim' = [sim EXCEPT !.pc = "over"] /\ UNCHANGED <<box, queue>> /\ main'.pc # "over"
  <2>1. /\ sim'.tags = sim.tags /\ sim'.players = sim.players
        /\ sim'.step = sim.step /\ sim'.thinking = sim.thinking
    BY <1>4 DEF SimTyped, SimState
  <2>2. Turn'
    BY <1>0, <1>4, <2>1, QueueSame, TurnSteady DEF BooksInv
  <2>3. QED
    BY <1>0, <1>4, <2>1, <2>2, QueueSame, BooksSteady
<1>5. CASE (\A s \in Seats : box'[s] = "down") /\ UNCHANGED <<sim, queue>> /\ main'.pc # "over"
  <2>1. Turn'
    BY <1>0, <1>5 DEF Turn
  <2>2. QED
    BY <1>0, <1>5, <2>1, QueueSame, BooksSteady
<1>6. CASE (\A s \in Seats : box[s] = "down") /\ UNCHANGED <<box, sim>> /\ main'.pc = "over"
  <2>1. Turn'
    BY <1>0, <1>6 DEF Turn
  <2>2. Emptied'
    BY <1>0 DEF BooksInv, Emptied, Killed
  <2>3. QED
    BY <1>6, <2>1, <2>2 DEF BooksInv, Observed, CpuOfThisTurn, KnownAfterStart, GoneAfterStep,
                            StillAfterLastStep, Scored
<1>7. QED
  BY <1>1, <1>2, <1>3, <1>4, <1>5, <1>6 DEF MainShape

LEMMA PollKeepsBooks ==
  ASSUME Typed, Typed', BooksInv, main' = main, NEW refused, Poll(refused)
  PROVE  BooksInv'
<1> USE DEF Typed
<1>0. /\ UNCHANGED <<sim, queue, used, timed>>
      /\ ~blind' => ~blind
  BY SeatsAreNats, PollTrackers
<1>1. \A kind : Pending(kind)' <=> Pending(kind)
  BY <1>0, QueueSame
<1>2. Observed' => Observed
  BY <1>0 DEF Observed
<1>3. ASSUME NEW s \in Seats
      PROVE  \/ tracker'[s] = tracker[s] /\ (Killed(s)' <=> Killed(s)) /\ (Watched(s)' <=> Watched(s))
             \/ /\ Killed(s)' /\ ~Watched(s)' /\ tracker'[s].cpu = 0 /\ tracker'[s].reason \in InTime
                /\ ~Killed(s)
  <2>1. CASE tracker'[s] = tracker[s]
    BY <2>1 DEF Killed, Watched
  <2>2. CASE Watched(s) /\ Verdict(s) # "none" /\ tracker'[s] = Shot(s, Verdict(s))
    <3>1. tracker'[s].reason = Verdict(s) /\ tracker'[s].cpu = 0
      BY <2>2, ShotFields
    <3>2. Verdict(s) \in {"per_step", "wall_clock"}
      BY <2>2, VerdictReasons
    <3>3. QED
      BY <2>2, <3>1, <3>2 DEF Killed, Watched, InTime
  <2>3. QED
    BY <2>1, <2>2, PollTrackers
<1>4. \A s \in Seats : used[s] \in Nat
  BY BudgetAssumption DEF SimTyped
<1>5. Emptied'
  BY <1>3 DEF BooksInv, Emptied
<1>6. CpuOfThisTurn'
  BY <1>0, <1>1, <1>2, <1>3, <1>4 DEF BooksInv, CpuOfThisTurn
<1>7. KnownAfterStart'
  BY <1>0, <1>1, <1>2, <1>3 DEF BooksInv, KnownAfterStart
<1>8. GoneAfterStep'
  BY <1>0, <1>1, <1>2, <1>3 DEF BooksInv, GoneAfterStep
<1>9. StillAfterLastStep'
  BY <1>0, <1>1, <1>2, <1>3 DEF BooksInv, StillAfterLastStep
<1>10. Turn'
  <2>1. SUFFICES ASSUME ~blind', NEW s \in sim.players
                 PROVE  \/ s \in sim.thinking \/ box'[s] = "down" \/ sim.step = MaxSteps
                        \/ AnswerQueued(s)
                        \/ /\ ~Pending("start") /\ ~Pending("step")
                           /\ Killed(s)' \/ tracker'[s].responded
    BY <1>0, <1>1, QueueSame DEF Turn
  <2>2. s \in Seats
    BY DEF SimTyped, SimState
  <2>3. \/ s \in sim.thinking \/ box[s] = "down" \/ sim.step = MaxSteps \/ AnswerQueued(s)
        \/ ~Pending("start") /\ ~Pending("step") /\ (Killed(s) \/ tracker[s].responded)
    BY <1>0, <2>1 DEF BooksInv, Turn
  <2>4. box[s] = "down" => box'[s] = "down"
    BY <2>2, PollTrackers
  <2>5. QED
    BY <1>3, <2>2, <2>3, <2>4
<1>11. Scored'
  <2>1. \A s \in sim.tags : s \in Seats
    BY DEF SimTyped, SimState
  <2>2. QED
    BY <1>0, <1>1, <1>2, <1>3, <2>1 DEF BooksInv, Scored
<1>12. QED
  BY <1>5, <1>6, <1>7, <1>8, <1>9, <1>10, <1>11 DEF BooksInv

LEMMA StartKeepsBooks ==
  ASSUME Typed, Typed', GameInv, BooksInv, main' = main,
         NEW heavy, NEW refused, NotifyStart(heavy, refused)
  PROVE  BooksInv'
<1> USE DEF Typed
<1>0. /\ Untouched /\ Pending("start") /\ Delivers("start")
      /\ UNCHANGED <<sim, used>> /\ (~blind' => ~blind)
      /\ queue \in Seq(Events)
  BY SeatsAreNats, StartTrackers DEF SimTyped
<1>1. Pending("step") <=> Pending("step")'
  BY <1>0, Delivering
<1>2. sim.step > 0 => Pending("step")
  BY <1>0 DEF GameInv, StartFirst
<1>3. ASSUME NEW s \in Seats
      PROVE  /\ tracker'[s].cpu = 0 /\ tracker'[s].wall = 0
             /\ \/ Killed(s)' /\ s \notin sim.tags
                \/ Killed(s)' /\ tracker'[s].reason \in InTime
                \/ /\ s \in sim.tags /\ ~Killed(s)'
                   /\ tracker'[s].known
                \/ blind'
  <2>1. /\ [NewTracker EXCEPT !.startup = FALSE, !.known = TRUE].reason = "none"
        /\ [NewTracker EXCEPT !.startup = FALSE, !.known = TRUE].known
        /\ [NewTracker EXCEPT !.startup = FALSE, !.known = TRUE].cpu = 0
        /\ [NewTracker EXCEPT !.startup = FALSE, !.known = TRUE].wall = 0
    BY DEF NewTracker
  <2>2. tracker[s].cpu = 0 /\ tracker[s].wall = 0
    BY <1>0, NewTrackerFields DEF Untouched
  <2>3. \/ tracker'[s] = Shot(s, "init_failure") /\ s \notin sim.tags
        \/ tracker'[s] = Shot(s, "startup_cpu")
        \/ /\ s \in sim.tags
           /\ tracker'[s] = [NewTracker EXCEPT !.startup = FALSE, !.known = TRUE]
        \/ tracker'[s] = tracker[s] /\ blind'
    BY <1>0, StartTrackers
  <2>4. \A reason : /\ Shot(s, reason).reason = reason
                    /\ Shot(s, reason).cpu = 0 /\ Shot(s, reason).wall = 0
    BY ShotFields
  <2>5. tracker'[s] = Shot(s, "init_failure") => Killed(s)' /\ tracker'[s].cpu = 0 /\ tracker'[s].wall = 0
    BY <2>4 DEF Killed
  <2>6. tracker'[s] = Shot(s, "startup_cpu") =>
          /\ Killed(s)' /\ tracker'[s].reason \in InTime
          /\ tracker'[s].cpu = 0 /\ tracker'[s].wall = 0
    BY <2>4 DEF Killed, InTime
  <2>7. tracker'[s] = [NewTracker EXCEPT !.startup = FALSE, !.known = TRUE] =>
          ~Killed(s)' /\ tracker'[s].known /\ tracker'[s].cpu = 0 /\ tracker'[s].wall = 0
    BY <2>1 DEF Killed
  <2>8. QED
    BY <2>2, <2>3, <2>5, <2>6, <2>7
<1>4. \A s \in Seats : used[s] \in Nat
  BY BudgetAssumption DEF SimTyped
<1>5. Emptied' /\ CpuOfThisTurn' /\ StillAfterLastStep'
  BY <1>0, <1>3, <1>4 DEF Emptied, CpuOfThisTurn, StillAfterLastStep
<1>6. KnownAfterStart'
  BY <1>0, <1>3 DEF KnownAfterStart, Observed
<1>7. GoneAfterStep'
  <2>1. ~Pending("step")' => sim.players = sim.tags
    BY <1>0, <1>1, <1>2 DEF GameInv, Game, SimTyped, SimState
  <2>2. QED
    BY <1>0, <1>3, <2>1 DEF GoneAfterStep, Observed
<1>8. Turn'
  <2>1. SUFFICES ASSUME ~blind', NEW s \in sim.players
                 PROVE  \/ s \in sim.thinking \/ box'[s] = "down" \/ sim.step = MaxSteps
                        \/ AnswerQueued(s)'
    BY <1>0 DEF Turn
  <2>2. s \in Seats
    BY DEF SimTyped, SimState
  <2>3. s \in sim.thinking \/ box[s] = "down" \/ sim.step = MaxSteps \/ AnswerQueued(s)
    BY <1>0, <2>1 DEF BooksInv, Turn
  <2>4. box[s] = "down" => box'[s] = "down"
    BY <1>0, <2>2, StartTrackers
  <2>5. AnswerQueued(s) => AnswerQueued(s)'
    BY <1>0, Delivering
  <2>6. QED
    BY <2>3, <2>4, <2>5
<1>9. Scored'
  <2>1. \A s \in sim.tags : s \in Seats
    BY DEF SimTyped, SimState
  <2>2. sim.step = 0 \/ Pending("step")'
    BY <1>1, <1>2 DEF SimTyped, SimState
  <2>3. QED
    BY <1>0, <1>3, <2>1, <2>2 DEF Scored, Observed
<1>10. QED
  BY <1>5, <1>6, <1>7, <1>8, <1>9 DEF BooksInv

LEMMA StepKeepsBooks ==
  ASSUME Typed, Typed', GameInv, BooksInv, main' = main,
         NEW broke, NEW wallBroke, NEW refused, NotifyStep(broke, wallBroke, refused)
  PROVE  BooksInv'
<1> USE DEF Typed
<1>0. /\ Delivers("step") /\ UNCHANGED <<sim, used>> /\ (~blind' => ~blind)
      /\ queue \in Seq(Events)
  BY SeatsAreNats, StepTrackers DEF SimTyped
<1>1. /\ Len(queue) \in Nat \ {0} /\ Len(queue') = Len(queue) - 1
      /\ Head(queue) = queue[1] /\ queue[1].kind = "step"
      /\ \A i \in 1 .. Len(queue') : queue'[i] = queue[i + 1]
      /\ \A k : Pending(k) <=> Pending(k)' \/ "step" = k
      /\ \A s : AnswerQueued(s) => AnswerQueued(s)'
  BY <1>0, Delivering
<1>2. ~Pending("start")
  <2>1. \A i \in 1 .. Len(queue) : i = 1 \/ i \in 2 .. Len(queue)
    BY <1>1
  <2>2. QED
    BY <1>1, <2>1 DEF GameInv, StartFirst, Pending
<1>3. ~Pending("step")' => Head(queue).seats = sim.players
  <2>1. SUFFICES ASSUME ~Pending("step")'
                 PROVE  queue[1].seats = sim.players
    BY <1>1
  <2>2. ASSUME NEW k \in 2 .. Len(queue)
        PROVE  queue[k].kind # "step"
    <3>1. k - 1 \in 1 .. Len(queue') /\ k - 1 + 1 = k
      BY <1>1
    <3>2. queue'[k - 1] = queue[k]
      BY <1>1, <3>1
    <3>3. QED
      BY <2>1, <3>1, <3>2 DEF Pending
  <2>3. 1 \in 1 .. Len(queue) /\ 1 + 1 = 2
    BY <1>1
  <2>4. QED
    BY <1>1, <2>2, <2>3 DEF GameInv, LastStep
<1>4. ASSUME NEW s \in Seats
      PROVE  /\ Killed(s) => tracker'[s] = tracker[s] /\ Killed(s)'
             /\ \/ blind' \/ Killed(s)
                \/ ~Killed(s) /\ Killed(s)' /\ tracker'[s].cpu = 0 /\ s \in timed'
                \/ /\ ~Killed(s) /\ ~Killed(s)' /\ tracker'[s].cpu = 0 /\ tracker'[s].wall = 0
                   /\ s \in timed'
                   /\ tracker'[s].known = tracker[s].known
                   /\ tracker'[s].startup = tracker[s].startup
                   /\ tracker[s].known => s \in Head(queue).seats
             /\ Killed(s)' => Killed(s) \/ tracker'[s].cpu = 0
  <2>1. tracker[s] \in TrackerState
    BY DEF ManagerTyped
  <2>2. CASE Killed(s)
    BY <2>2, StepTrackers DEF Killed
  <2>3. CASE ~Killed(s) /\ tracker'[s] \in {Shot(s, "sustained"), Shot(s, "sustained_wall"),
                                            Shot(s, "dead")}
    BY <2>3, StepTrackers, ShotFields DEF Killed
  <2>4. CASE /\ ~Killed(s) /\ tracker'[s] = StepClosed(tracker[s])
             /\ tracker[s].known => s \in Head(queue).seats
    BY <2>1, <2>4, StepTrackers, ClosedFields DEF Killed
  <2>5. CASE tracker'[s] = tracker[s] /\ blind'
    BY <2>5 DEF Killed
  <2>6. QED
    BY <2>2, <2>3, <2>4, <2>5, StepTrackers
<1>5. \A s \in Seats : used[s] \in Nat
  BY BudgetAssumption DEF SimTyped
<1>6. Emptied'
  BY <1>4 DEF BooksInv, Emptied
<1>7. CpuOfThisTurn' /\ StillAfterLastStep'
  BY <1>0, <1>4, <1>5 DEF BooksInv, Emptied, Observed, CpuOfThisTurn, StillAfterLastStep, Watched
<1>8. KnownAfterStart'
  BY <1>0, <1>2, <1>4 DEF BooksInv, Observed, KnownAfterStart
<1>9. GoneAfterStep'
  <2>1. SUFFICES ASSUME Observed', ~Pending("step")', NEW s \in Seats \ sim.players
                 PROVE  Killed(s)' \/ tracker'[s].startup
    BY <1>0 DEF GoneAfterStep
  <2>2. Killed(s) \/ IF s \in sim.tags THEN tracker[s].known ELSE tracker[s].startup
    BY <1>0, <1>2, <2>1 DEF BooksInv, Observed, KnownAfterStart
  <2>3. QED
    BY <1>3, <1>4, <2>1, <2>2 DEF Observed
<1>10. Turn'
  <2>1. SUFFICES ASSUME ~blind', NEW s \in sim.players
                 PROVE  \/ s \in sim.thinking \/ box'[s] = "down" \/ sim.step = MaxSteps
                        \/ AnswerQueued(s)'
    BY <1>0 DEF Turn
  <2>2. s \in Seats
    BY DEF SimTyped, SimState
  <2>3. s \in sim.thinking \/ box[s] = "down" \/ sim.step = MaxSteps \/ AnswerQueued(s)
    BY <1>0, <1>1, <2>1 DEF BooksInv, Turn
  <2>4. box[s] = "down" => box'[s] = "down"
    BY <2>2, StepTrackers
  <2>5. QED
    BY <1>1, <2>3, <2>4
<1>11. Scored'
  <2>1. \A s \in sim.tags : s \in Seats
    BY DEF SimTyped, SimState
  <2>2. timed \subseteq timed'
    BY SeatsAreNats, StepTrackers
  <2>3. QED
    BY <1>0, <1>4, <2>1, <2>2 DEF BooksInv, Scored, Observed
<1>12. QED
  BY <1>6, <1>7, <1>8, <1>9, <1>10, <1>11 DEF BooksInv

LEMMA DecisionKeepsBooks ==
  ASSUME Typed, Typed', Phases, GameInv, BooksInv, main' = main, NotifyDecision
  PROVE  BooksInv'
<1> USE DEF Typed
<1>0. /\ Delivers("decision") /\ UNCHANGED <<box, sim, used, timed, blind>>
      /\ queue \in Seq(Events)
  BY SeatsAreNats, DecisionTrackers DEF SimTyped
<1>1. /\ Len(queue) \in Nat \ {0} /\ queue[1].kind = "decision"
      /\ \A k : Pending(k) <=> Pending(k)' \/ "decision" = k
      /\ \A s : AnswerQueued(s) =>
           \/ AnswerQueued(s)'
           \/ s \in Head(queue).seats /\ ~Pending("step")'
  BY <1>0, Delivering
<1>2. (Pending("start")' <=> Pending("start")) /\ (Pending("step")' <=> Pending("step"))
  BY <1>1
<1>3. ~Pending("start")
  <2>1. \A i \in 1 .. Len(queue) : i = 1 \/ i \in 2 .. Len(queue)
    BY <1>1
  <2>2. QED
    BY <1>1, <2>1 DEF GameInv, StartFirst, Pending
<1>4. ASSUME NEW s \in Seats
      PROVE  /\ Killed(s)' <=> Killed(s)
             /\ tracker'[s].reason = tracker[s].reason /\ tracker'[s].cpu = tracker[s].cpu
             /\ tracker'[s].wall = tracker[s].wall /\ tracker'[s].known = tracker[s].known
             /\ tracker'[s].startup = tracker[s].startup
             /\ Watched(s)' => Watched(s)
             /\ tracker[s].responded => tracker'[s].responded
             /\ s \in Head(queue).seats /\ tracker[s].known /\ ~Killed(s) => tracker'[s].responded
  BY DecisionTrackers DEF Killed, Watched
<1>5. Observed' <=> Observed
  BY <1>0 DEF Observed
<1>6. Emptied' /\ CpuOfThisTurn' /\ KnownAfterStart'
  BY <1>0, <1>2, <1>4, <1>5 DEF BooksInv, Emptied, CpuOfThisTurn, KnownAfterStart
<1>7. GoneAfterStep' /\ StillAfterLastStep'
  BY <1>0, <1>2, <1>4, <1>5 DEF BooksInv, GoneAfterStep, StillAfterLastStep
<1>8. Scored'
  <2>1. \A s \in sim.tags : s \in Seats
    BY DEF SimTyped, SimState
  <2>2. QED
    BY <1>0, <1>2, <1>4, <1>5, <2>1 DEF BooksInv, Scored
<1>9. ASSUME ~blind', Observed
      PROVE  Turn'
  <2>1. SUFFICES ASSUME NEW s \in sim.players
                 PROVE  \/ s \in sim.thinking \/ box[s] = "down" \/ sim.step = MaxSteps
                        \/ AnswerQueued(s)'
                        \/ ~Pending("step")' /\ (Killed(s)' \/ tracker'[s].responded)
    BY <1>0, <1>2, <1>3 DEF Turn
  <2>2. s \in Seats /\ s \in sim.tags
    BY DEF SimTyped, SimState, GameInv, Game
  <2>3. \/ s \in sim.thinking \/ box[s] = "down" \/ sim.step = MaxSteps \/ AnswerQueued(s)
        \/ ~Pending("step") /\ (Killed(s) \/ tracker[s].responded)
    BY <1>9, <2>1 DEF BooksInv, Turn, Observed
  <2>4. Killed(s) \/ tracker[s].known
    BY <1>3, <1>9, <2>2 DEF BooksInv, KnownAfterStart
  <2>5. QED
    BY <1>1, <1>2, <1>4, <2>2, <2>3, <2>4
<1>10. blind' \/ Observed \/ Turn'
  <2>1. main.pc = "over" => \A s \in Seats : box[s] = "down"
    BY DEF Phases
  <2>2. sim.players \subseteq Seats
    BY DEF SimTyped, SimState
  <2>3. QED
    BY <1>0, <2>1, <2>2 DEF Observed, Turn
<1>11. QED
  BY <1>6, <1>7, <1>8, <1>9, <1>10 DEF BooksInv, Turn

LEMMA StopKeepsBooks ==
  ASSUME Typed, BooksInv, main' = main, NotifyStop
  PROVE  BooksInv'
<1> USE DEF Typed
<1>1. Delivers("stop") /\ UNCHANGED <<box, sim, used, tracker, timed, blind>>
  BY DEF NotifyStop
<1>2. /\ \A k : Pending(k) <=> Pending(k)' \/ "stop" = k
      /\ \A s : AnswerQueued(s) => AnswerQueued(s)'
  BY <1>1, Delivering DEF SimTyped
<1>3. (Pending("start")' <=> Pending("start")) /\ (Pending("step")' <=> Pending("step"))
  BY <1>2
<1>4. Turn'
  BY <1>1, <1>2, <1>3, TurnSteady DEF BooksInv
<1>5. QED
  BY <1>1, <1>3, <1>4, BooksSteady

LEMMA ClockKeepsBooks ==
  ASSUME Typed, Typed', GameInv, BooksInv, main' = main, NEW burns, Tick(burns)
  PROVE  BooksInv'
<1> USE DEF Typed
<1>0. /\ sim.thinking # {} /\ UNCHANGED <<box, sim, queue, timed, blind>>
  BY DEF Tick
<1>1. ASSUME NEW s \in Seats
      PROVE  /\ Killed(s)' <=> Killed(s)
             /\ tracker'[s].reason = tracker[s].reason
             /\ tracker'[s].known = tracker[s].known
             /\ tracker'[s].startup = tracker[s].startup
             /\ tracker'[s].responded = tracker[s].responded
             /\ Killed(s) => tracker'[s] = tracker[s]
  BY TickTrackers DEF Killed, Watched
<1>2. \A kind : Pending(kind)' <=> Pending(kind)
  BY <1>0, QueueSame
<1>3. Observed' <=> Observed
  BY <1>0 DEF Observed
<1>4. sim.step # MaxSteps
  BY <1>0 DEF GameInv, Game
<1>5. Emptied' /\ KnownAfterStart' /\ StillAfterLastStep' /\ GoneAfterStep'
  BY <1>0, <1>1, <1>2, <1>3, <1>4
     DEF BooksInv, Emptied, KnownAfterStart, StillAfterLastStep, GoneAfterStep
<1>6. CpuOfThisTurn'
  <2>1. SUFFICES ASSUME Observed, ~Pending("step"), NEW s \in Seats
                 PROVE  tracker'[s].cpu <= used'[s] \/ used'[s] > PerStepCpu
    BY <1>2, <1>3 DEF CpuOfThisTurn
  <2>2. tracker[s].cpu <= used[s] \/ used[s] > PerStepCpu
    BY <2>1 DEF BooksInv, CpuOfThisTurn
  <2>3. used'[s] = IF s \in burns /\ used[s] <= PerStepCpu THEN used[s] + 1 ELSE used[s]
    BY DEF Tick
  <2>4. /\ tracker[s].cpu \in Nat /\ used[s] \in Nat /\ PerStepCpu \in Nat
    BY BudgetAssumption DEF ManagerTyped, SimTyped, TrackerState
  <2>5. tracker'[s].cpu = tracker[s].cpu \/ (s \in burns /\ tracker'[s].cpu = tracker[s].cpu + 1)
    BY TickTrackers
  <2>6. QED
    BY <2>2, <2>3, <2>4, <2>5
<1>7. Turn'
  <2>1. \A s \in sim.players : s \in Seats
    BY DEF SimTyped, SimState
  <2>2. QED
    BY <1>0, <1>1, <1>2, <2>1, QueueSame DEF BooksInv, Turn
<1>8. Scored'
  <2>1. \A s \in sim.tags : s \in Seats
    BY DEF SimTyped, SimState
  <2>2. QED
    BY <1>0, <1>1, <1>2, <1>3, <2>1 DEF BooksInv, Scored
<1>9. QED
  BY <1>5, <1>6, <1>7, <1>8 DEF BooksInv

LEMMA BeginningKeepsBooks ==
  ASSUME Typed, Typed', GameInv, BooksInv, UNCHANGED <<main, tracker, timed, blind>>,
         NEW tags \in SUBSET Seats, SimBegins(tags)
  PROVE  BooksInv'
<1> USE DEF Typed
<1>1. sim.pc = "booting" /\ queue = <<>> /\ Untouched /\ used' = used
  BY DEF SimBegins, GameInv, Quiet
<1>2. /\ sim'.tags = tags /\ sim'.players = tags /\ sim'.thinking = tags
      /\ queue' = Append(queue, Event("start", tags))
  BY DEF SimBegins, SimTyped, SimState
<1>3. Pending("start")'
  <2>1. Event("start", tags) \in Events /\ Event("start", tags).kind = "start"
    BY EventsAre
  <2>2. QED
    BY <1>2, <2>1, Appending DEF SimTyped
<1>4. \A s \in Seats : ~Killed(s)' /\ ~Watched(s)' /\ tracker'[s].cpu = 0 /\ used[s] \in Nat
  BY <1>1, NewTrackerFields, BudgetAssumption DEF Untouched, Killed, Watched, SimTyped
<1>5. Emptied' /\ CpuOfThisTurn' /\ KnownAfterStart' /\ GoneAfterStep' /\ StillAfterLastStep'
  BY <1>1, <1>3, <1>4
     DEF Emptied, CpuOfThisTurn, KnownAfterStart, GoneAfterStep, StillAfterLastStep
<1>6. Turn' /\ Scored'
  BY <1>2, <1>3, <1>4 DEF Turn, Scored
<1>7. QED
  BY <1>5, <1>6 DEF BooksInv

LEMMA PlayKeepsBooks ==
  ASSUME Typed, Typed', BooksInv, UNCHANGED <<main, tracker, timed, blind>>,
         \/ \E s \in Seats : Answers(s) \/ StreamBreaks(s) \/ AgentExits(s) \/ AgentStops(s)
         \/ SimEnds \/ SimFails
  PROVE  BooksInv'
<1> USE DEF Typed
<1>0. sim.players \subseteq Seats
  BY DEF SimTyped, SimState
<1>1. CASE (\E s \in Seats : Answers(s)) \/ SimEnds
  <2>1. PICK e \in Events :
          /\ queue' = Append(queue, e) /\ e.kind \notin {"start", "step"}
          /\ UNCHANGED <<box, used>>
          /\ sim'.tags = sim.tags /\ sim'.players = sim.players /\ sim'.step = sim.step
          /\ \A s \in sim.thinking : s \in sim'.thinking \/ (e.kind = "decision" /\ s \in e.seats)
    <3>1. ASSUME NEW s \in Seats, Answers(s)
          PROVE  /\ queue' = Append(queue, Event("decision", {s})) /\ UNCHANGED <<box, used>>
                 /\ sim'.tags = sim.tags /\ sim'.players = sim.players /\ sim'.step = sim.step
                 /\ \A t \in sim.thinking : t \in sim'.thinking \/ t \in {s}
      BY <3>1 DEF Answers, SimTyped, SimState
    <3>2. CASE SimEnds
      <4>1. /\ queue' = Append(queue, Event("stop", {})) /\ UNCHANGED <<box, used>>
            /\ sim'.tags = sim.tags /\ sim'.players = sim.players /\ sim'.step = sim.step
            /\ sim'.thinking = sim.thinking
        BY <3>2 DEF SimEnds, SimTyped, SimState
      <4>2. QED
        BY <4>1, EventsAre
    <3>3. CASE \E s \in Seats : Answers(s)
      <4>1. PICK s \in Seats : Answers(s)
        BY <3>3
      <4>2. /\ Event("decision", {s}) \in Events
            /\ Event("decision", {s}).kind = "decision" /\ Event("decision", {s}).seats = {s}
        BY EventsAre
      <4>3. QED
        BY <3>1, <4>1, <4>2
    <3>4. QED
      BY <1>1, <3>2, <3>3
  <2>2. /\ \A kind : Pending(kind)' <=> Pending(kind) \/ e.kind = kind
        /\ \A s : AnswerQueued(s) => AnswerQueued(s)'
        /\ \A s : e.kind = "decision" /\ s \in e.seats => AnswerQueued(s)'
    BY <2>1, Appending DEF SimTyped
  <2>3. (Pending("start")' <=> Pending("start")) /\ (Pending("step")' <=> Pending("step"))
    BY <2>1, <2>2
  <2>4. Turn'
    BY <2>1, <2>2, <2>3, TurnSteady DEF BooksInv
  <2>5. QED
    BY <2>1, <2>3, <2>4, BooksSteady
<1>2. CASE (\E s \in Seats : StreamBreaks(s) \/ AgentExits(s) \/ AgentStops(s)) \/ SimFails
  <2> DEFINE Onward ==
        /\ UNCHANGED <<queue, used>>
        /\ sim'.tags = sim.tags /\ sim'.players = sim.players /\ sim'.step = sim.step
        /\ \A s \in sim.thinking : s \in sim'.thinking \/ box'[s] = "down"
        /\ \A s \in Seats : box[s] = "down" => box'[s] = "down"
  <2>1. Onward
    <3>1. ASSUME NEW s \in Seats, StreamBreaks(s)
          PROVE  Onward
      BY <3>1 DEF StreamBreaks, SimTyped, SimState
    <3>2. ASSUME NEW s \in Seats, AgentExits(s) \/ AgentStops(s)
          PROVE  Onward
      BY <3>2 DEF AgentExits, AgentStops, SimTyped
    <3>3. CASE SimFails
      BY <3>3 DEF SimFails, SimTyped, SimState
    <3>4. QED
      BY <1>2, <3>1, <3>2, <3>3
  <2>2. Turn'
    BY <1>0, <2>1, QueueSame, TurnSteady DEF BooksInv
  <2>3. QED
    BY <2>1, <2>2, QueueSame, BooksSteady
<1>3. QED
  BY <1>1, <1>2

LEMMA StepEndKeepsBooks ==
  ASSUME Typed, Typed', GameInv, BooksInv, UNCHANGED <<main, tracker, timed, blind>>,
         NEW dead \in SUBSET Seats, StepEnds(dead)
  PROVE  BooksInv'
<1> USE DEF Typed
<1> DEFINE left == sim.players \ (dead \union sim.broken)
<1>1. left \in SUBSET Seats /\ left \subseteq sim.players /\ sim.step + 1 \in 0 .. MaxSteps
      /\ MaxSteps \in Nat
  BY SimAssumption DEF StepEnds, SimTyped, SimState
<1>2. /\ sim'.tags = sim.tags /\ sim'.players = left
      /\ sim'.step = sim.step + 1
      /\ sim'.thinking = IF sim.step + 1 < MaxSteps THEN left ELSE {}
      /\ queue' = Append(queue, Event("step", left))
  BY DEF StepEnds, SimTyped, SimState
<1> HIDE DEF left
<1>3. Pending("step")' /\ (Pending("start")' <=> Pending("start"))
  BY <1>1, <1>2, EventsAre, Appending DEF SimTyped
<1>4. Observed' <=> Observed
  BY DEF Observed
<1>5. \A s : Killed(s)' <=> Killed(s)
  BY DEF Killed
<1>6. Emptied' /\ CpuOfThisTurn' /\ KnownAfterStart' /\ GoneAfterStep' /\ StillAfterLastStep'
  BY <1>2, <1>3, <1>4, <1>5
     DEF BooksInv, Emptied, CpuOfThisTurn, KnownAfterStart, GoneAfterStep, StillAfterLastStep
<1>7. Turn'
  BY <1>1, <1>2 DEF Turn
<1>8. Scored'
  BY <1>2, <1>3, <1>4, <1>5 DEF BooksInv, Scored
<1>9. QED
  BY <1>6, <1>7, <1>8 DEF BooksInv

LEMMA BooksKept ==
  ASSUME Typed, Typed', Phases, GameInv, BooksInv, Next
  PROVE  BooksInv'
<1>1. CASE MainThread \/ DockerFails
  BY <1>1, MainSteps, MainKeepsBooks
<1>2. CASE PollThread \/ DeliveryThread \/ Clock
  BY <1>2, PollKeepsBooks, StartKeepsBooks, StepKeepsBooks, DecisionKeepsBooks, StopKeepsBooks,
     ClockKeepsBooks DEF PollThread, DeliveryThread, Clock
<1>3. CASE SimProcess \/ Agents \/ SimCrashes
  <2>1. UNCHANGED <<main, tracker, timed, blind>>
    BY <1>3 DEF SimProcess, Agents, SimCrashes, managerVars
  <2>2. QED
    BY <1>3, <2>1, BeginningKeepsBooks, PlayKeepsBooks, StepEndKeepsBooks
       DEF SimProcess, Agents, SimCrashes
<1>4. CASE DaemonDies
  <2>1. sim' = SimRest("none") /\ queue' = <<>> /\ tracker' = [s \in Seats |-> NewTracker]
    BY <1>4 DEF DaemonDies, Dies
  <2>2. QED
    BY <2>1, BooksAtRest DEF Untouched
<1>5. CASE Peers \/ Deploy
  <2>1. UNCHANGED <<main, box, sim, queue, used, tracker, timed, blind>>
    BY <1>5 DEF Peers, Deploy, simVars, managerVars
  <2>2. Turn'
    BY <2>1, QueueSame, TurnSteady DEF BooksInv
  <2>3. QED
    BY <2>1, <2>2, QueueSame, BooksSteady
<1>6. QED
  BY <1>1, <1>2, <1>3, <1>4, <1>5 DEF Next

------------------------------------------------------------------------------
(* The invariant, and what it says.                                        *)

MatchInv == Typed /\ Phases /\ DockerInv /\ GameInv /\ BooksInv

LEMMA InitMatch ==
  ASSUME Init
  PROVE  MatchInv
<1>1. Typed
  BY InitTyped
<1>2. main = MainRest("down") /\ sim = SimRest("none") /\ queue = <<>>
  BY DEF Init, SimInit
<1>3. main.pc = "down" /\ main.result = NoResult /\ main.held = {}
  BY <1>2 DEF MainRest
<1>4. Untouched
  BY DEF Init, ManagerInit, Untouched
<1>5. Phases
  BY <1>2, <1>3 DEF Phases, NoResult, Late
<1>6. DockerInv
  <2>1. me \in Runners /\ \A r \in docker : r.owner # me
    BY DEF Init, DockerInit, Owned
  <2>2. QED
    BY <1>3, <2>1 DEF DockerInv, Listed, Swept, OwnHeld, NetsLast, Booted
<1>7. \A kind : ~Pending(kind)
  BY <1>2, QueueEmpty
<1>8. GameInv
  <2>1. MaxSteps # 0
    BY SimAssumption
  <2>2. Quiet /\ Game /\ Absentees
    BY <1>2, <1>4, <2>1, RestFields DEF Quiet, Game, Absentees
  <2>3. StartFirst /\ LastStep
    BY <1>2, <1>7 DEF StartFirst, LastStep
  <2>4. QED
    BY <2>2, <2>3 DEF GameInv
<1>9. BooksInv
  <2>1. \A s \in Seats : /\ ~Killed(s) /\ ~Watched(s) /\ tracker[s].startup
                         /\ tracker[s].cpu = 0 /\ used[s] >= 0
    BY <1>1, <1>4, NewTrackerFields, BudgetAssumption DEF Untouched, Killed, Watched, Typed, SimTyped
  <2>2. sim.tags = {} /\ sim.players = {}
    BY <1>2, RestFields
  <2>3. Emptied /\ CpuOfThisTurn /\ KnownAfterStart /\ GoneAfterStep /\ StillAfterLastStep
    BY <2>1, <2>2 DEF Emptied, CpuOfThisTurn, KnownAfterStart, GoneAfterStep, StillAfterLastStep
  <2>4. Turn /\ Scored
    BY <2>2 DEF Turn, Scored
  <2>5. QED
    BY <2>3, <2>4 DEF BooksInv
<1>10. QED
  BY <1>1, <1>5, <1>6, <1>8, <1>9 DEF MatchInv

LEMMA MatchStutters ==
  ASSUME MatchInv, UNCHANGED vars
  PROVE  MatchInv'
<1>1. /\ UNCHANGED <<dockerVars, simVars, managerVars, main, scenario, faults>>
      /\ UNCHANGED <<docker, alive, me, strays, leftovers, newcomers>>
      /\ UNCHANGED <<box, fit, sim, queue, used, tracker, poller, delivery, timed, spared, blind>>
  BY DEF vars, dockerVars, simVars, managerVars
<1>2. Typed'
  BY StutterTyped DEF MatchInv
<1>3. Phases'
  BY <1>1 DEF MatchInv, Phases
<1>4. DockerInv'
  BY <1>1 DEF MatchInv, DockerInv, Listed, Swept, OwnHeld, NetsLast, Booted
<1>5. GameInv'
  BY <1>1, GameSteady DEF MatchInv
<1>6. Turn'
  BY <1>1, QueueSame, TurnSteady DEF MatchInv, BooksInv
<1>7. BooksInv'
  BY <1>1, <1>6, QueueSame, BooksSteady DEF MatchInv
<1>8. QED
  BY <1>2, <1>3, <1>4, <1>5, <1>7 DEF MatchInv

LEMMA MatchKept ==
  ASSUME MatchInv, [Next]_vars
  PROVE  MatchInv'
<1>1. CASE Next
  <2>1. Typed'
    BY <1>1, NextTyped DEF MatchInv
  <2>2. QED
    BY <1>1, <2>1, PhasesKept, DockerKept, GameKept, BooksKept DEF MatchInv
<1>2. CASE UNCHANGED vars
  BY <1>2, MatchStutters
<1>3. QED
  BY <1>1, <1>2

\* The inductive invariant behind every result below: of run_match, the
\* manager's threads and the sim, in any interleaving.
THEOREM AlwaysMatchInv == Spec => []MatchInv
<1>1. MatchInv /\ [Next]_vars => MatchInv'
  BY MatchKept
<1>2. QED
  BY InitMatch, <1>1, PTL DEF Spec

\* The sim is never further ahead than MaxLag events, but for the start.
LEMMA LagKept ==
  ASSUME MatchInv, Len(queue) <= MaxLag + 1, [Next]_vars
  PROVE  Len(queue') <= MaxLag + 1
<1> USE DEF MatchInv, Typed, SimTyped
<1>0. MaxLag \in Nat /\ Len(queue) \in Nat /\ MatchInv'
  BY SimAssumption, LenProperties, MatchKept
<1>1. ASSUME queue' = queue \/ queue' = <<>>
      PROVE  Len(queue') <= MaxLag + 1
  BY <1>0, <1>1
<1>2. ASSUME NEW kind, Delivers(kind)
      PROVE  Len(queue') <= MaxLag + 1
  BY <1>0, <1>2, Delivering
<1>3. ASSUME NEW e \in Events, queue' = Append(queue, e), Len(queue) < MaxLag \/ queue = <<>>
      PROVE  Len(queue') <= MaxLag + 1
  BY <1>0, <1>3, Appending
<1>4. CASE MainThread \/ DockerFails
  BY <1>1, <1>4, MainSteps DEF MainShape
<1>5. CASE PollThread \/ DeliveryThread
  BY <1>1, <1>2, <1>5
     DEF PollThread, DeliveryThread, Poll, NotifyStart, NotifyStep, NotifyDecision, NotifyStop
<1>6. CASE SimProcess \/ Agents \/ SimCrashes
  <2>1. ASSUME NEW tags \in SUBSET Seats, SimBegins(tags)
        PROVE  Len(queue') <= MaxLag + 1
    BY <1>3, <2>1, EventsAre DEF SimBegins, GameInv, Quiet
  <2>2. ASSUME NEW s \in Seats, Answers(s)
        PROVE  Len(queue') <= MaxLag + 1
    <3>1. Event("decision", {s}) \in Events
      BY EventsAre
    <3>2. QED
      BY <1>3, <2>2, <3>1 DEF Answers
  <2>3. ASSUME NEW dead \in SUBSET Seats, StepEnds(dead)
        PROVE  Len(queue') <= MaxLag + 1
    <3>1. sim.players \ (dead \union sim.broken) \in SUBSET Seats
      BY DEF SimState
    <3>2. Event("step", sim.players \ (dead \union sim.broken)) \in Events
      BY <3>1, EventsAre
    <3>3. QED
      BY <1>3, <2>3, <3>2 DEF StepEnds
  <2>4. CASE SimEnds
    BY <1>3, <2>4, EventsAre DEF SimEnds
  <2>5. ASSUME NEW s \in Seats, StreamBreaks(s) \/ AgentExits(s) \/ AgentStops(s)
        PROVE  Len(queue') <= MaxLag + 1
    BY <1>1, <2>5 DEF StreamBreaks, AgentExits, AgentStops
  <2>6. CASE SimFails
    BY <1>1, <2>6 DEF SimFails
  <2>7. QED
    BY <1>6, <2>1, <2>2, <2>3, <2>4, <2>5, <2>6 DEF SimProcess, Agents, SimCrashes
<1>7. CASE Clock \/ DaemonDies \/ Peers \/ Deploy \/ UNCHANGED vars
  BY <1>1, <1>7 DEF Clock, Tick, DaemonDies, Dies, Peers, Deploy, vars, simVars
<1>8. QED
  BY <1>4, <1>5, <1>6, <1>7 DEF Next

\* Types: also the queue keeps within its bound.  The sim is at most so far
\* ahead of the delivery thread because it begins with nothing queued.
THEOREM MatchTypes == Spec => []TypeOK
<1> DEFINE Bounded == MatchInv /\ Len(queue) <= MaxLag + 1
<1>1. Init => Bounded
  BY InitMatch, SimAssumption DEF Init, SimInit
<1>2. Bounded /\ [Next]_vars => Bounded'
  BY MatchKept, LagKept
<1>3. Bounded => TypeOK
  BY DEF MatchInv, Typed, DockerTyped, SimTyped, ManagerTyped, MainTyped, CaseTyped, TypeOK
<1>4. QED
  BY <1>1, <1>2, <1>3, PTL DEF Spec

\* Nothing accumulates on the docker host, whatever fails and whoever dies:
\* each labelled resource has somebody, or something, to answer for it.
THEOREM NothingAccumulates == Spec => []EverythingIsAccountedFor
<1>1. ASSUME MatchInv
      PROVE  EverythingIsAccountedFor
  <2> USE DEF MatchInv, DockerInv
  <2>1. SUFFICES ASSUME NEW r \in docker \ strays
                 PROVE  \/ r \in Mine(main.held \union IF main.pc = "probing" THEN {Probe} ELSE {})
                        \/ r.owner = me /\ r \in leftovers
                        \/ r.owner # me /\ (Booted => r.owner \in main.seen \union newcomers)
    BY DEF EverythingIsAccountedFor
  <2>2. CASE r.owner # me
    BY <1>1, <2>2 DEF Swept
  <2>3. CASE r.owner = me
    <3>1. r = [what |-> r.what, owner |-> me]
      BY <1>1, <2>3 DEF Typed, DockerTyped, Resource
    <3>2. \/ r.what \in main.held
          \/ r.what = Probe /\ main.pc = "probing"
          \/ r \in leftovers
      BY <1>1, <2>3 DEF OwnHeld
    <3>3. QED
      BY <2>3, <3>1, <3>2 DEF Mine, Owned
  <2>4. QED
    BY <2>2, <2>3
<1>2. QED
  BY <1>1, AlwaysMatchInv, PTL

\* The sweep at boot removes nothing of a daemon that is alive, unless it came
\* up after the ids were listed.
THEOREM SweepSpares == Spec => SweepSparesTheLiving
<1>1. ASSUME MatchInv, [Next]_vars,
             main.pc \in {"sweepContainers", "sweepNetworks"}, main'.pc # main.pc,
             NEW r \in docker \ docker'
      PROVE  r.owner \notin alive \/ r.owner \in newcomers
  <2>1. alive \subseteq main.seen \union newcomers
    BY <1>1 DEF MatchInv, DockerInv, Listed
  <2>2. ASSUME NEW pc, NEW whats, NEW next, NEW left, Sweeps(pc, whats, next, left)
        PROVE  r.owner \notin main.seen
    BY <1>1, <2>2 DEF Sweeps, Removes, Orphans
  <2>3. ASSUME NEW left, SweepsContainers(left) \/ SweepsNetworks(left)
        PROVE  r.owner \notin main.seen
    BY <2>2, <2>3 DEF SweepsContainers, SweepsNetworks
  <2>4. \/ \E left : SweepsContainers(left) \/ SweepsNetworks(left)
        \/ DaemonDies \/ main' = main
    BY <1>1
       DEF Next, MainThread, DockerFails, PollThread, DeliveryThread, SimProcess, Agents, Clock,
           SimCrashes, Peers, Deploy, vars, At,
           Boots, SweepLists, BeginsMatch, MakesNet, RunsAgent, ImageMissing, AgentsUp, ProbeStarts,
           Monitors, MakesSimNet, Attaches, CreatesSim, StartsSim, WaitEnds, StopsObserving,
           ProbeEnds, ProbeBreaks, CleansContainers, CleansNetworks, MakesNothing, ProbeRefused, WaitBreaks, LogsBreak
  <2>5. CASE DaemonDies
    BY <1>1, <2>5 DEF DaemonDies, Dies
  <2>6. CASE main' = main
    BY <1>1, <2>6
  <2>7. QED
    BY <2>1, <2>3, <2>4, <2>5, <2>6
<1>2. MatchInv /\ [Next]_vars =>
        [main.pc \in {"sweepContainers", "sweepNetworks"} /\ main'.pc # main.pc =>
           \A r \in docker \ docker' : r.owner \notin alive \/ r.owner \in newcomers]_vars
  BY <1>1
<1>3. QED
  BY <1>2, AlwaysMatchInv, PTL DEF Spec, SweepSparesTheLiving

\* Which seats are blamed is settled with the result, and from then on the sim
\* is not started any more.
LEMMA BlameKept ==
  ASSUME MatchInv, NobodyWhoPlayedIsBlamed, [Next]_vars
  PROVE  NobodyWhoPlayedIsBlamed'
<1> USE DEF MatchInv, Typed
<1>1. CASE MainThread \/ DockerFails
  <2>1. MainShape
    BY <1>1, MainSteps
  <2>2. sim'.tags \subseteq sim.tags
    BY <2>1, RestFields DEF MainShape, SimTyped, SimState
  <2>3. CASE main'.result = main.result
    BY <2>2, <2>3 DEF NobodyWhoPlayedIsBlamed
  <2>4. CASE main.pc \in Early
    <3>1. sim.tags = {}
      BY <2>4, RestFields DEF Phases
    <3>2. QED
      BY <2>2, <3>1 DEF NobodyWhoPlayedIsBlamed
  <2>5. CASE WaitEnds \/ WaitBreaks
    <3>1. main'.result.blamed = InitFailed
      BY <2>5, GoesOnFields DEF WaitEnds, WaitBreaks
    <3>2. InitFailed \intersect sim.tags = {}
      BY DEF InitFailed, GameInv, Absentees
    <3>3. QED
      BY <2>2, <3>1, <3>2 DEF NobodyWhoPlayedIsBlamed
  <2>6. /\ CreatesSim \/ StartsSim \/ LogsBreak \/ StopsObserving => main'.result = main.result
        /\ \A left : CleansContainers(left) \/ CleansNetworks(left) => main'.result = main.result
        /\ \A made : MakesNothing(made) => main'.result = main.result
    BY GoesOnFields, MainFields
       DEF CreatesSim, StartsSim, LogsBreak, StopsObserving, CleansContainers, CleansNetworks, MakesNothing
  <2>7. NotServing \in SUBSET Seats
    BY DEF NotServing
  <2>8. EarlyStep => main.pc \in Early
    BY EarlyShape
  <2>9. \/ EarlyStep \/ \E made : MakesNothing(made)
        \/ CreatesSim \/ StartsSim \/ WaitEnds \/ WaitBreaks \/ LogsBreak
        \/ StopsObserving \/ \E left : CleansContainers(left) \/ CleansNetworks(left)
    BY <1>1, <2>7 DEF MainThread, DockerFails, EarlyStep
  <2>10. QED
    BY <2>3, <2>4, <2>5, <2>6, <2>8, <2>9
<1>2. CASE /\ main' = main
           /\ sim' = sim \/ sim.pc \in {"booting", "running"}
  <2>1. main.result.given => sim' = sim
    BY <1>2 DEF Phases, Late
  <2>2. QED
    BY <1>2, <2>1 DEF NobodyWhoPlayedIsBlamed
<1>3. CASE PollThread \/ DeliveryThread \/ Clock \/ Peers \/ Deploy \/ UNCHANGED vars
  <2>1. main' = main /\ sim' = sim
    BY <1>3 DEF PollThread, DeliveryThread, Poll, NotifyStart, NotifyStep, NotifyDecision, NotifyStop,
                Clock, Tick, Peers, Deploy, vars, simVars
  <2>2. QED
    BY <1>2, <2>1
<1>4. CASE SimProcess \/ Agents \/ SimCrashes
  <2>1. /\ main' = main
        /\ sim' = sim \/ sim.pc \in {"booting", "running"}
    BY <1>4 DEF SimProcess, Agents, SimCrashes, SimBegins, Answers, StreamBreaks, StepEnds, SimEnds,
                SimFails, AgentExits, AgentStops
  <2>2. QED
    BY <1>2, <2>1
<1>5. CASE DaemonDies
  <2>1. main'.result = NoResult
    BY <1>5 DEF DaemonDies, Dies, MainRest
  <2>2. QED
    BY <2>1 DEF NobodyWhoPlayedIsBlamed, NoResult
<1>6. QED
  BY <1>1, <1>3, <1>4, <1>5 DEF Next

\* No image is quarantined of a seat that made it into the game.
THEOREM BlameIsJust == Spec => []NobodyWhoPlayedIsBlamed
<1>1. Init => NobodyWhoPlayedIsBlamed
  BY DEF Init, MainRest, NoResult, NobodyWhoPlayedIsBlamed
<1>2. MatchInv /\ NobodyWhoPlayedIsBlamed /\ [Next]_vars => NobodyWhoPlayedIsBlamed'
  BY BlameKept
<1>3. QED
  BY <1>1, <1>2, AlwaysMatchInv, PTL DEF Spec

\* How any step may change a tracker.
LEMMA TrackerSteps ==
  ASSUME MatchInv, [Next]_vars, NEW s \in Seats
  PROVE  \/ tracker'[s].reason = tracker[s].reason
         \/ /\ Watched(s) /\ ~Unreadable(s) /\ Verdict(s) # "none"
            /\ tracker'[s].reason = Verdict(s)
         \/ /\ ~Killed(s)
            /\ tracker'[s].reason \in {"none", "init_failure", "startup_cpu", "sustained",
                                       "sustained_wall", "dead"}
         \/ main'.pc = "down" /\ tracker'[s].reason = "none"
<1> USE DEF MatchInv, Typed
<1>1. CASE MainThread \/ DockerFails
  BY <1>1, MainSteps DEF MainShape
<1>2. ASSUME NEW refused, Poll(refused)
      PROVE  \/ tracker'[s].reason = tracker[s].reason
             \/ /\ Watched(s) /\ ~Unreadable(s) /\ Verdict(s) # "none"
                /\ tracker'[s].reason = Verdict(s)
  BY <1>2, PollTrackers, ShotFields
<1>3. ASSUME NEW heavy, NEW refused, NotifyStart(heavy, refused)
      PROVE  /\ ~Killed(s)
             /\ tracker'[s].reason \in {"none", "init_failure", "startup_cpu"}
  <2>1. queue \in Seq(Events)
    BY DEF SimTyped
  <2>2. Untouched
    BY <1>3, <2>1, StartTrackers
  <2>3. /\ [NewTracker EXCEPT !.startup = FALSE, !.known = TRUE].reason = "none"
        /\ tracker[s].reason = "none"
    BY <2>2 DEF Untouched, NewTracker
  <2>4. \/ tracker'[s] = Shot(s, "init_failure")
        \/ tracker'[s] = Shot(s, "startup_cpu")
        \/ tracker'[s] = [NewTracker EXCEPT !.startup = FALSE, !.known = TRUE]
        \/ tracker'[s] = tracker[s]
    BY <1>3, <2>1, StartTrackers
  <2>5. ~Killed(s)
    BY <2>2, UntouchedSeats
  <2>6. \A reason : Shot(s, reason).reason = reason
    BY ShotFields
  <2>7. QED
    BY <2>3, <2>4, <2>5, <2>6
<1>4. ASSUME NEW broke, NEW wallBroke, NEW refused, NotifyStep(broke, wallBroke, refused)
      PROVE  \/ tracker'[s].reason = tracker[s].reason
             \/ /\ ~Killed(s)
                /\ tracker'[s].reason \in {"sustained", "sustained_wall", "dead"}
  <2>1. tracker[s] \in TrackerState
    BY DEF ManagerTyped
  <2>2. QED
    BY <1>4, <2>1, StepTrackers, ShotFields, ClosedFields
<1>5. CASE NotifyDecision \/ NotifyStop
  BY <1>5, DecisionTrackers DEF NotifyStop
<1>6. CASE Clock
  BY <1>6, TickTrackers DEF Clock
<1>7. CASE SimProcess \/ Agents \/ SimCrashes \/ Peers \/ Deploy \/ UNCHANGED vars
  BY <1>7 DEF SimProcess, Agents, SimCrashes, Peers, Deploy, vars, managerVars
<1>8. CASE DaemonDies
  <2>1. tracker' = [x \in Seats |-> NewTracker] /\ main'.pc = "down"
    BY <1>8 DEF DaemonDies, Dies, MainRest
  <2>2. QED
    BY <2>1, NewTrackerFields
<1>9. QED
  BY <1>1, <1>2, <1>3, <1>4, <1>5, <1>6, <1>7, <1>8 DEF Next, PollThread, DeliveryThread

\* The poll thread's verdicts are about the turn that the sim is waiting for,
\* however late the events are.
THEOREM CauseOfKills == Spec => KilledForCause
<1>1. ASSUME MatchInv, [Next]_vars, NEW s \in Seats, ~Killed(s), ~blind
      PROVE  /\ tracker'[s].reason = "per_step" /\ ~Pending("step") => used[s] > PerStepCpu
             /\ tracker'[s].reason = "wall_clock" /\ ~Pending("step") /\ ~Pending("decision") =>
                  s \in sim.thinking
  <2> USE <1>1 DEF MatchInv, Typed
  <2>1. CASE Watched(s) /\ ~Unreadable(s) /\ Verdict(s) # "none" /\ tracker'[s].reason = Verdict(s)
    <3>1. main.pc # "over"
      BY <2>1 DEF Phases, Unreadable
    <3>2. /\ tracker[s].cpu \in Nat /\ tracker[s].wall \in Nat /\ used[s] \in Nat
          /\ PerStepCpu \in Nat /\ PerStepWall \in Nat
      BY BudgetAssumption DEF ManagerTyped, SimTyped, TrackerState
    <3>3. ASSUME tracker'[s].reason = "per_step", ~Pending("step")
          PROVE  used[s] > PerStepCpu
      <4>1. tracker[s].cpu > PerStepCpu
        BY <2>1, <3>3 DEF Verdict
      <4>2. tracker[s].cpu <= used[s] \/ used[s] > PerStepCpu
        BY <3>1, <3>3 DEF BooksInv, CpuOfThisTurn, Observed
      <4>3. QED
        BY <3>2, <4>1, <4>2
    <3>4. ASSUME tracker'[s].reason = "wall_clock", ~Pending("step"), ~Pending("decision")
          PROVE  s \in sim.thinking
      <4>1. tracker[s].wall > PerStepWall
        BY <2>1, <3>4 DEF Verdict
      <4>2. ~Pending("start")
        BY <2>1, UntouchedSeats DEF GameInv, StartFirst
      <4>3. s \in sim.players
        BY <2>1, <3>1, <3>4, <4>2 DEF BooksInv, GoneAfterStep, Observed, Watched
      <4>4. sim.step # MaxSteps
        BY <2>1, <3>1, <3>2, <3>4, <4>1 DEF BooksInv, StillAfterLastStep, Observed
      <4>5. ~AnswerQueued(s)
        BY <3>4 DEF AnswerQueued, Pending
      <4>6. QED
        BY <2>1, <4>3, <4>4, <4>5 DEF BooksInv, Turn, Watched, Unreadable
    <3>5. QED
      BY <3>3, <3>4
  <2>2. CASE tracker'[s].reason \notin {"per_step", "wall_clock"}
    BY <2>2
  <2>3. tracker[s].reason = "none"
    BY DEF Killed
  <2>4. QED
    BY <2>1, <2>2, <2>3, TrackerSteps
<1>2. MatchInv /\ [Next]_vars =>
        [\A s \in Seats : ~Killed(s) /\ ~blind =>
           /\ tracker'[s].reason = "per_step" /\ ~Pending("step") => used[s] > PerStepCpu
           /\ tracker'[s].reason = "wall_clock" /\ ~Pending("step") /\ ~Pending("decision") =>
                s \in sim.thinking]_vars
  BY <1>1
<1>3. QED
  BY <1>2, AlwaysMatchInv, PTL DEF Spec, KilledForCause

\* Each of two threads may kill, and the first reason stays.
THEOREM FirstReasonStays == Spec => KillReasonsAreFinal
<1>1. ASSUME MatchInv, [Next]_vars, NEW s \in Seats, Killed(s), main'.pc # "down"
      PROVE  tracker'[s].reason = tracker[s].reason
  BY <1>1, TrackerSteps DEF Watched
<1>2. MatchInv /\ [Next]_vars =>
        [\A s \in Seats :
           Killed(s) /\ main'.pc # "down" => tracker'[s].reason = tracker[s].reason]_vars
  BY <1>1
<1>3. QED
  BY <1>2, AlwaysMatchInv, PTL DEF Spec, KillReasonsAreFinal

\* When a match turns out a success, everybody in it can be scored.
THEOREM ScoresForAll == Spec => SuccessCanBeScored
<1>1. ASSUME MatchInv, [Next]_vars, main'.result.ok, ~main.result.ok, queue = <<>>, ~blind,
             NEW s \in sim.tags
      PROVE  s \in timed \/ tracker[s].reason \in {"startup_cpu", "per_step", "wall_clock"}
  <2> USE <1>1 DEF MatchInv, Typed
  <2>1. WaitEnds
    <3>1. NotServing \in SUBSET Seats
      BY DEF NotServing
    <3>2. ~EarlyStep
      BY EarlyShape
    <3>3. \A made : MakesNothing(made) => main'.result = main.result
      BY GoesOnFields DEF MakesNothing
    <3>4. /\ CreatesSim \/ StartsSim \/ LogsBreak \/ StopsObserving => main'.result = main.result
          /\ \A left : CleansContainers(left) \/ CleansNetworks(left) => main'.result = main.result
          /\ WaitBreaks => ~main'.result.ok
      BY GoesOnFields, MainFields
         DEF CreatesSim, StartsSim, LogsBreak, StopsObserving, CleansContainers, CleansNetworks, WaitBreaks
    <3>5. MainThread \/ DockerFails => WaitEnds
      BY <3>1, <3>2, <3>3, <3>4 DEF MainThread, DockerFails, EarlyStep
    <3>6. DaemonDies => ~main'.result.ok
      BY DEF DaemonDies, Dies, MainRest, NoResult
    <3>7. main' # main
      OBVIOUS
    <3>8. QED
      BY <3>5, <3>6, <3>7 DEF Next, PollThread, DeliveryThread, SimProcess, Agents, Clock, SimCrashes,
                              Peers, Deploy, vars
  <2>2. main.pc = "wait" /\ sim.ok
    BY <2>1, GoesOnFields DEF WaitEnds, At
  <2>3. ~Pending("start") /\ ~Pending("step")
    BY QueueEmpty
  <2>4. sim.step # 0
    <3>1. MaxSteps # 0
      BY SimAssumption
    <3>2. QED
      BY <2>2, <3>1 DEF GameInv, Game
  <2>5. QED
    BY <2>2, <2>3, <2>4 DEF BooksInv, Scored, Observed, InTime
<1>2. MatchInv /\ [Next]_vars =>
        [main'.result.ok /\ ~main.result.ok /\ queue = <<>> /\ ~blind =>
           \A s \in sim.tags :
             s \in timed \/ tracker[s].reason \in {"startup_cpu", "per_step", "wall_clock"}]_vars
  BY <1>1
<1>3. QED
  BY <1>2, AlwaysMatchInv, PTL DEF Spec, SuccessCanBeScored
=============================================================================
