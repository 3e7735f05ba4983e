------------------------------- MODULE MatchRun ------------------------------
(***************************************************************************)
(* run_match (runner/match.py), the main thread of a runner: make networks *)
(* and containers, see that the agents come up, have the sim play, give    *)
(* the result to on_result, and clean up on every way out; and the boot of *)
(* the daemon around it.                                                   *)
(***************************************************************************)
EXTENDS ContainerManager

VARIABLE main  \* the main thread: pc, what the sweep listed, what run_match's
               \* lists hold, and the result

NoResult == [given |-> FALSE, ok |-> FALSE, blamed |-> {}]
MainRest(pc) == [pc |-> pc, n |-> 0, seen |-> {}, held |-> {}, result |-> NoResult]

MainState ==
  [pc : {"down", "list", "sweepContainers", "sweepNetworks", "idle", "nets", "agents", "ready",
         "probe", "probing", "monitor", "simnet", "attach", "create", "start", "wait",
         "clean", "cleanNets", "stop", "over"},
   n : 0 .. NumSeats, seen : SUBSET Runners, held : SUBSET (Containers \union Networks),
   result : [given : BOOLEAN, ok : BOOLEAN, blamed : SUBSET Seats]]

At(pc) == main.pc = pc
GoesOn(pc) == main' = [main EXCEPT !.pc = pc]
Holds(what, pc) == main' = [main EXCEPT !.pc = pc, !.held = @ \union {what}]
Gives(ok, blamed) ==
  main' = [main EXCEPT !.pc = "clean",
                       !.result = [given |-> TRUE, ok |-> ok, blamed |-> blamed]]

------------------------------------------------------------------------------
(* The daemon boots, sweeps, and takes a match; and it may die.            *)

Boots ==
  /\ At("down")
  /\ GoesOn("list")
  /\ UNCHANGED <<dockerVars, simVars, managerVars>>

SweepLists ==
  /\ At("list")
  /\ main' = [main EXCEPT !.pc = "sweepContainers", !.seen = alive]
  /\ newcomers' = {}
  /\ UNCHANGED <<docker, alive, me, strays, leftovers, simVars, managerVars>>

Sweeps(pc, whats, next, left) ==
  /\ At(pc)
  /\ left \subseteq Orphans(whats, main.seen)
  /\ Removes(Orphans(whats, main.seen), left)
  /\ GoesOn(next)
  /\ UNCHANGED <<simVars, managerVars>>

SweepsContainers(left) == Sweeps("sweepContainers", Containers, "sweepNetworks", left)
SweepsNetworks(left) == Sweeps("sweepNetworks", Networks, "idle", left)

BeginsMatch ==
  /\ At("idle")
  /\ GoesOn("nets")
  /\ UNCHANGED <<dockerVars, simVars, managerVars>>

\* The process dies; nobody observes the sim and the agents any more, which
\* docker keeps running.
Dies ==
  /\ ~At("down") /\ ~At("over")
  /\ main' = [MainRest("down") EXCEPT !.seen = main.seen]
  /\ leftovers' = leftovers \union {r \in docker : r.owner = me}
  /\ box' = [s \in Seats |-> "none"] /\ used' = [s \in Seats |-> 0]
  /\ sim' = SimRest("none") /\ queue' = <<>>
  /\ tracker' = [s \in Seats |-> NewTracker]
  /\ poller' = "off" /\ delivery' = "off"
  /\ timed' = {} /\ spared' = {} /\ blind' = FALSE
  /\ UNCHANGED <<docker, alive, me, strays, newcomers, fit>>

------------------------------------------------------------------------------
(* Setup.                                                                  *)

\* An exception of the docker API leaves run_match, through its finally.
Raises == main' = [main EXCEPT !.pc = "clean"]

MakesNet ==
  /\ At("nets")
  /\ Creates(Net(main.n))
  /\ main' = [main EXCEPT !.held = @ \union {Net(main.n)},
                          !.n = (@ + 1) % NumSeats,
                          !.pc = IF main.n + 1 = NumSeats THEN "agents" ELSE @]
  /\ UNCHANGED <<simVars, managerVars>>

\* containers.run creates and starts.
RunsAgent ==
  /\ At("agents")
  /\ Creates(Agent(main.n))
  /\ box' = [box EXCEPT ![main.n] = "up"]
  /\ main' = [main EXCEPT !.held = @ \union {Agent(main.n)},
                          !.n = (@ + 1) % NumSeats,
                          !.pc = IF main.n + 1 = NumSeats THEN "ready" ELSE @]
  /\ UNCHANGED <<fit, sim, queue, used, managerVars>>

\* ImageNotFound is a result; any other error of a create call is raised.
ImageMissing ==
  /\ At("agents")
  /\ main.n \notin fit
  /\ Gives(FALSE, {})
  /\ UNCHANGED <<dockerVars, simVars, managerVars>>

MakesNothing(made) ==
  /\ \/ At("nets") /\ CreateRaises(Net(main.n), made)
     \/ At("agents") /\ CreateRaises(Agent(main.n), made)
     \/ At("simnet") /\ CreateRaises(SimNet, made)
     \/ At("create") /\ CreateRaises(Sim, made)
     \/ main.pc \in {"ready", "attach", "start"} /\ ~made /\ UNCHANGED dockerVars
  /\ Raises
  /\ UNCHANGED <<simVars, managerVars>>

\* _wait_for_agents_ready and the check after it: everybody is running.
AgentsUp ==
  /\ At("ready")
  /\ IF \E s \in Seats : Unreadable(s) THEN Gives(FALSE, {}) ELSE GoesOn("probe")
  /\ UNCHANGED <<dockerVars, simVars, managerVars>>

ProbeStarts ==
  /\ At("probe")
  /\ Creates(Probe)
  /\ GoesOn("probing")
  /\ UNCHANGED <<simVars, managerVars>>

\* Mutant: the helper container is left for the cleanup, which does not know it.
ProbeLeft(failed, left) ==
  /\ At("probing")
  /\ IF failed = {} THEN GoesOn("monitor") ELSE Gives(FALSE, failed)
  /\ UNCHANGED <<dockerVars, simVars, managerVars>>

\* The targets that did not answer, and the helper is removed in any case.
ProbeEnds(failed, left) ==
  /\ At("probing")
  /\ left \subseteq Mine({Probe})
  /\ Removes(Mine({Probe}), left)
  /\ IF failed = {} THEN GoesOn("monitor") ELSE Gives(FALSE, failed)
  /\ UNCHANGED <<simVars, managerVars>>

\* An error of the start call alone is raised, past the helper's removal.
ProbeBreaks(left) ==
  /\ At("probing")
  /\ left \subseteq Mine({Probe})
  /\ Removes(Mine({Probe}), left)
  /\ Raises
  /\ UNCHANGED <<simVars, managerVars>>

NotServing == {s \in Seats : s \notin fit \/ ~Running(s)}

\* An outage of the probe counts for all targets.
ProbeRefused ==
  /\ At("probe")
  /\ Gives(FALSE, Seats)
  /\ UNCHANGED <<dockerVars, simVars, managerVars>>

Monitors ==
  /\ At("monitor")
  /\ IF \E s \in Seats : Unreadable(s)
     THEN Raises /\ UNCHANGED <<simVars, managerVars>>
     ELSE GoesOn("simnet") /\ InstallTrackers
  /\ UNCHANGED dockerVars

MakesSimNet ==
  /\ At("simnet")
  /\ Creates(SimNet)
  /\ Holds(SimNet, "attach")
  /\ UNCHANGED <<simVars, managerVars>>

\* router.attach, and the observable starts to listen.
Attaches ==
  /\ At("attach")
  /\ delivery' = "on"
  /\ GoesOn("create")
  /\ UNCHANGED <<dockerVars, simVars, tracker, poller, timed, spared, blind>>

CreatesSim ==
  /\ At("create")
  /\ Creates(Sim)
  /\ sim' = SimRest("created")
  /\ Holds(Sim, "start")
  /\ UNCHANGED <<box, fit, queue, used, managerVars>>

StartsSim ==
  /\ At("start")
  /\ sim' = SimRest("booting")
  /\ GoesOn("wait")
  /\ UNCHANGED <<dockerVars, box, fit, queue, used, managerVars>>

------------------------------------------------------------------------------
(* The end.                                                                *)

InitFailed == {s \in Seats : tracker[s].reason = "init_failure"}

\* The sim has exited; the result is snapshot and on_result called.
WaitEnds ==
  /\ At("wait")
  /\ sim.pc = "over"
  /\ Gives(sim.ok, InitFailed)
  /\ UNCHANGED <<dockerVars, simVars, managerVars>>

\* The call to wait fails: the sim is killed and the match has failed.
WaitBreaks ==
  /\ At("wait")
  /\ Gives(FALSE, InitFailed)
  /\ sim' = [sim EXCEPT !.pc = "over"]
  /\ UNCHANGED <<dockerVars, box, fit, queue, used, managerVars>>

\* Reading the sim's log fails, and the match is lost.
LogsBreak ==
  /\ At("wait")
  /\ sim.pc = "over"
  /\ Raises
  /\ UNCHANGED <<dockerVars, simVars, managerVars>>

\* _cleanup: containers first, each on its own ...
CleansContainers(left) ==
  /\ At("clean")
  /\ LET held == Mine(main.held \intersect Containers)
     IN left \subseteq held /\ Removes(held, left)
  /\ box' = [s \in Seats |-> "down"]
  /\ main' = [main EXCEPT !.pc = "cleanNets", !.held = @ \ Containers]
  /\ UNCHANGED <<fit, sim, queue, used, managerVars>>

\* ... then the networks ...
CleansNetworks(left) ==
  /\ At("cleanNets")
  /\ LET held == Mine(main.held \intersect Networks)
     IN left \subseteq held /\ Removes(held, left)
  /\ main' = [main EXCEPT !.pc = "stop", !.held = {}]
  /\ UNCHANGED <<simVars, managerVars>>

\* ... and the observable, with whatever it has not delivered.  The poll
\* thread is not told.
StopsObserving ==
  /\ At("stop")
  /\ delivery' = "off"
  /\ queue' = <<>>
  /\ GoesOn("over")
  /\ UNCHANGED <<dockerVars, box, fit, sim, used, tracker, poller, timed, spared, blind>>
=============================================================================
