-------------------------------- MODULE SimRun -------------------------------
(***************************************************************************)
(* The sim container and the agent containers it plays, as run_match's     *)
(* arguments and observers show them: the sim asks every living snake for  *)
(* a decision, without a timeout of its own (--decision-timeout-ms 0), and *)
(* sends what happens to the runner's socket.                              *)
(***************************************************************************)
EXTENDS MatchDocker, Sequences

CONSTANTS
  MaxSteps,   \* bound: steps of the game
  MaxLag      \* bound: events the runner is behind by

ASSUME SimAssumption == MaxSteps \in Nat \ {0} /\ MaxLag \in Nat

VARIABLES
  box,        \* the agents' processes
  fit,        \* the seats whose image comes up and serves
  sim,        \* the sim's process and game
  queue,      \* events sent by the sim and not yet delivered to the observers
  used        \* ghost: the agents' CPU in the current decision

simVars == <<box, fit, sim, queue, used>>

Running(s) == box[s] \in {"up", "stopping"}

SimRest(pc) == [pc |-> pc, ok |-> FALSE, tags |-> {}, players |-> {},
                thinking |-> {}, broken |-> {}, step |-> 0]

SimState ==
  [pc : {"none", "created", "booting", "running", "over"}, ok : BOOLEAN,
   tags : SUBSET Seats, players : SUBSET Seats, thinking : SUBSET Seats,
   broken : SUBSET Seats, step : 0 .. MaxSteps]

Event(kind, seats) == [kind |-> kind, seats |-> seats]
Events == [kind : {"start", "decision", "step", "stop"}, seats : SUBSET Seats]

SimInit ==
  /\ box = [s \in Seats |-> "none"]
  /\ sim = SimRest("none")
  /\ queue = <<>>
  /\ used = [s \in Seats |-> 0]

\* The game starts with the seats that answered the sim's gRPC init in time.
SimBegins(tags) ==
  /\ sim.pc = "booting"
  /\ tags \subseteq {s \in fit : Running(s)}
  /\ sim' = [sim EXCEPT !.pc = "running", !.tags = tags, !.players = tags, !.thinking = tags]
  /\ queue' = Append(queue, Event("start", tags))
  /\ UNCHANGED <<box, fit, used>>

\* An agent decides; one that has been killed may still do so.
Answers(s) ==
  /\ sim.pc = "running" /\ s \in sim.thinking
  /\ Running(s)
  /\ Len(queue) < MaxLag
  /\ sim' = [sim EXCEPT !.thinking = @ \ {s}]
  /\ queue' = Append(queue, Event("decision", {s}))
  /\ UNCHANGED <<box, fit, used>>

\* The stream to an agent that is gone breaks, which costs it its snake.
StreamBreaks(s) ==
  /\ sim.pc = "running" /\ s \in sim.thinking
  /\ box[s] = "down"
  /\ sim' = [sim EXCEPT !.thinking = @ \ {s}, !.broken = @ \union {s}]
  /\ UNCHANGED <<box, fit, queue, used>>

\* Everybody has moved: snakes die, the step is sent, the next one begins.
StepEnds(dead) ==
  /\ sim.pc = "running" /\ sim.thinking = {} /\ sim.players # {}
  /\ sim.step < MaxSteps
  /\ Len(queue) < MaxLag
  /\ dead \subseteq sim.players
  /\ LET left == sim.players \ (dead \union sim.broken)
     IN /\ sim' = [sim EXCEPT !.players = left, !.broken = {}, !.step = @ + 1,
                              !.thinking = IF sim.step + 1 < MaxSteps THEN left ELSE {}]
        /\ queue' = Append(queue, Event("step", left))
  /\ used' = [s \in Seats |-> 0]
  /\ UNCHANGED <<box, fit>>

\* The game is over by its rules, of which the last step stands for all.
SimEnds ==
  /\ sim.pc = "running" /\ sim.thinking = {}
  /\ sim.players = {} \/ sim.step = MaxSteps
  /\ Len(queue) < MaxLag
  /\ sim' = [sim EXCEPT !.pc = "over", !.ok = TRUE]
  /\ queue' = Append(queue, Event("stop", {}))
  /\ UNCHANGED <<box, fit, used>>

\* The sim's process goes down in the middle.
SimFails ==
  /\ sim.pc \in {"booting", "running"}
  /\ sim' = [sim EXCEPT !.pc = "over"]
  /\ UNCHANGED <<box, fit, queue, used>>

\* An agent's process ends of itself: a crash, or out of memory.
AgentExits(s) ==
  /\ box[s] = "up"
  /\ box' = [box EXCEPT ![s] = "down"]
  /\ UNCHANGED <<fit, sim, queue, used>>

\* SIGKILL takes effect.
AgentStops(s) ==
  /\ box[s] = "stopping"
  /\ box' = [box EXCEPT ![s] = "down"]
  /\ UNCHANGED <<fit, sim, queue, used>>
=============================================================================
