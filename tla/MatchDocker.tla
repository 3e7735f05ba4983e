----------------------------- MODULE MatchDocker -----------------------------
(***************************************************************************)
(* The docker host that several runners share: the networks and containers *)
(* of their matches, each labelled with the runner_id of the daemon that   *)
(* made it, and the sweep a daemon runs when it starts (runner/match.py).  *)
(***************************************************************************)
EXTENDS Integers, FiniteSets

CONSTANTS
  NumSeats,   \* agents in the match
  Runners     \* runner_ids: the ids of the daemons' own containers

ASSUME SeatsAssumption == NumSeats \in Nat \ {0}

VARIABLES
  docker,     \* the labelled networks and containers
  alive,      \* the runner_ids whose container exists, running or not
  me,         \* the runner_id of the daemon modelled in full
  strays,     \* ghost: what an API call made and raised, or failed to remove
  leftovers,  \* ghost: what the daemon held when it died
  newcomers   \* ghost: the peers that booted since the daemon listed the ids

dockerVars == <<docker, alive, me, strays, leftovers, newcomers>>

Seats == 0 .. NumSeats - 1

Net(s) == <<"net", s>>
Agent(s) == <<"agent", s>>
SimNet == <<"simnet", 0>>
Sim == <<"sim", 0>>
Probe == <<"probe", 0>>

Containers == {Agent(s) : s \in Seats} \union {Sim, Probe}
Networks == {Net(s) : s \in Seats} \union {SimNet}
Resource == [what : Containers \union Networks, owner : Runners]

Owned(whats, r) == {[what |-> w, owner |-> r] : w \in whats}
Mine(whats) == Owned(whats, me)

\* The host before the daemon's first boot: peers with and without a match.
DockerInit ==
  /\ me \in Runners
  /\ alive = {me}
  /\ docker \in {Owned({Agent(0), Net(0)}, r) : r \in Runners \ {me}} \union {{}}
  /\ strays = {} /\ leftovers = {} /\ newcomers = {}

\* A create call that answers, and one that raises, perhaps after the fact.
Creates(what) ==
  /\ docker' = docker \union Mine({what})
  /\ UNCHANGED <<alive, me, strays, leftovers, newcomers>>

CreateRaises(what, made) ==
  /\ docker' = IF made THEN docker \union Mine({what}) ELSE docker
  /\ strays' = IF made THEN strays \union Mine({what}) ELSE strays
  /\ UNCHANGED <<alive, me, leftovers, newcomers>>

\* Removals that swallow an error of the docker API for those left.
Removes(gone, left) ==
  /\ docker' = docker \ (gone \ left)
  /\ strays' = (strays \ (gone \ left)) \union left
  /\ UNCHANGED <<alive, me, leftovers, newcomers>>

\* Mutant: everything labelled as a match's is swept.
AllLabelled(whats, ids) == {r \in docker : r.what \in whats}

\* What sweep_orphan_resources removes, going by the ids it listed first.
Orphans(whats, ids) == {r \in docker : r.what \in whats /\ r.owner \notin ids}

------------------------------------------------------------------------------
(* The other daemons, and the operator.                                    *)

\* A peer boots, starts or ends a match, or is taken down with its container
\* (compose down), which leaves its match behind.
PeerBoots(p) ==
  /\ p \notin alive
  /\ Owned(Containers \union Networks, p) \intersect docker = {}
  /\ alive' = alive \union {p}
  /\ newcomers' = newcomers \union {p}
  /\ UNCHANGED <<docker, me, strays, leftovers>>

PeerPlays(p) ==
  /\ p \in alive \ {me}
  /\ \/ docker' = docker \union Owned({Agent(0), Net(0)}, p)
     \/ docker' = docker \ Owned({Agent(0), Net(0)}, p)
  /\ UNCHANGED <<alive, me, strays, leftovers, newcomers>>

PeerLeaves(p) ==
  /\ p \in alive \ {me}
  /\ alive' = alive \ {p}
  /\ UNCHANGED <<docker, me, strays, leftovers, newcomers>>

\* The daemon's own container is recreated, as opposed to restarted.
Recreated(id) ==
  /\ id \notin alive
  /\ Owned(Containers \union Networks, id) \intersect docker = {}
  /\ alive' = (alive \ {me}) \union {id}
  /\ me' = id
  /\ UNCHANGED <<docker, strays, leftovers, newcomers>>
=============================================================================
