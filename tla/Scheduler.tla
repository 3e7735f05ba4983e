------------------------------- MODULE Scheduler -----------------------------
(***************************************************************************)
(* The scheduler daemon (orchestrator/scheduler_daemon.py).  One tick      *)
(* counts the queue of every mode once, then walks the enabled modes; each *)
(* query and each insert is a transaction of its own, so submissions,      *)
(* claims and results slip in between them.                                *)
(***************************************************************************)
EXTENDS Processes

CONSTANT QueueCap  \* per_mode_queue_cap

ASSUME QueueCapAssumption == QueueCap \in Nat \ {0}

VARIABLES
  enabled,  \* modes with enabled = TRUE
  sched     \* the scheduler's program counter and locals:
            \*   snap: queued jobs by mode as counted at the start of the tick
            \*   todo: modes still to walk, mode: the one being walked
            \*   room: jobs it may still insert for that mode
            \*   plan, tally: the underplayed versions read, and their weights

schedVars == <<enabled, sched>>

NoCounts == [m \in Modes |-> 0]
NoTally == [p \in Projects |-> 0]

SchedRest(pc) ==
  [pc |-> pc, snap |-> NoCounts, todo |-> {}, mode |-> NoMode, room |-> 0,
   plan |-> {}, tally |-> NoTally]

SchedState ==
  [pc    : {"down", "clear", "count", "walk", "solo", "multi", "pick", "sleep"},
   snap  : [Modes -> Nat],
   todo  : SUBSET Modes,
   mode  : Modes \union {NoMode},
   room  : Int,
   plan  : SUBSET Ref,
   tally : [Projects -> Nat]]

SchedInit ==
  /\ enabled = Modes
  /\ sched = SchedRest("clear")

SchedClear ==
  /\ sched.pc = "clear"
  /\ sched' = SchedRest("count")
  /\ ClearWakeup(Scheduler)
  /\ UNCHANGED <<enabled, job, listening, pending>>

\* list_modes(enabled_only) and count_queued_by_mode, once per tick.
SchedCount ==
  /\ sched.pc = "count"
  /\ sched' = [sched EXCEPT !.pc = "walk", !.todo = enabled,
                            !.snap = [m \in Modes |-> Cardinality(Queued(m))]]
  /\ UNCHANGED <<enabled, job, notifyVars>>

\* Mutant: the whole cap is free, whatever is queued.
WholeCap(m) == QueueCap

Capacity(m) == QueueCap - sched.snap[m]

SchedWalk(m) ==
  /\ sched.pc = "walk"
  /\ m \in sched.todo
  /\ IF Capacity(m) <= 0
     THEN sched' = [sched EXCEPT !.todo = @ \ {m}]
     ELSE sched' = [sched EXCEPT !.pc = IF Solo(m) THEN "solo" ELSE "multi",
                                 !.todo = @ \ {m}, !.mode = m, !.room = Capacity(m),
                                 !.plan = IF Solo(m) THEN {CurrentRef(p) : p \in Underplayed(m)}
                                                     ELSE {},
                                 !.tally = IF Solo(m) THEN [p \in Projects |-> Weight(m, p)]
                                                      ELSE NoTally]
  /\ UNCHANGED <<enabled, job, notifyVars>>

SchedTickDone ==
  /\ sched.pc = "walk"
  /\ sched.todo = {}
  /\ sched' = SchedRest("sleep")
  /\ UNCHANGED <<enabled, job, notifyVars>>

NextMode(s) ==
  [pc |-> "walk", snap |-> s.snap, todo |-> s.todo, mode |-> NoMode, room |-> 0,
   plan |-> {}, tally |-> NoTally]

\* _schedule_solo_mode: one job per version of the list read once, least
\* played first, up to the mode's capacity.
SchedSolo ==
  /\ sched.pc = "solo"
  /\ sched.room > 0
  /\ \E r \in sched.plan :
       /\ \A q \in sched.plan : sched.tally[r[1]] <= sched.tally[q[1]]
       /\ Enqueue(sched.mode, <<r[1]>>)
       /\ sched' = [sched EXCEPT !.plan = @ \ {r}, !.room = @ - 1]
  /\ NotifyAll(Runners)
  /\ UNCHANGED <<enabled, listening, wakeup>>

SchedSoloDone ==
  /\ sched.pc = "solo"
  /\ sched.room <= 0 \/ sched.plan = {}
  /\ sched' = NextMode(sched)
  /\ UNCHANGED <<enabled, job, notifyVars>>

\* _schedule_multi_mode reads the underplayed list anew before every insert.
SchedMultiList ==
  /\ sched.pc = "multi"
  /\ LET m == sched.mode IN
     IF sched.room <= 0 \/ Underplayed(m) = {}
     THEN sched' = NextMode(sched)
     ELSE sched' = [sched EXCEPT !.pc = "pick",
                                 !.plan = {CurrentRef(p) : p \in Underplayed(m)},
                                 !.tally = [p \in Projects |-> Weight(m, p)]]
  /\ UNCHANGED <<enabled, job, notifyVars>>

SchedMultiPick ==
  /\ sched.pc = "pick"
  /\ \E g \in Groups(sched.mode, sched.plan, sched.tally) :
       Enqueue(sched.mode, GroupSeating(sched.mode, g))
  /\ NotifyAll(Runners)
  /\ sched' = [sched EXCEPT !.pc = "multi", !.room = @ - 1, !.plan = {}, !.tally = NoTally]
  /\ UNCHANGED <<enabled, listening, wakeup>>

\* pick_match_group found no group: break out of the mode's loop.
SchedNoGroup ==
  /\ sched.pc = "pick"
  /\ Groups(sched.mode, sched.plan, sched.tally) = {}
  /\ sched' = NextMode(sched)
  /\ UNCHANGED <<enabled, job, notifyVars>>

\* An exception inside a tick (a mode whose sim_args do not validate, say) is
\* logged, the rest of the tick is dropped and the daemon waits.
SchedTickFails ==
  /\ sched.pc \in {"solo", "pick"}
  /\ sched' = SchedRest("sleep")
  /\ UNCHANGED <<enabled, job, notifyVars>>

\* wakeup.wait() returns.
SchedWake ==
  /\ sched.pc = "sleep"
  /\ wakeup[Scheduler]
  /\ sched' = SchedRest("clear")
  /\ UNCHANGED <<enabled, job, notifyVars>>

\* OperationalError, OOM or a reboot; compose restarts the container.
SchedCrash ==
  /\ sched.pc # "down"
  /\ sched' = SchedRest("down")
  /\ Vanish(Scheduler)
  /\ UNCHANGED <<enabled, job>>

SchedRestart ==
  /\ sched.pc = "down"
  /\ sched' = SchedRest("clear")
  /\ UNCHANGED <<enabled, job, notifyVars>>

SchedWork ==
  \/ SchedClear
  \/ SchedCount
  \/ \E m \in Modes : SchedWalk(m)
  \/ SchedTickDone
  \/ SchedSolo
  \/ SchedSoloDone
  \/ SchedMultiList
  \/ SchedMultiPick
  \/ SchedNoGroup
  \/ SchedWake
  \/ SchedRestart
=============================================================================
