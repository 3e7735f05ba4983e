------------------------------ MODULE TestBoard ------------------------------
(***************************************************************************)
(* What the queue of a project's test matches promises, whatever builds,   *)
(* plays, crashes and reboots behind it: one job of a project at a time,   *)
(* taken by one runner, which alone gives it its outcome.  A job whose     *)
(* runner seems lost may be failed over its head; then, and only then, an  *)
(* outcome is written twice.  Rows go away when they are settled, or with  *)
(* the project.                                                            *)
(***************************************************************************)
EXTENDS Naturals

CONSTANTS Ids, Workers

VARIABLES
  phase,    \* phase[j] of job j
  hand,     \* hand[w]: the job whose outcome is runner w's to give, 0 = none
  expired   \* the jobs that were failed over their runner's head

Settled == {"success", "failure", "cancelled"}

Init ==
  /\ phase = [j \in Ids |-> "none"]
  /\ hand = [w \in Workers |-> 0]
  /\ expired = {}

Post(j) ==
  /\ \A k \in Ids : phase[k] \notin {"queued", "running"}
  /\ phase[j] = "none"
  /\ \A k \in Ids : k < j => phase[k] # "none"
  /\ phase' = [phase EXCEPT ![j] = "queued"]
  /\ UNCHANGED <<hand, expired>>

Take(w, j) ==
  /\ hand[w] = 0
  /\ phase[j] = "queued"
  /\ phase' = [phase EXCEPT ![j] = "running"]
  /\ hand' = [hand EXCEPT ![w] = j]
  /\ UNCHANGED expired

\* With the outcome, rows that are settled may go, the job's own included.
Settle(w, j, outcome, old) ==
  /\ hand[w] = j
  /\ phase[j] \in {"running", "gone"} \/ j \in expired
  /\ old \subseteq {j} \union {i \in Ids : phase[i] \in Settled}
  /\ phase' = [i \in Ids |->
       IF i \in old THEN "gone"
       ELSE IF i = j /\ phase[j] # "gone" THEN outcome ELSE phase[i]]
  /\ hand' = [hand EXCEPT ![w] = 0]
  /\ UNCHANGED expired

Withdraw(j) ==
  /\ phase[j] = "queued"
  /\ phase' = [phase EXCEPT ![j] = "cancelled"]
  /\ UNCHANGED <<hand, expired>>

\* The runner is gone, its job is not.
Drop(w) ==
  /\ hand[w] # 0
  /\ hand' = [hand EXCEPT ![w] = 0]
  /\ UNCHANGED <<phase, expired>>

Expire(stale) ==
  /\ \A j \in stale : phase[j] = "running"
  /\ phase' = [j \in Ids |-> IF j \in stale THEN "failure" ELSE phase[j]]
  /\ expired' = expired \union stale
  /\ UNCHANGED hand

\* The project is deleted.
Erase ==
  /\ phase' = [j \in Ids |-> IF phase[j] = "none" THEN "none" ELSE "gone"]
  /\ UNCHANGED <<hand, expired>>

Next ==
  \/ \E j \in Ids :
       \/ Post(j)
       \/ Withdraw(j)
       \/ \E w \in Workers :
            \/ Take(w, j)
            \/ \E outcome \in {"success", "failure"}, old \in SUBSET Ids :
                 Settle(w, j, outcome, old)
  \/ \E w \in Workers : Drop(w)
  \/ \E stale \in SUBSET Ids : Expire(stale)
  \/ Erase

Spec == Init /\ [][Next]_<<phase, hand, expired>>
=============================================================================
