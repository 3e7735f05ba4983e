------------------------------- MODULE JobBoard ------------------------------
(***************************************************************************)
(* What a job queue promises, whatever runs it: jobs are posted in order;  *)
(* a worker with empty hands reaches for the oldest waiting one that no    *)
(* other reaches for, and takes it; only the worker that took a job        *)
(* settles it, and a settled job stays as it is.  A worker may vanish: a   *)
(* job it reached for waits on, one it took stays taken, and nobody else   *)
(* may settle it.  A waiting job may be withdrawn; one that was taken only *)
(* when it has become void, and its worker, who is not told, may still     *)
(* settle it.                                                              *)
(***************************************************************************)
EXTENDS Naturals

CONSTANTS Ids, Workers

VARIABLES
  phase,  \* phase[j] of job j
  hand,   \* hand[w]: the job worker w reaches for or has taken, 0 = none
  void    \* jobs that make no sense any more

Init ==
  /\ phase = [j \in Ids |-> "none"]
  /\ hand = [w \in Workers |-> 0]
  /\ void = {}

InHand == {hand[w] : w \in Workers}

\* A job may be void from the start.
Post(j, stillborn) ==
  /\ phase[j] = "none"
  /\ \A k \in Ids : k < j => phase[k] # "none"
  /\ phase' = [phase EXCEPT ![j] = "queued"]
  /\ void' = void \union (IF stillborn THEN {j} ELSE {})
  /\ UNCHANGED hand

Reach(w, j) ==
  /\ hand[w] = 0
  /\ phase[j] = "queued" /\ j \notin InHand
  /\ \A k \in Ids : k < j /\ phase[k] = "queued" => k \in InHand
  /\ hand' = [hand EXCEPT ![w] = j]
  /\ UNCHANGED <<phase, void>>

Take(w, j) ==
  /\ hand[w] = j
  /\ phase[j] = "queued"
  /\ phase' = [phase EXCEPT ![j] = "running"]
  /\ UNCHANGED <<hand, void>>

Settle(w, j, outcome) ==
  /\ hand[w] = j
  /\ phase[j] = "running" \/ (phase[j] = "cancelled" /\ j \in void)
  /\ phase' = [phase EXCEPT ![j] = outcome]
  /\ hand' = [hand EXCEPT ![w] = 0]
  /\ UNCHANGED void

Withdraw(j) ==
  /\ phase[j] = "queued" /\ j \notin InHand
  /\ phase' = [phase EXCEPT ![j] = "cancelled"]
  /\ UNCHANGED <<hand, void>>

Drop(w) ==
  /\ hand[w] # 0
  /\ hand' = [hand EXCEPT ![w] = 0]
  /\ UNCHANGED <<phase, void>>

\* Jobs become void, and of the void ones some are withdrawn: any that is
\* taken, but none that somebody only reaches for.
Annul(js, withdrawn) ==
  /\ \A j \in js : phase[j] # "none"
  /\ void' = void \union js
  /\ withdrawn \subseteq void'
  /\ \A j \in withdrawn : phase[j] = "running" \/ (phase[j] = "queued" /\ j \notin InHand)
  /\ phase' = [j \in Ids |-> IF j \in withdrawn THEN "cancelled" ELSE phase[j]]
  /\ UNCHANGED hand

Next ==
  \/ \E j \in Ids :
       \/ \E stillborn \in BOOLEAN : Post(j, stillborn)
       \/ Withdraw(j)
       \/ \E w \in Workers :
            \/ Reach(w, j)
            \/ Take(w, j)
            \/ \E outcome \in {"success", "failure"} : Settle(w, j, outcome)
  \/ \E w \in Workers : Drop(w)
  \/ \E js, withdrawn \in SUBSET Ids : Annul(js, withdrawn)

Spec == Init /\ [][Next]_<<phase, hand, void>>
=============================================================================
