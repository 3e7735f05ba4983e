-------------------------------- MODULE Notify -------------------------------
(***************************************************************************)
(* LISTEN/NOTIFY wakeups (sa_common/db/notify.py and the triggers of       *)
(* migrations/001.sql).  Every daemon has a listener thread that holds a   *)
(* connection of its own and sets the daemon's threading.Event; the main   *)
(* loop clears the event, drains its work and waits on the event again.    *)
(***************************************************************************)
CONSTANT Daemons

VARIABLES
  listening,  \* the listener's LISTEN is in force
  pending,    \* a committed notification has not reached the listener yet
  wakeup      \* the threading.Event is set

notifyVars == <<listening, pending, wakeup>>

NotifyTypeOK ==
  /\ listening \in [Daemons -> BOOLEAN]
  /\ pending \in [Daemons -> BOOLEAN]
  /\ wakeup \in [Daemons -> BOOLEAN]

NotifyInit ==
  /\ listening = [d \in Daemons |-> FALSE]
  /\ pending = [d \in Daemons |-> FALSE]
  /\ wakeup = [d \in Daemons |-> FALSE]

\* pg_notify at commit: it reaches the sessions that listen now, no others.
\* Several notifications under way act like one, for the event is only set.
NotifyAll(ds) ==
  pending' = [d \in Daemons |-> pending[d] \/ (d \in ds /\ listening[d])]

Receive(d) ==
  /\ pending[d]
  /\ pending' = [pending EXCEPT ![d] = FALSE]
  /\ wakeup' = [wakeup EXCEPT ![d] = TRUE]
  /\ UNCHANGED listening

\* Mutant: the listener re-LISTENs without the flush.
ConnectSilently(d) ==
  /\ ~listening[d]
  /\ listening' = [listening EXCEPT ![d] = TRUE]
  /\ UNCHANGED <<pending, wakeup>>

\* On every (re)connect the listener sets the event once, after LISTEN.
Connect(d) ==
  /\ ~listening[d]
  /\ listening' = [listening EXCEPT ![d] = TRUE]
  /\ wakeup' = [wakeup EXCEPT ![d] = TRUE]
  /\ UNCHANGED pending

\* The connection drops: what was under way to it is lost.
Disconnect(d) ==
  /\ listening[d]
  /\ listening' = [listening EXCEPT ![d] = FALSE]
  /\ pending' = [pending EXCEPT ![d] = FALSE]
  /\ UNCHANGED wakeup

\* The process dies and takes the listener and the event with it.
Vanish(d) ==
  /\ listening' = [listening EXCEPT ![d] = FALSE]
  /\ pending' = [pending EXCEPT ![d] = FALSE]
  /\ wakeup' = [wakeup EXCEPT ![d] = FALSE]

ClearWakeup(d) == wakeup' = [wakeup EXCEPT ![d] = FALSE]
=============================================================================
