----------------------------- MODULE RankedProofs ----------------------------
(***************************************************************************)
(* What holds of the ranked pipeline for every number of projects, modes,  *)
(* runners, rows and versions, whatever the environment does: types and    *)
(* ownership, the job board it implements, runners that never sleep over   *)
(* the queue, and queues within their cap.                                 *)
(***************************************************************************)
EXTENDS RankedPipeline, FiniteSetTheorems, TLAPS

Idle == {"down", "clear", "claim", "sleep"}

\* A row that exists has a mode and a project in every seat, the others have
\* neither.
RowsFilled ==
  \A j \in JobIds :
    IF job[j].status = "none" THEN job[j].who = <<>>
    ELSE job[j].mode \in Modes /\ job[j].who \in Seating

\* A runner has a job in hand exactly between the lock and the outcome.
HandsMatchPc ==
  \A r \in Runners : runner[r].job = 0 <=> runner[r].pc \in Idle

\* Inside a mode's loop, the scheduler knows which mode it is.
ModeChosen ==
  sched.pc \in {"solo", "multi", "pick"} => sched.mode \in Modes

IInv ==
  /\ TypeOK
  /\ OneOwnerPerJob
  /\ RowsFilled
  /\ HandsMatchPc
  /\ ModeChosen

------------------------------------------------------------------------------
(* Facts about the helpers.                                                *)

LEMMA JobIdsFinite == IsFiniteSet(JobIds) /\ 0 \notin JobIds
  BY FS_Interval, JobsAssumption DEF JobIds

LEMMA QueuedIsFinite ==
  ASSUME NEW m
  PROVE  Queued(m) \subseteq JobIds /\ IsFiniteSet(Queued(m)) /\ Cardinality(Queued(m)) \in Nat
<1>1. Queued(m) \subseteq JobIds
  BY DEF Queued, WithStatus
<1>2. IsFiniteSet(Queued(m))
  BY <1>1, JobIdsFinite, FS_Subset
<1>3. QED
  BY <1>1, <1>2, FS_CardinalityType

LEMMA RefIsFinite == IsFiniteSet(Ref)
<1>1. IsFiniteSet(1 .. MaxVersion)
  BY FS_Interval, ModesAssumption
<1>2. QED
  BY <1>1, FS_Product, JobsAssumption DEF Ref

LEMMA WeightIsNat ==
  ASSUME NEW m, NEW p
  PROVE  Weight(m, p) \in Nat
<1>0. IsFiniteSet(1 .. MaxSeats)
  BY FS_Interval, JobsAssumption
<1>1. IsFiniteSet(JobIds \X (1 .. MaxSeats))
  BY <1>0, JobIdsFinite, FS_Product
<1>2. Counted(m, p) \subseteq JobIds \X (1 .. MaxSeats)
  BY DEF Counted, Appearances, Played, InFlight
<1>3. Cardinality(Counted(m, p)) \in Nat
  BY <1>1, <1>2, FS_Subset, FS_CardinalityType
<1>4. Met(m, CurrentRef(p)) \subseteq Ref
  BY DEF Met
<1>5. Cardinality(Met(m, CurrentRef(p))) \in Nat
  BY <1>4, RefIsFinite, FS_Subset, FS_CardinalityType
<1>6. Cardinality(Ref) \in Nat
  BY RefIsFinite, FS_CardinalityType
<1>7. QED
  BY <1>3, <1>5, <1>6 DEF Weight

LEMMA UnderplayedRefs ==
  ASSUME TypeOK, NEW m
  PROVE  {CurrentRef(p) : p \in Underplayed(m)} \subseteq Ref
<1>1. \A p \in Underplayed(m) : p \in Projects /\ ver[p] \in 1 .. MaxVersion
  BY ModesAssumption DEF Underplayed, Eligible, Submitted, TypeOK
<1>2. QED
  BY <1>1 DEF CurrentRef, Ref

LEMMA SeatingOfGroup ==
  ASSUME NEW m \in Modes, NEW plan \in SUBSET Ref, NEW tally, NEW g \in Groups(m, plan, tally)
  PROVE  GroupSeating(m, g) \in Seating
<1>1. Seats[m] \in 1 .. MaxSeats
  BY ModesAssumption
<1>2. g \in plan \X [1 .. Seats[m] - 1 -> Ref]
  BY DEF Groups
<1>3. g[1] \in Ref /\ g[2] \in [1 .. Seats[m] - 1 -> Ref]
  BY <1>2
<1>4. \A v \in Ref : v[1] \in Projects
  BY DEF Ref
<1>5. \A s \in 1 .. Seats[m] : s # 1 => s - 1 \in 1 .. Seats[m] - 1
  BY <1>1, JobsAssumption
<1>6. GroupSeating(m, g) \in [1 .. Seats[m] -> Projects]
  BY <1>3, <1>4, <1>5 DEF GroupSeating
<1>7. QED
  BY <1>1, <1>6 DEF Seating

LEMMA SoloSeating ==
  ASSUME NEW p \in Projects
  PROVE  <<p>> \in Seating
<1>1. <<p>> \in [1 .. 1 -> Projects]
  OBVIOUS
<1>2. 1 \in 1 .. MaxSeats
  BY JobsAssumption
<1>3. QED
  BY <1>1, <1>2 DEF Seating

------------------------------------------------------------------------------
(* Steps that write the table.                                             *)

\* What a step may do to the rows, as far as the invariant is concerned.
RowsOK == job \in [JobIds -> JobRow] /\ RowsFilled

LEMMA RowsKeptByStatusChange ==
  ASSUME RowsOK, NEW j \in JobIds, NEW st \in {"running", "success", "failure", "cancelled"},
         job[j].status # "none",
         job' = [job EXCEPT ![j].status = st]
  PROVE  RowsOK'
<1>1. job[j].mode \in Modes /\ job[j].who \in Seating /\ job[j] \in JobRow
  BY DEF RowsOK, RowsFilled
<1>2. job' \in [JobIds -> JobRow]
  BY <1>1 DEF RowsOK, JobRow
<1>3. \A k \in JobIds :
        /\ job'[k].mode = job[k].mode /\ job'[k].who = job[k].who
        /\ job'[k].status = "none" <=> job[k].status = "none"
  BY <1>1 DEF RowsOK, JobRow
<1>4. QED
  BY <1>2, <1>3 DEF RowsOK, RowsFilled

LEMMA RowsKeptByEnqueue ==
  ASSUME RowsOK, NEW m \in Modes, NEW who \in Seating, Enqueue(m, who)
  PROVE  RowsOK'
<1>1. PICK j \in JobIds :
        job' = [job EXCEPT ![j] = [status |-> "queued", mode |-> m, who |-> who]]
  BY DEF Enqueue
<1>2. QED
  BY <1>1 DEF RowsOK, RowsFilled, JobRow

\* A seated project is one of Projects, and a deleted one makes its row void.
LEMMA WhoIsSeated ==
  ASSUME RowsFilled, NEW j \in JobIds
  PROVE  DOMAIN job[j].who \subseteq 1 .. MaxSeats /\ \A s \in DOMAIN job[j].who : job[j].who[s] \in Projects
<1>1. CASE job[j].who = <<>>
  BY <1>1
<1>2. ASSUME NEW n \in 1 .. MaxSeats, job[j].who \in [1 .. n -> Projects]
      PROVE  DOMAIN job[j].who \subseteq 1 .. MaxSeats /\ \A s \in DOMAIN job[j].who : job[j].who[s] \in Projects
  BY <1>2, JobsAssumption
<1>3. QED
  BY <1>1, <1>2 DEF RowsFilled, Seating

LEMMA RowInHand ==
  ASSUME IInv, NEW r \in Runners, runner[r].pc \notin Idle
  PROVE  /\ runner[r].job \in JobIds
         /\ \/ /\ job[runner[r].job].status = "queued"
               /\ runner[r].pc = "commit"
            \/ /\ job[runner[r].job].status = "running" \/ (job[runner[r].job].status = "cancelled" /\ runner[r].job \in Void)
               /\ runner[r].pc # "commit"
         /\ Who(r) \in Seating
         /\ DOMAIN Who(r) \subseteq 1 .. MaxSeats
         /\ \A s \in DOMAIN Who(r) : Who(r)[s] \in Projects
         /\ \A q \in Runners \ {r} : runner[q].job # runner[r].job
<1>1. Busy(r)
  BY DEF IInv, HandsMatchPc, Busy
<1>2. /\ runner[r].job \in JobIds
      /\ \/ /\ job[runner[r].job].status = "queued"
            /\ runner[r].pc = "commit"
         \/ /\ job[runner[r].job].status = "running" \/ (job[runner[r].job].status = "cancelled" /\ runner[r].job \in Void)
            /\ runner[r].pc # "commit"
  BY <1>1 DEF IInv, OneOwnerPerJob, WithStatus
<1>3. Who(r) \in Seating
  BY <1>2 DEF IInv, RowsFilled, Who
<1>4. \A q \in Runners \ {r} : runner[q].job # runner[r].job
  BY <1>1 DEF IInv, OneOwnerPerJob
<1>5. DOMAIN Who(r) \subseteq 1 .. MaxSeats /\ \A s \in DOMAIN Who(r) : Who(r)[s] \in Projects
  BY <1>2, WhoIsSeated DEF IInv, Who
<1>6. QED
  BY <1>2, <1>3, <1>4, <1>5

\* Ownership is a matter of the rows in hand and of the hands: a row in hand
\* may change only from running to cancelled, and only a void one.
LEMMA OwnersUndisturbed ==
  ASSUME IInv, UNCHANGED runner,
         \A r \in Runners : Busy(r) =>
           /\ \/ job'[runner[r].job].status = job[runner[r].job].status
              \/ /\ job[runner[r].job].status = "running"
                 /\ job'[runner[r].job].status = "cancelled" /\ runner[r].job \in Void'
           /\ runner[r].job \in Void => runner[r].job \in Void'
  PROVE  OneOwnerPerJob'
<1>1. ASSUME NEW r \in Runners, Busy(r)
      PROVE  /\ runner[r].job \in JobIds
             /\ job[runner[r].job].status = (IF runner[r].pc = "commit" THEN "queued" ELSE "running")
                \/ (job[runner[r].job].status = "cancelled" /\ runner[r].job \in Void /\ runner[r].pc # "commit")
  BY <1>1 DEF IInv, OneOwnerPerJob, WithStatus
<1>2. ASSUME NEW r \in Runners, Busy(r)
      PROVE  job'[runner[r].job].status = (IF runner[r].pc = "commit" THEN "queued" ELSE "running")
                \/ (job'[runner[r].job].status = "cancelled" /\ runner[r].job \in Void' /\ runner[r].pc # "commit")
  BY <1>1, <1>2
<1>3. QED
  BY <1>1, <1>2 DEF IInv, OneOwnerPerJob, Busy, WithStatus

\* Projects do not come back, and no row changes its players.
LEMMA VoidGrows ==
  ASSUME NEW js \in SUBSET JobIds, deleted \subseteq deleted',
         \A j \in js : job'[j].who = job[j].who
  PROVE  \A j \in js : j \in Void => j \in Void'
  BY DEF Void, Involving

LEMMA NotifyAllTyped ==
  ASSUME NotifyTypeOK, NEW ds, NotifyAll(ds), UNCHANGED <<listening, wakeup>>
  PROVE  NotifyTypeOK'
  BY DEF NotifyTypeOK, NotifyAll

------------------------------------------------------------------------------
(* The scheduler.                                                          *)

LEMMA SchedRestTyped ==
  ASSUME NEW pc \in {"down", "clear", "count", "sleep"}
  PROVE  SchedRest(pc) \in SchedState /\ SchedRest(pc).pc = pc
  BY DEF SchedRest, SchedState, NoCounts, NoTally

LEMMA NextModeTyped ==
  ASSUME sched \in SchedState
  PROVE  NextMode(sched) \in SchedState /\ NextMode(sched).pc = "walk"
<1>1. sched.snap \in [Modes -> Nat] /\ sched.todo \in SUBSET Modes
  BY DEF SchedState
<1>2. NoTally \in [Projects -> Nat]
  BY DEF NoTally
<1>3. QED
  BY <1>1, <1>2 DEF SchedState, NextMode

\* A step of the scheduler that inserts nothing keeps the invariant if its
\* own record stays well typed.
LEMMA SchedLocal ==
  ASSUME IInv, UNCHANGED <<job, result, projectVars, runner, enabled>>,
         NotifyTypeOK', sched' \in SchedState, ModeChosen'
  PROVE  IInv'
<1>1. TypeOK'
  BY DEF IInv, TypeOK, projectVars
<1>2. OneOwnerPerJob'
  BY OwnersUndisturbed DEF Void, Involving, projectVars
<1>3. RowsFilled' /\ HandsMatchPc'
  BY DEF IInv, RowsFilled, HandsMatchPc
<1>4. QED
  BY <1>1, <1>2, <1>3 DEF IInv

\* A step of the scheduler that inserts a row.
LEMMA SchedInserts ==
  ASSUME IInv, UNCHANGED <<result, projectVars, runner, enabled>>,
         NEW m \in Modes, NEW who \in Seating, Enqueue(m, who),
         NotifyTypeOK', sched' \in SchedState, ModeChosen'
  PROVE  IInv'
<1>1. RowsOK'
  BY RowsKeptByEnqueue DEF IInv, TypeOK, RowsOK
<1>2. TypeOK'
  BY <1>1 DEF IInv, TypeOK, projectVars, RowsOK
<1>3. \A r \in Runners : Busy(r) =>
        /\ runner[r].job \in JobIds
        /\ job'[runner[r].job] = job[runner[r].job]
  <2>1. PICK j \in JobIds : job[j].status = "none" /\
          job' = [job EXCEPT ![j] = [status |-> "queued", mode |-> m, who |-> who]]
    BY DEF Enqueue, NextId
  <2>2. \A r \in Runners : Busy(r) => runner[r].job \in JobIds /\ runner[r].job # j
    BY <2>1 DEF IInv, OneOwnerPerJob, WithStatus
  <2>3. QED
    BY <2>1, <2>2 DEF IInv, TypeOK
<1>4. OneOwnerPerJob'
  BY <1>3, OwnersUndisturbed DEF Void, Involving, projectVars
<1>5. HandsMatchPc'
  BY DEF IInv, HandsMatchPc
<1>6. QED
  BY <1>1, <1>2, <1>4, <1>5 DEF IInv, RowsOK

LEMMA SchedulerKeepsIInv ==
  ASSUME IInv, SchedulerProcess
  PROVE  IInv'
<1> USE DEF notifyVars, projectVars
<1>0. sched \in SchedState /\ NotifyTypeOK /\ UNCHANGED <<result, projectVars, runner>>
  BY DEF IInv, TypeOK, SchedulerProcess
<1>1. CASE SchedClear
  <2>1. sched' \in SchedState /\ ModeChosen'
    BY <1>1, SchedRestTyped DEF SchedClear, ModeChosen
  <2>2. NotifyTypeOK'
    BY <1>0, <1>1 DEF SchedClear, ClearWakeup, NotifyTypeOK
  <2>3. QED
    BY <1>0, <1>1, <2>1, <2>2, SchedLocal DEF SchedClear
<1>2. CASE SchedCount
  <2>1. sched' \in SchedState /\ ModeChosen'
    <3>1. [m \in Modes |-> Cardinality(Queued(m))] \in [Modes -> Nat]
      BY QueuedIsFinite
    <3>2. enabled \in SUBSET Modes
      BY DEF IInv, TypeOK
    <3>3. QED
      BY <1>0, <1>2, <3>1, <3>2 DEF SchedCount, SchedState, ModeChosen
  <2>2. NotifyTypeOK'
    BY <1>0, <1>2 DEF SchedCount, NotifyTypeOK
  <2>3. QED
    BY <1>0, <1>2, <2>1, <2>2, SchedLocal DEF SchedCount
<1>3. ASSUME NEW m \in Modes, SchedWalk(m)
      PROVE  IInv'
  <2>1. Capacity(m) \in Int
    BY <1>0, QueueCapAssumption DEF Capacity, SchedState
  <2>2. [p \in Projects |-> Weight(m, p)] \in [Projects -> Nat]
    BY WeightIsNat
  <2>3. {CurrentRef(p) : p \in Underplayed(m)} \in SUBSET Ref
    BY UnderplayedRefs DEF IInv
  <2>4. NoTally \in [Projects -> Nat]
    BY DEF NoTally
  <2>5. sched' \in SchedState /\ ModeChosen'
    <3>1. CASE Capacity(m) <= 0
      BY <1>0, <1>3, <3>1 DEF SchedWalk, SchedState, ModeChosen
    <3>2. CASE ~(Capacity(m) <= 0) /\ Solo(m)
      <4>1. sched' = [sched EXCEPT !.pc = "solo", !.todo = @ \ {m}, !.mode = m,
                                   !.room = Capacity(m),
                                   !.plan = {CurrentRef(p) : p \in Underplayed(m)},
                                   !.tally = [p \in Projects |-> Weight(m, p)]]
        BY <1>3, <3>2 DEF SchedWalk
      <4>2. QED
        BY <1>0, <4>1, <2>1, <2>2, <2>3 DEF SchedState, ModeChosen
    <3>3. CASE ~(Capacity(m) <= 0) /\ ~Solo(m)
      <4>1. sched' = [sched EXCEPT !.pc = "multi", !.todo = @ \ {m}, !.mode = m,
                                   !.room = Capacity(m), !.plan = {}, !.tally = NoTally]
        BY <1>3, <3>3 DEF SchedWalk
      <4>2. QED
        BY <1>0, <4>1, <2>1, <2>4 DEF SchedState, ModeChosen
    <3>4. QED
      BY <3>1, <3>2, <3>3
  <2>6. NotifyTypeOK'
    BY <1>0, <1>3 DEF SchedWalk, NotifyTypeOK
  <2>7. QED
    BY <1>0, <1>3, <2>5, <2>6, SchedLocal DEF SchedWalk
<1>4. CASE SchedTickDone
  <2>1. sched' \in SchedState /\ ModeChosen'
    BY <1>4, SchedRestTyped DEF SchedTickDone, ModeChosen
  <2>2. NotifyTypeOK'
    BY <1>0, <1>4 DEF SchedTickDone, NotifyTypeOK
  <2>3. QED
    BY <1>0, <1>4, <2>1, <2>2, SchedLocal DEF SchedTickDone
<1>5. CASE SchedSolo
  <2>1. PICK r \in sched.plan :
          /\ Enqueue(sched.mode, <<r[1]>>)
          /\ sched' = [sched EXCEPT !.plan = @ \ {r}, !.room = @ - 1]
    BY <1>5 DEF SchedSolo
  <2>2. sched.mode \in Modes
    BY <1>5 DEF SchedSolo, IInv, ModeChosen
  <2>3. <<r[1]>> \in Seating
    <3>1. r[1] \in Projects
      BY <1>0 DEF SchedState, Ref
    <3>2. QED
      BY <3>1, SoloSeating
  <2>4. sched' \in SchedState /\ ModeChosen'
    <3>1. sched.room - 1 \in Int /\ sched.plan \ {r} \in SUBSET Ref
      BY <1>0 DEF SchedState
    <3>2. QED
      BY <1>0, <2>1, <2>2, <3>1 DEF SchedState, ModeChosen
  <2>5. NotifyTypeOK'
    BY <1>0, <1>5, NotifyAllTyped DEF SchedSolo
  <2>6. QED
    BY <1>0, <1>5, <2>1, <2>2, <2>3, <2>4, <2>5, SchedInserts DEF SchedSolo
<1>6. CASE SchedSoloDone
  <2>1. sched' \in SchedState /\ ModeChosen'
    BY <1>0, <1>6, NextModeTyped DEF SchedSoloDone, ModeChosen
  <2>2. NotifyTypeOK'
    BY <1>0, <1>6 DEF SchedSoloDone, NotifyTypeOK
  <2>3. QED
    BY <1>0, <1>6, <2>1, <2>2, SchedLocal DEF SchedSoloDone
<1>7. CASE SchedMultiList
  <2>1. sched.mode \in Modes
    BY <1>7 DEF SchedMultiList, IInv, ModeChosen
  <2>2. [p \in Projects |-> Weight(sched.mode, p)] \in [Projects -> Nat]
    BY WeightIsNat
  <2>3. {CurrentRef(p) : p \in Underplayed(sched.mode)} \in SUBSET Ref
    BY UnderplayedRefs DEF IInv
  <2>4. sched' \in SchedState /\ ModeChosen'
    <3>1. CASE sched.room <= 0 \/ Underplayed(sched.mode) = {}
      BY <1>0, <1>7, <3>1, NextModeTyped DEF SchedMultiList, ModeChosen
    <3>2. CASE ~(sched.room <= 0 \/ Underplayed(sched.mode) = {})
      BY <1>0, <1>7, <2>1, <2>2, <2>3, <3>2 DEF SchedMultiList, SchedState, ModeChosen
    <3>3. QED
      BY <3>1, <3>2
  <2>5. NotifyTypeOK'
    BY <1>0, <1>7 DEF SchedMultiList, NotifyTypeOK
  <2>6. QED
    BY <1>0, <1>7, <2>4, <2>5, SchedLocal DEF SchedMultiList
<1>8. CASE SchedMultiPick
  <2>1. sched.mode \in Modes /\ sched.plan \in SUBSET Ref
    BY <1>0, <1>8 DEF SchedMultiPick, IInv, ModeChosen, SchedState
  <2>2. PICK g \in Groups(sched.mode, sched.plan, sched.tally) :
          Enqueue(sched.mode, GroupSeating(sched.mode, g))
    BY <1>8 DEF SchedMultiPick
  <2>3. GroupSeating(sched.mode, g) \in Seating
    BY <2>1, SeatingOfGroup
  <2>4. sched' \in SchedState /\ ModeChosen'
    <3>1. sched.room - 1 \in Int /\ NoTally \in [Projects -> Nat]
      BY <1>0 DEF SchedState, NoTally
    <3>2. sched' = [sched EXCEPT !.pc = "multi", !.room = @ - 1, !.plan = {}, !.tally = NoTally]
      BY <1>8 DEF SchedMultiPick
    <3>3. QED
      BY <1>0, <2>1, <3>1, <3>2 DEF SchedState, ModeChosen
  <2>5. NotifyTypeOK'
    BY <1>0, <1>8, NotifyAllTyped DEF SchedMultiPick
  <2>6. QED
    BY <1>0, <1>8, <2>1, <2>2, <2>3, <2>4, <2>5, SchedInserts DEF SchedMultiPick
<1>9. CASE SchedNoGroup
  <2>1. sched' \in SchedState /\ ModeChosen'
    BY <1>0, <1>9, NextModeTyped DEF SchedNoGroup, ModeChosen
  <2>2. NotifyTypeOK'
    BY <1>0, <1>9 DEF SchedNoGroup, NotifyTypeOK
  <2>3. QED
    BY <1>0, <1>9, <2>1, <2>2, SchedLocal DEF SchedNoGroup
<1>10. CASE SchedWake
  <2>1. sched' \in SchedState /\ ModeChosen'
    BY <1>10, SchedRestTyped DEF SchedWake, ModeChosen
  <2>2. NotifyTypeOK'
    BY <1>0, <1>10 DEF SchedWake, NotifyTypeOK
  <2>3. QED
    BY <1>0, <1>10, <2>1, <2>2, SchedLocal DEF SchedWake
<1>11. CASE SchedRestart
  <2>1. sched' \in SchedState /\ ModeChosen'
    BY <1>11, SchedRestTyped DEF SchedRestart, ModeChosen
  <2>2. NotifyTypeOK'
    BY <1>0, <1>11 DEF SchedRestart, NotifyTypeOK
  <2>3. QED
    BY <1>0, <1>11, <2>1, <2>2, SchedLocal DEF SchedRestart
<1>12. QED
  BY <1>1, <1>2, <1>3, <1>4, <1>5, <1>6, <1>7, <1>8, <1>9, <1>10, <1>11
     DEF SchedulerProcess, SchedWork

------------------------------------------------------------------------------
(* The runners.                                                            *)

LEMMA RunnerRestTyped ==
  ASSUME NEW pc \in Idle
  PROVE  RunnerRest(pc) \in RunnerState /\ RunnerRest(pc).pc = pc /\ RunnerRest(pc).job = 0
  BY JobsAssumption DEF RunnerRest, RunnerState, Idle

\* A step of a runner that leaves the table alone: it keeps its job or lets
\* go of it.
LEMMA RunnerLocal ==
  ASSUME IInv, NEW r \in Runners, NEW new \in RunnerState,
         UNCHANGED <<job, result, ver, deleted, enabled, sched>>,
         crashed' \in [Projects -> BOOLEAN], NotifyTypeOK',
         runner' = [runner EXCEPT ![r] = new],
         new.job \in {0, runner[r].job},
         new.job = 0 <=> new.pc \in Idle,
         new.pc = "commit" <=> runner[r].pc = "commit" /\ new.job # 0
  PROVE  IInv'
<1>1. TypeOK'
  BY DEF IInv, TypeOK
<1>2. OneOwnerPerJob'
  <2>1. \A q \in Runners : Busy(q)' =>
          /\ Busy(q) /\ runner'[q].job = runner[q].job
          /\ (runner'[q].pc = "commit") = (runner[q].pc = "commit")
    BY DEF IInv, TypeOK, Busy
  <2>2. WithStatus("queued")' = WithStatus("queued") /\ WithStatus("running")' = WithStatus("running")
          /\ WithStatus("cancelled")' = WithStatus("cancelled") /\ Void' = Void
    BY DEF WithStatus, Void, Involving
  <2>3. QED
    BY <2>1, <2>2 DEF IInv, OneOwnerPerJob, Busy
<1>3. RowsFilled' /\ ModeChosen'
  BY DEF IInv, RowsFilled, ModeChosen
<1>4. HandsMatchPc'
  BY DEF IInv, TypeOK, HandsMatchPc
<1>5. QED
  BY <1>1, <1>2, <1>3, <1>4 DEF IInv

\* A step of a runner that writes the outcome of its job and lets go of it.
LEMMA RunnerSettles ==
  ASSUME IInv, NEW r \in Runners, NEW st \in {"success", "failure"},
         runner[r].pc \notin Idle \union {"commit"},
         UNCHANGED <<ver, crashed, deleted, enabled, sched>>,
         result' \in [JobIds -> Versions \union {<<>>}], NotifyTypeOK',
         job' = [job EXCEPT ![runner[r].job].status = st],
         runner' = [runner EXCEPT ![r] = RunnerRest("claim")]
  PROVE  IInv'
<1>0. RunnerRest("claim") \in RunnerState /\ RunnerRest("claim").pc = "claim"
        /\ RunnerRest("claim").job = 0
  BY RunnerRestTyped DEF Idle
<1>1. RowsOK'
  BY RowInHand, RowsKeptByStatusChange DEF IInv, TypeOK, RowsOK
<1>2. TypeOK'
  BY <1>0, <1>1 DEF IInv, TypeOK, RowsOK
<1>3. OneOwnerPerJob'
  <2>1. \A q \in Runners : Busy(q)' =>
          q # r /\ runner'[q] = runner[q] /\ Busy(q) /\ runner[q].job # runner[r].job
    BY <1>0, RowInHand DEF IInv, TypeOK, Busy
  <2>2. \A q \in Runners : Busy(q)' =>
          runner[q].job \in JobIds /\ job'[runner[q].job] = job[runner[q].job]
    BY <2>1 DEF IInv, TypeOK, OneOwnerPerJob, WithStatus
  <2>3. \A q \in Runners : Busy(q)' => (runner[q].job \in Void' <=> runner[q].job \in Void)
    BY <2>2 DEF Void, Involving
  <2>4. QED
    BY <2>1, <2>2, <2>3 DEF IInv, OneOwnerPerJob, Busy, WithStatus
<1>4. HandsMatchPc'
  BY <1>0 DEF IInv, TypeOK, HandsMatchPc, Idle
<1>5. ModeChosen'
  BY DEF IInv, ModeChosen
<1>6. QED
  BY <1>1, <1>2, <1>3, <1>4, <1>5 DEF IInv, RowsOK

\* The row picked is in no other hand: it is queued and not locked.
LEMMA PickedIsFree ==
  ASSUME IInv, NEW j \in Claimable(Locked)
  PROVE  j \in JobIds /\ job[j].status = "queued" /\ \A q \in Runners : runner[q].job # j
<1>1. j \in JobIds /\ job[j].status = "queued" /\ j \notin Locked
  BY DEF Claimable, WithStatus
<1>2. ASSUME NEW q \in Runners, runner[q].job = j
      PROVE  FALSE
  <2>1. Busy(q)
    BY <1>1, <1>2, JobIdsFinite DEF Busy
  <2>2. runner[q].pc = "commit"
    BY <1>1, <1>2, <2>1 DEF IInv, OneOwnerPerJob, WithStatus
  <2>3. QED
    BY <1>1, <1>2, <2>2 DEF Locked
<1>3. QED
  BY <1>1, <1>2

LEMMA PickKeepsIInv ==
  ASSUME IInv, NEW r \in Runners, NEW held, RunnerPicks(r, held),
         UNCHANGED <<deleted, enabled, sched>>
  PROVE  IInv'
<1>1. PICK j \in JobIds :
        /\ j \in Claimable(Locked)
        /\ runner' = [runner EXCEPT ![r].pc = "commit", ![r].job = j]
  BY DEF RunnerPicks, Pick, Claimable
<1>2. UNCHANGED <<job, ver, crashed, result, notifyVars>>
  BY DEF RunnerPicks
<1>3. runner' \in [Runners -> RunnerState]
  <2>1. j \in 0 .. MaxJobs /\ j # 0
    BY JobsAssumption DEF JobIds
  <2>2. QED
    BY <1>1, <2>1 DEF IInv, TypeOK, RunnerState
<1>4. TypeOK'
  BY <1>2, <1>3 DEF IInv, TypeOK, notifyVars, NotifyTypeOK
<1>5. runner'[r].job = j /\ runner'[r].pc = "commit"
        /\ \A q \in Runners \ {r} : runner'[q] = runner[q]
  BY <1>1 DEF IInv, TypeOK, RunnerState
<1>6. OneOwnerPerJob'
  <2>1. WithStatus("queued")' = WithStatus("queued") /\ WithStatus("running")' = WithStatus("running")
          /\ WithStatus("cancelled")' = WithStatus("cancelled") /\ Void' = Void
    BY <1>2 DEF WithStatus, Void, Involving
  <2>2. j \in WithStatus("queued") /\ \A q \in Runners : runner[q].job # j
    BY <1>1, PickedIsFree DEF WithStatus
  <2>3. QED
    BY <1>5, <2>1, <2>2 DEF IInv, OneOwnerPerJob, Busy
<1>7. HandsMatchPc'
  BY <1>5, JobIdsFinite DEF IInv, HandsMatchPc, Idle
<1>8. ModeChosen' /\ RowsFilled'
  BY <1>2 DEF IInv, ModeChosen, RowsFilled
<1>9. QED
  BY <1>4, <1>6, <1>7, <1>8 DEF IInv

LEMMA FindingNothingKeepsIInv ==
  ASSUME IInv, NEW r \in Runners, NEW held, RunnerFindsNothing(r, held),
         UNCHANGED <<deleted, enabled, sched>>
  PROVE  IInv'
<1>1. NotifyTypeOK' /\ crashed' \in [Projects -> BOOLEAN]
  BY DEF RunnerFindsNothing, notifyVars, NotifyTypeOK, IInv, TypeOK
<1>2. RunnerRest("sleep") \in RunnerState /\ RunnerRest("sleep").pc = "sleep"
        /\ RunnerRest("sleep").job = 0
  BY RunnerRestTyped DEF Idle
<1>3. QED
  BY <1>1, <1>2, RunnerLocal DEF RunnerFindsNothing, Idle

LEMMA ClaimKeepsIInv ==
  ASSUME IInv, NEW r \in Runners, RunnerClaims(r), UNCHANGED <<deleted, enabled, sched>>
  PROVE  IInv'
<1> DEFINE j == runner[r].job
<1>1. /\ j \in JobIds /\ job[j].status = "queued" /\ j # 0
      /\ \A q \in Runners \ {r} : runner[q].job # j
  BY RowInHand, JobIdsFinite DEF RunnerClaims, Idle
<1>2. /\ job' = [job EXCEPT ![j].status = "running"]
      /\ runner' = [runner EXCEPT ![r].pc = "dispatch"]
  BY DEF RunnerClaims, Claim
<1>3. RowsOK'
  BY <1>1, <1>2, RowsKeptByStatusChange DEF IInv, TypeOK, RowsOK
<1>4. runner' \in [Runners -> RunnerState]
  BY <1>2 DEF IInv, TypeOK, RunnerState
<1>5. NotifyTypeOK'
  BY NotifyAllTyped DEF IInv, TypeOK, RunnerClaims
<1>6. TypeOK'
  BY <1>3, <1>4, <1>5 DEF IInv, TypeOK, RowsOK, RunnerClaims
<1>7. runner'[r].job = j /\ runner'[r].pc = "dispatch"
        /\ \A q \in Runners \ {r} : runner'[q] = runner[q]
  BY <1>2 DEF IInv, TypeOK, RunnerState
<1>8. \A q \in Runners \ {r} : Busy(q) =>
        runner[q].job \in JobIds \ {j} /\ job'[runner[q].job] = job[runner[q].job]
  BY <1>1, <1>2 DEF IInv, TypeOK, OneOwnerPerJob, WithStatus
<1>9. job'[j].status = "running"
  BY <1>1, <1>2 DEF IInv, TypeOK, JobRow
<1>10. \A q \in Runners \ {r} : Busy(q) => (runner[q].job \in Void' <=> runner[q].job \in Void)
  BY <1>8 DEF Void, Involving
<1>11. OneOwnerPerJob'
  <2>1. j \in WithStatus("running")'
    BY <1>1, <1>9 DEF WithStatus
  <2>2. \A q \in Runners \ {r} : Busy(q) => \A st :
          runner[q].job \in WithStatus(st)' <=> runner[q].job \in WithStatus(st)
    BY <1>8 DEF WithStatus
  <2>3. QED
    BY <1>1, <1>7, <1>10, <2>1, <2>2 DEF IInv, OneOwnerPerJob, Busy
<1>12. HandsMatchPc'
  BY <1>1, <1>7 DEF IInv, HandsMatchPc, Idle
<1>13. ModeChosen'
  BY DEF IInv, ModeChosen
<1>14. QED
  BY <1>3, <1>6, <1>11, <1>12, <1>13 DEF IInv, RowsOK

\* A step of a runner that goes on with its job: only the record of the runner
\* moves, and its new program counter is not idle.
LEMMA RunnerGoesOn ==
  ASSUME IInv, NEW r \in Runners, runner[r].pc \notin Idle \union {"commit"}, NEW new \in RunnerState,
         UNCHANGED <<job, result, ver, crashed, deleted, enabled, sched, notifyVars>>,
         runner' = [runner EXCEPT ![r] = new],
         new.job = runner[r].job, new.pc \notin Idle \union {"commit"}
  PROVE  IInv'
<1>1. crashed' \in [Projects -> BOOLEAN] /\ NotifyTypeOK'
  BY DEF IInv, TypeOK, NotifyTypeOK, notifyVars
<1>2. runner[r].job # 0
  BY DEF IInv, HandsMatchPc
<1>3. QED
  BY <1>1, <1>2, RunnerLocal

LEMMA RosterTyped ==
  ASSUME IInv, NEW r \in Runners, runner[r].pc \notin Idle
  PROVE  [s \in DOMAIN Who(r) |-> ver[Who(r)[s]]] \in Versions
<1>1. PICK n \in 1 .. MaxSeats : Who(r) \in [1 .. n -> Projects]
  BY RowInHand DEF Seating
<1>2. [s \in DOMAIN Who(r) |-> ver[Who(r)[s]]] \in [1 .. n -> 0 .. MaxVersion]
  BY <1>1 DEF IInv, TypeOK
<1>3. QED
  BY <1>1, <1>2 DEF Versions

LEMMA ParticipantsTyped ==
  ASSUME IInv, NEW r \in Runners
  PROVE  Participants(r) \in Versions \union {<<>>}
<1>1. CASE runner[r].roster = <<>>
  BY <1>1 DEF Participants
<1>2. ASSUME NEW n \in 1 .. MaxSeats, runner[r].roster \in [1 .. n -> 0 .. MaxVersion]
      PROVE  Participants(r) \in [1 .. n -> 0 .. MaxVersion]
  BY <1>2, ModesAssumption DEF Participants
<1>3. runner[r].roster \in Versions \union {<<>>}
  BY DEF IInv, TypeOK, RunnerState
<1>4. QED
  BY <1>1, <1>2, <1>3 DEF Versions

LEMMA RunnerKeepsIInv ==
  ASSUME IInv, NEW r \in Runners, RunnerProcess(r)
  PROVE  IInv'
<1>0. runner[r] \in RunnerState /\ NotifyTypeOK /\ UNCHANGED <<deleted, enabled, sched>>
  BY DEF IInv, TypeOK, RunnerProcess
<1>1. CASE RunnerClear(r)
  <2>1. NotifyTypeOK' /\ crashed' \in [Projects -> BOOLEAN]
    BY <1>0, <1>1 DEF RunnerClear, ClearWakeup, NotifyTypeOK, IInv, TypeOK
  <2>2. RunnerRest("claim") \in RunnerState /\ RunnerRest("claim").pc = "claim"
          /\ RunnerRest("claim").job = 0
    BY RunnerRestTyped DEF Idle
  <2>3. QED
    BY <1>0, <1>1, <2>1, <2>2, RunnerLocal DEF RunnerClear, Idle
<1>2. CASE RunnerPicks(r, {}) \/ RunnerClaims(r)
  BY <1>0, <1>2, PickKeepsIInv, ClaimKeepsIInv
<1>3. CASE RunnerFindsNothing(r, {})
  BY <1>0, <1>3, FindingNothingKeepsIInv
<1>4. CASE RunnerDispatch(r)
  <2>0. runner[r].pc \notin Idle \union {"commit"}
    BY <1>4 DEF RunnerDispatch, Idle
  <2>1. CASE \A s \in DOMAIN Who(r) : Who(r)[s] \in Submitted
    <3> DEFINE roster == [s \in DOMAIN Who(r) |-> ver[Who(r)[s]]]
    <3> DEFINE new == [runner[r] EXCEPT !.pc = "playing", !.roster = roster]
    <3>1. roster \in Versions
      BY <2>0, RosterTyped
    <3>2. runner' = [runner EXCEPT ![r] = new]
      BY <1>4, <2>1 DEF RunnerDispatch
    <3> HIDE DEF roster
    <3>3. new \in RunnerState /\ new.job = runner[r].job /\ new.pc = "playing"
      BY <1>0, <3>1 DEF RunnerState
    <3> HIDE DEF new
    <3>4. QED
      BY <1>0, <1>4, <2>0, <3>2, <3>3, RunnerGoesOn DEF RunnerDispatch, Idle
  <2>2. CASE ~(\A s \in DOMAIN Who(r) : Who(r)[s] \in Submitted)
    <3> DEFINE new == [runner[r] EXCEPT !.pc = "fail"]
    <3>1. runner' = [runner EXCEPT ![r] = new]
      BY <1>4, <2>2 DEF RunnerDispatch
    <3>2. new \in RunnerState /\ new.job = runner[r].job /\ new.pc = "fail"
      BY <1>0 DEF RunnerState
    <3> HIDE DEF new
    <3>3. QED
      BY <1>0, <1>4, <2>0, <3>1, <3>2, RunnerGoesOn DEF RunnerDispatch, Idle
  <2>3. QED
    BY <2>1, <2>2
<1>5. CASE MatchSucceeds(r)
  <2> DEFINE new == [runner[r] EXCEPT !.pc = "record"]
  <2>0. runner[r].pc \notin Idle \union {"commit"}
    BY <1>5 DEF MatchSucceeds, Idle
  <2>1. runner' = [runner EXCEPT ![r] = new]
    BY <1>5 DEF MatchSucceeds
  <2>2. new \in RunnerState /\ new.job = runner[r].job /\ new.pc = "record"
    BY <1>0 DEF RunnerState
  <2> HIDE DEF new
  <2>3. QED
    BY <1>0, <1>5, <2>0, <2>1, <2>2, RunnerGoesOn DEF MatchSucceeds, Idle
<1>6. ASSUME NEW s \in 1 .. MaxSeats, Quarantine(r, s)
      PROVE  IInv'
  <2>2. PICK pc \in {"fail", "record", "blame"} :
          runner' = [runner EXCEPT ![r].blame = @ \ {s}, ![r].pc = pc]
    BY <1>6 DEF Quarantine
  <2> DEFINE new == [runner[r] EXCEPT !.blame = @ \ {s}, !.pc = pc]
  <2>0. runner[r].pc \notin Idle \union {"commit"} /\ runner[r].job # 0
    BY <1>6 DEF Quarantine, Idle, IInv, HandsMatchPc
  <2>1. runner' = [runner EXCEPT ![r] = new]
    BY <2>2
  <2>3. new \in RunnerState /\ new.job = runner[r].job /\ new.pc \in {"fail", "record", "blame"}
    BY <1>0, <2>2 DEF RunnerState
  <2> HIDE DEF new
  <2>4. NotifyTypeOK' /\ crashed' \in [Projects -> BOOLEAN]
    BY <1>0, <1>6 DEF Quarantine, notifyVars, NotifyTypeOK, IInv, TypeOK
  <2>5. QED
    BY <1>0, <1>6, <2>0, <2>1, <2>3, <2>4, RunnerLocal DEF Quarantine, Idle
<1>7. CASE RunnerRecord(r)
  <2>0. runner[r].pc \notin Idle \union {"commit"}
    BY <1>7 DEF RunnerRecord, Idle
  <2>1. result' \in [JobIds -> Versions \union {<<>>}]
    BY <1>0, <1>7, ParticipantsTyped DEF RunnerRecord, IInv, TypeOK
  <2>2. NotifyTypeOK'
    BY <1>0, <1>7, NotifyAllTyped DEF RunnerRecord
  <2>3. QED
    BY <1>0, <1>7, <2>0, <2>1, <2>2, RunnerSettles DEF RunnerRecord, MarkSuccess
<1>8. CASE RunnerRecordRefused(r)
  <2> DEFINE new == [runner[r] EXCEPT !.pc = "fail"]
  <2>0. runner[r].pc \notin Idle \union {"commit"}
    BY <1>8 DEF RunnerRecordRefused, Idle
  <2>1. runner' = [runner EXCEPT ![r] = new]
    BY <1>8 DEF RunnerRecordRefused
  <2>2. new \in RunnerState /\ new.job = runner[r].job /\ new.pc = "fail"
    BY <1>0 DEF RunnerState
  <2> HIDE DEF new
  <2>3. QED
    BY <1>0, <1>8, <2>0, <2>1, <2>2, RunnerGoesOn DEF RunnerRecordRefused, Idle
<1>9. CASE RunnerFail(r)
  <2>0. runner[r].pc \notin Idle \union {"commit"}
    BY <1>9 DEF RunnerFail, Idle
  <2>1. result' \in [JobIds -> Versions \union {<<>>}] /\ NotifyTypeOK'
    BY <1>0, <1>9 DEF RunnerFail, notifyVars, NotifyTypeOK, IInv, TypeOK
  <2>2. QED
    BY <1>0, <1>9, <2>0, <2>1, RunnerSettles DEF RunnerFail, MarkFailure
<1>10. CASE RunnerWake(r)
  <2>1. NotifyTypeOK' /\ crashed' \in [Projects -> BOOLEAN]
    BY <1>0, <1>10 DEF RunnerWake, notifyVars, NotifyTypeOK, IInv, TypeOK
  <2>2. RunnerRest("clear") \in RunnerState /\ RunnerRest("clear").pc = "clear"
          /\ RunnerRest("clear").job = 0
    BY RunnerRestTyped DEF Idle
  <2>3. QED
    BY <1>0, <1>10, <2>1, <2>2, RunnerLocal DEF RunnerWake, Idle
<1>11. CASE RunnerRestart(r)
  <2>1. NotifyTypeOK' /\ crashed' \in [Projects -> BOOLEAN]
    BY <1>0, <1>11 DEF RunnerRestart, notifyVars, NotifyTypeOK, IInv, TypeOK
  <2>2. RunnerRest("clear") \in RunnerState /\ RunnerRest("clear").pc = "clear"
          /\ RunnerRest("clear").job = 0
    BY RunnerRestTyped DEF Idle
  <2>3. QED
    BY <1>0, <1>11, <2>1, <2>2, RunnerLocal DEF RunnerRestart, Idle
<1>12. QED
  BY <1>1, <1>2, <1>3, <1>4, <1>5, <1>6, <1>7, <1>8, <1>9, <1>10, <1>11
     DEF RunnerProcess, RunnerWork

LEMMA MatchGoesWrongKeepsIInv ==
  ASSUME IInv, NEW r \in Runners, MatchGoesWrong(r)
  PROVE  IInv'
<1>0. runner[r] \in RunnerState /\ UNCHANGED <<deleted, enabled, sched>>
  BY DEF IInv, TypeOK, MatchGoesWrong
<1>1. CASE MatchFails(r)
  <2> DEFINE new == [runner[r] EXCEPT !.pc = "fail"]
  <2>1. runner' = [runner EXCEPT ![r] = new] /\ runner[r].pc \notin Idle \union {"commit"}
    BY <1>1 DEF MatchFails, Idle
  <2>2. new \in RunnerState /\ new.job = runner[r].job /\ new.pc = "fail"
    BY <1>0 DEF RunnerState
  <2> HIDE DEF new
  <2>3. QED
    BY <1>0, <1>1, <2>1, <2>2, RunnerGoesOn DEF MatchFails, Idle
<1>2. ASSUME NEW absent \in SUBSET (1 .. MaxSeats), NEW blamed \in SUBSET (1 .. MaxSeats),
             SeatsDropOut(r, absent, blamed)
      PROVE  IInv'
  <2> DEFINE pc == IF blamed = {} THEN "record" ELSE "blame"
  <2> DEFINE new == [runner[r] EXCEPT !.pc = pc, !.absent = absent, !.blame = blamed]
  <2>1. runner' = [runner EXCEPT ![r] = new] /\ runner[r].pc \notin Idle \union {"commit"}
    BY <1>2 DEF SeatsDropOut, Idle
  <2>2. pc \in {"record", "blame"}
    OBVIOUS
  <2> HIDE DEF pc
  <2>3. new \in RunnerState /\ new.job = runner[r].job /\ new.pc \in {"record", "blame"}
    BY <1>0, <2>2 DEF RunnerState
  <2> HIDE DEF new
  <2>4. QED
    BY <1>0, <1>2, <2>1, <2>3, RunnerGoesOn DEF SeatsDropOut, Idle
<1>3. QED
  BY <1>1, <1>2 DEF MatchGoesWrong

------------------------------------------------------------------------------
(* Listeners, crashes and exceptions.                                      *)

LEMMA ListenersKeepIInv ==
  ASSUME IInv, NEW d \in Daemons,
         ListenerReceives(d) \/ ListenerConnects(d) \/ ListenerDrops(d)
  PROVE  IInv'
<1>1. UNCHANGED <<job, result, projectVars, enabled, sched, runner>>
  BY DEF ListenerReceives, ListenerConnects, ListenerDrops
<1>2. NotifyTypeOK'
  BY DEF IInv, TypeOK, NotifyTypeOK, ListenerReceives, ListenerConnects, ListenerDrops,
         Receive, Connect, Disconnect
<1>3. sched' \in SchedState /\ ModeChosen'
  BY <1>1 DEF IInv, TypeOK, ModeChosen
<1>4. QED
  BY <1>1, <1>2, <1>3, SchedLocal

LEMMA VanishTyped ==
  ASSUME NotifyTypeOK, NEW d, Vanish(d)
  PROVE  NotifyTypeOK'
  BY DEF NotifyTypeOK, Vanish

LEMMA CrashKeepsIInv ==
  ASSUME IInv, Crash
  PROVE  IInv'
<1>1. CASE SchedCrash /\ UNCHANGED <<result, projectVars, runner>>
  <2>1. sched' \in SchedState /\ ModeChosen'
    BY <1>1, SchedRestTyped DEF SchedCrash, ModeChosen
  <2>2. NotifyTypeOK'
    BY <1>1, VanishTyped DEF SchedCrash, IInv, TypeOK
  <2>3. QED
    BY <1>1, <2>1, <2>2, SchedLocal DEF SchedCrash
<1>2. ASSUME NEW r \in Runners, RunnerCrash(r), UNCHANGED <<deleted, enabled, sched>>
      PROVE  IInv'
  <2>1. NotifyTypeOK' /\ crashed' \in [Projects -> BOOLEAN]
    BY <1>2, VanishTyped DEF RunnerCrash, IInv, TypeOK
  <2>2. RunnerRest("down") \in RunnerState /\ RunnerRest("down").pc = "down"
          /\ RunnerRest("down").job = 0
    BY RunnerRestTyped DEF Idle
  <2>3. QED
    BY <1>2, <2>1, <2>2, RunnerLocal DEF RunnerCrash, Idle
<1>3. QED
  BY <1>1, <1>2 DEF Crash

LEMMA EscapeKeepsIInv ==
  ASSUME IInv, Escape
  PROVE  IInv'
<1>1. CASE SchedTickFails /\ UNCHANGED <<result, projectVars, runner>>
  <2>1. sched' \in SchedState /\ ModeChosen'
    BY <1>1, SchedRestTyped DEF SchedTickFails, ModeChosen
  <2>2. NotifyTypeOK'
    BY <1>1 DEF SchedTickFails, notifyVars, NotifyTypeOK, IInv, TypeOK
  <2>3. QED
    BY <1>1, <2>1, <2>2, SchedLocal DEF SchedTickFails
<1>2. ASSUME NEW r \in Runners, RunnerIterationFails(r), UNCHANGED <<deleted, enabled, sched>>
      PROVE  IInv'
  <2>1. NotifyTypeOK' /\ crashed' \in [Projects -> BOOLEAN]
    BY <1>2 DEF RunnerIterationFails, notifyVars, NotifyTypeOK, IInv, TypeOK
  <2>2. RunnerRest("sleep") \in RunnerState /\ RunnerRest("sleep").pc = "sleep"
          /\ RunnerRest("sleep").job = 0
    BY RunnerRestTyped DEF Idle
  <2>3. QED
    BY <1>2, <2>1, <2>2, RunnerLocal DEF RunnerIterationFails, Idle
<1>3. QED
  BY <1>1, <1>2 DEF Escape

------------------------------------------------------------------------------
(* The API and the operator.                                               *)

Rows == [JobIds -> Versions \union {<<>>}]

LEMMA PrunedTyped ==
  ASSUME NEW rows \in Rows, NEW v
  PROVE  Pruned(rows, v) \in Rows
  BY DEF Rows, Pruned

\* A step that touches neither the queue nor a daemon.
LEMMA TablesOnly ==
  ASSUME IInv, UNCHANGED <<job, sched, runner>>,
         result' \in Rows, ver' \in [Projects -> 0 .. MaxVersion],
         crashed' \in [Projects -> BOOLEAN], deleted' \in SUBSET Projects,
         deleted \subseteq deleted', enabled' \in SUBSET Modes, NotifyTypeOK'
  PROVE  IInv'
<1>1. TypeOK'
  BY DEF IInv, TypeOK, Rows
<1>2. OneOwnerPerJob'
  BY OwnersUndisturbed DEF Void, Involving
<1>3. RowsFilled' /\ HandsMatchPc' /\ ModeChosen'
  BY DEF IInv, RowsFilled, HandsMatchPc, ModeChosen
<1>4. QED
  BY <1>1, <1>2, <1>3 DEF IInv

LEMMA SubmitKeepsIInv ==
  ASSUME IInv, NEW p \in Projects, Submit(p)
  PROVE  IInv'
<1>1. ver' \in [Projects -> 0 .. MaxVersion] /\ crashed' \in [Projects -> BOOLEAN]
  BY ModesAssumption DEF IInv, TypeOK, Submit
<1>2. result' \in Rows
  BY PrunedTyped DEF IInv, TypeOK, Submit, Rows
<1>3. NotifyTypeOK'
  BY NotifyAllTyped DEF IInv, TypeOK, Submit
<1>4. QED
  BY <1>1, <1>2, <1>3, TablesOnly DEF IInv, TypeOK, Submit

\* Without some of its participants a match row has the same seats.
LEMMA WithoutPlayersTyped ==
  ASSUME IInv, NEW ps, NEW j \in JobIds
  PROVE  /\ result[j] \in Versions => WithoutPlayers(ps)[j] \in Versions
         /\ result[j] = <<>> => DOMAIN WithoutPlayers(ps)[j] = {}
<1> DEFINE row == [s \in DOMAIN result[j] |-> IF job[j].who[s] \in ps THEN 0 ELSE result[j][s]]
<1>1. WithoutPlayers(ps)[j] = row
  BY DEF WithoutPlayers
<1>2. ASSUME NEW n \in 1 .. MaxSeats, result[j] \in [1 .. n -> 0 .. MaxVersion]
      PROVE  row \in [1 .. n -> 0 .. MaxVersion]
  BY <1>2, ModesAssumption
<1>3. result[j] = <<>> => DOMAIN row = {}
  OBVIOUS
<1> HIDE DEF row
<1>4. QED
  BY <1>1, <1>2, <1>3 DEF Versions

LEMMA DeleteKeepsIInv ==
  ASSUME IInv, NEW p \in Projects, Delete(p)
  PROVE  IInv'
<1>1. ver' \in [Projects -> 0 .. MaxVersion] /\ crashed' \in [Projects -> BOOLEAN]
        /\ deleted' \in SUBSET Projects /\ deleted \subseteq deleted'
  BY ModesAssumption DEF IInv, TypeOK, Delete
<1>2. result' = Pruned(WithoutPlayers({p}), ver')
  BY DEF Delete
<1>3. result' \in Rows
  BY <1>2, WithoutPlayersTyped DEF IInv, TypeOK, Pruned, Rows
<1>4. NotifyTypeOK'
  BY DEF IInv, TypeOK, Delete, notifyVars, NotifyTypeOK
<1>5. QED
  BY <1>1, <1>3, <1>4, TablesOnly DEF IInv, TypeOK, Delete

\* What an erasure does to the queue.
LEMMA ErasedJobs ==
  ASSUME IInv, NEW ps \in SUBSET Projects, EraseUser(ps)
  PROVE  \E js \in SUBSET JobIds :
           /\ js \subseteq Void'
           /\ \A j \in js : job[j].status = "running" \/ (job[j].status = "queued" /\ j \notin Locked)
           /\ \A j \in JobIds : /\ job'[j].mode = job[j].mode /\ job'[j].who = job[j].who
                              /\ job'[j].status = IF j \in js THEN "cancelled" ELSE job[j].status
<1> DEFINE js == Involving(ps) \intersect (WithStatus("queued") \union WithStatus("running"))
<1>1. js \intersect Locked = {} /\ CancelAll(js) /\ deleted' = deleted \union ps
  BY DEF EraseUser
<1>2. \A j \in JobIds : /\ job'[j].mode = job[j].mode /\ job'[j].who = job[j].who
                     /\ job'[j].status = IF j \in js THEN "cancelled" ELSE job[j].status
  BY <1>1 DEF CancelAll, IInv, TypeOK, JobRow
<1>3. js \in SUBSET JobIds /\ \A j \in js : job[j].status = "running" \/ (job[j].status = "queued" /\ j \notin Locked)
  BY <1>1 DEF WithStatus
<1>4. js \subseteq Void'
  BY <1>1, <1>2 DEF Void, Involving
<1>5. QED
  BY <1>2, <1>3, <1>4

LEMMA EraseKeepsIInv ==
  ASSUME IInv, NEW ps \in SUBSET Projects, EraseUser(ps)
  PROVE  IInv'
<1>1. ver' \in [Projects -> 0 .. MaxVersion] /\ crashed' \in [Projects -> BOOLEAN]
        /\ deleted' \in SUBSET Projects /\ deleted \subseteq deleted'
  BY ModesAssumption DEF IInv, TypeOK, EraseUser
<1>2. UNCHANGED <<enabled, sched, runner, listening, wakeup>>
  BY DEF EraseUser
<1>3. result' \in Rows
  <2>1. \A j \in JobIds : result'[j] = <<>> \/ result'[j] = WithoutPlayers(ps)[j]
    BY DEF EraseUser
  <2>2. \A j \in JobIds : result[j] = <<>> =>
          WithoutPlayers(ps)[j] = result[j] \/ result'[j] = <<>>
    BY WithoutPlayersTyped DEF EraseUser
  <2>3. result' = [j \in JobIds |-> result'[j]]
    BY DEF EraseUser
  <2>4. \A j \in JobIds : result'[j] \in Versions \union {<<>>}
    BY <2>1, <2>2, WithoutPlayersTyped DEF IInv, TypeOK
  <2>5. QED
    BY <2>3, <2>4 DEF Rows
<1>4. NotifyTypeOK'
  BY <1>2, NotifyAllTyped DEF IInv, TypeOK, EraseUser, NotifyTypeOK
<1>5. PICK js \in SUBSET JobIds :
        /\ js \subseteq Void'
        /\ \A j \in js : job[j].status = "running" \/ (job[j].status = "queued" /\ j \notin Locked)
        /\ \A j \in JobIds : /\ job'[j].mode = job[j].mode /\ job'[j].who = job[j].who
                           /\ job'[j].status = IF j \in js THEN "cancelled" ELSE job[j].status
  BY ErasedJobs
<1>6. job' \in [JobIds -> JobRow]
  BY DEF EraseUser, CancelAll, IInv, TypeOK, JobRow
<1>7. RowsFilled'
  BY <1>5 DEF IInv, RowsFilled
<1>8. OneOwnerPerJob'
  <2>1. ASSUME NEW r \in Runners, Busy(r)
        PROVE  /\ runner[r].job \in JobIds
               /\ \/ job'[runner[r].job].status = job[runner[r].job].status
                  \/ /\ job[runner[r].job].status = "running"
                     /\ job'[runner[r].job].status = "cancelled" /\ runner[r].job \in Void'
    <3>1. runner[r].job \in JobIds
            /\ (job[runner[r].job].status = "queued" => runner[r].job \in Locked)
      BY <2>1 DEF IInv, OneOwnerPerJob, WithStatus, Locked
    <3>2. QED
      BY <1>5, <3>1
  <2>2. \A r \in Runners : Busy(r) /\ runner[r].job \in Void => runner[r].job \in Void'
    BY <1>1, <1>5, <2>1, VoidGrows
  <2>3. QED
    BY <1>2, <2>1, <2>2, OwnersUndisturbed
<1>9. TypeOK'
  BY <1>1, <1>2, <1>3, <1>4, <1>6 DEF IInv, TypeOK, Rows
<1>10. HandsMatchPc' /\ ModeChosen'
  BY <1>2 DEF IInv, HandsMatchPc, ModeChosen
<1>11. QED
  BY <1>7, <1>8, <1>9, <1>10 DEF IInv

LEMMA CancelKeepsIInv ==
  ASSUME IInv, NEW j \in JobIds, CancelQueued(j)
  PROVE  IInv'
<1>1. /\ job[j].status = "queued" /\ job' = [job EXCEPT ![j].status = "cancelled"]
      /\ \A q \in Runners : runner[q].job # j
  BY PickedIsFree DEF CancelQueued, Cancel
<1>2. RowsOK'
  BY <1>1, RowsKeptByStatusChange DEF IInv, TypeOK, RowsOK
<1>3. NotifyTypeOK'
  BY NotifyAllTyped DEF IInv, TypeOK, CancelQueued
<1>4. TypeOK'
  BY <1>2, <1>3 DEF IInv, TypeOK, RowsOK, CancelQueued, projectVars
<1>5. OneOwnerPerJob'
  <2>1. \A r \in Runners : Busy(r) =>
          runner[r].job \in JobIds /\ job'[runner[r].job] = job[runner[r].job]
    BY <1>1 DEF IInv, OneOwnerPerJob, WithStatus
  <2>2. QED
    BY <1>1, <2>1, OwnersUndisturbed DEF Void, Involving, CancelQueued, projectVars
<1>6. HandsMatchPc' /\ ModeChosen'
  BY DEF IInv, HandsMatchPc, ModeChosen, CancelQueued
<1>7. QED
  BY <1>2, <1>4, <1>5, <1>6 DEF IInv, RowsOK

LEMMA ToggleKeepsIInv ==
  ASSUME IInv, NEW m \in Modes, DisableMode(m) \/ EnableMode(m)
  PROVE  IInv'
<1>1. NotifyTypeOK'
  BY NotifyAllTyped DEF IInv, TypeOK, DisableMode, EnableMode, notifyVars, NotifyTypeOK
<1>2. enabled' \in SUBSET Modes
  BY DEF IInv, TypeOK, DisableMode, EnableMode
<1>3. QED
  BY <1>1, <1>2, TablesOnly DEF IInv, TypeOK, DisableMode, EnableMode, projectVars, Rows

------------------------------------------------------------------------------
(* The theorems.                                                           *)

LEMMA InitEstablishesIInv ==
  ASSUME Init
  PROVE  IInv
<1> USE JobsAssumption, ModesAssumption DEF Init
<1>1. SchedRest("clear") \in SchedState /\ RunnerRest("clear") \in RunnerState
        /\ SchedRest("clear").pc = "clear"
        /\ RunnerRest("clear").pc = "clear" /\ RunnerRest("clear").job = 0
  BY SchedRestTyped, RunnerRestTyped DEF Idle
<1>2. TypeOK
  BY <1>1 DEF TypeOK, JobsInit, JobRow, NotifyInit, NotifyTypeOK, SchedInit, RunnerInit
<1>3. OneOwnerPerJob /\ HandsMatchPc
  BY <1>1 DEF OneOwnerPerJob, HandsMatchPc, Busy, RunnerInit, Idle
<1>4. RowsFilled
  BY DEF RowsFilled, JobsInit
<1>5. ModeChosen
  BY <1>1 DEF ModeChosen, SchedInit
<1>6. QED
  BY <1>2, <1>3, <1>4, <1>5 DEF IInv

LEMMA NextKeepsIInv ==
  ASSUME IInv, [Next]_vars
  PROVE  IInv'
<1>1. CASE User
  BY <1>1, SubmitKeepsIInv, DeleteKeepsIInv, EraseKeepsIInv, CancelKeepsIInv, ToggleKeepsIInv DEF User
<1>2. CASE SchedulerProcess
  BY <1>2, SchedulerKeepsIInv
<1>3. CASE \E r \in Runners : RunnerProcess(r) \/ MatchGoesWrong(r)
  BY <1>3, RunnerKeepsIInv, MatchGoesWrongKeepsIInv
<1>4. CASE \E d \in Daemons : ListenerReceives(d) \/ ListenerConnects(d) \/ ListenerDrops(d)
  BY <1>4, ListenersKeepIInv
<1>5. CASE Crash
  BY <1>5, CrashKeepsIInv
<1>6. CASE Escape
  BY <1>6, EscapeKeepsIInv
<1>7. CASE PassOver
  BY <1>7, PickKeepsIInv, FindingNothingKeepsIInv DEF PassOver
<1>8. CASE UNCHANGED vars
  <2>1. result' \in Rows /\ NotifyTypeOK'
    BY <1>8 DEF vars, IInv, TypeOK, Rows, notifyVars, NotifyTypeOK
  <2>2. QED
    BY <1>8, <2>1, TablesOnly DEF vars, projectVars, IInv, TypeOK
<1>9. QED
  BY <1>1, <1>2, <1>3, <1>4, <1>5, <1>6, <1>7, <1>8 DEF Next

\* The strengthened invariant holds of every behaviour.
THEOREM Invariance == Spec => []IInv
<1>1. Init => IInv
  BY InitEstablishesIInv
<1>2. IInv /\ [Next]_vars => IInv'
  BY NextKeepsIInv
<1>3. QED
  BY <1>1, <1>2, PTL DEF Spec

\* Every variable stays in its type.
THEOREM TypeCorrect == Spec => []TypeOK
<1>1. IInv => TypeOK
  BY DEF IInv
<1>2. QED
  BY <1>1, Invariance, PTL

\* However many runners claim from the table, a job in a runner's hands is in
\* no other's, and 'running' once the claim has committed, unless a user in it
\* was erased.
THEOREM OwnershipIsExclusive == Spec => []OneOwnerPerJob
<1>1. IInv => OneOwnerPerJob
  BY DEF IInv
<1>2. QED
  BY <1>1, Invariance, PTL

\* Between the claim and the outcome a runner only moves on with its job.
LEMMA KeepsItsJob ==
  ASSUME IInv, NEW r \in Runners,
         \/ RunnerDispatch(r) \/ MatchSucceeds(r) \/ RunnerRecordRefused(r)
         \/ \E s \in 1 .. MaxSeats : Quarantine(r, s)
         \/ MatchGoesWrong(r)
  PROVE  /\ UNCHANGED job
         /\ \E new : /\ runner' = [runner EXCEPT ![r] = new]
                     /\ new.job = runner[r].job
                     /\ new.pc \notin Idle
<1> DEFINE roster == [s \in DOMAIN Who(r) |-> ver[Who(r)[s]]]
<1> DEFINE playing == [runner[r] EXCEPT !.pc = "playing", !.roster = roster]
<1> DEFINE to(pc) == [runner[r] EXCEPT !.pc = pc]
<1> DEFINE blaming(blame, pc) == [runner[r] EXCEPT !.blame = blame, !.pc = pc]
<1> DEFINE without(absent, blame, pc) == [runner[r] EXCEPT !.pc = pc, !.absent = absent, !.blame = blame]
<1>1. playing.job = runner[r].job /\ playing.pc = "playing"
  BY DEF IInv, TypeOK, RunnerState
<1>2. \A pc : to(pc).job = runner[r].job /\ to(pc).pc = pc
  BY DEF IInv, TypeOK, RunnerState
<1>3. \A blame, pc : blaming(blame, pc).job = runner[r].job /\ blaming(blame, pc).pc = pc
  BY DEF IInv, TypeOK, RunnerState
<1>4. ASSUME RunnerDispatch(r) \/ MatchSucceeds(r) \/ RunnerRecordRefused(r)
      PROVE  /\ UNCHANGED job
             /\ \/ runner' = [runner EXCEPT ![r] = playing]
                \/ runner' = [runner EXCEPT ![r] = to("fail")]
                \/ runner' = [runner EXCEPT ![r] = to("record")]
  BY <1>4 DEF RunnerDispatch, MatchSucceeds, RunnerRecordRefused
<1>5. ASSUME MatchFails(r)
      PROVE  UNCHANGED job /\ runner' = [runner EXCEPT ![r] = to("fail")]
  BY <1>5 DEF MatchFails
<1>6. ASSUME NEW absent, NEW blamed, SeatsDropOut(r, absent, blamed)
      PROVE  /\ UNCHANGED job
             /\ \E pc \in {"record", "blame"} :
                  runner' = [runner EXCEPT ![r] = without(absent, blamed, pc)]
  <2>1. UNCHANGED job /\ runner' = [runner EXCEPT ![r] =
          without(absent, blamed, IF blamed = {} THEN "record" ELSE "blame")]
    BY <1>6 DEF SeatsDropOut
  <2> HIDE DEF without
  <2>2. QED
    BY <2>1
<1>7. ASSUME NEW s, Quarantine(r, s)
      PROVE  /\ UNCHANGED job
             /\ \E blame : \E pc \in {"fail", "record", "blame"} :
                  runner' = [runner EXCEPT ![r] = blaming(blame, pc)]
  <2>1. PICK pc \in {"fail", "record", "blame"} :
          runner' = [runner EXCEPT ![r].blame = @ \ {s}, ![r].pc = pc]
    BY <1>7 DEF Quarantine
  <2>2. UNCHANGED job /\ runner' = [runner EXCEPT ![r] = blaming(runner[r].blame \ {s}, pc)]
    BY <1>7, <2>1 DEF Quarantine
  <2> HIDE DEF blaming
  <2>3. QED
    BY <2>2
<1>8. \A absent, blame, pc :
        without(absent, blame, pc).job = runner[r].job /\ without(absent, blame, pc).pc = pc
  BY DEF IInv, TypeOK, RunnerState
<1> HIDE DEF playing, to, blaming, without
<1>9. QED
  BY <1>1, <1>2, <1>3, <1>4, <1>5, <1>6, <1>7, <1>8 DEF MatchGoesWrong, Idle

------------------------------------------------------------------------------
(* The ranked pipeline implements the job board.                           *)

boardVars == <<Phase, Hand, Void>>

LEMMA BoardStutters ==
  ASSUME \A j \in JobIds : job'[j].status = job[j].status /\ job'[j].who = job[j].who,
         \A r \in Runners : runner'[r].job = runner[r].job,
         UNCHANGED deleted
  PROVE  UNCHANGED boardVars
  BY DEF Phase, Hand, Void, Involving, boardVars

LEMMA HandKept ==
  ASSUME IInv, NEW r \in Runners, NEW new, new.job = runner[r].job,
         UNCHANGED <<job, deleted>>, runner' = [runner EXCEPT ![r] = new]
  PROVE  UNCHANGED boardVars
<1>1. \A q \in Runners : runner'[q].job = runner[q].job
  BY DEF IInv, TypeOK
<1>2. QED
  BY <1>1, BoardStutters

\* The players of the rows stay, so whether a row is void is up to deleted.
LEMMA VoidStays ==
  ASSUME \A j \in JobIds : job'[j].who = job[j].who, UNCHANGED deleted
  PROVE  UNCHANGED Void
  BY DEF Void, Involving

LEMMA EnqueuePosts ==
  ASSUME IInv, NEW m, NEW who, Enqueue(m, who), UNCHANGED <<runner, deleted>>
  PROVE  Board!Next
<1>1. PICK j \in JobIds :
        /\ job[j].status = "none"
        /\ \A k \in JobIds : k < j => job[k].status # "none"
        /\ job' = [job EXCEPT ![j] = [status |-> "queued", mode |-> m, who |-> who]]
  BY DEF Enqueue, NextId
<1> DEFINE stillborn == j \in Void'
<1>2. Phase[j] = "none" /\ \A k \in JobIds : k < j => Phase[k] # "none"
  BY <1>1 DEF Phase
<1>3. Phase' = [Phase EXCEPT ![j] = "queued"]
  BY <1>1 DEF Phase, IInv, TypeOK
<1>4. UNCHANGED Hand
  BY DEF Hand
<1>5. Void' = Void \union (IF stillborn THEN {j} ELSE {})
  <2>1. \A k \in JobIds \ {j} : job'[k] = job[k]
    BY <1>1 DEF IInv, TypeOK
  <2>2. \A k \in JobIds \ {j} : k \in Void' <=> k \in Void
    BY <2>1 DEF Void, Involving
  <2>3. j \notin Void
    BY <1>1 DEF IInv, RowsFilled, Void, Involving
  <2>4. Void' \subseteq JobIds /\ Void \subseteq JobIds
    BY DEF Void, Involving
  <2>5. QED
    BY <2>2, <2>3, <2>4
<1>6. stillborn \in BOOLEAN
  OBVIOUS
<1>7. Board!Post(j, stillborn)
  BY <1>2, <1>3, <1>4, <1>5 DEF Board!Post
<1> HIDE DEF stillborn
<1>8. QED
  BY <1>6, <1>7 DEF Board!Next

LEMMA InHandsAre ==
  Board!InHand = {runner[r].job : r \in Runners}
  BY DEF Board!InHand, Hand

LEMMA PickReaches ==
  ASSUME IInv, NEW r \in Runners, RunnerPicks(r, {}), UNCHANGED deleted
  PROVE  Board!Next
<1>1. PICK j \in JobIds :
        /\ Pick(j, Locked)
        /\ runner' = [runner EXCEPT ![r].pc = "commit", ![r].job = j]
  BY DEF RunnerPicks, Pick, Claimable
<1>2. Hand[r] = 0
  BY DEF RunnerPicks, IInv, HandsMatchPc, Idle, Hand
<1>3. Phase[j] = "queued" /\ j \notin Board!InHand
  BY <1>1, PickedIsFree, InHandsAre DEF Pick, Phase
<1>4. ASSUME NEW k \in JobIds, k < j, Phase[k] = "queued"
      PROVE  k \in Board!InHand
  <2>1. k \in WithStatus("queued")
    BY <1>4 DEF Phase, WithStatus
  <2>2. k \in Locked
    BY <1>1, <1>4, <2>1 DEF Pick, Claimable, JobIds
  <2>3. QED
    BY <2>2, InHandsAre DEF Locked
<1>5. UNCHANGED <<Phase, Void>>
  BY VoidStays DEF RunnerPicks, Phase
<1>6. Hand' = [Hand EXCEPT ![r] = j]
  BY <1>1 DEF Hand, IInv, TypeOK, RunnerState
<1>7. Board!Reach(r, j)
  BY <1>2, <1>3, <1>4, <1>5, <1>6 DEF Board!Reach
<1>8. QED
  BY <1>7 DEF Board!Next

LEMMA ClaimTakes ==
  ASSUME IInv, NEW r \in Runners, RunnerClaims(r), UNCHANGED deleted
  PROVE  Board!Next
<1> DEFINE j == runner[r].job
<1>1. /\ j \in JobIds /\ job[j].status = "queued"
      /\ job' = [job EXCEPT ![j].status = "running"]
      /\ runner' = [runner EXCEPT ![r].pc = "dispatch"]
  BY RowInHand DEF RunnerClaims, Claim, Idle
<1>2. Hand[r] = j /\ Phase[j] = "queued"
  BY <1>1 DEF Hand, Phase
<1>3. Phase' = [Phase EXCEPT ![j] = "running"]
  BY <1>1 DEF Phase, IInv, TypeOK, JobRow
<1>4. UNCHANGED Hand
  BY <1>1 DEF Hand, IInv, TypeOK, RunnerState
<1>5. UNCHANGED Void
  BY <1>1, VoidStays DEF IInv, TypeOK, JobRow
<1>6. Board!Take(r, j)
  BY <1>2, <1>3, <1>4, <1>5 DEF Board!Take
<1>7. QED
  BY <1>1, <1>6 DEF Board!Next

LEMMA OutcomeSettles ==
  ASSUME IInv, NEW r \in Runners, NEW st \in {"success", "failure"},
         runner[r].pc \notin Idle \union {"commit"}, UNCHANGED deleted,
         job' = [job EXCEPT ![runner[r].job].status = st],
         runner' = [runner EXCEPT ![r] = RunnerRest("claim")]
  PROVE  Board!Next
<1> DEFINE j == runner[r].job
<1>1. /\ j \in JobIds
      /\ job[j].status = "running" \/ (job[j].status = "cancelled" /\ j \in Void)
  BY RowInHand
<1>2. Hand[r] = j /\ (Phase[j] = "running" \/ (Phase[j] = "cancelled" /\ j \in Void))
  BY <1>1 DEF Hand, Phase
<1>3. Phase' = [Phase EXCEPT ![j] = st]
  BY <1>1 DEF Phase, IInv, TypeOK, JobRow
<1>4. Hand' = [Hand EXCEPT ![r] = 0]
  BY DEF Hand, IInv, TypeOK, RunnerRest
<1>5. UNCHANGED Void
  BY <1>1, VoidStays DEF IInv, TypeOK, JobRow
<1>6. Board!Settle(r, j, st)
  BY <1>2, <1>3, <1>4, <1>5 DEF Board!Settle
<1>7. QED
  BY <1>1, <1>6 DEF Board!Next

LEMMA LettingGoDrops ==
  ASSUME IInv, NEW r \in Runners, UNCHANGED <<job, deleted>>, NEW pc \in Idle,
         runner' = [runner EXCEPT ![r] = RunnerRest(pc)]
  PROVE  Board!Next \/ UNCHANGED boardVars
<1>1. UNCHANGED <<Phase, Void>>
  BY VoidStays DEF Phase
<1>2. Hand' = [Hand EXCEPT ![r] = 0]
  BY DEF Hand, IInv, TypeOK, RunnerRest
<1>3. CASE Hand[r] = 0
  <2>1. Hand' = Hand
    BY <1>2, <1>3 DEF Hand
  <2>2. QED
    BY <1>1, <2>1 DEF boardVars
<1>4. CASE Hand[r] # 0
  <2>1. Board!Drop(r)
    BY <1>1, <1>2, <1>4 DEF Board!Drop
  <2>2. QED
    BY <2>1 DEF Board!Next
<1>5. QED
  BY <1>3, <1>4

\* Projects that go make jobs void; an erasure withdraws some of these.
LEMMA LossAnnuls ==
  ASSUME IInv, deleted \subseteq deleted', UNCHANGED runner,
         NEW withdrawn \in SUBSET JobIds, withdrawn \subseteq Void',
         \A j \in withdrawn : job[j].status = "running" \/ (job[j].status = "queued" /\ j \notin Locked),
         \A j \in JobIds : /\ job'[j].who = job[j].who
                         /\ job'[j].status = IF j \in withdrawn THEN "cancelled" ELSE job[j].status
  PROVE  Board!Next
<1> DEFINE js == Void' \ Void
<1>1. js \in SUBSET JobIds /\ Void \subseteq Void' /\ Void' = Void \union js
  <2>1. Void \subseteq JobIds /\ Void' \subseteq JobIds
    BY DEF Void, Involving
  <2>2. QED
    BY <2>1, VoidGrows
<1>2. \A j \in js : Phase[j] # "none"
  BY <1>1 DEF IInv, RowsFilled, Void, Involving, Phase
<1>3. ASSUME NEW j \in withdrawn
      PROVE  Phase[j] = "running" \/ (Phase[j] = "queued" /\ j \notin Board!InHand)
  <2>1. CASE job[j].status = "running"
    BY <2>1 DEF Phase
  <2>2. CASE job[j].status = "queued" /\ j \notin Locked
    <3>1. j \in Claimable(Locked)
      BY <2>2 DEF Claimable, WithStatus
    <3>2. QED
      BY <2>2, <3>1, PickedIsFree, InHandsAre DEF Phase
  <2>3. QED
    BY <2>1, <2>2
<1>4. Phase' = [j \in JobIds |-> IF j \in withdrawn THEN "cancelled" ELSE Phase[j]]
  BY DEF Phase
<1>5. UNCHANGED Hand
  BY DEF Hand
<1> HIDE DEF js
<1>6. Board!Annul(js, withdrawn)
  BY <1>1, <1>2, <1>3, <1>4, <1>5 DEF Board!Annul
<1>7. QED
  BY <1>1, <1>6 DEF Board!Next

LEMMA StepsAreBoardSteps ==
  ASSUME IInv, "rollback" \notin Events, [Next]_vars
  PROVE  [Board!Next]_boardVars
<1> DEFINE Goal == Board!Next \/ UNCHANGED boardVars
<1>0. ASSUME UNCHANGED <<job, runner, deleted>>
      PROVE  Goal
  BY <1>0, BoardStutters
<1>1. CASE User
  <2>1. ASSUME NEW j \in JobIds, CancelQueued(j)
        PROVE  Goal
    <3>1. Phase[j] = "queued" /\ j \notin Board!InHand
      BY <2>1, PickedIsFree, InHandsAre DEF CancelQueued, Cancel, Phase
    <3>2. Phase' = [Phase EXCEPT ![j] = "cancelled"] /\ UNCHANGED <<Hand, Void>>
      BY <2>1, VoidStays DEF CancelQueued, Cancel, Phase, Hand, IInv, TypeOK, JobRow, projectVars
    <3>3. Board!Withdraw(j)
      BY <3>1, <3>2 DEF Board!Withdraw
    <3>4. QED
      BY <3>3 DEF Board!Next
  <2>2. ASSUME NEW p \in Projects, Delete(p)
        PROVE  Goal
    <3>1. deleted \subseteq deleted' /\ UNCHANGED <<job, runner>>
      BY <2>2 DEF Delete
    <3>2. {} \in SUBSET JobIds /\ {} \subseteq Void'
            /\ (\A j \in {} : job[j].status = "running" \/ (job[j].status = "queued" /\ j \notin Locked))
      OBVIOUS
    <3>3. \A j \in JobIds : /\ job'[j].who = job[j].who
                         /\ job'[j].status = IF j \in {} THEN "cancelled" ELSE job[j].status
      BY <3>1
    <3>4. QED
      BY <3>1, <3>2, <3>3, LossAnnuls
  <2>3. ASSUME NEW ps \in SUBSET Projects, EraseUser(ps)
        PROVE  Goal
    <3>1. deleted \subseteq deleted' /\ UNCHANGED runner
      BY <2>3 DEF EraseUser
    <3>2. QED
      BY <2>3, <3>1, ErasedJobs, LossAnnuls
  <2>4. QED
    BY <1>0, <1>1, <2>1, <2>2, <2>3 DEF User, Submit, DisableMode, EnableMode, projectVars
<1>2. CASE SchedulerProcess
  <2>1. CASE SchedSolo
    BY <1>2, <2>1, EnqueuePosts DEF SchedSolo, SchedulerProcess, projectVars
  <2>2. CASE SchedMultiPick
    BY <1>2, <2>2, EnqueuePosts DEF SchedMultiPick, SchedulerProcess, projectVars
  <2>3. CASE ~SchedSolo /\ ~SchedMultiPick
    BY <1>0, <1>2, <2>3
       DEF SchedulerProcess, SchedWork, SchedClear, SchedCount, SchedWalk, SchedTickDone,
           SchedSoloDone, SchedMultiList, SchedNoGroup, SchedWake, SchedRestart, projectVars
  <2>4. QED
    BY <2>1, <2>2, <2>3
<1>3. ASSUME NEW r \in Runners, RunnerProcess(r)
      PROVE  Goal
  <2>0. UNCHANGED deleted
    BY <1>3 DEF RunnerProcess
  <2>1. CASE RunnerPicks(r, {}) \/ RunnerClaims(r)
    BY <2>0, <2>1, PickReaches, ClaimTakes
  <2>2. CASE RunnerRecord(r)
    BY <2>0, <2>2, OutcomeSettles DEF RunnerRecord, MarkSuccess, Idle
  <2>3. CASE RunnerFail(r)
    BY <2>0, <2>3, OutcomeSettles DEF RunnerFail, MarkFailure, Idle
  <2>4. CASE RunnerClear(r) \/ RunnerFindsNothing(r, {}) \/ RunnerWake(r) \/ RunnerRestart(r)
    BY <2>0, <2>4, LettingGoDrops
       DEF RunnerClear, RunnerFindsNothing, RunnerWake, RunnerRestart, Idle
  <2>5. ASSUME \/ RunnerDispatch(r) \/ MatchSucceeds(r) \/ RunnerRecordRefused(r)
               \/ \E s \in 1 .. MaxSeats : Quarantine(r, s)
        PROVE  Goal
    BY <2>0, <2>5, KeepsItsJob, HandKept
  <2>6. QED
    BY <1>3, <2>1, <2>2, <2>3, <2>4, <2>5 DEF RunnerProcess, RunnerWork
<1>4. ASSUME NEW r \in Runners, MatchGoesWrong(r)
      PROVE  Goal
  BY <1>4, KeepsItsJob, HandKept DEF MatchGoesWrong
<1>5. CASE \E d \in Daemons : ListenerReceives(d) \/ ListenerConnects(d) \/ ListenerDrops(d)
  BY <1>0, <1>5 DEF ListenerReceives, ListenerConnects, ListenerDrops, projectVars
<1>6. CASE Crash
  BY <1>0, <1>6, LettingGoDrops DEF Crash, SchedCrash, RunnerCrash, Idle, projectVars
<1>7. CASE Escape
  BY <1>0, <1>7, LettingGoDrops DEF Escape, SchedTickFails, RunnerIterationFails, Idle, projectVars
<1>8. CASE UNCHANGED vars
  BY <1>0, <1>8 DEF vars, projectVars
<1>9. QED
  BY <1>1, <1>2, <1>3, <1>4, <1>5, <1>6, <1>7, <1>8 DEF Next, PassOver

\* The table of ranked jobs with its runners implements the job board, unless
\* an erasure or a cancel is rolled back after runners passed over its rows: a
\* runner with empty hands reaches for the oldest job that no other reaches
\* for, nobody but the runner that took a job settles it, and only a job that
\* lost a player is withdrawn over its head.
THEOREM Refinement ==
  "rollback" \notin Events => (Spec => ImplementsJobBoard)
<1> SUFFICES ASSUME "rollback" \notin Events
             PROVE  Spec => ImplementsJobBoard
  OBVIOUS
<1>1. Init => Board!Init
  <2>1. ASSUME Init PROVE Board!Init
    <3>1. Void = {}
      BY <2>1 DEF Init, JobsInit, Void, Involving
    <3>2. QED
      BY <2>1, <3>1 DEF Init, Board!Init, JobsInit, RunnerInit, RunnerRest, Phase, Hand
  <2>2. QED
    BY <2>1
<1>2. IInv /\ [Next]_vars => [Board!Next]_<<Phase, Hand, Void>>
  BY StepsAreBoardSteps DEF boardVars
<1>3. QED
  BY <1>1, <1>2, Invariance, PTL DEF Spec, ImplementsJobBoard, Board!Spec

------------------------------------------------------------------------------
(* No lost wakeup for the runners.                                         *)

Asleep(r) == runner[r].pc = "sleep" /\ Quiet(r)

\* Nobody falls asleep and nothing is queued.
LEMMA NothingNewToMiss ==
  ASSUME QueuedWorkHasARunner,
         \A r \in Runners : Asleep(r)' => Asleep(r),
         WithStatus("queued")' \subseteq WithStatus("queued")
  PROVE  QueuedWorkHasARunner'
  BY DEF QueuedWorkHasARunner, Asleep

LEMMA NotifyKeepsAwake ==
  ASSUME IInv, NEW ds, NotifyAll(ds), UNCHANGED <<listening, wakeup>>
  PROVE  \A r \in Runners : Quiet(r)' => Quiet(r)
  BY DaemonsAssumption DEF NotifyAll, Quiet, IInv, TypeOK, NotifyTypeOK

\* A new job leaves every runner that listens with a notification under way.
LEMMA EnqueueWakesRunners ==
  ASSUME IInv, Runners # {}, NotifyAll(Runners), UNCHANGED <<listening, wakeup>>
  PROVE  QueuedWorkHasARunner'
<1>1. \A r \in Runners : ~Quiet(r)'
  BY DaemonsAssumption DEF NotifyAll, Quiet, IInv, TypeOK, NotifyTypeOK
<1>2. QED
  BY <1>1 DEF QueuedWorkHasARunner

\* No status but 'queued' adds to the queue.
LEMMA QueueShrinks ==
  ASSUME IInv, NEW j \in JobIds, NEW st, st # "queued",
         job' = [job EXCEPT ![j].status = st]
  PROVE  WithStatus("queued")' \subseteq WithStatus("queued")
  BY DEF WithStatus, IInv, TypeOK, JobRow

LEMMA SameQueue ==
  ASSUME UNCHANGED job
  PROVE  WithStatus("queued")' = WithStatus("queued")
  BY DEF WithStatus

\* A runner that goes anywhere but to sleep does not fall asleep.
LEMMA OthersStayAsleep ==
  ASSUME IInv, NEW r \in Runners, NEW new, new.pc # "sleep",
         runner' = [runner EXCEPT ![r] = new],
         \A q \in Runners \ {r} : Quiet(q)' => Quiet(q)
  PROVE  \A q \in Runners : Asleep(q)' => Asleep(q)
  BY DEF Asleep, IInv, TypeOK

LEMMA SameNotifications ==
  ASSUME UNCHANGED notifyVars
  PROVE  \A d : Quiet(d)' <=> Quiet(d)
  BY DEF notifyVars, Quiet

LEMMA RunnerStaysAwake ==
  ASSUME IInv, QueuedWorkHasARunner, NEW r \in Runners, RunnerProcess(r)
  PROVE  QueuedWorkHasARunner'
<1>1. CASE RunnerClear(r)
  <2>1. \A q \in Runners \ {r} : Quiet(q)' => Quiet(q)
    BY <1>1, DaemonsAssumption
       DEF RunnerClear, ClearWakeup, Quiet, IInv, TypeOK, NotifyTypeOK
  <2>2. RunnerRest("claim").pc # "sleep"
    BY DEF RunnerRest
  <2>3. QED
    BY <1>1, <2>1, <2>2, OthersStayAsleep, SameQueue, NothingNewToMiss DEF RunnerClear
<1>2. CASE RunnerPicks(r, {}) \/ RunnerClaims(r)
  <2>1. PICK pc, j :
          pc # "sleep" /\ runner' = [runner EXCEPT ![r].pc = pc, ![r].job = j]
    <3>1. CASE RunnerPicks(r, {})
      BY <3>1 DEF RunnerPicks
    <3>2. CASE RunnerClaims(r)
      <4>1. runner' = [runner EXCEPT ![r].pc = "dispatch", ![r].job = runner[r].job]
        BY <3>2 DEF RunnerClaims, IInv, TypeOK, RunnerState
      <4>2. QED
        BY <4>1
    <3>3. QED
      BY <1>2, <3>1, <3>2
  <2> DEFINE new == [runner[r] EXCEPT !.pc = pc, !.job = j]
  <2>2. runner' = [runner EXCEPT ![r] = new]
    BY <2>1
  <2>3. new.pc # "sleep"
    BY <2>1 DEF IInv, TypeOK, RunnerState
  <2> HIDE DEF new
  <2>4. \A q \in Runners : Quiet(q)' => Quiet(q)
    BY <1>2, NotifyKeepsAwake, SameNotifications DEF RunnerPicks, RunnerClaims
  <2>5. \A q \in Runners : Asleep(q)' => Asleep(q)
    BY <2>2, <2>3, <2>4, OthersStayAsleep
  <2>6. WithStatus("queued")' \subseteq WithStatus("queued")
    <3>1. CASE RunnerPicks(r, {})
      BY <3>1, SameQueue DEF RunnerPicks
    <3>2. CASE RunnerClaims(r)
      BY <3>2, RowInHand, QueueShrinks DEF RunnerClaims, Claim, Idle
    <3>3. QED
      BY <1>2, <3>1, <3>2
  <2>7. QED
    BY <2>5, <2>6, NothingNewToMiss
<1>3. CASE RunnerFindsNothing(r, {})
  <2>1. UNCHANGED job /\ Claimable(Locked) = {} /\ runner[r].pc = "claim"
          /\ \A q \in Runners \ {r} : runner'[q] = runner[q]
    BY <1>3 DEF RunnerFindsNothing, Claimable, IInv, TypeOK
  <2>2. ASSUME WithStatus("queued")' # {}
        PROVE  \E q \in Runners : ~(runner'[q].pc = "sleep")
    <3>1. Locked # {}
      BY <2>1, <2>2, SameQueue DEF Claimable
    <3>2. PICK q \in Runners : runner[q].pc = "commit"
      BY <3>1 DEF Locked
    <3>3. QED
      BY <2>1, <3>2
  <2>3. QED
    BY <2>2 DEF QueuedWorkHasARunner
<1>4. CASE RunnerRecord(r) \/ RunnerFail(r)
  <2>1. PICK st \in {"success", "failure"} :
          job' = [job EXCEPT ![runner[r].job].status = st]
    BY <1>4 DEF RunnerRecord, RunnerFail, MarkSuccess, MarkFailure
  <2>2. runner[r].job \in JobIds
    BY <1>4, RowInHand DEF RunnerRecord, RunnerFail, Idle
  <2>3. runner' = [runner EXCEPT ![r] = RunnerRest("claim")] /\ RunnerRest("claim").pc # "sleep"
    BY <1>4 DEF RunnerRecord, RunnerFail, RunnerRest
  <2>4. \A q \in Runners : Quiet(q)' => Quiet(q)
    BY <1>4, NotifyKeepsAwake, SameNotifications DEF RunnerRecord, RunnerFail
  <2>5. \A q \in Runners : Asleep(q)' => Asleep(q)
    BY <2>3, <2>4, OthersStayAsleep
  <2>6. QED
    BY <2>1, <2>2, <2>5, QueueShrinks, NothingNewToMiss
<1>5. CASE RunnerWake(r) \/ RunnerRestart(r)
  <2>1. runner' = [runner EXCEPT ![r] = RunnerRest("clear")] /\ RunnerRest("clear").pc # "sleep"
    BY <1>5 DEF RunnerWake, RunnerRestart, RunnerRest
  <2>2. UNCHANGED job /\ \A q \in Runners : Quiet(q)' => Quiet(q)
    BY <1>5, SameNotifications DEF RunnerWake, RunnerRestart
  <2>3. \A q \in Runners : Asleep(q)' => Asleep(q)
    BY <2>1, <2>2, OthersStayAsleep
  <2>4. QED
    BY <2>2, <2>3, SameQueue, NothingNewToMiss
<1>6. ASSUME \/ RunnerDispatch(r) \/ MatchSucceeds(r) \/ RunnerRecordRefused(r)
             \/ \E s \in 1 .. MaxSeats : Quarantine(r, s)
      PROVE  QueuedWorkHasARunner'
  <2>1. PICK new : runner' = [runner EXCEPT ![r] = new] /\ new.pc \notin Idle
    BY <1>6, KeepsItsJob
  <2>2. UNCHANGED job /\ \A q \in Runners : Quiet(q)' => Quiet(q)
    BY <1>6, SameNotifications DEF RunnerDispatch, MatchSucceeds, RunnerRecordRefused, Quarantine
  <2>3. \A q \in Runners : Asleep(q)' => Asleep(q)
    BY <2>1, <2>2, OthersStayAsleep DEF Idle
  <2>4. QED
    BY <2>2, <2>3, SameQueue, NothingNewToMiss
<1>7. QED
  BY <1>1, <1>2, <1>3, <1>4, <1>5, <1>6 DEF RunnerProcess, RunnerWork

LEMMA SchedulerKeepsRunnersAwake ==
  ASSUME IInv, Runners # {}, QueuedWorkHasARunner, SchedulerProcess
  PROVE  QueuedWorkHasARunner'
<1>1. CASE SchedSolo \/ SchedMultiPick
  BY <1>1, EnqueueWakesRunners DEF SchedSolo, SchedMultiPick
<1>2. CASE SchedClear
  <2>1. \A r \in Runners : Quiet(r)' => Quiet(r)
    BY <1>2, DaemonsAssumption
       DEF SchedClear, ClearWakeup, Quiet, IInv, TypeOK, NotifyTypeOK
  <2>2. UNCHANGED <<job, runner>>
    BY <1>2 DEF SchedClear, SchedulerProcess
  <2>3. QED
    BY <2>1, <2>2, SameQueue, NothingNewToMiss DEF Asleep
<1>3. CASE ~(SchedSolo \/ SchedMultiPick \/ SchedClear)
  <2>1. UNCHANGED <<job, runner, notifyVars>>
    BY <1>3 DEF SchedulerProcess, SchedWork, SchedCount, SchedWalk, SchedTickDone,
                SchedSoloDone, SchedMultiList, SchedNoGroup, SchedWake, SchedRestart
  <2>2. QED
    BY <2>1, SameQueue, SameNotifications, NothingNewToMiss DEF Asleep
<1>4. QED
  BY <1>1, <1>2, <1>3

LEMMA UserKeepsRunnersAwake ==
  ASSUME IInv, QueuedWorkHasARunner, User
  PROVE  QueuedWorkHasARunner'
<1>1. ASSUME NEW ps \in SUBSET Projects, EraseUser(ps)
      PROVE  QueuedWorkHasARunner'
  <2>1. UNCHANGED <<runner, listening, wakeup>> /\ (NotifyAll({Scheduler}) \/ UNCHANGED pending)
    BY <1>1 DEF EraseUser
  <2>2. \A r \in Runners : Quiet(r)' => Quiet(r)
    BY <2>1, NotifyKeepsAwake DEF Quiet
  <2>3. WithStatus("queued")' \subseteq WithStatus("queued")
    BY <1>1, ErasedJobs DEF WithStatus
  <2>4. QED
    BY <2>1, <2>2, <2>3, NothingNewToMiss DEF Asleep
<1>2. CASE ~\E ps \in SUBSET Projects : EraseUser(ps)
  <2>1. \A r \in Runners : Asleep(r)' => Asleep(r)
    BY <1>2, NotifyKeepsAwake, SameNotifications
       DEF User, Submit, Delete, CancelQueued, DisableMode, EnableMode, Asleep
  <2>2. CASE UNCHANGED job
    BY <2>1, <2>2, SameQueue, NothingNewToMiss
  <2>3. ASSUME NEW j \in JobIds, CancelQueued(j)
        PROVE  QueuedWorkHasARunner'
    <3>1. j \in JobIds /\ job' = [job EXCEPT ![j].status = "cancelled"]
      BY <2>3 DEF CancelQueued, Cancel
    <3>2. QED
      BY <2>1, <3>1, QueueShrinks, NothingNewToMiss
  <2>4. QED
    BY <1>2, <2>2, <2>3 DEF User, Submit, Delete, DisableMode, EnableMode
<1>3. QED
  BY <1>1, <1>2

\* A listener that receives or connects sets the event; one that drops no
\* longer listens.
LEMMA ListenersKeepRunnersAwake ==
  ASSUME IInv, QueuedWorkHasARunner, NEW d \in Daemons,
         ListenerReceives(d) \/ ListenerConnects(d) \/ ListenerDrops(d)
  PROVE  QueuedWorkHasARunner'
<1>1. UNCHANGED <<job, runner>>
  BY DEF ListenerReceives, ListenerConnects, ListenerDrops
<1>2. \A r \in Runners : Quiet(r)' => Quiet(r)
  BY DaemonsAssumption
     DEF ListenerReceives, ListenerConnects, ListenerDrops, Receive, Connect, Disconnect,
         Quiet, IInv, TypeOK, NotifyTypeOK
<1>3. QED
  BY <1>1, <1>2, SameQueue, NothingNewToMiss DEF Asleep

LEMMA CrashKeepsRunnersAwake ==
  ASSUME IInv, QueuedWorkHasARunner, Crash
  PROVE  QueuedWorkHasARunner'
<1>1. \A d \in Daemons : Vanish(d) => \A r \in Runners : Quiet(r)' => Quiet(r)
  BY DaemonsAssumption DEF Vanish, Quiet, IInv, TypeOK, NotifyTypeOK
<1>2. UNCHANGED job
  BY DEF Crash, SchedCrash, RunnerCrash
<1>3. CASE SchedCrash /\ UNCHANGED runner
  BY <1>1, <1>2, <1>3, DaemonsAssumption, SameQueue, NothingNewToMiss DEF SchedCrash, Asleep
<1>4. ASSUME NEW r \in Runners, RunnerCrash(r)
      PROVE  QueuedWorkHasARunner'
  <2>1. runner' = [runner EXCEPT ![r] = RunnerRest("down")] /\ RunnerRest("down").pc # "sleep"
    BY <1>4 DEF RunnerCrash, RunnerRest
  <2>2. \A q \in Runners : Asleep(q)' => Asleep(q)
    BY <1>1, <1>4, <2>1, DaemonsAssumption, OthersStayAsleep DEF RunnerCrash
  <2>3. QED
    BY <1>2, <2>2, SameQueue, NothingNewToMiss
<1>5. QED
  BY <1>3, <1>4 DEF Crash

LEMMA StepsKeepRunnersAwake ==
  ASSUME IInv, QueuedWorkHasARunner, Runners # {}, {"escape", "rollback"} \cap Events = {},
         [Next]_vars
  PROVE  QueuedWorkHasARunner'
<1>1. ASSUME NEW r \in Runners, MatchGoesWrong(r)
      PROVE  QueuedWorkHasARunner'
  <2>1. PICK new : runner' = [runner EXCEPT ![r] = new] /\ new.pc \notin Idle
    BY <1>1, KeepsItsJob
  <2>2. UNCHANGED job /\ \A q \in Runners : Quiet(q)' => Quiet(q)
    BY <1>1, SameNotifications DEF MatchGoesWrong, MatchFails, SeatsDropOut
  <2>3. \A q \in Runners : Asleep(q)' => Asleep(q)
    BY <2>1, <2>2, OthersStayAsleep DEF Idle
  <2>4. QED
    BY <2>2, <2>3, SameQueue, NothingNewToMiss
<1>2. CASE UNCHANGED vars
  BY <1>2, SameQueue, SameNotifications, NothingNewToMiss DEF vars, Asleep
<1>3. QED
  BY <1>1, <1>2, UserKeepsRunnersAwake, SchedulerKeepsRunnersAwake, RunnerStaysAwake,
     ListenersKeepRunnersAwake, CrashKeepsRunnersAwake
     DEF Next, Escape, PassOver

\* As long as no exception leaves an iteration early and no erasure or cancel
\* is rolled back, a queued job never finds all the runners asleep with no
\* notification on its way: a listener that connects late, a notification sent
\* while the runner works, and a restart all end in a set event, and one that
\* passed over a locked row leaves the runner that has it, or a dead one that
\* will start anew.
THEOREM NoLostWakeup ==
  Runners # {} /\ {"escape", "rollback"} \cap Events = {} => (Spec => []QueuedWorkHasARunner)
<1> SUFFICES ASSUME Runners # {}, {"escape", "rollback"} \cap Events = {}
             PROVE  Spec => []QueuedWorkHasARunner
  OBVIOUS
<1>1. Init => QueuedWorkHasARunner
  <2>1. Init => WithStatus("queued") = {}
    BY DEF Init, JobsInit, WithStatus
  <2>2. QED
    BY <2>1 DEF QueuedWorkHasARunner
<1>2. IInv /\ QueuedWorkHasARunner /\ [Next]_vars => QueuedWorkHasARunner'
  BY StepsKeepRunnersAwake
<1>3. QED
  BY <1>1, <1>2, Invariance, PTL DEF Spec

------------------------------------------------------------------------------
(* The queue stays within its cap.                                         *)

Walking == {"walk", "solo", "multi", "pick"}
Filling == {"solo", "multi", "pick"}

\* Nobody but the scheduler inserts, so what it counted at the start of the
\* tick bounds the queue of every mode it has still to walk, and the room it
\* keeps for the mode at hand is really there.
CapInv ==
  /\ QueueWithinCap
  /\ sched.pc \in Walking =>
       \A m \in sched.todo : Cardinality(Queued(m)) <= sched.snap[m]
  /\ sched.pc \in Filling =>
       \A m \in Modes : m = sched.mode =>
         m \notin sched.todo /\ Cardinality(Queued(m)) + sched.room <= QueueCap
  /\ sched.pc = "pick" => sched.room > 0

LEMMA QueueLength ==
  \A m : Cardinality(Queued(m)) \in Nat /\ Cardinality(Queued(m))' \in Nat
<1>1. ASSUME NEW m
      PROVE  Cardinality(Queued(m))' \in Nat
  <2>1. Queued(m)' \subseteq JobIds
    BY DEF Queued, WithStatus
  <2>2. QED
    BY <2>1, JobIdsFinite, FS_Subset, FS_CardinalityType
<1>2. QED
  BY <1>1, QueuedIsFinite

LEMMA ShorterQueue ==
  ASSUME NEW m, Queued(m)' \subseteq Queued(m)
  PROVE  Cardinality(Queued(m))' <= Cardinality(Queued(m))
  BY QueuedIsFinite, FS_Subset

LEMMA QueuesAfterStatusChange ==
  ASSUME IInv, NEW j \in JobIds, NEW st, st # "queued",
         job' = [job EXCEPT ![j].status = st]
  PROVE  \A m : Cardinality(Queued(m))' <= Cardinality(Queued(m))
<1>1. \A m : Queued(m)' \subseteq Queued(m)
  BY DEF Queued, WithStatus, IInv, TypeOK, JobRow
<1>2. QED
  BY <1>1, ShorterQueue

LEMMA SameQueues ==
  ASSUME UNCHANGED job
  PROVE  \A m : Cardinality(Queued(m))' = Cardinality(Queued(m))
  BY DEF Queued, WithStatus

LEMMA QueuesAfterEnqueue ==
  ASSUME IInv, NEW m \in Modes, NEW who, Enqueue(m, who)
  PROVE  /\ Cardinality(Queued(m))' = Cardinality(Queued(m)) + 1
         /\ \A k \in Modes \ {m} : Cardinality(Queued(k))' = Cardinality(Queued(k))
<1>1. PICK j \in JobIds :
        /\ job[j].status = "none"
        /\ job' = [job EXCEPT ![j] = [status |-> "queued", mode |-> m, who |-> who]]
  BY DEF Enqueue, NextId
<1>2. j \notin Queued(m) /\ Queued(m)' = Queued(m) \union {j}
  BY <1>1 DEF Queued, WithStatus, IInv, TypeOK, JobRow
<1>3. \A k \in Modes \ {m} : Queued(k)' = Queued(k)
  BY <1>1 DEF Queued, WithStatus, IInv, TypeOK, JobRow
<1>4. Cardinality(Queued(m))' = Cardinality(Queued(m)) + 1
  BY <1>2, QueuedIsFinite, FS_AddElement
<1>5. QED
  BY <1>3, <1>4

\* Whatever does not insert and leaves the scheduler where it is.
LEMMA CapKeptByOthers ==
  ASSUME IInv, CapInv, UNCHANGED sched,
         \A m \in Modes : Cardinality(Queued(m))' <= Cardinality(Queued(m))
  PROVE  CapInv'
<1>1. sched \in SchedState /\ QueueCap \in Nat
  BY QueueCapAssumption DEF IInv, TypeOK
<1>2. sched.todo \subseteq Modes /\ sched.snap \in [Modes -> Nat] /\ sched.room \in Int
  BY <1>1 DEF SchedState
<1>3. QueueWithinCap'
  BY <1>1, QueueLength DEF QueueWithinCap, CapInv
<1>4. sched.pc \in Walking =>
        \A m \in sched.todo : Cardinality(Queued(m))' <= sched.snap[m]
  BY <1>2, QueueLength DEF CapInv
<1>5. sched.pc \in Filling =>
        \A m \in Modes : m = sched.mode =>
          m \notin sched.todo /\ Cardinality(Queued(m))' + sched.room <= QueueCap
  BY <1>1, <1>2, QueueLength DEF CapInv
<1>6. QED
  BY <1>3, <1>4, <1>5 DEF CapInv

\* Steps of the scheduler that leave the queues alone.
LEMMA SchedulerKeepsCapInv ==
  ASSUME IInv, CapInv, SchedulerProcess
  PROVE  CapInv'
<1>0. /\ sched \in SchedState /\ QueueCap \in Nat
      /\ sched.todo \subseteq Modes /\ sched.snap \in [Modes -> Nat] /\ sched.room \in Int
  BY QueueCapAssumption DEF IInv, TypeOK, SchedState
<1>1. ASSUME NEW pc \in {"clear", "count", "sleep"}, sched' = SchedRest(pc), UNCHANGED job
      PROVE  CapInv'
  BY <1>1, SameQueues DEF CapInv, QueueWithinCap, SchedRest, Walking, Filling
<1>2. ASSUME sched' = NextMode(sched), sched.pc \in Walking, UNCHANGED job
      PROVE  CapInv'
  <2>1. sched'.pc = "walk" /\ sched'.todo = sched.todo /\ sched'.snap = sched.snap
    BY <1>2 DEF NextMode
  <2>2. QED
    BY <1>2, <2>1, SameQueues DEF CapInv, QueueWithinCap, Walking, Filling
<1>3. CASE SchedCount
  <2> DEFINE count == [m \in Modes |-> Cardinality(Queued(m))]
  <2>1. sched'.pc = "walk" /\ sched'.todo \subseteq Modes /\ sched'.snap = count
    BY <1>0, <1>3 DEF SchedCount, SchedState, IInv, TypeOK
  <2>2. \A m \in Modes : Cardinality(Queued(m))' = count[m]
    BY <1>3, SameQueues DEF SchedCount
  <2> HIDE DEF count
  <2>3. \A m \in sched'.todo : Cardinality(Queued(m))' <= sched'.snap[m]
    <3>1. \A m \in Modes : Cardinality(Queued(m))' \in Nat
      BY QueueLength
    <3>2. QED
      BY <2>1, <2>2, <3>1
  <2>4. QueueWithinCap'
    BY <1>3, SameQueues DEF SchedCount, QueueWithinCap, CapInv
  <2>5. QED
    BY <2>1, <2>3, <2>4 DEF CapInv, Walking, Filling
<1>4. ASSUME NEW m \in Modes, SchedWalk(m)
      PROVE  CapInv'
  <2>1. /\ m \in sched.todo /\ sched.pc = "walk"
        /\ sched'.todo = sched.todo \ {m} /\ sched'.snap = sched.snap
        /\ \/ sched'.pc = "walk"
           \/ /\ sched'.pc \in {"solo", "multi"}
              /\ sched'.mode = m /\ sched'.room = QueueCap - sched.snap[m]
    <3>1. CASE Capacity(m) <= 0
      BY <1>0, <1>4, <3>1 DEF SchedWalk, SchedState
    <3>2. CASE ~(Capacity(m) <= 0)
      BY <1>0, <1>4, <3>2 DEF SchedWalk, SchedState, Capacity
    <3>3. QED
      BY <3>1, <3>2
  <2>2. \A k \in Modes : Cardinality(Queued(k))' = Cardinality(Queued(k))
    BY <1>4, SameQueues DEF SchedWalk
  <2>3. QueueWithinCap'
    BY <2>2 DEF QueueWithinCap, CapInv
  <2>4. \A k \in sched'.todo : Cardinality(Queued(k))' <= sched'.snap[k]
    BY <1>0, <2>1, <2>2 DEF CapInv, Walking
  <2>5. \A k \in Modes : sched'.pc \in Filling /\ k = sched'.mode =>
          k \notin sched'.todo /\ Cardinality(Queued(k))' + sched'.room <= QueueCap
    BY <1>0, <2>1, <2>2, QueueLength DEF CapInv, Walking, Filling
  <2>6. QED
    BY <2>1, <2>3, <2>4, <2>5 DEF CapInv
<1>5. CASE SchedMultiList
  <2>1. CASE sched.room <= 0 \/ Underplayed(sched.mode) = {}
    BY <1>2, <1>5, <2>1 DEF SchedMultiList, Walking
  <2>2. CASE ~(sched.room <= 0 \/ Underplayed(sched.mode) = {})
    <3>1. /\ sched.pc = "multi" /\ sched.room > 0 /\ UNCHANGED job
          /\ sched'.pc = "pick" /\ sched'.todo = sched.todo /\ sched'.snap = sched.snap
          /\ sched'.mode = sched.mode /\ sched'.room = sched.room
      <4> DEFINE plan == {CurrentRef(p) : p \in Underplayed(sched.mode)}
      <4> DEFINE tally == [p \in Projects |-> Weight(sched.mode, p)]
      <4>1. sched' = [sched EXCEPT !.pc = "pick", !.plan = plan, !.tally = tally]
        BY <1>5, <2>2 DEF SchedMultiList
      <4>2. sched.pc = "multi" /\ sched.room > 0 /\ UNCHANGED job
        BY <1>0, <1>5, <2>2 DEF SchedMultiList
      <4> HIDE DEF plan, tally
      <4>3. QED
        BY <1>0, <4>1, <4>2 DEF SchedState
    <3>2. QED
      BY <3>1, SameQueues DEF CapInv, QueueWithinCap, Walking, Filling
  <2>3. QED
    BY <2>1, <2>2
<1>6. CASE SchedSolo \/ SchedMultiPick
  <2>1. /\ sched.pc \in {"solo", "pick"} /\ sched.room > 0
        /\ \E who : Enqueue(sched.mode, who)
    BY <1>6 DEF SchedSolo, SchedMultiPick, CapInv
  <2>2. /\ sched'.pc \in {"solo", "multi"}
        /\ sched'.todo = sched.todo /\ sched'.snap = sched.snap
        /\ sched'.mode = sched.mode /\ sched'.room = sched.room - 1
    BY <1>0, <1>6 DEF SchedSolo, SchedMultiPick, SchedState
  <2>3. PICK m \in Modes : m = sched.mode
    BY <2>1 DEF IInv, ModeChosen
  <2>4. /\ Cardinality(Queued(m))' = Cardinality(Queued(m)) + 1
        /\ \A k \in Modes \ {m} : Cardinality(Queued(k))' = Cardinality(Queued(k))
    BY <2>1, <2>3, QueuesAfterEnqueue
  <2>5. m \notin sched.todo /\ Cardinality(Queued(m)) + sched.room <= QueueCap
    BY <2>1, <2>3 DEF CapInv, Filling
  <2>6. Cardinality(Queued(m))' + sched'.room <= QueueCap
    BY <1>0, <2>2, <2>4, <2>5, QueueLength
  <2>7. QueueWithinCap'
    BY <1>0, <2>1, <2>4, <2>5, QueueLength DEF QueueWithinCap, CapInv
  <2>8. \A k \in sched'.todo : Cardinality(Queued(k))' <= sched'.snap[k]
    BY <1>0, <2>1, <2>2, <2>4, <2>5 DEF CapInv, Walking
  <2>9. QED
    BY <2>2, <2>3, <2>5, <2>6, <2>7, <2>8 DEF CapInv, Walking, Filling
<1>7. QED
  BY <1>1, <1>2, <1>3, <1>4, <1>5, <1>6
     DEF SchedulerProcess, SchedWork, SchedClear, SchedTickDone, SchedSoloDone,
         SchedNoGroup, SchedWake, SchedRestart, Walking

LEMMA StepsKeepCapInv ==
  ASSUME IInv, CapInv, [Next]_vars
  PROVE  CapInv'
<1>1. ASSUME UNCHANGED <<job, sched>>
      PROVE  CapInv'
  <2>1. \A m \in Modes : Cardinality(Queued(m))' <= Cardinality(Queued(m))
    BY <1>1, SameQueues, QueueLength
  <2>2. QED
    BY <1>1, <2>1, CapKeptByOthers
<1>2. ASSUME NEW j \in JobIds, NEW st, st # "queued",
             job' = [job EXCEPT ![j].status = st], UNCHANGED sched
      PROVE  CapInv'
  BY <1>2, QueuesAfterStatusChange, CapKeptByOthers
<1>3. ASSUME NEW pc \in {"sleep", "down"}, sched' = SchedRest(pc), UNCHANGED job
      PROVE  CapInv'
  BY <1>3, SameQueues DEF CapInv, QueueWithinCap, SchedRest, Walking, Filling
<1>4. CASE User
  <2>1. ASSUME NEW ps \in SUBSET Projects, EraseUser(ps)
        PROVE  CapInv'
    <3>1. \A m : Queued(m)' \subseteq Queued(m)
      BY <2>1, ErasedJobs DEF Queued, WithStatus
    <3>2. UNCHANGED sched
      BY <2>1 DEF EraseUser
    <3>3. QED
      BY <3>1, <3>2, ShorterQueue, CapKeptByOthers
  <2>2. CASE ~\E ps \in SUBSET Projects : EraseUser(ps)
    BY <1>1, <1>2, <1>4, <2>2
       DEF User, Submit, Delete, CancelQueued, Cancel, DisableMode, EnableMode
  <2>3. QED
    BY <2>1, <2>2
<1>5. ASSUME NEW r \in Runners, RunnerProcess(r)
      PROVE  CapInv'
  <2>1. UNCHANGED sched
    BY <1>5 DEF RunnerProcess
  <2>2. CASE RunnerClaims(r)
    BY <1>2, <2>1, <2>2, RowInHand DEF RunnerClaims, Claim, Idle
  <2>3. CASE RunnerRecord(r) \/ RunnerFail(r)
    <3>1. runner[r].job \in JobIds
      BY <2>3, RowInHand DEF RunnerRecord, RunnerFail, Idle
    <3>2. QED
      BY <1>2, <2>1, <2>3, <3>1 DEF RunnerRecord, RunnerFail, MarkSuccess, MarkFailure
  <2>4. CASE ~(RunnerClaims(r) \/ RunnerRecord(r) \/ RunnerFail(r))
    BY <1>1, <1>5, <2>1, <2>4
       DEF RunnerProcess, RunnerWork, RunnerClear, RunnerPicks, RunnerFindsNothing, RunnerDispatch,
           MatchSucceeds, Quarantine, RunnerRecordRefused, RunnerWake, RunnerRestart
  <2>5. QED
    BY <2>2, <2>3, <2>4
<1>6. ASSUME NEW r \in Runners, MatchGoesWrong(r)
      PROVE  CapInv'
  BY <1>1, <1>6 DEF MatchGoesWrong, MatchFails, SeatsDropOut
<1>7. ASSUME NEW d \in Daemons, ListenerReceives(d) \/ ListenerConnects(d) \/ ListenerDrops(d)
      PROVE  CapInv'
  BY <1>1, <1>7 DEF ListenerReceives, ListenerConnects, ListenerDrops
<1>8. CASE Crash
  BY <1>1, <1>3, <1>8 DEF Crash, SchedCrash, RunnerCrash
<1>9. CASE Escape \/ PassOver
  BY <1>1, <1>3, <1>9
     DEF Escape, SchedTickFails, RunnerIterationFails, PassOver, RunnerPicks, RunnerFindsNothing
<1>10. CASE UNCHANGED vars
  BY <1>1, <1>10 DEF vars
<1>11. QED
  BY <1>4, <1>5, <1>6, <1>7, <1>8, <1>9, <1>10, SchedulerKeepsCapInv DEF Next

\* The tick counts each queue once and fills it up later, query by query, while
\* runners claim, operators cancel and ticks break off: no mode ever has more
\* than per_mode_queue_cap jobs queued.
THEOREM CapIsKept == Spec => []QueueWithinCap
<1>1. Init => CapInv
  <2>1. SUFFICES ASSUME Init PROVE CapInv
    OBVIOUS
  <2>2. \A m \in Modes : Queued(m) = {}
    BY <2>1 DEF Init, JobsInit, Queued, WithStatus
  <2>3. QueueWithinCap
    BY <2>2, FS_EmptySet, QueueCapAssumption DEF QueueWithinCap
  <2>4. sched.pc = "clear"
    BY <2>1 DEF Init, SchedInit, SchedRest
  <2>5. QED
    BY <2>3, <2>4 DEF CapInv, Walking, Filling
<1>2. IInv /\ CapInv /\ [Next]_vars => CapInv'
  BY StepsKeepCapInv
<1>3. CapInv => QueueWithinCap
  BY DEF CapInv
<1>4. QED
  BY <1>1, <1>2, <1>3, Invariance, PTL DEF Spec
=============================================================================
