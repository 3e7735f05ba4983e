----------------------------- MODULE TestJobProofs ----------------------------
(***************************************************************************)
(* What holds of test jobs, their bundles and their live streams, for      *)
(* every number of test runners and tests: who holds a job, who may still  *)
(* record its outcome, what is in storage, and what a viewer will hear.    *)
(***************************************************************************)
EXTENDS DevProofs, FiniteSetTheorems, WellFoundedInduction

Settled == Terminal \union {"gone"}

\* Only a job that was reset as stale can have an outcome that its runner does
\* not know of.
Held ==
  \A w \in Workers :
    worker[w].job # 0 =>
      /\ test[worker[w].job].status \notin {"none", "queued"}
      /\ Inside(w) => test[worker[w].job].status \in {"running", "gone"}
                      \/ worker[w].job \in past.reset
      /\ ~Inside(w) => test[worker[w].job].status \in Settled

\* No two runners have the same job.
Single ==
  \A v, w \in Workers : v # w /\ worker[v].job # 0 => worker[v].job # worker[w].job

\* A running job has its runner, or has lost it.
Tracked ==
  \A j \in TestIds :
    test[j].status = "running" => (\E w \in Workers : worker[w].job = j) \/ j \in past.lost

\* A bundle is in storage, or a delete of the project took it.
Stored == bundles \union past.removed

\* A key is written after its bundle, with the outcome.
KeysAreSettled == \A j \in TestIds : test[j].key => test[j].status \in Terminal /\ j \in Stored

\* What a runner has stored is there until the project is deleted.
StoredFirst ==
  \A w \in Workers :
    worker[w].key =>
      worker[w].job # 0 /\ (worker[w].job \in Stored \/ test[worker[w].job].status = "gone")

\* A bundle is deleted after its row.
PurgedLast == \A w \in Workers : \A j \in worker[w].purge : test[j].status = "gone"

\* What the viewer was told or still has to hear.
Watching ==
  /\ viewer.pc # "off" => viewer.job # 0
  /\ viewer.inbox # "none" => viewer.pc # "off"
  /\ SuccessIsRecordedFirst
  /\ viewer.pc \in {"told", "live"} /\ test[viewer.job].status \in {"success", "failure"} =>
       \/ viewer.inbox # "none"
       \/ \E w \in Workers : worker[w].job = viewer.job
       \/ viewer.job \in past.lost \union past.silent

JInv ==
  /\ TInv
  /\ Held /\ Single /\ Tracked
  /\ KeysAreSettled /\ StoredFirst /\ PurgedLast
  /\ Watching

------------------------------------------------------------------------------
(* A runner records an outcome.                                            *)

LEMMA PrunedRow ==
  ASSUME NEW rows \in [TestIds -> TestRow], NEW i \in TestIds
  PROVE  /\ \/ Pruned(rows)[i] = rows[i]
            \/ /\ rows[i].status \in Terminal
               /\ Pruned(rows)[i].status = "gone" /\ ~Pruned(rows)[i].key
         /\ i \in Prunable(rows) => Pruned(rows)[i].status = "gone"
BY DEF Pruned, Prunable, Unused

LEMMA HeldJob ==
  ASSUME TInv, NEW w \in Workers, Inside(w) \/ Working(w)
  PROVE  worker[w].job \in TestIds
BY DEF TInv, TypeOK, Busy, Inside, Working, WorkerState

\* What the transaction of an outcome does, to the row of its job and to
\* those that it prunes.
LEMMA Recording ==
  ASSUME JInv, NEW w \in Workers, Finishes(w) \/ RecordsFailure(w)
  PROVE  LET j == worker[w].job
         IN /\ j \in TestIds /\ Inside(w)
            /\ \A v \in Workers \ {w} : worker'[v] = worker[v]
            /\ worker'[w].job = j /\ worker'[w].pc = "purge" /\ ~worker'[w].key
            /\ \A i \in worker'[w].purge : test'[i].status = "gone"
            /\ \A i \in TestIds \ {j} :
                 \/ test'[i] = test[i]
                 \/ test[i].status \in Terminal /\ test'[i].status = "gone" /\ ~test'[i].key
            /\ test'[j].status \in Settled \ {"cancelled"}
            /\ test[j].status = "gone" => test'[j].status = "gone"
            /\ test'[j].key => test'[j].status \in Terminal /\ j \in Stored
            /\ UNCHANGED <<bundles, viewer, past>>
<1> DEFINE s == worker[w]
           j == s.job
<1>1. /\ s \in WorkerState /\ worker \in [Workers -> WorkerState]
      /\ test \in [TestIds -> TestRow]
  BY DEF JInv, TInv, TypeOK
<1>2. /\ Inside(w) /\ j \in TestIds /\ j # 0
      /\ test[j].status \notin {"none", "queued"}
  <2>1. Inside(w)
    BY DEF Finishes, RecordsFailure, At, Inside
  <2>2. j \in TestIds
    BY <2>1, HeldJob DEF JInv
  <2>3. j # 0
    BY <2>2 DEF TestIds
  <2>4. QED
    BY <2>1, <2>2, <2>3 DEF JInv, Held
<1>3. PICK rows \in [TestIds -> TestRow] :
        /\ test' = Pruned(rows)
        /\ worker'[w].purge = {i \in Prunable(rows) : rows[i].key}
        /\ worker'[w].job = j /\ worker'[w].pc = "purge" /\ ~worker'[w].key
        /\ \A v \in Workers \ {w} : worker'[v] = worker[v]
        /\ \A i \in TestIds \ {j} : rows[i] = test[i]
        /\ test[j].status = "gone" => rows[j] = test[j]
        /\ test[j].status # "gone" => /\ rows[j].status \in {"success", "failure"}
                                      /\ rows[j].key => s.key \/ test[j].key
  <2>1. CASE Finishes(w)
    <3> DEFINE rows == Succeeded(j, s.key)
    <3>1. s.key \in BOOLEAN
      BY <1>1 DEF WorkerState
    <3>2. rows \in [TestIds -> TestRow]
      BY <1>1, <1>2, <3>1, TestsTyped
    <3>3. /\ \A i \in TestIds \ {j} : rows[i] = test[i]
          /\ test[j].status = "gone" => rows[j] = test[j]
      BY <1>1 DEF Succeeded, Exists
    <3>4. test[j].status # "gone" => rows[j].status = "success" /\ rows[j].key = s.key
      BY <1>1, <1>2 DEF Succeeded, Exists, TestRow
    <3>5. /\ test' = Pruned(rows)
          /\ worker' = [worker EXCEPT ![w].pc = "purge", ![w].key = FALSE,
                          ![w].purge = {i \in Prunable(rows) : rows[i].key}]
      BY <2>1 DEF Finishes
    <3> HIDE DEF rows
    <3>6. /\ worker'[w].purge = {i \in Prunable(rows) : rows[i].key}
          /\ worker'[w].job = j /\ worker'[w].pc = "purge" /\ ~worker'[w].key
          /\ \A v \in Workers \ {w} : worker'[v] = worker[v]
      BY <1>1, <3>5 DEF WorkerState
    <3>7. QED
      BY <3>2, <3>3, <3>4, <3>5, <3>6
  <2>2. CASE RecordsFailure(w)
    <3> DEFINE rows == Failed(j)
    <3>1. rows \in [TestIds -> TestRow]
      BY <1>1, <1>2, TestsTyped
    <3>2. /\ \A i \in TestIds \ {j} : rows[i] = test[i]
          /\ test[j].status = "gone" => rows[j] = test[j]
      BY <1>1 DEF Failed, Exists
    <3>3. test[j].status # "gone" => rows[j].status = "failure" /\ rows[j].key = test[j].key
      BY <1>1, <1>2 DEF Failed, Exists, TestRow
    <3>4. /\ test' = Pruned(rows)
          /\ worker' = [worker EXCEPT ![w] = [WorkerRest("purge") EXCEPT !.job = j,
                          !.purge = {i \in Prunable(rows) : rows[i].key}]]
      BY <2>2 DEF RecordsFailure
    <3> HIDE DEF rows
    <3>5. /\ worker'[w].purge = {i \in Prunable(rows) : rows[i].key}
          /\ worker'[w].job = j /\ worker'[w].pc = "purge" /\ ~worker'[w].key
          /\ \A v \in Workers \ {w} : worker'[v] = worker[v]
      BY <1>1, <3>4 DEF WorkerRest
    <3>6. QED
      BY <3>1, <3>2, <3>3, <3>4, <3>5
  <2>3. QED
    BY <2>1, <2>2
<1>4. \A i \in worker'[w].purge : test'[i].status = "gone"
  BY <1>3, PrunedRow DEF Prunable
<1>5. \A i \in TestIds \ {j} :
        \/ test'[i] = test[i]
        \/ test[i].status \in Terminal /\ test'[i].status = "gone" /\ ~test'[i].key
  BY <1>3, PrunedRow
<1>6. \/ test'[j] = rows[j]
      \/ test'[j].status = "gone" /\ ~test'[j].key
  BY <1>2, <1>3, PrunedRow
<1>7. test'[j].status \in Settled \ {"cancelled"} /\ (test[j].status = "gone" => test'[j].status = "gone")
  BY <1>3, <1>6 DEF Settled, Terminal
<1>8. test'[j].key => test'[j].status \in Terminal /\ j \in Stored
  <2>1. CASE test[j].status = "gone"
    BY <1>2, <1>3, <1>6, <2>1 DEF JInv, KeysAreSettled, Terminal
  <2>2. CASE test[j].status # "gone"
    BY <1>2, <1>3, <1>6, <2>2 DEF JInv, KeysAreSettled, StoredFirst, Terminal
  <2>3. QED
    BY <2>1, <2>2
<1>9. UNCHANGED <<bundles, viewer, past>>
  BY DEF Finishes, RecordsFailure
<1>10. QED
  BY <1>2, <1>3, <1>4, <1>5, <1>7, <1>8, <1>9

------------------------------------------------------------------------------
(* The invariant is kept, by one class of steps after the other.           *)

Same(v) ==
  /\ worker'[v].job = worker[v].job /\ worker'[v].key = worker[v].key
  /\ worker'[v].purge = worker[v].purge
  /\ Inside(v)' = Inside(v)

LEMMA JobTyped ==
  ASSUME TInv, NEW w \in Workers, worker[w].job # 0
  PROVE  worker[w].job \in TestIds
BY DEF TInv, TypeOK, WorkerState

LEMMA JobWatched ==
  ASSUME TInv, Watching, viewer.pc # "off"
  PROVE  viewer.job \in TestIds
BY DEF TInv, TypeOK, ViewerState, Watching

LEMMA InboxWatched ==
  ASSUME TInv, Watching, viewer.inbox # "none"
  PROVE  viewer.pc # "off" /\ viewer.job \in TestIds
BY JobWatched DEF Watching

\* Most of a runner's steps, and of the owner's requests.
LEMMA Undisturbed ==
  ASSUME JInv, TInv', \A v \in Workers : Same(v),
         UNCHANGED <<test, viewer, past.lost, past.silent, past.reset>>,
         Stored \subseteq Stored'
  PROVE  JInv'
<1>1. Held'
  BY DEF JInv, Held, Same
<1>2. Single' /\ Tracked'
  BY DEF JInv, Single, Tracked, Same
<1>3. KeysAreSettled' /\ StoredFirst' /\ PurgedLast'
  BY DEF JInv, KeysAreSettled, StoredFirst, PurgedLast, Same, Stored
<1>4. Watching'
  BY DEF JInv, Watching, SuccessIsRecordedFirst, Same
<1>5. QED
  BY <1>1, <1>2, <1>3, <1>4 DEF JInv

\* Rows that nobody runs change, or rows are deleted.
LEMMA RowsChange ==
  ASSUME JInv, TInv', UNCHANGED <<worker, viewer, past>>,
         \A i \in TestIds :
           \/ test'[i].status = test[i].status /\ test'[i].key = test[i].key
           \/ test[i].status = "none" /\ test'[i].status = "queued" /\ test'[i].key = test[i].key
           \/ test[i].status = "queued" /\ test'[i].status = "cancelled" /\ test'[i].key = test[i].key
           \/ test'[i].status = "gone" /\ ~test'[i].key,
         \A i \in bundles : i \in bundles' \/ test'[i].status = "gone"
  PROVE  JInv'
<1>1. Held'
  <2>1. SUFFICES ASSUME NEW w \in Workers, worker[w].job # 0
                 PROVE  /\ test'[worker[w].job].status \notin {"none", "queued"}
                        /\ Inside(w) => test'[worker[w].job].status \in {"running", "gone"}
                                        \/ worker[w].job \in past.reset
                        /\ ~Inside(w) => test'[worker[w].job].status \in Settled
    BY DEF Held, Inside
  <2>2. worker[w].job \in TestIds
    BY <2>1, JobTyped DEF JInv
  <2>3. test[worker[w].job].status \notin {"none", "queued"}
    BY <2>1 DEF JInv, Held
  <2>4. test'[worker[w].job].status \in {test[worker[w].job].status, "gone"}
    BY <2>2, <2>3
  <2>5. QED
    BY <2>1, <2>4 DEF JInv, Held, Settled
<1>2. Single' /\ Tracked'
  BY DEF JInv, Single, Tracked
<1>3. KeysAreSettled'
  BY DEF JInv, KeysAreSettled, Terminal, Stored
<1>4. StoredFirst' /\ PurgedLast'
  <2>1. \A i \in TestIds : test[i].status = "gone" => test'[i].status = "gone"
    OBVIOUS
  <2>2. PurgedLast'
    <3>1. \A w \in Workers : worker[w].purge \subseteq TestIds
      BY DEF JInv, TInv, TypeOK, WorkerState
    <3>2. QED
      BY <2>1, <3>1 DEF JInv, PurgedLast
  <2>3. StoredFirst'
    BY <2>1, JobTyped DEF JInv, StoredFirst, Stored
  <2>4. QED
    BY <2>2, <2>3
<1>5. Watching'
  <2>1. viewer.inbox = "success" => test'[viewer.job].status \in Terminal \union {"gone"}
    BY InboxWatched DEF JInv, Watching, SuccessIsRecordedFirst, Terminal
  <2>2. viewer.pc \in {"told", "live"} /\ test'[viewer.job].status \in {"success", "failure"} =>
          test[viewer.job].status \in {"success", "failure"}
    BY JobWatched DEF JInv
  <2>3. QED
    BY <2>1, <2>2 DEF JInv, Watching, SuccessIsRecordedFirst
<1>6. QED
  BY <1>1, <1>2, <1>3, <1>4, <1>5 DEF JInv

LEMMA ClaimKeeps ==
  ASSUME JInv, TInv', NEW w \in Workers, NEW j \in TestIds, Claims(w, j)
  PROVE  JInv'
<1>1. /\ worker[w] \in WorkerState /\ worker \in [Workers -> WorkerState]
      /\ test \in [TestIds -> TestRow] /\ j # 0
  BY DEF JInv, TInv, TypeOK, TestIds
<1>2. /\ \A v \in Workers \ {w} : worker'[v] = worker[v]
      /\ worker'[w].job = j /\ worker'[w].pc = "check"
      /\ worker'[w].key = worker[w].key /\ worker'[w].purge = worker[w].purge
  BY <1>1 DEF Claims, WorkerState
<1>3. /\ test[j].status = "queued" /\ test'[j].status = "running" /\ test'[j].key = test[j].key
      /\ \A i \in TestIds \ {j} : test'[i] = test[i]
  BY <1>1 DEF Claims, ClaimTest, TestsIn, TestRow
<1>4. UNCHANGED <<bundles, viewer>>
  BY DEF Claims
<1>5. UNCHANGED <<past.removed, past.lost, past.silent, past.reset>>
  BY DEF Claims, JInv, TInv, TypeOK
<1>6. worker[w].pc = "idle" /\ worker[w].job = 0 /\ ~worker[w].key
  BY <1>1 DEF Claims, At, JInv, TInv, Busy, StoredFirst
<1>7. \A v \in Workers : worker[v].job # j
  BY <1>1, <1>3 DEF JInv, Held
<1>8. Held'
  BY <1>1, <1>2, <1>3, <1>5, <1>7, JobTyped DEF JInv, Held, Inside
<1>9. Single' /\ Tracked'
  <2>1. Single'
    BY <1>2, <1>7 DEF JInv, Single
  <2>2. \A i \in TestIds : (\E v \in Workers : worker[v].job = i) => \E v \in Workers : worker'[v].job = i
    BY <1>1, <1>2, <1>6 DEF TestIds
  <2>3. Tracked'
    <3>1. ASSUME NEW i \in TestIds, test'[i].status = "running"
          PROVE  (\E v \in Workers : worker'[v].job = i) \/ i \in past.lost
      <4>1. CASE i = j
        BY <1>2, <4>1
      <4>2. CASE i # j
        BY <1>3, <2>2, <3>1, <4>2 DEF JInv, Tracked
      <4>3. QED
        BY <4>1, <4>2
    <3>2. QED
      BY <1>5, <3>1 DEF Tracked
  <2>4. QED
    BY <2>1, <2>3
<1>10. KeysAreSettled'
  BY <1>3, <1>4, <1>5 DEF JInv, KeysAreSettled, Terminal, Stored
<1>11. StoredFirst'
  BY <1>2, <1>3, <1>4, <1>5, <1>6, <1>7, JobTyped DEF JInv, StoredFirst, Stored
<1>12. PurgedLast'
  <2>1. \A v \in Workers : worker'[v].purge = worker[v].purge /\ worker[v].purge \subseteq TestIds
    BY <1>1, <1>2 DEF WorkerState
  <2>2. QED
    BY <1>3, <2>1 DEF JInv, PurgedLast
<1>13. Watching'
  <2>1. viewer.inbox = "success" => test'[viewer.job].status \in Terminal \union {"gone"}
    BY <1>3, InboxWatched DEF JInv, Watching, SuccessIsRecordedFirst, Terminal
  <2>2. viewer.pc \in {"told", "live"} /\ test'[viewer.job].status \in {"success", "failure"} =>
          test'[viewer.job].status = test[viewer.job].status /\ viewer.job # j
    BY <1>3, JobWatched DEF JInv
  <2>3. \A i : (\E v \in Workers : worker[v].job = i) /\ i # 0 => \E v \in Workers : worker'[v].job = i
    BY <1>2, <1>6
  <2>4. viewer.pc # "off" => viewer.job # 0
    BY DEF JInv, Watching
  <2>5. QED
    BY <1>4, <1>5, <2>1, <2>2, <2>3, <2>4 DEF JInv, Watching, SuccessIsRecordedFirst
<1>14. QED
  BY <1>8, <1>9, <1>10, <1>11, <1>12, <1>13 DEF JInv

LEMMA StoreKeeps ==
  ASSUME JInv, TInv', NEW w \in Workers,
         \/ \E stored \in BOOLEAN : Stores(w, stored)
         \/ FinishBreaks(w)
         \/ \E left : left \subseteq worker[w].purge /\ Purges(w, left)
  PROVE  JInv'
<1>1. /\ worker[w] \in WorkerState /\ worker \in [Workers -> WorkerState]
      /\ test \in [TestIds -> TestRow]
  BY DEF JInv, TInv, TypeOK
<1>2. /\ \A v \in Workers \ {w} : worker'[v] = worker[v]
      /\ worker'[w].job = worker[w].job
      /\ worker'[w].purge \in {worker[w].purge, {}}
      /\ Inside(w)' = Inside(w)
  BY <1>1 DEF Stores, FinishBreaks, Purges, At, Inside, WorkerState
<1>3. UNCHANGED <<test, viewer, past>>
  BY DEF Stores, FinishBreaks, Purges
<1>4. Held' /\ Single' /\ Tracked'
  <2>1. \A v \in Workers : worker'[v].job = worker[v].job /\ Inside(v)' = Inside(v)
    BY <1>2 DEF Inside
  <2>2. QED
    BY <1>3, <2>1 DEF JInv, Held, Single, Tracked
<1>5. \A i \in Stored : i \in Stored' \/ test[i].status = "gone"
  BY <1>3 DEF Stores, FinishBreaks, Purges, JInv, PurgedLast, Stored
<1>6. KeysAreSettled'
  BY <1>3, <1>5 DEF JInv, KeysAreSettled, Terminal
<1>7. PurgedLast'
  BY <1>2, <1>3 DEF JInv, PurgedLast
<1>8. worker'[w].key => /\ worker[w].job # 0
                        /\ worker[w].job \in Stored' \/ test[worker[w].job].status = "gone"
  <2>1. ASSUME NEW stored \in BOOLEAN, Stores(w, stored), worker'[w].key
        PROVE  worker[w].job # 0 /\ worker[w].job \in Stored'
    <3>1. worker'[w].key = stored /\ bundles' = IF stored THEN bundles \union {worker[w].job} ELSE bundles
      BY <1>1, <2>1 DEF Stores, WorkerState
    <3>2. worker[w].job # 0
      BY <2>1 DEF Stores, At, JInv, TInv, Busy
    <3>3. QED
      BY <2>1, <3>1, <3>2 DEF Stored
  <2>2. ASSUME FinishBreaks(w) PROVE ~worker'[w].key
    BY <1>1, <2>2 DEF FinishBreaks, WorkerState
  <2>3. ASSUME NEW left, Purges(w, left) PROVE worker'[w].key = worker[w].key
    BY <1>1, <2>3 DEF Purges, WorkerState
  <2>4. QED
    BY <1>5, <2>1, <2>2, <2>3 DEF JInv, StoredFirst
<1>9. StoredFirst'
  BY <1>2, <1>3, <1>5, <1>8 DEF JInv, StoredFirst
<1>10. Watching'
  BY <1>2, <1>3 DEF JInv, Watching, SuccessIsRecordedFirst
<1>11. QED
  BY <1>4, <1>6, <1>7, <1>9, <1>10 DEF JInv

LEMMA RecordingKeeps ==
  ASSUME JInv, TInv', NEW w \in Workers, Finishes(w) \/ RecordsFailure(w)
  PROVE  JInv'
<1> DEFINE j == worker[w].job
<1>1. /\ j \in TestIds /\ Inside(w)
      /\ \A v \in Workers \ {w} : worker'[v] = worker[v]
      /\ worker'[w].job = j /\ worker'[w].pc = "purge" /\ ~worker'[w].key
      /\ \A i \in worker'[w].purge : test'[i].status = "gone"
      /\ \A i \in TestIds \ {j} :
           \/ test'[i] = test[i]
           \/ test[i].status \in Terminal /\ test'[i].status = "gone" /\ ~test'[i].key
      /\ test'[j].status \in Settled
      /\ test[j].status = "gone" => test'[j].status = "gone"
      /\ test'[j].key => test'[j].status \in Terminal /\ j \in Stored
      /\ UNCHANGED <<bundles, viewer, past>>
  BY Recording
<1>2. ~Inside(w)' /\ \A v \in Workers \ {w} : Inside(v)' = Inside(v)
  BY <1>1 DEF Inside
<1>3. \A v \in Workers : worker'[v].job = worker[v].job
  BY <1>1
<1>4. j # 0 /\ \A v \in Workers \ {w} : worker[v].job # j
  BY <1>1 DEF TestIds, JInv, Single
<1>5. test[j].status \notin {"none", "queued"}
  BY <1>4 DEF JInv, Held
<1>6. \A i \in TestIds : test[i].status = "gone" => test'[i].status = "gone"
  BY <1>1
<1> HIDE DEF j
<1>7. Held'
  <2>1. SUFFICES ASSUME NEW v \in Workers, worker[v].job # 0
                 PROVE  /\ test'[worker[v].job].status \notin {"none", "queued"}
                        /\ Inside(v)' => test'[worker[v].job].status \in {"running", "gone"}
                                         \/ worker[v].job \in past.reset
                        /\ ~Inside(v)' => test'[worker[v].job].status \in Settled
    BY <1>1, <1>3 DEF Held
  <2>2. CASE v = w
    BY <1>1, <1>2, <2>2 DEF Settled, Terminal, j
  <2>3. CASE v # w
    <3>1. worker[v].job \in TestIds \ {j}
      BY <1>4, <2>1, <2>3, JobTyped DEF JInv
    <3>2. test'[worker[v].job].status \in {test[worker[v].job].status, "gone"}
      BY <1>1, <3>1
    <3>3. QED
      BY <1>2, <2>1, <2>3, <3>2 DEF JInv, Held, Settled
  <2>4. QED
    BY <2>2, <2>3
<1>8. Single'
  BY <1>3 DEF JInv, Single
<1>9. Tracked'
  <2>1. \A i \in TestIds : test'[i].status = "running" => test[i].status = "running"
    BY <1>1 DEF Settled, Terminal
  <2>2. QED
    BY <1>1, <1>3, <2>1 DEF JInv, Tracked
<1>10. KeysAreSettled'
  BY <1>1 DEF JInv, KeysAreSettled, Stored
<1>11. StoredFirst'
  BY <1>1, <1>6, JobTyped DEF JInv, StoredFirst, Stored
<1>12. PurgedLast'
  <2>1. \A v \in Workers : worker[v].purge \subseteq TestIds
    BY DEF JInv, TInv, TypeOK, WorkerState
  <2>2. QED
    BY <1>1, <1>6, <2>1 DEF JInv, PurgedLast
<1>13. Watching'
  <2>1. viewer.inbox = "success" => test'[viewer.job].status \in Settled
    <3>1. ASSUME viewer.inbox = "success" PROVE test'[viewer.job].status \in Settled
      <4>1. viewer.job \in TestIds /\ test[viewer.job].status \in Settled
        BY <3>1, InboxWatched DEF JInv, Watching, SuccessIsRecordedFirst, Settled
      <4>2. QED
        BY <1>1, <4>1 DEF Settled
    <3>2. QED
      BY <3>1
  <2>2. ASSUME viewer.pc \in {"told", "live"}, test'[viewer.job].status \in {"success", "failure"}
        PROVE  \/ viewer.inbox # "none"
               \/ \E v \in Workers : worker'[v].job = viewer.job
               \/ viewer.job \in past.lost \union past.silent
    <3>1. viewer.job \in TestIds
      BY <2>2, JobWatched DEF JInv
    <3>2. CASE viewer.job = j
      BY <1>1, <3>2
    <3>3. CASE viewer.job # j
      BY <1>1, <1>3, <2>2, <3>1, <3>3 DEF JInv, Watching
    <3>4. QED
      BY <3>2, <3>3
  <2>3. QED
    BY <1>1, <2>1, <2>2 DEF JInv, Watching, SuccessIsRecordedFirst, Settled
<1>14. QED
  BY <1>7, <1>8, <1>9, <1>10, <1>11, <1>12, <1>13 DEF JInv

\* A runner is done with its job: by its last publish, or because it died or
\* stumbled.
LEMMA EndKeeps ==
  ASSUME JInv, TInv', NEW w \in Workers,
         \/ \E heard \in BOOLEAN : Announces(w, heard)
         \/ GivesUp(w) \/ WorkerDies(w) \/ Stumbles(w)
  PROVE  JInv'
<1> DEFINE j == worker[w].job
<1>1. worker[w] \in WorkerState /\ worker \in [Workers -> WorkerState]
      /\ past.lost \subseteq TestIds
  BY DEF JInv, TInv, TypeOK
<1>2. /\ \A v \in Workers \ {w} : worker'[v] = worker[v]
      /\ worker'[w] \in {WorkerRest("idle"), WorkerRest("down")}
  BY <1>1 DEF Announces, GivesUp, WorkerDies, Stumbles
<1>3. worker'[w].job = 0 /\ worker'[w].key = FALSE /\ worker'[w].purge = {}
      /\ ~Inside(w)'
  BY <1>2 DEF WorkerRest, Inside
<1>4. \A v \in Workers \ {w} : Inside(v)' = Inside(v)
  BY <1>2 DEF Inside
<1>5. UNCHANGED <<test, bundles, past.removed, past.reset>>
  <2>1. UNCHANGED <<test, bundles>>
    BY DEF Announces, GivesUp, WorkerDies, Stumbles
  <2>2. UNCHANGED <<past.removed, past.reset>>
    BY DEF Announces, GivesUp, WorkerDies, Stumbles, JInv, TInv, TypeOK
  <2>3. QED
    BY <2>1, <2>2
<1>6. j \in TestIds /\ j # 0
  <2>1. j # 0
    BY DEF Announces, GivesUp, WorkerDies, Stumbles, At, Working, JInv, TInv, Busy
  <2>2. QED
    BY <2>1, JobTyped DEF JInv
<1>7. past.lost \subseteq past'.lost /\ past.silent \subseteq past'.silent
  BY DEF Announces, GivesUp, WorkerDies, Stumbles, JInv, TInv, TypeOK
<1>8. \/ j \in past'.lost
      \/ /\ \E heard \in BOOLEAN : Announces(w, heard)
         /\ worker[w].pc = "announce"
         /\ \/ j \in past'.silent
            \/ Publish(j, IF worker[w].ok THEN "success" ELSE "failure")
  <2>1. CASE GivesUp(w) \/ WorkerDies(w) \/ Stumbles(w)
    BY <2>1 DEF GivesUp, WorkerDies, Stumbles, JInv, TInv, TypeOK
  <2>2. ASSUME NEW heard \in BOOLEAN, Announces(w, heard)
        PROVE  /\ worker[w].pc = "announce"
               /\ \/ j \in past'.silent
                  \/ Publish(j, IF worker[w].ok THEN "success" ELSE "failure")
    <3>1. CASE heard
      BY <2>2, <3>1 DEF Announces, At
    <3>2. CASE ~heard
      BY <2>2, <3>2 DEF Announces, At, JInv, TInv, TypeOK
    <3>3. QED
      BY <3>1, <3>2
  <2>3. QED
    BY <2>1, <2>2
<1>9. \/ UNCHANGED viewer
      \/ \E status \in {"success", "failure"} :
           /\ Publish(j, status)
           /\ status = "success" => worker[w].pc = "announce"
  <2>1. CASE GivesUp(w)
    BY <2>1 DEF GivesUp
  <2>2. CASE WorkerDies(w) \/ Stumbles(w)
    BY <2>2 DEF WorkerDies, Stumbles
  <2>3. CASE \E heard \in BOOLEAN : Announces(w, heard)
    <3>1. (IF worker[w].ok THEN "success" ELSE "failure") \in {"success", "failure"}
      OBVIOUS
    <3>2. QED
      BY <2>3, <3>1 DEF Announces, At
  <2>4. QED
    BY <2>1, <2>2, <2>3
<1> HIDE DEF j
<1>10. /\ viewer'.pc = viewer.pc /\ viewer'.job = viewer.job
       /\ viewer.inbox # "none" => viewer'.inbox = viewer.inbox
       /\ viewer'.inbox # viewer.inbox =>
            /\ viewer.job = j /\ viewer.pc # "off"
            /\ viewer'.inbox = "success" => worker[w].pc = "announce"
  <2>1. viewer \in ViewerState
    BY DEF JInv, TInv, TypeOK
  <2>2. CASE UNCHANGED viewer
    BY <2>2
  <2>3. ASSUME NEW status \in {"success", "failure"}, Publish(j, status),
               status = "success" => worker[w].pc = "announce"
        PROVE  /\ viewer'.pc = viewer.pc /\ viewer'.job = viewer.job
               /\ viewer.inbox # "none" => viewer'.inbox = viewer.inbox
               /\ viewer'.inbox # viewer.inbox =>
                    /\ viewer.job = j /\ viewer.pc # "off"
                    /\ viewer'.inbox = "success" => worker[w].pc = "announce"
    BY <2>1, <2>3 DEF Publish, Listens, ViewerState
  <2>4. QED
    BY <1>9, <2>2, <2>3
<1>11. Held'
  BY <1>2, <1>3, <1>4, <1>5 DEF JInv, Held
<1>12. Single'
  BY <1>2, <1>3 DEF JInv, Single
<1>13. test[j].status = "running" => j \in past'.lost
  <2>1. worker[w].pc = "announce" => test[j].status \in Settled
    BY <1>6 DEF JInv, Held, Inside, j
  <2>2. QED
    BY <1>8, <2>1 DEF Settled, Terminal
<1>14. \A i : (\E v \in Workers : worker[v].job = i) => (\E v \in Workers : worker'[v].job = i) \/ i = j
  BY <1>2 DEF j
<1>15. Tracked'
  BY <1>5, <1>7, <1>13, <1>14 DEF JInv, Tracked
<1>16. KeysAreSettled' /\ StoredFirst' /\ PurgedLast'
  BY <1>2, <1>3, <1>5 DEF JInv, KeysAreSettled, StoredFirst, PurgedLast, Stored
<1>17. Watching'
  <2>1. /\ viewer'.pc # "off" => viewer'.job # 0
        /\ viewer'.inbox # "none" => viewer'.pc # "off"
    BY <1>10 DEF JInv, Watching
  <2>2. viewer'.inbox = "success" => test'[viewer'.job].status \in Settled
    <3>1. worker[w].pc = "announce" => test[j].status \in Settled
      BY <1>6 DEF JInv, Held, Inside, j
    <3>2. QED
      BY <1>5, <1>10, <3>1 DEF JInv, Watching, SuccessIsRecordedFirst, Settled
  <2>3. ASSUME viewer'.pc \in {"told", "live"}, test'[viewer'.job].status \in {"success", "failure"}
        PROVE  \/ viewer'.inbox # "none"
               \/ \E v \in Workers : worker'[v].job = viewer'.job
               \/ viewer'.job \in past'.lost \union past'.silent
    <3>1. CASE viewer.job = j
      <4>1. CASE j \in past'.lost \union past'.silent
        BY <1>10, <3>1, <4>1
      <4>2. CASE Publish(j, IF worker[w].ok THEN "success" ELSE "failure")
        <5>1. Listens(j)
          BY <1>10, <2>3, <3>1 DEF Listens
        <5>2. viewer \in ViewerState
          BY DEF JInv, TInv, TypeOK
        <5>3. viewer'.inbox # "none"
          BY <4>2, <5>1, <5>2 DEF Publish, ViewerState
        <5>4. QED
          BY <5>3
      <4>3. QED
        BY <1>8, <4>1, <4>2
    <3>2. CASE viewer.job # j
      BY <1>5, <1>7, <1>10, <1>14, <2>3, <3>2 DEF JInv, Watching
    <3>3. QED
      BY <3>1, <3>2
  <2>4. QED
    BY <2>1, <2>2, <2>3 DEF Watching, SuccessIsRecordedFirst, Settled
<1>18. QED
  BY <1>11, <1>12, <1>15, <1>16, <1>17 DEF JInv

\* A boot fails the rows that are stale, a peer's included.
LEMMA BootKeeps ==
  ASSUME JInv, TInv', NEW w \in Workers, NEW old \in SUBSET TestIds, WorkerBoots(w, old)
  PROVE  JInv'
<1>1. worker[w] \in WorkerState /\ worker \in [Workers -> WorkerState]
      /\ test \in [TestIds -> TestRow]
  BY DEF JInv, TInv, TypeOK
<1>2. worker[w].job = 0 /\ ~Inside(w)
  BY DEF WorkerBoots, At, Inside, JInv, TInv, Busy
<1>3. /\ \A v \in Workers \ {w} : worker'[v] = worker[v] /\ Inside(v)' = Inside(v)
      /\ worker'[w].job = 0 /\ worker'[w].key = FALSE /\ worker'[w].purge = {}
      /\ ~Inside(w)'
  BY <1>1 DEF WorkerBoots, WorkerRest, Inside
<1>4. UNCHANGED <<bundles, viewer>>
  BY DEF WorkerBoots
<1>5. UNCHANGED <<past.removed, past.lost, past.silent>> /\ past'.reset = past.reset \union old
  BY DEF WorkerBoots, JInv, TInv, TypeOK
<1>6. /\ \A i \in old : test[i].status = "running" /\ test'[i].status = "failure"
                       /\ test'[i].key = test[i].key
      /\ \A i \in TestIds \ old : test'[i] = test[i]
  BY <1>1 DEF WorkerBoots, ResetStale, TestsIn, TestRow
<1>7. Held'
  <2>1. SUFFICES ASSUME NEW v \in Workers, worker'[v].job # 0
                 PROVE  /\ test'[worker[v].job].status \notin {"none", "queued"}
                        /\ Inside(v) => test'[worker[v].job].status \in {"running", "gone"}
                                        \/ worker[v].job \in past'.reset
                        /\ ~Inside(v) => test'[worker[v].job].status \in Settled
    BY <1>3 DEF Held
  <2>2. v # w /\ worker[v].job # 0
    BY <1>3, <2>1
  <2>3. worker[v].job \in TestIds
    BY <2>2, JobTyped DEF JInv
  <2>4. CASE worker[v].job \in old
    BY <1>5, <1>6, <2>4 DEF Settled, Terminal
  <2>5. CASE worker[v].job \notin old
    BY <1>5, <1>6, <2>2, <2>3, <2>5 DEF JInv, Held
  <2>6. QED
    BY <2>4, <2>5
<1>8. Single'
  BY <1>3 DEF JInv, Single
<1>9. \A i \in TestIds : (\E v \in Workers : worker[v].job = i) => \E v \in Workers : worker'[v].job = i
  BY <1>2, <1>3 DEF TestIds
<1>10. Tracked'
  BY <1>5, <1>6, <1>9 DEF JInv, Tracked
<1>11. KeysAreSettled'
  BY <1>4, <1>5, <1>6 DEF JInv, KeysAreSettled, Terminal, Stored
<1>12. StoredFirst'
  <2>1. \A v \in Workers : worker'[v].key =>
          v # w /\ worker[v].job # 0 /\ (worker[v].job \in Stored \/ test[worker[v].job].status = "gone")
    BY <1>3 DEF JInv, StoredFirst
  <2>2. \A i \in TestIds : test[i].status = "gone" => test'[i].status = "gone"
    BY <1>6
  <2>3. QED
    BY <1>3, <1>4, <1>5, <2>1, <2>2, JobTyped DEF JInv, StoredFirst, Stored
<1>13. PurgedLast'
  <2>1. \A v \in Workers : worker'[v].purge \subseteq TestIds
    BY <1>3 DEF JInv, TInv, TypeOK, WorkerState
  <2>2. QED
    BY <1>3, <1>6, <2>1 DEF JInv, PurgedLast
<1>14. Watching'
  <2>1. viewer.inbox = "success" => test'[viewer.job].status \in Settled
    BY <1>6, InboxWatched DEF JInv, Watching, SuccessIsRecordedFirst, Settled, Terminal
  <2>2. ASSUME viewer.pc \in {"told", "live"}, test'[viewer.job].status \in {"success", "failure"}
        PROVE  \/ viewer.inbox # "none"
               \/ \E v \in Workers : worker'[v].job = viewer.job
               \/ viewer.job \in past.lost \union past.silent
    <3>1. viewer.job \in TestIds
      BY <2>2, JobWatched DEF JInv
    <3>2. CASE viewer.job \in old
      BY <1>6, <1>9, <3>1, <3>2 DEF JInv, Tracked
    <3>3. CASE viewer.job \notin old
      BY <1>6, <1>9, <2>2, <3>1, <3>3 DEF JInv, Watching
    <3>4. QED
      BY <3>2, <3>3
  <2>3. QED
    BY <1>4, <1>5, <2>1, <2>2 DEF JInv, Watching, SuccessIsRecordedFirst, Settled
<1>15. QED
  BY <1>7, <1>8, <1>10, <1>11, <1>12, <1>13, <1>14 DEF JInv

\* The viewer's own steps: a terminal row ends the stream before it is live.
LEMMA StreamKeeps ==
  ASSUME JInv, TInv', Stream
  PROVE  JInv'
<1>1. viewer \in ViewerState
  BY DEF JInv, TInv, TypeOK
<1>2. UNCHANGED <<test, bundles, worker, past>>
  BY DEF Stream
<1>3. Held' /\ Single' /\ Tracked'
  BY <1>2 DEF JInv, Held, Inside, Single, Tracked
<1>4. KeysAreSettled' /\ StoredFirst' /\ PurgedLast'
  BY <1>2 DEF JInv, KeysAreSettled, StoredFirst, PurgedLast, Stored
<1>5. CASE \E j \in TestIds : ViewerOpens(j)
  <2>1. viewer.inbox = "none"
    BY <1>5 DEF ViewerOpens, JInv, Watching
  <2>2. viewer'.pc = "open" /\ viewer'.job \in TestIds /\ viewer'.inbox = "none"
    BY <1>1, <1>5, <2>1 DEF ViewerOpens, ViewerState
  <2>3. Watching'
    BY <2>2 DEF Watching, SuccessIsRecordedFirst, TestIds
  <2>4. QED
    BY <1>3, <1>4, <2>3 DEF JInv
<1>6. CASE ViewerSubscribes
  <2>1. viewer'.pc = "subscribed" /\ viewer'.job = viewer.job /\ viewer'.inbox = viewer.inbox
        /\ viewer.pc # "off"
    BY <1>1, <1>6 DEF ViewerSubscribes, ViewerState
  <2>2. Watching'
    BY <1>2, <2>1 DEF JInv, Watching, SuccessIsRecordedFirst
  <2>3. QED
    BY <1>3, <1>4, <2>2 DEF JInv
<1>7. CASE viewer' = NoViewer
  <2>1. Watching'
    BY <1>7 DEF NoViewer, Watching, SuccessIsRecordedFirst
  <2>2. QED
    BY <1>3, <1>4, <2>1 DEF JInv
<1>8. CASE ViewerSnapshot
  <2>1. CASE test[viewer.job].status \notin Terminal
    <3>1. viewer'.pc = "told" /\ viewer'.job = viewer.job /\ viewer'.inbox = viewer.inbox
          /\ viewer.pc # "off"
      BY <1>1, <1>8, <2>1 DEF ViewerSnapshot, ViewerState
    <3>2. Watching'
      BY <1>2, <2>1, <3>1 DEF JInv, Watching, SuccessIsRecordedFirst, Terminal
    <3>3. QED
      BY <1>3, <1>4, <3>2 DEF JInv
  <2>2. QED
    BY <1>7, <1>8, <2>1 DEF ViewerSnapshot
<1>9. CASE ViewerGoesLive
  <2>1. viewer'.pc = "live" /\ viewer'.job = viewer.job /\ viewer'.inbox = viewer.inbox
        /\ viewer.pc = "told"
    BY <1>1, <1>9 DEF ViewerGoesLive, ViewerState
  <2>2. Watching'
    BY <1>2, <2>1 DEF JInv, Watching, SuccessIsRecordedFirst
  <2>3. QED
    BY <1>3, <1>4, <2>2 DEF JInv
<1>10. QED
  BY <1>5, <1>6, <1>7, <1>8, <1>9 DEF Stream, ViewerForwards, ViewerLeaves

LEMMA UserKeeps ==
  ASSUME JInv, TInv', User
  PROVE  JInv'
<1>1. test \in [TestIds -> TestRow] /\ worker \in [Workers -> WorkerState]
  BY DEF JInv, TInv, TypeOK
<1>2. CASE \E what \in {"save", "restore"} : SaveBegins(what)
  <2>1. \A w \in Workers : Same(w)
    BY <1>1, <1>2 DEF SaveBegins, Same, Inside, WorkerState
  <2>2. UNCHANGED <<test, bundles, viewer, past>>
    BY <1>2 DEF SaveBegins
  <2>3. QED
    BY <2>1, <2>2, Undisturbed DEF Stored
<1>3. CASE \/ \E code \in Codes \union {NoCode} : SaveCommits(code)
           \/ Submit \/ UploadLoads \/ UploadCommits \/ UploadRollsBack
  <2>1. \A w \in Workers : Same(w)
    BY <1>3 DEF SaveCommits, Submit, UploadLoads, UploadCommits, UploadRollsBack, Same, Inside
  <2>2. UNCHANGED <<test, bundles, viewer>>
    BY <1>3 DEF SaveCommits, Submit, UploadLoads, UploadCommits, UploadRollsBack
  <2>3. UNCHANGED <<past.removed, past.lost, past.silent, past.reset>>
    BY <1>3 DEF SaveCommits, Submit, UploadLoads, UploadCommits, UploadRollsBack, JInv, TInv, TypeOK
  <2>4. QED
    BY <2>1, <2>2, <2>3, Undisturbed DEF Stored
<1>4. CASE DeleteCommits
  <2>1. UNCHANGED <<worker, viewer, past, bundles>>
    BY <1>4 DEF DeleteCommits
  <2>2. \A i \in TestIds : test'[i] = test[i] \/ (test'[i].status = "gone" /\ ~test'[i].key)
    <3>1. \A i \in TestIds : test'[i] = IF Exists(i) THEN Unused("gone") ELSE test[i]
      BY <1>4 DEF DeleteCommits, AllGone
    <3>2. Unused("gone").status = "gone" /\ ~Unused("gone").key
      BY DEF Unused
    <3>3. QED
      BY <3>1, <3>2
  <2>3. QED
    BY <2>1, <2>2, RowsChange
<1>5. CASE Enqueue \/ \E j \in TestIds : Pin(j) \/ Unpin(j) \/ CancelJob(j)
  <2>1. UNCHANGED <<worker, viewer, past, bundles>>
    BY <1>5 DEF Enqueue, Pin, Unpin, CancelJob
  <2>2. \A i \in TestIds :
          /\ test'[i].key = test[i].key
          /\ \/ test'[i].status = test[i].status
             \/ test[i].status = "none" /\ test'[i].status = "queued"
             \/ test[i].status = "queued" /\ test'[i].status = "cancelled"
    BY <1>1, <1>5 DEF Enqueue, InsertTest, Pin, Unpin, CancelJob, CancelTest, TestsIn, TestRow
  <2>3. QED
    BY <2>1, <2>2, RowsChange
<1>6. CASE (\E left \in SUBSET TestIds : DeleteBegins(left)) \/ DeleteRollsBack
  <2>1. UNCHANGED <<test, worker, viewer>> /\ \A w \in Workers : Same(w)
    BY <1>6 DEF DeleteBegins, DeleteRollsBack, Same, Inside
  <2>2. UNCHANGED <<past.lost, past.silent, past.reset>>
    BY <1>6 DEF DeleteBegins, DeleteRollsBack, JInv, TInv, TypeOK
  <2>3. Stored \subseteq Stored'
    <3>1. CASE DeleteRollsBack
      BY <3>1 DEF DeleteRollsBack, Stored, JInv, TInv, TypeOK
    <3>2. ASSUME NEW left \in SUBSET TestIds, DeleteBegins(left) PROVE Stored \subseteq Stored'
      <4>1. past'.removed = past.removed \union (Keyed(test) \ left)
        BY <3>2 DEF DeleteBegins, JInv, TInv, TypeOK
      <4>2. QED
        BY <3>2, <4>1 DEF DeleteBegins, Stored
    <3>3. QED
      BY <1>6, <3>1, <3>2
  <2>4. QED
    BY <2>1, <2>2, <2>3, Undisturbed
<1>7. QED
  BY <1>2, <1>3, <1>4, <1>5, <1>6 DEF User

LEMMA JInit == Init => JInv
<1> SUFFICES ASSUME Init PROVE JInv
  OBVIOUS
<1>1. TInv
  BY InitTyped
<1>2. \A w \in Workers : worker[w].job = 0 /\ ~worker[w].key /\ worker[w].purge = {}
  BY DEF Init, WorkerRest
<1>3. \A j \in TestIds : test[j].status = "none" /\ ~test[j].key
  BY DEF Init, TestsInit, Unused
<1>4. viewer.pc = "off" /\ viewer.inbox = "none"
  BY DEF Init, ViewerInit, NoViewer
<1>5. QED
  BY <1>1, <1>2, <1>3, <1>4 DEF JInv, Held, Single, Tracked, KeysAreSettled, StoredFirst,
    PurgedLast, Watching, SuccessIsRecordedFirst

LEMMA JNext == JInv /\ [Next]_vars => JInv'
<1> SUFFICES ASSUME JInv, [Next]_vars PROVE JInv'
  OBVIOUS
<1>1. TInv'
  BY NextTyped DEF JInv
<1>2. ASSUME NEW w \in Workers, Works(w) \/ Boots(w) \/ Accident(w) PROVE JInv'
  <2>1. CASE Middle(w)
    <3>1. TypeOK
      BY DEF JInv, TInv
    <3>2. \A v \in Workers : Same(v)
      BY <2>1, <3>1, MiddleSteps DEF Same, Inside
    <3>3. UNCHANGED <<test, bundles, viewer, past.removed, past.lost, past.silent, past.reset>>
      BY <2>1, <3>1, MiddleSteps
    <3>4. QED
      BY <1>1, <3>2, <3>3, Undisturbed DEF Stored
  <2>2. ASSUME NEW j \in TestIds, Overlooks(w, j) PROVE JInv'
    <3>1. UNCHANGED <<test, bundles, worker, viewer>> /\ \A v \in Workers : Same(v)
      BY <2>2 DEF Overlooks, Same, Inside
    <3>2. UNCHANGED <<past.removed, past.lost, past.silent, past.reset>>
      BY <2>2 DEF Overlooks, JInv, TInv, TypeOK
    <3>3. QED
      BY <1>1, <3>1, <3>2, Undisturbed DEF Stored
  <2>3. QED
    BY <1>1, <1>2, <2>1, <2>2, RunnerSteps, ClaimKeeps, StoreKeeps, RecordingKeeps, EndKeeps, BootKeeps
<1>3. CASE User
  BY <1>1, <1>3, UserKeeps
<1>4. CASE Stream
  BY <1>1, <1>4, StreamKeeps
<1>5. CASE OpponentLeaves \/ UNCHANGED vars
  <2>1. UNCHANGED <<test, bundles, viewer, worker, past>>
    BY <1>5 DEF OpponentLeaves, vars
  <2>2. \A v \in Workers : Same(v)
    BY <2>1 DEF Same, Inside
  <2>3. QED
    BY <1>1, <2>1, <2>2, Undisturbed DEF Stored
<1>6. QED
  BY <1>2, <1>3, <1>4, <1>5 DEF Next

------------------------------------------------------------------------------
(* What follows of it.                                                     *)

\* Who holds a job, what is stored, and what the viewer has still to hear:
\* all of it is an inductive invariant.
THEOREM JobsHold == Spec => []JInv
BY JInit, JNext, PTL DEF Spec

\* A bundle_key in the table leads to a bundle in storage, or to one that a
\* delete of the project took before it committed, or without committing.
THEOREM KeysLead == Spec => []KeysHaveBundles
<1>1. JInv => KeysHaveBundles
  BY DEF JInv, KeysAreSettled, KeysHaveBundles, Keyed, Stored
<1>2. QED
  BY <1>1, JobsHold, PTL

\* A live stream whose job has an outcome has the frame, or it is still to
\* come, unless the runner died, stumbled before its try, or could not publish.
THEOREM StreamsEnd == Spec => []NoMissedEnd
<1>1. JInv => NoMissedEnd
  BY DEF JInv, Watching, NoMissedEnd
<1>2. QED
  BY <1>1, JobsHold, PTL

\* The stream does not say success before the table does.
THEOREM TableFirst == Spec => []SuccessIsRecordedFirst
<1>1. JInv => SuccessIsRecordedFirst
  BY DEF JInv, Watching
<1>2. QED
  BY <1>1, JobsHold, PTL

\* What a step does to a row with an outcome that no boot wrote.
LEMMA OutcomesKept ==
  ASSUME JInv, [Next]_vars, NEW j \in TestIds \ past.reset, test[j].status \in Terminal
  PROVE  test'[j].status \in {test[j].status, "gone"}
<1>1. test \in [TestIds -> TestRow] /\ TypeOK
  BY DEF JInv, TInv, TypeOK
<1>2. CASE UNCHANGED test
  BY <1>2
<1>3. ASSUME NEW w \in Workers, Works(w) \/ Boots(w) \/ Accident(w)
      PROVE  test'[j].status \in {test[j].status, "gone"}
  <2>1. CASE Finishes(w) \/ RecordsFailure(w)
    <3>1. Inside(w) /\ worker[w].job \in TestIds /\ worker[w].job # 0
      BY <2>1, Recording DEF TestIds
    <3>2. CASE worker[w].job = j
      <4>1. test[j].status \in {"running", "gone"} \/ j \in past.reset
        BY <3>1, <3>2 DEF JInv, Held
      <4>2. QED
        BY <4>1 DEF Terminal
    <3>3. CASE worker[w].job # j
      BY <2>1, <3>3, Recording
    <3>4. QED
      BY <3>2, <3>3
  <2>2. ASSUME NEW i \in TestIds, Claims(w, i) PROVE test'[j] = test[j]
    BY <1>1, <2>2 DEF Claims, ClaimTest, TestsIn, Terminal
  <2>3. ASSUME NEW old \in SUBSET TestIds, WorkerBoots(w, old) PROVE test'[j] = test[j]
    BY <1>1, <2>3 DEF WorkerBoots, ResetStale, TestsIn, Terminal
  <2>4. CASE Middle(w)
    BY <1>1, <1>2, <2>4, MiddleSteps
  <2>5. QED
    BY <1>2, <1>3, <2>1, <2>2, <2>3, <2>4, RunnerSteps
       DEF Overlooks, Stores, FinishBreaks, Purges, Announces, GivesUp, WorkerDies, Stumbles
<1>4. CASE DeleteCommits
  BY <1>4 DEF DeleteCommits, AllGone, Exists, Unused, Terminal
<1>5. CASE Enqueue \/ \E i \in TestIds : Pin(i) \/ Unpin(i) \/ CancelJob(i)
  BY <1>1, <1>5 DEF Enqueue, InsertTest, Pin, Unpin, CancelJob, CancelTest, TestsIn, TestRow, Terminal
<1>6. CASE Stream \/ OpponentLeaves \/ UNCHANGED vars
  BY <1>2, <1>6 DEF Stream, OpponentLeaves, vars
<1>7. CASE \/ \E what \in {"save", "restore"} : SaveBegins(what)
           \/ \E code \in Codes \union {NoCode} : SaveCommits(code)
           \/ Submit \/ UploadLoads \/ UploadCommits \/ UploadRollsBack
           \/ (\E left \in SUBSET TestIds : DeleteBegins(left)) \/ DeleteRollsBack
  BY <1>2, <1>7 DEF SaveBegins, SaveCommits, Submit, UploadLoads, UploadCommits, UploadRollsBack,
    DeleteBegins, DeleteRollsBack
<1>8. CASE User
  BY <1>4, <1>5, <1>7, <1>8 DEF User
<1>9. QED
  BY <1>3, <1>6, <1>8 DEF Next

\* An outcome stays what it is: only the late writer of a job that a boot
\* failed as stale rewrites one.
THEOREM OutcomesStay == Spec => OutcomesAreFinal
<1> DEFINE Body == \A j \in TestIds \ past.reset :
       test[j].status \in Terminal => test'[j].status \in {test[j].status, "gone"}
<1>1. JInv /\ [Next]_vars => [Body]_vars
  BY OutcomesKept
<1> HIDE DEF Body
<1>2. QED
  BY <1>1, JobsHold, PTL DEF Spec, OutcomesAreFinal, Body

------------------------------------------------------------------------------
(* Retention.                                                              *)

LEMMA Least ==
  ASSUME NEW S, S \subseteq Nat, S # {}
  PROVE  \E m \in S : \A n \in S : m <= n
<1> DEFINE less == {ss \in Nat \X Nat : ss[1] < ss[2]}
<1>1. IsWellFoundedOn(less, Nat)
  BY NatLessThanWellFounded DEF OpToRel
<1> HIDE DEF less
<1>2. PICK m \in S : \A n \in S : ~(<<n, m>> \in less)
  BY <1>1, WFMin
<1>3. \A n \in S : ~(n < m)
  BY <1>2 DEF less
<1>4. QED
  BY <1>3

\* Of the rows that prune may delete, it leaves no more than there is room for.
LEMMA RoomIsKept ==
  ASSUME NEW rows \in [TestIds -> TestRow]
  PROVE  LET loose == {j \in TestIds \ Pinned(rows) : rows[j].status \in Terminal}
             kept == loose \ Prunable(rows)
         IN kept = {} \/ Cardinality(kept) <= BundleLimit - Cardinality(Pinned(rows))
<1> DEFINE loose == {j \in TestIds \ Pinned(rows) : rows[j].status \in Terminal}
           room == BundleLimit - Cardinality(Pinned(rows))
           kept == loose \ Prunable(rows)
           Newer(j) == {i \in loose : i > j}
<1>1. IsFiniteSet(TestIds) /\ TestIds \subseteq Nat
  BY TestsAssumption, FS_Interval DEF TestIds
<1>2. /\ IsFiniteSet(loose) /\ IsFiniteSet(kept) /\ loose \subseteq TestIds
      /\ Cardinality(Pinned(rows)) \in Nat
  <2>1. loose \in SUBSET TestIds /\ kept \in SUBSET TestIds /\ Pinned(rows) \in SUBSET TestIds
    BY DEF Pinned
  <2>2. QED
    BY <1>1, <2>1, FS_Subset, FS_CardinalityType
<1>3. \A j \in kept : ~(Cardinality(Newer(j)) >= room)
  BY DEF Prunable
<1>4. room \in Int
  BY <1>2, TestsAssumption
<1> HIDE DEF room
<1>5. SUFFICES ASSUME kept # {} PROVE Cardinality(kept) <= room
  BY DEF room
<1>6. PICK m \in kept : \A n \in kept : m <= n
  <2>1. kept \subseteq Nat
    BY <1>1
  <2>2. QED
    BY <1>5, <2>1, Least
<1>7. kept \ {m} \subseteq Newer(m)
  <2>1. SUFFICES ASSUME NEW n \in kept, n # m PROVE n \in Newer(m)
    OBVIOUS
  <2>2. m \in Nat /\ n \in Nat /\ n \in loose
    BY <1>1, <1>6
  <2>3. n > m
    BY <1>6, <2>1, <2>2
  <2> HIDE DEF loose, kept
  <2>4. QED
    BY <2>2, <2>3
<1>8. IsFiniteSet(Newer(m)) /\ Cardinality(Newer(m)) \in Nat
  <2>1. Newer(m) \in SUBSET loose
    OBVIOUS
  <2>2. QED
    BY <1>2, <2>1, FS_Subset, FS_CardinalityType
<1>9. Cardinality(kept \ {m}) <= Cardinality(Newer(m))
  BY <1>7, <1>8, FS_Subset
<1>10. Cardinality(kept \ {m}) = Cardinality(kept) - 1 /\ Cardinality(kept) \in Nat
  BY <1>2, <1>6, FS_RemoveElement, FS_CardinalityType
<1>11. Cardinality(Newer(m)) < room
  BY <1>3, <1>4, <1>6, <1>8
<1> HIDE DEF kept, Newer
<1>12. QED
  BY <1>4, <1>8, <1>9, <1>10, <1>11

\* The rows with a bundle, once an outcome is recorded.
LEMMA PrunedIsBounded ==
  ASSUME NEW rows \in [TestIds -> TestRow],
         \A j \in TestIds : rows[j].key => rows[j].status \in Terminal
  PROVE  \/ Cardinality(Keyed(Pruned(rows))) <= BundleLimit
         \/ Keyed(Pruned(rows)) \subseteq Pinned(Pruned(rows))
<1> DEFINE loose == {j \in TestIds \ Pinned(rows) : rows[j].status \in Terminal}
           kept == loose \ Prunable(rows)
           keyed == Keyed(Pruned(rows))
<1>1. Prunable(rows) \subseteq loose
  BY DEF Prunable
<1>2. \A j \in TestIds : j \notin Prunable(rows) => Pruned(rows)[j] = rows[j]
  BY DEF Pruned
<1>3. \A j \in Prunable(rows) : ~Pruned(rows)[j].key
  BY DEF Pruned, Prunable, Unused
<1>4. Pinned(rows) \subseteq Pinned(Pruned(rows))
  BY <1>1, <1>2 DEF Pinned
<1>5. keyed \subseteq Pinned(rows) \union kept
  BY <1>2, <1>3 DEF Keyed, Pinned
<1>6. IsFiniteSet(kept) /\ IsFiniteSet(Pinned(rows))
  <2>1. IsFiniteSet(TestIds)
    BY TestsAssumption, FS_Interval DEF TestIds
  <2>2. kept \in SUBSET TestIds /\ Pinned(rows) \in SUBSET TestIds
    BY DEF Pinned
  <2>3. QED
    BY <2>1, <2>2, FS_Subset
<1>7. kept = {} \/ Cardinality(kept) <= BundleLimit - Cardinality(Pinned(rows))
  BY RoomIsKept
<1> HIDE DEF kept, keyed
<1>8. CASE kept = {}
  BY <1>4, <1>5, <1>8 DEF keyed
<1>9. CASE Cardinality(kept) <= BundleLimit - Cardinality(Pinned(rows))
  <2> DEFINE both == Pinned(rows) \union kept
             common == Pinned(rows) \intersect kept
  <2>1. IsFiniteSet(both) /\ Cardinality(both) = Cardinality(Pinned(rows)) + Cardinality(kept)
                                                  - Cardinality(common)
    BY <1>6, FS_Union
  <2>2. IsFiniteSet(common)
    BY <1>6, FS_Intersection
  <2>3. /\ Cardinality(common) \in Nat /\ Cardinality(kept) \in Nat
        /\ Cardinality(Pinned(rows)) \in Nat /\ Cardinality(both) \in Nat
    BY <1>6, <2>1, <2>2, FS_CardinalityType
  <2>4. Cardinality(keyed) <= Cardinality(both) /\ IsFiniteSet(keyed)
    BY <1>5, <2>1, FS_Subset
  <2>5. Cardinality(keyed) \in Nat
    BY <2>4, FS_CardinalityType
  <2> HIDE DEF both, common
  <2>6. Cardinality(keyed) <= BundleLimit
    BY <1>9, <2>1, <2>3, <2>4, <2>5, TestsAssumption
  <2>7. QED
    BY <2>6 DEF keyed
<1>10. QED
  BY <1>7, <1>8, <1>9

\* Only the transaction of a success gives a row its key.
LEMMA KeysComeWithSuccess ==
  ASSUME JInv, [Next]_vars, ~(Keyed(test') \subseteq Keyed(test))
  PROVE  \E w \in Workers : Finishes(w) /\ test[worker[w].job].status # "gone"
<1>1. test \in [TestIds -> TestRow] /\ TypeOK
  BY DEF JInv, TInv, TypeOK
<1>2. PICK j \in TestIds : test'[j].key /\ ~test[j].key
  BY DEF Keyed
<1>3. CASE \A i \in TestIds : test'[i].key => test[i].key
  BY <1>2, <1>3
<1>4. ASSUME NEW w \in Workers, Works(w) \/ Boots(w) \/ Accident(w)
      PROVE  Finishes(w) /\ test[worker[w].job].status # "gone"
  <2>1. CASE Finishes(w)
    <3>1. worker[w].job = j /\ j \in TestIds
      BY <1>2, <2>1, Recording
    <3>2. CASE test[j].status = "gone"
      <4>1. test'[j].status = "gone" /\ (test'[j].key => test'[j].status \in Terminal)
        BY <2>1, <3>1, <3>2, Recording
      <4>2. QED
        BY <1>2, <4>1 DEF Terminal
    <3>3. QED
      BY <2>1, <3>1, <3>2
  <2>2. CASE RecordsFailure(w)
    <3>1. worker[w].job = j /\ j \in TestIds
      BY <1>2, <2>2, Recording
    <3>2. Failed(j) \in [TestIds -> TestRow]
      BY <1>1, <3>1, TestsTyped
    <3>3. Failed(j)[j].key = test[j].key
      BY <1>1, <3>1 DEF Failed, TestRow
    <3>4. ~Pruned(Failed(j))[j].key
      BY <1>2, <3>2, <3>3 DEF Pruned, Unused
    <3>5. QED
      BY <1>2, <2>2, <3>1, <3>4 DEF RecordsFailure
  <2>3. ASSUME NEW i \in TestIds, Claims(w, i) PROVE test'[j].key = test[j].key
    BY <1>1, <2>3 DEF Claims, ClaimTest, TestRow
  <2>4. ASSUME NEW old \in SUBSET TestIds, WorkerBoots(w, old) PROVE test'[j].key = test[j].key
    BY <1>1, <2>4 DEF WorkerBoots, ResetStale, TestRow
  <2>5. CASE Middle(w)
    BY <1>1, <1>2, <2>5, MiddleSteps
  <2>6. QED
    BY <1>2, <1>4, <2>1, <2>2, <2>3, <2>4, <2>5, RunnerSteps
       DEF Overlooks, Stores, FinishBreaks, Purges, Announces, GivesUp, WorkerDies, Stumbles
<1>5. ASSUME DeleteCommits PROVE test'[j].key => test[j].key
  BY <1>5 DEF DeleteCommits, AllGone, Unused
<1>6. CASE Enqueue \/ \E i \in TestIds : Pin(i) \/ Unpin(i) \/ CancelJob(i)
  BY <1>1, <1>2, <1>6 DEF Enqueue, InsertTest, Pin, Unpin, CancelJob, CancelTest, TestRow
<1>7. CASE Stream \/ OpponentLeaves \/ UNCHANGED vars
  BY <1>2, <1>7 DEF Stream, OpponentLeaves, vars
<1>8. CASE \/ \E what \in {"save", "restore"} : SaveBegins(what)
           \/ \E code \in Codes \union {NoCode} : SaveCommits(code)
           \/ Submit \/ UploadLoads \/ UploadCommits \/ UploadRollsBack
           \/ (\E left \in SUBSET TestIds : DeleteBegins(left)) \/ DeleteRollsBack
  BY <1>2, <1>8 DEF SaveBegins, SaveCommits, Submit, UploadLoads, UploadCommits, UploadRollsBack,
    DeleteBegins, DeleteRollsBack
<1>9. CASE User
  BY <1>2, <1>5, <1>6, <1>8, <1>9 DEF User
<1>10. QED
  BY <1>4, <1>7, <1>9 DEF Next

LEMMA RetentionStep ==
  ASSUME JInv, [Next]_vars, ~(Keyed(test') \subseteq Keyed(test))
  PROVE  Cardinality(Keyed(test')) <= BundleLimit \/ Keyed(test') \subseteq Pinned(test')
<1>1. PICK w \in Workers : Finishes(w) /\ test[worker[w].job].status # "gone"
  BY KeysComeWithSuccess
<1> DEFINE j == worker[w].job
           rows == Succeeded(j, worker[w].key)
<1>2. /\ j \in TestIds /\ test \in [TestIds -> TestRow] /\ worker[w].key \in BOOLEAN
      /\ test[j].status \notin {"none", "gone"}
  <2>1. j \in TestIds /\ Inside(w)
    BY <1>1, Recording
  <2>2. test[j].status # "none"
    BY <2>1 DEF TestIds, JInv, Held
  <2>3. QED
    BY <1>1, <2>1, <2>2 DEF JInv, TInv, TypeOK, WorkerState
<1>3. rows \in [TestIds -> TestRow]
  BY <1>2, TestsTyped
<1>4. \A i \in TestIds : rows[i].key => rows[i].status \in Terminal
  BY <1>2 DEF Succeeded, Exists, TestRow, Terminal, JInv, KeysAreSettled
<1>5. test' = Pruned(rows)
  BY <1>1 DEF Finishes
<1> HIDE DEF rows
<1>6. QED
  BY <1>3, <1>4, <1>5, PrunedIsBounded

\* Retention: the transaction that records a bundle leaves no more of them than
\* the limit, or than are pinned.
THEOREM BundlesAreBounded == Spec => StoredBundlesBounded
<1> DEFINE Body == ~(Keyed(test') \subseteq Keyed(test)) =>
       \/ Cardinality(Keyed(test')) <= BundleLimit
       \/ Keyed(test') \subseteq Pinned(test')
<1>1. JInv /\ [Next]_vars => [Body]_vars
  BY RetentionStep
<1> HIDE DEF Body
<1>2. QED
  BY <1>1, JobsHold, PTL DEF Spec, StoredBundlesBounded, Body

------------------------------------------------------------------------------
(* The test board.  A runner has the job in hand from the claim until it has *)
(* recorded an outcome; the purge and the announcement come after.           *)

LEMMA HandIs ==
  ASSUME TInv, NEW w \in Workers
  PROVE  Hand[w] = IF Inside(w) THEN worker[w].job ELSE 0
BY DEF TInv, Busy, Inside, Hand

\* The same of the state a step leads to.
LEMMA HandIsNext ==
  ASSUME TInv', NEW w \in Workers
  PROVE  Hand'[w] = IF Inside(w)' THEN worker'[w].job ELSE 0
BY DEF TInv, Busy, Inside, Hand

\* The board does not see what is not about outcomes.
LEMMA BoardRests ==
  ASSUME TInv, TInv', UNCHANGED past.reset,
         \A j \in TestIds : test'[j].status = test[j].status,
         \A w \in Workers : Inside(w)' = Inside(w) /\ worker'[w].job = worker[w].job
  PROVE  UNCHANGED <<Phase, Hand, past.reset>>
<1>1. Phase' = Phase
  BY DEF Phase
<1>2. \A w \in Workers : Hand'[w] = Hand[w]
  BY HandIs, HandIsNext
<1>3. Hand' = Hand
  BY <1>2 DEF Hand
<1>4. QED
  BY <1>1, <1>3

\* A runner gets or loses its job.
LEMMA OneHandMoves ==
  ASSUME TInv, TInv', NEW w \in Workers, NEW j,
         IF Inside(w)' THEN worker'[w].job = j ELSE j = 0,
         \A v \in Workers \ {w} : worker'[v] = worker[v]
  PROVE  Hand' = [Hand EXCEPT ![w] = j]
<1>1. Hand'[w] = j
  BY HandIsNext
<1>2. \A v \in Workers \ {w} : Hand'[v] = Hand[v]
  BY DEF Hand
<1>3. QED
  BY <1>1, <1>2 DEF Hand

LEMMA ClaimTakesFromBoard ==
  ASSUME JInv, TInv', NEW w \in Workers, NEW j \in TestIds, Claims(w, j)
  PROVE  Board!Next
<1>1. /\ worker \in [Workers -> WorkerState] /\ test \in [TestIds -> TestRow] /\ TInv
  BY DEF JInv, TInv, TypeOK
<1>2. /\ \A v \in Workers \ {w} : worker'[v] = worker[v]
      /\ worker'[w].job = j /\ worker'[w].pc = "check"
  BY <1>1 DEF Claims, WorkerState
<1>3. Hand' = [Hand EXCEPT ![w] = j]
  BY <1>1, <1>2, OneHandMoves DEF Inside
<1>4. Hand[w] = 0
  BY <1>1, HandIs DEF Claims, At, Inside
<1>5. Phase[j] = "queued" /\ Phase' = [Phase EXCEPT ![j] = "running"]
  BY <1>1 DEF Claims, ClaimTest, TestsIn, TestRow, Phase
<1>6. UNCHANGED past.reset
  BY DEF Claims, JInv, TInv, TypeOK
<1>7. Board!Take(w, j)
  BY <1>3, <1>4, <1>5, <1>6 DEF Board!Take
<1>8. QED
  BY <1>7 DEF Board!Next

LEMMA RecordingSettlesOnBoard ==
  ASSUME JInv, TInv', NEW w \in Workers, Finishes(w) \/ RecordsFailure(w)
  PROVE  Board!Next
<1> DEFINE j == worker[w].job
           old == {i \in TestIds : Phase'[i] = "gone" /\ (i = j \/ Phase[i] # "gone")}
           outcome == IF Phase'[j] = "gone" THEN "failure" ELSE Phase'[j]
<1>1. /\ j \in TestIds /\ Inside(w)
      /\ \A v \in Workers \ {w} : worker'[v] = worker[v]
      /\ worker'[w].pc = "purge"
      /\ \A i \in TestIds \ {j} :
           \/ test'[i] = test[i]
           \/ test[i].status \in Terminal /\ test'[i].status = "gone"
      /\ test'[j].status \in Settled \ {"cancelled"}
      /\ test[j].status = "gone" => test'[j].status = "gone"
      /\ UNCHANGED past
  BY Recording
<1>2. TInv
  BY DEF JInv
<1>3. /\ \A i \in TestIds : Phase[i] = test[i].status /\ Phase'[i] = test'[i].status
      /\ DOMAIN Phase' = TestIds /\ Phase' = [i \in TestIds |-> Phase'[i]]
  BY DEF Phase
<1>4. Phase[j] \in {"running", "gone"} \/ j \in past.reset
  <2>1. j # 0
    BY <1>1 DEF TestIds
  <2>2. QED
    BY <1>1, <1>3, <2>1 DEF JInv, Held
<1>5. Hand[w] = j
  BY <1>1, <1>2, HandIs
<1>6. Hand' = [Hand EXCEPT ![w] = 0]
  BY <1>1, <1>2, OneHandMoves DEF Inside
<1> HIDE DEF j
<1>7. old \subseteq {j} \union {i \in TestIds : Phase[i] \in Board!Settled} /\ old \in SUBSET TestIds
  BY <1>1, <1>3 DEF Board!Settled, Terminal
<1>8. outcome \in {"success", "failure"}
  BY <1>1, <1>3 DEF Settled, Terminal
<1>9. ASSUME NEW i \in TestIds
      PROVE  Phase'[i] = IF i \in old THEN "gone"
                         ELSE IF i = j /\ Phase[j] # "gone" THEN outcome ELSE Phase[i]
  <2>1. CASE i = j
    BY <1>1, <1>3, <2>1
  <2>2. CASE i # j
    BY <1>1, <1>3, <2>2
  <2>3. QED
    BY <2>1, <2>2
<1> HIDE DEF old, outcome
<1>10. Phase' = [i \in TestIds |-> IF i \in old THEN "gone"
                  ELSE IF i = j /\ Phase[j] # "gone" THEN outcome ELSE Phase[i]]
  BY <1>3, <1>9
<1>11. UNCHANGED past.reset
  BY <1>1
<1>12. Board!Settle(w, j, outcome, old)
  BY <1>4, <1>5, <1>6, <1>7, <1>10, <1>11 DEF Board!Settle
<1>13. QED
  BY <1>1, <1>7, <1>8, <1>12 DEF Board!Next

LEMMA BootExpiresOnBoard ==
  ASSUME JInv, TInv', NEW w \in Workers, NEW old \in SUBSET TestIds, WorkerBoots(w, old)
  PROVE  Board!Next
<1>1. /\ worker \in [Workers -> WorkerState] /\ test \in [TestIds -> TestRow] /\ TInv
  BY DEF JInv, TInv, TypeOK
<1>2. \A j \in old : Phase[j] = "running"
  BY DEF WorkerBoots, ResetStale, TestsIn, Phase
<1>3. Phase' = [j \in TestIds |-> IF j \in old THEN "failure" ELSE Phase[j]]
  BY <1>1 DEF WorkerBoots, ResetStale, TestRow, Phase
<1>4. past'.reset = past.reset \union old
  BY DEF WorkerBoots, JInv, TInv, TypeOK
<1>5. UNCHANGED Hand
  <2>1. ~Inside(w) /\ ~Inside(w)' /\ \A v \in Workers \ {w} : worker'[v] = worker[v]
    BY <1>1 DEF WorkerBoots, At, Inside, WorkerRest
  <2>2. Hand' = [Hand EXCEPT ![w] = 0] /\ Hand[w] = 0
    BY <1>1, <2>1, OneHandMoves, HandIs
  <2>3. QED
    BY <2>2 DEF Hand
<1>6. Board!Expire(old)
  BY <1>2, <1>3, <1>4, <1>5 DEF Board!Expire
<1>7. QED
  BY <1>6 DEF Board!Next

LEMMA UserOnBoard ==
  ASSUME JInv, TInv', User
  PROVE  Board!Next \/ UNCHANGED <<Phase, Hand, past.reset>>
<1>0. /\ worker \in [Workers -> WorkerState] /\ test \in [TestIds -> TestRow] /\ TInv
  BY DEF JInv, TInv, TypeOK
<1>1. CASE \/ \E what \in {"save", "restore"} : SaveBegins(what)
           \/ \E code \in Codes \union {NoCode} : SaveCommits(code)
           \/ Submit \/ UploadLoads \/ UploadCommits \/ UploadRollsBack
           \/ (\E left \in SUBSET TestIds : DeleteBegins(left)) \/ DeleteRollsBack
  <2>1. UNCHANGED test
    BY <1>1 DEF SaveBegins, SaveCommits, Submit, UploadLoads, UploadCommits, UploadRollsBack,
      DeleteBegins, DeleteRollsBack
  <2>2. UNCHANGED past.reset
    BY <1>1 DEF SaveBegins, SaveCommits, Submit, UploadLoads, UploadCommits, UploadRollsBack,
                DeleteBegins, DeleteRollsBack, JInv, TInv, TypeOK
  <2>3. \A w \in Workers : Inside(w)' = Inside(w) /\ worker'[w].job = worker[w].job
    <3>1. CASE \E what \in {"save", "restore"} : SaveBegins(what)
      BY <1>0, <3>1 DEF SaveBegins, Inside, WorkerState
    <3>2. CASE UNCHANGED worker
      BY <3>2 DEF Inside
    <3>3. QED
      BY <1>1, <3>1, <3>2 DEF SaveCommits, Submit, UploadLoads, UploadCommits, UploadRollsBack,
        DeleteBegins, DeleteRollsBack
  <2>4. QED
    BY <1>0, <2>1, <2>2, <2>3, BoardRests
<1>2. ASSUME UNCHANGED <<worker, past>>
      PROVE  UNCHANGED <<Hand, past.reset>>
  BY <1>2 DEF Hand
<1>3. ASSUME DeleteCommits PROVE Board!Next
  <2>1. Phase' = [j \in TestIds |-> IF Phase[j] = "none" THEN "none" ELSE "gone"]
    <3>1. \A j \in TestIds : test'[j].status = IF test[j].status = "none" THEN "none" ELSE "gone"
      BY <1>3 DEF DeleteCommits, AllGone, Exists, Unused
    <3>2. QED
      BY <3>1 DEF Phase
  <2>2. UNCHANGED <<Hand, past.reset>>
    BY <1>2, <1>3 DEF DeleteCommits
  <2>3. QED
    BY <2>1, <2>2 DEF Board!Next, Board!Erase
<1>4. CASE Enqueue
  <2>1. PICK j \in TestIds :
          /\ test[j].status = "none"
          /\ \A i \in TestIds : test[i].status = "none" => j <= i
          /\ test' = [test EXCEPT ![j].status = "queued"]
    BY <1>4 DEF Enqueue, InsertTest, TestsIn
  <2>2. \A i \in TestIds : Phase[i] \notin {"queued", "running"}
    BY <1>4 DEF Enqueue, TestsIn, Active, Phase
  <2>3. \A i \in TestIds : i < j => Phase[i] # "none"
    BY <2>1 DEF Phase, TestIds
  <2>4. Phase[j] = "none" /\ Phase' = [Phase EXCEPT ![j] = "queued"]
    BY <1>0, <2>1 DEF Phase, TestRow
  <2>5. UNCHANGED <<Hand, past.reset>>
    BY <1>2, <1>4 DEF Enqueue
  <2>6. Board!Post(j)
    BY <2>2, <2>3, <2>4, <2>5 DEF Board!Post
  <2>7. QED
    BY <2>6 DEF Board!Next
<1>5. ASSUME NEW j \in TestIds, CancelJob(j) PROVE Board!Next
  <2>1. Phase[j] = "queued" /\ Phase' = [Phase EXCEPT ![j] = "cancelled"]
    BY <1>0, <1>5 DEF CancelJob, CancelTest, TestsIn, Phase, TestRow
  <2>2. UNCHANGED <<Hand, past.reset>>
    BY <1>2, <1>5 DEF CancelJob
  <2>3. Board!Withdraw(j)
    BY <2>1, <2>2 DEF Board!Withdraw
  <2>4. QED
    BY <2>3 DEF Board!Next
<1>6. ASSUME NEW j \in TestIds, Pin(j) \/ Unpin(j) PROVE UNCHANGED <<Phase, Hand, past.reset>>
  <2>1. \A i \in TestIds : test'[i].status = test[i].status
    BY <1>0, <1>6 DEF Pin, Unpin, TestRow
  <2>2. UNCHANGED Phase
    BY <2>1 DEF Phase
  <2>3. QED
    BY <1>2, <1>6, <2>2 DEF Pin, Unpin
<1>7. QED
  BY <1>1, <1>3, <1>4, <1>5, <1>6 DEF User

LEMMA StepsAreBoardSteps ==
  ASSUME JInv, [Next]_vars
  PROVE  [Board!Next]_<<Phase, Hand, past.reset>>
<1> DEFINE Goal == Board!Next \/ UNCHANGED <<Phase, Hand, past.reset>>
<1>0. /\ worker \in [Workers -> WorkerState] /\ test \in [TestIds -> TestRow]
      /\ TInv /\ TInv' /\ TypeOK
  BY NextTyped DEF JInv, TInv, TypeOK
<1>1. ASSUME NEW w \in Workers, Works(w) \/ Boots(w) \/ Accident(w) PROVE Goal
  <2>1. CASE Middle(w)
    <3>1. /\ UNCHANGED <<test, past.reset>>
          /\ \A v \in Workers : Inside(v)' = Inside(v) /\ worker'[v].job = worker[v].job
      BY <1>0, <2>1, MiddleSteps DEF Inside
    <3>2. QED
      BY <1>0, <3>1, BoardRests
  <2>2. ASSUME \/ \E stored \in BOOLEAN : Stores(w, stored)
               \/ FinishBreaks(w)
               \/ \E left : Purges(w, left)
        PROVE  Goal
    <3>1. \A v \in Workers : Inside(v)' = Inside(v) /\ worker'[v].job = worker[v].job
      BY <1>0, <2>2 DEF Stores, FinishBreaks, Purges, At, Inside, WorkerState
    <3>2. UNCHANGED <<test, past>>
      BY <2>2 DEF Stores, FinishBreaks, Purges
    <3>3. QED
      BY <1>0, <3>1, <3>2, BoardRests
  <2>3. ASSUME NEW heard \in BOOLEAN, Announces(w, heard) PROVE Goal
    <3>1. ~Inside(w) /\ ~Inside(w)' /\ \A v \in Workers \ {w} : worker'[v] = worker[v]
      BY <1>0, <2>3 DEF Announces, At, Inside, WorkerRest
    <3>2. Hand' = [Hand EXCEPT ![w] = 0] /\ Hand[w] = 0
      BY <1>0, <3>1, OneHandMoves, HandIs
    <3>3. Hand' = Hand
      BY <3>2 DEF Hand
    <3>4. UNCHANGED <<test, past.reset>>
      BY <1>0, <2>3 DEF Announces, TypeOK
    <3>5. QED
      BY <3>3, <3>4 DEF Phase
  <2>4. CASE GivesUp(w) \/ WorkerDies(w) \/ Stumbles(w)
    <3>1. ~Inside(w)' /\ \A v \in Workers \ {w} : worker'[v] = worker[v]
      BY <1>0, <2>4 DEF GivesUp, WorkerDies, Stumbles, Inside, WorkerRest
    <3>2. Hand' = [Hand EXCEPT ![w] = 0]
      BY <1>0, <3>1, OneHandMoves
    <3>3. UNCHANGED <<test, past.reset>>
      BY <1>0, <2>4 DEF GivesUp, WorkerDies, Stumbles, TypeOK
    <3>4. UNCHANGED Phase
      BY <3>3 DEF Phase
    <3>5. CASE Hand[w] # 0
      BY <3>2, <3>3, <3>4, <3>5 DEF Board!Next, Board!Drop
    <3>6. CASE Hand[w] = 0
      <4>1. Hand' = Hand
        BY <3>2, <3>6 DEF Hand
      <4>2. QED
        BY <3>3, <3>4, <4>1
    <3>7. QED
      BY <3>5, <3>6
  <2>5. ASSUME NEW j \in TestIds, Overlooks(w, j) PROVE Goal
    <3>1. \A v \in Workers : Inside(v)' = Inside(v) /\ worker'[v].job = worker[v].job
      BY <2>5 DEF Overlooks, Inside
    <3>2. UNCHANGED <<test, past.reset>>
      BY <1>0, <2>5 DEF Overlooks, TypeOK
    <3>3. QED
      BY <1>0, <3>1, <3>2, BoardRests
  <2>6. QED
    BY <1>0, <1>1, <2>1, <2>2, <2>3, <2>4, <2>5, RunnerSteps, ClaimTakesFromBoard,
       RecordingSettlesOnBoard, BootExpiresOnBoard
<1>2. CASE User
  BY <1>0, <1>2, UserOnBoard
<1>3. CASE Stream \/ OpponentLeaves \/ UNCHANGED vars
  <2>1. UNCHANGED <<test, worker, past>>
    BY <1>3 DEF Stream, OpponentLeaves, vars
  <2>2. QED
    BY <2>1 DEF Phase, Hand
<1>4. QED
  BY <1>1, <1>2, <1>3 DEF Next

\* The table of test jobs with its runners implements the test board: one
\* active job of a project, one runner to give it its outcome, and a second
\* outcome only after a reset over that runner's head.
THEOREM TestRefinement == Spec => ImplementsTestBoard
<1>1. Init => Board!Init
  <2> SUFFICES ASSUME Init PROVE Board!Init
    OBVIOUS
  <2>1. \A w \in Workers : worker[w].job = 0
    BY DEF Init, WorkerRest
  <2>2. Hand = [w \in Workers |-> 0]
    BY <2>1 DEF Hand
  <2>3. Phase = [j \in TestIds |-> "none"] /\ past.reset = {}
    BY DEF Init, TestsInit, Unused, Phase
  <2>4. QED
    BY <2>2, <2>3 DEF Board!Init
<1>2. JInv /\ [Next]_vars => [Board!Next]_<<Phase, Hand, past.reset>>
  BY StepsAreBoardSteps
<1>3. QED
  BY <1>1, <1>2, JobsHold, PTL DEF Spec, ImplementsTestBoard, Board!Spec
=============================================================================
