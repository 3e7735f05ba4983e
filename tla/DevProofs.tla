------------------------------- MODULE DevProofs ------------------------------
(***************************************************************************)
(* The development pipeline for every number of test runners, tests,       *)
(* images and versions: types, and the shape of a runner's steps.          *)
(***************************************************************************)
EXTENDS DevPipeline, SequenceTheorems, TLAPS

\* A runner has a job except when it waits for one or is down.
Busy == \A w \in Workers : worker[w].job = 0 <=> worker[w].pc \in {"down", "idle"}

------------------------------------------------------------------------------
(* Types.                                                                  *)

LEMMA UpdateTyped ==
  ASSUME project \in Row, NEW row \in Row, Update(row)
  PROVE  project' \in Row
BY DEF Update

LEMMA StatusTyped ==
  ASSUME project \in Row,
         NEW status \in {"building", "failed", "built", "crashed", "ready"}
  PROVE  [project EXCEPT !.status = status] \in Row
BY DEF Row

LEMMA BuiltTyped ==
  ASSUME project \in Row, NEW i \in ImageIds \union {NoImage}
  PROVE  Built(i) \in Row
BY DEF Row, Built

LEMMA OvertakeTyped ==
  ASSUME saving \in [what : {"none", "save", "restore"}, overtaken : BOOLEAN], Overtake
  PROVE  saving' \in [what : {"none", "save", "restore"}, overtaken : BOOLEAN]
BY DEF Overtake

LEMMA NewImageTyped ==
  ASSUME TypeOK, NEW code \in Codes \union {NoCode}, NEW raced \in BOOLEAN,
         NewImage(code, raced)
  PROVE  /\ made' \in Seq([code : Codes \union {NoCode}, raced : BOOLEAN])
         /\ Len(made') = Len(made) + 1 /\ Len(made') <= MaxImages
         /\ Len(made') \in ImageIds
         /\ images \union {Len(made')} \subseteq 1 .. Len(made')
<1> DEFINE Made == [code : Codes \union {NoCode}, raced : BOOLEAN]
<1>1. /\ made \in Seq(Made) /\ Len(made) \in Nat /\ Len(made) < MaxImages
      /\ made' = Append(made, [code |-> code, raced |-> raced])
      /\ [code |-> code, raced |-> raced] \in Made /\ MaxImages \in Nat
  BY DevAssumption DEF TypeOK, NewImage
<1>2. made' \in Seq(Made) /\ Len(made') = Len(made) + 1
  BY <1>1
<1>3. Len(made') <= MaxImages /\ Len(made') \in ImageIds
  BY <1>1, <1>2 DEF ImageIds
<1>4. images \union {Len(made')} \subseteq 1 .. Len(made')
  <2>1. 1 .. Len(made') = 1 .. Len(made) \union {Len(made')}
    BY <1>1, <1>2
  <2>2. images \subseteq 1 .. Len(made)
    BY DEF TypeOK
  <2>3. QED
    BY <2>1, <2>2
<1>5. QED
  BY <1>2, <1>3, <1>4

LEMMA TestsTyped ==
  ASSUME test \in [TestIds -> TestRow], NEW j \in TestIds, NEW key \in BOOLEAN
  PROVE  /\ Succeeded(j, key) \in [TestIds -> TestRow]
         /\ Failed(j) \in [TestIds -> TestRow]
         /\ AllGone \in [TestIds -> TestRow]
<1>1. /\ [test[j] EXCEPT !.status = "success", !.key = key] \in TestRow
      /\ [test[j] EXCEPT !.status = "failure"] \in TestRow
  BY DEF TestRow, Terminal
<1>2. Unused("gone") \in TestRow
  BY DEF Unused, TestRow
<1>3. Succeeded(j, key) \in [TestIds -> TestRow]
  BY <1>1 DEF Succeeded
<1>4. Failed(j) \in [TestIds -> TestRow]
  BY <1>1 DEF Failed
<1>5. AllGone \in [TestIds -> TestRow]
  BY <1>2 DEF AllGone
<1>6. QED
  BY <1>3, <1>4, <1>5

LEMMA PrunedTyped ==
  ASSUME NEW rows \in [TestIds -> TestRow]
  PROVE  Pruned(rows) \in [TestIds -> TestRow]
BY DEF Pruned, Unused, TestRow

LEMMA PublishTyped ==
  ASSUME viewer \in ViewerState, NEW j, NEW status \in {"success", "failure"},
         Publish(j, status)
  PROVE  viewer' \in ViewerState
BY DEF Publish, ViewerState

LEMMA RestTyped ==
  ASSUME NEW pc \in {"down", "idle", "purge"}
  PROVE  WorkerRest(pc) \in WorkerState
BY DEF WorkerRest, WorkerState

\* A step of worker w that leaves it in a state of the type.
LEMMA WorkerTyped ==
  ASSUME worker \in [Workers -> WorkerState], NEW w \in Workers, NEW s \in WorkerState,
         worker' = [worker EXCEPT ![w] = s]
  PROVE  worker' \in [Workers -> WorkerState]
OBVIOUS

LEMMA PcTyped ==
  ASSUME worker \in [Workers -> WorkerState], NEW w \in Workers,
         NEW pc \in {"check", "lookup", "start", "docker", "built", "unbuilt", "collect",
                     "resolve", "match", "verdict", "blame", "bundle", "finish", "fail",
                     "purge", "announce"},
         Goes(w, pc)
  PROVE  worker' \in [Workers -> WorkerState]
<1>1. worker' = [worker EXCEPT ![w] = [worker[w] EXCEPT !.pc = pc]]
  BY DEF Goes
<1>2. [worker[w] EXCEPT !.pc = pc] \in WorkerState
  BY DEF WorkerState
<1>3. QED
  BY <1>1, <1>2

Past == [overlap : BOOLEAN, rolledBack : BOOLEAN, removed : SUBSET TestIds,
         overlooked : SUBSET TestIds, lost : SUBSET TestIds, silent : SUBSET TestIds,
         reset : SUBSET TestIds, validated : SUBSET ImageIds]

LEMMA PastTyped ==
  ASSUME past \in Past, NEW jobs \in SUBSET TestIds
  PROVE  /\ [past EXCEPT !.removed = past.removed \union jobs] \in Past
         /\ [past EXCEPT !.overlooked = past.overlooked \union jobs] \in Past
         /\ [past EXCEPT !.lost = past.lost \union jobs] \in Past
         /\ [past EXCEPT !.silent = past.silent \union jobs] \in Past
         /\ [past EXCEPT !.reset = past.reset \union jobs] \in Past
<1>1. /\ past.removed \union jobs \in SUBSET TestIds
      /\ past.overlooked \union jobs \in SUBSET TestIds
      /\ past.lost \union jobs \in SUBSET TestIds
      /\ past.silent \union jobs \in SUBSET TestIds
      /\ past.reset \union jobs \in SUBSET TestIds
  BY DEF Past
<1>2. QED
  BY <1>1 DEF Past

LEMMA BuildTyped ==
  ASSUME TypeOK, NEW w \in Workers, Build(w) \/ BuildSkipsCollecting(w),
         UNCHANGED <<opponent, scenario>>
  PROVE  TypeOK'
<1> DEFINE s == worker[w]
<1>1. s \in WorkerState
  BY DEF TypeOK
<1>2. /\ s.code \in Codes \union {NoCode} /\ s.keep \in ImageIds \union {NoImage}
      /\ s.raced \in BOOLEAN /\ s.image \in ImageIds \union {NoImage}
  BY <1>1 DEF WorkerState
<1>3. CASE BuildLooksUp(w)
  <2>1. worker' \in [Workers -> WorkerState]
    <3>1. CASE Goes(w, "fail")
      BY <3>1, PcTyped DEF TypeOK
    <3>2. CASE worker' = [worker EXCEPT ![w].pc = "start", ![w].code = project.code,
                            ![w].keep = project.subImage, ![w].raced = saving.what # "none"]
      <4>1. project.code \in Codes \union {NoCode} /\ project.subImage \in ImageIds \union {NoImage}
        BY DEF TypeOK, Row
      <4>2. [s EXCEPT !.pc = "start", !.code = project.code,
                !.keep = project.subImage, !.raced = saving.what # "none"] \in WorkerState
        BY <1>1, <4>1 DEF WorkerState
      <4>3. QED
        BY <3>2, <4>2 DEF TypeOK
    <3>3. QED
      BY <1>3, <3>1, <3>2 DEF BuildLooksUp
  <2>2. QED
    BY <1>3, <2>1 DEF BuildLooksUp, TypeOK, projectVars
<1>4. CASE BuildStarts(w)
  <2>1. project' \in Row
    BY <1>4, StatusTyped, UpdateTyped DEF BuildStarts, TypeOK
  <2>2. worker' \in [Workers -> WorkerState]
    BY <1>4, PcTyped DEF BuildStarts, TypeOK
  <2>3. QED
    BY <1>4, <2>1, <2>2 DEF BuildStarts, TypeOK
<1>5. CASE BuildCompiles(w)
  <2>1. /\ made' \in Seq([code : Codes \union {NoCode}, raced : BOOLEAN])
        /\ Len(made') <= MaxImages /\ Len(made') \in ImageIds
        /\ images \union {Len(made')} \subseteq 1 .. Len(made')
    BY <1>2, <1>5, NewImageTyped DEF BuildCompiles
  <2>2. [s EXCEPT !.pc = "built", !.image = Len(made'), !.code = NoCode] \in WorkerState
    BY <1>1, <2>1 DEF WorkerState
  <2>3. worker' \in [Workers -> WorkerState]
    BY <1>5, <2>2 DEF BuildCompiles, TypeOK
  <2>4. UNCHANGED <<project, saving, uploading, test, bundles, viewer, past>>
        /\ images' = images \union {Len(made')}
    BY <1>5 DEF BuildCompiles
  <2>5. QED
    BY <2>1, <2>3, <2>4 DEF TypeOK
<1>6. CASE BuildBreaks(w)
  <2>1. worker' \in [Workers -> WorkerState]
    BY <1>6, PcTyped DEF BuildBreaks, TypeOK
  <2>2. QED
    BY <1>6, <2>1 DEF BuildBreaks, TypeOK, projectVars
<1>7. CASE BuildSucceeds(w)
  <2>1. project' \in Row
    BY <1>2, <1>7, BuiltTyped, UpdateTyped DEF BuildSucceeds, TypeOK
  <2>2. worker' \in [Workers -> WorkerState]
    BY <1>7, PcTyped DEF BuildSucceeds, TypeOK
  <2>3. saving' \in [what : {"none", "save", "restore"}, overtaken : BOOLEAN]
    BY <1>7, OvertakeTyped DEF BuildSucceeds, TypeOK
  <2>4. made' \in Seq([code : Codes \union {NoCode}, raced : BOOLEAN]) /\ Len(made') = Len(made)
    <3> DEFINE Made == [code : Codes \union {NoCode}, raced : BOOLEAN]
    <3>1. made' = [made EXCEPT ![s.image].raced = s.raced] /\ made \in Seq(Made)
      BY <1>7 DEF BuildSucceeds, TypeOK
    <3>2. DOMAIN made = 1 .. Len(made)
      BY <3>1, LenProperties
    <3>3. CASE s.image \in 1 .. Len(made)
      <4> DEFINE e == [made[s.image] EXCEPT !.raced = s.raced]
      <4>1. made[s.image] \in Made
        BY <3>1, <3>3, ElementOfSeq
      <4>2. e \in Made
        BY <1>2, <4>1
      <4>3. made' = [made EXCEPT ![s.image] = e]
        BY <3>1
      <4> HIDE DEF Made, e
      <4>4. made \in Seq(Made)
        BY <3>1 DEF Made
      <4>5. made' \in Seq(Made) /\ Len(made') = Len(made)
        BY <3>3, <4>2, <4>3, <4>4, ExceptSeq
      <4>6. QED
        BY <4>5 DEF Made
    <3>4. CASE s.image \notin 1 .. Len(made)
      <4>1. made' = made
        BY <3>1, <3>2, <3>4
      <4>2. QED
        BY <3>1, <4>1
    <3>5. QED
      BY <3>3, <3>4
  <2>5. UNCHANGED <<images, uploading, test, bundles, viewer, past>>
    BY <1>7 DEF BuildSucceeds
  <2>6. QED
    BY <2>1, <2>2, <2>3, <2>4, <2>5 DEF TypeOK
<1>8. CASE BuildFails(w)
  <2>1. project' \in Row
    BY <1>8, StatusTyped, UpdateTyped DEF BuildFails, TypeOK
  <2>2. worker' \in [Workers -> WorkerState]
    BY <1>8, PcTyped DEF BuildFails, TypeOK
  <2>3. QED
    BY <1>8, <2>1, <2>2 DEF BuildFails, TypeOK
<1>9. CASE BuildCollects(w) \/ BuildSkipsCollecting(w)
  <2>1. [s EXCEPT !.pc = "resolve", !.keep = NoImage, !.image = NoImage, !.raced = FALSE]
          \in WorkerState
    BY <1>1 DEF WorkerState
  <2>2. worker' \in [Workers -> WorkerState]
    BY <1>9, <2>1 DEF BuildCollects, BuildSkipsCollecting, TypeOK
  <2>3. images' \subseteq images
        /\ UNCHANGED <<project, made, saving, uploading, test, bundles, viewer, past>>
    BY <1>9 DEF BuildCollects, BuildSkipsCollecting, CollectImages, projectVars
  <2>4. QED
    BY <2>2, <2>3 DEF TypeOK
<1>10. QED
  BY <1>3, <1>4, <1>5, <1>6, <1>7, <1>8, <1>9 DEF Build

LEMMA RunnerTyped ==
  ASSUME TypeOK, NEW w \in Workers,
         \/ \E j \in TestIds : Claims(w, j) \/ Overlooks(w, j)
         \/ ChecksBuild(w) \/ Resolves(w) \/ PlayBreaks(w)
         \/ \E reached, ok, blamed \in BOOLEAN : Plays(w, reached, ok, blamed),
         UNCHANGED scenario
  PROVE  TypeOK'
<1> DEFINE s == worker[w]
<1>1. s \in WorkerState /\ worker \in [Workers -> WorkerState]
  BY DEF TypeOK
<1>2. ASSUME NEW j \in TestIds, Claims(w, j) PROVE TypeOK'
  <2>1. [s EXCEPT !.pc = "check", !.job = j] \in WorkerState
    BY <1>1 DEF WorkerState
  <2>2. worker' \in [Workers -> WorkerState]
    BY <1>1, <1>2, <2>1 DEF Claims
  <2>3. [test[j] EXCEPT !.status = "running"] \in TestRow
    BY DEF TypeOK, TestRow, Active
  <2>4. test' \in [TestIds -> TestRow]
    BY <1>2, <2>3 DEF Claims, ClaimTest, TypeOK
  <2>5. past' \in Past
    <3> DEFINE over == past.overlap \/ uploading # NoImage
                                    \/ \E v \in Workers \ {w} : Handling(v)
    <3>1. past' = [past EXCEPT !.overlap = over] /\ over \in BOOLEAN
      BY <1>2 DEF Claims, TypeOK
    <3> HIDE DEF over
    <3>2. QED
      BY <3>1 DEF TypeOK, Past
  <2>6. UNCHANGED <<project, made, images, saving, uploading, bundles, viewer, opponent>>
    BY <1>2 DEF Claims, projectVars
  <2>7. QED
    BY <2>2, <2>4, <2>5, <2>6 DEF TypeOK, Past
<1>3. CASE ChecksBuild(w) \/ PlayBreaks(w)
  <2>1. worker' \in [Workers -> WorkerState]
    BY <1>1, <1>3, PcTyped DEF ChecksBuild, PlayBreaks
  <2>2. QED
    BY <1>3, <2>1 DEF ChecksBuild, PlayBreaks, TypeOK, projectVars
<1>4. CASE Resolves(w)
  <2>1. worker' \in [Workers -> WorkerState]
    <3>1. project.image \in ImageIds \union {NoImage}
      BY DEF TypeOK, Row
    <3>2. [s EXCEPT !.pc = "match", !.image = project.image] \in WorkerState
      BY <1>1, <3>1 DEF WorkerState
    <3>3. CASE Goes(w, "fail")
      BY <1>1, <3>3, PcTyped
    <3>4. CASE worker' = [worker EXCEPT ![w].pc = "match", ![w].image = project.image]
      BY <1>1, <3>2, <3>4
    <3>5. QED
      BY <1>4, <3>3, <3>4 DEF Resolves
  <2>2. QED
    BY <1>4, <2>1 DEF Resolves, TypeOK, projectVars
<1>5. ASSUME NEW reached \in BOOLEAN, NEW ok \in BOOLEAN, NEW blamed \in BOOLEAN,
             Plays(w, reached, ok, blamed)
      PROVE  TypeOK'
  <2>1. [s EXCEPT !.pc = "verdict", !.reached = reached, !.ok = ok, !.blamed = blamed]
          \in WorkerState
    BY <1>1 DEF WorkerState
  <2>2. worker' \in [Workers -> WorkerState]
    BY <1>1, <1>5, <2>1 DEF Plays
  <2>3. reached => s.image \in ImageIds
    <3>1. reached => s.image \in 1 .. Len(made)
      BY <1>5 DEF Plays, TypeOK
    <3>2. s.image \in ImageIds \union {NoImage}
      BY <1>1 DEF WorkerState
    <3>3. QED
      BY <3>1, <3>2 DEF NoImage
  <2>4. past' \in Past
    <3>1. CASE ~reached
      BY <1>5, <3>1 DEF Plays, TypeOK, Past
    <3>2. CASE reached
      <4>1. past' = [past EXCEPT !.validated = past.validated \union {s.image}]
        BY <1>5, <3>2 DEF Plays, TypeOK
      <4>2. past.validated \union {s.image} \in SUBSET ImageIds
        BY <2>3, <3>2 DEF TypeOK
      <4>3. QED
        BY <4>1, <4>2 DEF TypeOK, Past
    <3>3. QED
      BY <3>1, <3>2
  <2>5. UNCHANGED <<project, made, images, saving, uploading, test, bundles, viewer, opponent>>
    BY <1>5 DEF Plays, projectVars
  <2>6. QED
    BY <2>2, <2>4, <2>5 DEF TypeOK, Past
<1>6. ASSUME NEW j \in TestIds, Overlooks(w, j) PROVE TypeOK'
  <2>1. past' \in Past
    BY <1>6, PastTyped DEF Overlooks, TypeOK, Past
  <2>2. QED
    BY <1>6, <2>1 DEF Overlooks, TypeOK, Past, projectVars
<1>7. QED
  BY <1>2, <1>3, <1>4, <1>5, <1>6

LEMMA VerdictTyped ==
  ASSUME TypeOK, Busy, NEW w \in Workers,
         \/ Judges(w) \/ VerdictIsLost(w) \/ Blames(w) \/ AnalysisBreaks(w)
         \/ \E stored \in BOOLEAN : Stores(w, stored),
         UNCHANGED scenario
  PROVE  TypeOK'
<1> DEFINE s == worker[w]
<1>1. s \in WorkerState /\ worker \in [Workers -> WorkerState]
  BY DEF TypeOK
<1>2. CASE Judges(w) \/ VerdictIsLost(w)
  <2>1. [s EXCEPT !.pc = "blame", !.image = NoImage, !.reached = FALSE] \in WorkerState
    BY <1>1 DEF WorkerState
  <2>2. worker' \in [Workers -> WorkerState]
    BY <1>1, <1>2, <2>1 DEF Judges, VerdictIsLost
  <2>3. project' \in Row
    <3>1. CASE Judges(w)
      <4>1. (IF s.reached THEN "ready" ELSE "crashed")
              \in {"building", "failed", "built", "crashed", "ready"}
        OBVIOUS
      <4>2. QED
        BY <3>1, <4>1, StatusTyped, UpdateTyped DEF Judges, TypeOK
    <3>2. QED
      BY <1>2, <3>1 DEF VerdictIsLost, TypeOK, projectVars
  <2>4. UNCHANGED <<made, images, saving, uploading, test, bundles, viewer, past, opponent>>
    BY <1>2 DEF Judges, VerdictIsLost, projectVars
  <2>5. QED
    BY <2>2, <2>3, <2>4 DEF TypeOK
<1>3. CASE Blames(w)
  <2>1. [s EXCEPT !.pc = "bundle", !.blamed = FALSE] \in WorkerState
    BY <1>1 DEF WorkerState
  <2>2. worker' \in [Workers -> WorkerState]
    BY <1>1, <1>3, <2>1 DEF Blames
  <2>3. opponent' \in OpponentState
    BY <1>3 DEF Blames, TypeOK, OpponentState
  <2>4. UNCHANGED <<project, made, images, saving, uploading, test, bundles, viewer, past>>
    BY <1>3 DEF Blames, projectVars
  <2>5. QED
    BY <2>2, <2>3, <2>4 DEF TypeOK
<1>4. CASE AnalysisBreaks(w)
  <2>1. [s EXCEPT !.pc = "fail", !.ok = FALSE] \in WorkerState
    BY <1>1 DEF WorkerState
  <2>2. worker' \in [Workers -> WorkerState]
    BY <1>1, <1>4, <2>1 DEF AnalysisBreaks
  <2>3. QED
    BY <1>4, <2>2 DEF AnalysisBreaks, TypeOK, projectVars
<1>5. ASSUME NEW stored \in BOOLEAN, Stores(w, stored) PROVE TypeOK'
  <2>1. [s EXCEPT !.pc = "finish", !.key = stored] \in WorkerState
    BY <1>1 DEF WorkerState
  <2>2. worker' \in [Workers -> WorkerState]
    BY <1>1, <1>5, <2>1 DEF Stores
  <2>3. bundles' \subseteq bundles \union {s.job}
    BY <1>5 DEF Stores
  <2>4. s.job \in TestIds
    BY <1>1, <1>5 DEF WorkerState, Stores, Busy, At
  <2>5. QED
    BY <1>5, <2>2, <2>3, <2>4 DEF Stores, TypeOK, projectVars
<1>6. QED
  BY <1>2, <1>3, <1>4, <1>5

LEMMA OutcomeTyped ==
  ASSUME TypeOK, Busy, NEW w \in Workers,
         \/ Finishes(w) \/ FinishBreaks(w) \/ RecordsFailure(w)
         \/ \E left \in SUBSET TestIds : Purges(w, left),
         UNCHANGED scenario
  PROVE  TypeOK'
<1> DEFINE s == worker[w]
<1>1. s \in WorkerState /\ worker \in [Workers -> WorkerState]
  BY DEF TypeOK
<1>2. At(w, "finish") \/ At(w, "fail") => s.job \in TestIds
  BY <1>1 DEF Busy, At, WorkerState
<1>3. CASE Finishes(w)
  <2> DEFINE rows == Succeeded(s.job, s.key)
             purge == {j \in Prunable(rows) : rows[j].key}
  <2>1. s.key \in BOOLEAN /\ s.job \in TestIds
    BY <1>1, <1>2, <1>3 DEF Finishes, WorkerState
  <2>2. rows \in [TestIds -> TestRow]
    BY <2>1, TestsTyped DEF TypeOK
  <2>3. test' = Pruned(rows) /\ worker' = [worker EXCEPT ![w].pc = "purge", ![w].key = FALSE,
                                                           ![w].purge = purge]
    BY <1>3 DEF Finishes
  <2>4. purge \in SUBSET TestIds
    BY DEF Prunable
  <2> HIDE DEF purge, rows
  <2>5. test' \in [TestIds -> TestRow]
    BY <2>2, <2>3, PrunedTyped
  <2>6. [s EXCEPT !.pc = "purge", !.key = FALSE, !.purge = purge] \in WorkerState
    BY <1>1, <2>4 DEF WorkerState
  <2>7. worker' \in [Workers -> WorkerState]
    BY <1>1, <2>3, <2>6
  <2>8. QED
    BY <1>3, <2>5, <2>7 DEF Finishes, TypeOK, projectVars
<1>4. CASE FinishBreaks(w)
  <2>1. [s EXCEPT !.pc = "fail", !.key = FALSE, !.ok = FALSE] \in WorkerState
    BY <1>1 DEF WorkerState
  <2>2. worker' \in [Workers -> WorkerState]
    BY <1>1, <1>4, <2>1 DEF FinishBreaks
  <2>3. QED
    BY <1>4, <2>2 DEF FinishBreaks, TypeOK, projectVars
<1>5. CASE RecordsFailure(w)
  <2> DEFINE rows == Failed(s.job)
             purge == {j \in Prunable(rows) : rows[j].key}
             rest == [WorkerRest("purge") EXCEPT !.job = s.job, !.purge = purge]
  <2>1. s.job \in TestIds
    BY <1>2, <1>5 DEF RecordsFailure
  <2>2. rows \in [TestIds -> TestRow]
    BY <2>1, TestsTyped DEF TypeOK
  <2>3. test' = Pruned(rows) /\ worker' = [worker EXCEPT ![w] = rest]
    BY <1>5 DEF RecordsFailure
  <2>4. purge \in SUBSET TestIds
    BY DEF Prunable
  <2> HIDE DEF purge, rows
  <2>5. test' \in [TestIds -> TestRow]
    BY <2>2, <2>3, PrunedTyped
  <2>6. WorkerRest("purge") \in WorkerState
    BY RestTyped
  <2>7. rest \in WorkerState
    BY <2>1, <2>4, <2>6 DEF WorkerState
  <2> HIDE DEF rest
  <2>8. worker' \in [Workers -> WorkerState]
    BY <1>1, <2>3, <2>7
  <2>9. QED
    BY <1>5, <2>5, <2>8 DEF RecordsFailure, TypeOK, projectVars
<1>6. ASSUME NEW left \in SUBSET TestIds, Purges(w, left) PROVE TypeOK'
  <2>1. [s EXCEPT !.pc = "announce", !.purge = {}] \in WorkerState
    BY <1>1 DEF WorkerState
  <2>2. worker' \in [Workers -> WorkerState]
    BY <1>1, <1>6, <2>1 DEF Purges
  <2>3. QED
    BY <1>6, <2>2 DEF Purges, TypeOK, projectVars
<1>7. QED
  BY <1>3, <1>4, <1>5, <1>6

LEMMA EndTyped ==
  ASSUME TypeOK, Busy, NEW w \in Workers,
         \/ \E heard \in BOOLEAN : Announces(w, heard)
         \/ GivesUp(w) \/ WorkerDies(w) \/ Stumbles(w)
         \/ \E old \in SUBSET TestIds : WorkerBoots(w, old),
         UNCHANGED scenario
  PROVE  TypeOK'
<1> DEFINE s == worker[w]
<1>1. /\ s \in WorkerState /\ worker \in [Workers -> WorkerState] /\ past \in Past
      /\ viewer \in ViewerState
  BY DEF TypeOK, Past
<1>2. At(w, "announce") \/ At(w, "fail") \/ At(w, "check") \/ Working(w) => {s.job} \in SUBSET TestIds
  BY <1>1 DEF Busy, At, Working, WorkerState
<1>3. WorkerRest("idle") \in WorkerState /\ WorkerRest("down") \in WorkerState
  BY RestTyped
<1>4. worker' \in [Workers -> WorkerState]
  BY <1>1, <1>3 DEF Announces, GivesUp, WorkerDies, Stumbles, WorkerBoots
<1>5. UNCHANGED <<project, made, images, saving, uploading, bundles, opponent, scenario>>
  BY DEF Announces, GivesUp, WorkerDies, Stumbles, WorkerBoots, projectVars
<1>6. ASSUME NEW heard \in BOOLEAN, Announces(w, heard) PROVE TypeOK'
  <2>1. viewer' \in ViewerState
    <3>1. (IF s.ok THEN "success" ELSE "failure") \in {"success", "failure"}
      OBVIOUS
    <3>2. QED
      BY <1>1, <1>6, <3>1, PublishTyped DEF Announces
  <2>2. past' \in Past
    BY <1>1, <1>2, <1>6, PastTyped DEF Announces
  <2>3. UNCHANGED test
    BY <1>6 DEF Announces
  <2>4. QED
    BY <1>4, <1>5, <2>1, <2>2, <2>3 DEF TypeOK, Past
<1>7. CASE GivesUp(w) \/ WorkerDies(w) \/ Stumbles(w)
  <2>1. viewer' \in ViewerState
    BY <1>1, <1>7, PublishTyped DEF GivesUp, WorkerDies, Stumbles
  <2>2. past' \in Past
    BY <1>1, <1>2, <1>7, PastTyped DEF GivesUp, WorkerDies, Stumbles
  <2>3. UNCHANGED test
    BY <1>7 DEF GivesUp, WorkerDies, Stumbles
  <2>4. QED
    BY <1>4, <1>5, <2>1, <2>2, <2>3 DEF TypeOK, Past
<1>8. ASSUME NEW old \in SUBSET TestIds, WorkerBoots(w, old) PROVE TypeOK'
  <2>1. past' \in Past
    BY <1>1, <1>8, PastTyped DEF WorkerBoots
  <2>2. \A j \in TestIds : [test[j] EXCEPT !.status = "failure"] \in TestRow
    BY DEF TypeOK, TestRow, Terminal
  <2>3. test' \in [TestIds -> TestRow]
    BY <1>8, <2>2 DEF WorkerBoots, ResetStale, TypeOK
  <2>4. UNCHANGED viewer
    BY <1>8 DEF WorkerBoots
  <2>5. QED
    BY <1>4, <1>5, <2>1, <2>3, <2>4 DEF TypeOK, Past
<1>9. QED
  BY <1>6, <1>7, <1>8

LEMMA ProjectRequestTyped ==
  ASSUME TypeOK,
         \/ \E what \in {"save", "restore"} : SaveBegins(what)
         \/ \E code \in Codes \union {NoCode} : SaveCommits(code)
         \/ Submit \/ UploadLoads \/ UploadCommits \/ UploadRollsBack
         \/ \E left \in SUBSET TestIds : DeleteBegins(left)
         \/ DeleteCommits \/ DeleteRollsBack
  PROVE  TypeOK'
<1> DEFINE Saving == [what : {"none", "save", "restore"}, overtaken : BOOLEAN]
<1>1. /\ project \in Row /\ saving \in Saving
      /\ project.image \in ImageIds \union {NoImage}
      /\ project.code \in Codes \union {NoCode} /\ project.version \in 0 .. MaxVersion
      /\ project.subCode \in Codes \union {NoCode} /\ project.source \in {"browser", "external_image"}
  BY DEF TypeOK, Row
<1>2. ASSUME NEW what \in {"save", "restore"}, SaveBegins(what) PROVE TypeOK'
  <2>1. ASSUME NEW w \in Workers PROVE [worker[w] EXCEPT !.raced = TRUE] \in WorkerState
    <3>1. worker[w] \in WorkerState
      BY DEF TypeOK
    <3>2. QED
      BY <3>1 DEF WorkerState
  <2>2. worker' \in [Workers -> WorkerState]
    BY <1>2, <2>1 DEF SaveBegins, TypeOK
  <2>3. saving' \in Saving
    BY <1>2 DEF SaveBegins
  <2>4. QED
    BY <1>2, <2>2, <2>3 DEF SaveBegins, TypeOK
<1>3. ASSUME NEW code \in Codes \union {NoCode}, SaveCommits(code) PROVE TypeOK'
  <2>1. (~saving.overtaken) \in BOOLEAN
    OBVIOUS
  <2>2. Saved(code) \in Row
    BY <1>1, <2>1 DEF Saved, Row
  <2>3. project' \in Row
    BY <1>1, <1>3, <2>2, UpdateTyped DEF SaveCommits
  <2>4. saving' \in Saving
    BY <1>3 DEF SaveCommits, NoSave
  <2>5. QED
    BY <1>3, <2>3, <2>4 DEF SaveCommits, TypeOK
<1>4. CASE Submit
  <2>1. project.version + 1 \in 0 .. MaxVersion
    BY <1>1, <1>4, DevAssumption DEF Submit
  <2>2. Promoted \in Row
    BY <1>1, <2>1 DEF Promoted, Row
  <2>3. QED
    BY <1>4, <2>2 DEF Submit, TypeOK
<1>5. CASE UploadLoads
  <2>1. /\ made' \in Seq([code : Codes \union {NoCode}, raced : BOOLEAN])
        /\ Len(made') <= MaxImages /\ Len(made') \in ImageIds
        /\ images \union {Len(made')} \subseteq 1 .. Len(made')
    BY <1>5, NewImageTyped DEF UploadLoads
  <2>2. uploading' = Len(made') /\ images' \subseteq images \union {Len(made')}
    BY <1>5 DEF UploadLoads
  <2>3. past' \in Past
    <3> DEFINE over == past.overlap \/ \E w \in Workers : Handling(w)
    <3>1. past' = [past EXCEPT !.overlap = over] /\ over \in BOOLEAN
      BY <1>5 DEF UploadLoads, TypeOK
    <3> HIDE DEF over
    <3>2. QED
      BY <3>1 DEF TypeOK, Past
  <2>4. UNCHANGED <<project, saving, test, bundles, viewer, worker, opponent, scenario>>
    BY <1>5 DEF UploadLoads
  <2>5. QED
    BY <2>1, <2>2, <2>3, <2>4 DEF TypeOK, Past
<1>6. CASE UploadCommits
  <2>1. uploading \in ImageIds \union {NoImage}
    BY DEF TypeOK
  <2>2. project' \in Row
    BY <1>1, <1>6, <2>1, BuiltTyped, UpdateTyped DEF UploadCommits
  <2>3. saving' \in Saving
    BY <1>1, <1>6, OvertakeTyped DEF UploadCommits
  <2>4. QED
    BY <1>6, <2>2, <2>3 DEF UploadCommits, TypeOK
<1>7. CASE UploadRollsBack
  <2>1. past' \in Past
    BY <1>7 DEF UploadRollsBack, TypeOK, Past
  <2>2. QED
    BY <1>7, <2>1 DEF UploadRollsBack, TypeOK, Past
<1>8. ASSUME NEW left \in SUBSET TestIds, DeleteBegins(left) PROVE TypeOK'
  <2>1. [project EXCEPT !.leaving = TRUE] \in Row
    BY <1>1 DEF Row
  <2>2. past' \in Past
    BY <1>8, PastTyped DEF DeleteBegins, Keyed, TypeOK, Past
  <2>3. bundles' \subseteq bundles
    BY <1>8 DEF DeleteBegins
  <2>4. QED
    BY <1>8, <2>1, <2>2, <2>3 DEF DeleteBegins, TypeOK, Past
<1>9. CASE DeleteCommits
  <2>1. [Created(project.source, NoCode) EXCEPT !.exists = FALSE] \in Row
    <3>1. Created(project.source, NoCode) \in Row
      BY <1>1, DevAssumption DEF Created, Row
    <3>2. QED
      BY <3>1 DEF Row
  <2>2. AllGone \in [TestIds -> TestRow]
    <3>1. Unused("gone") \in TestRow
      BY DEF Unused, TestRow
    <3>2. QED
      BY <3>1 DEF AllGone, TypeOK
  <2>3. QED
    BY <1>9, <2>1, <2>2 DEF DeleteCommits, TypeOK
<1>10. CASE DeleteRollsBack
  <2>1. [project EXCEPT !.leaving = FALSE] \in Row
    BY <1>1 DEF Row
  <2>2. past' \in Past
    BY <1>10, PastTyped DEF DeleteRollsBack, TestsIn, TypeOK, Past
  <2>3. QED
    BY <1>10, <2>1, <2>2 DEF DeleteRollsBack, TypeOK, Past
<1>11. QED
  BY <1>2, <1>3, <1>4, <1>5, <1>6, <1>7, <1>8, <1>9, <1>10

LEMMA TestRequestTyped ==
  ASSUME TypeOK,
         Enqueue \/ \E j \in TestIds : Pin(j) \/ Unpin(j) \/ CancelJob(j)
  PROVE  TypeOK'
<1>1. \A j \in TestIds : /\ [test[j] EXCEPT !.status = "queued"] \in TestRow
                         /\ [test[j] EXCEPT !.status = "cancelled"] \in TestRow
                         /\ [test[j] EXCEPT !.pinned = TRUE] \in TestRow
                         /\ [test[j] EXCEPT !.pinned = FALSE] \in TestRow
  BY DEF TypeOK, TestRow, Active, Terminal
<1>2. test \in [TestIds -> TestRow]
  BY DEF TypeOK
<1>3. CASE Enqueue
  <2>1. test' \in [TestIds -> TestRow]
    BY <1>1, <1>2, <1>3 DEF Enqueue, InsertTest, TestsIn
  <2>2. QED
    BY <1>3, <2>1 DEF Enqueue, TypeOK, projectVars
<1>4. ASSUME NEW j \in TestIds, Pin(j) \/ Unpin(j) \/ CancelJob(j) PROVE TypeOK'
  <2>1. test' \in [TestIds -> TestRow]
    BY <1>1, <1>2, <1>4 DEF Pin, Unpin, CancelJob, CancelTest
  <2>2. QED
    BY <1>4, <2>1 DEF Pin, Unpin, CancelJob, TypeOK, projectVars
<1>5. QED
  BY <1>3, <1>4

LEMMA StreamTyped ==
  ASSUME TypeOK, Stream
  PROVE  TypeOK'
<1>1. viewer \in ViewerState /\ NoViewer \in ViewerState
  BY DEF TypeOK, NoViewer, ViewerState
<1>2. /\ \A j \in TestIds : [viewer EXCEPT !.pc = "open", !.job = j] \in ViewerState
      /\ \A pc \in {"subscribed", "told", "live"} : [viewer EXCEPT !.pc = pc] \in ViewerState
  BY <1>1 DEF ViewerState
<1>3. viewer' \in ViewerState
  BY <1>1, <1>2 DEF Stream, ViewerOpens, ViewerSubscribes, ViewerSnapshot, ViewerGoesLive,
                    ViewerForwards, ViewerLeaves
<1>4. QED
  BY <1>3 DEF Stream, TypeOK, projectVars

\* The steps of an iteration in between: the job stays, tests and bundles
\* are not touched.
Middle(w) ==
  \/ ChecksBuild(w) \/ Build(w) \/ BuildSkipsCollecting(w) \/ Resolves(w) \/ PlayBreaks(w)
  \/ \E reached, ok, blamed \in BOOLEAN : Plays(w, reached, ok, blamed)
  \/ Judges(w) \/ VerdictIsLost(w) \/ Blames(w) \/ AnalysisBreaks(w)

Inside(w) == worker[w].pc \notin {"down", "idle", "purge", "announce"}

LEMMA MiddleSteps ==
  ASSUME TypeOK, NEW w \in Workers, Middle(w)
  PROVE  /\ \A v \in Workers \ {w} : worker'[v] = worker[v]
         /\ worker'[w].job = worker[w].job /\ worker'[w].key = worker[w].key
         /\ worker'[w].purge = worker[w].purge
         /\ Inside(w) /\ Inside(w)'
         /\ UNCHANGED <<test, bundles, viewer, past.removed, past.lost, past.silent,
                       past.reset>>
<1>1. worker[w] \in WorkerState /\ worker \in [Workers -> WorkerState]
  BY DEF TypeOK
<1>2. CASE ChecksBuild(w) \/ Resolves(w) \/ PlayBreaks(w)
  BY <1>1, <1>2 DEF ChecksBuild, Resolves, PlayBreaks, Goes, At, Inside, WorkerState
<1>3. CASE Build(w) \/ BuildSkipsCollecting(w)
  BY <1>1, <1>3 DEF Build, BuildLooksUp, BuildStarts, BuildCompiles, BuildBreaks, BuildSucceeds,
    BuildFails, BuildCollects, BuildSkipsCollecting, Goes, At, Inside, WorkerState
<1>4. ASSUME NEW reached \in BOOLEAN, NEW ok \in BOOLEAN, NEW blamed \in BOOLEAN,
             Plays(w, reached, ok, blamed)
      PROVE  /\ \A v \in Workers \ {w} : worker'[v] = worker[v]
             /\ worker'[w].job = worker[w].job /\ worker'[w].key = worker[w].key
             /\ worker'[w].purge = worker[w].purge
             /\ Inside(w) /\ Inside(w)'
             /\ UNCHANGED <<test, bundles, viewer, past.removed, past.lost, past.silent,
                       past.reset>>
  <2>1. UNCHANGED <<past.removed, past.lost, past.silent,
                       past.reset>>
    BY <1>4 DEF Plays, TypeOK
  <2>2. QED
    BY <1>1, <1>4, <2>1 DEF Plays, At, Inside, WorkerState
<1>5. CASE Judges(w) \/ VerdictIsLost(w) \/ Blames(w) \/ AnalysisBreaks(w)
  BY <1>1, <1>5 DEF Judges, VerdictIsLost, Blames, AnalysisBreaks, At, Inside, WorkerState
<1>6. QED
  BY <1>2, <1>3, <1>4, <1>5 DEF Middle

\* A runner's step is one of those, or one that the next lemmas look at.
LEMMA RunnerSteps ==
  ASSUME NEW w \in Workers, Works(w) \/ Boots(w) \/ Accident(w)
  PROVE  \/ Middle(w)
         \/ \E j \in TestIds : Claims(w, j) \/ Overlooks(w, j)
         \/ \E stored \in BOOLEAN : Stores(w, stored)
         \/ Finishes(w) \/ FinishBreaks(w) \/ RecordsFailure(w)
         \/ \E left : left \subseteq worker[w].purge /\ Purges(w, left)
         \/ \E heard \in BOOLEAN : Announces(w, heard)
         \/ GivesUp(w) \/ WorkerDies(w) \/ Stumbles(w)
         \/ \E old \in SUBSET TestIds : WorkerBoots(w, old)
<1>1. CASE Boots(w) \/ GivesUp(w) \/ WorkerDies(w)
  BY <1>1 DEF Boots
<1>2. CASE Iteration(w)
  BY <1>2 DEF Iteration, Middle, Purges
<1>3. CASE Hiccup(w)
  <2>1. \A j \in past.overlooked : Claims(w, j) => j \in TestIds
    BY DEF Claims, ClaimTest, TestsIn
  <2>2. QED
    BY <1>3, <2>1 DEF Hiccup, Middle
<1>4. QED
  BY <1>1, <1>2, <1>3 DEF Works, Accident

LEMMA BusyKept ==
  ASSUME TypeOK, Busy, Next
  PROVE  Busy'
<1>1. CASE \E w \in Workers : Works(w) \/ Boots(w) \/ Accident(w)
  <2>1. PICK w \in Workers : Works(w) \/ Boots(w) \/ Accident(w)
    BY <1>1
  <2>2. worker[w] \in WorkerState /\ worker \in [Workers -> WorkerState]
    BY DEF TypeOK
  <2>3. CASE Middle(w)
    BY <2>3, MiddleSteps DEF Busy, Inside
  <2>4. ASSUME NEW j \in TestIds, Claims(w, j) \/ Overlooks(w, j) PROVE Busy'
    BY <2>2, <2>4 DEF Busy, Claims, Overlooks, WorkerState, TestIds
  <2>5. ASSUME NEW stored \in BOOLEAN, Stores(w, stored) PROVE Busy'
    BY <2>2, <2>5 DEF Busy, Stores, At, WorkerState
  <2>6. CASE Finishes(w) \/ FinishBreaks(w)
    BY <2>2, <2>6 DEF Busy, Finishes, FinishBreaks, At, WorkerState
  <2>7. CASE RecordsFailure(w)
    <3>1. worker'[w].pc = "purge" /\ worker'[w].job = worker[w].job
      BY <2>2, <2>7 DEF RecordsFailure, WorkerRest
    <3>2. \A v \in Workers \ {w} : worker'[v] = worker[v]
      BY <2>2, <2>7 DEF RecordsFailure
    <3>3. worker[w].pc = "fail"
      BY <2>7 DEF RecordsFailure, At
    <3>4. QED
      BY <3>1, <3>2, <3>3 DEF Busy
  <2>8. ASSUME NEW left, Purges(w, left) PROVE Busy'
    BY <2>2, <2>8 DEF Busy, Purges, At, WorkerState
  <2>9. ASSUME worker' = [worker EXCEPT ![w] = WorkerRest("idle")]
               \/ worker' = [worker EXCEPT ![w] = WorkerRest("down")]
        PROVE  Busy'
    BY <2>2, <2>9 DEF Busy, WorkerRest
  <2>10. QED
    BY <2>1, <2>3, <2>4, <2>5, <2>6, <2>7, <2>8, <2>9, RunnerSteps
       DEF Announces, GivesUp, WorkerDies, Stumbles, WorkerBoots
<1>2. CASE User \/ Stream \/ OpponentLeaves
  <2>1. \A w \in Workers : worker'[w].job = worker[w].job /\ worker'[w].pc = worker[w].pc
    <3>1. ASSUME NEW what \in {"save", "restore"}, SaveBegins(what), NEW w \in Workers
          PROVE  worker'[w].job = worker[w].job /\ worker'[w].pc = worker[w].pc
      BY <3>1 DEF SaveBegins, TypeOK, WorkerState
    <3>2. CASE UNCHANGED worker
      BY <3>2
    <3>3. QED
      BY <1>2, <3>1, <3>2 DEF User, Stream, OpponentLeaves, SaveCommits, Submit, UploadLoads,
        UploadCommits, UploadRollsBack, DeleteBegins, DeleteCommits, DeleteRollsBack,
        Enqueue, Pin, Unpin, CancelJob
  <2>2. QED
    BY <2>1 DEF Busy
<1>3. QED
  BY <1>1, <1>2 DEF Next

TInv == TypeOK /\ Busy

LEMMA InitTyped == Init => TInv
<1> SUFFICES ASSUME Init PROVE TInv
  OBVIOUS
<1>1. project \in Row
  <2>1. \A c \in Codes \union {NoCode}, source \in {"browser", "external_image"} :
          Created(source, c) \in Row
    BY DevAssumption DEF Created, Row
  <2>2. QED
    BY <2>1 DEF Init, ProjectInit
<1>2. /\ WorkerRest("idle") \in WorkerState /\ WorkerRest("down") \in WorkerState
  BY RestTyped
<1>3. worker \in [Workers -> WorkerState]
  BY <1>2 DEF Init
<1>4. Busy
  BY DEF Init, Busy, WorkerRest
<1>5. made \in Seq([code : Codes \union {NoCode}, raced : BOOLEAN]) /\ Len(made) = 0
  BY EmptySeq DEF Init, ProjectInit
<1>6. 0 <= MaxImages
  BY DevAssumption
<1>7. test \in [TestIds -> TestRow] /\ bundles = {}
  BY DEF Init, TestsInit, Unused, TestRow
<1>8. QED
  BY <1>1, <1>3, <1>4, <1>5, <1>6, <1>7
     DEF Init, ProjectInit, ViewerInit, NoViewer, ViewerState, NoSave, TypeOK, TInv, OpponentState

LEMMA NextTyped == TInv /\ [Next]_vars => TInv'
<1> SUFFICES ASSUME TInv, [Next]_vars PROVE TInv'
  OBVIOUS
<1>1. CASE UNCHANGED vars
  BY <1>1 DEF vars, projectVars, TInv, TypeOK, Busy
<1>2. CASE Next
  <2>1. ASSUME NEW w \in Workers, Works(w) \/ Boots(w) \/ Accident(w) PROVE TypeOK'
    <3>1. CASE Works(w)
      BY <3>1, BuildTyped, RunnerTyped, VerdictTyped, OutcomeTyped, EndTyped
         DEF TInv, Works, Iteration
    <3>2. CASE Boots(w)
      BY <3>2, EndTyped DEF TInv, Boots
    <3>3. CASE Accident(w)
      <4>1. UNCHANGED scenario /\ (Hiccup(w) \/ GivesUp(w) \/ WorkerDies(w))
        BY <3>3 DEF Accident
      <4>2. CASE GivesUp(w) \/ WorkerDies(w)
        BY <4>1, <4>2, EndTyped DEF TInv
      <4>3. CASE Hiccup(w)
        <5>1. CASE Purges(w, worker[w].purge)
          <6>1. worker[w].purge \in SUBSET TestIds
            BY DEF TInv, TypeOK, WorkerState
          <6>2. QED
            BY <4>1, <5>1, <6>1, OutcomeTyped DEF TInv
        <5>2. \A j \in past.overlooked : Claims(w, j) => j \in TestIds
          BY DEF Claims, ClaimTest, TestsIn
        <5>3. QED
          BY <4>1, <4>3, <5>1, <5>2, BuildTyped, RunnerTyped, VerdictTyped, OutcomeTyped, EndTyped
             DEF TInv, Hiccup
      <4>4. QED
        BY <4>1, <4>2, <4>3
    <3>4. QED
      BY <2>1, <3>1, <3>2, <3>3
  <2>2. ASSUME User PROVE TypeOK'
    BY <2>2, ProjectRequestTyped, TestRequestTyped DEF User, TInv
  <2>3. ASSUME Stream PROVE TypeOK'
    BY <2>3, StreamTyped DEF TInv
  <2>4. ASSUME OpponentLeaves PROVE TypeOK'
    BY <2>4 DEF OpponentLeaves, TInv, TypeOK, OpponentState, projectVars
  <2>5. TypeOK'
    BY <1>2, <2>1, <2>2, <2>3, <2>4 DEF Next
  <2>6. QED
    BY <1>2, <2>5, BusyKept DEF TInv
<1>3. QED
  BY <1>1, <1>2

\* Types, and that a runner at work has a job, are an inductive invariant.
THEOREM Typing == Spec => []TInv
BY InitTyped, NextTyped, PTL DEF Spec

\* Every variable of the development pipeline stays in its type, whatever
\* users, runners and accidents do.
THEOREM TypeCorrect == Spec => []TypeOK
<1>1. TInv => TypeOK
  BY DEF TInv
<1>2. QED
  BY <1>1, Typing, PTL
=============================================================================
