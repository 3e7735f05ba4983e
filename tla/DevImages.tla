------------------------------- MODULE DevImages ------------------------------
(***************************************************************************)
(* What holds of the images behind a project, for every number of test     *)
(* runners, saves, uploads and submissions: that what is submitted belongs *)
(* together, was seen to play and still exists.                            *)
(***************************************************************************)
EXTENDS DevProofs

HandlingPcs ==
  {"check", "lookup", "start", "docker", "built", "unbuilt", "collect", "resolve",
   "match", "verdict", "blame"}

\* A row that is gone has no images.
GoneIsEmpty ==
  ~project.exists => /\ project.image = NoImage /\ project.subImage = NoImage
                     /\ project.version = 0

\* An image whose outcome is not written yet is nobody else's.
Fresh ==
  /\ project.image <= Len(made) /\ project.subImage <= Len(made) /\ uploading <= Len(made)
  /\ \A w \in Workers :
       At(w, "built") =>
         worker[w].image \in (1 .. Len(made)) \ {project.image, project.subImage, uploading}
  /\ \A v, w \in Workers :
       v # w /\ At(v, "built") /\ At(w, "built") => worker[v].image # worker[w].image

\* Who saves does not upload.
Sources ==
  /\ saving.what # "none" => project.source = "browser"
  /\ uploading # NoImage => project.source = "external_image"
  /\ project.source = "external_image" => project.code = NoCode

\* A build that no save raced is a build of the code of now.
Current ==
  project.exists =>
    \A w \in Workers :
      Building(w) =>
        /\ saving.what # "none" => worker[w].raced
        /\ ~worker[w].raced /\ worker[w].pc # "built" => worker[w].code = project.code
        /\ ~worker[w].raced /\ worker[w].pc = "built" => made[worker[w].image].code = project.code

\* An image that the timestamps call current was built from the code of now,
\* or a save raced its build; and what was submitted was current then.
Paired ==
  project.exists =>
    /\ saving.what # "none" /\ saving.overtaken =>
         project.image # NoImage /\ made[project.image].raced
    /\ uploading # NoImage => made[uploading].code = NoCode
    /\ ~project.stale =>
         /\ project.image # NoImage
         /\ made[project.image].raced \/ made[project.image].code = project.code
    /\ project.version > 0 =>
         /\ project.subImage # NoImage
         /\ made[project.subImage].raced \/ made[project.subImage].code = project.subCode

\* Without overlap, one iteration or upload is at work on the dev image.
Alone ==
  ~past.overlap =>
    \A w \in Workers :
      worker[w].pc \in HandlingPcs =>
        /\ uploading = NoImage
        /\ \A v \in Workers \ {w} : worker[v].pc \notin HandlingPcs

\* Then the image that is played is the project's, and 'ready' speaks of it.
Validated ==
  ~past.overlap /\ project.exists =>
    /\ project.status = "ready" => project.image \in past.validated
    /\ project.version > 0 => project.subImage \in past.validated
    /\ \A w \in Workers :
         /\ worker[w].pc \in {"match", "verdict"} => worker[w].image = project.image
         /\ worker[w].pc = "verdict" /\ worker[w].reached => worker[w].image \in past.validated
         /\ worker[w].pc \in {"lookup", "start", "docker", "built", "unbuilt", "collect"} =>
              project.status # "ready"

\* And a collector keeps what the row points at.
Kept ==
  ~past.overlap /\ ~past.rolledBack /\ project.exists =>
    /\ project.subImage # NoImage => project.subImage \in images
    /\ project.image # NoImage /\ uploading = NoImage => project.image \in images
    /\ uploading # NoImage => uploading \in images
    /\ \A w \in Workers :
         /\ worker[w].pc \in {"start", "docker", "built", "collect"} =>
              worker[w].keep = project.subImage
         /\ worker[w].pc = "built" => worker[w].image \in images
         /\ worker[w].pc = "collect" => worker[w].image = project.image

DInv ==
  /\ TInv
  /\ GoneIsEmpty /\ Fresh /\ Sources /\ Current /\ Paired
  /\ Alone /\ Validated /\ Kept

------------------------------------------------------------------------------
(* Steps that do not touch the project or what is done to its image.       *)

LEMMA Typed ==
  ASSUME DInv
  PROVE  /\ TypeOK
         /\ worker \in [Workers -> WorkerState] /\ project \in Row
         /\ project.image \in Nat /\ project.subImage \in Nat /\ project.version \in Nat
         /\ uploading \in Nat /\ Len(made) \in Nat
         /\ \A w \in Workers : worker[w].image \in Nat
         /\ images \subseteq 1 .. Len(made)
         /\ MaxImages \in Nat
<1>1. TypeOK
  BY DEF DInv, TInv
<1>2. /\ worker \in [Workers -> WorkerState] /\ project \in Row
      /\ uploading \in ImageIds \union {NoImage}
      /\ made \in Seq([code : Codes \union {NoCode}, raced : BOOLEAN])
      /\ images \subseteq 1 .. Len(made)
  BY <1>1 DEF TypeOK
<1>3. Len(made) \in Nat
  BY <1>2, LenProperties
<1>4. /\ project.image \in ImageIds \union {NoImage} /\ project.subImage \in ImageIds \union {NoImage}
      /\ project.version \in 0 .. MaxVersion
  BY <1>2 DEF Row
<1>5. \A w \in Workers : worker[w].image \in ImageIds \union {NoImage}
  BY <1>2 DEF WorkerState
<1>6. QED
  BY <1>1, <1>2, <1>3, <1>4, <1>5, DevAssumption DEF ImageIds, NoImage

\* A runner stays where it is, or is done with the image.
Quiet(v) ==
  \/ worker'[v].pc \notin HandlingPcs
  \/ /\ worker'[v].pc = worker[v].pc /\ worker'[v].image = worker[v].image
     /\ worker'[v].keep = worker[v].keep /\ worker'[v].code = worker[v].code
     /\ worker'[v].raced = worker[v].raced /\ worker'[v].reached = worker[v].reached

LEMMA QuietKeeps ==
  ASSUME DInv, TInv', \A v \in Workers : Quiet(v),
         UNCHANGED <<projectVars, past.overlap, past.rolledBack, past.validated>>
  PROVE  DInv'
<1>1. GoneIsEmpty' /\ Sources'
  BY DEF DInv, GoneIsEmpty, Sources, projectVars
<1>2. Fresh'
  BY DEF DInv, Fresh, projectVars, Quiet, HandlingPcs, At
<1>3. Current'
  BY DEF DInv, Current, projectVars, Quiet, HandlingPcs, Building
<1>4. Paired'
  BY DEF DInv, Paired, projectVars
<1>5. Alone'
  BY DEF DInv, Alone, projectVars, Quiet
<1>6. Validated'
  BY DEF DInv, Validated, projectVars, Quiet, HandlingPcs
<1>7. Kept'
  BY DEF DInv, Kept, projectVars, Quiet, HandlingPcs
<1>8. QED
  BY <1>1, <1>2, <1>3, <1>4, <1>5, <1>6, <1>7 DEF DInv

\* The runner's steps of that kind.
LEMMA RunnerIsQuiet ==
  ASSUME DInv, TInv', NEW w \in Workers,
         \/ PlayBreaks(w) \/ Blames(w) \/ AnalysisBreaks(w)
         \/ \E stored \in BOOLEAN : Stores(w, stored)
         \/ Finishes(w) \/ FinishBreaks(w) \/ RecordsFailure(w)
         \/ \E left : left \subseteq worker[w].purge /\ Purges(w, left)
         \/ \E heard \in BOOLEAN : Announces(w, heard)
         \/ GivesUp(w) \/ WorkerDies(w) \/ Stumbles(w)
         \/ \E old \in SUBSET TestIds : WorkerBoots(w, old)
  PROVE  DInv'
<1>1. worker \in [Workers -> WorkerState] /\ worker[w] \in WorkerState /\ TypeOK
  BY Typed
<1>2. \A v \in Workers \ {w} : worker'[v] = worker[v]
  BY <1>1 DEF PlayBreaks, Goes, Blames, AnalysisBreaks, Stores, Finishes, FinishBreaks, RecordsFailure,
    Purges, Announces, GivesUp, WorkerDies, Stumbles, WorkerBoots
<1>3. worker'[w].pc \notin HandlingPcs
  <2>1. \A pc : WorkerRest(pc).pc = pc
    BY DEF WorkerRest
  <2>2. worker'[w].pc \in {"fail", "bundle", "finish", "purge", "announce", "idle", "down"}
    <3>1. CASE RecordsFailure(w)
      BY <1>1, <2>1, <3>1 DEF RecordsFailure, WorkerRest
    <3>2. CASE GivesUp(w) \/ WorkerDies(w) \/ Stumbles(w)
      BY <1>1, <2>1, <3>2 DEF GivesUp, WorkerDies, Stumbles
    <3>3. CASE (\E heard \in BOOLEAN : Announces(w, heard)) \/ \E old \in SUBSET TestIds : WorkerBoots(w, old)
      BY <1>1, <2>1, <3>3 DEF Announces, WorkerBoots
    <3>4. CASE Finishes(w)
      BY <1>1, <3>4 DEF Finishes, WorkerState
    <3>5. QED
      BY <1>1, <3>1, <3>2, <3>3, <3>4 DEF PlayBreaks, Goes, Blames, AnalysisBreaks, Stores, FinishBreaks,
        Purges, WorkerState
  <2>3. QED
    BY <2>2 DEF HandlingPcs
<1>4. \A v \in Workers : Quiet(v)
  BY <1>2, <1>3 DEF Quiet
<1>5. UNCHANGED projectVars
  BY DEF PlayBreaks, Blames, AnalysisBreaks, Stores, Finishes, FinishBreaks, RecordsFailure,
    Purges, Announces, GivesUp, WorkerDies, Stumbles, WorkerBoots
<1>6. UNCHANGED <<past.overlap, past.rolledBack, past.validated>>
  BY <1>1 DEF PlayBreaks, Blames, AnalysisBreaks, Stores, Finishes, FinishBreaks, RecordsFailure,
    Purges, Announces, GivesUp, WorkerDies, Stumbles, WorkerBoots, TypeOK
<1>7. QED
  BY <1>4, <1>5, <1>6, QuietKeeps

------------------------------------------------------------------------------
(* The runner's steps that do.                                             *)

LEMMA ClaimKeepsImages ==
  ASSUME DInv, TInv', NEW w \in Workers, NEW j \in TestIds, Claims(w, j)
  PROVE  DInv'
<1>1. worker \in [Workers -> WorkerState] /\ worker[w] \in WorkerState /\ TypeOK
  BY Typed
<1>2. /\ \A v \in Workers \ {w} : worker'[v] = worker[v]
      /\ worker'[w].pc = "check" /\ worker[w].pc = "idle"
  BY <1>1 DEF Claims, At, WorkerState
<1>3. UNCHANGED projectVars
  BY DEF Claims
<1>4. /\ UNCHANGED <<past.rolledBack, past.validated>>
      /\ ~past'.overlap => /\ ~past.overlap /\ uploading = NoImage
                           /\ \A v \in Workers \ {w} : ~Handling(v)
  BY <1>1 DEF Claims, TypeOK
<1>5. \A v \in Workers : worker[v].pc \in HandlingPcs => Handling(v)
  BY DEF DInv, TInv, Busy, HandlingPcs, Handling, Working
<1>6. GoneIsEmpty' /\ Sources' /\ Paired'
  BY <1>3 DEF DInv, GoneIsEmpty, Sources, Paired, projectVars
<1>7. Fresh'
  BY <1>2, <1>3 DEF DInv, Fresh, projectVars, At
<1>8. Current'
  BY <1>2, <1>3 DEF DInv, Current, projectVars, Building
<1>9. Alone'
  BY <1>2, <1>3, <1>4, <1>5 DEF DInv, Alone, projectVars
<1>10. Validated'
  BY <1>2, <1>3, <1>4 DEF DInv, Validated, projectVars
<1>11. Kept'
  BY <1>2, <1>3, <1>4 DEF DInv, Kept, projectVars
<1>12. QED
  BY <1>6, <1>7, <1>8, <1>9, <1>10, <1>11 DEF DInv

\* Steps that go on without writing the row: nothing is built or played yet,
\* or it has failed.
LEMMA LookingKeeps ==
  ASSUME DInv, TInv', NEW w \in Workers,
         ChecksBuild(w) \/ BuildLooksUp(w) \/ BuildBreaks(w) \/ Resolves(w)
  PROVE  DInv'
<1>1. worker \in [Workers -> WorkerState] /\ worker[w] \in WorkerState /\ TypeOK
  BY Typed
<1>2. /\ \A v \in Workers \ {w} : worker'[v] = worker[v]
      /\ worker[w].pc \in HandlingPcs \ {"built"}
      /\ \/ worker'[w].pc = "fail"
         \/ worker'[w].pc \in {"resolve", "unbuilt"} /\ worker[w].pc \in {"check", "docker"}
         \/ worker[w].pc = "check" /\ worker'[w].pc = "lookup"
            /\ (project.exists => project.status # "ready")
         \/ worker[w].pc = "lookup" /\ worker'[w].pc = "start"
            /\ worker'[w].code = project.code /\ worker'[w].keep = project.subImage
            /\ worker'[w].raced = (saving.what # "none")
         \/ worker[w].pc = "resolve" /\ worker'[w].pc = "match"
            /\ worker'[w].image = project.image
  BY <1>1 DEF ChecksBuild, BuildLooksUp, BuildBreaks, Resolves, Goes, At, WorkerState, HandlingPcs
<1>3. UNCHANGED <<projectVars, past>>
  BY DEF ChecksBuild, BuildLooksUp, BuildBreaks, Resolves
<1>4. worker'[w].pc = "unbuilt" => worker[w].pc = "docker"
  BY <1>1 DEF ChecksBuild, BuildLooksUp, BuildBreaks, Resolves, Goes, At, WorkerState
<1>5. GoneIsEmpty' /\ Sources' /\ Paired'
  BY <1>3 DEF DInv, GoneIsEmpty, Sources, Paired, projectVars
<1>6. Fresh'
  BY <1>2, <1>3 DEF DInv, Fresh, projectVars, At
<1>7. Current'
  BY <1>2, <1>3 DEF DInv, Current, projectVars, Building
<1>8. Alone'
  BY <1>2, <1>3 DEF DInv, Alone, projectVars, HandlingPcs
<1>9. Validated'
  BY <1>2, <1>3, <1>4 DEF DInv, Validated, projectVars
<1>10. Kept'
  BY <1>2, <1>3 DEF DInv, Kept, projectVars
<1>11. QED
  BY <1>5, <1>6, <1>7, <1>8, <1>9, <1>10 DEF DInv

\* The row is told how the build goes.
LEMMA StatusKeeps ==
  ASSUME DInv, TInv', NEW w \in Workers,
         BuildStarts(w) \/ BuildFails(w) \/ Judges(w) \/ VerdictIsLost(w)
  PROVE  DInv'
<1>1. worker \in [Workers -> WorkerState] /\ worker[w] \in WorkerState /\ TypeOK /\ project \in Row
  BY Typed
<1>2. /\ \A v \in Workers \ {w} : worker'[v] = worker[v]
      /\ worker[w].pc \in HandlingPcs \ {"built", "match"}
      /\ \/ worker'[w].pc \in {"fail", "blame"}
         \/ /\ worker[w].pc = "start" /\ worker'[w].pc = "docker"
            /\ worker'[w].code = worker[w].code /\ worker'[w].keep = worker[w].keep
            /\ worker'[w].raced = worker[w].raced
  BY <1>1 DEF BuildStarts, BuildFails, Judges, VerdictIsLost, Goes, At, WorkerState, HandlingPcs
<1>3. UNCHANGED <<made, images, saving, uploading, past>>
  BY DEF BuildStarts, BuildFails, Judges, VerdictIsLost, projectVars
<1>4. /\ project'.exists = project.exists /\ project'.image = project.image
      /\ project'.subImage = project.subImage /\ project'.code = project.code
      /\ project'.subCode = project.subCode /\ project'.version = project.version
      /\ project'.stale = project.stale /\ project'.source = project.source
  BY <1>1 DEF BuildStarts, BuildFails, Judges, VerdictIsLost, Update, Row, projectVars
<1>5. project.exists =>
        \/ project'.status \in {"building", "failed", "crashed"}
        \/ worker[w].pc = "verdict" /\ (project'.status = project.status \/ worker[w].reached)
  BY <1>1 DEF BuildStarts, BuildFails, Judges, VerdictIsLost, Update, Row, At, projectVars
<1>6. GoneIsEmpty' /\ Sources' /\ Paired'
  BY <1>3, <1>4 DEF DInv, GoneIsEmpty, Sources, Paired
<1>7. Fresh'
  BY <1>2, <1>3, <1>4 DEF DInv, Fresh, At
<1>8. Current'
  BY <1>2, <1>3, <1>4 DEF DInv, Current, Building
<1>9. Alone'
  BY <1>2, <1>3 DEF DInv, Alone, HandlingPcs
<1>10. Validated'
  <2>1. SUFFICES ASSUME ~past.overlap, project.exists
                 PROVE  /\ project'.status = "ready" => project.image \in past.validated
                        /\ \A v \in Workers \ {w} : worker[v].pc \notin HandlingPcs
    <3>1. past.overlap = past'.overlap /\ past'.validated = past.validated
      BY <1>3
    <3>2. worker'[w].pc = "docker" /\ project.exists => project'.status # "ready"
      BY <1>2, <1>5
    <3>3. QED
      BY <1>2, <1>4, <2>1, <3>1, <3>2 DEF DInv, Validated, HandlingPcs
  <2>2. \A v \in Workers \ {w} : worker[v].pc \notin HandlingPcs
    BY <1>2, <2>1 DEF DInv, Alone
  <2>3. project'.status = "ready" => project.image \in past.validated
    BY <1>5, <2>1 DEF DInv, Validated
  <2>4. QED
    BY <2>2, <2>3
<1>11. Kept'
  BY <1>2, <1>3, <1>4 DEF DInv, Kept
<1>12. QED
  BY <1>6, <1>7, <1>8, <1>9, <1>10, <1>11 DEF DInv

LEMMA CompileKeeps ==
  ASSUME DInv, TInv', NEW w \in Workers, BuildCompiles(w)
  PROVE  DInv'
<1> DEFINE new == [code |-> worker[w].code, raced |-> worker[w].raced]
<1>1. worker \in [Workers -> WorkerState] /\ worker[w] \in WorkerState /\ TypeOK /\ project \in Row
  BY Typed
<1>2. made' = Append(made, new) /\ new \in [code : Codes \union {NoCode}, raced : BOOLEAN]
  BY <1>1 DEF BuildCompiles, NewImage, WorkerState
<1>3. /\ Len(made') = Len(made) + 1 /\ made'[Len(made) + 1] = new
      /\ \A i \in 1 .. Len(made) : made'[i] = made[i]
  <2>1. made \in Seq([code : Codes \union {NoCode}, raced : BOOLEAN])
    BY <1>1 DEF TypeOK
  <2> HIDE DEF new
  <2>2. QED
    BY <1>2, <2>1, AppendProperties
<1>4. Len(made) \in Nat /\ project.image \in Nat /\ project.subImage \in Nat /\ uploading \in Nat
  BY Typed
<1>5. /\ \A v \in Workers \ {w} : worker'[v] = worker[v]
      /\ worker[w].pc = "docker" /\ worker'[w].pc = "built"
      /\ worker'[w].image = Len(made) + 1 /\ worker'[w].keep = worker[w].keep
      /\ worker'[w].raced = worker[w].raced
  BY <1>1, <1>3 DEF BuildCompiles, At, WorkerState
<1>6. /\ UNCHANGED <<project, saving, uploading, past>> /\ images' = images \union {Len(made) + 1}
  BY <1>3 DEF BuildCompiles
<1>7. made'[Len(made) + 1].code = worker[w].code
  BY <1>3
<1> HIDE DEF new
<1>8. GoneIsEmpty' /\ Sources'
  BY <1>6 DEF DInv, GoneIsEmpty, Sources
<1>9. Paired'
  BY <1>3, <1>4, <1>6 DEF DInv, Paired, Fresh, NoImage
<1>10. Fresh'
  BY <1>3, <1>4, <1>5, <1>6 DEF DInv, Fresh, At
<1>11. Current'
  BY <1>3, <1>4, <1>5, <1>6, <1>7 DEF DInv, Current, Fresh, Building, At
<1>12. Alone'
  BY <1>5, <1>6 DEF DInv, Alone, HandlingPcs
<1>13. Validated'
  BY <1>5, <1>6 DEF DInv, Validated
<1>14. Kept'
  BY <1>5, <1>6 DEF DInv, Kept
<1>15. QED
  BY <1>8, <1>9, <1>10, <1>11, <1>12, <1>13, <1>14 DEF DInv

LEMMA SuccessKeeps ==
  ASSUME DInv, TInv', NEW w \in Workers, BuildSucceeds(w)
  PROVE  DInv'
<1> DEFINE image == worker[w].image
<1>1. worker \in [Workers -> WorkerState] /\ worker[w] \in WorkerState /\ TypeOK /\ project \in Row
      /\ saving \in [what : {"none", "save", "restore"}, overtaken : BOOLEAN]
  BY Typed DEF TypeOK
<1>2. /\ Len(made) \in Nat /\ project.image \in Nat /\ project.subImage \in Nat /\ uploading \in Nat
      /\ made \in Seq([code : Codes \union {NoCode}, raced : BOOLEAN])
  BY Typed DEF TypeOK
<1>3. worker[w].pc = "built"
  BY DEF BuildSucceeds, At
<1>4. /\ image \in 1 .. Len(made) /\ image # project.image /\ image # project.subImage
      /\ image # uploading /\ image # NoImage
      /\ \A v \in Workers \ {w} : At(v, "built") => worker[v].image # image
  BY <1>2, <1>3 DEF DInv, Fresh, At, NoImage
<1>5. /\ Len(made') = Len(made) /\ made'[image].raced = worker[w].raced
      /\ made'[image].code = made[image].code
      /\ \A i \in 1 .. Len(made) : i # image => made'[i] = made[i]
  <2>1. made' = [made EXCEPT ![image].raced = worker[w].raced]
    BY DEF BuildSucceeds
  <2>2. made[image] \in [code : Codes \union {NoCode}, raced : BOOLEAN]
    BY <1>2, <1>4, ElementOfSeq
  <2>3. made' = [made EXCEPT ![image] = [made[image] EXCEPT !.raced = worker[w].raced]]
    BY <2>1
  <2> DEFINE new == [made[image] EXCEPT !.raced = worker[w].raced]
  <2>4. new.raced = worker[w].raced /\ new.code = made[image].code
        /\ new \in [code : Codes \union {NoCode}, raced : BOOLEAN]
    BY <1>1, <2>2 DEF WorkerState
  <2> HIDE DEF new
  <2>5. QED
    BY <1>2, <1>4, <2>3, <2>4, ExceptSeq DEF new
<1>6. /\ \A v \in Workers \ {w} : worker'[v] = worker[v]
      /\ worker'[w].pc = "collect" /\ worker'[w].image = image /\ worker'[w].keep = worker[w].keep
  BY <1>1 DEF BuildSucceeds, Goes, WorkerState
<1>7. /\ UNCHANGED <<images, uploading, past>>
      /\ saving'.what = saving.what
  BY <1>1 DEF BuildSucceeds, Overtake
<1>8. /\ project'.exists = project.exists
      /\ project'.subImage = project.subImage /\ project'.code = project.code
      /\ project'.subCode = project.subCode /\ project'.version = project.version
      /\ project'.source = project.source
      /\ project.exists => project'.image = image /\ project'.status = "built"
      /\ ~project.exists => project'.image = project.image
  BY <1>1 DEF BuildSucceeds, Update, Built, Row
<1> HIDE DEF image
<1>9. GoneIsEmpty' /\ Sources'
  BY <1>7, <1>8 DEF DInv, GoneIsEmpty, Sources
<1>10. Fresh'
  BY <1>2, <1>4, <1>5, <1>6, <1>7, <1>8 DEF DInv, Fresh, At, image
<1>11. Current'
  BY <1>3, <1>4, <1>5, <1>6, <1>7, <1>8 DEF DInv, Current, Fresh, Building, At
<1>12. Paired'
  <2>1. SUFFICES ASSUME project.exists
                 PROVE  /\ saving.what # "none" => made'[image].raced
                        /\ made'[image].raced \/ made'[image].code = project.code
                        /\ project.version > 0 =>
                             /\ project.subImage # NoImage
                             /\ \/ made'[project.subImage].raced
                                \/ made'[project.subImage].code = project.subCode
    <3>1. project.exists /\ uploading # NoImage => made'[uploading].code = NoCode
      BY <1>2, <1>4, <1>5 DEF DInv, Paired, Fresh, NoImage
    <3>2. QED
      BY <1>4, <1>7, <1>8, <2>1, <3>1 DEF Paired
  <2>2. /\ saving.what # "none" => worker[w].raced
        /\ ~worker[w].raced => made[image].code = project.code
    BY <1>3, <2>1 DEF DInv, Current, Building, image
  <2>3. project.version > 0 =>
          /\ project.subImage # NoImage
          /\ made[project.subImage].raced \/ made[project.subImage].code = project.subCode
    BY <2>1 DEF DInv, Paired
  <2>4. project.subImage # NoImage => made'[project.subImage] = made[project.subImage]
    BY <1>2, <1>4, <1>5 DEF DInv, Fresh, NoImage
  <2>5. QED
    BY <1>5, <2>2, <2>3, <2>4
<1>13. Alone'
  BY <1>3, <1>6, <1>7 DEF DInv, Alone, HandlingPcs
<1>14. ~past.overlap => \A v \in Workers \ {w} : worker[v].pc \notin HandlingPcs
  BY <1>3 DEF DInv, Alone, HandlingPcs
<1>15. Validated'
  BY <1>6, <1>7, <1>8, <1>14 DEF DInv, Validated, HandlingPcs
<1>16. Kept'
  BY <1>3, <1>6, <1>7, <1>8, <1>14 DEF DInv, Kept, HandlingPcs, image
<1>17. QED
  BY <1>9, <1>10, <1>11, <1>12, <1>13, <1>15, <1>16 DEF DInv

LEMMA CollectKeeps ==
  ASSUME DInv, TInv', NEW w \in Workers, BuildCollects(w) \/ BuildSkipsCollecting(w)
  PROVE  DInv'
<1>1. worker \in [Workers -> WorkerState] /\ worker[w] \in WorkerState
  BY Typed
<1>2. /\ \A v \in Workers \ {w} : worker'[v] = worker[v]
      /\ worker[w].pc = "collect" /\ worker'[w].pc = "resolve"
  BY <1>1 DEF BuildCollects, BuildSkipsCollecting, At, WorkerState
<1>3. /\ UNCHANGED <<project, made, saving, uploading, past>>
      /\ \A i \in images : i \in images' \/ (i # worker[w].image /\ i # worker[w].keep)
  BY DEF BuildCollects, BuildSkipsCollecting, CollectImages, projectVars
<1>4. GoneIsEmpty' /\ Sources' /\ Paired'
  BY <1>3 DEF DInv, GoneIsEmpty, Sources, Paired
<1>5. Fresh'
  BY <1>2, <1>3 DEF DInv, Fresh, At
<1>6. Current'
  BY <1>2, <1>3 DEF DInv, Current, Building
<1>7. Alone'
  BY <1>2, <1>3 DEF DInv, Alone, HandlingPcs
<1>8. Validated'
  BY <1>2, <1>3 DEF DInv, Validated
<1>9. ~past.overlap => /\ uploading = NoImage
                       /\ \A v \in Workers \ {w} : worker[v].pc \notin HandlingPcs
  BY <1>2 DEF DInv, Alone, HandlingPcs
<1>10. Kept'
  BY <1>2, <1>3, <1>9 DEF DInv, Kept, HandlingPcs
<1>11. QED
  BY <1>4, <1>5, <1>6, <1>7, <1>8, <1>10 DEF DInv

LEMMA PlayKeeps ==
  ASSUME DInv, TInv', NEW w \in Workers, NEW reached \in BOOLEAN, NEW ok \in BOOLEAN,
         NEW blamed \in BOOLEAN, Plays(w, reached, ok, blamed)
  PROVE  DInv'
<1>1. worker \in [Workers -> WorkerState] /\ worker[w] \in WorkerState /\ TypeOK
  BY Typed
<1>2. /\ \A v \in Workers \ {w} : worker'[v] = worker[v]
      /\ worker[w].pc = "match" /\ worker'[w].pc = "verdict"
      /\ worker'[w].image = worker[w].image /\ worker'[w].reached = reached
  BY <1>1 DEF Plays, At, WorkerState
<1>3. /\ UNCHANGED <<projectVars, past.overlap, past.rolledBack>>
      /\ past.validated \subseteq past'.validated
      /\ reached => worker[w].image \in past'.validated
  BY <1>1 DEF Plays, TypeOK
<1>4. GoneIsEmpty' /\ Sources' /\ Paired'
  BY <1>3 DEF DInv, GoneIsEmpty, Sources, Paired, projectVars
<1>5. Fresh'
  BY <1>2, <1>3 DEF DInv, Fresh, At, projectVars
<1>6. Current'
  BY <1>2, <1>3 DEF DInv, Current, Building, projectVars
<1>7. Alone'
  BY <1>2, <1>3 DEF DInv, Alone, HandlingPcs, projectVars
<1>8. Validated'
  BY <1>2, <1>3 DEF DInv, Validated, projectVars
<1>9. Kept'
  BY <1>2, <1>3 DEF DInv, Kept, projectVars
<1>10. QED
  BY <1>4, <1>5, <1>6, <1>7, <1>8, <1>9 DEF DInv

\* A runner that leaves a job in the queue leaves the rest as well.
LEMMA OverlookKeeps ==
  ASSUME DInv, TInv', NEW w \in Workers, NEW j \in TestIds, Overlooks(w, j)
  PROVE  DInv'
<1>1. UNCHANGED <<projectVars, worker>> /\ \A v \in Workers : Quiet(v)
  BY DEF Overlooks, Quiet
<1>2. UNCHANGED <<past.overlap, past.rolledBack, past.validated>>
  BY Typed DEF Overlooks, TypeOK
<1>3. QED
  BY <1>1, <1>2, QuietKeeps

LEMMA RunnerKeeps ==
  ASSUME DInv, TInv', NEW w \in Workers, Works(w) \/ Boots(w) \/ Accident(w)
  PROVE  DInv'
<1>1. CASE Middle(w)
  <2>1. CASE Build(w)
    BY <2>1, LookingKeeps, StatusKeeps, CompileKeeps, SuccessKeeps, CollectKeeps DEF Build
  <2>2. QED
    BY <1>1, <2>1, LookingKeeps, StatusKeeps, CollectKeeps, PlayKeeps, RunnerIsQuiet DEF Middle
<1>2. QED
  BY <1>1, RunnerSteps, ClaimKeepsImages, OverlookKeeps, RunnerIsQuiet

------------------------------------------------------------------------------
(* The requests of the owner.                                              *)

LEMMA SaveKeeps ==
  ASSUME DInv, TInv',
         \/ \E what \in {"save", "restore"} : SaveBegins(what)
         \/ \E code \in Codes \union {NoCode} : SaveCommits(code)
  PROVE  DInv'
<1>1. worker \in [Workers -> WorkerState] /\ TypeOK /\ project \in Row
      /\ saving \in [what : {"none", "save", "restore"}, overtaken : BOOLEAN]
  BY Typed DEF TypeOK
<1>2. ASSUME NEW what \in {"save", "restore"}, SaveBegins(what) PROVE DInv'
  <2>1. UNCHANGED <<project, made, images, uploading, past>>
    BY <1>2 DEF SaveBegins
  <2>2. \A v \in Workers :
          /\ worker'[v].pc = worker[v].pc /\ worker'[v].image = worker[v].image
          /\ worker'[v].keep = worker[v].keep /\ worker'[v].code = worker[v].code
          /\ worker'[v].reached = worker[v].reached
          /\ worker'[v].raced = worker[v].raced \/ worker'[v].raced
          /\ Building(v) => worker'[v].raced
    BY <1>1, <1>2 DEF SaveBegins, WorkerState
  <2>3. saving'.what = what /\ ~saving'.overtaken /\ project.source = "browser"
    BY <1>2 DEF SaveBegins
  <2>4. GoneIsEmpty' /\ Sources' /\ Paired'
    BY <2>1, <2>3 DEF DInv, GoneIsEmpty, Sources, Paired
  <2>5. Fresh'
    BY <2>1, <2>2 DEF DInv, Fresh, At
  <2>6. Current'
    BY <2>1, <2>2 DEF DInv, Current, Building
  <2>7. Alone'
    BY <2>1, <2>2 DEF DInv, Alone
  <2>8. Validated'
    BY <2>1, <2>2 DEF DInv, Validated
  <2>9. Kept'
    BY <2>1, <2>2 DEF DInv, Kept
  <2>10. QED
    BY <2>4, <2>5, <2>6, <2>7, <2>8, <2>9 DEF DInv
<1>3. ASSUME NEW code \in Codes \union {NoCode}, SaveCommits(code) PROVE DInv'
  <2>1. /\ UNCHANGED <<made, images, uploading, worker, past>>
        /\ saving.what # "none" /\ saving'.what = "none" /\ ~saving'.overtaken
    BY <1>3 DEF SaveCommits, NoSave
  <2>2. /\ project'.exists = project.exists /\ project'.image = project.image
        /\ project'.subImage = project.subImage /\ project'.subCode = project.subCode
        /\ project'.version = project.version /\ project'.source = project.source
        /\ project.exists => project'.status = "saved" /\ project'.stale = ~saving.overtaken
    BY <1>1, <1>3 DEF SaveCommits, Update, Saved, Row
  <2>3. project.source = "browser"
    BY <2>1 DEF DInv, Sources
  <2>4. GoneIsEmpty' /\ Sources'
    BY <2>1, <2>2, <2>3 DEF DInv, GoneIsEmpty, Sources
  <2>5. Fresh'
    BY <2>1, <2>2 DEF DInv, Fresh, At
  <2>6. Current'
    BY <2>1, <2>2 DEF DInv, Current, Building
  <2>7. Paired'
    BY <1>1, <2>1, <2>2 DEF DInv, Paired
  <2>8. Alone'
    BY <2>1 DEF DInv, Alone
  <2>9. Validated'
    BY <2>1, <2>2 DEF DInv, Validated
  <2>10. Kept'
    BY <2>1, <2>2 DEF DInv, Kept
  <2>11. QED
    BY <2>4, <2>5, <2>6, <2>7, <2>8, <2>9, <2>10 DEF DInv
<1>4. QED
  BY <1>2, <1>3

LEMMA SubmitKeeps ==
  ASSUME DInv, TInv', Submit
  PROVE  DInv'
<1>1. project \in Row /\ project.version \in Nat
  BY Typed
<1>2. /\ project'.exists = project.exists /\ project'.image = project.image
      /\ project'.subImage = project.image /\ project'.subCode = project.code
      /\ project'.version = project.version + 1 /\ project'.source = project.source
      /\ project'.stale = project.stale /\ project'.status = project.status
      /\ project'.code = project.code
  BY <1>1 DEF Submit, Promoted, Row
<1>3. /\ project.exists /\ project.status = "ready" /\ ~project.stale
      /\ uploading = NoImage
      /\ UNCHANGED <<made, images, saving, uploading, worker, past>>
  BY DEF Submit, Submittable, OwnerIsFree
<1>4. GoneIsEmpty' /\ Sources'
  BY <1>2, <1>3 DEF DInv, GoneIsEmpty, Sources
<1>5. Fresh'
  BY <1>2, <1>3 DEF DInv, Fresh, At
<1>6. Current'
  BY <1>2, <1>3 DEF DInv, Current, Building
<1>7. Paired'
  BY <1>2, <1>3 DEF DInv, Paired
<1>8. Alone'
  BY <1>3 DEF DInv, Alone
<1>9. Validated'
  BY <1>2, <1>3 DEF DInv, Validated
<1>10. Kept'
  <2>1. ~past.overlap => \A v \in Workers : worker[v].pc \notin {"start", "docker", "built", "collect"}
    BY <1>3 DEF DInv, Validated
  <2>2. QED
    BY <1>2, <1>3, <2>1 DEF DInv, Kept
<1>11. QED
  BY <1>4, <1>5, <1>6, <1>7, <1>8, <1>9, <1>10 DEF DInv

LEMMA UploadKeeps ==
  ASSUME DInv, TInv', UploadLoads \/ UploadCommits \/ UploadRollsBack
  PROVE  DInv'
<1>1. worker \in [Workers -> WorkerState] /\ TypeOK /\ project \in Row
      /\ saving \in [what : {"none", "save", "restore"}, overtaken : BOOLEAN]
      /\ made \in Seq([code : Codes \union {NoCode}, raced : BOOLEAN])
      /\ \A v \in Workers : worker[v].image \in Nat
  BY Typed DEF TypeOK
<1>2. Len(made) \in Nat /\ project.image \in Nat /\ project.subImage \in Nat /\ uploading \in Nat
  BY Typed
<1>3. CASE UploadLoads
  <2> DEFINE new == [code |-> NoCode, raced |-> FALSE]
  <2>1. made' = Append(made, new) /\ new \in [code : Codes \union {NoCode}, raced : BOOLEAN]
    BY <1>3 DEF UploadLoads, NewImage
  <2> HIDE DEF new
  <2>2. /\ Len(made') = Len(made) + 1 /\ made'[Len(made) + 1] = new
        /\ \A i \in 1 .. Len(made) : made'[i] = made[i]
    BY <1>1, <2>1, AppendProperties
  <2>3. made'[Len(made) + 1].code = NoCode
    BY <2>2 DEF new
  <2>4. /\ uploading = NoImage /\ uploading' = Len(made) + 1 /\ project.exists
        /\ project.source = "external_image"
        /\ UNCHANGED <<project, saving, worker>>
        /\ images' = {i \in images \union {Len(made) + 1} :
                        project.image # NoImage => i \in {Len(made) + 1, project.subImage}}
    BY <1>3, <2>2 DEF UploadLoads, OwnerIsFree
  <2>5. /\ UNCHANGED <<past.rolledBack, past.validated>>
        /\ ~past'.overlap => ~past.overlap /\ \A v \in Workers : ~Handling(v)
    BY <1>1, <1>3 DEF UploadLoads, TypeOK
  <2>6. \A v \in Workers : worker[v].pc \in HandlingPcs => Handling(v)
    BY DEF DInv, TInv, Busy, HandlingPcs, Handling, Working
  <2>7. saving.what = "none" /\ project.code = NoCode
    BY <1>1, <2>4 DEF DInv, Sources
  <2>8. GoneIsEmpty' /\ Sources'
    BY <2>4, <2>7 DEF DInv, GoneIsEmpty, Sources
  <2>9. Fresh'
    BY <1>1, <1>2, <2>2, <2>4 DEF DInv, Fresh, At, NoImage
  <2>10. Current'
    BY <2>2, <2>4 DEF DInv, Current, Fresh, Building, At
  <2>11. Paired'
    BY <1>2, <2>2, <2>3, <2>4 DEF DInv, Paired, Fresh, NoImage
  <2>12. ~past'.overlap => \A v \in Workers : worker'[v].pc \notin HandlingPcs
    BY <2>4, <2>5, <2>6
  <2>13. Alone'
    BY <2>12 DEF Alone
  <2>14. Validated'
    BY <2>4, <2>5, <2>12 DEF DInv, Validated, HandlingPcs
  <2>15. Kept'
    BY <1>2, <2>4, <2>5, <2>12 DEF DInv, Kept, HandlingPcs, NoImage
  <2>16. QED
    BY <2>8, <2>9, <2>10, <2>11, <2>13, <2>14, <2>15 DEF DInv
<1>4. CASE UploadCommits
  <2>1. /\ UNCHANGED <<made, images, worker, past>>
        /\ uploading # NoImage /\ uploading' = NoImage /\ saving'.what = saving.what
        /\ saving.what = "none" => saving' = saving
    BY <1>1, <1>4 DEF UploadCommits, Overtake
  <2>2. /\ project'.exists = project.exists
        /\ project'.subImage = project.subImage /\ project'.code = project.code
        /\ project'.subCode = project.subCode /\ project'.version = project.version
        /\ project'.source = project.source
        /\ project.exists => project'.image = uploading /\ project'.status = "built"
        /\ ~project.exists => project'.image = project.image
    BY <1>1, <1>4 DEF UploadCommits, Update, Built, Row
  <2>3. project.source = "external_image" /\ saving.what = "none" /\ project.code = NoCode
    BY <1>1, <2>1 DEF DInv, Sources
  <2>4. project.exists => made[uploading].code = NoCode
    BY <2>1 DEF DInv, Paired
  <2>5. GoneIsEmpty' /\ Sources'
    BY <2>1, <2>2 DEF DInv, GoneIsEmpty, Sources
  <2>6. Fresh'
    BY <1>2, <2>1, <2>2 DEF DInv, Fresh, At, NoImage
  <2>7. Current'
    BY <2>1, <2>2 DEF DInv, Current, Building
  <2>8. Paired'
    BY <2>1, <2>2, <2>3, <2>4 DEF DInv, Paired
  <2>9. ~past.overlap => \A v \in Workers : worker[v].pc \notin HandlingPcs
    BY <2>1 DEF DInv, Alone
  <2>10. Alone'
    BY <2>1, <2>9 DEF Alone
  <2>11. Validated'
    BY <2>1, <2>2, <2>9 DEF DInv, Validated, HandlingPcs
  <2>12. Kept'
    BY <2>1, <2>2, <2>9 DEF DInv, Kept, HandlingPcs
  <2>13. QED
    BY <2>5, <2>6, <2>7, <2>8, <2>10, <2>11, <2>12 DEF DInv
<1>5. CASE UploadRollsBack
  <2>1. /\ UNCHANGED <<project, made, images, saving, worker>>
        /\ uploading # NoImage /\ uploading' = NoImage
    BY <1>5 DEF UploadRollsBack
  <2>2. UNCHANGED <<past.overlap, past.validated>> /\ past'.rolledBack
    BY <1>1, <1>5 DEF UploadRollsBack, TypeOK
  <2>3. GoneIsEmpty' /\ Sources' /\ Paired'
    BY <2>1 DEF DInv, GoneIsEmpty, Sources, Paired
  <2>4. Fresh'
    BY <1>2, <2>1 DEF DInv, Fresh, At, NoImage
  <2>5. Current'
    BY <2>1 DEF DInv, Current, Building
  <2>6. Alone'
    BY <2>1, <2>2 DEF DInv, Alone
  <2>7. Validated'
    BY <2>1, <2>2 DEF DInv, Validated
  <2>8. Kept'
    BY <2>2 DEF Kept
  <2>9. QED
    BY <2>3, <2>4, <2>5, <2>6, <2>7, <2>8 DEF DInv
<1>6. QED
  BY <1>3, <1>4, <1>5

LEMMA DeleteKeeps ==
  ASSUME DInv, TInv', DeleteCommits
  PROVE  DInv'
<1>1. UNCHANGED <<made, images, saving, uploading, worker, past>>
  BY DEF DeleteCommits
<1>2. /\ ~project'.exists /\ project'.image = NoImage /\ project'.subImage = NoImage
      /\ project'.version = 0 /\ project'.source = project.source /\ project'.code = NoCode
  BY DEF DeleteCommits, Created
<1>3. Len(made) \in Nat /\ \A w \in Workers : worker[w].image \in Nat
  BY Typed
<1>4. Fresh'
  BY <1>1, <1>2, <1>3 DEF DInv, Fresh, At, NoImage
<1>5. Alone'
  BY <1>1 DEF DInv, Alone
<1>6. GoneIsEmpty' /\ Sources' /\ Current' /\ Paired' /\ Validated' /\ Kept'
  BY <1>1, <1>2 DEF DInv, GoneIsEmpty, Sources, Current, Paired, Validated, Kept
<1>7. QED
  BY <1>4, <1>5, <1>6 DEF DInv

\* Until then, and if it never commits, all that images depend on is the same.
LEMMA LeavingKeeps ==
  ASSUME DInv, TInv', (\E left \in SUBSET TestIds : DeleteBegins(left)) \/ DeleteRollsBack
  PROVE  DInv'
<1>1. project \in Row /\ TypeOK
  BY Typed
<1>2. \E leaving \in BOOLEAN : project' = [project EXCEPT !.leaving = leaving]
  BY DEF DeleteBegins, DeleteRollsBack
<1>3. /\ project'.exists = project.exists /\ project'.image = project.image
      /\ project'.subImage = project.subImage /\ project'.code = project.code
      /\ project'.subCode = project.subCode /\ project'.version = project.version
      /\ project'.source = project.source /\ project'.status = project.status
      /\ project'.stale = project.stale
  BY <1>1, <1>2 DEF Row
<1>4. UNCHANGED <<made, images, saving, uploading, worker>>
  BY DEF DeleteBegins, DeleteRollsBack
<1>5. UNCHANGED <<past.overlap, past.rolledBack, past.validated>>
  BY <1>1 DEF DeleteBegins, DeleteRollsBack, TypeOK
<1>6. GoneIsEmpty' /\ Sources' /\ Paired'
  BY <1>3, <1>4 DEF DInv, GoneIsEmpty, Sources, Paired
<1>7. Fresh' /\ Current'
  BY <1>3, <1>4 DEF DInv, Fresh, Current, At, Building
<1>8. Alone' /\ Validated' /\ Kept'
  BY <1>3, <1>4, <1>5 DEF DInv, Alone, Validated, Kept
<1>9. QED
  BY <1>6, <1>7, <1>8 DEF DInv

LEMMA OthersKeep ==
  ASSUME DInv, TInv',
         \/ Enqueue \/ \E j \in TestIds : Pin(j) \/ Unpin(j) \/ CancelJob(j)
         \/ Stream \/ OpponentLeaves \/ UNCHANGED vars
  PROVE  DInv'
<1>1. UNCHANGED <<projectVars, worker, past>>
  BY DEF Enqueue, Pin, Unpin, CancelJob, Stream, OpponentLeaves, vars
<1>2. \A v \in Workers : Quiet(v)
  BY <1>1 DEF Quiet
<1>3. QED
  BY <1>1, <1>2, QuietKeeps

------------------------------------------------------------------------------
(* Together.                                                               *)

LEMMA DInit == Init => DInv
<1> SUFFICES ASSUME Init PROVE DInv
  OBVIOUS
<1>1. TInv
  BY InitTyped
<1>2. \A w \in Workers : worker[w].pc \in {"idle", "down"}
  BY DEF Init, WorkerRest
<1>3. /\ project.image = NoImage /\ project.subImage = NoImage /\ project.version = 0
      /\ project.stale /\ project.status = "null"
      /\ project.source = "external_image" => project.code = NoCode
  BY DEF Init, ProjectInit, Created
<1>4. /\ saving.what = "none" /\ ~saving.overtaken /\ uploading = NoImage /\ Len(made) = 0
  BY EmptySeq DEF Init, ProjectInit, NoSave
<1>5. QED
  BY <1>1, <1>2, <1>3, <1>4 DEF DInv, GoneIsEmpty, Fresh, Sources, Current, Paired, Alone, Validated,
    Kept, At, Building, HandlingPcs, NoImage

LEMMA DNext == DInv /\ [Next]_vars => DInv'
<1> SUFFICES ASSUME DInv, [Next]_vars PROVE DInv'
  OBVIOUS
<1>1. TInv'
  BY NextTyped DEF DInv
<1>2. CASE \E w \in Workers : Works(w) \/ Boots(w) \/ Accident(w)
  BY <1>1, <1>2, RunnerKeeps
<1>3. CASE User
  BY <1>1, <1>3, SaveKeeps, SubmitKeeps, UploadKeeps, DeleteKeeps, LeavingKeeps, OthersKeep
     DEF User
<1>4. CASE Stream \/ OpponentLeaves \/ UNCHANGED vars
  BY <1>1, <1>4, OthersKeep
<1>5. QED
  BY <1>2, <1>3, <1>4 DEF Next

\* What images, code, builds under way and the row have to do with each other
\* is an inductive invariant.
THEOREM ImagesHold == Spec => []DInv
BY DInit, DNext, PTL DEF Spec

\* What is submitted belongs together: the image was built from the archive
\* submitted with it, unless a save overlapped its build.
THEOREM SubmissionsBelongTogether == Spec => []SubmittedImageMatchesCode
<1>1. DInv => SubmittedImageMatchesCode
  <2>1. SUFFICES ASSUME DInv, project.version > 0
                 PROVE  made[project.subImage].raced \/ made[project.subImage].code = project.subCode
    BY DEF SubmittedImageMatchesCode
  <2>2. project.exists
    BY <2>1 DEF DInv, GoneIsEmpty
  <2>3. QED
    BY <2>1, <2>2 DEF DInv, Paired
<1>2. QED
  BY <1>1, ImagesHold, PTL

\* Only what was seen to play is submitted, as long as the project's runner
\* iterations and uploads come one after the other.
THEOREM SubmissionsWerePlayed == Spec => []SubmittedImageWasValidated
<1>1. DInv => SubmittedImageWasValidated
  <2>1. DInv /\ project.version > 0 => project.exists
    BY DEF DInv, GoneIsEmpty
  <2>2. QED
    BY <2>1 DEF DInv, Validated, SubmittedImageWasValidated
<1>2. QED
  BY <1>1, ImagesHold, PTL

\* No collection takes an image that the row points at, under the conditions
\* of the property.
THEOREM ImagesStay == Spec => []ImagesInUseExist
<1>1. DInv => ImagesInUseExist
  BY DEF DInv, GoneIsEmpty, Kept, ImagesInUseExist
<1>2. QED
  BY <1>1, ImagesHold, PTL
=============================================================================
