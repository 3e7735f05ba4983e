----------------------------- MODULE DevPipeline -----------------------------
(***************************************************************************)
(* The development side of the arena, for one project: its owner edits,    *)
(* uploads, tests, watches, pins and submits through the API while test    *)
(* runners build and play.  This module adds the API (routers/projects.py, *)
(* routers/test_matches.py) and states what holds of the whole.            *)
(***************************************************************************)
EXTENDS TestRunner

CONSTANT Scenarios  \* what users and environment do: one set of these for a behaviour

ASSUME ScenariosAssumption ==
  Scenarios \subseteq SUBSET
    {"save", "submit", "upload", "test often", "test once", "cancel",
     "pin", "delete", "watch",
     "crash", "scale", "hiccup", "opponent"}

VARIABLE scenario

vars == <<projectVars, test, bundles, viewer, worker, past, opponent, scenario>>

\* Bound: tests in all.
Tests == IF "test often" \in scenario THEN MaxTests
         ELSE IF "test once" \in scenario THEN 1 ELSE 2

FirstWorker == CHOOSE w \in Workers : TRUE

\* One runner is up; in a behaviour that scales, any, and others boot later.
Init ==
  /\ scenario \in Scenarios
  /\ ProjectInit
  /\ TestsInit
  /\ ViewerInit
  /\ worker \in [Workers -> {WorkerRest("idle"), WorkerRest("down")}]
  /\ "scale" \notin scenario => worker = [w \in Workers |->
       WorkerRest(IF w = FirstWorker THEN "idle" ELSE "down")]
  /\ past = [overlap |-> FALSE, rolledBack |-> FALSE, removed |-> {}, overlooked |-> {},
             lost |-> {}, silent |-> {}, reset |-> {}, validated |-> {}]
  /\ opponent = "fit"

------------------------------------------------------------------------------
(* The projects router.  A request locks its owner's row when it is        *)
(* authenticated and keeps the lock until it commits (ApiServer), so the   *)
(* requests of an owner take place one after the other: each is one step,  *)
(* but for what other processes can come between.  OwnerIsFree is that     *)
(* lock; only an upload and a delete hold it for more than a step.         *)

OwnerIsFree == uploading = NoImage /\ ~project.leaving

\* save_files and restore: the transaction begins here, with the reads; what
\* is being built from now on is not what the user sees.
SaveBegins(what) ==
  /\ "save" \in scenario
  /\ project.exists /\ project.source = "browser" /\ saving.what = "none"
  /\ what = "restore" => project.version > 0
  /\ saving' = [what |-> what, overtaken |-> FALSE]
  /\ worker' = [w \in Workers |->
                  IF Building(w) THEN [worker[w] EXCEPT !.raced = TRUE] ELSE worker[w]]
  /\ UNCHANGED <<project, made, images, uploading, test, bundles, viewer, past, opponent, scenario>>

SaveCommits(code) ==
  /\ OwnerIsFree
  /\ \/ saving.what = "save" /\ code \in Codes
     \/ saving.what = "restore" /\ code = project.subCode
  /\ Update(Saved(code))
  /\ saving' = NoSave
  /\ UNCHANGED <<made, images, uploading, test, bundles, viewer, worker, past, opponent, scenario>>

\* submit.  Used-up quotas undo it as if it had not been asked for.
Submit ==
  /\ "submit" \in scenario
  /\ OwnerIsFree
  /\ Submittable
  /\ project.version < MaxVersion
  /\ project' = Promoted
  /\ UNCHANGED <<made, images, saving, uploading, test, bundles, viewer, worker, past, opponent, scenario>>

\* upload_image_finalize up to the row: the image is loaded and tagged, and
\* the others collected if there was a dev image ...
UploadLoads ==
  /\ "upload" \in scenario
  /\ project.exists /\ project.source = "external_image" /\ OwnerIsFree
  /\ NewImage(NoCode, FALSE)
  /\ uploading' = Len(made')
  /\ images' = {i \in images \union {uploading'} :
                  project.image # NoImage => i \in {uploading', project.subImage}}
  /\ past' = [past EXCEPT !.overlap = @ \/ \E w \in Workers : Handling(w)]
  /\ UNCHANGED <<project, saving, test, bundles, viewer, worker, opponent, scenario>>

\* ... then 'building' and 'built' in one transaction, which commits unless
\* the quota turns out to be used up.
UploadCommits ==
  /\ uploading # NoImage
  /\ Update(Built(uploading))
  /\ Overtake
  /\ uploading' = NoImage
  /\ UNCHANGED <<made, images, test, bundles, viewer, worker, past, opponent, scenario>>

UploadRollsBack ==
  /\ uploading # NoImage
  /\ "hiccup" \in scenario
  /\ uploading' = NoImage
  /\ past' = [past EXCEPT !.rolledBack = TRUE]
  /\ UNCHANGED <<project, made, images, saving, test, bundles, viewer, worker, opponent, scenario>>

\* delete, the handler: the keys are read, the rows deleted with all that
\* cascades, and the bundles deleted as far as storage allows, all before the
\* transaction commits.  Until then its rows are there for readers, and
\* locked for writers and claims; the images stay.
DeleteBegins(left) ==
  /\ "delete" \in scenario
  /\ OwnerIsFree
  /\ project.exists
  /\ left \subseteq Keyed(test)
  /\ project' = [project EXCEPT !.leaving = TRUE]
  /\ bundles' = bundles \ (Keyed(test) \ left)
  /\ past' = [past EXCEPT !.removed = @ \union (Keyed(test) \ left)]
  /\ UNCHANGED <<made, images, saving, uploading, test, viewer, worker, opponent, scenario>>

\* get_db commits after the handler has returned ...
DeleteCommits ==
  /\ project.leaving
  /\ project' = [Created(project.source, NoCode) EXCEPT !.exists = FALSE]
  /\ test' = AllGone
  /\ UNCHANGED <<made, images, saving, uploading, bundles, viewer, worker, past, opponent, scenario>>

\* ... or the commit fails, or the process is gone before it: the rows stay,
\* their bundles do not come back, and a job that was queued may have been
\* skipped by every runner.
DeleteRollsBack ==
  /\ project.leaving
  /\ "hiccup" \in scenario
  /\ project' = [project EXCEPT !.leaving = FALSE]
  /\ past' = [past EXCEPT !.overlooked = @ \union TestsIn({"queued"})]
  /\ UNCHANGED <<made, images, saving, uploading, test, bundles, viewer, worker, opponent, scenario>>

------------------------------------------------------------------------------
(* The test matches router.                                                *)

\* enqueue: no other job of the project may be active.
Enqueue ==
  /\ OwnerIsFree
  /\ project.exists /\ opponent # "deleted"
  /\ TestsIn(Active) = {}
  /\ Cardinality(TestIds \ TestsIn({"none"})) < Tests
  /\ InsertTest
  /\ UNCHANGED <<projectVars, bundles, viewer, worker, past, opponent, scenario>>

\* update_pin: pinning counts first, unpinning does not.
Pin(j) ==
  /\ "pin" \in scenario
  /\ OwnerIsFree
  /\ Exists(j) /\ j \notin Pinned(test)
  /\ Cardinality(Pinned(test)) < MaxPinned
  /\ test' = [test EXCEPT ![j].pinned = TRUE]
  /\ UNCHANGED <<projectVars, bundles, viewer, worker, past, opponent, scenario>>

Unpin(j) ==
  /\ "pin" \in scenario
  /\ OwnerIsFree
  /\ j \in Pinned(test)
  /\ test' = [test EXCEPT ![j].pinned = FALSE]
  /\ UNCHANGED <<projectVars, bundles, viewer, worker, past, opponent, scenario>>

\* cancel_job
CancelJob(j) ==
  /\ "cancel" \in scenario
  /\ OwnerIsFree
  /\ CancelTest(j)
  /\ UNCHANGED <<projectVars, bundles, viewer, worker, past, opponent, scenario>>

Stream ==
  /\ "watch" \in scenario
  /\ \/ \E j \in TestIds : ViewerOpens(j)
     \/ ViewerSubscribes
     \/ ViewerSnapshot
     \/ ViewerGoesLive
     \/ ViewerForwards
     \/ ViewerLeaves
  /\ UNCHANGED <<projectVars, test, bundles, worker, past, opponent, scenario>>

User ==
  \/ \E what \in {"save", "restore"} : SaveBegins(what)
  \/ \E code \in Codes \union {NoCode} : SaveCommits(code)
  \/ Submit
  \/ UploadLoads \/ UploadCommits \/ UploadRollsBack
  \/ \E left \in SUBSET TestIds : DeleteBegins(left)
  \/ DeleteCommits \/ DeleteRollsBack
  \/ Enqueue
  \/ \E j \in TestIds : Pin(j) \/ Unpin(j) \/ CancelJob(j)

------------------------------------------------------------------------------
(* The test runners, and what goes wrong.                                  *)

Works(w) == Iteration(w) /\ UNCHANGED scenario

Boots(w) ==
  /\ scenario \intersect {"crash", "scale"} # {}
  /\ \E old \in SUBSET TestIds : WorkerBoots(w, old)
  /\ UNCHANGED scenario

Accident(w) ==
  /\ \/ "hiccup" \in scenario /\ Hiccup(w)
     \/ "crash" \in scenario /\ (GivesUp(w) \/ WorkerDies(w))
  /\ UNCHANGED scenario

OpponentLeaves ==
  /\ "opponent" \in scenario
  /\ opponent' = "deleted"
  /\ UNCHANGED <<projectVars, test, bundles, viewer, worker, past, scenario>>

Next ==
  \/ User
  \/ Stream
  \/ \E w \in Workers : Works(w) \/ Boots(w) \/ Accident(w)
  \/ OpponentLeaves

Spec == Init /\ [][Next]_vars

\* The daemons run whenever they can, and a delete that has begun ends; users
\* and accidents happen or not.  A write that waits for a row's lock is next
\* in its queue, so that one delete after the other cannot starve it: strong
\* fairness.
FairSpec ==
  /\ Spec
  /\ \A w \in Workers : SF_vars(Works(w) \/ Boots(w))
  /\ WF_vars(DeleteCommits)

------------------------------------------------------------------------------
(* What must hold.                                                         *)

\* Every variable stays in its type.
TypeOK ==
  /\ project \in Row
  /\ made \in Seq([code : Codes \union {NoCode}, raced : BOOLEAN])
  /\ Len(made) <= MaxImages
  /\ images \subseteq 1 .. Len(made)
  /\ saving \in [what : {"none", "save", "restore"}, overtaken : BOOLEAN]
  /\ uploading \in ImageIds \union {NoImage}
  /\ test \in [TestIds -> TestRow]
  /\ bundles \subseteq TestIds
  /\ viewer \in ViewerState
  /\ worker \in [Workers -> WorkerState]
  /\ past \in [overlap : BOOLEAN, rolledBack : BOOLEAN, removed : SUBSET TestIds,
               overlooked : SUBSET TestIds, lost : SUBSET TestIds, silent : SUBSET TestIds,
               reset : SUBSET TestIds, validated : SUBSET ImageIds]
  /\ opponent \in OpponentState
  /\ scenario \in Scenarios

\* What is submitted belongs together: the image was built from the archive
\* submitted with it, unless a save overlapped its build (which the two
\* timestamps cannot tell).
SubmittedImageMatchesCode ==
  project.version > 0 =>
    LET image == made[project.subImage]
    IN image.raced \/ image.code = project.subCode

\* Only what was seen to play is submitted, as long as the project's runner
\* iterations and uploads come one after the other.
SubmittedImageWasValidated ==
  project.version > 0 /\ ~past.overlap => project.subImage \in past.validated

\* Collecting images never takes one the row points at, though each collector
\* goes by a submitted tag it read earlier: not while the project's runner
\* iterations and uploads come one after the other and no upload is undone
\* after its collection (until it commits, the old dev image is missing).
ImagesInUseExist ==
  ~past.overlap /\ ~past.rolledBack =>
    /\ project.subImage # NoImage => project.subImage \in images
    /\ project.image # NoImage /\ uploading = NoImage => project.image \in images

\* A bundle_key in the table is a bundle in storage, put before the row and
\* pruned after it: unless a delete of the project has taken the bundle, which
\* it does before it commits, and also if it never commits.
KeysHaveBundles == Keyed(test) \ past.removed \subseteq bundles

\* Retention: the transaction that records a bundle leaves no more of them
\* than the limit, or than are pinned.
StoredBundlesBounded ==
  [][~(Keyed(test') \subseteq Keyed(test)) =>
       \/ Cardinality(Keyed(test')) <= BundleLimit
       \/ Keyed(test') \subseteq Pinned(test')]_vars

\* An outcome is final: nothing but the late writer of a job that was failed
\* as stale rewrites it.
OutcomesAreFinal ==
  [][\A j \in TestIds \ past.reset :
       test[j].status \in Terminal => test'[j].status \in {test[j].status, "gone"}]_vars

\* The test jobs with their runners are a test board: one job at a time, one
\* runner per job, outcomes from that runner alone, but for a reset over its
\* head, whose late writer is the one exception to their finality.
Phase == [j \in TestIds |-> test[j].status]
Hand == [w \in Workers |-> IF worker[w].pc \in {"purge", "announce"} THEN 0 ELSE worker[w].job]

Board == INSTANCE TestBoard WITH
  Ids <- TestIds, phase <- Phase, hand <- Hand, expired <- past.reset

ImplementsTestBoard == Board!Spec

\* A live stream ends: once its job has an outcome, the frame is there or is
\* still to come, unless the runner died, stumbled over the job before its
\* try, or could not publish.
NoMissedEnd ==
  LET j == viewer.job
  IN viewer.pc = "live" /\ test[j].status \in {"success", "failure"} =>
       \/ viewer.inbox # "none"
       \/ \E w \in Workers : worker[w].job = j
       \/ j \in past.lost \union past.silent

\* When the stream says success, the history that the page loads next has it.
SuccessIsRecordedFirst ==
  viewer.inbox = "success" => test[viewer.job].status \in Terminal \union {"gone"}

\* Every job comes to an end, unless the runner that holds it died or stumbled
\* before its try: then it is for a boot that comes late enough to find it
\* stale; or unless the runners overlooked it when they were woken for it:
\* then it is for the next job of any project, or the next boot.
EveryTestIsSettled ==
  \A j \in TestIds :
    test[j].status \in Active ~>
      (test[j].status \notin Active \/ j \in past.lost \union past.overlooked)
=============================================================================
