------------------------------ MODULE TestRunner -----------------------------
(***************************************************************************)
(* The test runner daemon (orchestrator/test_runner_daemon.py): claim a    *)
(* test job, build the player's image unless its code is built already,    *)
(* play, write verdict, bundle and outcome, prune, tell the viewer.        *)
(***************************************************************************)
EXTENDS Builder

VARIABLE opponent  \* the submitted project the job is played against

OpponentState == {"fit", "quarantined", "deleted"}

Working(w) == worker[w].job # 0

\* The pcs of an iteration in which it reads or writes the dev image.
Handling(w) == Working(w) /\ worker[w].pc \notin {"fail", "bundle", "finish", "purge", "announce"}

\* claim_one_queued_test_job with its commit, before the mkdtemp.
Claims(w, j) ==
  /\ At(w, "idle")
  /\ ~project.leaving
  /\ ClaimTest(j)
  /\ worker' = [worker EXCEPT ![w].pc = "check", ![w].job = j]
  /\ past' = [past EXCEPT !.overlap = @ \/ uploading # NoImage
                                        \/ \E v \in Workers \ {w} : Handling(v)]
  /\ UNCHANGED <<projectVars, bundles, viewer, opponent>>

\* The claim is rolled back, which is logged, or a peer's was while this
\* runner skipped the locked row: the job is still queued, and the runner
\* waits for the next NOTIFY, which is another project's.
Overlooks(w, j) ==
  /\ At(w, "idle")
  /\ j \in TestsIn({"queued"})
  /\ past' = [past EXCEPT !.overlooked = @ \union {j}]
  /\ UNCHANGED <<projectVars, test, bundles, viewer, worker, opponent>>

\* After the claim and before the try, the working directory or one of the
\* observers cannot be made: the exception is logged by the loop, which goes
\* to sleep, and the row stays 'running'.
Stumbles(w) ==
  /\ At(w, "check")
  /\ past' = [past EXCEPT !.lost = @ \union {worker[w].job}]
  /\ worker' = [worker EXCEPT ![w] = WorkerRest("idle")]
  /\ UNCHANGED <<projectVars, test, bundles, viewer, opponent>>

\* 'built', 'ready' and 'crashed' are read as: the current code compiled.
ChecksBuild(w) ==
  /\ At(w, "check")
  /\ Goes(w, IF ~project.exists THEN "fail"
             ELSE IF project.status \in {"built", "ready", "crashed"} THEN "resolve"
             ELSE "lookup")
  /\ UNCHANGED <<projectVars, test, bundles, viewer, past, opponent>>

\* resolve_test_agents: the dev image of now, and a submitted opponent.
Resolves(w) ==
  /\ At(w, "resolve")
  /\ IF project.exists /\ project.image # NoImage /\ opponent # "deleted"
     THEN worker' = [worker EXCEPT ![w].pc = "match", ![w].image = project.image]
     ELSE Goes(w, "fail")
  /\ UNCHANGED <<projectVars, test, bundles, viewer, past, opponent>>

\* run_match up to on_result.  reached is the observer's dev_reached_start, ok
\* the result's success, blamed tells that the opponent did not come up; an
\* image that docker does not have ends the match before its start.
Plays(w, reached, ok, blamed) ==
  /\ At(w, "match")
  /\ worker[w].image \notin images => ~reached /\ ~ok /\ ~blamed
  /\ worker' = [worker EXCEPT ![w].pc = "verdict", ![w].reached = reached,
                              ![w].ok = ok, ![w].blamed = blamed]
  /\ past' = IF reached THEN [past EXCEPT !.validated = @ \union {worker[w].image}] ELSE past
  /\ UNCHANGED <<projectVars, test, bundles, viewer, opponent>>

\* run_match raises: docker could not make a network or a container.
PlayBreaks(w) ==
  /\ At(w, "match")
  /\ Goes(w, "fail")
  /\ UNCHANGED <<projectVars, test, bundles, viewer, past, opponent>>

\* Mutant: the terminal frame goes out with the verdict, before the outcome
\* is in the table.
JudgesAndAnnounces(w) ==
  /\ At(w, "verdict")
  /\ Update([project EXCEPT !.status = IF worker[w].reached THEN "ready" ELSE "crashed"])
  /\ Publish(worker[w].job, IF worker[w].ok THEN "success" ELSE "failure")
  /\ worker' = [worker EXCEPT ![w].pc = "blame", ![w].image = NoImage, ![w].reached = FALSE]
  /\ UNCHANGED <<made, images, saving, uploading, test, bundles, past, opponent>>

\* on_match_result, inside run_match: the verdict lands on the project,
\* whatever image it has by now.
Judges(w) ==
  /\ At(w, "verdict")
  /\ Update([project EXCEPT !.status = IF worker[w].reached THEN "ready" ELSE "crashed"])
  /\ worker' = [worker EXCEPT ![w].pc = "blame", ![w].image = NoImage, ![w].reached = FALSE]
  /\ UNCHANGED <<made, images, saving, uploading, test, bundles, viewer, past, opponent>>

\* The verdict cannot be written: a warning, and the run goes on.
VerdictIsLost(w) ==
  /\ At(w, "verdict")
  /\ worker' = [worker EXCEPT ![w].pc = "blame", ![w].image = NoImage, ![w].reached = FALSE]
  /\ UNCHANGED <<projectVars, test, bundles, viewer, past, opponent>>

\* mark_submitted_crashed for an opponent that did not come up.
Blames(w) ==
  /\ At(w, "blame")
  /\ opponent' = IF worker[w].blamed /\ opponent # "deleted" THEN "quarantined" ELSE opponent
  /\ worker' = [worker EXCEPT ![w].pc = "bundle", ![w].blamed = FALSE]
  /\ UNCHANGED <<projectVars, test, bundles, viewer, past>>

\* analyze or build_participants raises.
AnalysisBreaks(w) ==
  /\ At(w, "bundle")
  /\ worker[w].ok
  /\ worker' = [worker EXCEPT ![w].pc = "fail", ![w].ok = FALSE]
  /\ UNCHANGED <<projectVars, test, bundles, viewer, past, opponent>>

\* Mutant: the key is recorded although the upload failed.
StoresOrNot(w, stored) ==
  /\ At(w, "bundle")
  /\ bundles' = IF stored THEN bundles \union {worker[w].job} ELSE bundles
  /\ worker' = [worker EXCEPT ![w].pc = "finish", ![w].key = TRUE]
  /\ UNCHANGED <<projectVars, test, viewer, past, opponent>>

\* assemble_bundle and put, whose failure only costs the bundle.
Stores(w, stored) ==
  /\ At(w, "bundle")
  /\ bundles' = IF stored THEN bundles \union {worker[w].job} ELSE bundles
  /\ worker' = [worker EXCEPT ![w].pc = "finish", ![w].key = stored]
  /\ UNCHANGED <<projectVars, test, viewer, past, opponent>>

\* The final transaction: match row, job row, prune.
Finishes(w) ==
  /\ At(w, "finish")
  /\ ~project.leaving
  /\ LET rows == Succeeded(worker[w].job, worker[w].key)
     IN /\ test' = Pruned(rows)
        /\ worker' = [worker EXCEPT ![w].pc = "purge", ![w].key = FALSE,
                                    ![w].purge = {j \in Prunable(rows) : rows[j].key}]
  /\ UNCHANGED <<projectVars, bundles, viewer, past, opponent>>

\* Its foreign keys fail when the project is gone; or the connection does.
FinishBreaks(w) ==
  /\ At(w, "finish")
  /\ worker' = [worker EXCEPT ![w].pc = "fail", ![w].key = FALSE, ![w].ok = FALSE]
  /\ UNCHANGED <<projectVars, test, bundles, viewer, past, opponent>>

\* SetupError or any other exception: the job has failed.
RecordsFailure(w) ==
  /\ At(w, "fail")
  /\ ~project.leaving
  /\ LET rows == Failed(worker[w].job)
     IN /\ test' = Pruned(rows)
        /\ worker' = [worker EXCEPT ![w] = [WorkerRest("purge") EXCEPT !.job = worker[w].job,
                        !.purge = {j \in Prunable(rows) : rows[j].key}]]
  /\ UNCHANGED <<projectVars, bundles, viewer, past, opponent>>

\* _delete_pruned_bundles, best effort: what it fails to delete stays.
Purges(w, left) ==
  /\ At(w, "purge")
  /\ left \subseteq worker[w].purge
  /\ bundles' = bundles \ (worker[w].purge \ left)
  /\ worker' = [worker EXCEPT ![w].pc = "announce", ![w].purge = {}]
  /\ UNCHANGED <<projectVars, test, viewer, past, opponent>>

\* The terminal frame closes the viewer's stream; a publish that fails is
\* logged and forgotten.
Announces(w, heard) ==
  /\ At(w, "announce")
  /\ IF heard
     THEN Publish(worker[w].job, IF worker[w].ok THEN "success" ELSE "failure") /\ UNCHANGED past
     ELSE past' = [past EXCEPT !.silent = @ \union {worker[w].job}] /\ UNCHANGED viewer
  /\ worker' = [worker EXCEPT ![w] = WorkerRest("idle")]
  /\ UNCHANGED <<projectVars, test, bundles, opponent>>

\* The failure itself cannot be written: the frame goes out all the same, and
\* the process exits with the row still 'running'.
GivesUp(w) ==
  /\ At(w, "fail")
  /\ Publish(worker[w].job, "failure")
  /\ past' = [past EXCEPT !.lost = @ \union {worker[w].job}]
  /\ worker' = [worker EXCEPT ![w] = WorkerRest("down")]
  /\ UNCHANGED <<projectVars, test, bundles, opponent>>

WorkerDies(w) ==
  /\ Working(w)
  /\ past' = [past EXCEPT !.lost = @ \union {worker[w].job}]
  /\ worker' = [worker EXCEPT ![w] = WorkerRest("down")]
  /\ UNCHANGED <<projectVars, test, bundles, viewer, opponent>>

\* main: jobs that run for too long are failed first, a peer's included.
WorkerBoots(w, old) ==
  /\ At(w, "down")
  /\ old # {} => ~project.leaving
  /\ ResetStale(old)
  /\ past' = [past EXCEPT !.reset = @ \union old]
  /\ worker' = [worker EXCEPT ![w] = WorkerRest("idle")]
  /\ UNCHANGED <<projectVars, bundles, viewer, opponent>>

Iteration(w) ==
  \/ \E j \in TestIds \ past.overlooked : Claims(w, j)
  \/ ChecksBuild(w)
  \/ Build(w) /\ UNCHANGED opponent
  \/ Resolves(w)
  \/ \E reached, ok \in BOOLEAN : Plays(w, reached, ok, FALSE)
  \/ Judges(w)
  \/ Blames(w)
  \/ Stores(w, TRUE)
  \/ Finishes(w)
  \/ RecordsFailure(w)
  \/ Purges(w, {})
  \/ Announces(w, TRUE)

\* The opponent does not come up; or docker, storage, the file system, the
\* analyser, Redis or the database refuses once.
Hiccup(w) ==
  \/ \E j \in TestIds : Overlooks(w, j)
  \/ \E j \in past.overlooked : Claims(w, j)
  \/ Stumbles(w)
  \/ \E reached, ok \in BOOLEAN : Plays(w, reached, ok, TRUE)
  \/ BuildSkipsCollecting(w) /\ UNCHANGED opponent
  \/ PlayBreaks(w)
  \/ VerdictIsLost(w)
  \/ AnalysisBreaks(w)
  \/ Stores(w, FALSE)
  \/ FinishBreaks(w)
  \/ Purges(w, worker[w].purge)
  \/ Announces(w, FALSE)
=============================================================================
