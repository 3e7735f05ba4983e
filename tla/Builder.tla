------------------------------- MODULE Builder -------------------------------
(***************************************************************************)
(* build_project (builder/build.py), called by a test runner: the row is   *)
(* read once, the image is built outside any transaction, and the outcome  *)
(* is written, each write a transaction of its own.                        *)
(***************************************************************************)
EXTENDS DevProject, LiveStream

CONSTANT Workers  \* replicas of the test runner

VARIABLES
  worker,   \* worker[w]: program counter, the claimed job (0 = none) and the
            \* locals of run_one_iteration and build_project
  past      \* history, for the properties: overlap (two of the project's runner
            \* iterations and uploads went on at once), rolledBack (an upload
            \* was undone after it collected images), removed (jobs whose bundle
            \* a delete of the project took), overlooked (queued jobs that the
            \* runners were woken for and left), lost (jobs whose runner died or
            \* let go of them), silent (jobs whose terminal frame was lost), reset
            \* (jobs failed as stale), validated (images that reached a match start)

WorkerState ==
  [pc      : {"down", "idle", "check", "lookup", "start", "docker", "built", "unbuilt",
              "collect", "resolve", "match", "verdict", "blame", "bundle", "finish",
              "fail", "purge", "announce"},
   job     : TestIds \union {0},
   code    : Codes \union {NoCode},
   keep    : ImageIds \union {NoImage},
   raced   : BOOLEAN,
   image   : ImageIds \union {NoImage},
   reached : BOOLEAN,
   blamed  : BOOLEAN,
   ok      : BOOLEAN,
   key     : BOOLEAN,
   purge   : SUBSET TestIds]

WorkerRest(pc) ==
  [pc |-> pc, job |-> 0, code |-> NoCode, keep |-> NoImage, raced |-> FALSE,
   image |-> NoImage, reached |-> FALSE, blamed |-> FALSE, ok |-> FALSE, key |-> FALSE,
   purge |-> {}]

At(w, pc) == worker[w].pc = pc
Goes(w, pc) == worker' = [worker EXCEPT ![w].pc = pc]

\* get_project: the archive that will be built, and the submitted tag that
\* will be kept, are those of now.
BuildLooksUp(w) ==
  /\ At(w, "lookup")
  /\ IF project.exists
     THEN worker' = [worker EXCEPT ![w].pc = "start", ![w].code = project.code,
                       ![w].keep = project.subImage, ![w].raced = saving.what # "none"]
     ELSE Goes(w, "fail")
  /\ UNCHANGED <<projectVars, test, bundles, viewer, past>>

\* record_dev_build_start; an external project leaves right after it.
BuildStarts(w) ==
  /\ At(w, "start")
  /\ Update([project EXCEPT !.status = "building"])
  /\ Goes(w, IF project.source = "external_image" THEN "fail" ELSE "docker")
  /\ UNCHANGED <<made, images, saving, uploading, test, bundles, viewer, past>>

\* _run_build: docker builds the archive into an image with a new tag ...
BuildCompiles(w) ==
  /\ At(w, "docker")
  /\ NewImage(worker[w].code, worker[w].raced)
  /\ images' = images \union {Len(made')}
  /\ worker' = [worker EXCEPT ![w].pc = "built", ![w].image = Len(made'), ![w].code = NoCode]
  /\ UNCHANGED <<project, saving, uploading, test, bundles, viewer, past>>

\* ... or does not: compile error, timeout, docker unavailable.
BuildBreaks(w) ==
  /\ At(w, "docker")
  /\ Goes(w, "unbuilt")
  /\ UNCHANGED <<projectVars, test, bundles, viewer, past>>

\* A save that begins or is open while the image is built has raced it; the
\* image knows once the outcome is written.
BuildSucceeds(w) ==
  /\ At(w, "built")
  /\ Update(Built(worker[w].image))
  /\ Overtake
  /\ made' = [made EXCEPT ![worker[w].image].raced = worker[w].raced]
  /\ Goes(w, "collect")
  /\ UNCHANGED <<images, uploading, test, bundles, viewer, past>>

BuildFails(w) ==
  /\ At(w, "unbuilt")
  /\ Update([project EXCEPT !.status = "failed"])
  /\ Goes(w, "fail")
  /\ UNCHANGED <<made, images, saving, uploading, test, bundles, viewer, past>>

BuildCollects(w) ==
  /\ At(w, "collect")
  /\ CollectImages(worker[w].image, worker[w].keep)
  /\ worker' = [worker EXCEPT ![w].pc = "resolve", ![w].keep = NoImage,
                              ![w].image = NoImage, ![w].raced = FALSE]
  /\ UNCHANGED <<project, made, saving, uploading, test, bundles, viewer, past>>

\* _gc_project_images without docker.
BuildSkipsCollecting(w) ==
  /\ At(w, "collect")
  /\ worker' = [worker EXCEPT ![w].pc = "resolve", ![w].keep = NoImage,
                              ![w].image = NoImage, ![w].raced = FALSE]
  /\ UNCHANGED <<projectVars, test, bundles, viewer, past>>

Building(w) == worker[w].pc \in {"start", "docker", "built"}

Build(w) ==
  \/ BuildLooksUp(w)
  \/ BuildStarts(w)
  \/ BuildCompiles(w)
  \/ BuildBreaks(w)
  \/ BuildSucceeds(w)
  \/ BuildFails(w)
  \/ BuildCollects(w)
=============================================================================
