------------------------------ MODULE DevProject -----------------------------
(***************************************************************************)
(* One row of projects, the docker images tagged for it, and the SQL       *)
(* statements of sa_common/db/projects.py as operators on the row.  Save   *)
(* and submit come from the API, the build statuses from the test runners; *)
(* no statement but the promotion looks at what it overwrites.             *)
(***************************************************************************)
EXTENDS Naturals, Sequences, FiniteSets

CONSTANTS
  Codes,       \* the archives a user saves
  MaxImages,   \* bound: images built or uploaded
  MaxVersion   \* bound: submissions

ASSUME DevAssumption ==
  /\ Codes \subseteq Nat \ {0}
  /\ MaxImages \in Nat
  /\ MaxVersion \in Nat

NoCode == 0      \* an external_image project has no archive
NoImage == 0

VARIABLES
  project,   \* the row; stale is dev_built_at < updated_at or dev_built_at NULL;
             \* leaving tells that a delete has locked it, with the rows of its
             \* jobs, and has not committed
  made,      \* made[i]: the code in image i, and whether a save overlapped its build
  images,    \* the images docker has for the project
  saving,    \* the save or restore under way, as its transaction sees it:
             \* overtaken tells that a build was stamped after it began
  uploading  \* the image of the upload under way

projectVars == <<project, made, images, saving, uploading>>

ImageIds == 1 .. MaxImages

Row ==
  [exists   : BOOLEAN,
   leaving  : BOOLEAN,
   source   : {"browser", "external_image"},
   code     : Codes \union {NoCode},
   status   : {"null", "saved", "building", "failed", "built", "crashed", "ready"},
   image    : ImageIds \union {NoImage},
   stale    : BOOLEAN,
   subCode  : Codes \union {NoCode},
   subImage : ImageIds \union {NoImage},
   version  : 0 .. MaxVersion]

NoSave == [what |-> "none", overtaken |-> FALSE]

\* create_project: a browser project has its template, an external one nothing.
Created(source, code) ==
  [exists |-> TRUE, leaving |-> FALSE, source |-> source, code |-> code, status |-> "null",
   image |-> NoImage, stale |-> TRUE, subCode |-> NoCode, subImage |-> NoImage,
   version |-> 0]

ProjectInit ==
  /\ project \in {Created("browser", c) : c \in Codes}
                   \union {Created("external_image", NoCode)}
  /\ made = <<>>
  /\ images = {}
  /\ saving = NoSave
  /\ uploading = NoImage

\* UPDATE ... WHERE id = ...: nothing happens to a row that is gone; for one
\* that a delete has locked, the write waits.
Update(new) ==
  /\ ~project.leaving
  /\ project' = IF project.exists THEN new ELSE project

\* save_dev_code and restore_dev_from_submitted stamp updated_at with the time
\* their transaction began, not the time they write.
Saved(code) ==
  [project EXCEPT !.code = code, !.status = "saved", !.stale = ~saving.overtaken]

\* Mutant: a compiled build counts as a validated one.
BuiltAndReady(image) ==
  [project EXCEPT !.image = image, !.status = "ready", !.stale = FALSE]

\* record_dev_build_success
Built(image) ==
  [project EXCEPT !.image = image, !.status = "built", !.stale = FALSE]

\* A build is stamped now: after any transaction that has begun.
Overtake == saving' = IF saving.what = "none" THEN saving ELSE [saving EXCEPT !.overtaken = TRUE]

\* Mutant: the two timestamps are not compared.
ReadyAtAll == project.exists /\ project.status = "ready"

\* The WHERE clause of promote_to_submitted.
Submittable == project.exists /\ project.status = "ready" /\ ~project.stale

\* promote_to_submitted; the flag submitted_crashed it clears is the ranked
\* side's (RankedPipeline, Submit).
Promoted ==
  [project EXCEPT !.subCode = project.code, !.subImage = project.image,
                  !.version = project.version + 1]

\* A new image under a tag of its own, never used before.
NewImage(code, raced) ==
  /\ Len(made) < MaxImages
  /\ made' = Append(made, [code |-> code, raced |-> raced])

\* Mutant: the collector does not know of the submitted image.
KeepNewOnly(new, submitted) == images' = {i \in images : i = new}

\* _gc_project_images: of the project's images, keep the new one and the one
\* that was submitted when the caller read the row.
CollectImages(new, submitted) == images' = {i \in images : i = new \/ i = submitted}
=============================================================================
