------------------------------- MODULE ApiServer ------------------------------
(***************************************************************************)
(* The API process: requests, each with its transaction and row locks, one *)
(* event loop, and the tasks that run in it.  `def` handlers and           *)
(* dependencies run in threads, `async def` ones and background tasks in   *)
(* the loop, where a database call that waits for a lock stops every       *)
(* other request: the loop is what starts and commits them all.            *)
(***************************************************************************)
EXTENDS Accounts

CONSTANTS
  Requests,  \* bound: requests at once
  Scenarios  \* what is asked and what happens: one set of these for a behaviour

UserOps == {"create", "save", "delete", "enqueue", "submit", "claim"}
GuestOps == {"create", "save", "delete", "enqueue", "refresh"}

ASSUME ScenariosAssumption ==
  Scenarios \subseteq SUBSET
    (UserOps \union GuestOps \union {"erase", "cleanup", "litter", "redis", "hours"})

ASSUME LocksAssumption == "matches" \notin Projects \union Principals

VARIABLES
  scenario,
  req,       \* the requests under way
  litter,    \* there are obsolete matches that a prune would delete
  cleaning   \* _guest_cleanup_task; revived is history: collected images whose
             \* session was refreshed or claimed before it could be deleted

vars == <<rows, used, scenario, req, litter, cleaning>>

\* locks are the rows its transaction holds; moved what a claim has updated.
Request ==
  [op    : UserOps \union GuestOps \union {"erase"},
   by    : Principals \union {Nobody},
   guest : Guests \union {Nobody},
   p     : Projects \union {Nobody},
   stage : {"none", "auth", "admitted", "writes", "drops", "promotes", "hour", "day",
            "prunes", "erases", "handled", "aborted", "leaving"},
   ok    : BOOLEAN,
   locks : SUBSET (Principals \union Projects \union {"matches"}),
   moved : SUBSET Projects]

NoRequest ==
  [op |-> "create", by |-> Nobody, guest |-> Nobody, p |-> Nobody, stage |-> "none",
   ok |-> TRUE, locks |-> {}, moved |-> {}]

At(r, stage) == req[r].stage = stage

Goes(r, stage) == req' = [req EXCEPT ![r].stage = stage]

\* The handler raises an HTTPException: get_db will roll back.
Refuses(r) == req' = [req EXCEPT ![r].stage = "handled", ![r].ok = FALSE]

Ends(r) == req' = [req EXCEPT ![r] = NoRequest]

\* No other transaction has a lock on these rows.
Free(things, r) == \A s \in Requests \ {r} : req[s].locks \intersect things = {}

\* Requests whose coroutine is in the middle of a database call.
InLoop(r) ==
  \/ req[r].stage \in {"promotes", "erases"}
  \/ req[r].stage = "prunes" /\ req[r].op = "submit"

LoopIsFree == cleaning.stage = "idle" /\ \A r \in Requests : ~InLoop(r)

Init ==
  /\ scenario \in Scenarios
  /\ account = Users
  /\ session = [g \in Guests |-> [exists |-> TRUE, old |-> FALSE, tests |-> 0]]
  /\ owner \in {o \in [Projects -> Principals \union {Nobody}] :
                  \A a \in Principals : Cardinality({p \in Projects : o[p] = a}) <= Limit(a)}
  /\ active = [p \in Projects |-> 0]
  /\ images = {p \in Projects : owner[p] # Nobody}
  /\ used = [u \in Users |-> NothingUsed]
  /\ req = [r \in Requests |-> NoRequest]
  /\ litter = FALSE
  /\ cleaning = [stage |-> "idle", tags |-> {}, revived |-> {}]

------------------------------------------------------------------------------
(* A request from its arrival to its handler.                              *)

\* Clients ask about projects that they have seen to be theirs.
Arrives(r, op, by, g, p) ==
  /\ At(r, "none")
  /\ op \in scenario
  /\ op \in (IF by \in Users THEN UserOps \union {"erase"} ELSE GuestOps)
  /\ g # Nobody <=> op = "claim"
  /\ p # Nobody <=> op \in {"save", "delete", "enqueue", "submit"}
  /\ p # Nobody => owner[p] = by
  /\ LoopIsFree
  /\ req' = [req EXCEPT ![r].op = op, ![r].by = by, ![r].guest = g, ![r].p = p,
                        ![r].stage = IF op = "erase" THEN "admitted" ELSE "auth"]
  /\ UNCHANGED <<rows, used, scenario, litter, cleaning>>

\* Mutant: the principal is looked up and not upserted.
LooksUp(r) ==
  /\ At(r, "auth")
  /\ Goes(r, "admitted")
  /\ UNCHANGED <<rows, used, scenario, litter, cleaning>>

\* get_current_user, get_principal: the upsert locks the principal's row for
\* the rest of the transaction, and waits for the one that has it.
Authenticates(r) ==
  /\ At(r, "auth")
  /\ Free({req[r].by}, r)
  /\ req' = [req EXCEPT ![r].stage = "admitted", ![r].locks = {req[r].by}]
  /\ UNCHANGED <<rows, used, scenario, litter, cleaning>>

------------------------------------------------------------------------------
(* Handlers that run in a thread, which the loop has to start.             *)

\* create: below the limit the row is inserted, unless its name is taken
\* (here: no project of the bound is left).
Creates(r) ==
  /\ At(r, "admitted") /\ req[r].op = "create" /\ LoopIsFree
  /\ LET unused == {p \in Owned(Nobody) : Free({p}, r)}
     IN IF Cardinality(Owned(req[r].by)) < Limit(req[r].by) /\ unused # {}
        THEN \E p \in unused :
               req' = [req EXCEPT ![r].stage = "handled", ![r].p = p, ![r].locks = @ \union {p}]
        ELSE Refuses(r)
  /\ UNCHANGED <<rows, used, scenario, litter, cleaning>>

\* enqueue: the guest's tests first, then the project and its active tests.
Enqueues(r) ==
  /\ At(r, "admitted") /\ req[r].op = "enqueue" /\ LoopIsFree
  /\ IF /\ req[r].by \in Guests => session[req[r].by].tests < GuestTestLimit
        /\ owner[req[r].p] = req[r].by
        /\ active[req[r].p] = 0
     THEN Goes(r, "handled")
     ELSE Refuses(r)
  /\ UNCHANGED <<rows, used, scenario, litter, cleaning>>

\* create_or_refresh_session is its authentication and nothing else.
Refreshes(r) ==
  /\ At(r, "admitted") /\ req[r].op = "refresh" /\ LoopIsFree
  /\ Goes(r, "handled")
  /\ UNCHANGED <<rows, used, scenario, litter, cleaning>>

\* save_files, delete and claim_session have rows to wait for.
Starts(r) ==
  /\ At(r, "admitted") /\ req[r].op \in {"save", "delete", "claim"} /\ LoopIsFree
  /\ IF req[r].op = "claim" \/ owner[req[r].p] = req[r].by
     THEN Goes(r, "writes")
     ELSE Refuses(r)
  /\ UNCHANGED <<rows, used, scenario, litter, cleaning>>

\* The UPDATE or DELETE of a project by its id.
Writes(r) ==
  /\ At(r, "writes") /\ req[r].op # "claim"
  /\ Free({req[r].p}, r)
  /\ req' = [req EXCEPT ![r].stage = IF req[r].op = "delete" THEN "prunes" ELSE "handled",
                        ![r].locks = @ \union {req[r].p}]
  /\ UNCHANGED <<rows, used, scenario, litter, cleaning>>

\* Mutant: the session is left for the cleanup to find.
ClaimsOnly(r) ==
  /\ At(r, "writes") /\ req[r].op = "claim"
  /\ LET moved == Owned(req[r].guest)
     IN /\ Free(moved, r)
        /\ req' = [req EXCEPT ![r].stage = "handled", ![r].moved = moved,
                              ![r].locks = @ \union moved]
  /\ UNCHANGED <<rows, used, scenario, litter, cleaning>>

\* claim_guest_session: UPDATE projects, as many as there are now ...
Claims(r) ==
  /\ At(r, "writes") /\ req[r].op = "claim"
  /\ LET moved == Owned(req[r].guest)
     IN /\ Free(moved, r)
        /\ req' = [req EXCEPT ![r].stage = "drops", ![r].moved = moved,
                              ![r].locks = @ \union moved]
  /\ UNCHANGED <<rows, used, scenario, litter, cleaning>>

\* ... and DELETE the session, when no request of the guest has its row; what
\* has become the guest's since the UPDATE goes with it.
Drops(r) ==
  /\ At(r, "drops")
  /\ LET gone == {req[r].guest} \union Owned(req[r].guest)
     IN /\ Free(gone, r)
        /\ req' = [req EXCEPT ![r].stage = "handled", ![r].locks = @ \union gone]
  /\ UNCHANGED <<rows, used, scenario, litter, cleaning>>

\* A guest's request holds the session and wants the project, a claim holds
\* the project and wants the session: the database aborts one of them.
DatabaseAborts(r) ==
  /\ \E c, w \in Requests :
       /\ r \in {c, w}
       /\ At(c, "drops") /\ At(w, "writes")
       /\ req[c].guest = req[w].by /\ req[w].p \in req[c].moved
       /\ req[w].op # "claim"
  /\ req' = [req EXCEPT ![r].stage = "aborted", ![r].ok = FALSE,
                        ![r].locks = {}, ![r].moved = {}]
  /\ UNCHANGED <<rows, used, scenario, litter, cleaning>>

------------------------------------------------------------------------------
(* submit, a coroutine.                                                    *)

\* Both windows are peeked at and the row is read ...
SubmitChecks(r) ==
  /\ At(r, "admitted") /\ req[r].op = "submit" /\ LoopIsFree
  /\ IF SlotsLeft(req[r].by) /\ owner[req[r].p] = req[r].by
     THEN Goes(r, "promotes")
     ELSE Refuses(r)
  /\ UNCHANGED <<rows, used, scenario, litter, cleaning>>

\* ... promote_to_submitted, in the loop: it is ready, or 409 ...
Promotes(r, ready) ==
  /\ At(r, "promotes")
  /\ Free({req[r].p}, r)
  /\ IF ready THEN req' = [req EXCEPT ![r].stage = "hour", ![r].locks = @ \union {req[r].p}]
     ELSE Refuses(r)
  /\ UNCHANGED <<rows, used, scenario, litter, cleaning>>

\* ... consume_submit_quotas, where the hour is counted before the day.
ChargesHour(r) ==
  /\ At(r, "hour") /\ LoopIsFree
  /\ ConsumeHour(req[r].by)
  /\ IF OverHour(req[r].by) THEN Refuses(r) ELSE Goes(r, "day")
  /\ UNCHANGED <<rows, scenario, litter, cleaning>>

ChargesDay(r) ==
  /\ At(r, "day") /\ LoopIsFree
  /\ ConsumeDay(req[r].by)
  /\ IF OverDay(req[r].by) THEN Refuses(r) ELSE Goes(r, "prunes")
  /\ UNCHANGED <<rows, scenario, litter, cleaning>>

\* Redis does not answer: what was counted stays counted.
ChargeFails(r) ==
  /\ "redis" \in scenario
  /\ At(r, "hour") \/ At(r, "day")
  /\ LoopIsFree
  /\ Refuses(r)
  /\ UNCHANGED <<rows, used, scenario, litter, cleaning>>

\* prune_obsolete_ranked_matches, of submit in the loop, of delete in a thread.
Prunes(r) ==
  /\ At(r, "prunes")
  /\ litter => Free({"matches"}, r)
  /\ req' = [req EXCEPT ![r].stage = "handled",
                        ![r].locks = IF litter THEN @ \union {"matches"} ELSE @]
  /\ UNCHANGED <<rows, used, scenario, litter, cleaning>>

------------------------------------------------------------------------------
(* The end of a request: get_db's commit or rollback, in a thread that the *)
(* loop has to start.                                                      *)

\* Mutant: a handler that raised never gives its connection back.
LeavesIfFine(r) ==
  /\ At(r, "handled") /\ req[r].ok
  /\ LoopIsFree
  /\ Goes(r, "leaving")
  /\ UNCHANGED <<rows, used, scenario, litter, cleaning>>

Leaves(r) ==
  /\ At(r, "handled") \/ At(r, "aborted")
  /\ LoopIsFree
  /\ Goes(r, "leaving")
  /\ UNCHANGED <<rows, used, scenario, litter, cleaning>>

RollsBack(r) ==
  /\ At(r, "leaving") /\ ~req[r].ok
  /\ Ends(r)
  /\ UNCHANGED <<rows, used, scenario, litter, cleaning>>

\* Rows of the principal as its upsert left them, tests counted.
Counted(r) ==
  IF req[r].op = "enqueue" /\ req[r].by \in Guests
  THEN [Refreshed(req[r].by) EXCEPT ![req[r].by].tests = @ + 1]
  ELSE Refreshed(req[r].by)

\* The images the cleanup has collected, though their session lives on.
Revives(r) ==
  cleaning' = [cleaning EXCEPT !.revived =
                 @ \union (cleaning.tags \intersect (req[r].moved \union Owned(req[r].by)))]

Commits(r) ==
  /\ At(r, "leaving") /\ req[r].ok
  /\ Ends(r)
  /\ account' = WithAccount(req[r].by)
  /\ \/ /\ req[r].op = "create"
        /\ owner' = [owner EXCEPT ![req[r].p] = req[r].by]
        /\ session' = Counted(r)
        /\ UNCHANGED <<active, images>>
     \/ /\ req[r].op = "enqueue"
        /\ active' = [active EXCEPT ![req[r].p] = @ + 1]
        /\ session' = Counted(r)
        /\ UNCHANGED <<owner, images>>
     \/ /\ req[r].op = "delete"
        /\ Only(Projects \ {req[r].p})
        /\ session' = Counted(r)
     \/ /\ req[r].op = "claim"
        /\ Claimed(req[r].guest, req[r].by, req[r].moved)
     \/ /\ req[r].op \in {"save", "refresh", "submit"}
        /\ session' = Counted(r)
        /\ UNCHANGED <<owner, active, images>>
  /\ litter' = (litter /\ "matches" \notin req[r].locks)
  /\ Revives(r)
  /\ UNCHANGED <<used, scenario>>

------------------------------------------------------------------------------
(* What else runs in the loop.                                             *)

\* clerk_webhook: the deletion commits by itself, after every lock is free.
EraseStarts(r) ==
  /\ At(r, "admitted") /\ req[r].op = "erase" /\ LoopIsFree
  /\ Goes(r, "erases")
  /\ UNCHANGED <<rows, used, scenario, litter, cleaning>>

Erases(r) ==
  /\ At(r, "erases")
  /\ Free({req[r].by} \union Owned(req[r].by), r)
  /\ Erased(req[r].by)
  /\ Ends(r)
  /\ UNCHANGED <<used, scenario, litter, cleaning>>

\* _guest_cleanup_task, in autocommit: images are collected, then the
\* sessions deleted, then the images removed.
CleanupCollects ==
  /\ "cleanup" \in scenario
  /\ LoopIsFree
  /\ cleaning' = [stage |-> "deletes", tags |-> ExpiredImages, revived |-> {}]
  /\ UNCHANGED <<rows, used, scenario, req, litter>>

ExpiredRows == Expired \union {p \in Projects : owner[p] \in Expired}

CleanupDeletes ==
  /\ cleaning.stage = "deletes"
  /\ \A s \in Requests : req[s].locks \intersect ExpiredRows = {}
  /\ ExpiredDeleted
  /\ cleaning' = [cleaning EXCEPT !.stage = "removes"]
  /\ UNCHANGED <<account, used, scenario, req, litter>>

CleanupRemoves ==
  /\ cleaning.stage = "removes"
  /\ images' = images \ cleaning.tags
  /\ cleaning' = [stage |-> "idle", tags |-> {}, revived |-> {}]
  /\ UNCHANGED <<account, session, owner, active, used, scenario, req, litter>>

------------------------------------------------------------------------------
(* Time, and the other processes.                                          *)

SessionAges(g) ==
  /\ "cleanup" \in scenario
  /\ session[g].exists /\ ~session[g].old
  /\ session' = [session EXCEPT ![g].old = TRUE]
  /\ UNCHANGED <<account, owner, active, images, used, scenario, req, litter, cleaning>>

TimePasses ==
  /\ "hours" \in scenario
  /\ NextHour \/ NextDay
  /\ UNCHANGED <<rows, scenario, req, litter, cleaning>>

TestEnds(p) ==
  /\ active[p] > 0
  /\ active' = [active EXCEPT ![p] = @ - 1]
  /\ UNCHANGED <<account, session, owner, images, used, scenario, req, litter, cleaning>>

\* A match is recorded for versions that are no longer submitted.
LateResult ==
  /\ "litter" \in scenario
  /\ ~litter
  /\ litter' = TRUE
  /\ UNCHANGED <<rows, used, scenario, req, cleaning>>

Handles(r) ==
  \/ Creates(r) \/ Enqueues(r) \/ Refreshes(r)
  \/ Starts(r) \/ Writes(r) \/ Claims(r) \/ Drops(r)
  \/ SubmitChecks(r) \/ Promotes(r, TRUE) \/ ChargesHour(r) \/ ChargesDay(r)
  \/ Prunes(r)
  \/ EraseStarts(r) \/ Erases(r)

Proceeds(r) ==
  \/ Authenticates(r)
  \/ Handles(r)
  \/ DatabaseAborts(r) \/ Leaves(r) \/ Commits(r) \/ RollsBack(r)

Cleanup == CleanupDeletes \/ CleanupRemoves

Next ==
  \/ \E r \in Requests :
       \/ \E op \in UserOps \union GuestOps \union {"erase"}, by \in Principals,
             g \in Guests \union {Nobody}, p \in Projects \union {Nobody} :
            Arrives(r, op, by, g, p)
       \/ Proceeds(r)
       \/ Promotes(r, FALSE) \/ ChargeFails(r)
  \/ CleanupCollects \/ Cleanup
  \/ \E g \in Guests : SessionAges(g)
  \/ TimePasses
  \/ \E p \in Projects : TestEnds(p)
  \/ LateResult

Spec == Init /\ [][Next]_vars

\* Threads and the loop run what can run; who waits for a lock or for the loop
\* gets it in turn, however often others have it before.
FairSpec == Spec /\ (\A r \in Requests : SF_vars(Proceeds(r))) /\ WF_vars(Cleanup)

------------------------------------------------------------------------------
(* What must hold.                                                         *)

\* The rows that the call now running in the loop has to wait for.
Wants(r) ==
  IF At(r, "promotes") THEN {req[r].p}
  ELSE IF At(r, "erases") THEN {req[r].by} \union Owned(req[r].by)
  ELSE IF litter THEN {"matches"} ELSE {}

LoopWants ==
  UNION {Wants(r) : r \in {s \in Requests : InLoop(s)}}
    \union (IF cleaning.stage = "deletes" THEN ExpiredRows ELSE {})

\* The loop waits for a transaction that waits for the loop.
Stalled ==
  \E s \in Requests :
    ~InLoop(s) /\ ~At(s, "leaving") /\ req[s].locks \intersect LoopWants # {}

\* Every variable stays in its type.
TypeOK ==
  /\ account \subseteq Users
  /\ session \in [Guests -> Session]
  /\ owner \in [Projects -> Principals \union {Nobody}]
  /\ active \in [Projects -> Nat]
  /\ images \subseteq Projects
  /\ used \in [Users -> Buckets]
  /\ scenario \in Scenarios
  /\ req \in [Requests -> Request]
  /\ litter \in BOOLEAN
  /\ cleaning \in [stage : {"idle", "deletes", "removes"}, tags : SUBSET Projects,
                   revived : SUBSET Projects]

\* A project has one test at a time, whether its owner asks twice at once or
\* a claim changes the owner in between.
OneActiveTest == \A p \in Projects : active[p] <= 1

\* The limits are counted before the insert, and hold after it.
CreationsKeepTheLimit ==
  [][\A p \in Projects :
       owner[p] = Nobody /\ owner'[p] # Nobody =>
         Cardinality({q \in Projects : owner'[q] = owner'[p]}) <= Limit(owner'[p])]_vars

\* A submission that was let in by the check is not refused by the charge
\* after its promotion: a slot seen free is still free.
NoSubmitIsOvercharged ==
  \A u \in Users : used[u].hour <= HourlyLimit /\ used[u].day <= DailyLimit

\* A project goes because its owner deleted it, was erased or expired, or
\* because it was created while a claim was looking.
ProjectsAreLostForCause ==
  [][\A p \in Projects :
       owner[p] # Nobody /\ owner'[p] = Nobody =>
         \/ owner[p] \in Expired
         \/ \E r \in Requests :
              \/ At(r, "erases") /\ owner[p] = req[r].by
              \/ /\ At(r, "leaving")
                 /\ \/ req[r].op = "delete" /\ req[r].p = p /\ req[r].by = owner[p]
                    \/ req[r].op = "claim" /\ p \notin req[r].moved]_vars

\* No image is removed while its project lives, unless its session came back
\* to life between the cleanup's first statement and its last.
CleanupSparesTheLiving ==
  [][\A p \in images \ images' : owner'[p] = Nobody \/ p \in cleaning.revived]_vars

\* A user's own requests never stop the loop: only an erasure, a cleanup or a
\* prune can meet a lock that a request holds.
SubmitNeverStalls == Stalled => \A r \in Requests : ~At(r, "promotes")

\* Every request is answered, or the API has stalled.
EveryRequestEnds ==
  \A r \in Requests : ~At(r, "none") ~> (At(r, "none") \/ Stalled)
=============================================================================
