------------------------------ MODULE ApiProofs ------------------------------
(***************************************************************************)
(* What the row locks of the API's transactions guarantee, for every       *)
(* number of users, guests, projects and requests at once: variables keep  *)
(* their types, a row has one holder, and no submission is overcharged.    *)
(***************************************************************************)
EXTENDS ApiServer, TLAPS

\* A row has one holder.
Exclusive ==
  \A r, s \in Requests : r # s => req[r].locks \intersect req[s].locks = {}

\* What goes with the stage that request q is in: who asks about what, and
\* the principal's lock of a submission from its admission to its charge.
Formed(q) ==
  /\ q.stage # "none" => q.by \in Principals
  /\ q.stage # "none" /\ q.op = "claim" => q.guest \in Guests
  /\ q.stage # "none" /\ q.op = "submit" => q.by \in Users
  /\ q.stage # "none" /\ q.op \in {"save", "delete", "enqueue", "submit"} => q.p \in Projects
  /\ q.stage = "writes" => q.op \in {"save", "delete", "claim"}
  /\ q.stage = "drops" => q.op = "claim"
  /\ q.stage = "admitted" /\ q.op # "erase" => q.by \in q.locks
  /\ q.stage \in {"promotes", "hour", "day"} => q.op = "submit" /\ q.by \in q.locks

\* What the check of a submission has seen, and the charge relies on.
Affords(q) ==
  /\ q.stage \in {"promotes", "hour"} => SlotsLeft(q.by)
  /\ q.stage = "day" => used[q.by].day < DailyLimit

IInv ==
  /\ TypeOK
  /\ Exclusive
  /\ \A r \in Requests : Formed(req[r]) /\ Affords(req[r])
  /\ NoSubmitIsOvercharged

------------------------------------------------------------------------------
(* Steps of one request.                                                   *)

\* A step that changes one request and no table keeps the invariant if the
\* request is well formed afterwards, can afford what it is up to, and has
\* taken no lock of another's.
LEMMA RequestMoves ==
  ASSUME IInv, NEW r \in Requests, NEW q \in Request,
         UNCHANGED <<rows, used, scenario, litter, cleaning>>,
         req' = [req EXCEPT ![r] = q],
         \A s \in Requests \ {r} : q.locks \intersect req[s].locks = {},
         Formed(q), Affords(q)
  PROVE  IInv'
<1>1. /\ req'[r] = q
      /\ \A s \in Requests \ {r} : req'[s] = req[s]
      /\ req' \in [Requests -> Request]
  BY DEF IInv, TypeOK
<1>2. TypeOK'
  BY <1>1 DEF IInv, TypeOK, rows
<1>3. Exclusive'
  BY <1>1 DEF IInv, Exclusive
<1>4. \A s \in Requests : (Formed(req[s]) /\ Affords(req[s]))'
  BY <1>1 DEF IInv, Formed, Affords, SlotsLeft
<1>5. NoSubmitIsOvercharged'
  BY DEF IInv, NoSubmitIsOvercharged
<1>6. QED
  BY <1>2, <1>3, <1>4, <1>5 DEF IInv

\* The same for a step that takes no lock at all.
LEMMA RequestMovesOn ==
  ASSUME IInv, NEW r \in Requests, NEW q \in Request,
         UNCHANGED <<rows, used, scenario, litter, cleaning>>,
         req' = [req EXCEPT ![r] = q],
         q.locks \subseteq req[r].locks,
         Formed(q), Affords(q)
  PROVE  IInv'
<1>1. \A s \in Requests \ {r} : q.locks \intersect req[s].locks = {}
  BY DEF IInv, Exclusive
<1>2. QED
  BY <1>1, RequestMoves

\* A step to another stage, of which only two ask for something.
LEMMA StageMoves ==
  ASSUME IInv, NEW r \in Requests,
         NEW stage \in {"handled", "leaving", "prunes", "erases", "writes", "promotes"},
         NEW ok \in BOOLEAN,
         req[r].stage # "none",
         stage = "writes" => req[r].op \in {"save", "delete", "claim"},
         stage = "promotes" =>
           req[r].op = "submit" /\ req[r].by \in req[r].locks /\ SlotsLeft(req[r].by),
         UNCHANGED <<rows, used, scenario, litter, cleaning>>,
         req' = [req EXCEPT ![r].stage = stage, ![r].ok = ok]
  PROVE  IInv'
<1> DEFINE q == [req[r] EXCEPT !.stage = stage, !.ok = ok]
<1>1. req[r] \in Request
  BY DEF IInv, TypeOK
<1>2. q \in Request
  BY <1>1 DEF Request
<1>3. req' = [req EXCEPT ![r] = q]
  BY DEF IInv, TypeOK
<1>4. /\ q.stage = stage /\ q.locks = req[r].locks /\ q.op = req[r].op /\ q.by = req[r].by
      /\ q.guest = req[r].guest /\ q.p = req[r].p
  BY <1>1 DEF Request
<1>5. Formed(q) /\ Affords(q)
  BY <1>4 DEF IInv, Formed, Affords
<1>6. QED
  BY <1>2, <1>3, <1>4, <1>5, RequestMovesOn

LEMMA ArrivesKeeps ==
  ASSUME IInv, NEW r \in Requests, NEW op, NEW by \in Principals,
         NEW g \in Guests \union {Nobody}, NEW p \in Projects \union {Nobody},
         Arrives(r, op, by, g, p)
  PROVE  IInv'
<1> DEFINE stage == IF op = "erase" THEN "admitted" ELSE "auth"
           q == [req[r] EXCEPT !.op = op, !.by = by, !.guest = g, !.p = p, !.stage = stage]
<1>1. req[r] \in Request
  BY DEF IInv, TypeOK
<1>2. op \in UserOps \union GuestOps \union {"erase"}
  BY DEF Arrives
<1>3. q \in Request
  BY <1>1, <1>2 DEF Request
<1>4. req' = [req EXCEPT ![r] = q]
  BY DEF Arrives, IInv, TypeOK
<1>5. /\ q.stage = stage /\ q.locks = req[r].locks /\ q.op = op /\ q.by = by
      /\ q.guest = g /\ q.p = p
  BY <1>1 DEF Request
<1>6. /\ op = "claim" => g \in Guests
      /\ op = "submit" => by \in Users
      /\ op \in {"save", "delete", "enqueue", "submit"} => p \in Projects
  BY DEF Arrives, UserOps, GuestOps
<1>7. Formed(q) /\ Affords(q)
  BY <1>5, <1>6 DEF Formed, Affords
<1>8. QED
  BY <1>3, <1>4, <1>5, <1>7, RequestMovesOn DEF Arrives

LEMMA StageGoes ==
  ASSUME IInv, NEW r \in Requests,
         NEW stage \in {"handled", "leaving", "prunes", "erases", "writes", "promotes"},
         req[r].stage # "none",
         stage = "writes" => req[r].op \in {"save", "delete", "claim"},
         stage = "promotes" =>
           req[r].op = "submit" /\ req[r].by \in req[r].locks /\ SlotsLeft(req[r].by),
         UNCHANGED <<rows, used, scenario, litter, cleaning>>,
         Goes(r, stage)
  PROVE  IInv'
<1>1. req[r] \in Request /\ req[r].ok \in BOOLEAN
  BY DEF IInv, TypeOK, Request
<1>2. req' = [req EXCEPT ![r].stage = stage, ![r].ok = req[r].ok]
  BY <1>1 DEF IInv, TypeOK, Goes, Request
<1>3. QED
  BY <1>1, <1>2, StageMoves

LEMMA RefusesKeeps ==
  ASSUME IInv, NEW r \in Requests, req[r].stage # "none",
         UNCHANGED <<rows, used, scenario, litter, cleaning>>,
         Refuses(r)
  PROVE  IInv'
BY StageMoves DEF Refuses

\* A finished request, committed or not, is forgotten.
LEMMA EndsKeeps ==
  ASSUME IInv, NEW r \in Requests, Ends(r), UNCHANGED used, TypeOK'
  PROVE  IInv'
<1>1. /\ req'[r] = NoRequest
      /\ \A s \in Requests \ {r} : req'[s] = req[s]
  BY DEF IInv, TypeOK, Ends
<1>2. Exclusive'
  BY <1>1 DEF IInv, Exclusive, NoRequest
<1>3. \A s \in Requests : (Formed(req[s]) /\ Affords(req[s]))'
  BY <1>1 DEF IInv, Formed, Affords, SlotsLeft, NoRequest
<1>4. NoSubmitIsOvercharged'
  BY DEF IInv, NoSubmitIsOvercharged
<1>5. QED
  BY <1>2, <1>3, <1>4 DEF IInv

------------------------------------------------------------------------------
(* Requests that take locks.                                               *)

\* The record q is what the step makes of the request; locks are the ones it
\* adds to those it had.
LEMMA RequestLocks ==
  ASSUME IInv, NEW r \in Requests,
         NEW stage \in {"admitted", "handled", "prunes", "drops", "hour"},
         NEW p \in Projects \union {Nobody},
         NEW locks \in SUBSET (Principals \union Projects \union {"matches"}),
         NEW moved \in SUBSET Projects,
         req[r].stage # "none",
         UNCHANGED <<rows, used, scenario, litter, cleaning>>,
         req' = [req EXCEPT ![r] = [req[r] EXCEPT !.stage = stage, !.p = p,
                                                  !.locks = locks, !.moved = moved]],
         Free(locks \ req[r].locks, r),
         req[r].op \in {"save", "delete", "enqueue", "submit"} => p = req[r].p,
         stage = "drops" => req[r].op = "claim",
         stage \in {"admitted", "hour"} => req[r].by \in locks,
         stage = "hour" => req[r].op = "submit" /\ SlotsLeft(req[r].by)
  PROVE  IInv'
<1> DEFINE q == [req[r] EXCEPT !.stage = stage, !.p = p, !.locks = locks, !.moved = moved]
<1>1. req[r] \in Request
  BY DEF IInv, TypeOK
<1>2. q \in Request
  BY <1>1 DEF Request
<1>3. /\ q.stage = stage /\ q.locks = locks /\ q.op = req[r].op /\ q.by = req[r].by
      /\ q.guest = req[r].guest /\ q.p = p
  BY <1>1 DEF Request
<1>4. Formed(q) /\ Affords(q)
  BY <1>3 DEF IInv, Formed, Affords
<1>5. \A s \in Requests \ {r} : q.locks \intersect req[s].locks = {}
  BY <1>3 DEF IInv, Exclusive, Free
<1>6. QED
  BY <1>2, <1>4, <1>5, RequestMoves

LEMMA AuthenticatesKeeps ==
  ASSUME IInv, NEW r \in Requests, Authenticates(r)
  PROVE  IInv'
<1>1. req[r] \in Request /\ req[r].stage = "auth" /\ req[r].by \in Principals
  BY DEF IInv, TypeOK, Formed, Authenticates, At
<1>2. req' = [req EXCEPT ![r] = [req[r] EXCEPT !.stage = "admitted", !.p = req[r].p,
                                   !.locks = {req[r].by}, !.moved = req[r].moved]]
  BY <1>1 DEF IInv, TypeOK, Authenticates, Request
<1>3. req[r].p \in Projects \union {Nobody} /\ req[r].moved \in SUBSET Projects
  BY <1>1 DEF Request
<1>4. {req[r].by} \in SUBSET (Principals \union Projects \union {"matches"})
  BY <1>1
<1>5. Free({req[r].by} \ req[r].locks, r)
  BY DEF Authenticates, Free
<1>6. UNCHANGED <<rows, used, scenario, litter, cleaning>>
  BY DEF Authenticates
<1>7. QED
  BY <1>1, <1>2, <1>3, <1>4, <1>5, <1>6, RequestLocks

LEMMA CreatesKeeps ==
  ASSUME IInv, NEW r \in Requests, Creates(r)
  PROVE  IInv'
<1>1. req[r] \in Request /\ req[r].stage = "admitted" /\ req[r].op = "create"
  BY DEF IInv, TypeOK, Creates, At
<1>2. CASE Refuses(r)
  BY <1>1, <1>2, RefusesKeeps DEF Creates
<1>3. ASSUME NEW p \in Projects, Free({p}, r),
             req' = [req EXCEPT ![r].stage = "handled", ![r].p = p, ![r].locks = @ \union {p}]
      PROVE  IInv'
  <2> DEFINE locks == req[r].locks \union {p}
  <2>1. req' = [req EXCEPT ![r] = [req[r] EXCEPT !.stage = "handled", !.p = p,
                                     !.locks = locks, !.moved = req[r].moved]]
    BY <1>1, <1>3 DEF IInv, TypeOK, Request
  <2>2. locks \in SUBSET (Principals \union Projects \union {"matches"})
    BY <1>1 DEF Request
  <2>3. req[r].moved \in SUBSET Projects
    BY <1>1 DEF Request
  <2>4. Free(locks \ req[r].locks, r)
    BY <1>3 DEF Free
  <2>5. UNCHANGED <<rows, used, scenario, litter, cleaning>>
    BY DEF Creates
  <2>6. QED
    BY <1>1, <2>1, <2>2, <2>3, <2>4, <2>5, RequestLocks
<1>4. QED
  BY <1>2, <1>3 DEF Creates, Owned

LEMMA WritesKeeps ==
  ASSUME IInv, NEW r \in Requests, Writes(r)
  PROVE  IInv'
<1> DEFINE stage == IF req[r].op = "delete" THEN "prunes" ELSE "handled"
           locks == req[r].locks \union {req[r].p}
<1>1. /\ req[r] \in Request /\ req[r].stage = "writes" /\ req[r].op \in {"save", "delete"}
      /\ req[r].p \in Projects
  BY DEF IInv, TypeOK, Formed, Writes, At
<1>2. req' = [req EXCEPT ![r] = [req[r] EXCEPT !.stage = stage, !.p = req[r].p,
                                   !.locks = locks, !.moved = req[r].moved]]
  BY <1>1 DEF IInv, TypeOK, Request, Writes
<1>3. locks \in SUBSET (Principals \union Projects \union {"matches"})
  BY <1>1 DEF Request
<1>4. req[r].moved \in SUBSET Projects
  BY <1>1 DEF Request
<1>5. Free(locks \ req[r].locks, r)
  BY DEF Free, Writes
<1>6. QED
  BY <1>1, <1>2, <1>3, <1>4, <1>5, RequestLocks DEF Writes

LEMMA ClaimsKeeps ==
  ASSUME IInv, NEW r \in Requests, Claims(r)
  PROVE  IInv'
<1> DEFINE moved == Owned(req[r].guest)
           locks == req[r].locks \union moved
<1>1. req[r] \in Request /\ req[r].stage = "writes" /\ req[r].op = "claim"
  BY DEF IInv, TypeOK, Claims, At
<1>2. req' = [req EXCEPT ![r] = [req[r] EXCEPT !.stage = "drops", !.p = req[r].p,
                                   !.locks = locks, !.moved = moved]]
  BY <1>1 DEF IInv, TypeOK, Request, Claims
<1>3. moved \in SUBSET Projects
  BY DEF Owned
<1>4. locks \in SUBSET (Principals \union Projects \union {"matches"})
  BY <1>1, <1>3 DEF Request
<1>5. req[r].p \in Projects \union {Nobody}
  BY <1>1 DEF Request
<1>6. Free(locks \ req[r].locks, r)
  BY DEF Free, Claims
<1>7. QED
  BY <1>1, <1>2, <1>3, <1>4, <1>5, <1>6, RequestLocks DEF Claims

LEMMA DropsKeeps ==
  ASSUME IInv, NEW r \in Requests, Drops(r)
  PROVE  IInv'
<1> DEFINE gone == {req[r].guest} \union Owned(req[r].guest)
           locks == req[r].locks \union gone
<1>1. /\ req[r] \in Request /\ req[r].stage = "drops" /\ req[r].op = "claim"
      /\ req[r].guest \in Principals
  BY DEF IInv, TypeOK, Formed, Drops, At, Principals
<1>2. req' = [req EXCEPT ![r] = [req[r] EXCEPT !.stage = "handled", !.p = req[r].p,
                                   !.locks = locks, !.moved = req[r].moved]]
  BY <1>1 DEF IInv, TypeOK, Request, Drops
<1>3. locks \in SUBSET (Principals \union Projects \union {"matches"})
  BY <1>1 DEF Request, Owned
<1>4. req[r].p \in Projects \union {Nobody} /\ req[r].moved \in SUBSET Projects
  BY <1>1 DEF Request
<1>5. Free(locks \ req[r].locks, r)
  BY DEF Free, Drops
<1>6. QED
  BY <1>1, <1>2, <1>3, <1>4, <1>5, RequestLocks DEF Drops

LEMMA PromotesKeeps ==
  ASSUME IInv, NEW r \in Requests, NEW ready \in BOOLEAN, Promotes(r, ready)
  PROVE  IInv'
<1>1. /\ req[r] \in Request /\ req[r].stage = "promotes" /\ req[r].op = "submit"
      /\ req[r].p \in Projects /\ req[r].by \in req[r].locks /\ SlotsLeft(req[r].by)
  BY DEF IInv, TypeOK, Formed, Affords, Promotes, At
<1>2. CASE ready
  <2> DEFINE locks == req[r].locks \union {req[r].p}
  <2>1. req' = [req EXCEPT ![r] = [req[r] EXCEPT !.stage = "hour", !.p = req[r].p,
                                     !.locks = locks, !.moved = req[r].moved]]
    BY <1>1, <1>2 DEF IInv, TypeOK, Request, Promotes
  <2>2. locks \in SUBSET (Principals \union Projects \union {"matches"})
    BY <1>1 DEF Request
  <2>3. req[r].moved \in SUBSET Projects
    BY <1>1 DEF Request
  <2>4. Free(locks \ req[r].locks, r)
    BY DEF Free, Promotes
  <2>5. UNCHANGED <<rows, used, scenario, litter, cleaning>>
    BY DEF Promotes
  <2>6. req[r].p \in Projects \union {Nobody} /\ req[r].by \in locks
    BY <1>1
  <2>7. req[r].stage # "none" /\ req[r].op # "claim" /\ SlotsLeft(req[r].by)
    BY <1>1
  <2> HIDE DEF locks
  <2>8. QED
    BY <1>1, <2>1, <2>2, <2>3, <2>4, <2>5, <2>6, <2>7, RequestLocks
<1>3. CASE ~ready
  BY <1>1, <1>3, RefusesKeeps DEF Promotes
<1>4. QED
  BY <1>2, <1>3

LEMMA PrunesKeeps ==
  ASSUME IInv, NEW r \in Requests, Prunes(r)
  PROVE  IInv'
<1> DEFINE locks == IF litter THEN req[r].locks \union {"matches"} ELSE req[r].locks
<1>1. req[r] \in Request /\ req[r].stage = "prunes"
  BY DEF IInv, TypeOK, Prunes, At
<1>2. req' = [req EXCEPT ![r] = [req[r] EXCEPT !.stage = "handled", !.p = req[r].p,
                                   !.locks = locks, !.moved = req[r].moved]]
  BY <1>1 DEF IInv, TypeOK, Request, Prunes
<1>3. locks \in SUBSET (Principals \union Projects \union {"matches"})
  BY <1>1 DEF Request
<1>4. req[r].p \in Projects \union {Nobody} /\ req[r].moved \in SUBSET Projects
  BY <1>1 DEF Request
<1>5. Free(locks \ req[r].locks, r)
  BY DEF Free, Prunes
<1>6. QED
  BY <1>1, <1>2, <1>3, <1>4, <1>5, RequestLocks DEF Prunes

\* The steps that only look, or only count.
LEMMA HandlersKeep ==
  ASSUME IInv, NEW r \in Requests,
         \/ Enqueues(r) \/ Refreshes(r) \/ Starts(r) \/ SubmitChecks(r)
         \/ ChargeFails(r) \/ Leaves(r) \/ EraseStarts(r)
  PROVE  IInv'
<1>1. UNCHANGED <<rows, used, scenario, litter, cleaning>> /\ req[r].stage # "none"
  BY DEF Enqueues, Refreshes, Starts, SubmitChecks, ChargeFails, Leaves, EraseStarts, At
<1>2. CASE Refuses(r)
  BY <1>1, <1>2, RefusesKeeps
<1>3. CASE Goes(r, "handled") \/ Goes(r, "leaving") \/ Goes(r, "erases")
  BY <1>1, <1>3, StageGoes
<1>4. CASE Goes(r, "writes") /\ Starts(r)
  <2>1. req[r].op \in {"save", "delete", "claim"}
    BY <1>4 DEF Starts
  <2>2. QED
    BY <1>1, <1>4, <2>1, StageGoes
<1>5. CASE Goes(r, "promotes") /\ SubmitChecks(r) /\ SlotsLeft(req[r].by)
  <2>1. req[r].op = "submit" /\ req[r].by \in req[r].locks
    BY <1>5 DEF IInv, Formed, SubmitChecks, At
  <2>2. QED
    BY <1>1, <1>5, <2>1, StageGoes
<1>6. QED
  BY <1>2, <1>3, <1>4, <1>5
     DEF Enqueues, Refreshes, Starts, SubmitChecks, ChargeFails, Leaves, EraseStarts

LEMMA AbortKeeps ==
  ASSUME IInv, NEW r \in Requests, DatabaseAborts(r)
  PROVE  IInv'
<1> DEFINE q == [req[r] EXCEPT !.stage = "aborted", !.ok = FALSE, !.locks = {}, !.moved = {}]
<1>1. req[r] \in Request /\ req[r].stage # "none"
  BY DEF IInv, TypeOK, DatabaseAborts, At
<1>2. q \in Request
  BY <1>1 DEF Request
<1>3. req' = [req EXCEPT ![r] = q]
  BY <1>1 DEF IInv, TypeOK, DatabaseAborts, Request
<1>4. /\ q.stage = "aborted" /\ q.locks = {} /\ q.op = req[r].op /\ q.by = req[r].by
      /\ q.guest = req[r].guest /\ q.p = req[r].p
  BY <1>1 DEF Request
<1>5. Formed(q) /\ Affords(q)
  BY <1>1, <1>4 DEF IInv, Formed, Affords
<1>6. UNCHANGED <<rows, used, scenario, litter, cleaning>>
  BY DEF DatabaseAborts
<1>7. QED
  BY <1>2, <1>3, <1>4, <1>5, <1>6, RequestMovesOn

------------------------------------------------------------------------------
(* The charge of a submission, and the windows it counts in.               *)

\* Two requests that are between check and charge are of different users.
LEMMA OneSubmission ==
  ASSUME IInv, NEW r \in Requests, NEW s \in Requests \ {r},
         req[r].stage \in {"promotes", "hour", "day"},
         req[s].stage \in {"promotes", "hour", "day"}
  PROVE  req[r].by # req[s].by
BY DEF IInv, Formed, Exclusive

LEMMA ChargeMoves ==
  ASSUME IInv, NEW r \in Requests, NEW stage \in {"handled", "day", "prunes"},
         NEW ok \in BOOLEAN, NEW n \in Buckets,
         req[r].op = "submit", req[r].by \in req[r].locks,
         req[r].stage \in {"hour", "day"},
         n.hour <= HourlyLimit, n.day <= DailyLimit,
         stage = "day" => n.day < DailyLimit,
         UNCHANGED <<rows, scenario, litter, cleaning>>,
         used' = [used EXCEPT ![req[r].by] = n],
         req' = [req EXCEPT ![r] = [req[r] EXCEPT !.stage = stage, !.ok = ok]]
  PROVE  IInv'
<1> DEFINE u == req[r].by
           q == [req[r] EXCEPT !.stage = stage, !.ok = ok]
<1>1. req[r] \in Request
  BY DEF IInv, TypeOK
<1>2. /\ q \in Request
      /\ q.stage = stage /\ q.locks = req[r].locks /\ q.op = "submit"
      /\ q.by = u /\ q.p = req[r].p
  BY <1>1 DEF Request
<1>3. /\ req \in [Requests -> Request]
      /\ used \in [Users -> Buckets]
      /\ u \in Users /\ req[r].p \in Projects
  BY DEF IInv, TypeOK, Formed
<1>4. req' = [req EXCEPT ![r] = q]
  OBVIOUS
<1> HIDE DEF q
<1>5. /\ req'[r] = q
      /\ \A s \in Requests \ {r} : req'[s] = req[s]
      /\ req' \in [Requests -> Request]
  BY <1>2, <1>3, <1>4
<1>6. /\ used'[u] = n
      /\ \A v \in Users \ {u} : used'[v] = used[v]
      /\ used' \in [Users -> Buckets]
  BY <1>3
<1>7. TypeOK'
  BY <1>5, <1>6 DEF IInv, TypeOK, rows
<1>8. Exclusive'
  BY <1>2, <1>5 DEF IInv, Exclusive
<1>9. NoSubmitIsOvercharged'
  BY <1>6 DEF IInv, NoSubmitIsOvercharged
<1>10. ASSUME NEW s \in Requests PROVE (Formed(req[s]) /\ Affords(req[s]))'
  <2>1. CASE s = r
    BY <1>2, <1>3, <1>5, <1>6, <2>1 DEF Formed, Affords, Principals
  <2>2. CASE s # r
    <3>1. req'[s] = req[s] /\ Formed(req[s]) /\ Affords(req[s])
      BY <1>5, <2>2 DEF IInv
    <3>2. req[s].stage \in {"promotes", "hour", "day"} => req[s].by \in Users \ {u}
      BY <2>2, <3>1, OneSubmission DEF Formed
    <3>3. QED
      BY <1>6, <3>1, <3>2 DEF Formed, Affords, SlotsLeft
  <2>3. QED
    BY <2>1, <2>2
<1>11. QED
  BY <1>7, <1>8, <1>9, <1>10 DEF IInv

LEMMA ChargesHourKeeps ==
  ASSUME IInv, NEW r \in Requests, ChargesHour(r)
  PROVE  IInv'
<1> DEFINE u == req[r].by
           n == [used[u] EXCEPT !.hour = used[u].hour + 1]
<1>1. /\ req[r] \in Request /\ req[r].stage = "hour" /\ req[r].ok \in BOOLEAN
      /\ req \in [Requests -> Request] /\ used \in [Users -> Buckets]
      /\ UNCHANGED <<rows, scenario, litter, cleaning>>
  BY DEF IInv, TypeOK, Request, ChargesHour, At
<1>2. req[r].op = "submit" /\ u \in req[r].locks /\ u \in Users /\ SlotsLeft(u)
  BY <1>1 DEF IInv, Formed, Affords
<1>3. used[u] \in Buckets
  BY <1>1, <1>2
<1>4. used[u].hour \in Nat /\ used[u].day \in Nat
  BY <1>3 DEF Buckets
<1>5. used[u].hour + 1 <= HourlyLimit /\ used[u].day < DailyLimit
  BY <1>2, <1>4, LimitsAssumption DEF SlotsLeft
<1>6. n \in Buckets /\ n.hour = used[u].hour + 1 /\ n.day = used[u].day
  BY <1>3, <1>4 DEF Buckets
<1>7. used' = [used EXCEPT ![u] = n]
  BY <1>1, <1>2 DEF ChargesHour, ConsumeHour
<1> HIDE DEF n
<1>8. n.hour <= HourlyLimit /\ n.day < DailyLimit /\ n.day <= DailyLimit
  BY <1>4, <1>5, <1>6, LimitsAssumption
<1>9. CASE Refuses(r)
  <2>1. req' = [req EXCEPT ![r] = [req[r] EXCEPT !.stage = "handled", !.ok = FALSE]]
    BY <1>1, <1>9 DEF Refuses
  <2>2. QED
    BY <1>1, <1>2, <1>6, <1>7, <1>8, <2>1, ChargeMoves
<1>10. CASE Goes(r, "day")
  <2>1. req' = [req EXCEPT ![r] = [req[r] EXCEPT !.stage = "day", !.ok = req[r].ok]]
    BY <1>1, <1>10 DEF Goes, Request
  <2>2. QED
    BY <1>1, <1>2, <1>6, <1>7, <1>8, <2>1, ChargeMoves
<1>11. QED
  BY <1>9, <1>10 DEF ChargesHour

LEMMA ChargesDayKeeps ==
  ASSUME IInv, NEW r \in Requests, ChargesDay(r)
  PROVE  IInv'
<1> DEFINE u == req[r].by
           n == [used[u] EXCEPT !.day = used[u].day + 1]
<1>1. /\ req[r] \in Request /\ req[r].stage = "day" /\ req[r].ok \in BOOLEAN
      /\ req \in [Requests -> Request] /\ used \in [Users -> Buckets]
      /\ UNCHANGED <<rows, scenario, litter, cleaning>>
  BY DEF IInv, TypeOK, Request, ChargesDay, At
<1>2. req[r].op = "submit" /\ u \in req[r].locks /\ u \in Users /\ used[u].day < DailyLimit
  BY <1>1 DEF IInv, Formed, Affords
<1>3. used[u] \in Buckets /\ used[u].hour <= HourlyLimit
  BY <1>1, <1>2 DEF IInv, NoSubmitIsOvercharged
<1>4. used[u].hour \in Nat /\ used[u].day \in Nat
  BY <1>3 DEF Buckets
<1>5. n \in Buckets /\ n.hour = used[u].hour /\ n.day = used[u].day + 1
  BY <1>3, <1>4 DEF Buckets
<1>6. used' = [used EXCEPT ![u] = n]
  BY <1>1, <1>2 DEF ChargesDay, ConsumeDay
<1> HIDE DEF n
<1>7. n.hour <= HourlyLimit /\ n.day <= DailyLimit
  BY <1>2, <1>3, <1>4, <1>5, LimitsAssumption
<1>8. CASE Refuses(r)
  <2>1. req' = [req EXCEPT ![r] = [req[r] EXCEPT !.stage = "handled", !.ok = FALSE]]
    BY <1>1, <1>8 DEF Refuses
  <2>2. QED
    BY <1>1, <1>2, <1>5, <1>6, <1>7, <2>1, ChargeMoves
<1>9. CASE Goes(r, "prunes")
  <2>1. req' = [req EXCEPT ![r] = [req[r] EXCEPT !.stage = "prunes", !.ok = req[r].ok]]
    BY <1>1, <1>9 DEF Goes, Request
  <2>2. QED
    BY <1>1, <1>2, <1>5, <1>6, <1>7, <2>1, ChargeMoves
<1>10. QED
  BY <1>8, <1>9 DEF ChargesDay

LEMMA TimeKeeps ==
  ASSUME IInv, TimePasses
  PROVE  IInv'
<1>1. UNCHANGED <<rows, scenario, req, litter, cleaning>> /\ used \in [Users -> Buckets]
  BY DEF TimePasses, IInv, TypeOK
<1>2. ASSUME NEW u \in Users
      PROVE  /\ used'[u] \in Buckets
             /\ used'[u].hour <= used[u].hour
             /\ used'[u].day <= used[u].day
  <2>1. used[u] \in Buckets
    BY <1>1
  <2>2. used[u].hour \in Nat /\ used[u].day \in Nat
    BY <2>1 DEF Buckets
  <2>3. CASE NextHour
    <3>1. used'[u] = [used[u] EXCEPT !.hour = 0]
      BY <2>3 DEF NextHour
    <3>2. used'[u].hour = 0 /\ used'[u].day = used[u].day /\ used'[u] \in Buckets
      BY <2>1, <3>1 DEF Buckets
    <3>3. QED
      BY <2>2, <3>2
  <2>4. CASE NextDay
    <3>1. used'[u] = NothingUsed
      BY <2>4 DEF NextDay
    <3>2. used'[u].hour = 0 /\ used'[u].day = 0 /\ used'[u] \in Buckets
      BY <3>1 DEF NothingUsed, Buckets
    <3>3. QED
      BY <2>2, <3>2
  <2>5. QED
    BY <2>3, <2>4 DEF TimePasses
<1>3. used' \in [Users -> Buckets]
  BY <1>1, <1>2 DEF TimePasses, NextHour, NextDay
<1>4. TypeOK'
  BY <1>1, <1>3 DEF IInv, TypeOK, rows
<1>5. Exclusive'
  BY <1>1 DEF IInv, Exclusive
<1>6. NoSubmitIsOvercharged'
  BY <1>1, <1>2, LimitsAssumption DEF IInv, NoSubmitIsOvercharged, Buckets
<1>7. ASSUME NEW s \in Requests PROVE (Formed(req[s]) /\ Affords(req[s]))'
  <2>1. Formed(req[s]) /\ Affords(req[s]) /\ req'[s] = req[s]
    BY <1>1 DEF IInv
  <2>2. req[s].stage \in {"promotes", "hour", "day"} => req[s].by \in Users
    BY <2>1 DEF Formed
  <2>3. QED
    BY <1>1, <1>2, <2>1, <2>2, LimitsAssumption DEF Formed, Affords, SlotsLeft, Buckets
<1>8. QED
  BY <1>4, <1>5, <1>6, <1>7 DEF IInv

------------------------------------------------------------------------------
(* The end of a request, and the other processes.                          *)

\* What a step does to the tables is of no concern to the quotas.
LEMMA TablesKeep ==
  ASSUME IInv, TypeOK', UNCHANGED <<used, req>>
  PROVE  IInv'
BY DEF IInv, Exclusive, Formed, Affords, SlotsLeft, NoSubmitIsOvercharged

LEMMA OnlyTyped ==
  ASSUME TypeOK, NEW kept, Only(kept)
  PROVE  /\ images' \subseteq Projects
         /\ owner' \in [Projects -> Principals \union {Nobody}]
         /\ active' \in [Projects -> Nat]
BY DEF TypeOK, Only

LEMMA ClaimedTyped ==
  ASSUME TypeOK, NEW g, NEW u \in Principals, NEW moved, Claimed(g, u, moved)
  PROVE  /\ images' \subseteq Projects
         /\ owner' \in [Projects -> Principals \union {Nobody}]
         /\ active' \in [Projects -> Nat]
         /\ session' \in [Guests -> Session]
<1>1. NoSession \in Session
  BY DEF NoSession, Session
<1>2. session' \in [Guests -> Session]
  BY <1>1 DEF TypeOK, Claimed
<1>3. images' \subseteq Projects
  BY DEF TypeOK, Claimed
<1>4. active' \in [Projects -> Nat]
  BY DEF TypeOK, Claimed
<1>5. owner' \in [Projects -> Principals \union {Nobody}]
  BY DEF TypeOK, Claimed
<1>6. QED
  BY <1>2, <1>3, <1>4, <1>5

LEMMA CountedTyped ==
  ASSUME TypeOK, NEW r \in Requests
  PROVE  Counted(r) \in [Guests -> Session]
<1>1. Refreshed(req[r].by) \in [Guests -> Session]
  BY DEF TypeOK, Refreshed, Session
<1>2. QED
  BY <1>1 DEF Counted, Session

LEMMA RollsBackKeeps ==
  ASSUME IInv, NEW r \in Requests, RollsBack(r)
  PROVE  IInv'
<1>1. NoRequest \in Request
  BY DEF NoRequest, Request, UserOps
<1>2. TypeOK'
  BY <1>1 DEF IInv, TypeOK, RollsBack, Ends, rows
<1>3. QED
  BY <1>2, EndsKeeps DEF RollsBack

LEMMA CommitsKeeps ==
  ASSUME IInv, NEW r \in Requests, Commits(r)
  PROVE  IInv'
<1>1. NoRequest \in Request /\ req[r] \in Request /\ req[r].stage = "leaving"
  BY DEF IInv, TypeOK, NoRequest, Request, UserOps, Commits, At
<1>2. req' \in [Requests -> Request] /\ Ends(r) /\ UNCHANGED <<used, scenario>>
  BY <1>1 DEF IInv, TypeOK, Commits, Ends
<1>3. account' \subseteq Users
  BY DEF IInv, TypeOK, Commits, WithAccount
<1>4. litter' \in BOOLEAN
  BY DEF IInv, TypeOK, Commits
<1>5. cleaning' \in [stage : {"idle", "deletes", "removes"}, tags : SUBSET Projects,
                     revived : SUBSET Projects]
  <2>1. req[r].moved \subseteq Projects /\ Owned(req[r].by) \subseteq Projects
    BY <1>1 DEF Request, Owned
  <2>2. QED
    BY <2>1 DEF IInv, TypeOK, Commits, Revives
<1>6. Counted(r) \in [Guests -> Session]
  BY CountedTyped DEF IInv
<1>7. req[r].by \in Principals
  BY <1>1 DEF IInv, Formed
<1>8. /\ images' \subseteq Projects
      /\ owner' \in [Projects -> Principals \union {Nobody}]
      /\ active' \in [Projects -> Nat]
      /\ session' \in [Guests -> Session]
  <2>1. CASE req[r].op = "create"
    BY <1>6, <1>7, <2>1 DEF IInv, TypeOK, Commits
  <2>2. CASE req[r].op = "enqueue"
    BY <1>6, <2>2 DEF IInv, TypeOK, Commits
  <2>3. CASE req[r].op = "delete"
    BY <1>6, <2>3, OnlyTyped DEF IInv, Commits
  <2>4. CASE req[r].op = "claim"
    <3>1. req[r].op \notin {"create", "enqueue", "delete", "save", "refresh", "submit"}
      BY <2>4
    <3>2. Claimed(req[r].guest, req[r].by, req[r].moved)
      BY <3>1 DEF Commits
    <3>3. QED
      BY <1>7, <3>2, ClaimedTyped DEF IInv
  <2>5. CASE req[r].op \in {"save", "refresh", "submit"}
    BY <1>6, <2>5 DEF IInv, TypeOK, Commits
  <2>6. QED
    BY <2>1, <2>2, <2>3, <2>4, <2>5 DEF Commits
<1>9. TypeOK'
  BY <1>2, <1>3, <1>4, <1>5, <1>8 DEF IInv, TypeOK
<1>10. QED
  BY <1>2, <1>9, EndsKeeps

LEMMA ErasesKeeps ==
  ASSUME IInv, NEW r \in Requests, Erases(r)
  PROVE  IInv'
<1>1. NoRequest \in Request
  BY DEF NoRequest, Request, UserOps
<1>2. TypeOK'
  BY <1>1, OnlyTyped DEF IInv, TypeOK, Erases, Erased, Ends
<1>3. QED
  BY <1>2, EndsKeeps DEF Erases

LEMMA CleanupKeeps ==
  ASSUME IInv, CleanupCollects \/ CleanupDeletes \/ CleanupRemoves
  PROVE  IInv'
<1>1. CASE CleanupCollects
  <2>1. ExpiredImages \subseteq Projects
    BY DEF IInv, TypeOK, ExpiredImages
  <2>2. TypeOK' /\ UNCHANGED <<used, req>>
    BY <1>1, <2>1 DEF IInv, TypeOK, CleanupCollects, rows
  <2>3. QED
    BY <2>2, TablesKeep
<1>2. CASE CleanupDeletes
  <2>1. /\ session' \in [Guests -> Session]
        /\ images' \subseteq Projects
        /\ owner' \in [Projects -> Principals \union {Nobody}]
        /\ active' \in [Projects -> Nat]
    BY <1>2, OnlyTyped DEF IInv, TypeOK, CleanupDeletes, ExpiredDeleted, NoSession, Session
  <2>2. TypeOK' /\ UNCHANGED <<used, req>>
    BY <1>2, <2>1 DEF IInv, TypeOK, CleanupDeletes
  <2>3. QED
    BY <2>2, TablesKeep
<1>3. CASE CleanupRemoves
  <2>1. TypeOK' /\ UNCHANGED <<used, req>>
    BY <1>3 DEF IInv, TypeOK, CleanupRemoves
  <2>2. QED
    BY <2>1, TablesKeep
<1>4. QED
  BY <1>1, <1>2, <1>3

LEMMA OthersKeep ==
  ASSUME IInv,
         \/ \E g \in Guests : SessionAges(g)
         \/ \E p \in Projects : TestEnds(p)
         \/ LateResult
  PROVE  IInv'
<1>1. ASSUME NEW g \in Guests, SessionAges(g) PROVE TypeOK' /\ UNCHANGED <<used, req>>
  BY <1>1 DEF IInv, TypeOK, SessionAges, Session
<1>2. ASSUME NEW p \in Projects, TestEnds(p) PROVE TypeOK' /\ UNCHANGED <<used, req>>
  BY <1>2 DEF IInv, TypeOK, TestEnds
<1>3. CASE LateResult
  BY <1>3, TablesKeep DEF IInv, TypeOK, LateResult, rows
<1>4. QED
  BY <1>1, <1>2, <1>3, TablesKeep

------------------------------------------------------------------------------
(* The theorems.                                                           *)

LEMMA InitImplies == Init => IInv
<1> SUFFICES ASSUME Init PROVE IInv
  OBVIOUS
<1>1. req = [r \in Requests |-> NoRequest] /\ NoRequest \in Request
  BY DEF Init, NoRequest, Request, UserOps
<1>2. TypeOK
  BY <1>1 DEF Init, TypeOK, Session, NothingUsed, Buckets
<1>3. Exclusive /\ \A r \in Requests : Formed(req[r]) /\ Affords(req[r])
  BY <1>1 DEF Exclusive, Formed, Affords, NoRequest
<1>4. NoSubmitIsOvercharged
  <2>1. \A u \in Users : used[u].hour = 0 /\ used[u].day = 0
    BY DEF Init, NothingUsed
  <2>2. 0 <= HourlyLimit /\ 0 <= DailyLimit
    BY LimitsAssumption
  <2>3. QED
    BY <2>1, <2>2 DEF NoSubmitIsOvercharged
<1>5. QED
  BY <1>2, <1>3, <1>4 DEF IInv

LEMMA NextKeeps == IInv /\ [Next]_vars => IInv'
<1> SUFFICES ASSUME IInv, [Next]_vars PROVE IInv'
  OBVIOUS
<1>1. CASE UNCHANGED vars
  <2>1. UNCHANGED <<account, session, owner, active, images, used, scenario, req, litter, cleaning>>
    BY <1>1 DEF vars, rows
  <2>2. TypeOK'
    BY <2>1 DEF IInv, TypeOK
  <2>3. QED
    BY <2>1, <2>2, TablesKeep
<1>2. ASSUME NEW r \in Requests, NEW op, NEW by \in Principals,
             NEW g \in Guests \union {Nobody}, NEW p \in Projects \union {Nobody},
             Arrives(r, op, by, g, p)
      PROVE  IInv'
  BY <1>2, ArrivesKeeps
<1>3. ASSUME NEW r \in Requests, Handles(r) PROVE IInv'
  BY <1>3, CreatesKeeps, WritesKeeps, ClaimsKeeps, DropsKeeps, PromotesKeeps, PrunesKeeps,
     ChargesHourKeeps, ChargesDayKeeps, HandlersKeep, ErasesKeeps
     DEF Handles
<1>4. ASSUME NEW r \in Requests, Proceeds(r) \/ Promotes(r, FALSE) \/ ChargeFails(r)
      PROVE  IInv'
  BY <1>3, <1>4, AuthenticatesKeeps, AbortKeeps, HandlersKeep, CommitsKeeps, RollsBackKeeps,
     PromotesKeeps
     DEF Proceeds
<1>5. CASE CleanupCollects \/ Cleanup
  BY <1>5, CleanupKeeps DEF Cleanup
<1>6. CASE (\E g \in Guests : SessionAges(g)) \/ (\E p \in Projects : TestEnds(p)) \/ LateResult
  BY <1>6, OthersKeep
<1>7. CASE TimePasses
  BY <1>7, TimeKeeps
<1>8. QED
  BY <1>1, <1>2, <1>4, <1>5, <1>6, <1>7 DEF Next

\* The invariant is inductive: types, one holder for each row, and the lock
\* that a submission has of its user from its admission to its charge.
THEOREM Invariance == Spec => []IInv
BY InitImplies, NextKeeps, PTL DEF Spec

\* Every variable stays in its type, whatever requests, cleanup, erasure and
\* clock do.
THEOREM TypeCorrect == Spec => []TypeOK
<1>1. IInv => TypeOK
  BY DEF IInv
<1>2. QED
  BY <1>1, Invariance, PTL

\* No submission that passed the check of its quotas is refused by the charge,
\* however many requests of however many users are under way.
THEOREM ChargesFollowChecks == Spec => []NoSubmitIsOvercharged
<1>1. IInv => NoSubmitIsOvercharged
  BY DEF IInv
<1>2. QED
  BY <1>1, Invariance, PTL

=============================================================================
