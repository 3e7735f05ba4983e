------------------------------- MODULE ApiLocks ------------------------------
(***************************************************************************)
(* What the row locks of the API's transactions guarantee about projects:  *)
(* what a request has read under its principal's lock is still so when it  *)
(* commits.                                                                *)
(***************************************************************************)
EXTENDS ApiProofs, FiniteSetTheorems

\* The handler has seen to it that the project is its principal's.
Owning == {"writes", "promotes", "hour", "day", "prunes", "handled", "leaving"}

Closing == {"handled", "leaving"}

\* The locks of a transaction: its principal's first, then projects that are
\* its principal's, its guest's, or not there yet.
Locking(q) ==
  /\ q.stage \in {"none", "auth"} => q.locks = {}
  /\ q.locks # {} => q.by \in q.locks
  /\ \A p \in q.locks \intersect Projects : owner[p] \in {q.by, q.guest, Nobody}
  /\ q.stage \in Owning \union {"drops"} /\ q.ok /\ q.op # "erase" => q.by \in q.locks

\* What a request that has not failed may still rely on.
Owns(q) ==
  q.stage \in Owning /\ q.op \in {"save", "delete", "enqueue", "submit"} =>
    q.p \in Projects /\ owner[q.p] = q.by

Deletes(q) == q.stage \in Closing \union {"prunes"} /\ q.op = "delete" => q.p \in q.locks

Tests(q) == q.stage \in Closing /\ q.op = "enqueue" => active[q.p] = 0

Inserts(q) ==
  q.stage \in Closing /\ q.op = "create" =>
    /\ q.p \in q.locks \intersect Projects /\ owner[q.p] = Nobody
    /\ Cardinality(Owned(q.by)) < Limit(q.by)

Moves(q) ==
  q.stage \in Closing \union {"drops"} /\ q.op = "claim" =>
    /\ q.guest \in Guests
    /\ q.moved \subseteq q.locks /\ q.moved \subseteq Owned(q.guest)
    /\ q.stage # "drops" => q.guest \in q.locks /\ Owned(q.guest) \subseteq q.locks

Relies(q) ==
  /\ q.stage = "aborted" => ~q.ok
  /\ ~q.ok => q.stage \in {"aborted", "handled", "leaving"}
  /\ q.stage = "prunes" => q.op \in {"delete", "submit"}
  /\ q.ok => Owns(q) /\ Deletes(q) /\ Tests(q) /\ Inserts(q) /\ Moves(q)

\* One call at a time is in the loop.
OneInLoop ==
  /\ \A r, s \in Requests : InLoop(r) /\ InLoop(s) => r = s
  /\ cleaning.stage # "idle" => \A r \in Requests : ~InLoop(r)

\* What the cleanup is about to remove is no one's any more, or will not be
\* when the sessions are deleted, or has come back to life.
Collected ==
  /\ \A p \in images : owner[p] # Nobody
  /\ cleaning.stage # "idle" =>
       \A p \in (images \intersect cleaning.tags) \ cleaning.revived :
         cleaning.stage = "deletes" /\ owner[p] \in Expired

LInv ==
  /\ IInv
  /\ \A r \in Requests : Locking(req[r]) /\ Relies(req[r])
  /\ OneInLoop
  /\ OneActiveTest
  /\ Collected

------------------------------------------------------------------------------
(* Steps that leave the tables alone.                                      *)

\* A request keeps what it relies on as long as others touch neither the rows
\* that it has locked nor those of a principal that it has locked.
LEMMA StillRelies ==
  ASSUME LInv, NEW s \in Requests, req'[s] = req[s],
         \A p \in Projects : p \in req[s].locks \/ owner[p] \in Principals \intersect req[s].locks
                               => owner'[p] = owner[p],
         \A p \in Projects : owner'[p] \in Principals \intersect req[s].locks
                               => owner'[p] = owner[p],
         \A p \in Projects : active[p] = 0 /\ owner[p] \in Principals \intersect req[s].locks
                               => active'[p] = 0
  PROVE  (Locking(req[s]) /\ Relies(req[s]))'
<1> DEFINE q == req[s]
<1>1. /\ q \in Request /\ Locking(q) /\ Relies(q) /\ Formed(q)
      /\ owner \in [Projects -> Principals \union {Nobody}]
  BY DEF LInv, IInv, TypeOK
<1>2. Locking(q)'
  BY <1>1 DEF Locking
<1>3. q.ok /\ q.op # "erase" /\ q.stage \in Owning \union {"drops"} =>
        q.by \in Principals \intersect q.locks
  BY <1>1 DEF Locking, Formed, Owning
<1>4. q.ok => Owns(q)'
  BY <1>1, <1>3 DEF Relies, Owns
<1>5. q.ok => Deletes(q)'
  BY <1>1 DEF Relies, Deletes
<1>6. q.ok => Tests(q)'
  BY <1>1, <1>3 DEF Relies, Tests, Owns, Owning, Closing
<1>7. \A a \in Principals \intersect q.locks : Owned(a)' = Owned(a)
  BY DEF Owned
<1>8. q.ok => Inserts(q)'
  BY <1>1, <1>3, <1>7 DEF Relies, Inserts, Owning, Closing, Limit
<1>9. q.ok => Moves(q)'
  <2>1. HAVE q.ok
  <2>2. SUFFICES ASSUME q.stage \in Closing \union {"drops"}, q.op = "claim"
                 PROVE  /\ q.guest \in Guests /\ q.moved \subseteq q.locks
                        /\ q.moved \subseteq Owned(q.guest)'
                        /\ q.stage # "drops" =>
                             q.guest \in q.locks /\ Owned(q.guest)' \subseteq q.locks
    BY <1>1 DEF Moves
  <2>3. /\ q.guest \in Guests /\ q.moved \subseteq q.locks /\ q.moved \subseteq Owned(q.guest)
        /\ q.stage # "drops" => q.guest \in q.locks /\ Owned(q.guest) \subseteq q.locks
    BY <1>1, <2>1, <2>2 DEF Relies, Moves
  <2>4. q.moved \subseteq Owned(q.guest)'
    BY <2>3 DEF Owned
  <2>5. QED
    BY <1>7, <2>3, <2>4 DEF Principals
<1>10. QED
  BY <1>1, <1>2, <1>4, <1>5, <1>6, <1>8, <1>9 DEF Relies

LEMMA LoopKeeps ==
  ASSUME LInv, NEW r \in Requests,
         \A s \in Requests \ {r} : req'[s] = req[s],
         cleaning'.stage = cleaning.stage,
         InLoop(r)' => InLoop(r) \/ LoopIsFree
  PROVE  OneInLoop'
<1>1. \A s \in Requests \ {r} : InLoop(s)' <=> InLoop(s)
  BY DEF InLoop
<1>2. QED
  BY <1>1 DEF LInv, OneInLoop, LoopIsFree

LEMMA LocalStep ==
  ASSUME LInv, IInv', NEW r \in Requests, NEW q \in Request,
         UNCHANGED <<rows, cleaning>>,
         req' = [req EXCEPT ![r] = q],
         Locking(q), Relies(q),
         q.stage \in {"promotes", "erases"} \/ (q.stage = "prunes" /\ q.op = "submit") =>
           InLoop(r) \/ LoopIsFree
  PROVE  LInv'
<1>1. /\ req'[r] = q
      /\ \A s \in Requests \ {r} : req'[s] = req[s]
  BY DEF LInv, IInv, TypeOK
<1>2. UNCHANGED <<session, owner, active, images>>
  BY DEF rows
<1>3. (Locking(req[r]) /\ Relies(req[r]))'
  BY <1>1, <1>2
     DEF Locking, Relies, Owns, Deletes, Tests, Inserts, Moves, Owned, Limit
<1>4. \A s \in Requests \ {r} : (Locking(req[s]) /\ Relies(req[s]))'
  BY <1>1, <1>2, StillRelies
<1>5. OneInLoop'
  <2>1. InLoop(r)' => InLoop(r) \/ LoopIsFree
    BY <1>1 DEF InLoop
  <2>2. QED
    BY <1>1, <2>1, LoopKeeps
<1>6. OneActiveTest' /\ Collected'
  BY <1>2 DEF LInv, OneActiveTest, Collected, Expired
<1>7. QED
  BY <1>3, <1>4, <1>5, <1>6 DEF LInv

\* A refused request relies on nothing.
LEMMA RefusesLocks ==
  ASSUME LInv, IInv', NEW r \in Requests, Refuses(r), UNCHANGED <<rows, cleaning>>
  PROVE  LInv'
<1> DEFINE q == [req[r] EXCEPT !.stage = "handled", !.ok = FALSE]
<1>1. req[r] \in Request /\ Locking(req[r])
  BY DEF LInv, IInv, TypeOK
<1>2. /\ q \in Request /\ q.stage = "handled" /\ q.ok = FALSE
      /\ q.locks = req[r].locks /\ q.by = req[r].by /\ q.guest = req[r].guest
  BY <1>1 DEF Request
<1>3. req' = [req EXCEPT ![r] = q]
  BY DEF LInv, IInv, TypeOK, Refuses
<1> HIDE DEF q
<1>4. Locking(q) /\ Relies(q)
  BY <1>1, <1>2 DEF Locking, Relies
<1>5. QED
  BY <1>2, <1>3, <1>4, LocalStep

\* A step to another stage.
LEMMA GoesLocks ==
  ASSUME LInv, IInv', NEW r \in Requests,
         NEW stage \in {"handled", "leaving", "day", "prunes", "erases", "writes", "promotes"},
         Goes(r, stage), UNCHANGED <<rows, cleaning>>,
         stage # "erases" /\ req[r].ok /\ req[r].op # "erase" => req[r].by \in req[r].locks,
         Relies([req[r] EXCEPT !.stage = stage]),
         stage \in {"promotes", "erases"} \/ (stage = "prunes" /\ req[r].op = "submit") =>
           LoopIsFree
  PROVE  LInv'
<1> DEFINE q == [req[r] EXCEPT !.stage = stage]
<1>1. req[r] \in Request /\ Locking(req[r])
  BY DEF LInv, IInv, TypeOK
<1>2. /\ q \in Request /\ q.stage = stage /\ q.ok = req[r].ok /\ q.op = req[r].op
      /\ q.locks = req[r].locks /\ q.by = req[r].by /\ q.guest = req[r].guest
  BY <1>1 DEF Request
<1>3. req' = [req EXCEPT ![r] = q]
  BY DEF LInv, IInv, TypeOK, Goes
<1>4. Relies(q)
  OBVIOUS
<1> HIDE DEF q
<1>5. Locking(q)
  BY <1>1, <1>2 DEF Locking, Owning
<1>6. QED
  BY <1>2, <1>3, <1>4, <1>5, LocalStep

------------------------------------------------------------------------------
(* The handlers, one by one.                                               *)

LEMMA ArrivesLocks ==
  ASSUME LInv, IInv', NEW r \in Requests, NEW op, NEW by \in Principals,
         NEW g \in Guests \union {Nobody}, NEW p \in Projects \union {Nobody},
         Arrives(r, op, by, g, p)
  PROVE  LInv'
<1> DEFINE stage == IF op = "erase" THEN "admitted" ELSE "auth"
           q == [req[r] EXCEPT !.op = op, !.by = by, !.guest = g, !.p = p, !.stage = stage]
<1>1. req[r] \in Request /\ req[r].stage = "none" /\ Locking(req[r]) /\ Relies(req[r])
  BY DEF LInv, IInv, TypeOK, Arrives, At
<1>2. op \in UserOps \union GuestOps \union {"erase"}
  BY DEF Arrives
<1>3. q \in Request
  BY <1>1, <1>2 DEF Request
<1>4. req' = [req EXCEPT ![r] = q]
  BY DEF Arrives, LInv, IInv, TypeOK
<1>5. q.stage = stage /\ q.locks = req[r].locks
  BY <1>1 DEF Request
<1>6. UNCHANGED <<rows, cleaning>>
  BY DEF Arrives
<1>7. q.stage \in {"admitted", "auth"} /\ q.locks = {} /\ q.ok
  BY <1>1, <1>5 DEF Locking, Relies, Request
<1> HIDE DEF q, stage
<1>8. Locking(q)
  BY <1>7 DEF Locking, Owning
<1>9. Relies(q)
  BY <1>7 DEF Relies, Owns, Deletes, Tests, Inserts, Moves, Owning, Closing
<1>10. QED
  BY <1>3, <1>4, <1>6, <1>7, <1>8, <1>9, LocalStep

LEMMA AuthenticatesLocks ==
  ASSUME LInv, IInv', NEW r \in Requests, Authenticates(r)
  PROVE  LInv'
<1> DEFINE q == [req[r] EXCEPT !.stage = "admitted", !.locks = {req[r].by}]
<1>1. /\ req[r] \in Request /\ req[r].stage = "auth" /\ req[r].by \in Principals
      /\ Relies(req[r])
  BY DEF LInv, IInv, TypeOK, Authenticates, At, Formed
<1>2. q \in Request
  BY <1>1 DEF Request
<1>3. req' = [req EXCEPT ![r] = q]
  BY DEF Authenticates, LInv, IInv, TypeOK
<1>4. q.stage = "admitted" /\ q.locks = {req[r].by} /\ q.by = req[r].by /\ q.ok
  BY <1>1 DEF Relies, Request
<1>5. UNCHANGED <<rows, cleaning>>
  BY DEF Authenticates
<1>6. req[r].by \notin Projects
  BY <1>1, AccountsAssumption DEF Principals
<1> HIDE DEF q
<1>7. Locking(q)
  BY <1>4, <1>6 DEF Locking, Owning
<1>8. Relies(q)
  BY <1>4 DEF Relies, Owns, Deletes, Tests, Inserts, Moves, Owning, Closing
<1>9. QED
  BY <1>2, <1>3, <1>4, <1>5, <1>7, <1>8, LocalStep

\* At its admission a request has its principal's lock, unless it is an
\* erasure.
LEMMA Admitted ==
  ASSUME LInv, NEW r \in Requests, At(r, "admitted"), req[r].op # "erase"
  PROVE  /\ req[r] \in Request /\ Formed(req[r])
         /\ req[r].by \in req[r].locks /\ req[r].by \in Principals
         /\ Locking(req[r]) /\ req[r].ok
BY DEF LInv, IInv, TypeOK, Formed, Relies, At

LEMMA CreatesLocks ==
  ASSUME LInv, IInv', NEW r \in Requests, Creates(r)
  PROVE  LInv'
<1>1. /\ At(r, "admitted") /\ req[r].op = "create" /\ LoopIsFree
      /\ UNCHANGED <<rows, cleaning>>
  BY DEF Creates
<1>2. CASE Refuses(r)
  BY <1>1, <1>2, RefusesLocks
<1>3. CASE ~Refuses(r)
  <2> DEFINE unused == {p \in Owned(Nobody) : Free({p}, r)}
  <2>1. /\ Cardinality(Owned(req[r].by)) < Limit(req[r].by)
        /\ \E p \in unused :
             req' = [req EXCEPT ![r].stage = "handled", ![r].p = p, ![r].locks = @ \union {p}]
    BY <1>3 DEF Creates
  <2>2. PICK p \in unused :
          req' = [req EXCEPT ![r].stage = "handled", ![r].p = p, ![r].locks = @ \union {p}]
    BY <2>1
  <2>3. p \in Projects /\ owner[p] = Nobody
    BY DEF Owned
  <2> DEFINE q == [req[r] EXCEPT !.stage = "handled", !.p = p, !.locks = req[r].locks \union {p}]
  <2>4. /\ req[r] \in Request /\ req[r].by \in req[r].locks /\ req[r].by \in Principals
        /\ Locking(req[r]) /\ req[r].ok
    BY <1>1, Admitted
  <2>5. req[r].locks \union {p} \in SUBSET (Principals \union Projects \union {"matches"})
    BY <2>3, <2>4 DEF Request
  <2>6. q \in Request
    BY <2>3, <2>4, <2>5 DEF Request
  <2>7. /\ q.stage = "handled" /\ q.p = p /\ q.locks = req[r].locks \union {p}
        /\ q.op = "create" /\ q.by = req[r].by /\ q.guest = req[r].guest
        /\ q.ok = req[r].ok
    BY <1>1, <2>4 DEF Request
  <2>8. req' = [req EXCEPT ![r] = q]
    BY <2>2 DEF LInv, IInv, TypeOK
  <2> HIDE DEF q
  <2>9. Locking(q)
    BY <2>3, <2>4, <2>7 DEF Locking
  <2>10. Relies(q)
    BY <2>1, <2>3, <2>7 DEF Relies, Owns, Deletes, Tests, Inserts, Moves, Owning, Closing
  <2>11. QED
    BY <1>1, <2>6, <2>7, <2>8, <2>9, <2>10, LocalStep
<1>4. QED
  BY <1>2, <1>3

LEMMA EnqueuesLocks ==
  ASSUME LInv, IInv', NEW r \in Requests, Enqueues(r)
  PROVE  LInv'
<1> DEFINE q == [req[r] EXCEPT !.stage = "handled"]
<1>1. /\ At(r, "admitted") /\ req[r].op = "enqueue" /\ LoopIsFree
      /\ UNCHANGED <<rows, cleaning>>
  BY DEF Enqueues
<1>2. CASE Refuses(r)
  BY <1>1, <1>2, RefusesLocks
<1>3. CASE ~Refuses(r)
  <2>1. Goes(r, "handled") /\ owner[req[r].p] = req[r].by /\ active[req[r].p] = 0
    BY <1>3 DEF Enqueues
  <2>2. req[r] \in Request /\ req[r].by \in req[r].locks /\ req[r].ok
    BY <1>1, Admitted
  <2>3. /\ q.stage = "handled" /\ q.p = req[r].p /\ q.op = "enqueue" /\ q.by = req[r].by
        /\ q.ok
    BY <1>1, <2>2 DEF Request
  <2>4. req[r].p \in Projects
    BY <1>1 DEF LInv, IInv, Formed, At
  <2>5. Relies(q)
    BY <2>1, <2>3, <2>4 DEF Relies, Owns, Deletes, Tests, Inserts, Moves, Owning, Closing
  <2>6. QED
    BY <1>1, <2>1, <2>2, <2>5, GoesLocks
<1>4. QED
  BY <1>2, <1>3

LEMMA RefreshesLocks ==
  ASSUME LInv, IInv', NEW r \in Requests, Refreshes(r)
  PROVE  LInv'
<1> DEFINE q == [req[r] EXCEPT !.stage = "handled"]
<1>1. /\ At(r, "admitted") /\ req[r].op = "refresh" /\ Goes(r, "handled")
      /\ UNCHANGED <<rows, cleaning>>
  BY DEF Refreshes
<1>2. req[r] \in Request /\ req[r].by \in req[r].locks /\ req[r].ok
  BY <1>1, Admitted
<1>3. q.stage = "handled" /\ q.op = "refresh" /\ q.ok
  BY <1>1, <1>2 DEF Request
<1>4. Relies(q)
  BY <1>3 DEF Relies, Owns, Deletes, Tests, Inserts, Moves, Owning, Closing
<1>5. QED
  BY <1>1, <1>2, <1>4, GoesLocks

LEMMA StartsLocks ==
  ASSUME LInv, IInv', NEW r \in Requests, Starts(r)
  PROVE  LInv'
<1> DEFINE q == [req[r] EXCEPT !.stage = "writes"]
<1>1. /\ At(r, "admitted") /\ req[r].op \in {"save", "delete", "claim"}
      /\ UNCHANGED <<rows, cleaning>>
  BY DEF Starts
<1>2. CASE Refuses(r)
  BY <1>1, <1>2, RefusesLocks
<1>3. CASE ~Refuses(r)
  <2>1. Goes(r, "writes") /\ (req[r].op = "claim" \/ owner[req[r].p] = req[r].by)
    BY <1>3 DEF Starts
  <2>2. req[r] \in Request /\ req[r].by \in req[r].locks /\ req[r].ok
    BY <1>1, Admitted
  <2>3. /\ q.stage = "writes" /\ q.p = req[r].p /\ q.op = req[r].op /\ q.by = req[r].by
        /\ q.ok
    BY <2>2 DEF Request
  <2>4. req[r].op # "claim" => req[r].p \in Projects
    BY <1>1 DEF LInv, IInv, Formed, At
  <2>5. Relies(q)
    BY <1>1, <2>1, <2>3, <2>4 DEF Relies, Owns, Deletes, Tests, Inserts, Moves, Owning, Closing
  <2>6. QED
    BY <1>1, <2>1, <2>2, <2>5, GoesLocks
<1>4. QED
  BY <1>2, <1>3

LEMMA WritesLocks ==
  ASSUME LInv, IInv', NEW r \in Requests, Writes(r)
  PROVE  LInv'
<1> DEFINE stage == IF req[r].op = "delete" THEN "prunes" ELSE "handled"
           locks == req[r].locks \union {req[r].p}
           q == [req[r] EXCEPT !.stage = stage, !.locks = locks]
<1>1. /\ req[r] \in Request /\ req[r].stage = "writes" /\ Locking(req[r]) /\ Relies(req[r])
      /\ req[r].op \in {"save", "delete"} /\ req[r].p \in Projects
      /\ UNCHANGED <<rows, cleaning>>
  BY DEF LInv, IInv, TypeOK, Writes, At, Formed
<1>2. locks \in SUBSET (Principals \union Projects \union {"matches"})
  BY <1>1 DEF Request
<1>3. q \in Request
  BY <1>1, <1>2 DEF Request
<1>4. /\ q.stage = stage /\ q.locks = locks /\ q.p = req[r].p /\ q.by = req[r].by
      /\ q.guest = req[r].guest /\ q.op = req[r].op /\ q.ok = req[r].ok
  BY <1>1 DEF Request
<1>5. req' = [req EXCEPT ![r] = q]
  BY DEF Writes, LInv, IInv, TypeOK
<1> HIDE DEF q
<1>6. q.ok => q.by \in req[r].locks /\ owner[q.p] = q.by
  BY <1>1, <1>4 DEF Locking, Relies, Owns, Owning
<1>7. Relies(q)
  BY <1>1, <1>4, <1>6
     DEF Relies, Owns, Deletes, Tests, Inserts, Moves, Owning, Closing
<1>8. req[r].ok
  BY <1>1 DEF Relies
<1>9. Locking(q)
  BY <1>1, <1>4, <1>6, <1>8 DEF Locking, Owning
<1>10. QED
  BY <1>1, <1>3, <1>4, <1>5, <1>7, <1>9, LocalStep

LEMMA ClaimsLocks ==
  ASSUME LInv, IInv', NEW r \in Requests, Claims(r)
  PROVE  LInv'
<1> DEFINE moved == Owned(req[r].guest)
           locks == req[r].locks \union moved
           q == [req[r] EXCEPT !.stage = "drops", !.moved = moved, !.locks = locks]
<1>1. /\ req[r] \in Request /\ req[r].stage = "writes" /\ Locking(req[r]) /\ Relies(req[r])
      /\ req[r].op = "claim" /\ req[r].guest \in Guests
      /\ UNCHANGED <<rows, cleaning>>
  BY DEF LInv, IInv, TypeOK, Claims, At, Formed
<1>2. moved \in SUBSET Projects /\ locks \in SUBSET (Principals \union Projects \union {"matches"})
  BY <1>1 DEF Request, Owned
<1>3. q \in Request
  BY <1>1, <1>2 DEF Request
<1>4. /\ q.stage = "drops" /\ q.locks = locks /\ q.moved = moved /\ q.by = req[r].by
      /\ q.guest = req[r].guest /\ q.op = "claim" /\ q.ok = req[r].ok
  BY <1>1 DEF Request
<1>5. req' = [req EXCEPT ![r] = q]
  BY DEF Claims, LInv, IInv, TypeOK
<1> HIDE DEF q
<1>6. Relies(q)
  BY <1>1, <1>4 DEF Relies, Owns, Deletes, Tests, Inserts, Moves, Owning, Closing
<1>7. req[r].ok => req[r].by \in req[r].locks
  BY <1>1 DEF Locking, Owning
<1>8. \A p \in moved : owner[p] = q.guest
  BY <1>4 DEF Owned
<1>9. req[r].ok
  BY <1>1 DEF Relies
<1>10. Locking(q)
  BY <1>1, <1>4, <1>7, <1>8, <1>9 DEF Locking, Owning
<1>11. QED
  BY <1>1, <1>3, <1>4, <1>5, <1>6, <1>10, LocalStep

LEMMA DropsLocks ==
  ASSUME LInv, IInv', NEW r \in Requests, Drops(r)
  PROVE  LInv'
<1> DEFINE locks == req[r].locks \union ({req[r].guest} \union Owned(req[r].guest))
           q == [req[r] EXCEPT !.stage = "handled", !.locks = locks]
<1>1. /\ req[r] \in Request /\ req[r].stage = "drops" /\ Locking(req[r]) /\ Relies(req[r])
      /\ req[r].op = "claim" /\ req[r].guest \in Guests
      /\ UNCHANGED <<rows, cleaning>>
  BY DEF LInv, IInv, TypeOK, Drops, At, Formed
<1>2. locks \in SUBSET (Principals \union Projects \union {"matches"})
  BY <1>1 DEF Request, Owned, Principals
<1>3. q \in Request
  BY <1>1, <1>2 DEF Request
<1>4. /\ q.stage = "handled" /\ q.locks = locks /\ q.moved = req[r].moved /\ q.by = req[r].by
      /\ q.guest = req[r].guest /\ q.op = "claim" /\ q.ok = req[r].ok
  BY <1>1 DEF Request
<1>5. req' = [req EXCEPT ![r] = q]
  BY DEF Drops, LInv, IInv, TypeOK
<1> HIDE DEF q
<1>6. Relies(q)
  BY <1>1, <1>4 DEF Relies, Owns, Deletes, Tests, Inserts, Moves, Owning, Closing
<1>7. req[r].guest \notin Projects /\ \A p \in Owned(req[r].guest) : owner[p] = req[r].guest
  BY <1>1, AccountsAssumption DEF Owned
<1>8. req[r].ok => req[r].by \in req[r].locks
  BY <1>1 DEF Locking, Owning
<1>9. req[r].ok
  BY <1>1 DEF Relies
<1>10. Locking(q)
  BY <1>1, <1>4, <1>7, <1>8, <1>9 DEF Locking, Owning
<1>11. QED
  BY <1>1, <1>3, <1>4, <1>5, <1>6, <1>10, LocalStep

LEMMA AbortLocks ==
  ASSUME LInv, IInv', NEW r \in Requests, DatabaseAborts(r)
  PROVE  LInv'
<1> DEFINE q == [req[r] EXCEPT !.stage = "aborted", !.ok = FALSE, !.locks = {}, !.moved = {}]
<1>1. req[r] \in Request /\ UNCHANGED <<rows, cleaning>>
  BY DEF LInv, IInv, TypeOK, DatabaseAborts
<1>2. q \in Request
  BY <1>1 DEF Request
<1>3. q.stage = "aborted" /\ q.locks = {} /\ q.ok = FALSE
  BY <1>1 DEF Request
<1>4. req' = [req EXCEPT ![r] = q]
  BY DEF DatabaseAborts, LInv, IInv, TypeOK
<1> HIDE DEF q
<1>5. Locking(q) /\ Relies(q)
  BY <1>3 DEF Locking, Relies, Owning
<1>6. QED
  BY <1>1, <1>2, <1>3, <1>4, <1>5, LocalStep

LEMMA SubmitChecksLocks ==
  ASSUME LInv, IInv', NEW r \in Requests, SubmitChecks(r)
  PROVE  LInv'
<1> DEFINE q == [req[r] EXCEPT !.stage = "promotes"]
<1>1. /\ At(r, "admitted") /\ req[r].op = "submit" /\ LoopIsFree
      /\ UNCHANGED <<rows, cleaning>>
  BY DEF SubmitChecks
<1>2. CASE Refuses(r)
  BY <1>1, <1>2, RefusesLocks
<1>3. CASE ~Refuses(r)
  <2>1. Goes(r, "promotes") /\ owner[req[r].p] = req[r].by
    BY <1>3 DEF SubmitChecks
  <2>2. req[r] \in Request /\ req[r].by \in req[r].locks /\ req[r].ok
    BY <1>1, Admitted
  <2>3. /\ q.stage = "promotes" /\ q.p = req[r].p /\ q.op = "submit" /\ q.by = req[r].by
        /\ q.ok
    BY <1>1, <2>2 DEF Request
  <2>4. req[r].p \in Projects
    BY <1>1 DEF LInv, IInv, Formed, At
  <2>5. Relies(q)
    BY <2>1, <2>3, <2>4 DEF Relies, Owns, Deletes, Tests, Inserts, Moves, Owning, Closing
  <2>6. QED
    BY <1>1, <2>1, <2>2, <2>5, GoesLocks
<1>4. QED
  BY <1>2, <1>3

LEMMA PromotesLocks ==
  ASSUME LInv, IInv', NEW r \in Requests, NEW ready \in BOOLEAN, Promotes(r, ready)
  PROVE  LInv'
<1> DEFINE locks == req[r].locks \union {req[r].p}
           q == [req[r] EXCEPT !.stage = "hour", !.locks = locks]
<1>1. /\ req[r] \in Request /\ req[r].stage = "promotes" /\ Locking(req[r]) /\ Relies(req[r])
      /\ req[r].op = "submit" /\ req[r].p \in Projects /\ req[r].by \in req[r].locks
      /\ UNCHANGED <<rows, cleaning>>
  BY DEF LInv, IInv, TypeOK, Promotes, At, Formed
<1>2. CASE ~ready
  BY <1>1, <1>2, RefusesLocks DEF Promotes
<1>3. CASE ready
  <2>1. locks \in SUBSET (Principals \union Projects \union {"matches"})
    BY <1>1 DEF Request
  <2>2. q \in Request
    BY <1>1, <2>1 DEF Request
  <2>3. /\ q.stage = "hour" /\ q.locks = locks /\ q.p = req[r].p /\ q.by = req[r].by
        /\ q.guest = req[r].guest /\ q.op = "submit" /\ q.ok = req[r].ok
    BY <1>1 DEF Request
  <2>4. req' = [req EXCEPT ![r] = q]
    BY <1>3 DEF Promotes, LInv, IInv, TypeOK
  <2> HIDE DEF q
  <2>5. Relies(q)
    BY <1>1, <2>3 DEF Relies, Owns, Deletes, Tests, Inserts, Moves, Owning, Closing
  <2>6. req[r].ok => owner[q.p] = q.by
    BY <1>1, <2>3 DEF Relies, Owns, Owning
  <2>7. req[r].ok
    BY <1>1 DEF Relies
  <2>8. Locking(q)
    BY <1>1, <2>3, <2>6, <2>7 DEF Locking, Owning
  <2>9. QED
    BY <1>1, <2>2, <2>3, <2>4, <2>5, <2>8, LocalStep
<1>4. QED
  BY <1>2, <1>3

LEMMA ChargesLocks ==
  ASSUME LInv, IInv', NEW r \in Requests, ChargesHour(r) \/ ChargesDay(r)
  PROVE  LInv'
<1>1. /\ req[r] \in Request /\ req[r].stage \in {"hour", "day"} /\ Relies(req[r])
      /\ req[r].op = "submit" /\ req[r].by \in req[r].locks
      /\ UNCHANGED <<rows, cleaning>> /\ LoopIsFree
  BY DEF LInv, IInv, TypeOK, ChargesHour, ChargesDay, At, Formed
<1>2. CASE Refuses(r)
  BY <1>1, <1>2, RefusesLocks
<1>3. ASSUME NEW stage \in {"day", "prunes"}, Goes(r, stage)
      PROVE  LInv'
  <2> DEFINE q == [req[r] EXCEPT !.stage = stage]
  <2>1. /\ q.stage = stage /\ q.p = req[r].p /\ q.op = "submit" /\ q.by = req[r].by
        /\ q.ok = req[r].ok
    BY <1>1 DEF Request
  <2>2. Relies(q)
    BY <1>1, <2>1 DEF Relies, Owns, Deletes, Tests, Inserts, Moves, Owning, Closing
  <2>3. QED
    BY <1>1, <1>3, <2>2, GoesLocks
<1>4. QED
  BY <1>2, <1>3 DEF ChargesHour, ChargesDay

LEMMA PrunesLocks ==
  ASSUME LInv, IInv', NEW r \in Requests, Prunes(r)
  PROVE  LInv'
<1> DEFINE locks == IF litter THEN req[r].locks \union {"matches"} ELSE req[r].locks
           q == [req[r] EXCEPT !.stage = "handled", !.locks = locks]
<1>1. /\ req[r] \in Request /\ req[r].stage = "prunes" /\ Locking(req[r]) /\ Relies(req[r])
      /\ UNCHANGED <<rows, cleaning>>
  BY DEF LInv, IInv, TypeOK, Prunes, At
<1>2. locks \in SUBSET (Principals \union Projects \union {"matches"})
  BY <1>1 DEF Request
<1>3. q \in Request
  BY <1>1, <1>2 DEF Request
<1>4. /\ q.stage = "handled" /\ q.locks = locks /\ q.p = req[r].p /\ q.by = req[r].by
      /\ q.guest = req[r].guest /\ q.op = req[r].op /\ q.ok = req[r].ok
  BY <1>1 DEF Request
<1>5. req' = [req EXCEPT ![r] = q]
  BY <1>1 DEF Prunes, LInv, IInv, TypeOK
<1> HIDE DEF q
<1>6. req[r].op \in {"delete", "submit"} /\ req[r].ok \in BOOLEAN
  BY <1>1 DEF Relies, Request
<1>7. Relies(q)
  BY <1>1, <1>4, <1>6 DEF Relies, Owns, Deletes, Tests, Inserts, Moves, Owning, Closing
<1>8. req[r].by \in req[r].locks
  BY <1>1, <1>6 DEF Locking, Relies, Owning
<1>9. /\ locks \intersect Projects = req[r].locks \intersect Projects
      /\ req[r].locks \subseteq locks
  BY LocksAssumption
<1> HIDE DEF locks
<1>10. Locking(q)
  BY <1>1, <1>4, <1>8, <1>9 DEF Locking, Owning
<1>11. QED
  BY <1>1, <1>3, <1>4, <1>5, <1>7, <1>10, LocalStep

LEMMA LeavesLocks ==
  ASSUME LInv, IInv', NEW r \in Requests, Leaves(r)
  PROVE  LInv'
<1> DEFINE q == [req[r] EXCEPT !.stage = "leaving"]
<1>1. /\ req[r] \in Request /\ req[r].stage \in {"handled", "aborted"} /\ Relies(req[r])
      /\ Locking(req[r]) /\ UNCHANGED <<rows, cleaning>> /\ Goes(r, "leaving")
  BY DEF LInv, IInv, TypeOK, Leaves, At
<1>2. /\ q.stage = "leaving" /\ q.p = req[r].p /\ q.op = req[r].op /\ q.by = req[r].by
      /\ q.ok = req[r].ok /\ q.locks = req[r].locks /\ q.guest = req[r].guest
      /\ q.moved = req[r].moved
  BY <1>1 DEF Request
<1>3. Relies(q)
  <2>1. CASE req[r].stage = "aborted"
    BY <1>1, <1>2, <2>1 DEF Relies
  <2>2. CASE req[r].stage = "handled"
    BY <1>1, <1>2, <2>2 DEF Relies, Owns, Deletes, Tests, Inserts, Moves, Owning, Closing
  <2>3. QED
    BY <1>1, <2>1, <2>2
<1>4. req[r].ok /\ req[r].op # "erase" => req[r].by \in req[r].locks
  BY <1>1 DEF Locking, Relies, Owning
<1>5. QED
  BY <1>1, <1>3, <1>4, GoesLocks

LEMMA EraseStartsLocks ==
  ASSUME LInv, IInv', NEW r \in Requests, EraseStarts(r)
  PROVE  LInv'
<1> DEFINE q == [req[r] EXCEPT !.stage = "erases"]
<1>1. /\ req[r] \in Request /\ UNCHANGED <<rows, cleaning>> /\ Goes(r, "erases") /\ LoopIsFree
      /\ req[r].stage = "admitted" /\ Relies(req[r])
  BY DEF LInv, IInv, TypeOK, EraseStarts, At
<1>2. q.stage = "erases" /\ q.ok
  BY <1>1 DEF Request, Relies
<1>3. Relies(q)
  BY <1>2 DEF Relies, Owns, Deletes, Tests, Inserts, Moves, Owning, Closing
<1>4. QED
  BY <1>1, <1>3, GoesLocks

LEMMA ChargeFailsLocks ==
  ASSUME LInv, IInv', NEW r \in Requests, ChargeFails(r)
  PROVE  LInv'
BY RefusesLocks DEF ChargeFails

------------------------------------------------------------------------------
(* The ends of requests.                                                   *)

LEMMA NothingLocked == NoRequest \in Request /\ Locking(NoRequest) /\ Relies(NoRequest)
BY DEF NoRequest, Request, UserOps, Locking, Relies, Owns, Deletes, Tests, Inserts, Moves,
       Owning, Closing

LEMMA RollsBackLocks ==
  ASSUME LInv, IInv', NEW r \in Requests, RollsBack(r)
  PROVE  LInv'
<1>1. req' = [req EXCEPT ![r] = NoRequest] /\ UNCHANGED <<rows, cleaning>>
  BY DEF RollsBack, Ends
<1>2. NoRequest.stage = "none"
  BY DEF NoRequest
<1>3. QED
  BY <1>1, <1>2, NothingLocked, LocalStep

\* A commit changes what its transaction has locked.
LEMMA CommitChanges ==
  ASSUME LInv, NEW r \in Requests, Commits(r)
  PROVE  /\ \A p \in Projects : owner'[p] # owner[p] =>
              /\ p \in req[r].locks
              /\ owner[p] = Nobody \/ owner[p] \in req[r].locks
              /\ owner'[p] = Nobody \/ owner'[p] \in req[r].locks
         /\ \A p \in Projects : active[p] = 0 /\ active'[p] # 0 => owner[p] \in req[r].locks
         /\ OneActiveTest'
         /\ images' \subseteq images /\ \A p \in images' : owner'[p] # Nobody
<1> DEFINE q == req[r]
<1>1. /\ q \in Request /\ q.stage = "leaving" /\ q.ok /\ Locking(q) /\ Relies(q) /\ Formed(q)
      /\ owner \in [Projects -> Principals \union {Nobody}]
      /\ active \in [Projects -> Nat] /\ images \subseteq Projects
      /\ \A p \in images : owner[p] # Nobody
      /\ OneActiveTest
  BY DEF LInv, IInv, TypeOK, Commits, At, Collected
<1>2. q.by \in Principals /\ q.by # Nobody
  BY <1>1, AccountsAssumption DEF Formed, Principals
<1>3. CASE q.op = "create"
  <2>1. /\ owner' = [owner EXCEPT ![q.p] = q.by] /\ UNCHANGED <<active, images>>
    BY <1>3 DEF Commits
  <2>2. /\ q.p \in Projects /\ q.p \in q.locks /\ owner[q.p] = Nobody /\ q.by \in q.locks
    BY <1>1, <1>3 DEF Relies, Inserts, Locking, Owning, Closing
  <2>3. QED
    BY <1>1, <1>2, <2>1, <2>2 DEF OneActiveTest
<1>4. CASE q.op = "enqueue"
  <2>1. /\ active' = [active EXCEPT ![q.p] = active[q.p] + 1] /\ UNCHANGED <<owner, images>>
    BY <1>4 DEF Commits
  <2>2. /\ q.p \in Projects /\ owner[q.p] = q.by /\ active[q.p] = 0 /\ q.by \in q.locks
    BY <1>1, <1>4 DEF Relies, Owns, Tests, Locking, Owning, Closing
  <2>3. QED
    BY <1>1, <1>2, <2>1, <2>2 DEF OneActiveTest
<1>5. CASE q.op = "delete"
  <2>1. Only(Projects \ {q.p})
    BY <1>5 DEF Commits
  <2>2. /\ q.p \in Projects /\ owner[q.p] = q.by /\ q.p \in q.locks /\ q.by \in q.locks
    BY <1>1, <1>5 DEF Relies, Owns, Deletes, Locking, Owning, Closing
  <2>3. QED
    BY <1>1, <1>2, <2>1, <2>2 DEF OneActiveTest, Only
<1>6. CASE q.op = "claim"
  <2>1. Claimed(q.guest, q.by, q.moved)
    BY <1>6 DEF Commits
  <2>2. /\ q.guest \in Guests /\ q.moved \subseteq Owned(q.guest)
        /\ q.guest \in q.locks /\ Owned(q.guest) \subseteq q.locks /\ q.by \in q.locks
    BY <1>1, <1>6 DEF Relies, Moves, Locking, Owning, Closing
  <2>3. QED
    BY <1>1, <1>2, <2>1, <2>2 DEF OneActiveTest, Claimed, Owned
<1>7. CASE q.op \in {"save", "refresh", "submit"}
  <2>1. UNCHANGED <<owner, active, images>>
    BY <1>7 DEF Commits
  <2>2. QED
    BY <1>1, <2>1 DEF OneActiveTest
<1>8. QED
  BY <1>3, <1>4, <1>5, <1>6, <1>7 DEF Commits

\* What a commit does to sessions: its principal's is there again, a claimed
\* one is gone, no other is touched.
LEMMA CommitSessions ==
  ASSUME LInv, NEW r \in Requests, Commits(r), NEW g \in Guests \ {req[r].by}
  PROVE  session'[g] = session[g] \/ (req[r].op = "claim" /\ g = req[r].guest)
<1>1. CASE req[r].op = "claim"
  <2>1. Claimed(req[r].guest, req[r].by, req[r].moved)
    BY <1>1 DEF Commits
  <2>2. QED
    BY <1>1, <2>1 DEF Claimed, LInv, IInv, TypeOK
<1>2. CASE req[r].op # "claim"
  <2>1. session' = Counted(r)
    BY <1>2 DEF Commits
  <2>2. Refreshed(req[r].by)[g] = session[g]
    BY DEF Refreshed
  <2>3. QED
    BY <2>1, <2>2 DEF Counted
<1>3. QED
  BY <1>1, <1>2

LEMMA CommitCollected ==
  ASSUME LInv, NEW r \in Requests, Commits(r)
  PROVE  Collected'
<1>1. \A p \in images' : p \in images /\ owner'[p] # Nobody
  BY CommitChanges
<1>2. SUFFICES ASSUME cleaning'.stage # "idle",
                      NEW p \in (images' \intersect cleaning'.tags) \ cleaning'.revived
               PROVE  cleaning'.stage = "deletes" /\ owner'[p] \in Expired'
  BY <1>1 DEF Collected
<1>3. /\ cleaning'.stage = cleaning.stage /\ cleaning'.tags = cleaning.tags
      /\ cleaning'.revived = cleaning.revived \union
           (cleaning.tags \intersect (req[r].moved \union Owned(req[r].by)))
  BY DEF Commits, Revives, LInv, IInv, TypeOK
<1>4. /\ p \in images /\ p \in cleaning.tags /\ p \notin cleaning.revived
      /\ p \notin req[r].moved /\ p \notin Owned(req[r].by) /\ p \in Projects
  BY <1>1, <1>2, <1>3 DEF LInv, IInv, TypeOK
<1>5. cleaning.stage = "deletes" /\ owner[p] \in Expired
  BY <1>2, <1>3, <1>4 DEF LInv, Collected
<1>6. owner[p] \in Guests \ {req[r].by}
  BY <1>4, <1>5 DEF Expired, Owned
<1>7. owner[p] # Nobody
  BY <1>6, AccountsAssumption
<1>8. ~(req[r].op = "claim" /\ owner[p] = req[r].guest)
  <2>1. SUFFICES ASSUME req[r].op = "claim", owner[p] = req[r].guest PROVE FALSE
    OBVIOUS
  <2>2. Claimed(req[r].guest, req[r].by, req[r].moved)
    BY <2>1 DEF Commits
  <2>3. p \in Owned(req[r].guest) \ req[r].moved
    BY <1>4, <2>1 DEF Owned
  <2>4. QED
    BY <1>1, <1>2, <2>2, <2>3 DEF Claimed
<1>9. session'[owner[p]] = session[owner[p]]
  BY <1>6, <1>8, CommitSessions
<1>10. owner'[p] = owner[p]
  <2>1. SUFFICES ASSUME owner'[p] # owner[p] PROVE FALSE
    OBVIOUS
  <2>2. CASE req[r].op = "create"
    <3>1. owner' = [owner EXCEPT ![req[r].p] = req[r].by]
      BY <2>2 DEF Commits
    <3>2. owner[req[r].p] = Nobody
      BY <2>2 DEF LInv, Relies, Inserts, Closing, Commits, At
    <3>3. QED
      BY <1>4, <1>7, <2>1, <3>1, <3>2 DEF LInv, IInv, TypeOK
  <2>3. CASE req[r].op = "delete"
    <3>1. Only(Projects \ {req[r].p})
      BY <2>3 DEF Commits
    <3>2. QED
      BY <1>1, <1>2, <1>4, <2>1, <3>1 DEF Only
  <2>4. CASE req[r].op = "claim"
    <3>1. Claimed(req[r].guest, req[r].by, req[r].moved)
      BY <2>4 DEF Commits
    <3>2. QED
      BY <1>4, <1>8, <2>1, <2>4, <3>1 DEF Claimed, Owned
  <2>5. QED
    BY <2>1, <2>2, <2>3, <2>4 DEF Commits
<1>11. QED
  BY <1>3, <1>5, <1>9, <1>10 DEF Expired

LEMMA CommitsLocks ==
  ASSUME LInv, IInv', NEW r \in Requests, Commits(r)
  PROVE  LInv'
<1>1. /\ req'[r] = NoRequest
      /\ \A s \in Requests \ {r} : req'[s] = req[s]
  BY DEF LInv, IInv, TypeOK, Commits, Ends
<1>2. (Locking(req[r]) /\ Relies(req[r]))'
  BY <1>1
     DEF NoRequest, Locking, Relies, Owns, Deletes, Tests, Inserts, Moves, Owning, Closing
<1>3. ASSUME NEW s \in Requests \ {r} PROVE (Locking(req[s]) /\ Relies(req[s]))'
  <2>1. req[r].locks \intersect req[s].locks = {}
    BY DEF LInv, IInv, Exclusive
  <2>2. Nobody \notin Principals
    BY AccountsAssumption DEF Principals
  <2>3. \A p \in Projects : p \in req[s].locks \/ owner[p] \in Principals \intersect req[s].locks
                              => owner'[p] = owner[p]
    BY <2>1, <2>2, CommitChanges
  <2>4. \A p \in Projects : owner'[p] \in Principals \intersect req[s].locks
                              => owner'[p] = owner[p]
    BY <2>1, <2>2, CommitChanges
  <2>5. \A p \in Projects : active[p] = 0 /\ owner[p] \in Principals \intersect req[s].locks
                              => active'[p] = 0
    BY <2>1, CommitChanges
  <2>6. QED
    BY <1>1, <2>3, <2>4, <2>5, StillRelies
<1>4. OneInLoop'
  <2>1. ~InLoop(r)'
    BY <1>1 DEF InLoop, NoRequest
  <2>2. cleaning'.stage = cleaning.stage
    BY DEF Commits, Revives, LInv, IInv, TypeOK
  <2>3. QED
    BY <1>1, <2>1, <2>2, LoopKeeps
<1>5. OneActiveTest' /\ Collected'
  BY CommitChanges, CommitCollected
<1>6. QED
  BY <1>2, <1>3, <1>4, <1>5 DEF LInv

LEMMA ErasesLocks ==
  ASSUME LInv, IInv', NEW r \in Requests, Erases(r)
  PROVE  LInv'
<1> DEFINE u == req[r].by
<1>1. /\ req'[r] = NoRequest
      /\ \A s \in Requests \ {r} : req'[s] = req[s]
      /\ UNCHANGED cleaning
      /\ Only({p \in Projects : owner[p] # u}) /\ Free({u} \union Owned(u), r)
  BY DEF LInv, IInv, TypeOK, Erases, Erased, Ends
<1>2. (Locking(req[r]) /\ Relies(req[r]))'
  BY <1>1
     DEF NoRequest, Locking, Relies, Owns, Deletes, Tests, Inserts, Moves, Owning, Closing
<1>3. ASSUME NEW s \in Requests \ {r} PROVE (Locking(req[s]) /\ Relies(req[s]))'
  <2>1. u \notin req[s].locks /\ \A p \in Owned(u) : p \notin req[s].locks
    BY <1>1 DEF Free
  <2>2. Nobody \notin Principals
    BY AccountsAssumption DEF Principals
  <2>3. \A p \in Projects : /\ owner[p] # u => owner'[p] = owner[p]
                            /\ owner[p] = u => owner'[p] = Nobody
                            /\ active'[p] \in {active[p], 0}
    BY <1>1 DEF Only
  <2>4. \A p \in Projects : p \in req[s].locks \/ owner[p] \in Principals \intersect req[s].locks
                              => owner'[p] = owner[p]
    BY <2>1, <2>3 DEF Owned
  <2>5. \A p \in Projects : owner'[p] \in Principals \intersect req[s].locks
                              => owner'[p] = owner[p]
    BY <2>2, <2>3
  <2>6. \A p \in Projects : active[p] = 0 /\ owner[p] \in Principals \intersect req[s].locks
                              => active'[p] = 0
    BY <2>3
  <2>7. QED
    BY <1>1, <2>4, <2>5, <2>6, StillRelies
<1>4. InLoop(r) /\ ~InLoop(r)'
  BY <1>1 DEF InLoop, NoRequest, Erases, At
<1>5. OneInLoop' /\ cleaning'.stage = "idle"
  BY <1>1, <1>4, LoopKeeps DEF LInv, OneInLoop
<1>6. OneActiveTest'
  BY <1>1 DEF Only, LInv, OneActiveTest
<1>7. \A p \in images' : owner'[p] # Nobody
  BY <1>1 DEF Only, LInv, IInv, TypeOK, Collected
<1>8. Collected'
  BY <1>5, <1>7 DEF Collected
<1>9. QED
  BY <1>2, <1>3, <1>5, <1>6, <1>8 DEF LInv

------------------------------------------------------------------------------
(* What else runs in the loop, time, and the other processes.              *)

\* A step of none of the requests that takes projects from no one but those
\* whose rows are free.
LEMMA RequestsStay ==
  ASSUME LInv, UNCHANGED req,
         \A p \in Projects :
           /\ owner'[p] = owner[p] \/ (owner'[p] = Nobody /\
                \A s \in Requests : p \notin req[s].locks /\ owner[p] \notin req[s].locks)
           /\ active[p] = 0 => active'[p] = 0
  PROVE  \A s \in Requests : (Locking(req[s]) /\ Relies(req[s]))'
<1>1. Nobody \notin Principals
  BY AccountsAssumption DEF Principals
<1>2. SUFFICES ASSUME NEW s \in Requests PROVE (Locking(req[s]) /\ Relies(req[s]))'
  OBVIOUS
<1>3. QED
  BY <1>1, StillRelies

LEMMA CleanupLocks ==
  ASSUME LInv, IInv', CleanupCollects \/ CleanupDeletes \/ CleanupRemoves
  PROVE  LInv'
<1>1. CASE CleanupCollects
  <2>1. UNCHANGED <<req, session, owner, active, images>> /\ LoopIsFree
    BY <1>1 DEF CleanupCollects, rows
  <2>2. cleaning' = [stage |-> "deletes", tags |-> ExpiredImages, revived |-> {}]
    BY <1>1 DEF CleanupCollects
  <2>3. \A s \in Requests : (Locking(req[s]) /\ Relies(req[s]))'
    BY <2>1, RequestsStay
  <2>4. OneInLoop'
    BY <2>1 DEF OneInLoop, LoopIsFree, InLoop
  <2>5. Collected'
    BY <2>1, <2>2 DEF LInv, Collected, ExpiredImages, Expired
  <2>6. OneActiveTest'
    BY <2>1 DEF LInv, OneActiveTest
  <2>7. QED
    BY <2>3, <2>4, <2>5, <2>6 DEF LInv
<1>2. CASE CleanupDeletes
  <2>1. /\ UNCHANGED req /\ cleaning.stage = "deletes"
        /\ Only({p \in Projects : owner[p] \notin Expired})
        /\ cleaning'.tags = cleaning.tags /\ cleaning'.revived = cleaning.revived
    BY <1>2 DEF CleanupDeletes, ExpiredDeleted, LInv, IInv, TypeOK
  <2>2. \A s \in Requests : req[s].locks \intersect ExpiredRows = {}
    BY <1>2 DEF CleanupDeletes
  <2>3. \A p \in Projects :
          /\ owner[p] \notin Expired => owner'[p] = owner[p]
          /\ owner[p] \in Expired => owner'[p] = Nobody
          /\ active'[p] \in {active[p], 0}
    BY <2>1 DEF Only
  <2>4. \A p \in Projects : owner[p] \in Expired =>
          p \in ExpiredRows /\ owner[p] \in ExpiredRows
    BY DEF ExpiredRows
  <2>5. \A s \in Requests : (Locking(req[s]) /\ Relies(req[s]))'
    BY <2>1, <2>2, <2>3, <2>4, RequestsStay
  <2>6. OneInLoop'
    BY <2>1 DEF LInv, OneInLoop, InLoop
  <2>7. \A p \in images' : p \in images /\ p \in Projects /\ owner[p] \notin Expired
    BY <2>1 DEF Only, LInv, IInv, TypeOK
  <2>8. Collected'
    BY <2>1, <2>3, <2>7 DEF LInv, Collected
  <2>9. OneActiveTest'
    BY <2>3 DEF LInv, OneActiveTest
  <2>10. QED
    BY <2>5, <2>6, <2>8, <2>9 DEF LInv
<1>3. CASE CleanupRemoves
  <2>1. UNCHANGED <<req, session, owner, active>> /\ images' \subseteq images
    BY <1>3 DEF CleanupRemoves
  <2>2. cleaning'.stage = "idle" /\ cleaning.stage = "removes"
    BY <1>3 DEF CleanupRemoves
  <2>3. \A s \in Requests : (Locking(req[s]) /\ Relies(req[s]))'
    BY <2>1, RequestsStay
  <2>4. OneInLoop'
    BY <2>1, <2>2 DEF LInv, OneInLoop, InLoop
  <2>5. Collected'
    BY <2>1, <2>2 DEF LInv, Collected
  <2>6. OneActiveTest'
    BY <2>1 DEF LInv, OneActiveTest
  <2>7. QED
    BY <2>3, <2>4, <2>5, <2>6 DEF LInv
<1>4. QED
  BY <1>1, <1>2, <1>3

LEMMA OthersLocks ==
  ASSUME LInv, IInv',
         \/ \E g \in Guests : SessionAges(g)
         \/ \E p \in Projects : TestEnds(p)
         \/ LateResult \/ TimePasses \/ UNCHANGED vars
  PROVE  LInv'
<1>1. UNCHANGED <<req, owner, images, cleaning>>
  BY DEF SessionAges, TestEnds, LateResult, TimePasses, vars, rows
<1>2. /\ \A p \in Projects : active[p] = 0 => active'[p] = 0
      /\ OneActiveTest'
  <2>1. ASSUME NEW p \in Projects, TestEnds(p)
        PROVE  \A x \in Projects : active'[x] <= active[x] /\ (active[x] = 0 => active'[x] = 0)
    BY <2>1 DEF TestEnds, LInv, IInv, TypeOK
  <2>2. CASE UNCHANGED active
    BY <2>2 DEF LInv, OneActiveTest
  <2>3. ASSUME NEW p \in Projects, TestEnds(p) PROVE OneActiveTest'
    BY <2>1, <2>3 DEF LInv, IInv, TypeOK, OneActiveTest
  <2>4. QED
    BY <2>1, <2>2, <2>3 DEF SessionAges, LateResult, TimePasses, vars, rows
<1>3. \A s \in Requests : (Locking(req[s]) /\ Relies(req[s]))'
  BY <1>1, <1>2, RequestsStay
<1>4. OneInLoop'
  BY <1>1 DEF LInv, OneInLoop, InLoop
<1>5. Expired \subseteq Expired'
  <2>1. ASSUME NEW g \in Guests, SessionAges(g) PROVE Expired \subseteq Expired'
    BY <2>1 DEF SessionAges, Expired, LInv, IInv, TypeOK, Session
  <2>2. CASE UNCHANGED session
    BY <2>2 DEF Expired
  <2>3. QED
    BY <2>1, <2>2 DEF TestEnds, LateResult, TimePasses, vars, rows
<1>6. Collected'
  BY <1>1, <1>5 DEF LInv, Collected
<1>7. QED
  BY <1>2, <1>3, <1>4, <1>6 DEF LInv

------------------------------------------------------------------------------
(* The theorems.                                                           *)

LEMMA InitLocks == Init => LInv
<1> SUFFICES ASSUME Init PROVE LInv
  OBVIOUS
<1>1. IInv
  BY InitImplies
<1>2. \A r \in Requests : req[r] = NoRequest
  BY DEF Init
<1>3. \A r \in Requests : Locking(req[r]) /\ Relies(req[r])
  BY <1>2, NothingLocked
<1>4. OneInLoop
  BY <1>2 DEF Init, OneInLoop, InLoop, NoRequest
<1>5. OneActiveTest /\ Collected
  BY DEF Init, OneActiveTest, Collected
<1>6. QED
  BY <1>1, <1>3, <1>4, <1>5 DEF LInv

LEMMA NextLocks == LInv /\ [Next]_vars => LInv'
<1> SUFFICES ASSUME LInv, [Next]_vars PROVE LInv'
  OBVIOUS
<1>1. IInv'
  BY NextKeeps DEF LInv
<1>2. ASSUME NEW r \in Requests, NEW op, NEW by \in Principals,
             NEW g \in Guests \union {Nobody}, NEW p \in Projects \union {Nobody},
             Arrives(r, op, by, g, p)
      PROVE  LInv'
  BY <1>1, <1>2, ArrivesLocks
<1>3. ASSUME NEW r \in Requests, Handles(r) PROVE LInv'
  BY <1>1, <1>3, CreatesLocks, EnqueuesLocks, RefreshesLocks, StartsLocks, WritesLocks,
     ClaimsLocks, DropsLocks, SubmitChecksLocks, PromotesLocks, ChargesLocks, PrunesLocks,
     EraseStartsLocks, ErasesLocks
     DEF Handles
<1>4. ASSUME NEW r \in Requests, Proceeds(r) \/ Promotes(r, FALSE) \/ ChargeFails(r)
      PROVE  LInv'
  BY <1>1, <1>3, <1>4, AuthenticatesLocks, AbortLocks, LeavesLocks, CommitsLocks,
     RollsBackLocks, PromotesLocks, ChargeFailsLocks
     DEF Proceeds
<1>5. CASE CleanupCollects \/ Cleanup
  BY <1>1, <1>5, CleanupLocks DEF Cleanup
<1>6. CASE \/ (\E g \in Guests : SessionAges(g)) \/ (\E p \in Projects : TestEnds(p))
           \/ LateResult \/ TimePasses \/ UNCHANGED vars
  BY <1>1, <1>6, OthersLocks
<1>7. QED
  BY <1>2, <1>4, <1>5, <1>6 DEF Next

\* What a request has read of projects under its principal's lock is still so
\* when it commits.
THEOREM ReadsHold == Spec => []LInv
BY InitLocks, NextLocks, PTL DEF Spec

\* No project has two active tests, whoever asks at once for them.
THEOREM OneTestAtATime == Spec => []OneActiveTest
<1>1. LInv => OneActiveTest
  BY DEF LInv
<1>2. QED
  BY <1>1, ReadsHold, PTL

\* Who else has the project's row would have the submitter's too.
LEMMA SubmitsAlone == LInv => SubmitNeverStalls
<1> SUFFICES ASSUME LInv, Stalled, NEW r \in Requests, At(r, "promotes") PROVE FALSE
  BY DEF SubmitNeverStalls
<1>1. PICK s \in Requests : ~InLoop(s) /\ req[s].locks \intersect LoopWants # {}
  BY DEF Stalled
<1>2. InLoop(r) /\ r # s
  BY <1>1 DEF InLoop, At
<1>3. LoopWants = {req[r].p}
  BY <1>2 DEF LInv, OneInLoop, LoopWants, Wants, At
<1>4. /\ req[r].p \in Projects /\ req[r].by \in Users /\ req[r].by \in req[r].locks
      /\ Formed(req[r]) /\ Relies(req[r]) /\ req[r] \in Request
  BY DEF LInv, IInv, TypeOK, Formed, At
<1>5. owner[req[r].p] = req[r].by
  BY <1>4 DEF Relies, Owns, Owning, At, LInv, IInv, Formed
<1>6. req[r].p \in req[s].locks
  BY <1>1, <1>3
<1>7. /\ owner[req[r].p] \in {req[s].by, req[s].guest, Nobody}
      /\ req[s].by \in req[s].locks
      /\ req[s].guest \in Guests \union {Nobody}
  BY <1>4, <1>6 DEF LInv, IInv, TypeOK, Request, Locking
<1>8. req[s].by = req[r].by
  BY <1>4, <1>5, <1>7, AccountsAssumption
<1>9. QED
  BY <1>2, <1>4, <1>7, <1>8 DEF LInv, IInv, Exclusive

\* A submission's promotion in the loop never waits for a transaction that
\* waits for the loop.
THEOREM SubmitsDoNotStall == Spec => []SubmitNeverStalls
BY SubmitsAlone, ReadsHold, PTL

\* The owner of a project changes in a commit, an erasure or the deletion of
\* expired sessions, and by nothing else.
LEMMA OwnersChange ==
  ASSUME LInv, Next, owner' # owner
  PROVE  \/ \E r \in Requests : Commits(r) \/ Erases(r)
         \/ CleanupDeletes
<1>1. ASSUME NEW r \in Requests, NEW op, NEW by, NEW g, NEW p, Arrives(r, op, by, g, p)
      PROVE  FALSE
  BY <1>1 DEF Arrives, rows
<1>2. ASSUME NEW r \in Requests, Handles(r), ~Erases(r) PROVE FALSE
  BY <1>2 DEF Handles, Creates, Enqueues, Refreshes, Starts, Writes, Claims, Drops,
              SubmitChecks, Promotes, ChargesHour, ChargesDay, Prunes, EraseStarts, rows
<1>3. ASSUME NEW r \in Requests, Proceeds(r) \/ Promotes(r, FALSE) \/ ChargeFails(r)
      PROVE  Commits(r) \/ Erases(r)
  BY <1>2, <1>3 DEF Proceeds, Authenticates, DatabaseAborts, Leaves, RollsBack, Promotes,
                    ChargeFails, rows
<1>4. CASE CleanupCollects \/ Cleanup
  BY <1>4 DEF CleanupCollects, Cleanup, CleanupRemoves, rows
<1>5. CASE (\E g \in Guests : SessionAges(g)) \/ (\E p \in Projects : TestEnds(p)) \/ LateResult
           \/ TimePasses
  BY <1>5 DEF SessionAges, TestEnds, LateResult, TimePasses, rows
<1>6. QED
  BY <1>1, <1>3, <1>4, <1>5 DEF Next

\* So does what docker has, which the cleanup removes besides.
LEMMA ImagesChange ==
  ASSUME LInv, Next, images' # images
  PROVE  \/ \E r \in Requests : Commits(r) \/ Erases(r)
         \/ CleanupDeletes \/ CleanupRemoves
<1>1. ASSUME NEW r \in Requests, NEW op, NEW by, NEW g, NEW p, Arrives(r, op, by, g, p)
      PROVE  FALSE
  BY <1>1 DEF Arrives, rows
<1>2. ASSUME NEW r \in Requests, Handles(r), ~Erases(r) PROVE FALSE
  BY <1>2 DEF Handles, Creates, Enqueues, Refreshes, Starts, Writes, Claims, Drops,
              SubmitChecks, Promotes, ChargesHour, ChargesDay, Prunes, EraseStarts, rows
<1>3. ASSUME NEW r \in Requests, Proceeds(r) \/ Promotes(r, FALSE) \/ ChargeFails(r)
      PROVE  Commits(r) \/ Erases(r)
  BY <1>2, <1>3 DEF Proceeds, Authenticates, DatabaseAborts, Leaves, RollsBack, Promotes,
                    ChargeFails, rows
<1>4. CASE CleanupCollects \/ Cleanup
  BY <1>4 DEF CleanupCollects, Cleanup, rows
<1>5. CASE (\E g \in Guests : SessionAges(g)) \/ (\E p \in Projects : TestEnds(p)) \/ LateResult
           \/ TimePasses
  BY <1>5 DEF SessionAges, TestEnds, LateResult, TimePasses, rows
<1>6. QED
  BY <1>1, <1>3, <1>4, <1>5 DEF Next

\* The insert that follows a count below the limit stays within it: the
\* principal's lock keeps other creations and claims of the same principal
\* away from the count until the commit.
THEOREM LimitsHold == Spec => CreationsKeepTheLimit
<1>1. ASSUME LInv, [Next]_vars, NEW p \in Projects, owner[p] = Nobody, owner'[p] # Nobody
      PROVE  Cardinality({q \in Projects : owner'[q] = owner'[p]}) <= Limit(owner'[p])
  <2>1. owner' # owner /\ Next
    BY <1>1 DEF vars, rows
  <2>2. PICK r \in Requests : Commits(r)
    <3>1. ~CleanupDeletes
      BY <1>1 DEF CleanupDeletes, ExpiredDeleted, Only
    <3>2. \A r \in Requests : ~Erases(r)
      BY <1>1 DEF Erases, Erased, Only
    <3>3. QED
      BY <1>1, <2>1, <3>1, <3>2, OwnersChange
  <2>3. /\ req[r] \in Request /\ req[r].stage = "leaving" /\ req[r].ok /\ Relies(req[r])
        /\ Formed(req[r]) /\ owner \in [Projects -> Principals \union {Nobody}]
    BY <1>1, <2>2 DEF LInv, IInv, TypeOK, Commits, At
  <2>4. req[r].op = "create"
    <3>1. CASE req[r].op = "claim"
      <4>1. Claimed(req[r].guest, req[r].by, req[r].moved)
        BY <2>2, <3>1 DEF Commits
      <4>2. req[r].guest \in Guests /\ req[r].moved \subseteq Owned(req[r].guest)
        BY <2>3, <3>1 DEF Relies, Moves, Closing
      <4>3. p \notin req[r].moved
        BY <1>1, <4>2, AccountsAssumption DEF Owned
      <4>4. QED
        BY <1>1, <4>1, <4>3 DEF Claimed
    <3>2. QED
      BY <1>1, <2>2, <3>1 DEF Commits, Only
  <2> DEFINE a == req[r].by
  <2>5. owner' = [owner EXCEPT ![req[r].p] = a]
    BY <2>2, <2>4 DEF Commits
  <2>6. req[r].p \in Projects /\ owner[req[r].p] = Nobody /\ Cardinality(Owned(a)) < Limit(a)
    BY <2>3, <2>4 DEF Relies, Inserts, Closing
  <2>7. a \in Principals /\ a # Nobody
    BY <2>3, AccountsAssumption DEF Formed, Principals
  <2>8. owner'[p] = a
    BY <1>1, <2>3, <2>5
  <2>9. {q \in Projects : owner'[q] = a} = Owned(a) \union {req[r].p}
    BY <2>3, <2>5, <2>6, <2>7 DEF Owned
  <2>10. req[r].p \notin Owned(a)
    BY <2>6, <2>7 DEF Owned
  <2>11. IsFiniteSet(Owned(a))
    BY FS_Subset, AccountsAssumption DEF Owned
  <2>12. /\ Cardinality(Owned(a)) \in Nat
         /\ Cardinality(Owned(a) \union {req[r].p}) = Cardinality(Owned(a)) + 1
    BY <2>10, <2>11, FS_CardinalityType, FS_AddElement
  <2>13. Limit(a) \in Nat
    BY AccountsAssumption DEF Limit
  <2>14. Cardinality(Owned(a)) + 1 <= Limit(a)
    BY <2>6, <2>12, <2>13
  <2>15. QED
    BY <2>8, <2>9, <2>12, <2>14
<1>2. LInv /\ [Next]_vars =>
        [\A p \in Projects :
           owner[p] = Nobody /\ owner'[p] # Nobody =>
             Cardinality({q \in Projects : owner'[q] = owner'[p]}) <= Limit(owner'[p])]_vars
  BY <1>1
<1>3. QED
  BY <1>2, ReadsHold, PTL DEF Spec, CreationsKeepTheLimit

\* A project is lost to its owner's deletion or erasure, to its expiry, or to
\* a claim that had not seen it: never to another's request.
THEOREM LossesHaveCause == Spec => ProjectsAreLostForCause
<1>1. ASSUME LInv, [Next]_vars, NEW p \in Projects, owner[p] # Nobody, owner'[p] = Nobody
      PROVE  \/ owner[p] \in Expired
             \/ \E r \in Requests :
                  \/ At(r, "erases") /\ owner[p] = req[r].by
                  \/ /\ At(r, "leaving")
                     /\ \/ req[r].op = "delete" /\ req[r].p = p /\ req[r].by = owner[p]
                        \/ req[r].op = "claim" /\ p \notin req[r].moved
  <2>1. owner' # owner /\ Next
    BY <1>1 DEF vars, rows
  <2>2. CASE CleanupDeletes
    BY <1>1, <2>2 DEF CleanupDeletes, ExpiredDeleted, Only
  <2>3. ASSUME NEW r \in Requests, Erases(r)
        PROVE  At(r, "erases") /\ owner[p] = req[r].by
    BY <1>1, <2>3 DEF Erases, Erased, Only
  <2>4. ASSUME NEW r \in Requests, Commits(r)
        PROVE  /\ At(r, "leaving")
               /\ \/ req[r].op = "delete" /\ req[r].p = p /\ req[r].by = owner[p]
                  \/ req[r].op = "claim" /\ p \notin req[r].moved
    <3>1. /\ req[r].stage = "leaving" /\ req[r].ok /\ Relies(req[r]) /\ Formed(req[r])
          /\ owner \in [Projects -> Principals \union {Nobody}]
      BY <1>1, <2>4 DEF LInv, IInv, TypeOK, Commits, At
    <3>2. req[r].by # Nobody
      BY <3>1, AccountsAssumption DEF Formed, Principals
    <3>3. req[r].op \in {"delete", "claim"}
      BY <1>1, <2>4, <3>1, <3>2 DEF Commits
    <3>4. CASE req[r].op = "delete"
      <4>1. Only(Projects \ {req[r].p}) /\ owner[req[r].p] = req[r].by
        BY <2>4, <3>1, <3>4 DEF Commits, Relies, Owns, Owning
      <4>2. QED
        BY <1>1, <3>1, <3>4, <4>1 DEF Only, At
    <3>5. CASE req[r].op = "claim"
      <4>1. Claimed(req[r].guest, req[r].by, req[r].moved)
        BY <2>4, <3>5 DEF Commits
      <4>2. QED
        BY <1>1, <3>1, <3>2, <3>5, <4>1 DEF Claimed, At
    <3>6. QED
      BY <3>3, <3>4, <3>5
  <2>5. QED
    BY <1>1, <2>1, <2>2, <2>3, <2>4, OwnersChange
<1>2. LInv /\ [Next]_vars =>
        [\A p \in Projects :
           owner[p] # Nobody /\ owner'[p] = Nobody =>
             \/ owner[p] \in Expired
             \/ \E r \in Requests :
                  \/ At(r, "erases") /\ owner[p] = req[r].by
                  \/ /\ At(r, "leaving")
                     /\ \/ req[r].op = "delete" /\ req[r].p = p /\ req[r].by = owner[p]
                        \/ req[r].op = "claim" /\ p \notin req[r].moved]_vars
  BY <1>1
<1>3. QED
  BY <1>2, ReadsHold, PTL DEF Spec, ProjectsAreLostForCause

\* The cleanup removes the images of projects that are gone, or whose session
\* has come back to life while it ran.
THEOREM CleanupSpares == Spec => CleanupSparesTheLiving
<1>1. ASSUME LInv, [Next]_vars, NEW p \in images \ images'
      PROVE  owner'[p] = Nobody \/ p \in cleaning.revived
  <2>1. images' # images /\ Next /\ p \in Projects
    BY <1>1 DEF vars, rows, LInv, IInv, TypeOK
  <2>2. CASE CleanupRemoves
    BY <1>1, <2>2 DEF CleanupRemoves, LInv, Collected
  <2>3. CASE CleanupDeletes
    BY <1>1, <2>1, <2>3 DEF CleanupDeletes, ExpiredDeleted, Only
  <2>4. ASSUME NEW r \in Requests, Erases(r) PROVE owner'[p] = Nobody
    BY <1>1, <2>1, <2>4 DEF Erases, Erased, Only
  <2>5. ASSUME NEW r \in Requests, Commits(r) PROVE owner'[p] = Nobody
    <3>1. req[r].op \in {"delete", "claim"}
      BY <1>1, <2>5 DEF Commits
    <3>2. CASE req[r].op = "delete"
      BY <1>1, <2>1, <2>5, <3>2 DEF Commits, Only
    <3>3. CASE req[r].op = "claim"
      <4>1. Claimed(req[r].guest, req[r].by, req[r].moved)
        BY <2>5, <3>3 DEF Commits
      <4>2. QED
        BY <1>1, <2>1, <4>1 DEF Claimed
    <3>4. QED
      BY <3>1, <3>2, <3>3
  <2>6. \/ \E r \in Requests : Commits(r) \/ Erases(r)
        \/ CleanupDeletes \/ CleanupRemoves
    BY <1>1, <2>1, ImagesChange
  <2>7. QED
    BY <2>2, <2>3, <2>4, <2>5, <2>6
<1>2. LInv /\ [Next]_vars =>
        [\A p \in images \ images' : owner'[p] = Nobody \/ p \in cleaning.revived]_vars
  BY <1>1
<1>3. QED
  BY <1>2, ReadsHold, PTL DEF Spec, CleanupSparesTheLiving
=============================================================================
