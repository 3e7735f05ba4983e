------------------------------- MODULE Accounts -------------------------------
(***************************************************************************)
(* The committed rows that say who owns what: users, guest_sessions, and   *)
(* of projects and test_match_jobs what ownership and limits are about.    *)
(* The statements of db/users.py, db/guest_sessions.py and the projects    *)
(* and test-match routers are operators that make the next rows.           *)
(***************************************************************************)
EXTENDS RateLimit, FiniteSets

CONSTANTS
  Guests, Projects, Nobody,
  MaxUserProjects, MaxGuestProjects,  \* _MAX_USER_PROJECTS, _MAX_GUEST_PROJECTS
  GuestTestLimit                      \* GUEST_TEST_LIMIT

ASSUME AccountsAssumption ==
  /\ Users \intersect Guests = {}
  /\ Projects \intersect (Users \union Guests) = {}
  /\ Nobody \notin Users \union Guests \union Projects
  /\ IsFiniteSet(Projects)
  /\ MaxUserProjects \in Nat /\ MaxGuestProjects \in Nat /\ GuestTestLimit \in Nat

VARIABLES
  account,  \* the users with a row
  session,  \* session[g]: the row of guest g; old is expires_at < NOW()
  owner,    \* owner[p]: the user or guest of project p, Nobody when there is no row
  active,   \* active[p]: queued and running test matches of p
  images    \* the projects whose dev image docker has

rows == <<account, session, owner, active, images>>

Principals == Users \union Guests

Session == [exists : BOOLEAN, old : BOOLEAN, tests : Nat]

NoSession == [exists |-> FALSE, old |-> FALSE, tests |-> 0]

Owned(a) == {p \in Projects : owner[p] = a}

Limit(a) == IF a \in Users THEN MaxUserProjects ELSE MaxGuestProjects

\* Mutant: a guest gets a row of users.
WithRow(a) == account \union {a}

\* get_or_create_user_by_clerk_id and get_or_create_guest_session: the row is
\* there afterwards, and a session's expiry is put off.
WithAccount(a) == account \union ({a} \intersect Users)

Refreshed(a) ==
  [g \in Guests |-> IF g = a THEN [session[g] EXCEPT !.exists = TRUE, !.old = FALSE]
                    ELSE session[g]]

\* Foreign keys: without its project a test is gone, without its owner a
\* project; what docker still has of it is not followed any further.
Only(kept) ==
  /\ images' = images \intersect kept
  /\ owner' = [p \in Projects |-> IF p \in kept THEN owner[p] ELSE Nobody]
  /\ active' = [p \in Projects |-> IF p \in kept THEN active[p] ELSE 0]

\* Mutant: the session is deleted before the projects are moved.
ClaimedTooLate(g, u, moved) ==
  /\ Only(Projects \ Owned(g))
  /\ session' = [session EXCEPT ![g] = NoSession]

\* claim_guest_session: the projects it updated change hands; the session goes,
\* and with it what is the guest's by then.
Claimed(g, u, moved) ==
  /\ LET late == Owned(g) \ moved
     IN /\ owner' = [p \in Projects |-> IF p \in moved THEN u
                                        ELSE IF p \in late THEN Nobody ELSE owner[p]]
        /\ active' = [p \in Projects |-> IF p \in late THEN 0 ELSE active[p]]
        /\ images' = images \ late
  /\ session' = [session EXCEPT ![g] = NoSession]

\* What collect_and_delete_expired_sessions looks for, and what it deletes.
Expired == {g \in Guests : session[g].exists /\ session[g].old}

\* Mutant: every guest's images are collected.
ImagesOfGuests == {p \in images : owner[p] \in Guests}

ExpiredImages == {p \in images : owner[p] \in Expired}

ExpiredDeleted ==
  /\ session' = [g \in Guests |-> IF g \in Expired THEN NoSession ELSE session[g]]
  /\ Only({p \in Projects : owner[p] \notin Expired})

\* delete_user_by_clerk_id.  Its UPDATE of match_jobs cancels the ranked jobs of
\* the user's projects: that is EraseUser of RankedPipeline, for the queue is
\* not among the rows here.  With the projects go their images, by the webhook.
Erased(u) ==
  /\ account' = account \ {u}
  /\ Only({p \in Projects : owner[p] # u})
  /\ UNCHANGED session
=============================================================================
