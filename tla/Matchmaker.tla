----------------------------- MODULE Matchmaker ------------------------------
(***************************************************************************)
(* The matchmaker (orchestrator/matchmaker.py): which submitted versions   *)
(* are underplayed in a mode, and which group a new match takes.  It is a  *)
(* pure function of the tables: the submitted side of projects, match_jobs *)
(* and matches with match_participants.                                    *)
(***************************************************************************)
EXTENDS MatchJobs

CONSTANTS
  MaxVersion, \* bound: submissions of one project
  Seats,      \* Seats[m] is the mode's participant_count
  Target      \* Target[m] is the mode's target_matches_per_version

ASSUME ModesAssumption ==
  /\ MaxVersion \in Nat
  /\ Seats \in [Modes -> 1 .. MaxSeats]
  /\ Target \in [Modes -> Nat \ {0}]

VARIABLES
  ver,      \* submitted_version; 0 = never submitted, or the row is deleted
  crashed,  \* submitted_crashed
  deleted,  \* projects whose row is gone
  result    \* result[j]: the match row of job j, project_version by seat;
            \* <<>> = no row, 0 = a participant that went with its project

Ref == Projects \X (1 .. MaxVersion)          \* VersionRef
CurrentRef(p) == <<p, ver[p]>>
Versions == UNION {[1 .. n -> 0 .. MaxVersion] : n \in 1 .. MaxSeats}

SeatOf(j, p) == {s \in DOMAIN job[j].who : job[j].who[s] = p}

\* An appearance is a pair of a job and a seat: COUNT(*) counts participants.
Played(m, p, v) ==
  {a \in JobIds \X (1 .. MaxSeats) :
     /\ job[a[1]].mode = m
     /\ a[2] \in SeatOf(a[1], p)
     /\ result[a[1]] # <<>>
     /\ result[a[1]][a[2]] = v}

\* Jobs hold project ids, so a job under way counts for the version that is
\* current now, whichever version it was queued for.
InFlight(m, p) ==
  {a \in JobIds \X (1 .. MaxSeats) :
     /\ job[a[1]].status \in {"queued", "running"}
     /\ job[a[1]].mode = m
     /\ a[2] \in SeatOf(a[1], p)}

Appearances(m, p) == Played(m, p, ver[p]) \union InFlight(m, p)

\* Mutant: only finished matches count.
FinishedOnly(m, p) == Played(m, p, ver[p])

Counted(m, p) == Appearances(m, p)

Submitted == {p \in Projects : ver[p] > 0}
Eligible == {p \in Submitted : ~crashed[p]}

Solo(m) == Seats[m] = 1

\* list_underplayed_versions: a mode with more seats than eligible versions
\* has no underplayed ones.
Underplayed(m) ==
  {p \in Eligible :
     /\ Solo(m) \/ Cardinality(Eligible) >= Seats[m]
     /\ Cardinality(Counted(m, p)) < Target[m]}

\* _list_played_opponents: versions met in a recorded match or in a job under
\* way.  A job under way names the others by their current versions.
Met(m, ref) ==
  {v \in Ref :
     \/ \E a \in Played(m, ref[1], ref[2]) : \E t \in DOMAIN job[a[1]].who \ {a[2]} :
          v = <<job[a[1]].who[t], result[a[1]][t]>>
     \/ /\ v[1] # ref[1]
        /\ v = CurrentRef(v[1])
        /\ \E a \in InFlight(m, ref[1]) : SeatOf(a[1], v[1]) # {}}

\* ORDER BY matches_played, distinct_opponents as one number.  The last key,
\* submitted_at DESC, is left open: equal weights come in any order.
Weight(m, p) ==
  Cardinality(Counted(m, p)) * (Cardinality(Ref) + 1)
    + Cardinality(Met(m, CurrentRef(p)))

\* pick_match_group's sort key: not yet met the seed, then underplay rank in
\* the list read earlier (plan, weighed by tally), then random.
Before(a, b, met, plan, tally) ==
  LET known(v) == IF v \in met THEN 1 ELSE 0 IN
  \/ known(a) < known(b)
  \/ /\ known(a) = known(b)
     /\ a \in plan
     /\ b \in plan => tally[a[1]] < tally[b[1]]

\* Candidates are all submitted versions but the seed's.
Candidates(seed) == {CurrentRef(p) : p \in Submitted} \ {seed}

\* pick_match_group: the seed is least played in the list read earlier; the
\* other seats are the first Seats[m] - 1 candidates of the sorted pool.
\* There is no group when fewer than Seats[m] versions are submitted.
Groups(m, plan, tally) ==
  {g \in plan \X [1 .. Seats[m] - 1 -> Ref] :
     LET seed == g[1]
         rest == g[2]
         pool == Candidates(seed)
         met  == Met(m, seed) IN
     /\ Cardinality(Submitted) >= Seats[m]
     /\ \A r \in plan : tally[seed[1]] <= tally[r[1]]
     /\ \A i \in DOMAIN rest : rest[i] \in pool
     /\ \A i, k \in DOMAIN rest :
          i < k => rest[i] # rest[k] /\ ~Before(rest[k], rest[i], met, plan, tally)
     /\ \A v \in pool \ {rest[i] : i \in DOMAIN rest} : \A i \in DOMAIN rest :
          ~Before(v, rest[i], met, plan, tally)}

GroupSeating(m, g) ==
  [s \in 1 .. Seats[m] |-> IF s = 1 THEN g[1][1] ELSE g[2][s - 1][1]]
=============================================================================
