\* A two-player mode, two projects that submit twice, listener connections that
\* drop; no match fails.
CONSTANTS
  p1 = p1
  p2 = p2
  p3 = p3
  r1 = r1
  r2 = r2
  solo = solo
  duel = duel
  sch = sch
  NoMode = NoMode
  Modes = {duel}
  Projects = {p1, p2}
  Runners = {r1}
  Scheduler = sch
  Daemons = {sch, r1}
  MaxSeats = 2
  MaxJobs = 4
  MaxVersion = 2
  QueueCap = 1
  Seats <- OneDuel
  Target <- DuelTargetOne
  Events = {"drop"}
SPECIFICATION FairSpec
CHECK_DEADLOCK FALSE
INVARIANTS
  SchedulerSleepsOnlyWhenNothingIsDue
PROPERTIES
  EveryJobIsSettled
  EveryVersionReachesTarget
