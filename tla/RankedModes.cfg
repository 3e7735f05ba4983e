\* A solo and a two-player mode in one tick; versions are quarantined, projects
\* deleted, exceptions end a tick or a claim early, and cancels are rolled back.
CONSTANTS
  p1 = p1
  p2 = p2
  p3 = p3
  r1 = r1
  r2 = r2
  solo = solo
  duel = duel
  sch = sch
  NoMode = NoMode
  Modes = {solo, duel}
  Projects = {p1, p2}
  Runners = {r1}
  Scheduler = sch
  Daemons = {sch, r1}
  MaxSeats = 2
  MaxJobs = 2
  MaxVersion = 1
  QueueCap = 1
  Seats <- SoloAndDuel
  Target <- BothTargetOne
  Events = {"initfail", "delete", "escape", "rollback"}
SPECIFICATION Spec
SYMMETRY Sym
CHECK_DEADLOCK FALSE
INVARIANTS
  QueueWithinCap
PROPERTIES
  JobsOnlyWhenDue
