\* Two runner replicas over one table with up to two jobs queued at once; daemons
\* crash, also between the lock and the commit of a claim, matches fail, jobs
\* are cancelled, and users erased with their jobs.
CONSTANTS
  p1 = p1
  p2 = p2
  p3 = p3
  r1 = r1
  r2 = r2
  solo = solo
  duel = duel
  sch = sch
  NoMode = NoMode
  Modes = {solo}
  Projects = {p1}
  Runners = {r1, r2}
  Scheduler = sch
  Daemons = {sch, r1, r2}
  MaxSeats = 1
  MaxJobs = 2
  MaxVersion = 1
  QueueCap = 2
  Seats <- OneSolo
  Target <- TargetTwo
  Events = {"crash", "fail", "cancel", "erase"}
SPECIFICATION Spec
SYMMETRY Sym
CHECK_DEADLOCK FALSE
INVARIANTS
  TypeOK
  OneOwnerPerJob
  MatchesBackedByJobs
  QueuedWorkHasARunner
PROPERTIES
  ImplementsJobBoard
