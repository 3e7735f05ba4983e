\* The quarantine names the project, not the version that failed.
CONSTANTS
  p1 = p1
  p2 = p2
  p3 = p3
  r1 = r1
  r2 = r2
  solo = solo
  duel = duel
  sch = sch
  NoMode = NoMode
  Modes = {solo}
  Projects = {p1}
  Runners = {r1}
  Scheduler = sch
  Daemons = {sch, r1}
  MaxSeats = 1
  MaxJobs = 2
  MaxVersion = 2
  QueueCap = 1
  Seats <- OneSolo
  Target <- TargetOne
  Events = {"initfail"}
SPECIFICATION Spec
SYMMETRY Sym
CHECK_DEADLOCK FALSE
PROPERTIES
  QuarantineHitsTheVersionThatCrashed
