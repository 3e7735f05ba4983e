\* A submission between the two reads of a tick pairs a project with itself.
CONSTANTS
  p1 = p1
  p2 = p2
  p3 = p3
  r1 = r1
  r2 = r2
  solo = solo
  duel = duel
  sch = sch
  NoMode = NoMode
  Modes = {duel}
  Projects = {p1, p2}
  Runners = {r1}
  Scheduler = sch
  Daemons = {sch, r1}
  MaxSeats = 2
  MaxJobs = 2
  MaxVersion = 2
  QueueCap = 1
  Seats <- OneDuel
  Target <- DuelTargetOne
  Events = {}
SPECIFICATION Spec
SYMMETRY Sym
CHECK_DEADLOCK FALSE
INVARIANTS
  NobodyPlaysItself
