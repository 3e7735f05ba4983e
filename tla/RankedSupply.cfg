\* Two projects that submit twice in a solo mode, while matches fail, users
\* are erased and the operator switches the mode off and on.
CONSTANTS
  p1 = p1
  p2 = p2
  p3 = p3
  r1 = r1
  r2 = r2
  solo = solo
  duel = duel
  sch = sch
  NoMode = NoMode
  Modes = {solo}
  Projects = {p1, p2}
  Runners = {r1}
  Scheduler = sch
  Daemons = {sch, r1}
  MaxSeats = 1
  MaxJobs = 3
  MaxVersion = 2
  QueueCap = 1
  Seats <- OneSolo
  Target <- TargetOne
  Events = {"fail", "toggle", "erase"}
SPECIFICATION Spec
SYMMETRY Sym
CHECK_DEADLOCK FALSE
INVARIANTS
  NoOverplay
  DueWorkIsLeftOnlyByFailure
