\* Two seats, two steps, one fault; the daemon and a peer on one docker host.
CONSTANTS
  r1 = r1
  r2 = r2
  NumSeats = 2
  Runners = {r1, r2}
  MaxSteps = 2
  MaxLag = 2
  PerStepCpu = 0
  PerStepWall = 3
  MaxWall = 4
  MaxFaults = 1
  Scenarios <- Groups
SPECIFICATION FairSpec
CHECK_DEADLOCK FALSE
INVARIANTS
  TypeOK
  EverythingIsAccountedFor
  NobodyWhoPlayedIsBlamed
PROPERTIES
  SweepSparesTheLiving
  KilledForCause
  KillReasonsAreFinal
  SuccessCanBeScored
  EveryMatchEnds
