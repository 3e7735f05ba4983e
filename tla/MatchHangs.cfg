\* An agent's process ends of itself, another agent hangs.
CONSTANTS
  r1 = r1
  r2 = r2
  NumSeats = 2
  Runners = {r1, r2}
  MaxSteps = 2
  MaxLag = 2
  PerStepCpu = 0
  PerStepWall = 3
  MaxWall = 4
  MaxFaults = 1
  Scenarios <- Crashing
SPECIFICATION FairSpec
CHECK_DEADLOCK FALSE
PROPERTIES
  HungAgentsAreKilled
