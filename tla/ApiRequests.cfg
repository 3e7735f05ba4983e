\* Two users, a guest, two requests at a time; each behaviour meets one group
\* of requests and events.
CONSTANTS
  u1 = u1
  u2 = u2
  g1 = g1
  p1 = p1
  p2 = p2
  r1 = r1
  r2 = r2
  Users = {u1, u2}
  Guests = {g1}
  Projects = {p1, p2}
  Nobody = Nobody
  Requests = {r1, r2}
  HourlyLimit = 1
  DailyLimit = 2
  MaxUserProjects = 1
  MaxGuestProjects = 1
  GuestTestLimit = 2
  Scenarios <- Groups
SPECIFICATION FairSpec
CHECK_DEADLOCK FALSE
INVARIANTS
  TypeOK
  OneActiveTest
  NoSubmitIsOvercharged
  SubmitNeverStalls
PROPERTIES
  CreationsKeepTheLimit
  ProjectsAreLostForCause
  CleanupSparesTheLiving
  EveryRequestEnds
