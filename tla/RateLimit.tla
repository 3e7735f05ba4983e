------------------------------- MODULE RateLimit ------------------------------
(***************************************************************************)
(* The per-event quotas of api/rate_limit.py: fixed windows counted in     *)
(* Redis.  A bucket's key names its window, so a new window starts at 0.   *)
(***************************************************************************)
EXTENDS Naturals

CONSTANTS
  Users,
  HourlyLimit, DailyLimit  \* SUBMIT_HOURLY_LIMIT and SUBMIT_DAILY_LIMIT

ASSUME LimitsAssumption == HourlyLimit \in Nat \ {0} /\ DailyLimit \in Nat \ {0}

VARIABLE used  \* used[u]: what the buckets of the present windows hold

Buckets == [hour : Nat, day : Nat]

NothingUsed == [hour |-> 0, day |-> 0]

\* The next hour begins; a day begins with one of its hours.
NextHour == used' = [u \in Users |-> [used[u] EXCEPT !.hour = 0]]

NextDay == used' = [u \in Users |-> NothingUsed]

\* Mutant: the submission is checked against the hourly window only.
HourlySlotLeft(u) == used[u].hour < HourlyLimit

\* check_submit_quotas_available: both windows, without taking anything.
SlotsLeft(u) == used[u].hour < HourlyLimit /\ used[u].day < DailyLimit

\* consume_quota counts first and refuses afterwards.
ConsumeHour(u) == used' = [used EXCEPT ![u].hour = @ + 1]

ConsumeDay(u) == used' = [used EXCEPT ![u].day = @ + 1]

OverHour(u) == used[u].hour >= HourlyLimit

OverDay(u) == used[u].day >= DailyLimit
=============================================================================
