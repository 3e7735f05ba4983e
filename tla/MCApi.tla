-------------------------------- MODULE MCApi --------------------------------
(* Model values and small sets for checking ApiServer with TLC. *)
EXTENDS ApiServer

CONSTANTS u1, u2, g1, p1, p2, r1, r2

\* A behaviour meets one group of requests and events, so that the groups add
\* up rather than multiply.
Groups ==
  {{"create", "claim"},
   {"save", "claim"},
   {"enqueue", "claim"},
   {"submit", "delete", "litter"},
   {"submit", "redis", "hours"},
   {"submit", "erase"},
   {"refresh", "claim", "cleanup"}}
=============================================================================
