-------------------------------- MODULE MCMatch ------------------------------
(* Small sets for checking MatchExecution with TLC. *)
EXTENDS MatchExecution

CONSTANTS r1, r2

\* A behaviour meets one group of accidents, so that the groups add up rather
\* than multiply.
Groups ==
  {{"docker", "unfit"},
   {"late", "burns", "kill refused"},
   {"banks", "deaths", "kill refused"},
   {"exits", "sim"},
   {"crash"},
   {"peers"}}

\* An agent exits, another one hangs.
Crashing == {{"exits"}}
=============================================================================
