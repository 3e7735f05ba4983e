-------------------------------- MODULE MCDev --------------------------------
(* Model values and small sets for checking DevPipeline with TLC. *)
EXTENDS DevPipeline

CONSTANTS w1, w2

\* A behaviour meets one group of accidents, so that the groups add up rather
\* than multiply.
Groups ==
  {{"save", "submit"},
   {"scale", "submit"},
   {"upload", "submit", "hiccup", "test once"},
   {"upload", "submit"},
   {"upload", "submit", "delete", "watch", "test once"},
   {"pin", "test often"},
   {"cancel", "hiccup", "opponent", "delete"},
   {"crash"},
   {"crash", "scale", "watch", "test once"},
   {"watch", "hiccup", "test once"}}
=============================================================================
