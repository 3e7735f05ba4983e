------------------------------- MODULE MCRanked ------------------------------
(* Model values and small sets for checking RankedPipeline with TLC. *)
EXTENDS RankedPipeline, TLC

CONSTANTS p1, p2, p3, r1, r2, solo, duel, sch

OneSolo == (solo :> 1)
OneDuel == (duel :> 2)
SoloAndDuel == (solo :> 1 @@ duel :> 2)
TargetOne == (solo :> 1)
TargetTwo == (solo :> 2)
DuelTargetOne == (duel :> 1)
DuelTargetTwo == (duel :> 2)
BothTargetOne == (solo :> 1 @@ duel :> 1)

Sym == Permutations(Projects) \union Permutations(Runners)
=============================================================================
