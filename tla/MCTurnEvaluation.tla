-------------------------- MODULE MCTurnEvaluation --------------------------
(***************************************************************************)
(* Instances of TurnEvaluation for TLC.                                    *)
(***************************************************************************)
EXTENDS TurnEvaluation, TLC

CONSTANTS s1, s2, c1, stall, breach

MCSymmetry == Permutations({s1, s2}) \cup Permutations({stall, breach})
=============================================================================
