------------------------- MODULE MCRuleValidation -------------------------
(***************************************************************************)
(* Instances of RuleValidation for TLC.                                    *)
(***************************************************************************)
EXTENDS RuleValidation, TLC

CONSTANTS s1, s2, s3, c1

\* The first rule tolerates one breach, as one written while its metric was
\* failing; the second none.
MCTolerated == [r \in RuleIds |-> IF r = 1 THEN 1 ELSE 0]
MCSymmetry == Permutations(Sessions)
=============================================================================
