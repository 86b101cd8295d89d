------------------------ MODULE MCRepairSettlement ------------------------
(***************************************************************************)
(* Instances of RepairSettlement for TLC.                                  *)
(***************************************************************************)
EXTENDS RepairSettlement

CONSTANTS c1, c2

\* Two notices of one turn with a common signature.
MCNotices == 1..2
MCRelated == MCNotices \X MCNotices
MCOneNotice == {1}
MCAlone == {<<1, 1>>}
=============================================================================
