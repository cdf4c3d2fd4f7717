-------------------------------- MODULE MCFsm --------------------------------
(* Fsm for TLC, with the sizes of MCLog. *)
EXTENDS Fsm

CONSTANTS small, large

MCWidth ==
  [v \in Value |-> [o \in Offset |->
     (IF v = small THEN 3 ELSE 20) + (IF o = 0 THEN 0 ELSE 2)]]
=============================================================================
