---------------------------- MODULE MCMembership ----------------------------
(* Membership for TLC: three nodes and four addresses. *)
EXTENDS Membership

CONSTANTS m1, m2, m3, x, y, z, w
=============================================================================
