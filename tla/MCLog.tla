-------------------------------- MODULE MCLog --------------------------------
(***************************************************************************)
(* Log for TLC. Two values of different sizes make a segment roll because  *)
(* of its store and because of its index; the index limit is no multiple   *)
(* of an entry, so that it is full before its bytes are used up.           *)
(***************************************************************************)
EXTENDS Log

CONSTANTS small, large

\* A record's own offset is marshalled with it: proto3 leaves a zero out.
MCWidth ==
  [v \in Value |-> [o \in Offset |->
     (IF v = small THEN 3 ELSE 20) + (IF o = 0 THEN 0 ELSE 2)]]
=============================================================================
