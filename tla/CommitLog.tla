------------------------------ MODULE CommitLog ------------------------------
(***************************************************************************)
(* What a log promises to the service that embeds it: the CommitLog        *)
(* interface of internal/server/server.go (Append, Read), the offset range *)
(* and Truncate of internal/log/log.go. Offsets are dense, the record of   *)
(* an offset never changes, and only a Truncate that was asked for takes   *)
(* records away, from the low end. Closing the log and opening it again is *)
(* not visible.                                                            *)
(*                                                                         *)
(*   lowest  : the lowest offset the log can still return                  *)
(*   next    : the offset the next record gets                             *)
(*   records : the values, a function on lowest .. next - 1                *)
(*   resp    : what the last call returned                                 *)
(***************************************************************************)
EXTENDS Integers

CONSTANTS Value, Offset, InitialOffset

VARIABLES lowest, next, records, resp

vars == <<lowest, next, records, resp>>

NoResponse    == [op |-> "none"]
Appended(off) == [op |-> "Append", off |-> off, err |-> "nil"]
Truncated     == [op |-> "Truncate", err |-> "nil"]
Consumed(off, v) ==
  [op |-> "Read", off |-> off, err |-> "nil",
   rec |-> [value |-> v, offset |-> off]]
OutOfRange(off) ==
  [op |-> "Read", off |-> off, err |-> "ErrOffsetOutOfRange"]

Init ==
  /\ lowest = InitialOffset
  /\ next = InitialOffset
  /\ records = [o \in {} |-> o]
  /\ resp = NoResponse

Append(v) ==
  /\ next' = next + 1
  /\ records' = [o \in lowest .. next |-> IF o = next THEN v ELSE records[o]]
  /\ resp' = Appended(next)
  /\ UNCHANGED lowest

Read(off) ==
  /\ resp' = IF off \in lowest .. next - 1 THEN Consumed(off, records[off])
             ELSE OutOfRange(off)
  /\ UNCHANGED <<lowest, next, records>>

\* Records are dropped up to some point no further than offset asked for, and
\* never the most recent one.
Truncate(asked) ==
  /\ asked + 1 < next
  /\ \E lo \in lowest .. next :
       /\ lo <= asked + 1 \/ lo = lowest
       /\ lowest' = lo
       /\ records' = [o \in lo .. next - 1 |-> records[o]]
  /\ resp' = Truncated
  /\ UNCHANGED next

Next ==
  \/ \E v \in Value : Append(v)
  \/ \E off \in Offset : Read(off)
  \/ \E asked \in Offset : Truncate(asked)

Spec == Init /\ [][Next]_vars
=============================================================================
