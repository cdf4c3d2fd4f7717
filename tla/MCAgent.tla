------------------------------- MODULE MCAgent -------------------------------
(* Agent for TLC: a client that may only write, and one that may only read. *)
EXTENDS Agent

CONSTANTS c1, c2

MCAllowed == {<<c1, "produce">>, <<c2, "consume">>}

MCCalls ==
  [c \in Client |->
     IF c = c1 THEN {<<"Produce", 0>>, <<"ProduceStream", 0>>, <<"Consume", 0>>}
     ELSE {<<"Produce", 0>>, <<"Consume", 1>>, <<"ConsumeStream", 0>>}]
=============================================================================
