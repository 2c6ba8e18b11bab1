------------------------------ MODULE MCAgent ------------------------------
(* Instances of Agent: one caller, whose request may set off a rekey.      *)
EXTENDS Agent

CONSTANTS a, b
MCCalls == [x \in Agents |-> IF x = a THEN {"t1"} ELSE {}]
MCRekeys == [x \in Agents |-> IF x = a THEN {"r1"} ELSE {}]
MCNoRekeys == [x \in Agents |-> {}]
=============================================================================
