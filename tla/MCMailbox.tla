------------------------------ MODULE MCMailbox -------------------------------
(* Two agents, one of which sends to the other.                            *)
EXTENDS Mailbox

CONSTANTS alice, bob, r1, r2

FromAlice == [e \in Envelopes |-> alice]
ToBob == [e \in Envelopes |-> bob]

(* The agents share a relay, and the receiver has one more.                *)
Shared == [a \in Agents |-> IF a = alice THEN <<r1>> ELSE <<r1, r2>>]
===============================================================================
