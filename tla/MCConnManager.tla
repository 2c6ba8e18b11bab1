---------------------------- MODULE MCConnManager -----------------------------
(* Two agents, 1 and 2; agent 1 has the smaller id and wins tie-breaks.     *)
EXTENDS ConnManager

(* Both agents connect to each other.                                       *)
Crossing == {[id |-> 1, agent |-> 1, peer |-> 2], [id |-> 2, agent |-> 2, peer |-> 1]}

(* Every agent lets every other through its gate.                           *)
Everyone == [a \in Agents |-> Agents \ {a}]

(* Agent 1 learns of agent 2 only from the server's contact notification.   *)
OneSided == [a \in Agents |-> IF a = 1 THEN {} ELSE Agents \ {a}]
===============================================================================
