-------------------------- MODULE MCMessageValidator --------------------------
(* A small instance: skew 2, window 5, pauses of at most 1 time unit, the   *)
(* proportions of the code's 2 and 5 minutes.                               *)
EXTENDS MessageValidator

CONSTANTS n1, n2

MCEnvelopes ==
    {[nonce |-> n2, timestamp |-> -2, wellFormed |-> TRUE, signed |-> TRUE],
     [nonce |-> n1, timestamp |-> 2, wellFormed |-> TRUE, signed |-> TRUE],
     [nonce |-> n1, timestamp |-> 4, wellFormed |-> TRUE, signed |-> FALSE],
     [nonce |-> n2, timestamp |-> 3, wellFormed |-> TRUE, signed |-> TRUE]}

===============================================================================
