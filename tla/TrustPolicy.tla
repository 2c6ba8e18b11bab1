---------------------------- MODULE TrustPolicy ----------------------------
(***************************************************************************)
(* What a trust store promises about one process's view of its peers,      *)
(* with no entries, files or clocks: every peer has a level, the level     *)
(* moves along the documented state machine (security/trust.go:68-77), and *)
(* a peer that was blocked is not admitted again by a mere first contact.  *)
(* TrustStore shows that the store implements this.                        *)
(***************************************************************************)
CONSTANT Peers          \* the public keys the store may hold

VARIABLES
    level,              \* [Peers -> Levels]: what the store answers
    wary                \* [Peers -> BOOLEAN]: a first contact no longer suffices

Levels == {"unknown", "tofu", "verified", "blocked", "pinned"}

(* ValidTrustTransition: the moves an explicit decision may make. *)
ValidTrustTransition(from, to) ==
    \/ from = to
    \/ from = "unknown"
    \/ from = "tofu" /\ to \in {"verified", "blocked"}
    \/ from = "verified" /\ to \in {"pinned", "blocked"}
    \/ from = "pinned" /\ to = "blocked"
    \/ from = "blocked" /\ to = "unknown"

TypeOK == level \in [Peers -> Levels] /\ wary \in [Peers -> BOOLEAN]

Init ==
    /\ level = [p \in Peers |-> "unknown"]
    /\ wary = [p \in Peers |-> FALSE]

(* The first contact with a peer admits it, unless it was blocked before. *)
Meet(p) ==
    /\ level[p] = "unknown"
    /\ ~wary[p]
    /\ level' = [level EXCEPT ![p] = "tofu"]
    /\ UNCHANGED wary

(* An explicit decision about a peer; TOFU is nobody's decision. *)
Declare(p, to) ==
    /\ to # "tofu"
    /\ ValidTrustTransition(level[p], to)
    /\ level' = [level EXCEPT ![p] = to]
    /\ wary' = [wary EXCEPT ![p] = @ \/ to = "blocked"]

(* Trust on first use runs out; every other level stays. *)
Lapse(S) ==
    /\ \A p \in S : level[p] = "tofu"
    /\ level' = [p \in Peers |-> IF p \in S THEN "unknown" ELSE level[p]]
    /\ UNCHANGED wary

(* Everything known about some peers is dropped. *)
Forget(S) ==
    /\ level' = [p \in Peers |-> IF p \in S THEN "unknown" ELSE level[p]]
    /\ wary' = [p \in Peers |-> p \notin S /\ wary[p]]

(* Knowledge about peers of whom nothing is known is taken over. *)
Adopt(S) ==
    /\ \A p \in S : level[p] = "unknown" /\ ~wary[p]
    /\ level' \in [Peers -> Levels]
    /\ wary' \in [Peers -> BOOLEAN]
    /\ \A p \in Peers \ S : level'[p] = level[p] /\ wary'[p] = wary[p]

Next ==
    \/ \E p \in Peers : Meet(p) \/ \E to \in Levels : Declare(p, to)
    \/ \E S \in SUBSET Peers : Lapse(S) \/ Forget(S) \/ Adopt(S)

Spec == Init /\ [][Next]_<<level, wary>>
=============================================================================
