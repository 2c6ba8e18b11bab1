--------------------------- MODULE MessageValidator ---------------------------
(***************************************************************************)
(* Replay protection of incoming envelopes (security/message.go).          *)
(*                                                                         *)
(* ValidateMessage runs on whichever goroutine received the envelope (one  *)
(* receive loop per peer, the bridge callback, the mailbox loop), so       *)
(* several calls are in flight at once.  A call reads the clock BEFORE it  *)
(* takes the lock on the nonce table and uses that reading twice: for the  *)
(* freshness window and as the nonce's first-seen time.  In between, the   *)
(* clean-up ticker of the agent may evict nonces by a later clock.         *)
(*                                                                         *)
(* One call is three steps: CheckFresh (size, timestamp, nonce format),    *)
(* RecordNonce (the critical section), VerifySignature.                    *)
(***************************************************************************)
EXTENDS Integers

CONSTANTS
    Callers,          \* goroutines that may be inside ValidateMessage
    Envelopes,        \* the envelopes that may be delivered, any number of times
    Nonces,           \* nonces that occur in them
    TimestampSkew,    \* TimestampSkew
    NonceWindow,      \* NonceWindowDuration
    MaxPause,         \* longest time a call spends between its clock reading
                      \* and its critical section (scheduling, lock contention)
    MaxTime           \* bound on the clock

(* An envelope: its signed nonce and timestamp, and whether the remaining  *)
(* checks (size, nonce length, signature present and valid under the key   *)
(* of the sender) hold for it.                                             *)
Envelope == [nonce : Nonces, timestamp : Int, wellFormed : BOOLEAN, signed : BOOLEAN]

ASSUME ConstantsAssumption ==
    /\ Envelopes \subseteq Envelope
    /\ TimestampSkew \in Nat /\ NonceWindow \in Nat /\ MaxPause \in Nat /\ MaxTime \in Nat

(* The window outlives every timestamp a replay could still be fresh with, *)
(* plus the pause of the replaying call: 5 min >= 2 * 2 min + 1 min.       *)
ASSUME WindowAssumption == NonceWindow >= 2 * TimestampSkew + MaxPause

Never == -1

VARIABLES
    clock,        \* time.Now()
    firstSeen,    \* MessageValidator.nonces: nonce -> first seen, or Never
    call,         \* per goroutine: where it is in ValidateMessage
    accepted      \* per envelope: how many calls returned nil

vars == <<clock, firstSeen, call, accepted>>

Call == [pc : {"idle", "lock", "verify"}, env : Envelopes, now : Nat]

TypeOK ==
    /\ clock \in Nat
    /\ firstSeen \in [Nonces -> Nat \cup {Never}]
    /\ call \in [Callers -> Call]
    /\ accepted \in [Envelopes -> Nat]

Init ==
    /\ clock = 0
    /\ firstSeen = [n \in Nonces |-> Never]
    /\ call \in {[g \in Callers |-> [pc |-> "idle", env |-> e, now |-> 0]] : e \in Envelopes}
    /\ accepted = [e \in Envelopes |-> 0]

-----------------------------------------------------------------------------
(* env.Timestamp within [now - TimestampSkew, now + TimestampSkew].        *)
Fresh(e, now) ==
    /\ e.timestamp >= now - TimestampSkew
    /\ e.timestamp <= now + TimestampSkew

(* The checks before the critical section; a failed one returns an error   *)
(* and leaves no trace.                                                    *)
CheckFresh(g, e) ==
    /\ call[g].pc = "idle"
    /\ e.wellFormed
    /\ Fresh(e, clock)
    /\ call' = [call EXCEPT ![g] = [pc |-> "lock", env |-> e, now |-> clock]]
    /\ UNCHANGED <<clock, firstSeen, accepted>>

(* A slip in the critical section: the nonce is filed under the sender's   *)
(* timestamp instead of the receiver's clock.                              *)
RecordNonceAtTimestamp(g) ==
    LET n == call[g].env.nonce IN
    /\ call[g].pc = "lock"
    /\ firstSeen[n] = Never
    /\ firstSeen' = [firstSeen EXCEPT ![n] = call[g].env.timestamp]
    /\ call' = [call EXCEPT ![g].pc = "verify"]
    /\ UNCHANGED <<clock, accepted>>

(* The critical section: a seen nonce is a replay; an unseen one is stored *)
(* with the clock reading the call already holds.                          *)
RecordNonce(g) ==
    LET n == call[g].env.nonce IN
    /\ call[g].pc = "lock"
    /\ \/ /\ firstSeen[n] # Never
          /\ call' = [call EXCEPT ![g].pc = "idle"]
          /\ UNCHANGED firstSeen
       \/ /\ firstSeen[n] = Never
          /\ firstSeen' = [firstSeen EXCEPT ![n] = call[g].now]
          /\ call' = [call EXCEPT ![g].pc = "verify"]
    /\ UNCHANGED <<clock, accepted>>

VerifySignature(g) ==
    LET e == call[g].env IN
    /\ call[g].pc = "verify"
    /\ call' = [call EXCEPT ![g].pc = "idle"]
    /\ accepted' = IF e.signed THEN [accepted EXCEPT ![e] = @ + 1] ELSE accepted
    /\ UNCHANGED <<clock, firstSeen>>

(* A slip in the eviction test: nonces live only as long as the skew.      *)
ExpiredAfterSkew(seen, now) == seen # Never /\ seen < now - TimestampSkew

(* seen.Before(now - NonceWindowDuration), the test of the eviction loop.  *)
Expired(seen, now) == seen # Never /\ seen < now - NonceWindow

CleanExpiredNonces ==
    /\ firstSeen' = [n \in Nonces |-> IF Expired(firstSeen[n], clock) THEN Never ELSE firstSeen[n]]
    /\ UNCHANGED <<clock, call, accepted>>

(* Time passes; a call waiting for the lock is delayed by at most MaxPause. *)
Tick ==
    /\ clock < MaxTime
    /\ \A g \in Callers : call[g].pc = "lock" => clock < call[g].now + MaxPause
    /\ clock' = clock + 1
    /\ UNCHANGED <<firstSeen, call, accepted>>

Next ==
    \/ \E g \in Callers, e \in Envelopes : CheckFresh(g, e)
    \/ \E g \in Callers : RecordNonce(g) \/ VerifySignature(g)
    \/ CleanExpiredNonces
    \/ Tick

Spec == Init /\ [][Next]_vars

-----------------------------------------------------------------------------
(* Replay protection: however often an envelope is delivered, and however  *)
(* validations interleave with each other and with the clean-up ticker,    *)
(* ValidateMessage returns nil for it at most once.                        *)
AtMostOnce == \A e \in Envelopes : accepted[e] <= 1
===============================================================================
