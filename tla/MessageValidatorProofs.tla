------------------------ MODULE MessageValidatorProofs ------------------------
(***************************************************************************)
(* Replay protection proved for every set of callers and envelopes and for *)
(* every skew, window and pause that satisfy WindowAssumption.             *)
(***************************************************************************)
EXTENDS MessageValidator, TLAPS

(* A call that has passed the freshness check holds a clock reading under  *)
(* which its envelope is fresh and that is at most MaxPause old.           *)
PausesBounded ==
    \A g \in Callers : call[g].pc = "lock" =>
        /\ Fresh(call[g].env, call[g].now)
        /\ clock <= call[g].now + MaxPause

(* Some call has taken e's nonce and may still return, or has returned, nil. *)
Claimed(e) ==
    \/ accepted[e] > 0
    \/ \E g \in Callers : call[g].pc = "verify" /\ call[g].env = e

(* Once claimed, an envelope is protected by its nonce being remembered,   *)
(* or by being too old for any call that could still record it.            *)
ClaimProtected ==
    \A e \in Envelopes : Claimed(e) =>
        \/ firstSeen[e.nonce] # Never /\ firstSeen[e.nonce] >= e.timestamp - TimestampSkew
        \/ clock > e.timestamp + TimestampSkew + MaxPause

(* At most one claim on an envelope exists at any time.                    *)
ClaimUnique ==
    /\ \A e \in Envelopes : accepted[e] <= 1
    /\ \A g \in Callers : call[g].pc = "verify" => accepted[call[g].env] = 0
    /\ \A g, h \in Callers :
          call[g].pc = "verify" /\ call[h].pc = "verify" /\ call[g].env = call[h].env => g = h

IInv == TypeOK /\ PausesBounded /\ ClaimProtected /\ ClaimUnique

LEMMA EnvelopeFields ==
    ASSUME NEW e \in Envelopes
    PROVE  e.nonce \in Nonces /\ e.timestamp \in Int
BY ConstantsAssumption DEF Envelope

(* The type of every variable is preserved by every step of the validator. *)
LEMMA TypeStep == TypeOK /\ [Next]_vars => TypeOK'
<1> SUFFICES ASSUME TypeOK, [Next]_vars PROVE TypeOK'
  OBVIOUS
<1> USE ConstantsAssumption DEF TypeOK, Call, Never
<1>1. ASSUME NEW g \in Callers, NEW e \in Envelopes, CheckFresh(g, e) PROVE TypeOK'
  BY <1>1 DEF CheckFresh
<1>2. ASSUME NEW g \in Callers, RecordNonce(g) PROVE TypeOK'
  BY <1>2, EnvelopeFields DEF RecordNonce
<1>3. ASSUME NEW g \in Callers, VerifySignature(g) PROVE TypeOK'
  BY <1>3 DEF VerifySignature
<1>4. CASE CleanExpiredNonces
  BY <1>4 DEF CleanExpiredNonces
<1>5. CASE Tick
  BY <1>5 DEF Tick
<1>6. CASE UNCHANGED vars
  BY <1>6 DEF vars
<1>7. QED
  BY <1>1, <1>2, <1>3, <1>4, <1>5, <1>6 DEF Next

LEMMA InitIInv == Init => IInv
BY ConstantsAssumption, EnvelopeFields
   DEF Init, IInv, TypeOK, Call, Never, PausesBounded, ClaimProtected, ClaimUnique, Claimed

LEMMA NextIInv == IInv /\ [Next]_vars => IInv'
<1> SUFFICES ASSUME IInv, [Next]_vars PROVE IInv'
  OBVIOUS
<1> USE ConstantsAssumption DEF IInv
<1>t. TypeOK'
  BY TypeStep
<1>1. ASSUME NEW g \in Callers, NEW e \in Envelopes, CheckFresh(g, e)
      PROVE  PausesBounded' /\ ClaimProtected' /\ ClaimUnique'
  <2> USE <1>1, EnvelopeFields DEF TypeOK, Call, CheckFresh
  <2>1. PausesBounded'
    BY DEF PausesBounded, Fresh
  <2>2. ClaimProtected'
    BY DEF ClaimProtected, Claimed
  <2>3. ClaimUnique'
    BY DEF ClaimUnique
  <2> QED BY <2>1, <2>2, <2>3
<1>2. ASSUME NEW g \in Callers, RecordNonce(g)
      PROVE  PausesBounded' /\ ClaimProtected' /\ ClaimUnique'
  <2> DEFINE e == call[g].env
  <2>e. e \in Envelopes /\ call[g].now \in Nat /\ e.nonce \in Nonces /\ e.timestamp \in Int
    BY EnvelopeFields DEF TypeOK, Call
  <2>1. PausesBounded'
    BY <1>2 DEF PausesBounded, RecordNonce, TypeOK, Call
  <2>2. CASE firstSeen[e.nonce] # Never
    <3>1. UNCHANGED <<firstSeen, clock, accepted>> /\ call' = [call EXCEPT ![g].pc = "idle"]
      BY <1>2, <2>2 DEF RecordNonce
    <3>2. ClaimProtected'
      BY <3>1 DEF ClaimProtected, Claimed, TypeOK, Call
    <3>3. ClaimUnique'
      BY <3>1 DEF ClaimUnique, TypeOK, Call
    <3> QED BY <2>1, <3>2, <3>3
  <2>3. CASE firstSeen[e.nonce] = Never
    <3>1. /\ firstSeen' = [firstSeen EXCEPT ![e.nonce] = call[g].now]
          /\ call' = [call EXCEPT ![g].pc = "verify"]
          /\ UNCHANGED <<clock, accepted>>
          /\ call[g].pc = "lock"
      BY <1>2, <2>3 DEF RecordNonce
    (* Here the window assumption's work shows: a claimed envelope whose   *)
    (* nonce is forgotten is too old to pass the freshness check.          *)
    <3>2. ~ Claimed(e)
      <4>1. /\ e.timestamp >= call[g].now - TimestampSkew
            /\ clock <= call[g].now + MaxPause
        BY <3>1 DEF PausesBounded, Fresh
      <4>2. ~ (clock > e.timestamp + TimestampSkew + MaxPause)
        BY <4>1, <2>e DEF TypeOK
      <4> QED BY <4>2, <2>3, <2>e DEF ClaimProtected
    <3>3. call[g].now >= e.timestamp - TimestampSkew
      BY <3>1, <2>e DEF PausesBounded, Fresh
    <3>4. ClaimProtected'
      <4> SUFFICES ASSUME NEW f \in Envelopes, Claimed(f)'
                   PROVE  \/ /\ firstSeen'[f.nonce] # Never
                             /\ firstSeen'[f.nonce] >= f.timestamp - TimestampSkew
                          \/ clock' > f.timestamp + TimestampSkew + MaxPause
        BY DEF ClaimProtected
      <4>f. f.nonce \in Nonces /\ f.timestamp \in Int
        BY EnvelopeFields
      <4>1. CASE f = e
        BY <4>1, <3>1, <3>3, <2>e DEF TypeOK, Never
      <4>2. CASE f # e
        <5>1. Claimed(f)
          BY <4>2, <3>1, <2>e DEF Claimed, TypeOK, Call
        <5>2. \/ firstSeen[f.nonce] # Never /\ firstSeen[f.nonce] >= f.timestamp - TimestampSkew
              \/ clock > f.timestamp + TimestampSkew + MaxPause
          BY <5>1 DEF ClaimProtected
        <5> QED BY <5>2, <3>1, <2>3, <2>e, <4>f DEF TypeOK
      <4> QED BY <4>1, <4>2
    <3>5. ClaimUnique'
      <4>1. accepted[e] = 0 /\ \A h \in Callers : ~ (call[h].pc = "verify" /\ call[h].env = e)
        BY <3>2, <2>e DEF Claimed, TypeOK
      <4> QED BY <4>1, <3>1, <2>e DEF ClaimUnique, TypeOK, Call
    <3> QED BY <2>1, <3>4, <3>5
  <2> QED BY <2>2, <2>3
<1>3. ASSUME NEW g \in Callers, VerifySignature(g)
      PROVE  PausesBounded' /\ ClaimProtected' /\ ClaimUnique'
  <2>1. PausesBounded'
    BY <1>3 DEF PausesBounded, VerifySignature, TypeOK, Call
  <2>2. ClaimProtected'
    <3> SUFFICES ASSUME NEW f \in Envelopes, Claimed(f)' PROVE Claimed(f)
      BY <1>3 DEF ClaimProtected, VerifySignature
    <3> QED BY <1>3 DEF Claimed, VerifySignature, TypeOK, Call
  <2>3. ClaimUnique'
    BY <1>3 DEF ClaimUnique, VerifySignature, TypeOK, Call
  <2> QED BY <2>1, <2>2, <2>3
<1>4. CASE CleanExpiredNonces
  <2> USE <1>4 DEF CleanExpiredNonces
  <2>1. PausesBounded' /\ ClaimUnique'
    BY DEF PausesBounded, ClaimUnique
  <2>2. ClaimProtected'
    <3> SUFFICES ASSUME NEW f \in Envelopes, Claimed(f)
                 PROVE  \/ /\ firstSeen'[f.nonce] # Never
                           /\ firstSeen'[f.nonce] >= f.timestamp - TimestampSkew
                        \/ clock' > f.timestamp + TimestampSkew + MaxPause
      BY DEF ClaimProtected, Claimed
    <3>1. f.nonce \in Nonces /\ f.timestamp \in Int
      BY EnvelopeFields
    <3> QED
      BY <3>1, WindowAssumption DEF ClaimProtected, Expired, TypeOK, Never
  <2> QED BY <1>t, <2>1, <2>2
<1>5. CASE Tick
  <2>1. PausesBounded'
    BY <1>5 DEF PausesBounded, Tick, TypeOK, Call
  <2>2. ClaimProtected'
    BY <1>5, EnvelopeFields DEF ClaimProtected, Claimed, Tick, TypeOK
  <2>3. ClaimUnique'
    BY <1>5 DEF ClaimUnique, Tick
  <2> QED BY <1>t, <2>1, <2>2, <2>3
<1>6. CASE UNCHANGED vars
  BY <1>t, <1>6 DEF vars, PausesBounded, ClaimProtected, ClaimUnique, Claimed
<1>7. QED
  BY <1>t, <1>1, <1>2, <1>3, <1>4, <1>5, <1>6 DEF Next

(* Every variable of the validator keeps its type in every behaviour.      *)
THEOREM TypeCorrect == Spec => []TypeOK
<1>1. Init => TypeOK
  BY InitIInv DEF IInv
<1>2. QED
  BY <1>1, TypeStep, PTL DEF Spec

(* Replay protection (ValidateMessage, CleanExpiredNonces): no envelope is *)
(* accepted twice, for every number of concurrent validations.             *)
THEOREM ReplayProtection == Spec => []AtMostOnce
<1>1. IInv => AtMostOnce
  BY DEF IInv, ClaimUnique, AtMostOnce
<1>2. QED
  BY <1>1, InitIInv, NextIInv, PTL DEF Spec
===============================================================================
