------------------------- MODULE NostrTransportProofs -------------------------
(***************************************************************************)
(* Proofs about NostrTransport for any number of relays, connections,      *)
(* faults and events and any times with Window <= Retention: types, that   *)
(* Close leaves no goroutine behind, that a relay has one reader, and that *)
(* an event is handed over once.                                           *)
(***************************************************************************)
EXTENDS NostrTransport, FiniteSetTheorems, TLAPS

Dead == {"none", "gone"}
Alive == {k \in Conns : loop[k].pc \notin Dead}
One(b) == IF b THEN 1 ELSE 0

(* The wait group counts exactly the goroutines there are. *)
WgExact ==
    /\ wg = Cardinality(Alive) + One(health.pc \notin Dead) + One(cleaner)
    /\ main = "closed" => wg = 0

(* Connect starts them all, at its end. *)
Unstarted ==
    main = "connecting" =>
        /\ wg = 0 /\ health.pc = "none" /\ ~cleaner
        /\ \A k \in Conns : loop[k] = NoLoop

(* A relay's connection leads to it; the health check starts a loop for a  *)
(* connection that never had one; a loop serves the relay of the           *)
(* connection it was started for.                                          *)
ConnOK ==
    /\ \A r \in Relays : rs[r].conn # 0 => link[rs[r].conn].r = r
    /\ \A r \in Relays : rs[r].connected => rs[r].conn # 0
    /\ \A k \in Conns : link[k].r = 0 => loop[k].pc = "none"
    /\ \A k \in Alive : loop[k].r = link[k].r
    /\ health.pc \in {"look", "dial", "cancel", "spawn"} => health.r \in Relays
    /\ health.pc \in {"cancel", "spawn"} =>
           rs[health.r].conn # 0 /\ loop[rs[health.r].conn].pc = "none"

(* The only loop of a relay that was not cancelled is the one cancelSub    *)
(* cancels, and there is none when the health check starts the next.       *)
Current ==
    /\ \A k \in Alive : loop[k].cancelled \/ rs[loop[k].r].cancelSub = k
    /\ health.pc = "spawn" => \A k \in Alive : loop[k].r = health.r => loop[k].cancelled

(* What a subscription has yet to deliver is within the window; an event   *)
(* is seen after it was made.                                              *)
Timely ==
    /\ \A r \in Relays : \A e \in held[r] : made[e] <= now
    /\ \A k \in Conns : \A e \in loop[k].queue : made[e] <= now /\ now <= made[e] + Window
    /\ \A e \in Events : seen[e] # Never => made[e] <= seen[e] /\ seen[e] <= now

(* An event that was handed over, or is about to be, is remembered until   *)
(* no subscription asks for it any more.                                   *)
Taken(e) == given[e] > 0 \/ \E k \in Conns : e \in loop[k].ev

TakenOnce ==
    \A e \in Events :
        /\ Taken(e) => made[e] <= now /\ (seen[e] # Never \/ made[e] + Window < now)
        /\ given[e] <= 1
        /\ given[e] = 1 => \A k \in Conns : e \notin loop[k].ev
        /\ \A j, k \in Conns : e \in loop[j].ev /\ e \in loop[k].ev => j = k

Struct == WgExact /\ Unstarted /\ ConnOK /\ Current
IInv == TypeOK /\ Struct /\ Timely /\ TakenOnce

-----------------------------------------------------------------------------
(* Counting goroutines. *)

LEMMA AliveFinite == IsFiniteSet(Alive) /\ Cardinality(Alive) \in Nat
<1>1. IsFiniteSet(Conns)
    BY NRelaysAssumption, FS_Interval DEF Conns
<1>2. Alive \subseteq Conns
    BY DEF Alive
<1> QED BY <1>1, <1>2, FS_Subset, FS_CardinalityType

(* A loop that ends, and one that starts. *)
LEMMA AliveLess ==
    ASSUME NEW k \in Alive, Alive' = Alive \ {k}
    PROVE  Cardinality(Alive') = Cardinality(Alive) - 1 /\ Cardinality(Alive) >= 1
<1>1. Cardinality(Alive \ {k}) = Cardinality(Alive) - 1 /\ IsFiniteSet(Alive \ {k})
    BY AliveFinite, FS_RemoveElement
<1>2. Cardinality(Alive \ {k}) \in Nat
    BY <1>1, FS_CardinalityType
<1> QED BY <1>1, <1>2, AliveFinite

LEMMA AliveMore ==
    ASSUME NEW k, k \notin Alive, Alive' = Alive \cup {k}
    PROVE  Cardinality(Alive') = Cardinality(Alive) + 1
BY AliveFinite, FS_AddElement

(* Steps that start and end no goroutine, dial nothing and change no       *)
(* loop's relay keep the structure.                                        *)
SameLoops ==
    \A k \in Conns :
        /\ loop'[k].r = loop[k].r /\ loop'[k].cancelled = loop[k].cancelled
        /\ loop'[k].pc \in Dead <=> loop[k].pc \in Dead
        /\ loop'[k].pc = "none" <=> loop[k].pc = "none"
        /\ main = "connecting" => loop'[k] = loop[k]

SameConns ==
    /\ \A r \in Relays : /\ rs'[r].conn = rs[r].conn /\ rs'[r].cancelSub = rs[r].cancelSub
                         /\ rs'[r].connected => rs[r].connected
    /\ \A c \in Conns : link'[c].r = link[c].r

LEMMA StructFrame ==
    ASSUME TypeOK, Struct, SameLoops, SameConns, UNCHANGED <<wg, cleaner, health>>,
           main' = "connecting" => main = "connecting",
           main' = "closed" => main = "closed" \/ wg = 0
    PROVE  Struct'
<1>1. Alive' = Alive
    BY DEF SameLoops, Alive
<1>2. WgExact'
    BY <1>1 DEF Struct, WgExact
<1>3. Unstarted'
    BY DEF Struct, Unstarted, SameLoops
<1>4. ConnOK'
    <2>1. \A r \in Relays : rs[r].conn \in 0 .. MaxConns /\ rs[r].conn # 0 => rs[r].conn \in Conns
        BY NRelaysAssumption DEF TypeOK, Conns
    <2>2. \A r \in Relays : rs[r].conn \in 0 .. MaxConns
        BY DEF TypeOK
    <2> QED BY <1>1, <2>1, <2>2 DEF Struct, ConnOK, SameLoops, SameConns, Alive
<1>5. Current'
    <2>1. \A k \in Alive : loop[k].r \in Relays
        BY NRelaysAssumption DEF Struct, ConnOK, Alive, TypeOK, Relays, Dead
    <2> QED BY <1>1, <2>1 DEF Struct, Current, SameLoops, SameConns, Alive
<1> QED BY <1>2, <1>3, <1>4, <1>5 DEF Struct

(* Steps in which no event is published, received or handed over. *)
LEMMA EventFrame ==
    ASSUME Timely, TakenOnce, UNCHANGED <<seen, given, made, now, held>>,
           \A k \in Conns : loop'[k].queue \subseteq loop[k].queue /\ loop'[k].ev \subseteq loop[k].ev
    PROVE  Timely' /\ TakenOnce'
<1>1. Timely'
    BY DEF Timely, Never
<1>2. \A e \in Events : Taken(e)' => Taken(e)
    BY DEF Taken
<1>3. TakenOnce'
    BY <1>2 DEF TakenOnce, Never
<1> QED BY <1>1, <1>3

-----------------------------------------------------------------------------
(* The records of relays and loops. *)

RelayState == [conn : 0 .. MaxConns, connected : BOOLEAN,
               failures : 0 .. maxRelayFailures, cancelSub : 0 .. MaxConns]
LoopState == [pc : LoopPcs, r : 0 .. NRelays, conn : 0 .. MaxConns,
              cancelled : BOOLEAN, queue : SUBSET Events, ev : SUBSET Events]

LEMMA CountedType ==
    ASSUME NEW s \in RelayState
    PROVE  /\ Counted(s) \in RelayState
           /\ Counted(s).conn = s.conn /\ Counted(s).cancelSub = s.cancelSub
           /\ Counted(s).connected = s.connected
BY LimitsAssumption DEF RelayState, Counted, More

LEMMA FailedType ==
    ASSUME NEW s \in RelayState
    PROVE  /\ Failed(s) \in RelayState
           /\ Failed(s).conn = s.conn /\ Failed(s).cancelSub = s.cancelSub
           /\ Failed(s).connected => s.connected
<1> DEFINE n == More(s.failures)
           b == s.connected /\ n < maxRelayFailures
<1>1. n \in 0 .. maxRelayFailures
    BY LimitsAssumption DEF RelayState, More
<1>2. Failed(s) = [s EXCEPT !.failures = n, !.connected = b]
    BY DEF Failed
<1>3. b \in BOOLEAN /\ (b => s.connected)
    OBVIOUS
<1> HIDE DEF n, b
<1> QED BY <1>1, <1>2, <1>3 DEF RelayState

(* A step counts a failure of one relay. *)
LEMMA RelayFails ==
    ASSUME TypeOK, NEW r \in Relays, NEW s \in RelayState,
           s.conn = rs[r].conn, s.cancelSub = rs[r].cancelSub, s.connected => rs[r].connected,
           rs' = [rs EXCEPT ![r] = s],
           \A c \in Conns : link'[c].r = link[c].r
    PROVE  rs' \in [Relays -> RelayState] /\ SameConns
BY DEF TypeOK, RelayState, SameConns

LEMMA NoLoopType == NoLoop \in LoopState
BY NRelaysAssumption DEF NoLoop, LoopState, LoopPcs

LEMMA NewLoopType ==
    ASSUME NEW r \in 0 .. NRelays
    PROVE  /\ NewLoop(r) \in LoopState
           /\ NewLoop(r).pc = "top" /\ NewLoop(r).r = r /\ ~NewLoop(r).cancelled
           /\ NewLoop(r).queue = {} /\ NewLoop(r).ev = {}
<1>1. ~NoLoop.cancelled /\ NoLoop.queue = {} /\ NoLoop.ev = {}
    BY DEF NoLoop
<1> QED BY <1>1, NoLoopType DEF NewLoop, LoopState, LoopPcs

LEMMA FaultType ==
    ASSUME TypeOK, Fault \/ UNCHANGED faults
    PROVE  faults' \in 0 .. MaxFaults
BY NRelaysAssumption DEF TypeOK, Fault

(* A live loop moves on in its own code. *)
LEMMA LoopMoves ==
    ASSUME TypeOK, Struct, NEW k \in Alive, NEW s \in LoopState, SetLoop(k, s),
           s.pc \notin Dead, s.r = loop[k].r, s.cancelled = loop[k].cancelled
    PROVE  loop' \in [Conns -> LoopState] /\ SameLoops
<1>1. main # "connecting"
    BY DEF Struct, Unstarted, Alive, NoLoop, Dead
<1> QED BY <1>1 DEF TypeOK, SetLoop, SameLoops, Alive, LoopState, Dead

(* A live loop's relay. *)
LEMMA LoopRelay ==
    ASSUME TypeOK, Struct, NEW k \in Alive
    PROVE  loop[k].r \in Relays
BY NRelaysAssumption DEF TypeOK, Struct, ConnOK, Alive, Relays, Dead
-----------------------------------------------------------------------------
(* subscribeLoop. *)

LEMMA LoopDoneInv ==
    ASSUME IInv, NEW k \in Conns, LoopDone(k)
    PROVE  IInv'
<1> DEFINE s == [NoLoop EXCEPT !.pc = "gone"]
<1>1. /\ s \in LoopState /\ s.pc = "gone" /\ s.queue = {} /\ s.ev = {}
      /\ loop' = [loop EXCEPT ![k] = s]
    BY NoLoopType DEF LoopDone, SetLoop, NoLoop, LoopState, LoopPcs
<1>2. k \in Alive /\ main # "connecting"
    BY DEF LoopDone, Alive, Dead, IInv, Struct, Unstarted, NoLoop
<1> HIDE DEF s
<1>3. loop' \in [Conns -> LoopState]
    BY <1>1 DEF IInv, TypeOK, LoopState
<1>4. Alive' = Alive \ {k}
    BY <1>1 DEF Alive, Dead, IInv, TypeOK
<1>5. WgExact' /\ wg' \in Nat
    <2>1. Cardinality(Alive') = Cardinality(Alive) - 1 /\ Cardinality(Alive) >= 1
        BY <1>2, <1>4, AliveLess
    <2>2. /\ wg' = wg - 1 /\ UNCHANGED <<health, cleaner, main>>
          /\ wg = Cardinality(Alive) + One(health.pc \notin Dead) + One(cleaner)
          /\ main = "closed" => wg = 0
        BY DEF LoopDone, IInv, Struct, WgExact
    <2>3. One(health.pc \notin Dead) \in {0, 1} /\ One(cleaner) \in {0, 1}
        BY DEF One
    <2>4. wg >= 1 /\ wg' \in Nat
        BY <2>1, <2>2, <2>3, AliveFinite DEF IInv, TypeOK
    <2>5. wg' = Cardinality(Alive') + One(health.pc \notin Dead) + One(cleaner)
        BY <2>1, <2>2, <2>3, AliveFinite
    <2> QED BY <2>2, <2>4, <2>5 DEF WgExact
<1>6. Unstarted'
    BY <1>2 DEF LoopDone, Unstarted
<1>7. ConnOK'
    BY <1>1, <1>2, <1>4 DEF LoopDone, IInv, TypeOK, Struct, ConnOK, Alive, Dead
<1>8. Current'
    BY <1>1, <1>4 DEF LoopDone, IInv, TypeOK, Struct, Current, Alive, Dead
<1>9. Timely' /\ TakenOnce'
    BY <1>1, EventFrame DEF LoopDone, inVars, worldVars, IInv, TypeOK
<1>10. TypeOK'
    BY <1>3, <1>5 DEF LoopDone, inVars, worldVars, IInv, TypeOK, LoopState
<1> QED BY <1>5, <1>6, <1>7, <1>8, <1>9, <1>10 DEF IInv, Struct

LEMMA LoopTopInv ==
    ASSUME IInv, NEW k \in Conns, LoopTop(k)
    PROVE  IInv'
<1> DEFINE s == [loop[k] EXCEPT !.pc = "subscribe", !.conn = rs[loop[k].r].conn]
<1>1. k \in Alive
    BY DEF LoopTop, Alive, Dead
<1>2. /\ s \in LoopState /\ s.pc = "subscribe" /\ s.r = loop[k].r
      /\ s.cancelled = loop[k].cancelled /\ s.queue = loop[k].queue /\ s.ev = loop[k].ev
    BY <1>1, LoopRelay DEF IInv, TypeOK, LoopState, LoopPcs
<1>3. SetLoop(k, s)
    BY DEF LoopTop
<1> HIDE DEF s
<1>4. loop' \in [Conns -> LoopState] /\ SameLoops
    BY <1>1, <1>2, <1>3, LoopMoves DEF IInv, Dead
<1>5. Struct'
    BY <1>4, StructFrame DEF LoopTop, IInv, SameConns
<1>6. Timely' /\ TakenOnce'
    BY <1>2, <1>3, EventFrame DEF LoopTop, SetLoop, inVars, worldVars, IInv, TypeOK
<1>7. TypeOK'
    BY <1>4 DEF LoopTop, inVars, worldVars, IInv, TypeOK, LoopState
<1> QED BY <1>5, <1>6, <1>7 DEF IInv

LEMMA LoopSubscribedInv ==
    ASSUME IInv, NEW k \in Conns, LoopSubscribed(k)
    PROVE  IInv'
<1> DEFINE q == {e \in held[loop[k].r] : made[e] + Window >= now}
           s == [loop[k] EXCEPT !.pc = "read", !.queue = q]
<1>1. k \in Alive
    BY DEF LoopSubscribed, Alive, Dead
<1>2. q \subseteq Events /\ \A e \in q : made[e] <= now /\ now <= made[e] + Window
    <2>1. \A e \in Events : made[e] + Window >= now <=> now <= made[e] + Window
        BY RetentionAssumption DEF IInv, TypeOK
    <2> QED BY <1>1, <2>1, LoopRelay DEF IInv, TypeOK, Timely
<1> HIDE DEF q
<1>3. /\ s \in LoopState /\ s.pc = "read" /\ s.r = loop[k].r
      /\ s.cancelled = loop[k].cancelled /\ s.queue = q /\ s.ev = loop[k].ev
    BY <1>2 DEF IInv, TypeOK, LoopState, LoopPcs
<1>4. SetLoop(k, s)
    BY DEF LoopSubscribed, q
<1> HIDE DEF s
<1>5. loop' \in [Conns -> LoopState] /\ SameLoops
    BY <1>1, <1>3, <1>4, LoopMoves DEF IInv, Dead
<1>6. Struct'
    BY <1>5, StructFrame DEF LoopSubscribed, IInv, SameConns
<1>7. \A j \in Conns : loop'[j].ev = loop[j].ev /\ loop'[j].queue \subseteq loop[j].queue \cup q
    BY <1>3, <1>4 DEF SetLoop, IInv, TypeOK
<1>8. Timely'
    BY <1>2, <1>7 DEF LoopSubscribed, inVars, worldVars, IInv, Timely, Never
<1>9. TakenOnce'
    BY <1>7 DEF LoopSubscribed, inVars, worldVars, IInv, TakenOnce, Taken, Never
<1>10. TypeOK'
    BY <1>5 DEF LoopSubscribed, inVars, worldVars, IInv, TypeOK, LoopState
<1> QED BY <1>6, <1>8, <1>9, <1>10 DEF IInv

(* A subscription failed or ended: the loop starts over. *)
LEMMA LoopFails ==
    ASSUME IInv, NEW k \in Alive, NEW s \in LoopState, SetLoop(k, s),
           s.pc \notin Dead, s.r = loop[k].r, s.cancelled = loop[k].cancelled,
           s.queue \subseteq loop[k].queue, s.ev \subseteq loop[k].ev,
           Fault \/ UNCHANGED faults,
           rs' = [rs EXCEPT ![loop[k].r] = Failed(@)],
           UNCHANGED <<main, tried, link, health, cleaner, wg>>, UNCHANGED <<inVars, worldVars>>
    PROVE  IInv'
<1>1. loop' \in [Conns -> LoopState] /\ SameLoops
    BY LoopMoves DEF IInv
<1>2. rs' \in [Relays -> RelayState] /\ SameConns
    <2>1. loop[k].r \in Relays
        BY LoopRelay DEF IInv
    <2>2. rs[loop[k].r] \in RelayState
        BY <2>1 DEF IInv, TypeOK, RelayState
    <2> QED BY <2>1, <2>2, FailedType, RelayFails DEF IInv
<1>3. Struct'
    BY <1>1, <1>2, StructFrame DEF IInv
<1>4. Timely' /\ TakenOnce'
    <2>1. \A j \in Conns : loop'[j].queue \subseteq loop[j].queue /\ loop'[j].ev \subseteq loop[j].ev
        BY DEF SetLoop, IInv, TypeOK
    <2> QED BY <2>1, EventFrame DEF inVars, worldVars, IInv
<1>5. TypeOK'
    BY <1>1, <1>2, FaultType DEF inVars, worldVars, IInv, TypeOK, LoopState, RelayState
<1> QED BY <1>3, <1>4, <1>5 DEF IInv

LEMMA LoopNotSubscribedInv ==
    ASSUME IInv, NEW k \in Conns, LoopNotSubscribed(k)
    PROVE  IInv'
<1> DEFINE s == [loop[k] EXCEPT !.pc = "top", !.conn = 0]
<1>1. k \in Alive
    BY DEF LoopNotSubscribed, Alive, Dead
<1>2. /\ s \in LoopState /\ s.pc = "top" /\ s.r = loop[k].r /\ s.cancelled = loop[k].cancelled
      /\ s.queue = loop[k].queue /\ s.ev = loop[k].ev
    <2>1. loop[k] \in LoopState /\ 0 \in 0 .. MaxConns
        BY NRelaysAssumption DEF IInv, TypeOK, LoopState
    <2> QED BY <2>1 DEF LoopState, LoopPcs
<1>3. SetLoop(k, s)
    BY DEF LoopNotSubscribed
<1> HIDE DEF s
<1> QED BY <1>1, <1>2, <1>3, LoopFails DEF LoopNotSubscribed, Dead

LEMMA LoopClosedInv ==
    ASSUME IInv, NEW k \in Conns, LoopClosed(k)
    PROVE  IInv'
<1> DEFINE s == [loop[k] EXCEPT !.pc = "top", !.conn = 0, !.queue = {}]
<1>1. k \in Alive
    BY DEF LoopClosed, Alive, Dead
<1>2. /\ s \in LoopState /\ s.pc = "top" /\ s.r = loop[k].r /\ s.cancelled = loop[k].cancelled
      /\ s.queue = {} /\ s.ev = loop[k].ev
    <2>1. loop[k] \in LoopState /\ 0 \in 0 .. MaxConns
        BY NRelaysAssumption DEF IInv, TypeOK, LoopState
    <2> QED BY <2>1 DEF LoopState, LoopPcs
<1>3. SetLoop(k, s)
    BY DEF LoopClosed
<1> HIDE DEF s
<1> QED BY <1>1, <1>2, <1>3, LoopFails DEF LoopClosed, Dead

LEMMA LoadOrStoreInv ==
    ASSUME IInv, NEW k \in Conns, NEW e \in Events, LoadOrStore(k, e)
    PROVE  IInv'
<1> DEFINE s == IF seen[e] # Never THEN [loop[k] EXCEPT !.queue = @ \ {e}]
                ELSE [loop[k] EXCEPT !.queue = @ \ {e}, !.ev = {e}, !.pc = "event"]
<1>1. k \in Alive /\ e \in loop[k].queue
    BY DEF LoadOrStore, Alive, Dead
<1>2. loop[k] \in LoopState /\ loop[k].pc = "read"
    BY DEF LoadOrStore, IInv, TypeOK, LoopState
<1>3. /\ s \in LoopState /\ s.pc \in {"read", "event"} /\ s.r = loop[k].r
      /\ s.cancelled = loop[k].cancelled /\ s.queue \subseteq loop[k].queue
      /\ s.ev = IF seen[e] # Never THEN loop[k].ev ELSE {e}
    BY <1>2 DEF LoopState, LoopPcs
<1>4. SetLoop(k, s)
    BY DEF LoadOrStore
<1> HIDE DEF s
<1>5. loop' \in [Conns -> LoopState] /\ SameLoops
    BY <1>1, <1>3, <1>4, LoopMoves DEF IInv, Dead
<1>6. Struct'
    BY <1>5, StructFrame DEF LoadOrStore, IInv, SameConns
<1>7. \A j \in Conns : /\ loop'[j].queue \subseteq loop[j].queue
                       /\ loop'[j].ev = IF j = k THEN s.ev ELSE loop[j].ev
    BY <1>3, <1>4 DEF SetLoop, IInv, TypeOK
<1>8. Timely' /\ TakenOnce'
    <2>1. CASE seen[e] # Never
        BY <1>3, <1>7, <2>1, EventFrame DEF LoadOrStore, worldVars, IInv
    <2>2. CASE seen[e] = Never
        <3>1. /\ seen' = [seen EXCEPT ![e] = now] /\ UNCHANGED <<given, made, now, held>>
              /\ now # Never /\ made[e] <= now /\ now <= made[e] + Window
            BY <1>1, <2>2, RetentionAssumption DEF LoadOrStore, worldVars, IInv, TypeOK, Timely, Never
        <3>2. ~Taken(e)
            BY <2>2, <3>1, RetentionAssumption DEF IInv, TakenOnce, TypeOK
        <3>3. \A f \in Events : f # e => (Taken(f)' => Taken(f))
            BY <1>3, <1>7, <2>2, <3>1 DEF Taken
        <3>4. Timely'
            BY <1>7, <3>1 DEF IInv, TypeOK, Timely, Never
        <3>5. \A f \in Events : seen'[f] = IF f = e THEN now ELSE seen[f]
            BY <3>1 DEF IInv, TypeOK
        <3>6. Never' = Never
            BY DEF Never
        <3>7. TakenOnce'
            <4> SUFFICES ASSUME NEW f \in Events
                         PROVE  (/\ Taken(f) => made[f] <= now /\ (seen[f] # Never \/ made[f] + Window < now)
                                 /\ given[f] <= 1
                                 /\ given[f] = 1 => \A i \in Conns : f \notin loop[i].ev
                                 /\ \A i, j \in Conns : f \in loop[i].ev /\ f \in loop[j].ev => i = j)'
                BY DEF TakenOnce
            <4>1. CASE f = e
                <5>1. given[e] = 0 /\ \A j \in Conns : e \notin loop[j].ev
                    BY <3>2 DEF Taken, IInv, TypeOK
                <5> QED BY <1>7, <3>1, <3>5, <3>6, <4>1, <5>1
            <4>2. CASE f # e
                BY <1>3, <1>7, <2>2, <3>1, <3>3, <3>5, <3>6, <4>2 DEF IInv, TakenOnce
            <4> QED BY <4>1, <4>2
        <3> QED BY <3>4, <3>7
    <2> QED BY <2>1, <2>2
<1>9. seen' \in [Events -> 0 .. MaxTime + 1]
    BY RetentionAssumption DEF LoadOrStore, IInv, TypeOK
<1>10. TypeOK'
    BY <1>5, <1>9 DEF LoadOrStore, worldVars, IInv, TypeOK, LoopState
<1> QED BY <1>6, <1>8, <1>10 DEF IInv

LEMMA DeliverInv ==
    ASSUME IInv, NEW k \in Conns, NEW room \in BOOLEAN, Deliver(k, room)
    PROVE  IInv'
<1> DEFINE s == [loop[k] EXCEPT !.pc = "read", !.ev = {}]
<1>1. k \in Alive
    BY DEF Deliver, Alive, Dead
<1>2. loop[k] \in LoopState
    BY DEF IInv, TypeOK, LoopState
<1>3. /\ s \in LoopState /\ s.pc = "read" /\ s.r = loop[k].r
      /\ s.cancelled = loop[k].cancelled /\ s.queue = loop[k].queue /\ s.ev = {}
    BY <1>2 DEF LoopState, LoopPcs
<1>4. SetLoop(k, s)
    BY DEF Deliver
<1> HIDE DEF s
<1>5. loop' \in [Conns -> LoopState] /\ SameLoops
    BY <1>1, <1>3, <1>4, LoopMoves DEF IInv, Dead
<1>6. Struct'
    BY <1>5, StructFrame DEF Deliver, IInv, SameConns
<1>7. \A j \in Conns : /\ loop'[j].queue = loop[j].queue
                       /\ loop'[j].ev = IF j = k THEN {} ELSE loop[j].ev
    BY <1>3, <1>4 DEF SetLoop, IInv, TypeOK
<1>8. /\ UNCHANGED <<seen, made, now, held>>
      /\ given' = [e \in Events |-> IF room /\ e \in loop[k].ev THEN given[e] + 1 ELSE given[e]]
    BY DEF Deliver, worldVars
<1>9. Timely'
    BY <1>7, <1>8 DEF IInv, Timely, Never
<1>10. given' \in [Events -> Nat]
    BY <1>8 DEF IInv, TypeOK
<1>11. TakenOnce'
    <2> SUFFICES ASSUME NEW e \in Events
                 PROVE  (/\ Taken(e) => made[e] <= now /\ (seen[e] # Never \/ made[e] + Window < now)
                         /\ given[e] <= 1
                         /\ given[e] = 1 => \A j \in Conns : e \notin loop[j].ev
                         /\ \A i, j \in Conns : e \in loop[i].ev /\ e \in loop[j].ev => i = j)'
        BY DEF TakenOnce
    <2>1. Never' = Never /\ given[e] \in Nat
        BY DEF Never, IInv, TypeOK
    <2>2. Taken(e)' => Taken(e)
        BY <1>7, <1>8 DEF Taken
    <2>3. CASE room /\ e \in loop[k].ev
        <3>1. given[e] = 0 /\ given'[e] = 1
            BY <1>8, <2>1, <2>3 DEF IInv, TakenOnce
        <3> QED BY <1>7, <1>8, <2>1, <2>2, <2>3, <3>1 DEF IInv, TakenOnce
    <2>4. CASE ~(room /\ e \in loop[k].ev)
        <3>1. given'[e] = given[e]
            BY <1>8, <2>4
        <3> QED BY <1>7, <1>8, <2>1, <2>2, <3>1 DEF IInv, TakenOnce
    <2> QED BY <2>3, <2>4
<1>12. TypeOK'
    BY <1>5, <1>10 DEF Deliver, worldVars, IInv, TypeOK, LoopState
<1> QED BY <1>6, <1>9, <1>11, <1>12 DEF IInv

-----------------------------------------------------------------------------
(* Connecting and the health check. *)

(* The connection a dial makes is one there was not before. *)
LEMMA FreshConn ==
    ASSUME TypeOK, NEW d \in Conns, link[d].r = 0
    PROVE  Fresh \in Conns /\ link[Fresh].r = 0
<1> DEFINE T == {c \in Conns : link[c].r = 0}
           R == OpToRel(<, Nat)
<1>1. T \subseteq Nat /\ T # {}
    BY NRelaysAssumption DEF Conns
<1>2. \E x \in T : \A y \in T : ~(<<y, x>> \in R)
    BY <1>1, NatLessThanWellFounded, WFMin
<1>3. \A x, y \in Nat : <<y, x>> \in R <=> y < x
    BY DEF OpToRel
<1> HIDE DEF R
<1>4. \E c \in Conns : link[c].r = 0 /\ \A e \in Conns : link[e].r = 0 => c <= e
    <2>1. PICK x \in T : \A y \in T : ~(<<y, x>> \in R)
        BY <1>2
    <2>2. \A y \in T : x <= y
        <3> HIDE DEF T
        <3>1. \A y \in T : ~(y < x)
            BY <1>1, <1>3, <2>1, Zenon
        <3> QED BY <1>1, <3>1
    <2> QED BY <2>2
<1> QED BY <1>4 DEF Fresh

LEMMA DialedEffect ==
    ASSUME IInv, NEW r \in Relays, Dialed(r)
    PROVE  \E c \in Conns :
               /\ link[c].r = 0 /\ loop[c].pc = "none" /\ c # 0
               /\ link' = [link EXCEPT ![c] = [r |-> r, open |-> TRUE]]
               /\ rs' = [rs EXCEPT ![r] = [conn |-> c, connected |-> TRUE, failures |-> 0,
                                          cancelSub |-> rs[r].cancelSub]]
               /\ rs' \in [Relays -> RelayState]
               /\ link' \in [Conns -> [r : 0 .. NRelays, open : BOOLEAN]]
<1>1. Fresh \in Conns /\ link[Fresh].r = 0
    BY FreshConn DEF Dialed, IInv
<1>2. Fresh \in 0 .. MaxConns /\ Fresh # 0 /\ r \in 0 .. NRelays
    BY <1>1, NRelaysAssumption DEF Conns, Relays
<1>3. loop[Fresh].pc = "none"
    BY <1>1 DEF IInv, Struct, ConnOK
<1>4. link' = [link EXCEPT ![Fresh] = [r |-> r, open |-> TRUE]]
    BY DEF Dialed
<1>5. rs' = [rs EXCEPT ![r] = [conn |-> Fresh, connected |-> TRUE, failures |-> 0,
                               cancelSub |-> rs[r].cancelSub]]
    BY DEF Dialed
<1>6. link' \in [Conns -> [r : 0 .. NRelays, open : BOOLEAN]]
    BY <1>2, <1>4 DEF IInv, TypeOK
<1>7. rs' \in [Relays -> RelayState]
    <2>1. rs \in [Relays -> RelayState]
        BY DEF IInv, TypeOK, RelayState
    <2>2. [conn |-> Fresh, connected |-> TRUE, failures |-> 0, cancelSub |-> rs[r].cancelSub] \in RelayState
        BY <1>2, <2>1, LimitsAssumption DEF RelayState
    <2> QED BY <1>5, <2>1, <2>2
<1> QED BY <1>1, <1>2, <1>3, <1>4, <1>5, <1>6, <1>7

LEMMA DialFailedEffect ==
    ASSUME IInv, NEW r \in Relays, DialFailed(r)
    PROVE  rs' \in [Relays -> RelayState] /\ SameConns /\ UNCHANGED link
<1>1. rs[r] \in RelayState
    BY DEF IInv, TypeOK, RelayState
<1> QED BY <1>1, CountedType, RelayFails DEF DialFailed, IInv

(* A dial touches no loop; it gives the relay a connection without one. *)
LEMMA DialedStruct ==
    ASSUME IInv, NEW r \in Relays, Dialed(r), UNCHANGED <<loop, wg, main, cleaner>>,
           health' = health \/ (health.pc \notin Dead /\ health' = [pc |-> "cancel", r |-> r]),
           health.pc \notin {"cancel", "spawn"}
    PROVE  Struct'
<1>1. PICK c \in Conns :
               /\ link[c].r = 0 /\ loop[c].pc = "none" /\ c # 0
               /\ link' = [link EXCEPT ![c] = [r |-> r, open |-> TRUE]]
               /\ rs' = [rs EXCEPT ![r] = [conn |-> c, connected |-> TRUE, failures |-> 0,
                                          cancelSub |-> rs[r].cancelSub]]
    BY DialedEffect
<1>2. Alive' = Alive /\ c \notin Alive
    BY <1>1 DEF Alive, Dead
<1>3. health'.pc \notin Dead <=> health.pc \notin Dead
    BY DEF Dead
<1>4. WgExact'
    BY <1>2, <1>3 DEF IInv, Struct, WgExact, One
<1>5. Unstarted'
    BY <1>3 DEF IInv, Struct, Unstarted, Dead
<1>6. /\ \A q \in Relays : rs'[q].conn = IF q = r THEN c ELSE rs[q].conn
      /\ \A q \in Relays : rs'[q].cancelSub = rs[q].cancelSub
      /\ \A q \in Relays : q # r => rs'[q].connected = rs[q].connected
    BY <1>1 DEF IInv, TypeOK
<1>7. \A d \in Conns : link'[d].r = IF d = c THEN r ELSE link[d].r
    BY <1>1 DEF IInv, TypeOK
<1>8. r # 0 /\ 0 \notin Relays /\ \A q \in Relays : rs[q].conn # 0 => rs[q].conn \in Conns
    BY NRelaysAssumption DEF Relays, Conns, IInv, TypeOK
<1>9. ConnOK'
    <2>1. \A q \in Relays : rs'[q].conn # 0 => link'[rs'[q].conn].r = q
        BY <1>1, <1>6, <1>7, <1>8 DEF IInv, Struct, ConnOK
    <2>2. \A q \in Relays : rs'[q].connected => rs'[q].conn # 0
        BY <1>1, <1>6 DEF IInv, Struct, ConnOK
    <2>3. \A k \in Conns : link'[k].r = 0 => loop'[k].pc = "none"
        BY <1>7, <1>8 DEF IInv, Struct, ConnOK
    <2>4. \A k \in Alive' : loop'[k].r = link'[k].r
        BY <1>2, <1>7 DEF IInv, Struct, ConnOK, Alive
    <2>5. /\ health'.pc \in {"look", "dial", "cancel", "spawn"} => health'.r \in Relays
          /\ health'.pc \in {"cancel", "spawn"} =>
                 rs'[health'.r].conn # 0 /\ loop'[rs'[health'.r].conn].pc = "none"
        <3>1. CASE health' = health
            BY <3>1 DEF IInv, Struct, ConnOK
        <3>2. CASE health' = [pc |-> "cancel", r |-> r]
            <4>1. health'.r = r /\ rs'[r].conn = c /\ loop'[c].pc = "none"
                BY <1>1, <1>6, <3>2
            <4> QED BY <1>1, <4>1
        <3> QED BY <3>1, <3>2
    <2> QED BY <2>1, <2>2, <2>3, <2>4, <2>5 DEF ConnOK
<1>10. Current'
    <2>1. \A k \in Alive : loop[k].r \in Relays
        BY LoopRelay DEF IInv
    <2>2. health'.pc # "spawn"
        OBVIOUS
    <2> QED BY <1>2, <1>6, <2>1, <2>2 DEF IInv, Struct, Current
<1> QED BY <1>4, <1>5, <1>9, <1>10 DEF Struct

LEMMA ConnectRelayInv ==
    ASSUME IInv, NEW r \in Relays, ConnectRelay(r)
    PROVE  IInv'
<1>1. /\ rs' \in [Relays -> RelayState]
      /\ link' \in [Conns -> [r : 0 .. NRelays, open : BOOLEAN]]
    BY DialedEffect, DialFailedEffect DEF ConnectRelay, IInv, TypeOK
<1>2. TypeOK'
    <2>1. tried' \in 0 .. NRelays
        BY NRelaysAssumption DEF ConnectRelay, Relays
    <2> QED BY <1>1, <2>1 DEF ConnectRelay, inVars, worldVars, IInv, TypeOK, RelayState
<1>3. Struct'
    <2>1. CASE Dialed(r)
        <3>1. health.pc = "none"
            BY DEF ConnectRelay, IInv, Struct, Unstarted
        <3> QED BY <2>1, <3>1, DialedStruct DEF ConnectRelay
    <2>2. CASE DialFailed(r)
        BY <2>2, DialFailedEffect, StructFrame DEF ConnectRelay, IInv, SameLoops
    <2> QED BY <2>1, <2>2 DEF ConnectRelay
<1>4. Timely' /\ TakenOnce'
    BY EventFrame DEF ConnectRelay, inVars, worldVars, IInv
<1> QED BY <1>2, <1>3, <1>4 DEF IInv

(* Every relay Connect reached gets its own loop. *)
LEMMA ConnectStartInv ==
    ASSUME IInv, ConnectStart
    PROVE  IInv'
<1> DEFINE live == {r \in Relays : rs[r].connected}
           mine == {k \in Conns : \E r \in live : rs[r].conn = k}
<1>1. Timely' /\ TakenOnce'
    <2>1. \A k \in Conns : loop'[k].queue \subseteq loop[k].queue /\ loop'[k].ev \subseteq loop[k].ev
        <3>1. \A k \in Conns : loop'[k] = loop[k] \/ loop'[k] = NewLoop(link[k].r)
            BY DEF ConnectStart
        <3>2. \A k \in Conns : link[k].r \in 0 .. NRelays
            BY DEF IInv, TypeOK
        <3> QED BY <3>1, <3>2, NewLoopType
    <2> QED BY <2>1, EventFrame DEF ConnectStart, inVars, worldVars, IInv
<1>2. CASE live = {}
    <2>1. main' = "failed" /\ UNCHANGED <<rs, loop, health, cleaner, wg, link>>
        BY <1>2 DEF ConnectStart
    <2>2. Struct'
        BY <2>1, StructFrame DEF IInv, SameLoops, SameConns
    <2>3. TypeOK'
        BY <2>1 DEF ConnectStart, inVars, worldVars, IInv, TypeOK
    <2> QED BY <1>1, <2>2, <2>3 DEF IInv
<1>3. CASE live # {}
    <2>1. /\ main = "connecting" /\ main' = "up" /\ UNCHANGED link
          /\ rs' = [r \in Relays |-> IF r \in live THEN [rs[r] EXCEPT !.cancelSub = rs[r].conn]
                                     ELSE rs[r]]
          /\ loop' = [k \in Conns |-> IF k \in mine THEN NewLoop(link[k].r) ELSE loop[k]]
          /\ health' = [health EXCEPT !.pc = "idle"]
          /\ cleaner' = TRUE
          /\ wg' = wg + Cardinality(live) + 2
        BY <1>3 DEF ConnectStart
    <2>2. wg = 0 /\ \A k \in Conns : loop[k] = NoLoop /\ loop[k].pc = "none"
        BY <2>1 DEF IInv, Struct, Unstarted, NoLoop
    <2>3. \A r \in live : rs[r].conn \in mine /\ link[rs[r].conn].r = r /\ r \in Relays
        BY NRelaysAssumption DEF Conns, IInv, TypeOK, Struct, ConnOK
    <2>4. \A k \in mine : link[k].r \in live /\ rs[link[k].r].conn = k
        BY <2>3
    <2>5. IsFiniteSet(live) /\ Cardinality(live) = Cardinality(mine) /\ Cardinality(live) \in Nat
        <3> DEFINE f == [r \in live |-> rs[r].conn]
        <3>1. f \in [live -> mine] /\ \A r \in live : f[r] = rs[r].conn
            BY <2>3
        <3>2. \A q, r \in live : f[q] = f[r] => q = r
            BY <2>3, <3>1
        <3>3. \A k \in mine : \E r \in live : f[r] = k
            BY <3>1, <2>4
        <3>4. IsFiniteSet(live)
            <4>1. live \subseteq Relays /\ IsFiniteSet(Relays)
                BY NRelaysAssumption, FS_Interval DEF Relays
            <4> QED BY <4>1, FS_Subset
        <3> HIDE DEF f, live, mine
        <3>5. f \in Bijection(live, mine)
            BY <3>1, <3>2, <3>3 DEF Bijection, Injection, Surjection, IsInjective
        <3>6. ExistsBijection(live, mine)
            BY <3>5 DEF ExistsBijection
        <3> QED BY <3>4, <3>6, FS_Bijection, FS_CardinalityType
    <2>6. \A k \in Conns :
            /\ k \in mine => /\ loop'[k] \in LoopState /\ loop'[k].pc = "top"
                             /\ loop'[k].r = link[k].r
            /\ k \notin mine => loop'[k] = NoLoop /\ loop'[k].pc = "none"
        <3>1. \A k \in Conns : link[k].r \in 0 .. NRelays
            BY DEF IInv, TypeOK
        <3> QED BY <2>1, <2>2, <3>1, NewLoopType
    <2>7. loop' \in [Conns -> LoopState]
        BY <2>1, <2>6, NoLoopType
    <2>8. \A r \in Relays :
            /\ rs'[r].conn = rs[r].conn /\ rs'[r].connected = rs[r].connected
            /\ r \in live => rs'[r].cancelSub = rs[r].conn
        <3>1. \A r \in Relays : rs[r] \in RelayState
            BY DEF IInv, TypeOK, RelayState
        <3> QED BY <2>1, <3>1 DEF RelayState
    <2>9. rs' \in [Relays -> RelayState]
        <3>1. rs \in [Relays -> RelayState]
            BY DEF IInv, TypeOK, RelayState
        <3> QED BY <2>1, <3>1 DEF RelayState
    <2>10. Alive' = mine
        <3>1. mine \subseteq Conns
            OBVIOUS
        <3> HIDE DEF mine
        <3> QED BY <2>6, <3>1 DEF Alive, Dead
    <2> HIDE DEF live, mine
    <2>11. health'.pc = "idle" /\ health' \in [pc : {"none", "idle", "look", "dial", "cancel", "spawn", "gone"},
                   r : 0 .. NRelays]
        BY <2>1 DEF IInv, TypeOK
    <2>12. WgExact' /\ wg' \in Nat
        <3>1. One(health'.pc \notin Dead) = 1 /\ One(cleaner') = 1
            BY <2>1, <2>11 DEF One, Dead
        <3> QED BY <2>1, <2>2, <2>5, <2>10, <3>1 DEF WgExact
    <2>13. Unstarted'
        BY <2>1 DEF Unstarted
    <2>14. ConnOK'
        <3>1. \A k \in Conns : link'[k].r = 0 => loop'[k].pc = "none"
            <4>1. 0 \notin Relays
                BY NRelaysAssumption DEF Relays
            <4>2. \A k \in mine : link[k].r # 0
                BY <2>3, <2>4, <4>1
            <4> QED BY <2>1, <2>6, <4>2
        <3>2. \A k \in Alive' : loop'[k].r = link'[k].r
            BY <2>1, <2>6, <2>10 DEF Alive
        <3> QED BY <2>1, <2>8, <2>11, <3>1, <3>2 DEF IInv, Struct, ConnOK
    <2>15. Current'
        <3>1. \A k \in mine : rs'[link[k].r].cancelSub = k
            BY <2>3, <2>4, <2>8
        <3> QED BY <2>1, <2>6, <2>10, <2>11, <3>1 DEF Current, Alive
    <2>16. TypeOK'
        BY <2>1, <2>7, <2>9, <2>11, <2>12 DEF ConnectStart, inVars, worldVars, IInv, TypeOK, LoopState, RelayState
    <2> QED BY <1>1, <2>12, <2>13, <2>14, <2>15, <2>16 DEF IInv, Struct
<1> QED BY <1>2, <1>3

HealthState == [pc : {"none", "idle", "look", "dial", "cancel", "spawn", "gone"}, r : 0 .. NRelays]

(* The health check goes on to look at relays. *)
LEMMA HealthFrame ==
    ASSUME IInv, health.pc \notin Dead, health'.pc \in {"idle", "look", "dial"},
           health'.pc # "idle" => health'.r \in Relays,
           SameConns, UNCHANGED <<loop, wg, cleaner, main>>
    PROVE  Struct'
<1>1. Alive' = Alive
    BY DEF Alive
<1>2. WgExact'
    BY <1>1 DEF IInv, Struct, WgExact, One, Dead
<1>3. Unstarted'
    BY DEF IInv, Struct, Unstarted, Dead
<1>4. ConnOK'
    <2>1. \A r \in Relays : rs[r].conn # 0 => rs[r].conn \in Conns
        BY NRelaysAssumption DEF IInv, TypeOK, Conns
    <2> QED BY <1>1, <2>1 DEF IInv, Struct, ConnOK, SameConns, Alive
<1>5. Current'
    <2>1. \A k \in Alive : loop[k].r \in Relays
        BY LoopRelay DEF IInv
    <2> QED BY <1>1, <2>1 DEF IInv, Struct, Current, SameConns
<1> QED BY <1>2, <1>3, <1>4, <1>5 DEF Struct

LEMMA ProceedEffect ==
    ASSUME NEW r \in Relays, Proceed(r)
    PROVE  /\ health' \in HealthState /\ health'.pc \in {"idle", "look"}
           /\ health'.pc # "idle" => health'.r \in Relays
<1>1. CASE r = NRelays
    BY <1>1, NRelaysAssumption DEF Proceed, HealthState
<1>2. CASE r # NRelays
    <2>1. r + 1 \in Relays /\ r + 1 \in 0 .. NRelays
        BY <1>2, NRelaysAssumption DEF Relays
    <2> QED BY <1>2, <2>1 DEF Proceed, HealthState
<1> QED BY <1>1, <1>2

LEMMA HealthTickInv ==
    ASSUME IInv, HealthTick
    PROVE  IInv'
<1>1. 1 \in Relays /\ 1 \in 0 .. NRelays
    BY NRelaysAssumption DEF Relays
<1>2. health.pc \notin Dead /\ health'.pc = "look" /\ health'.r = 1 /\ health' \in HealthState
    BY <1>1 DEF HealthTick, Dead, HealthState
<1>3. Struct'
    BY <1>1, <1>2, HealthFrame DEF HealthTick, SameConns
<1>4. Timely' /\ TakenOnce'
    BY EventFrame DEF HealthTick, inVars, worldVars, IInv
<1>5. TypeOK'
    BY <1>2 DEF HealthTick, inVars, worldVars, IInv, TypeOK, HealthState
<1> QED BY <1>3, <1>4, <1>5 DEF IInv

LEMMA HealthLookInv ==
    ASSUME IInv, NEW r \in Relays, HealthLook(r)
    PROVE  IInv'
<1>1. rs' \in [Relays -> RelayState] /\ SameConns
    <2>1. CASE rs' = [rs EXCEPT ![r] = [Counted(@) EXCEPT !.connected = FALSE]]
        <3> DEFINE s == [Counted(rs[r]) EXCEPT !.connected = FALSE]
        <3>1. rs[r] \in RelayState
            BY DEF IInv, TypeOK, RelayState
        <3>2. /\ s \in RelayState /\ s.conn = rs[r].conn /\ s.cancelSub = rs[r].cancelSub
              /\ s.connected = FALSE
            <4> DEFINE t == Counted(rs[r])
            <4>1. t \in RelayState /\ t.conn = rs[r].conn /\ t.cancelSub = rs[r].cancelSub
                BY <3>1, CountedType
            <4>2. s = [t EXCEPT !.connected = FALSE]
                OBVIOUS
            <4> HIDE DEF s, t
            <4> QED BY <4>1, <4>2 DEF RelayState
        <3>3. rs' = [rs EXCEPT ![r] = s]
            BY <2>1
        <3> HIDE DEF s
        <3> QED BY <3>2, <3>3, RelayFails DEF HealthLook, IInv
    <2>2. CASE rs' = rs
        BY <2>2 DEF HealthLook, SameConns, IInv, TypeOK, RelayState
    <2> QED BY <2>1, <2>2 DEF HealthLook
<1>2. /\ health.pc \notin Dead /\ health' \in HealthState /\ health'.pc \in {"idle", "look", "dial"}
      /\ health'.pc # "idle" => health'.r \in Relays
    <2>1. health \in HealthState /\ health.pc = "look" /\ health.r = r
        BY DEF HealthLook, AtRelay, IInv, TypeOK, HealthState
    <2>2. CASE Proceed(r)
        BY <2>1, <2>2, ProceedEffect DEF Dead
    <2>3. CASE health' = [health EXCEPT !.pc = "dial"]
        BY <2>1, <2>3 DEF Dead, HealthState
    <2> QED BY <2>2, <2>3 DEF HealthLook
<1>3. Struct'
    BY <1>1, <1>2, HealthFrame DEF HealthLook
<1>4. Timely' /\ TakenOnce'
    BY EventFrame DEF HealthLook, inVars, worldVars, IInv
<1>5. TypeOK'
    BY <1>1, <1>2 DEF HealthLook, inVars, worldVars, IInv, TypeOK, HealthState, RelayState
<1> QED BY <1>3, <1>4, <1>5 DEF IInv

LEMMA HealthDialInv ==
    ASSUME IInv, NEW r \in Relays, HealthDial(r)
    PROVE  IInv'
<1>1. health \in HealthState /\ health.pc = "dial" /\ health.r = r
    BY DEF HealthDial, AtRelay, IInv, TypeOK, HealthState
<1>2. Timely' /\ TakenOnce'
    BY EventFrame DEF HealthDial, inVars, worldVars, IInv
<1>3. CASE Dialed(r) /\ health' = [health EXCEPT !.pc = "cancel"]
    <2>1. health' = [pc |-> "cancel", r |-> r] /\ health' \in HealthState
        BY <1>1, <1>3 DEF HealthState
    <2>2. Struct'
        BY <1>1, <1>3, <2>1, DialedStruct DEF HealthDial, Dead
    <2>3. TypeOK'
        BY <1>3, <2>1, DialedEffect DEF HealthDial, inVars, worldVars, IInv, TypeOK, HealthState, RelayState
    <2> QED BY <1>2, <2>2, <2>3 DEF IInv
<1>4. CASE DialFailed(r) /\ Proceed(r)
    <2>1. rs' \in [Relays -> RelayState] /\ SameConns /\ UNCHANGED link
        BY <1>4, DialFailedEffect
    <2>2. Struct'
        BY <1>1, <1>4, <2>1, ProceedEffect, HealthFrame DEF HealthDial, Dead
    <2>3. TypeOK'
        BY <1>4, <2>1, ProceedEffect DEF HealthDial, inVars, worldVars, IInv, TypeOK, HealthState, RelayState
    <2> QED BY <1>2, <2>2, <2>3 DEF IInv
<1> QED BY <1>3, <1>4 DEF HealthDial

(* The loop to be replaced is cancelled, so that none is left uncancelled. *)
LEMMA HealthCancelInv ==
    ASSUME IInv, NEW r \in Relays, HealthCancel(r)
    PROVE  IInv'
<1> DEFINE old == rs[r].cancelSub
<1>1. /\ health \in HealthState /\ health.pc = "cancel" /\ health.r = r
      /\ health' \in HealthState /\ health'.pc = "spawn" /\ health'.r = r
    BY DEF HealthCancel, AtRelay, IInv, TypeOK, HealthState
<1>0. /\ loop \in [Conns -> LoopState]
      /\ old # 0 => /\ old \in Conns
                    /\ loop' = [loop EXCEPT ![old] = [loop[old] EXCEPT !.cancelled = TRUE]]
    <2>1. rs[r].cancelSub \in 0 .. MaxConns
        BY DEF IInv, TypeOK
    <2> QED BY <2>1, NRelaysAssumption DEF HealthCancel, IInv, TypeOK, LoopState, Conns
<1>2. /\ \A k \in Conns : /\ loop'[k].pc = loop[k].pc /\ loop'[k].r = loop[k].r
                          /\ loop'[k].queue = loop[k].queue /\ loop'[k].ev = loop[k].ev
      /\ \A k \in Conns : (k = old \/ loop[k].cancelled = TRUE) => loop'[k].cancelled = TRUE
    <2>1. CASE old = 0
        BY <2>1, NRelaysAssumption DEF HealthCancel, Conns
    <2>2. CASE old # 0
        BY <1>0, <2>2 DEF LoopState
    <2> QED BY <2>1, <2>2
<1>3. loop' \in [Conns -> LoopState]
    <2>1. CASE old = 0
        BY <2>1 DEF HealthCancel, IInv, TypeOK, LoopState
    <2>2. CASE old # 0
        BY <1>0, <2>2 DEF LoopState
    <2> QED BY <2>1, <2>2
<1>4. Alive' = Alive
    BY <1>2 DEF Alive
<1>5. main # "connecting"
    BY <1>1 DEF IInv, Struct, Unstarted
<1>6. WgExact' /\ Unstarted'
    BY <1>1, <1>4, <1>5 DEF HealthCancel, IInv, Struct, WgExact, Unstarted, One, Dead
<1>7. ConnOK'
    <2>1. \A q \in Relays : rs[q].conn # 0 => rs[q].conn \in Conns
        BY NRelaysAssumption DEF IInv, TypeOK, Conns
    <2> QED BY <1>1, <1>2, <1>4, <2>1 DEF HealthCancel, IInv, Struct, ConnOK, Alive
<1>8. Current'
    <2>0. \A k \in Conns : loop[k].cancelled \in BOOLEAN
        BY <1>0 DEF LoopState
    <2>1. \A k \in Alive : k \in Conns /\ (loop[k].cancelled = TRUE \/ rs[loop[k].r].cancelSub = k)
        BY <2>0 DEF IInv, Struct, Current, Alive
    <2>2. \A k \in Alive : loop[k].r = r => loop'[k].cancelled = TRUE
        BY <1>2, <2>1
    <2>3. \A k \in Alive' : loop'[k].cancelled \/ rs'[loop'[k].r].cancelSub = k
        BY <1>2, <1>4, <2>1 DEF HealthCancel
    <2>4. \A k \in Alive' : loop'[k].r = health'.r => loop'[k].cancelled
        BY <1>1, <1>2, <1>4, <2>1, <2>2
    <2> QED BY <2>3, <2>4 DEF Current
<1>9. Timely' /\ TakenOnce'
    BY <1>2, EventFrame DEF HealthCancel, inVars, worldVars, IInv
<1>10. TypeOK'
    BY <1>1, <1>3 DEF HealthCancel, inVars, worldVars, IInv, TypeOK, HealthState, LoopState
<1> QED BY <1>6, <1>7, <1>8, <1>9, <1>10 DEF IInv, Struct

LEMMA HealthSpawnInv ==
    ASSUME IInv, NEW r \in Relays, HealthSpawn(r)
    PROVE  IInv'
<1> DEFINE c == rs[r].conn
           s == NewLoop(r)
<1>1. /\ health.pc = "spawn" /\ health.r = r
      /\ c \in Conns /\ c # 0 /\ loop[c].pc = "none" /\ link[c].r = r
    <2>1. health.pc = "spawn" /\ health.r = r
        BY DEF HealthSpawn, AtRelay
    <2>2. c # 0 /\ loop[c].pc = "none" /\ link[c].r = r /\ c \in 0 .. MaxConns
        BY <2>1 DEF IInv, TypeOK, Struct, ConnOK
    <2> QED BY <2>1, <2>2, NRelaysAssumption DEF Conns
<1>2. /\ s \in LoopState /\ s.pc = "top" /\ s.r = r /\ ~s.cancelled /\ s.queue = {} /\ s.ev = {}
    BY NewLoopType, NRelaysAssumption DEF Relays
<1>3. /\ loop' = [loop EXCEPT ![c] = s]
      /\ rs' = [rs EXCEPT ![r].cancelSub = c]
      /\ wg' = wg + 1 /\ UNCHANGED <<main, link, cleaner>>
    BY DEF HealthSpawn
<1> HIDE DEF s
<1>4. /\ health' \in HealthState /\ health'.pc \in {"idle", "look"}
      /\ health'.pc # "idle" => health'.r \in Relays
    BY ProceedEffect DEF HealthSpawn
<1>5. loop' \in [Conns -> LoopState] /\ rs' \in [Relays -> RelayState]
    BY <1>1, <1>2, <1>3 DEF IInv, TypeOK, LoopState, RelayState
<1>6. \A q \in Relays : /\ rs'[q].conn = rs[q].conn /\ rs'[q].connected = rs[q].connected
                        /\ rs'[q].cancelSub = IF q = r THEN c ELSE rs[q].cancelSub
    BY <1>3 DEF IInv, TypeOK
<1>7. \A k \in Conns : loop'[k] = IF k = c THEN s ELSE loop[k]
    BY <1>3 DEF IInv, TypeOK
<1> HIDE DEF c
<1>8. c \notin Alive /\ Alive' = Alive \cup {c}
    BY <1>1, <1>2, <1>7 DEF Alive, Dead
<1>9. Cardinality(Alive') = Cardinality(Alive) + 1
    BY <1>8, AliveMore
<1>10. WgExact' /\ wg' \in Nat
    <2>1. One(health'.pc \notin Dead) = 1 /\ One(health.pc \notin Dead) = 1 /\ One(cleaner) \in {0, 1}
        BY <1>1, <1>4 DEF One, Dead
    <2>2. /\ wg = Cardinality(Alive) + One(health.pc \notin Dead) + One(cleaner)
          /\ main = "closed" => wg = 0
        BY DEF IInv, Struct, WgExact
    <2>3. wg' = Cardinality(Alive') + One(health'.pc \notin Dead) + One(cleaner)
        BY <1>3, <1>9, <2>1, <2>2, AliveFinite
    <2>4. main # "closed" /\ wg' \in Nat
        BY <1>3, <2>1, <2>2, AliveFinite DEF IInv, TypeOK
    <2> QED BY <1>3, <2>3, <2>4 DEF WgExact
<1>11. Unstarted'
    BY <1>1, <1>3 DEF IInv, Struct, Unstarted
<1>12. ConnOK'
    BY <1>1, <1>2, <1>3, <1>4, <1>6, <1>7, <1>8, NRelaysAssumption DEF IInv, Struct, ConnOK, Alive, Relays
<1>13. Current'
    <2>1. \A k \in Alive : /\ loop[k].r \in Relays
                           /\ loop[k].r = r => loop[k].cancelled
                           /\ loop[k].cancelled \/ rs[loop[k].r].cancelSub = k
        BY <1>1, LoopRelay DEF IInv, Struct, Current
    <2>2. \A k \in Alive' : k \in Conns /\ (k = c \/ k \in Alive) /\ (k # c => loop'[k] = loop[k])
        BY <1>7, <1>8 DEF Alive
    <2>3. rs'[loop'[c].r].cancelSub = c
        BY <1>1, <1>2, <1>6, <1>7
    <2>4. \A k \in Alive' : k # c => loop'[k].cancelled \/ rs'[loop'[k].r].cancelSub = k
        <3>1. SUFFICES ASSUME NEW k \in Alive, k # c, loop'[k] = loop[k], ~loop[k].cancelled
                       PROVE  rs'[loop'[k].r].cancelSub = k
            BY <2>2, Zenon
        <3>2. /\ loop[k].r \in Relays
              /\ loop[k].r = r => loop[k].cancelled
              /\ loop[k].cancelled \/ rs[loop[k].r].cancelSub = k
            BY <2>1, Zenon
        <3>4. loop[k].r # r /\ rs[loop[k].r].cancelSub = k /\ loop'[k] = loop[k]
            BY <3>1, <3>2, Zenon
        <3>3. rs'[loop[k].r].cancelSub = k
            <4>1. loop[k].r \in Relays
                BY <3>2, Zenon
            <4> QED BY <1>6, <3>4, <4>1
        <3> QED BY <3>3, <3>4, Zenon
    <2>5. health'.pc # "spawn"
        BY <1>4
    <2> QED BY <2>3, <2>4, <2>5 DEF Current
<1>14. Timely' /\ TakenOnce'
    BY <1>2, <1>7, EventFrame DEF HealthSpawn, inVars, worldVars, IInv
<1>15. TypeOK'
    BY <1>4, <1>5, <1>10 DEF HealthSpawn, inVars, worldVars, IInv, TypeOK, HealthState, LoopState, RelayState
<1> QED BY <1>10, <1>11, <1>12, <1>13, <1>14, <1>15 DEF IInv, Struct

LEMMA HealthDoneInv ==
    ASSUME IInv, HealthDone
    PROVE  IInv'
<1>1. health.pc = "idle" /\ health'.pc = "gone" /\ health' \in HealthState /\ wg' = wg - 1
    BY NRelaysAssumption DEF HealthDone, HealthState
<1>2. Alive' = Alive
    BY DEF HealthDone, Alive
<1>3. WgExact' /\ wg' \in Nat
    <2>1. One(health'.pc \notin Dead) = 0 /\ One(health.pc \notin Dead) = 1 /\ One(cleaner) \in {0, 1}
        BY <1>1 DEF One, Dead
    <2>2. /\ wg = Cardinality(Alive) + One(health.pc \notin Dead) + One(cleaner)
          /\ main = "closed" => wg = 0
        BY DEF IInv, Struct, WgExact
    <2>3. /\ wg' = Cardinality(Alive) + One(health'.pc \notin Dead) + One(cleaner)
          /\ main # "closed" /\ wg' \in Nat
        BY <1>1, <2>1, <2>2, AliveFinite
    <2> QED BY <1>2, <2>3 DEF HealthDone, WgExact
<1>4. Unstarted' /\ ConnOK' /\ Current'
    BY <1>1, <1>2 DEF HealthDone, IInv, Struct, Unstarted, ConnOK, Current
<1>5. Timely' /\ TakenOnce'
    BY EventFrame DEF HealthDone, inVars, worldVars, IInv
<1>6. TypeOK'
    BY <1>1, <1>3 DEF HealthDone, inVars, worldVars, IInv, TypeOK, HealthState
<1> QED BY <1>3, <1>4, <1>5, <1>6 DEF IInv, Struct

-----------------------------------------------------------------------------
(* The cleaner, users, relays and time. *)

(* An event is forgotten only when no subscription asks for it any more:   *)
(* the window is no longer than the retention.                             *)
LEMMA SeenCleanupInv ==
    ASSUME IInv, SeenCleanup
    PROVE  IInv'
<1>1. /\ seen' = [e \in Events |-> IF Stale(e) THEN Never ELSE seen[e]]
      /\ UNCHANGED <<given, made, now, held, loop>>
    BY DEF SeenCleanup, worldVars
<1>2. Struct'
    BY StructFrame DEF SeenCleanup, IInv, SameLoops, SameConns
<1>3. Never' = Never /\ Never \in 0 .. MaxTime + 1
    BY RetentionAssumption DEF Never
<1>4. Timely'
    BY <1>1, <1>3 DEF IInv, Timely
<1>5. TakenOnce'
    <2>1. ASSUME NEW e \in Events, Taken(e)'
          PROVE  made[e] <= now /\ (seen'[e] # Never \/ made[e] + Window < now)
        <3>1. made[e] <= now /\ (seen[e] # Never \/ made[e] + Window < now)
            BY <1>1, <2>1 DEF IInv, TakenOnce, Taken
        <3>2. CASE Stale(e)
            <4>1. seen[e] # Never /\ seen[e] + Retention < now /\ made[e] <= seen[e]
                BY <3>2 DEF Stale, IInv, Timely
            <4>2. made[e] \in Nat /\ seen[e] \in Nat /\ now \in Nat
                BY RetentionAssumption DEF IInv, TypeOK
            <4> QED BY <3>1, <4>1, <4>2, RetentionAssumption
        <3>3. CASE ~Stale(e)
            BY <1>1, <3>1, <3>3
        <3> QED BY <3>2, <3>3
    <2> QED BY <1>1, <1>3, <2>1 DEF IInv, TakenOnce
<1>6. seen' \in [Events -> 0 .. MaxTime + 1]
    BY <1>1, <1>3 DEF IInv, TypeOK
<1>7. TypeOK'
    BY <1>6 DEF SeenCleanup, worldVars, IInv, TypeOK
<1> QED BY <1>2, <1>4, <1>5, <1>7 DEF IInv

LEMMA CleanerDoneInv ==
    ASSUME IInv, CleanerDone
    PROVE  IInv'
<1>1. cleaner /\ ~cleaner' /\ cleaner' = FALSE /\ wg' = wg - 1
    BY DEF CleanerDone
<1>2. Alive' = Alive
    BY DEF CleanerDone, Alive
<1>3. WgExact' /\ wg' \in Nat
    <2>1. One(cleaner) = 1 /\ One(cleaner') = 0 /\ One(health.pc \notin Dead) \in {0, 1}
        BY <1>1 DEF One
    <2>2. /\ wg = Cardinality(Alive) + One(health.pc \notin Dead) + One(cleaner)
          /\ main = "closed" => wg = 0
        BY DEF IInv, Struct, WgExact
    <2>3. /\ wg' = Cardinality(Alive) + One(health.pc \notin Dead) + One(cleaner')
          /\ main # "closed" /\ wg' \in Nat
        BY <1>1, <2>1, <2>2, AliveFinite
    <2> QED BY <1>2, <2>3 DEF CleanerDone, WgExact
<1>4. Unstarted' /\ ConnOK' /\ Current'
    BY <1>1, <1>2 DEF CleanerDone, IInv, Struct, Unstarted, ConnOK, Current
<1>5. Timely' /\ TakenOnce'
    BY EventFrame DEF CleanerDone, inVars, worldVars, IInv
<1>6. TypeOK'
    BY <1>3 DEF CleanerDone, inVars, worldVars, IInv, TypeOK
<1> QED BY <1>3, <1>4, <1>5, <1>6 DEF IInv, Struct

LEMMA SendFailsInv ==
    ASSUME IInv, NEW r \in Relays, SendFails(r)
    PROVE  IInv'
<1>1. rs[r] \in RelayState
    BY DEF IInv, TypeOK, RelayState
<1>2. rs' \in [Relays -> RelayState] /\ SameConns
    BY <1>1, CountedType, RelayFails DEF SendFails, IInv
<1>3. Struct'
    BY <1>2, StructFrame DEF SendFails, IInv, SameLoops
<1>4. Timely' /\ TakenOnce'
    BY EventFrame DEF SendFails, inVars, worldVars, IInv
<1>5. TypeOK'
    <2>1. faults' \in 0 .. MaxFaults
        BY FaultType DEF SendFails, IInv
    <2> QED BY <1>2, <2>1 DEF SendFails, inVars, worldVars, IInv, TypeOK, RelayState
<1> QED BY <1>3, <1>4, <1>5 DEF IInv

LEMMA CloseInv ==
    ASSUME IInv, Close
    PROVE  IInv'
<1>1. SameConns /\ SameLoops /\ link' \in [Conns -> [r : 0 .. NRelays, open : BOOLEAN]]
    <2>1. link \in [Conns -> [r : 0 .. NRelays, open : BOOLEAN]] /\ UNCHANGED <<rs, loop>>
        BY DEF Close, IInv, TypeOK
    <2>2. \A c \in Conns : link'[c] = link[c] \/ link'[c] = [link[c] EXCEPT !.open = FALSE]
        BY DEF Close
    <2>3. \A c \in Conns : link'[c] \in [r : 0 .. NRelays, open : BOOLEAN] /\ link'[c].r = link[c].r
        BY <2>1, <2>2
    <2>4. link' \in [Conns -> [r : 0 .. NRelays, open : BOOLEAN]]
        BY <2>3 DEF Close
    <2> QED BY <2>1, <2>3, <2>4 DEF SameConns, SameLoops
<1>2. Struct'
    BY <1>1, StructFrame DEF Close, IInv
<1>3. Timely' /\ TakenOnce'
    BY EventFrame DEF Close, inVars, worldVars, IInv
<1>4. TypeOK'
    BY <1>1 DEF Close, inVars, worldVars, IInv, TypeOK
<1> QED BY <1>2, <1>3, <1>4 DEF IInv

LEMMA CloseInboxInv ==
    ASSUME IInv, CloseInbox
    PROVE  IInv'
<1>1. Struct'
    BY StructFrame DEF CloseInbox, IInv, SameConns, SameLoops
<1>2. Timely' /\ TakenOnce'
    BY EventFrame DEF CloseInbox, inVars, worldVars, IInv
<1>3. TypeOK'
    BY DEF CloseInbox, inVars, worldVars, IInv, TypeOK
<1> QED BY <1>1, <1>2, <1>3 DEF IInv

LEMMA PublishInv ==
    ASSUME IInv, NEW e \in Events, NEW r \in Relays, Publish(e, r)
    PROVE  IInv'
<1>1. \A k \in Conns :
        /\ loop'[k] \in LoopState
        /\ loop'[k].pc = loop[k].pc /\ loop'[k].r = loop[k].r /\ loop'[k].ev = loop[k].ev
        /\ loop'[k].cancelled = loop[k].cancelled
        /\ loop'[k].queue \subseteq loop[k].queue \cup {e}
        /\ loop[k].pc # "read" => loop'[k] = loop[k]
    <2>1. TAKE k \in Conns
    <2>2. loop[k] \in LoopState
        BY DEF IInv, TypeOK, LoopState
    <2>3. CASE Reading(k, r)
        <3>1. loop'[k] = [loop[k] EXCEPT !.queue = @ \cup {e}] /\ loop[k].pc = "read"
            BY <2>3 DEF Publish, Reading
        <3> QED BY <2>2, <3>1 DEF LoopState
    <2>4. CASE ~Reading(k, r)
        <3>1. loop'[k] = loop[k]
            BY <2>4 DEF Publish
        <3> QED BY <2>2, <3>1
    <2> QED BY <2>3, <2>4
<1>2. loop' \in [Conns -> LoopState]
    BY <1>1 DEF Publish
<1>3. SameLoops
    <2>1. main = "connecting" => \A k \in Conns : loop[k].pc # "read"
        BY DEF IInv, Struct, Unstarted, NoLoop
    <2> QED BY <1>1, <2>1 DEF SameLoops
<1>4. Struct'
    BY <1>3, StructFrame DEF Publish, IInv, SameConns
<1>5. /\ made' = [made EXCEPT ![e] = now] /\ made[e] \in {Never, now}
      /\ held' = [held EXCEPT ![r] = @ \cup {e}]
      /\ UNCHANGED <<seen, given, now>>
    BY DEF Publish, inVars
<1>6. /\ made \in [Events -> Nat] /\ seen \in [Events -> Nat] /\ now \in Nat
      /\ now < Never /\ Never' = Never /\ Never \in Nat
    BY RetentionAssumption DEF IInv, TypeOK, Never
<1>7. \A f \in Events : made'[f] <= made[f] /\ (made[f] <= now => made'[f] = made[f])
    BY <1>5, <1>6
<1>8. made'[e] = now
    BY <1>5, <1>6
<1>9. Timely'
    <2>1. \A q \in Relays : \A f \in held'[q] : made'[f] <= now
        <3>1. \A q \in Relays : held'[q] \subseteq held[q] \cup {e} /\ held[q] \subseteq Events
            BY <1>5 DEF IInv, TypeOK
        <3>2. \A q \in Relays : \A f \in held[q] : made[f] <= now /\ f \in Events
            BY <3>1 DEF IInv, Timely
        <3> QED BY <1>6, <1>7, <1>8, <3>1, <3>2
    <2>2. \A k \in Conns : \A f \in loop'[k].queue : made'[f] <= now /\ now <= made'[f] + Window
        <3>1. \A k \in Conns : \A f \in loop[k].queue :
                  made[f] <= now /\ now <= made[f] + Window /\ f \in Events
            BY DEF IInv, Timely, TypeOK
        <3>2. now <= now /\ now <= now + Window
            BY <1>6, RetentionAssumption
        <3> QED BY <1>1, <1>7, <1>8, <3>1, <3>2
    <2>3. \A f \in Events : seen[f] # Never => made'[f] <= seen[f] /\ seen[f] <= now
        BY <1>6, <1>7 DEF IInv, Timely
    <2> QED BY <1>5, <1>6, <2>1, <2>2, <2>3 DEF Timely
<1>10. TakenOnce'
    <2>1. \A f \in Events : Taken(f)' => Taken(f)
        BY <1>1, <1>5 DEF Taken
    <2>2. \A f \in Events : Taken(f) => made'[f] = made[f]
        BY <1>7 DEF IInv, TakenOnce
    <2> QED BY <1>1, <1>5, <1>6, <2>1, <2>2 DEF IInv, TakenOnce
<1>11. /\ made' \in [Events -> 0 .. MaxTime + 1]
       /\ held' \in [Relays -> SUBSET Events]
    BY <1>5, RetentionAssumption DEF IInv, TypeOK
<1>12. TypeOK'
    BY <1>2, <1>11 DEF Publish, inVars, IInv, TypeOK, LoopState
<1> QED BY <1>4, <1>9, <1>10, <1>12 DEF IInv

LEMMA LinkLostInv ==
    ASSUME IInv, NEW c \in Conns, LinkLost(c)
    PROVE  IInv'
<1>1. SameConns /\ SameLoops /\ link' \in [Conns -> [r : 0 .. NRelays, open : BOOLEAN]]
    BY DEF LinkLost, Cut, SameConns, SameLoops, IInv, TypeOK
<1>2. Struct'
    BY <1>1, StructFrame DEF LinkLost, IInv
<1>3. Timely' /\ TakenOnce'
    BY EventFrame DEF LinkLost, inVars, worldVars, IInv
<1>4. TypeOK'
    BY <1>1, FaultType DEF LinkLost, inVars, worldVars, IInv, TypeOK
<1> QED BY <1>2, <1>3, <1>4 DEF IInv

LEMMA RelayDownInv ==
    ASSUME IInv, NEW r \in Relays, RelayDown(r)
    PROVE  IInv'
<1>1. SameConns /\ SameLoops /\ link' \in [Conns -> [r : 0 .. NRelays, open : BOOLEAN]]
    <2>1. link \in [Conns -> [r : 0 .. NRelays, open : BOOLEAN]] /\ UNCHANGED <<rs, loop>>
        BY DEF RelayDown, IInv, TypeOK
    <2>2. \A c \in Conns : link'[c] = link[c] \/ link'[c] = [link[c] EXCEPT !.open = FALSE]
        BY DEF RelayDown, Cut
    <2>3. \A c \in Conns : link'[c] \in [r : 0 .. NRelays, open : BOOLEAN] /\ link'[c].r = link[c].r
        BY <2>1, <2>2
    <2>4. link' \in [Conns -> [r : 0 .. NRelays, open : BOOLEAN]]
        BY <2>3 DEF RelayDown, Cut
    <2> QED BY <2>1, <2>3, <2>4 DEF SameConns, SameLoops
<1>2. Struct'
    BY <1>1, StructFrame DEF RelayDown, IInv
<1>3. Timely' /\ TakenOnce'
    BY EventFrame DEF RelayDown, inVars, IInv
<1>4. TypeOK'
    BY <1>1, FaultType DEF RelayDown, inVars, IInv, TypeOK
<1> QED BY <1>2, <1>3, <1>4 DEF IInv

LEMMA RelayUpInv ==
    ASSUME IInv, NEW r \in Relays, RelayUp(r)
    PROVE  IInv'
<1>1. Struct'
    BY StructFrame DEF RelayUp, IInv, SameConns, SameLoops
<1>2. Timely' /\ TakenOnce'
    BY EventFrame DEF RelayUp, inVars, IInv
<1>3. TypeOK'
    BY DEF RelayUp, inVars, IInv, TypeOK
<1> QED BY <1>1, <1>2, <1>3 DEF IInv

LEMMA TickInv ==
    ASSUME IInv, Tick
    PROVE  IInv'
<1>1. Struct'
    BY StructFrame DEF Tick, IInv, SameConns, SameLoops
<1>2. /\ made \in [Events -> Nat] /\ seen \in [Events -> Nat] /\ now \in Nat /\ now' = now + 1
      /\ UNCHANGED <<seen, given, made, held, loop>> /\ Never' = Never
      /\ \A r \in Relays : held[r] \subseteq Events
    BY RetentionAssumption DEF Tick, inVars, Never, IInv, TypeOK
<1>3. Timely'
    BY <1>2 DEF Tick, IInv, Timely
<1>4. TakenOnce'
    <2>1. \A e \in Events : Taken(e)' <=> Taken(e)
        BY <1>2 DEF Taken
    <2>2. \A e \in Events : Taken(e) => made[e] <= now' /\ (seen[e] # Never \/ made[e] + Window < now')
        BY <1>2, RetentionAssumption DEF IInv, TakenOnce
    <2> QED BY <1>2, <2>1, <2>2 DEF IInv, TakenOnce
<1>5. now' \in 0 .. MaxTime
    BY RetentionAssumption DEF Tick, IInv, TypeOK
<1>6. TypeOK'
    BY <1>5 DEF Tick, inVars, IInv, TypeOK
<1> QED BY <1>1, <1>3, <1>4, <1>6 DEF IInv

-----------------------------------------------------------------------------
LEMMA InitInv == Init => IInv
<1> SUFFICES ASSUME Init PROVE IInv
    OBVIOUS
<1>1. TypeOK
    <2>1. /\ 0 \in 0 .. NRelays /\ 0 \in 0 .. MaxConns /\ 0 \in 0 .. maxRelayFailures
          /\ 0 \in 0 .. MaxTime /\ 0 \in 0 .. MaxFaults /\ Never \in 0 .. MaxTime + 1
        BY NRelaysAssumption, LimitsAssumption, RetentionAssumption DEF Never
    <2>2. loop \in [Conns -> LoopState]
        BY NoLoopType DEF Init
    <2>3. rs \in [Relays -> RelayState]
        BY <2>1 DEF Init, RelayState
    <2> QED BY <2>1, <2>2, <2>3 DEF Init, TypeOK, LoopState, RelayState
<1>2. \A k \in Conns : loop[k] = NoLoop /\ loop[k].pc = "none" /\ loop[k].queue = {} /\ loop[k].ev = {}
    BY DEF Init, NoLoop
<1>3. Alive = {}
    BY <1>2 DEF Alive, Dead
<1>4. WgExact
    BY <1>3, FS_EmptySet DEF Init, WgExact, One, Dead
<1>5. Unstarted /\ ConnOK /\ Current
    BY <1>2, <1>3 DEF Init, Unstarted, ConnOK, Current
<1>6. Timely
    BY <1>2 DEF Init, Timely
<1>7. TakenOnce
    BY <1>2 DEF Init, TakenOnce, Taken
<1> QED BY <1>1, <1>4, <1>5, <1>6, <1>7 DEF IInv, Struct

LEMMA StutterInv == IInv /\ UNCHANGED vars => IInv'
<1> SUFFICES ASSUME IInv, UNCHANGED vars PROVE IInv'
    OBVIOUS
<1>1. Struct'
    BY StructFrame DEF vars, IInv, SameConns, SameLoops
<1>2. Timely' /\ TakenOnce'
    BY EventFrame DEF vars, IInv
<1>3. TypeOK'
    BY DEF vars, IInv, TypeOK
<1> QED BY <1>1, <1>2, <1>3 DEF IInv

LEMMA NextInv == IInv /\ [Next]_vars => IInv'
<1> SUFFICES ASSUME IInv, [Next]_vars PROVE IInv'
    OBVIOUS
<1>1. ASSUME NEW r \in Relays, ConnectRelay(r) \/ SendFails(r) \/ RelayDown(r) \/ RelayUp(r)
      PROVE  IInv'
    BY <1>1, ConnectRelayInv, SendFailsInv, RelayDownInv, RelayUpInv
<1>2. ASSUME NEW k \in Conns, Loop(k)
      PROVE  IInv'
    BY <1>2, LoopDoneInv, LoopTopInv, LoopSubscribedInv, LoopNotSubscribedInv, LoadOrStoreInv,
       DeliverInv, LoopClosedInv DEF Loop
<1>3. ASSUME Health
      PROVE  IInv'
    BY <1>3, HealthTickInv, HealthDoneInv, HealthLookInv, HealthDialInv, HealthCancelInv,
       HealthSpawnInv DEF Health
<1>4. ASSUME NEW e \in Events, NEW r \in Relays, Publish(e, r)
      PROVE  IInv'
    BY <1>4, PublishInv
<1>5. CASE ConnectStart
    BY <1>5, ConnectStartInv
<1>6. CASE SeenCleanup \/ CleanerDone
    BY <1>6, SeenCleanupInv, CleanerDoneInv
<1>7. CASE Close \/ CloseInbox
    BY <1>7, CloseInv, CloseInboxInv
<1>8. ASSUME NEW c \in Conns, LinkLost(c)
      PROVE  IInv'
    BY <1>8, LinkLostInv
<1>9. CASE Tick
    BY <1>9, TickInv
<1>10. CASE UNCHANGED vars
    BY <1>10, StutterInv
<1> QED BY <1>1, <1>2, <1>3, <1>4, <1>5, <1>6, <1>7, <1>8, <1>9, <1>10 DEF Next

LEMMA IInvHolds == Spec => []IInv
<1>1. Init => IInv
    BY InitInv
<1>2. IInv /\ [Next]_vars => IInv'
    BY NextInv
<1> QED BY <1>1, <1>2, PTL DEF Spec

(* Every variable keeps its type: the wait group is never negative, which  *)
(* would panic, and failures stay at the limit.                            *)
THEOREM TypeCorrect == Spec => []TypeOK
<1>1. IInv => TypeOK
    BY DEF IInv
<1> QED BY <1>1, IInvHolds, PTL

(* No subscribeLoop is left when Close closes the inbox, whatever the      *)
(* health check was starting at that time.                                 *)
THEOREM CloseLeavesNobody == Spec => []ClosedQuiet
<1>1. IInv => ClosedQuiet
    <2> SUFFICES ASSUME IInv, main = "closed" PROVE \A k \in Conns : loop[k].pc \in {"none", "gone"}
        BY DEF ClosedQuiet
    <2>1. Cardinality(Alive) + One(health.pc \notin Dead) + One(cleaner) = 0
        BY DEF IInv, Struct, WgExact
    <2>2. One(health.pc \notin Dead) \in {0, 1} /\ One(cleaner) \in {0, 1}
        BY DEF One
    <2>3. Cardinality(Alive) = 0
        BY <2>1, <2>2, AliveFinite
    <2>4. Alive = {}
        BY <2>3, AliveFinite, FS_EmptySet
    <2> QED BY <2>4 DEF Alive, Dead
<1> QED BY <1>1, IInvHolds, PTL

(* An event enters the inbox once, for all relays, resubscriptions and     *)
(* clean-ups, provided that events are remembered at least as long as      *)
(* subscriptions look back.                                                *)
THEOREM DeliveredAtMostOnce == Spec => []DeliveredOnce
<1>1. IInv => DeliveredOnce
    BY DEF IInv, TakenOnce, DeliveredOnce
<1> QED BY <1>1, IInvHolds, PTL

(* A relay never has two subscribeLoops that nobody cancelled. *)
THEOREM RelayHasOneReader == Spec => []OneReader
<1>1. IInv => OneReader
    <2> SUFFICES ASSUME IInv PROVE OneReader
        OBVIOUS
    <2>1. \A k \in Conns : loop[k].pc \notin {"none", "gone"} /\ ~loop[k].cancelled
                            => rs[loop[k].r].cancelSub = k
        BY DEF IInv, Struct, Current, Alive, Dead
    <2> QED BY <2>1, Zenon DEF OneReader
<1> QED BY <1>1, IInvHolds, PTL
=============================================================================
