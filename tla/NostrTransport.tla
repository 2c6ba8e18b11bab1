--------------------------- MODULE NostrTransport ---------------------------
(***************************************************************************)
(* The Nostr relay transport (transport/nostr.go): one subscribeLoop per   *)
(* relay, the health check that reconnects a relay and replaces its loop,  *)
(* deduplication in front of a bounded inbox, the cleaner of seen events,  *)
(* and Close, which cancels, waits for every goroutine and closes the      *)
(* inbox they send on.  Relays, their connections and subscriptions are a  *)
(* library's and fail in the ways the code is written for.                 *)
(***************************************************************************)
EXTENDS Naturals, FiniteSets

CONSTANTS
    NRelays,            \* number of relay URLs, tried in this order
    Events,             \* events addressed to this agent
    MaxConns,           \* bound on successful dials
    MaxFaults,          \* bound on relay crashes, lost links, refused or closed requests
    maxRelayFailures,
    Window,             \* how far back a subscription asks
    Retention,          \* how long an event is remembered
    MaxTime             \* bound on the clock

Relays == 1 .. NRelays
Conns == 1 .. MaxConns
ASSUME NRelaysAssumption == NRelays \in Nat \ {0} /\ MaxConns \in Nat /\ MaxFaults \in Nat
ASSUME LimitsAssumption == maxRelayFailures \in Nat \ {0}
ASSUME RetentionAssumption ==
    Window \in Nat /\ Retention \in Nat /\ MaxTime \in Nat /\ Window <= Retention

VARIABLES
    main,               \* progress of Connect and Close
    tried,              \* relays Connect has dialled
    rs,                 \* [Relays -> relayState]
    link,               \* [Conns -> relay connection, with the relay it leads to]
    loop,               \* [Conns -> subscribeLoop started for that connection]
    health,             \* the health check goroutine
    cleaner,            \* does the goroutine that cleans seenEvents run?
    wg,                 \* the wait group
    seen,               \* [Events -> time first seen, Never when not remembered]
    given,              \* history: [Events -> how often it was put into the inbox]
    up,                 \* [Relays -> does the relay's host answer?]
    held,               \* [Relays -> events the relay has]
    made,               \* [Events -> CreatedAt, Never before it is sent]
    now,
    faults

vars == <<main, tried, rs, link, loop, health, cleaner, wg, seen, given, up, held, made, now,
          faults>>
worldVars == <<up, held, made, now>>
inVars == <<seen, given>>

Never == MaxTime + 1
NoLoop == [pc |-> "none", r |-> 0, conn |-> 0, cancelled |-> FALSE, queue |-> {}, ev |-> {}]
LoopPcs == {"none", "top", "subscribe", "read", "event", "gone"}

-----------------------------------------------------------------------------
Cancelled == main \in {"closing", "closed"}     \* t.cancel was called
Done(k) == Cancelled \/ loop[k].cancelled                    \* ctx.Done of a loop
Open(c) == c # 0 /\ link[c].open

(* failures++, and the relay leaves the active set at the limit; the       *)
(* counter matters only up to that limit.                                  *)
More(n) == IF n < maxRelayFailures THEN n + 1 ELSE n
Failed(s) == [s EXCEPT !.failures = More(@),
                       !.connected = @ /\ More(s.failures) < maxRelayFailures]
(* Send and the health check count without that. *)
Counted(s) == [s EXCEPT !.failures = More(@)]

Fault == faults < MaxFaults /\ faults' = faults + 1

Fresh == CHOOSE c \in Conns : link[c].r = 0 /\ \A d \in Conns : link[d].r = 0 => c <= d

(* connectRelay: RelayConnect succeeds when the relay answers and the      *)
(* context lives.                                                          *)
Dialed(r) ==
    /\ up[r] /\ ~Cancelled
    /\ \E c \in Conns : link[c].r = 0
    /\ link' = [link EXCEPT ![Fresh] = [r |-> r, open |-> TRUE]]
    /\ rs' = [rs EXCEPT ![r] = [conn |-> Fresh, connected |-> TRUE, failures |-> 0,
                                cancelSub |-> @.cancelSub]]

DialFailed(r) ==
    /\ ~up[r] \/ Cancelled
    /\ rs' = [rs EXCEPT ![r] = Counted(@)]
    /\ UNCHANGED link

(* go subscribeLoop, with a child context that rs.cancelSub cancels. *)
NewLoop(r) == [NoLoop EXCEPT !.pc = "top", !.r = r]

-----------------------------------------------------------------------------
(* Connect: one relay after the other, then the goroutines. *)
ConnectRelay(r) ==
    /\ main = "connecting" /\ tried = r - 1
    /\ tried' = r
    /\ Dialed(r) \/ DialFailed(r)
    /\ UNCHANGED <<main, loop, health, cleaner, wg, faults>> /\ UNCHANGED <<inVars, worldVars>>

(* The loops are started together: until they run nobody else writes rs. *)
ConnectStart ==
    LET live == {r \in Relays : rs[r].connected}
    IN  /\ main = "connecting" /\ tried = NRelays
        /\ IF live = {}
           THEN main' = "failed" /\ UNCHANGED <<rs, loop, health, cleaner, wg>>
           ELSE /\ main' = "up"
                /\ rs' = [r \in Relays |-> IF r \in live THEN [rs[r] EXCEPT !.cancelSub = rs[r].conn]
                                           ELSE rs[r]]
                /\ loop' = [k \in Conns |-> IF \E r \in live : rs[r].conn = k
                                            THEN NewLoop(link[k].r) ELSE loop[k]]
                /\ health' = [health EXCEPT !.pc = "idle"]
                /\ cleaner' = TRUE
                /\ wg' = wg + Cardinality(live) + 2
        /\ UNCHANGED <<tried, link, faults>> /\ UNCHANGED <<inVars, worldVars>>

-----------------------------------------------------------------------------
(* subscribeLoop. *)

SetLoop(k, s) == loop' = [loop EXCEPT ![k] = s]

(* The context ends the loop at any of its selects; the deferred wg.Done. *)
LoopDone(k) ==
    /\ loop[k].pc \in {"top", "read"}
    /\ Done(k)
    /\ SetLoop(k, [NoLoop EXCEPT !.pc = "gone"])
    /\ wg' = wg - 1
    /\ UNCHANGED <<main, tried, rs, link, health, cleaner, faults>> /\ UNCHANGED <<inVars, worldVars>>

(* A relay that is not in the active set is looked at again after a while; *)
(* so is one after a failed or a closed subscription.                      *)
LoopTop(k) ==
    LET s == rs[loop[k].r]
    IN  /\ loop[k].pc = "top"
        /\ ~Done(k)
        /\ s.connected /\ s.conn # 0
        /\ SetLoop(k, [loop[k] EXCEPT !.pc = "subscribe", !.conn = s.conn])
        /\ UNCHANGED <<main, tried, rs, link, health, cleaner, wg, faults>>
        /\ UNCHANGED <<inVars, worldVars>>

(* Subscribe: what the relay has since Window, then what comes. *)
LoopSubscribed(k) ==
    /\ loop[k].pc = "subscribe"
    /\ Open(loop[k].conn) /\ ~Done(k)
    /\ SetLoop(k, [loop[k] EXCEPT !.pc = "read",
                     !.queue = {e \in held[loop[k].r] : made[e] + Window >= now}])
    /\ UNCHANGED <<main, tried, rs, link, health, cleaner, wg, faults>> /\ UNCHANGED <<inVars, worldVars>>

LoopNotSubscribed(k) ==
    /\ loop[k].pc = "subscribe"
    /\ IF Open(loop[k].conn) /\ ~Done(k) THEN Fault ELSE UNCHANGED faults
    /\ rs' = [rs EXCEPT ![loop[k].r] = Failed(@)]
    /\ SetLoop(k, [loop[k] EXCEPT !.pc = "top", !.conn = 0])
    /\ UNCHANGED <<main, tried, link, health, cleaner, wg>> /\ UNCHANGED <<inVars, worldVars>>

(* Slip: looked up only, stored by nobody. *)
LoadOnly(k, e) ==
    /\ loop[k].pc = "read"
    /\ e \in loop[k].queue
    /\ SetLoop(k, [loop[k] EXCEPT !.queue = @ \ {e}, !.ev = {e}, !.pc = "event"])
    /\ UNCHANGED <<main, tried, rs, link, health, cleaner, wg, seen, given, faults>>
    /\ UNCHANGED worldVars

(* handleEvent, first line: LoadOrStore decides which copy is handled. *)
LoadOrStore(k, e) ==
    /\ loop[k].pc = "read"
    /\ e \in loop[k].queue
    /\ IF seen[e] # Never
       THEN SetLoop(k, [loop[k] EXCEPT !.queue = @ \ {e}]) /\ UNCHANGED seen
       ELSE /\ SetLoop(k, [loop[k] EXCEPT !.queue = @ \ {e}, !.ev = {e}, !.pc = "event"])
            /\ seen' = [seen EXCEPT ![e] = now]
    /\ UNCHANGED <<main, tried, rs, link, health, cleaner, wg, given, faults>>
    /\ UNCHANGED worldVars

(* The rest of handleEvent.  The event is dropped when its signature or    *)
(* content is not good or the inbox, which others fill too, is full.       *)
Deliver(k, room) ==
    /\ loop[k].pc = "event"
    /\ given' = [e \in Events |-> IF room /\ e \in loop[k].ev THEN given[e] + 1 ELSE given[e]]
    /\ SetLoop(k, [loop[k] EXCEPT !.pc = "read", !.ev = {}])
    /\ UNCHANGED <<main, tried, rs, link, health, cleaner, wg, seen, faults>>
    /\ UNCHANGED worldVars

(* The subscription's channel is closed, with the connection, by a         *)
(* context the select has not noticed yet, or by itself.                   *)
LoopClosed(k) ==
    /\ loop[k].pc = "read"
    /\ IF Open(loop[k].conn) /\ ~Done(k) THEN Fault ELSE UNCHANGED faults
    /\ rs' = [rs EXCEPT ![loop[k].r] = Failed(@)]
    /\ SetLoop(k, [loop[k] EXCEPT !.pc = "top", !.conn = 0, !.queue = {}])
    /\ UNCHANGED <<main, tried, link, health, cleaner, wg>> /\ UNCHANGED <<inVars, worldVars>>

Loop(k) ==
    \/ LoopDone(k) \/ LoopTop(k) \/ LoopSubscribed(k) \/ LoopNotSubscribed(k)
    \/ \E e \in Events : LoadOrStore(k, e)
    \/ \E room \in BOOLEAN : Deliver(k, room)
    \/ LoopClosed(k)

-----------------------------------------------------------------------------
(* The health check: checkRelayHealth, one relay at a time. *)

AtRelay(r, where) == health.pc = where /\ health.r = r
Proceed(r) == health' = IF r = NRelays THEN [pc |-> "idle", r |-> 0] ELSE [pc |-> "look", r |-> r + 1]

HealthTick ==
    /\ health.pc = "idle"
    /\ ~Cancelled
    /\ health' = [pc |-> "look", r |-> 1]
    /\ UNCHANGED <<main, tried, rs, link, loop, cleaner, wg, faults>> /\ UNCHANGED <<inVars, worldVars>>

(* Slip: what was removed at the limit is given up. *)
HealthyOrRemoved(r) == rs[r].conn # 0 /\ (rs[r].connected \/ rs[r].failures = maxRelayFailures)

(* A relay in the active set is only looked at. *)
Healthy(r) == rs[r].connected /\ rs[r].conn # 0

HealthLook(r) ==
    /\ AtRelay(r, "look")
    /\ IF Healthy(r)
       THEN /\ rs' = IF Open(rs[r].conn) THEN rs
                     ELSE [rs EXCEPT ![r] = [Counted(@) EXCEPT !.connected = FALSE]]
            /\ Proceed(r)
       ELSE health' = [health EXCEPT !.pc = "dial"] /\ UNCHANGED rs
    /\ UNCHANGED <<main, tried, link, loop, cleaner, wg, faults>> /\ UNCHANGED <<inVars, worldVars>>

HealthDial(r) ==
    /\ AtRelay(r, "dial")
    /\ \/ Dialed(r) /\ health' = [health EXCEPT !.pc = "cancel"]
       \/ DialFailed(r) /\ Proceed(r)
    /\ UNCHANGED <<main, tried, loop, cleaner, wg, faults>> /\ UNCHANGED <<inVars, worldVars>>

(* Slip: the old loop goes on. *)
HealthNoCancel(r) ==
    /\ AtRelay(r, "cancel")
    /\ health' = [health EXCEPT !.pc = "spawn"]
    /\ UNCHANGED <<main, tried, rs, link, loop, cleaner, wg, faults>> /\ UNCHANGED <<inVars, worldVars>>

(* The loop of the previous connection is cancelled before its successor   *)
(* starts.                                                                 *)
HealthCancel(r) ==
    /\ AtRelay(r, "cancel")
    /\ health' = [health EXCEPT !.pc = "spawn"]
    /\ loop' = IF rs[r].cancelSub = 0 THEN loop
               ELSE [loop EXCEPT ![rs[r].cancelSub].cancelled = TRUE]
    /\ UNCHANGED <<main, tried, rs, link, cleaner, wg, faults>> /\ UNCHANGED <<inVars, worldVars>>

(* Slip: the loop is started without wg.Add. *)
HealthSpawnUncounted(r) ==
    /\ AtRelay(r, "spawn")
    /\ rs' = [rs EXCEPT ![r].cancelSub = rs[r].conn]
    /\ loop' = [loop EXCEPT ![rs[r].conn] = NewLoop(r)]
    /\ Proceed(r)
    /\ UNCHANGED <<main, tried, link, cleaner, wg, faults>> /\ UNCHANGED <<inVars, worldVars>>

HealthSpawn(r) ==
    /\ AtRelay(r, "spawn")
    /\ rs' = [rs EXCEPT ![r].cancelSub = rs[r].conn]
    /\ loop' = [loop EXCEPT ![rs[r].conn] = NewLoop(r)]
    /\ wg' = wg + 1
    /\ Proceed(r)
    /\ UNCHANGED <<main, tried, link, cleaner, faults>> /\ UNCHANGED <<inVars, worldVars>>

(* Slip: the loop ranges over its ticker only. *)
HealthNeverDone == FALSE

HealthDone ==
    /\ health.pc = "idle"
    /\ Cancelled
    /\ health' = [pc |-> "gone", r |-> 0]
    /\ wg' = wg - 1
    /\ UNCHANGED <<main, tried, rs, link, loop, cleaner, faults>> /\ UNCHANGED <<inVars, worldVars>>

Health ==
    \/ HealthTick \/ HealthDone
    \/ \E r \in Relays : HealthLook(r) \/ HealthDial(r) \/ HealthCancel(r) \/ HealthSpawn(r)

(* Slip: forgotten while a new subscription still asks for it. *)
StaleEarly(e) == seen[e] # Never /\ seen[e] + Retention <= now

(* startSeenEventsCleanup. *)
Stale(e) == seen[e] # Never /\ seen[e] + Retention < now

SeenCleanup ==
    /\ cleaner /\ ~Cancelled
    /\ \E e \in Events : Stale(e)
    /\ seen' = [e \in Events |-> IF Stale(e) THEN Never ELSE seen[e]]
    /\ UNCHANGED <<main, tried, rs, link, loop, health, cleaner, wg, given, faults>>
    /\ UNCHANGED worldVars

CleanerDone ==
    /\ cleaner /\ Cancelled
    /\ cleaner' = FALSE
    /\ wg' = wg - 1
    /\ UNCHANGED <<main, tried, rs, link, loop, health, faults>> /\ UNCHANGED <<inVars, worldVars>>

-----------------------------------------------------------------------------
(* Users of the transport. *)

(* Send publishes on every connected relay.  Where that fails, because the *)
(* connection is lost or the relay refuses, the failure is counted; where  *)
(* it succeeds nothing here changes.                                       *)
SendFails(r) ==
    /\ ~Cancelled
    /\ rs[r].connected /\ rs[r].conn # 0
    /\ IF Open(rs[r].conn) THEN Fault ELSE UNCHANGED faults
    /\ rs' = [rs EXCEPT ![r] = Counted(@)]
    /\ UNCHANGED <<main, tried, link, loop, health, cleaner, wg>> /\ UNCHANGED <<inVars, worldVars>>

(* Close after Connect has returned: cancel, which ends every connection   *)
(* made under the context, close the relays, wait, close the inbox.        *)
Close ==
    /\ main \in {"up", "failed"}
    /\ main' = "closing"
    /\ link' = [c \in Conns |-> [link[c] EXCEPT !.open = FALSE]]
    /\ UNCHANGED <<tried, rs, loop, health, cleaner, wg, faults>> /\ UNCHANGED <<inVars, worldVars>>

CloseInbox ==
    /\ main = "closing"
    /\ wg = 0
    /\ main' = "closed"
    /\ UNCHANGED <<tried, rs, link, loop, health, cleaner, wg, faults>> /\ UNCHANGED <<inVars, worldVars>>

-----------------------------------------------------------------------------
(* Relays and senders.  What they do after t.cancel touches nothing here,  *)
(* so the model stops them then.                                           *)

Reading(k, r) == loop[k].pc = "read" /\ loop[k].r = r /\ Open(loop[k].conn)

(* An event reaches a relay in the unit of time it was created in; the     *)
(* relay passes it on to every open subscription.                          *)
Publish(e, r) ==
    /\ up[r] /\ e \notin held[r]
    /\ ~Cancelled
    /\ made[e] \in {Never, now}
    /\ made' = [made EXCEPT ![e] = now]
    /\ held' = [held EXCEPT ![r] = @ \cup {e}]
    /\ loop' = [k \in Conns |-> IF Reading(k, r) THEN [loop[k] EXCEPT !.queue = @ \cup {e}]
                                ELSE loop[k]]
    /\ UNCHANGED <<main, tried, rs, link, health, cleaner, wg, up, now, faults>> /\ UNCHANGED inVars

Cut(C) == link' = [c \in Conns |-> IF c \in C THEN [link[c] EXCEPT !.open = FALSE] ELSE link[c]]

LinkLost(c) ==
    /\ link[c].open
    /\ ~Cancelled
    /\ Fault
    /\ Cut({c})
    /\ UNCHANGED <<main, tried, rs, loop, health, cleaner, wg>> /\ UNCHANGED <<inVars, worldVars>>

RelayDown(r) ==
    /\ up[r]
    /\ ~Cancelled
    /\ Fault
    /\ up' = [up EXCEPT ![r] = FALSE]
    /\ Cut({c \in Conns : link[c].r = r})
    /\ UNCHANGED <<main, tried, rs, loop, health, cleaner, wg, held, made, now>> /\ UNCHANGED inVars

RelayUp(r) ==
    /\ ~up[r]
    /\ ~Cancelled
    /\ up' = [up EXCEPT ![r] = TRUE]
    /\ UNCHANGED <<main, tried, rs, link, loop, health, cleaner, wg, held, made, now, faults>>
    /\ UNCHANGED inVars

(* A unit of time is long: what was received has been handled by its end. *)
Tick ==
    /\ now < MaxTime
    /\ ~Cancelled
    /\ \A k \in Conns : loop[k].queue = {} /\ loop[k].ev = {}
    /\ now' = now + 1
    /\ UNCHANGED <<main, tried, rs, link, loop, health, cleaner, wg, up, held, made, faults>>
    /\ UNCHANGED inVars

-----------------------------------------------------------------------------
Init ==
    /\ main = "connecting"
    /\ tried = 0
    /\ rs = [r \in Relays |-> [conn |-> 0, connected |-> FALSE, failures |-> 0, cancelSub |-> 0]]
    /\ link = [c \in Conns |-> [r |-> 0, open |-> FALSE]]
    /\ loop = [k \in Conns |-> NoLoop]
    /\ health = [pc |-> "none", r |-> 0]
    /\ cleaner = FALSE
    /\ wg = 0
    /\ seen = [e \in Events |-> Never]
    /\ given = [e \in Events |-> 0]
    /\ up = [r \in Relays |-> TRUE]
    /\ held = [r \in Relays |-> {}]
    /\ made = [e \in Events |-> Never]
    /\ now = 0
    /\ faults = 0

Next ==
    \/ \E r \in Relays : ConnectRelay(r) \/ SendFails(r) \/ RelayDown(r) \/ RelayUp(r)
    \/ ConnectStart
    \/ \E k \in Conns : Loop(k)
    \/ Health
    \/ SeenCleanup \/ CleanerDone
    \/ Close \/ CloseInbox
    \/ \E e \in Events, r \in Relays : Publish(e, r)
    \/ \E c \in Conns : LinkLost(c)
    \/ Tick

(* Every goroutine runs, Connect and a Close that has begun included, and  *)
(* tickers tick.  Nobody has to close, publish, read the inbox or fail,    *)
(* and a relay that is down may stay down.                                 *)
Fairness ==
    /\ \A r \in Relays : WF_vars(ConnectRelay(r))
    /\ WF_vars(ConnectStart)
    /\ \A k \in Conns : WF_vars(Loop(k))
    /\ WF_vars(Health)
    /\ WF_vars(CleanerDone)
    /\ WF_vars(CloseInbox)

Spec == Init /\ [][Next]_vars /\ Fairness

-----------------------------------------------------------------------------
(* Every variable keeps its type; the failure counter stays in its range   *)
(* and the wait group is never negative.                                   *)
TypeOK ==
    /\ tried \in 0 .. NRelays
    /\ main \in {"connecting", "failed", "up", "closing", "closed"}
    /\ rs \in [Relays -> [conn : 0 .. MaxConns, connected : BOOLEAN,
                          failures : 0 .. maxRelayFailures, cancelSub : 0 .. MaxConns]]
    /\ link \in [Conns -> [r : 0 .. NRelays, open : BOOLEAN]]
    /\ loop \in [Conns -> [pc : LoopPcs, r : 0 .. NRelays, conn : 0 .. MaxConns,
                           cancelled : BOOLEAN, queue : SUBSET Events, ev : SUBSET Events]]
    /\ health \in [pc : {"none", "idle", "look", "dial", "cancel", "spawn", "gone"},
                   r : 0 .. NRelays]
    /\ cleaner \in BOOLEAN
    /\ wg \in Nat
    /\ seen \in [Events -> 0 .. MaxTime + 1]
    /\ given \in [Events -> Nat]
    /\ up \in [Relays -> BOOLEAN]
    /\ held \in [Relays -> SUBSET Events]
    /\ made \in [Events -> 0 .. MaxTime + 1]
    /\ now \in 0 .. MaxTime
    /\ faults \in 0 .. MaxFaults

(* When Close has closed the inbox no goroutine that could still send on   *)
(* it is left, whatever the health check was starting at the time: a loop  *)
(* in handleEvent would panic.                                             *)
ClosedQuiet ==
    main = "closed" => \A k \in Conns : loop[k].pc \in {"none", "gone"}

(* An event enters the inbox at most once, however many relays hold it and *)
(* however often subscriptions are renewed while the cleaner forgets.      *)
DeliveredOnce == \A e \in Events : given[e] <= 1

(* A relay has at most one subscribeLoop that nobody has cancelled, also   *)
(* after it was removed from the active set and reconnected.               *)
OneReader ==
    \A j, k \in Conns :
        /\ j # k
        /\ \A i \in {j, k} : loop[i].pc \notin {"none", "gone"} /\ ~loop[i].cancelled
        => loop[j].r # loop[k].r

(* Close returns: loops that wait, subscribe, read or hand over, and a     *)
(* health check in the middle of a reconnection, all notice the context.   *)
CloseReturns == main = "closing" ~> main = "closed"

(* A relay that stays up is read: after lost links, a crash, or its        *)
(* removal from the active set, there is again and again a subscription on *)
(* a live connection to it.                                                *)
RelayReadAgain ==
    \A r \in Relays :
        <>[](up[r] /\ main = "up") => []<>(\E k \in Conns : Reading(k, r) /\ ~loop[k].cancelled)
=============================================================================
