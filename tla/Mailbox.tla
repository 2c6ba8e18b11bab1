------------------------------- MODULE Mailbox --------------------------------
(***************************************************************************)
(* Offline delivery: transport.Mailbox of every agent, over Nostr relays.  *)
(* What the agent makes of an envelope it is handed does not come back to  *)
(* the mailbox and is left to module Agent.                                *)
(*                                                                         *)
(* Each mailbox runs an inbox sync goroutine and an outbox retry goroutine *)
(* beside the callers of SendToInbox.  All publish events to relays, one   *)
(* relay at a time; syncing reads them back, filtered by creation time.    *)
(*                                                                         *)
(* Time is left out but for the order in which events are created, which   *)
(* takes all agents to have the same clock: the number of an event is its  *)
(* CreatedAt, and lastSync the first event not created in an earlier       *)
(* second.  Retry delays pass at any time.                                 *)
(*                                                                         *)
(* Wakeup events, which no code of the repository sends, are left out, and *)
(* with them the only way the first sync and the sync loop can overlap.    *)
(***************************************************************************)
EXTENDS Naturals, Sequences, FiniteSets

CONSTANTS
    Agents,
    Relays,
    InboxRelays,   \* agent -> the sequence of relays it reads and is written to
    Envelopes,     \* envelopes that fall back to the mailbox, each sent once
    Source, Dest,  \* envelope -> agent
    None,
    MaxRetries,    \* outboxMaxRetries
    MaxEvents,     \* bound: events that can be created
    Faults,        \* what may disturb the exchange (FaultKinds)
    MaxFaults      \* bound: how many of these happen

(* publish: a relay does not take an event; subscribe: it does not deliver *)
(* what it holds; corrupt: it delivers an event whose signature or content *)
(* fails; late: an event is still being published when the sync ends that  *)
(* should have delivered it; stop, crash: an agent goes down.              *)
FaultKinds == {"publish", "subscribe", "corrupt", "late", "stop", "crash"}

ASSUME ConstantsAssumption ==
    /\ \A a \in Agents : InboxRelays[a] \in Seq(Relays) /\ InboxRelays[a] # <<>>
    /\ Source \in [Envelopes -> Agents] /\ Dest \in [Envelopes -> Agents]
    /\ None \notin Relays \cup Envelopes
    /\ MaxRetries \in Nat /\ MaxEvents \in Nat /\ MaxFaults \in Nat
    /\ Faults \subseteq FaultKinds

Events == 1 .. MaxEvents

VARIABLES
    created,    \* how many events have been created
    event,      \* what they are
    relay,      \* relay -> events it holds
    outbox,     \* envelope -> its entry in its source's outbox
    lastSync,   \* agent -> lastSync
    seen,       \* agent -> seenEvents
    sync,       \* agent -> its sync goroutine
    batch,      \* agent -> toRetry of its retry goroutine
    pub,        \* agent -> goroutine -> the event it is publishing
    up,         \* agent -> its mailbox runs
    disk,       \* agent -> the saved outbox and last sync time
    handed,     \* envelopes handed to the destination's agent
    receipted,  \* envelopes whose receipt was reported to the source
    times,      \* agent -> event -> how often it was handled since Start
    faults      \* the faults that have happened, in order

mail == <<created, event, relay, outbox, lastSync, seen, sync, batch, pub>>
ghosts == <<handed, receipted, times>>
vars == <<mail, up, disk, ghosts, faults>>

Goroutine == {"caller", "sync", "retry"}

(* OutboxEntry: NostrEventID, Retries, Confirmed; loaded from disk.        *)
Entry == [event : Events, retries : 0 .. MaxRetries, confirmed : BOOLEAN, loaded : BOOLEAN]
MaybeEntry == Entry \cup {None}

ASSUME NoneAssumption == None \notin Entry

(* The times lastSync may have.                                            *)
Moment == 0 .. MaxEvents + 1

(* at: the position of the relay whose subscription is being read.         *)
Sync == [at : Nat, since : Moment]
Asleep == [at |-> 0, since |-> 0]

(* at: the position of the relay to be tried next; ok: one took the event. *)
Pub == [env : Envelopes \cup {None}, event : 0 .. MaxEvents, at : Nat, ok : BOOLEAN]
Quiet == [env |-> None, event |-> 0, at |-> 0, ok |-> FALSE]

EventType == [kind : {"none", "message", "receipt"}, env : Envelopes \cup {None}]

TypeOK ==
    /\ created \in 0 .. MaxEvents
    /\ event \in [Events -> EventType]
    /\ relay \in [Relays -> SUBSET Events]
    /\ outbox \in [Envelopes -> MaybeEntry]
    /\ lastSync \in [Agents -> Moment]
    /\ seen \in [Agents -> SUBSET Events]
    /\ sync \in [Agents -> Sync]
    /\ batch \in [Agents -> SUBSET Envelopes]
    /\ pub \in [Agents -> [Goroutine -> Pub]]
    /\ up \in [Agents -> BOOLEAN]
    /\ disk \in [Agents -> [outbox : [Envelopes -> MaybeEntry], lastSync : Moment]]
    /\ handed \subseteq Envelopes /\ receipted \subseteq Envelopes
    /\ times \in [Agents -> [Events -> Nat]]
    /\ faults \in Seq(FaultKinds)

NoEntries == [e \in Envelopes |-> None]
NoPub == [g \in Goroutine |-> Quiet]

Init ==
    /\ created = 0
    /\ event = [n \in Events |-> [kind |-> "none", env |-> None]]
    /\ relay = [r \in Relays |-> {}]
    /\ outbox = NoEntries
    /\ lastSync = [a \in Agents |-> 0]
    /\ seen = [a \in Agents |-> {}]
    /\ sync = [a \in Agents |-> Asleep]
    /\ batch = [a \in Agents |-> {}]
    /\ pub = [a \in Agents |-> NoPub]
    /\ up = [a \in Agents |-> TRUE]
    /\ disk = [a \in Agents |-> [outbox |-> NoEntries, lastSync |-> 0]]
    /\ handed = {} /\ receipted = {}
    /\ times = [a \in Agents |-> [n \in Events |-> 0]]
    /\ faults = <<>>

Fault(kind) ==
    /\ kind \in Faults
    /\ Len(faults) < MaxFaults
    /\ faults' = Append(faults, kind)
NoFault == UNCHANGED faults

(* When faults of these kinds happened.                                    *)
Occurred(kinds) == {i \in DOMAIN faults : faults[i] \in kinds}

(* The "p" tag: whom an event is for.                                      *)
Reader(n) == IF event[n].kind = "message" THEN Dest[event[n].env] ELSE Source[event[n].env]

(* Where it is published: both go to the inbox relays of the destination,  *)
(* whose own they are when it sends a receipt.                             *)
PublishedTo(n) == InboxRelays[Dest[event[n].env]]

-----------------------------------------------------------------------------
(* Publishing.                                                             *)

(* Encrypt and sign: goroutine g of a is going to publish a new event.     *)
NewEvent(a, g, kind, e) ==
    /\ created < MaxEvents
    /\ created' = created + 1
    /\ event' = [event EXCEPT ![created + 1] = [kind |-> kind, env |-> e]]
    /\ pub' = [pub EXCEPT ![a][g] = [env |-> e, event |-> created + 1, at |-> 1, ok |-> FALSE]]

Publishing(a, g) == pub[a][g].event # 0
Published(a, g) == Publishing(a, g) /\ pub[a][g].at > Len(PublishedTo(pub[a][g].event))
EndPublishing(a, g) == pub' = [pub EXCEPT ![a][g] = Quiet]

(* pool.Publish to one relay; an error is logged and the next one tried.   *)
Publish(a, g) ==
    LET p == pub[a][g] IN
    /\ Publishing(a, g) /\ ~ Published(a, g)
    /\ \/ /\ NoFault
          /\ relay' = [relay EXCEPT ![PublishedTo(p.event)[p.at]] = @ \cup {p.event}]
          /\ pub' = [pub EXCEPT ![a][g] = [p EXCEPT !.at = @ + 1, !.ok = TRUE]]
       \/ /\ Fault("publish")
          /\ pub' = [pub EXCEPT ![a][g] = [p EXCEPT !.at = @ + 1]]
          /\ UNCHANGED relay
    /\ UNCHANGED <<created, event, outbox, lastSync, seen, sync, batch, up, disk, ghosts>>

Attempts(e) == {n \in Events : event[n] = [kind |-> "message", env |-> e]}

SendToInbox(e) ==
    LET a == Source[e] IN
    /\ up[a]
    /\ Attempts(e) = {}
    /\ ~ Publishing(a, "caller")
    /\ NewEvent(a, "caller", "message", e)
    /\ UNCHANGED <<relay, outbox, lastSync, seen, sync, batch, up, disk, ghosts, faults>>

(* At least one relay took it: track it in the outbox.  Otherwise the call *)
(* returns an error.                                                       *)
SendTracked(a) ==
    LET p == pub[a]["caller"] IN
    /\ Published(a, "caller")
    /\ outbox' = IF p.ok
                 THEN [outbox EXCEPT ![p.env] = [event |-> p.event, retries |-> 0,
                                                 confirmed |-> FALSE, loaded |-> FALSE]]
                 ELSE outbox
    /\ EndPublishing(a, "caller")
    /\ UNCHANGED <<created, event, relay, lastSync, seen, sync, batch, up, disk, ghosts, faults>>

-----------------------------------------------------------------------------
(* The retry goroutine.                                                    *)

Mine(a) == {e \in Envelopes : Source[e] = a /\ outbox[e] # None}

(* Slip: one retry too many.                                               *)
GivenUpLate(e) == outbox[e].confirmed \/ outbox[e].retries > MaxRetries

(* Confirmed, or out of retries.                                           *)
GivenUp(e) == outbox[e].confirmed \/ outbox[e].retries >= MaxRetries

(* Slip: what remains is not assigned to the outbox.                       *)
processOutboxKept(a) ==
    /\ up[a]
    /\ batch[a] = {}
    /\ pub[a]["retry"].event = 0
    /\ \E due \in SUBSET {e \in Mine(a) : ~ GivenUp(e)} :
           batch' = [batch EXCEPT ![a] = due]
    /\ UNCHANGED <<created, event, relay, outbox, lastSync, seen, sync, pub, up, disk, ghosts, faults>>

(* Under the lock: drop what is confirmed, expired or out of retries, and  *)
(* copy what is due.  The retries take half an hour and entries expire     *)
(* after days: only one that was loaded from disk may have expired.        *)
processOutbox(a) ==
    /\ up[a]
    /\ batch[a] = {}
    /\ ~ Publishing(a, "retry")
    /\ \E expired \in SUBSET {e \in Mine(a) : outbox[e].loaded} :
       LET dropped == expired \cup {e \in Mine(a) : GivenUp(e)} IN
       \E due \in SUBSET (Mine(a) \ dropped) :
           /\ dropped \cup due # {}
           /\ outbox' = [e \in Envelopes |-> IF e \in dropped THEN None ELSE outbox[e]]
           /\ batch' = [batch EXCEPT ![a] = due]
    /\ UNCHANGED <<created, event, relay, lastSync, seen, sync, pub, up, disk, ghosts, faults>>

(* Slip: the event of the first attempt is published again.                *)
retrySendSameEvent(a) ==
    /\ pub[a]["retry"].event = 0
    /\ \E e \in batch[a] :
           pub' = [pub EXCEPT ![a]["retry"] = [env |-> e, event |-> outbox[e].event,
                                               at |-> 1, ok |-> FALSE]]
    /\ UNCHANGED <<created, event, relay, outbox, lastSync, seen, sync, batch, up, disk, ghosts, faults>>

(* A new event for the same envelope.                                      *)
retrySend(a) ==
    /\ ~ Publishing(a, "retry")
    /\ \E e \in batch[a] : NewEvent(a, "retry", "message", e)
    /\ UNCHANGED <<relay, outbox, lastSync, seen, sync, batch, up, disk, ghosts, faults>>

(* Slip: a retry that a relay took counts as delivered.                    *)
RetriedConfirmed(a) ==
    LET e == pub[a]["retry"].env IN
    /\ Published(a, "retry")
    /\ outbox' = IF outbox[e] = None THEN outbox
                 ELSE [outbox EXCEPT ![e] = [@ EXCEPT !.retries = outbox[e].retries + 1,
                                                      !.confirmed = pub[a]["retry"].ok]]
    /\ batch' = [batch EXCEPT ![a] = @ \ {e}]
    /\ EndPublishing(a, "retry")
    /\ UNCHANGED <<created, event, relay, lastSync, seen, sync, up, disk, ghosts, faults>>

(* Under the lock again: count the retry, whether or not it was published. *)
Retried(a) ==
    LET e == pub[a]["retry"].env IN
    /\ Published(a, "retry")
    /\ outbox' = IF outbox[e] = None THEN outbox
                 ELSE [outbox EXCEPT ![e] = [@ EXCEPT !.retries = outbox[e].retries + 1]]
    /\ batch' = [batch EXCEPT ![a] = @ \ {e}]
    /\ EndPublishing(a, "retry")
    /\ UNCHANGED <<created, event, relay, lastSync, seen, sync, up, disk, ghosts, faults>>

-----------------------------------------------------------------------------
(* The sync goroutine.                                                     *)

(* The filter is fixed, and the first relay subscribed to.                 *)
SyncInbox(a) ==
    /\ up[a]
    /\ sync[a].at = 0
    /\ sync' = [sync EXCEPT ![a] = [at |-> 1, since |-> lastSync[a]]]
    /\ UNCHANGED <<created, event, relay, outbox, lastSync, seen, batch, pub, up, disk, ghosts, faults>>

Reading(a) == sync[a].at # 0 /\ ~ Publishing(a, "sync")

(* What the subscription being read still has to deliver: Since is counted *)
(* in whole seconds, so what was created in that of lastSync comes again;  *)
(* an event already seen is skipped.                                       *)
Incoming(a) ==
    {n \in relay[InboxRelays[a][sync[a].at]] : Reader(n) = a /\ n >= sync[a].since /\ n \notin seen[a]}

(* handleInboxMessage: hand the envelope to the agent, then send a receipt *)
(* for it, whatever the agent made of it.                                  *)
handleInboxMessage(a, e) ==
    /\ handed' = handed \cup {e}
    /\ NewEvent(a, "sync", "receipt", e)
    /\ UNCHANGED <<outbox, receipted>>

(* The entry is confirmed, if there is one.                                *)
confirmDelivery(e) ==
    IF outbox[e] = None THEN outbox ELSE [outbox EXCEPT ![e] = [@ EXCEPT !.confirmed = TRUE]]

(* A receipt carries the envelope's id, and whoever sent it is believed.   *)
handleDeliveryReceipt(e) ==
    /\ outbox' = confirmDelivery(e)
    /\ receipted' = receipted \cup {e}
    /\ UNCHANGED <<created, event, pub, handed>>

(* An event is remembered before its signature and content are checked.    *)
handleMailboxEvent(a) ==
    /\ Reading(a)
    /\ \E n \in Incoming(a) :
        /\ seen' = [seen EXCEPT ![a] = @ \cup {n}]
        /\ \/ /\ NoFault
              /\ times' = [times EXCEPT ![a][n] = @ + 1]
              /\ IF event[n].kind = "message" THEN handleInboxMessage(a, event[n].env)
                                              ELSE handleDeliveryReceipt(event[n].env)
           \/ /\ Fault("corrupt")
              /\ UNCHANGED <<created, event, pub, outbox, handed, receipted, times>>
    /\ UNCHANGED <<relay, lastSync, sync, batch, up, disk>>

(* The receipt has been tried on all relays.                               *)
ReceiptSent(a) ==
    /\ Published(a, "sync")
    /\ EndPublishing(a, "sync")
    /\ UNCHANGED <<created, event, relay, outbox, lastSync, seen, sync, batch, up, disk, ghosts, faults>>

(* The time for a subscription is over: go on to the next relay.  One that *)
(* cannot be subscribed to is passed over.                                 *)
NextRelay(a) ==
    /\ Reading(a)
    /\ sync[a].at < Len(InboxRelays[a])
    /\ \/ Incoming(a) = {} /\ NoFault
       \/ Incoming(a) # {} /\ Fault("subscribe")
    /\ sync' = [sync EXCEPT ![a].at = @ + 1]
    /\ UNCHANGED <<created, event, relay, outbox, lastSync, seen, batch, pub, up, disk, ghosts>>

(* An event for a is being published.                                      *)
OnItsWay(a) ==
    \E b \in Agents, g \in Goroutine :
        Publishing(b, g) /\ ~ Published(b, g) /\ Reader(pub[b][g].event) = a

(* lastSync at time now: created is the second of the last event, and      *)
(* created + 1 a later one.                                                *)
SyncedAt(a, now) == IF now > lastSync[a] THEN now ELSE lastSync[a]

(* After the last relay lastSync becomes the present, also when a relay    *)
(* failed.  An event that is still being published then, which is rare, is *)
(* lost when the next sync asks for a later second.  A sync that read all  *)
(* there was ends in the second of the last event, which is then asked for *)
(* again; one that missed something, in a later second.  Both are the      *)
(* worse of the two for what follows.                                      *)
SyncEnd(a) ==
    /\ Reading(a)
    /\ sync[a].at = Len(InboxRelays[a])
    /\ \/ /\ Incoming(a) = {} /\ ~ OnItsWay(a) /\ NoFault
          /\ lastSync' = [lastSync EXCEPT ![a] = SyncedAt(a, created)]
       \/ /\ \/ Incoming(a) = {} /\ OnItsWay(a) /\ Fault("late")
             \/ Incoming(a) # {} /\ Fault("subscribe")
          /\ lastSync' = [lastSync EXCEPT ![a] = SyncedAt(a, created + 1)]
    /\ sync' = [sync EXCEPT ![a] = Asleep]
    /\ UNCHANGED <<created, event, relay, outbox, seen, batch, pub, up, disk, ghosts>>

(* Slip: the cutoff is the present.                                        *)
seenEventsCleanupAll(a) ==
    /\ up[a]
    /\ seen[a] # {}
    /\ seen' = [seen EXCEPT ![a] = {}]
    /\ UNCHANGED <<created, event, relay, outbox, lastSync, sync, batch, pub, up, disk, ghosts, faults>>

(* Events seen half an hour ago are forgotten.  SyncInterval (five minutes *)
(* unless configured) and a sync together take less, so that since then    *)
(* one has ended and, if another is under way, it too began in a later     *)
(* second than the event's.                                                *)
seenEventsCleanup(a) ==
    /\ up[a]
    /\ LET old == {n \in seen[a] : n < lastSync[a] /\ (sync[a].at # 0 => n < sync[a].since)} IN
       /\ old # {}
       /\ seen' = [seen EXCEPT ![a] = @ \ old]
    /\ UNCHANGED <<created, event, relay, outbox, lastSync, sync, batch, pub, up, disk, ghosts, faults>>

-----------------------------------------------------------------------------
(* Stop, crash and restart.                                                *)

(* Nothing is left in memory; what was being published is abandoned.       *)
Halt(a) ==
    /\ up' = [up EXCEPT ![a] = FALSE]
    /\ outbox' = [e \in Envelopes |-> IF Source[e] = a THEN None ELSE outbox[e]]
    /\ lastSync' = [lastSync EXCEPT ![a] = 0]
    /\ seen' = [seen EXCEPT ![a] = {}]
    /\ sync' = [sync EXCEPT ![a] = Asleep]
    /\ batch' = [batch EXCEPT ![a] = {}]
    /\ pub' = [pub EXCEPT ![a] = NoPub]
    /\ times' = [times EXCEPT ![a] = [n \in Events |-> 0]]
    /\ UNCHANGED <<created, event, relay, handed, receipted>>

(* The outbox of a as it is written.  The retries that were due failed on  *)
(* the cancelled context and were counted all the same.                    *)
saveOutbox(a) ==
    [e \in Envelopes |->
        CASE Source[e] # a \/ outbox[e] = None -> None
          [] OTHER -> [outbox[e] EXCEPT !.retries = IF e \in batch[a] THEN @ + 1 ELSE @,
                                        !.loaded  = TRUE]]

(* A sync that was cancelled still moved lastSync on.                      *)
saveLastSync(a, now) == IF sync[a].at # 0 THEN SyncedAt(a, now) ELSE lastSync[a]

(* Stop cancels the context, waits for the loops (a receipt is published   *)
(* under a context of its own) and saves.                                  *)
Stop(a) ==
    /\ up[a]
    /\ ~ Publishing(a, "sync")
    /\ \E now \in {created, created + 1} :
           disk' = [disk EXCEPT ![a] = [outbox |-> saveOutbox(a), lastSync |-> saveLastSync(a, now)]]
    /\ Fault("stop")
    /\ Halt(a)

Crash(a) == up[a] /\ Fault("crash") /\ Halt(a) /\ UNCHANGED disk

loadOutbox(a) == outbox' = [e \in Envelopes |-> IF Source[e] = a THEN disk[a].outbox[e] ELSE outbox[e]]
loadLastSync(a) == lastSync' = [lastSync EXCEPT ![a] = disk[a].lastSync]

(* NewMailbox and Start.                                                   *)
Start(a) ==
    /\ ~ up[a]
    /\ up' = [up EXCEPT ![a] = TRUE]
    /\ loadOutbox(a)
    /\ loadLastSync(a)
    /\ UNCHANGED <<created, event, relay, seen, sync, batch, pub, disk, ghosts, faults>>

-----------------------------------------------------------------------------
Caller(a) == Publish(a, "caller") \/ SendTracked(a)

RetryLoop(a) == processOutbox(a) \/ retrySend(a) \/ Publish(a, "retry") \/ Retried(a)

SyncLoop(a) ==
    \/ SyncInbox(a) \/ handleMailboxEvent(a) \/ Publish(a, "sync") \/ ReceiptSent(a)
    \/ NextRelay(a) \/ SyncEnd(a)

Next ==
    \/ \E e \in Envelopes : SendToInbox(e)
    \/ \E a \in Agents :
         \/ Caller(a) \/ RetryLoop(a) \/ SyncLoop(a)
         \/ seenEventsCleanup(a) \/ Stop(a) \/ Crash(a) \/ Start(a)

(* Each goroutine runs on: its ticker ticks and relays answer in the end.  *)
(* Nobody has to send, stop or restart.                                    *)
Fairness == \A a \in Agents : WF_vars(Caller(a)) /\ WF_vars(RetryLoop(a)) /\ WF_vars(SyncLoop(a))

Spec == Init /\ [][Next]_vars /\ Fairness

-----------------------------------------------------------------------------
(* The sender counts a message as delivered only if the mailbox of its     *)
(* destination did hand it to the agent there.                             *)
ConfirmedHanded == \A e \in Envelopes : outbox[e] # None /\ outbox[e].confirmed => e \in handed

(* Within one run of a mailbox no event is handled twice, although relays  *)
(* hold copies of it, syncs overlap and seenEvents is cleaned up.          *)
HandledOnce == \A a \in Agents, n \in Events : times[a][n] <= 1

(* An envelope is published once and retried MaxRetries times at most, and *)
(* a restart from what was saved adds no more than that.                   *)
AttemptsBounded ==
    \A e \in Envelopes :
        Cardinality(Attempts(e)) <= 1 + MaxRetries * (1 + Cardinality(Occurred({"stop", "crash"})))

(* A message that SendToInbox took reaches its destination, although a     *)
(* publication may fail and a copy may be spoilt, unless an agent restarts *)
(* or a sync passes over what it should have delivered.                    *)
MessageArrives ==
    \A e \in Envelopes :
        outbox[e] # None ~> (e \in handed \/ Occurred({"subscribe", "late", "stop", "crash"}) # {})

(* Every entry leaves the outbox, confirmed or not.                        *)
OutboxDrains == \A e \in Envelopes : []<>(outbox[e] = None)
===============================================================================
