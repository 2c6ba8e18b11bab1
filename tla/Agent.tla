------------------------------- MODULE Agent -------------------------------
(***************************************************************************)
(* Two agents exchanging requests (agent.go): Send with its ladder of      *)
(* delivery channels down to the message cache, HandleIncomingEnvelope,    *)
(* SendRequest and the map of pending requests that Stop closes, the task  *)
(* tracker, session keys and the rekey exchange.  Connections are the      *)
(* ConnManager module's, freshness and replay the MessageValidator's, the  *)
(* mailbox is one more slow channel; here a message that was sent is in    *)
(* net until it is handled or lost.                                        *)
(***************************************************************************)
EXTENDS Naturals, Sequences, FiniteSets

CONSTANTS
    Agents,             \* the two agents
    Calls,              \* [Agents -> SUBSET ids]: the requests an agent's user makes
    Rekeys,             \* [Agents -> SUBSET ids]: trace ids for its rekey requests
    Strangers,          \* agents that do not have the other on their whitelist yet
    Absent,             \* destinations that are never reachable
    MaxNotes,           \* bound on messages sent to absent destinations
    MaxCachePerDest, MaxCacheGlobal,
    RekeyAfter,         \* messages under one key before a rekey
    MaxFaults,          \* bound on stops, crashes, blocks, lost links and lost messages
    MayTimeOut,         \* may a request's timer run out?
    Keyed,              \* do registered peers carry their public key?
    Misreads            \* does ParseX25519PublicKey take an Ed25519 key string?

ASSUME AgentsAssumption == \E x, y \in Agents : x # y /\ Agents = {x, y}
ASSUME BoundsAssumption == MaxNotes \in Nat /\ MaxFaults \in Nat /\ RekeyAfter \in Nat
ASSUME CacheAssumption ==
    MaxCachePerDest \in Nat \ {0} /\ MaxCacheGlobal \in Nat /\ Absent \cap Agents = {}
ASSUME TracesAssumption == \A x, y \in Agents :
            /\ x # y => (Calls[x] \cup Rekeys[x]) \cap (Calls[y] \cup Rekeys[y]) = {}
            /\ Calls[x] \cap Rekeys[x] = {}

VARIABLES
    phase,              \* [Agents -> "up", "stopping", "stopped", "down" or "panicked"]
    trust,              \* [Agents -> the other's level in the trust store]
    peer,               \* [Agents -> is the other in the peer manager?]
    sess,               \* [Agents -> session key for the other, with its use]
    spawned,            \* [Agents -> initiateRekey goroutines not yet running, 0 or 1]
    call,               \* [Traces -> progress of the SendRequest]
    pendingRequests,    \* set of traces in their agent's map
    chan,               \* [Traces -> state of the response channel]
    hold,               \* traces whose channel a handler looked up and will send on
    task,               \* [Traces -> state in the task tracker]
    handled,            \* history: requests the other agent's handler has run for
    replied,            \* history: requests whose handler returned a response
    net,                \* messages sent and not yet handled
    queues,             \* [Agents -> [Dests -> Seq]]: the message cache
    saved,              \* the same, as Stop wrote it to MessageCachePath
    notes,              \* messages sent to absent destinations so far
    scenario,           \* what users do: bounds the instance, see Init
    faults              \* disturbances so far

vars == <<phase, trust, peer, sess, spawned, call, pendingRequests, chan, hold, task,
          handled, replied, net, queues, saved, notes, scenario, faults>>
reqVars == <<call, pendingRequests, chan, task>>
cacheVars == <<queues, saved, notes, scenario>>

Traces == UNION {Calls[x] \cup Rekeys[x] : x \in Agents}
IsRekey(t) == \E x \in Agents : t \in Rekeys[x]
Owner(t) == CHOOSE x \in Agents : t \in Calls[x] \cup Rekeys[x]
Other(x) == CHOOSE y \in Agents : y # x

NoKey == <<"none">>
Static == <<"static">>                       \* from both agents' long-term keys
(* The string in a rekey message is PublicKeyString, the Ed25519 key.  If  *)
(* it parses at all, each side combines its own X25519 key with the other's *)
(* Ed25519 key, and the two results have nothing in common.                *)
RekeyedKey(t, side) == <<"ephemeral", t, side>>
Keys == {NoKey, Static} \cup {RekeyedKey(t, s) : t \in Traces, s \in {"asker", "answerer"}}

(* count: messages under the key;                                          *)
(* next: keys derived by a rekey and not yet put in its place.             *)
Session == [key : Keys, count : 0 .. RekeyAfter, next : SUBSET Keys]
NoSession == [key |-> NoKey, count |-> 0, next |-> {}]

Kinds == {"request", "response", "error", "event", "rekey", "rekey_response", "contact"}
Msg == [to : Agents, kind : Kinds, trace : Traces \cup {"-"}, key : Keys]

Dests == Agents \cup Absent
Outcomes == {"sent", "cached", "failed"}

Running(x) == phase[x] \in {"up", "stopping"}      \* its handlers still run
Alive(x) == phase[x] \in {"up", "stopping", "stopped"}

IsAllowed(x) == trust[x] = "verified"

-----------------------------------------------------------------------------
(* Send: whitelist, encryption under the current key, and the first        *)
(* delivery channel that takes the envelope.  out is what became of it.    *)

(* Slip: no room made for the new message. *)
EnqueueAnyway(q, m) == Append(q, m)

(* MessageCache.Enqueue: refused at the global limit; at the limit for one *)
(* destination the oldest message goes.                                    *)
Slots(q) == UNION {{d} \X (1 .. Len(q[d])) : d \in Dests}
Total(q) == Cardinality(Slots(q))
Full(x) == Total(queues[x]) >= MaxCacheGlobal
Enqueue(q, m) == Append(IF Len(q) >= MaxCachePerDest THEN Tail(q) ELSE q, m)

(* The key has been used too often, or is older than rekeyTTL, as it may   *)
(* be at any time.                                                         *)
NeedsRekey(x, expired) == sess[x].key # NoKey /\ (sess[x].count + 1 >= RekeyAfter \/ expired)

(* Send to the other agent, with rest in flight already.  A stopped agent has  *)
(* only its cache left; that a running one has no channel that works is a  *)
(* fault.                                                                  *)
Route(x, kind, t, out, rest) ==
    IF kind # "contact" /\ ~IsAllowed(x)
    THEN out = "failed" /\ net' = rest /\ UNCHANGED <<spawned, queues, faults>>
    ELSE /\ \E expired \in BOOLEAN :
                spawned' = [spawned EXCEPT ![x] = IF NeedsRekey(x, expired) THEN 1 ELSE @]
         /\ \/ /\ out = "sent"
               /\ Running(x)
               /\ net' = rest \cup {[to |-> Other(x), kind |-> kind, trace |-> t,
                                     key |-> sess[x].key]}
               /\ UNCHANGED <<queues, faults>>
            \/ /\ out = (IF Full(x) THEN "failed" ELSE "cached")
               /\ Running(x) => faults < MaxFaults
               /\ faults' = IF Running(x) THEN faults + 1 ELSE faults
               /\ queues' = IF Full(x) THEN queues
                            ELSE [queues EXCEPT ![x][Other(x)] = Enqueue(@, <<kind, t>>)]
               /\ net' = rest

(* The count grows once the envelope is encrypted, whatever happens next;  *)
(* it matters only up to RekeyAfter.                                       *)
Counted(x, kind) ==
    IF sess[x].key = NoKey \/ (kind # "contact" /\ ~IsAllowed(x)) THEN sess[x]
    ELSE [sess[x] EXCEPT !.count = IF @ < RekeyAfter THEN @ + 1 ELSE @]

Send(x, kind, t, out, rest) ==
    /\ Route(x, kind, t, out, rest)
    /\ sess' = [sess EXCEPT ![x] = Counted(x, kind)]

-----------------------------------------------------------------------------
(* SendRequest. *)

(* The task tracker: a task nobody submitted is not updated. *)
Submit(t) == task' = [task EXCEPT ![t] = "submitted"]
Update(t, s) == task' = IF task[t] = "none" THEN task ELSE [task EXCEPT ![t] = s]

(* The channel is made and registered, the task submitted. *)
Register(t) ==
    /\ call[t] = "idle"
    /\ call' = [call EXCEPT ![t] = "sending"]
    /\ pendingRequests' = pendingRequests \cup {t}
    /\ chan' = [chan EXCEPT ![t] = "open"]
    /\ Submit(t)

(* Slip: the map keeps the entry. *)
ReturnOnly(t, result) ==
    /\ call' = [call EXCEPT ![t] = result]
    /\ Update(t, IF result = "answered" THEN "completed" ELSE "failed")
    /\ UNCHANGED <<chan, pendingRequests>>

(* The deferred delete runs whatever the result is. *)
Return(t, result) ==
    /\ call' = [call EXCEPT ![t] = result]
    /\ pendingRequests' = pendingRequests \ {t}
    /\ Update(t, IF result = "answered" THEN "completed" ELSE "failed")
    /\ UNCHANGED chan

SendRequest(t) ==
    /\ scenario = "calls"
    /\ t \in Calls[Owner(t)]
    /\ Alive(Owner(t))
    /\ Register(t)
    /\ UNCHANGED <<phase, trust, peer, sess, spawned, hold, handled, replied, net, faults>>
    /\ UNCHANGED cacheVars

(* initiateRekey begins: a fresh key pair and a request of its own. *)
InitiateRekey(x, t) ==
    /\ Alive(x)
    /\ t \in Rekeys[x]
    /\ spawned[x] = 1
    /\ spawned' = [spawned EXCEPT ![x] = 0]
    /\ Register(t)
    /\ UNCHANGED <<phase, trust, peer, sess, hold, handled, replied, net, faults>>
    /\ UNCHANGED cacheVars

(* Its Send, then the wait; a failed Send ends the request. *)
SendRequestSends(t, out) ==
    LET x == Owner(t)
    IN  /\ Alive(x)
        /\ call[t] = "sending"
        /\ Send(x, IF IsRekey(t) THEN "rekey" ELSE "request", t, out, net)
        /\ IF out = "failed" THEN Return(t, "failed")
           ELSE call' = [call EXCEPT ![t] = "waiting"]
                /\ UNCHANGED <<pendingRequests, chan, task>>
        /\ UNCHANGED <<phase, trust, peer, hold, handled, replied, saved, notes, scenario>>

(* initiateRekey has its response: a new key is derived when the peer's    *)
(* key string parses.                                                      *)
Rekeyed(x, t) ==
    sess' = IF Misreads THEN [sess EXCEPT ![x].next = @ \cup {RekeyedKey(t, "asker")}] ELSE sess

(* The wait ends with a response or because Stop closed the channel. *)
ReceiveResponse(t) ==
    LET x == Owner(t)
    IN  /\ Alive(x)
        /\ call[t] = "waiting"
        /\ chan[t] # "open"
        /\ Return(t, IF chan[t] = "closed" THEN "failed" ELSE "answered")
        /\ IF IsRekey(t) /\ chan[t] # "closed" THEN Rekeyed(x, t) ELSE UNCHANGED sess
        /\ UNCHANGED <<phase, trust, peer, spawned, hold, handled, replied, net, faults>>
        /\ UNCHANGED cacheVars

(* Slip: a wait without a timer. *)
NoTimer(t) == FALSE

(* The timer, or the caller's context. *)
TimeOut(t) ==
    /\ MayTimeOut
    /\ Alive(Owner(t))
    /\ call[t] = "waiting"
    /\ Return(t, "failed")
    /\ UNCHANGED <<phase, trust, peer, sess, spawned, hold, handled, replied, net, faults>>
    /\ UNCHANGED cacheVars

-----------------------------------------------------------------------------
(* HandleIncomingEnvelope, one action for each way through it. *)

(* ValidateMessage refuses a sender whose public key is not known. *)
Verifiable(x) == peer[x] /\ Keyed

Decrypts(x, m) == m.key = NoKey \/ (sess[x].key # NoKey /\ m.key = sess[x].key)

Arrives(x, m) == Running(x) /\ m \in net /\ m.to = x
Passes(x, m) ==
    /\ Arrives(x, m)
    /\ Verifiable(x)
    /\ Decrypts(x, m)
    /\ m.kind = "contact" \/ IsAllowed(x)

(* A message that is not valid, or not from a contact, is dropped. *)
Drop(x, m) ==
    /\ Arrives(x, m)
    /\ \/ ~Verifiable(x)
       \/ Decrypts(x, m) /\ m.kind # "contact" /\ ~IsAllowed(x)
    /\ net' = net \ {m}
    /\ UNCHANGED <<phase, trust, peer, sess, spawned, hold, handled, replied, faults>>
    /\ UNCHANGED <<reqVars, cacheVars>>

(* What an agent keeps in memory goes with its process. *)
Dies(x, how) ==
    /\ phase' = [phase EXCEPT ![x] = how]
    /\ peer' = [peer EXCEPT ![x] = FALSE]
    /\ sess' = [sess EXCEPT ![x] = NoSession]
    /\ spawned' = [spawned EXCEPT ![x] = 0]
    /\ call' = [t \in Traces |-> IF Owner(t) = x /\ call[t] \in {"sending", "waiting"}
                                 THEN "gone" ELSE call[t]]
    /\ pendingRequests' = {t \in pendingRequests : Owner(t) # x}
    /\ task' = [t \in Traces |-> IF Owner(t) = x THEN "none" ELSE task[t]]
    /\ hold' = {t \in hold : Owner(t) # x}
    /\ queues' = [queues EXCEPT ![x] = saved[x]]         \* what New will load
    /\ UNCHANGED <<trust, chan, handled, replied, saved, notes, scenario>>

(* DecryptEnvelope fails and returns no envelope; the log line that        *)
(* reports the failure reads its Source.                                   *)
DecryptFails(x, m) ==
    /\ Arrives(x, m)
    /\ Verifiable(x)
    /\ ~Decrypts(x, m)
    /\ net' = net \ {m}
    /\ Dies(x, "panicked")
    /\ UNCHANGED faults

(* Slip: a cached reply, sent without running the handler. *)
ReplyUnhandled(x, m, reply, out) ==
    /\ Passes(x, m)
    /\ m.kind = "request"
    /\ replied' = IF reply = "response" THEN replied \cup {m.trace} ELSE replied
    /\ Send(x, reply, m.trace, out, net \ {m})
    /\ UNCHANGED <<phase, trust, peer, hold, handled, saved, notes, scenario>>
    /\ UNCHANGED reqVars

(* A request reaches the router or the user's handler, which answers with  *)
(* a response or an error.                                                 *)
HandleRequest(x, m, reply, out) ==
    /\ Passes(x, m)
    /\ m.kind = "request"
    /\ handled' = handled \cup {m.trace}
    /\ replied' = IF reply = "response" THEN replied \cup {m.trace} ELSE replied
    /\ Send(x, reply, m.trace, out, net \ {m})
    /\ UNCHANGED <<phase, trust, peer, hold, saved, notes, scenario>>
    /\ UNCHANGED reqVars

(* Or its handler does not answer it. *)
HandleUnanswered(x, m) ==
    /\ Passes(x, m)
    /\ m.kind = "request"
    /\ handled' = handled \cup {m.trace}
    /\ net' = net \ {m}
    /\ UNCHANGED <<phase, trust, peer, sess, spawned, hold, replied, faults>>
    /\ UNCHANGED <<reqVars, cacheVars>>

(* Slip: an error reply is taken for the response. *)
LookupAnyReply(x, m) ==
    /\ Passes(x, m)
    /\ m.kind \in {"response", "rekey_response", "error"}
    /\ m.trace \in pendingRequests
    /\ hold' = hold \cup {m.trace}
    /\ net' = net \ {m}
    /\ UNCHANGED <<phase, trust, peer, sess, spawned, handled, replied, faults>>
    /\ UNCHANGED <<reqVars, cacheVars>>

(* A response: the channel is looked up under the lock, and used after it. *)
LookupResponse(x, m) ==
    /\ Passes(x, m)
    /\ m.kind \in {"response", "rekey_response"}
    /\ m.trace \in pendingRequests
    /\ hold' = hold \cup {m.trace}
    /\ net' = net \ {m}
    /\ UNCHANGED <<phase, trust, peer, sess, spawned, handled, replied, faults>>
    /\ UNCHANGED <<reqVars, cacheVars>>

(* The non-blocking send: a full channel drops it, a closed one panics. *)
PutResponse(x, t) ==
    /\ t \in hold
    /\ Owner(t) = x
    /\ IF chan[t] \in {"closed", "full_closed"}
       THEN Dies(x, "panicked")
       ELSE /\ chan' = [chan EXCEPT ![t] = "full"]
            /\ hold' = hold \ {t}
            /\ UNCHANGED <<phase, trust, peer, sess, spawned, call, pendingRequests, task,
                           handled, replied>>
            /\ UNCHANGED cacheVars
    /\ UNCHANGED <<net, faults>>

(* Everything else that passes: a response nobody waits for, an error      *)
(* reply, which no pending request is matched with, and a task event.      *)
HandleOther(x, m) ==
    /\ Passes(x, m)
    /\ \/ m.kind \in {"response", "rekey_response"} /\ m.trace \notin pendingRequests
       \/ m.kind \in {"error", "event"}
    /\ net' = net \ {m}
    /\ IF m.kind = "event" THEN Update(m.trace, "working") ELSE UNCHANGED task
    /\ UNCHANGED <<phase, trust, peer, sess, spawned, hold, handled, replied, faults>>
    /\ UNCHANGED <<call, pendingRequests, chan>>
    /\ UNCHANGED cacheVars

(* handleRekey: nothing happens when the key string does not parse; else   *)
(* the answer goes out under the old key.                                  *)
HandleRekey(x, m, out) ==
    /\ Passes(x, m)
    /\ m.kind = "rekey"
    /\ IF ~Misreads
       THEN out = "failed" /\ net' = net \ {m} /\ UNCHANGED <<sess, spawned, queues, faults>>
       ELSE /\ Route(x, "rekey_response", m.trace, out, net \ {m})
            /\ LET derived == IF out = "failed" THEN {} ELSE {RekeyedKey(m.trace, "answerer")} IN
               sess' = [sess EXCEPT ![x] = [Counted(x, "rekey_response") EXCEPT !.next = @ \cup derived]]
    /\ UNCHANGED <<phase, trust, peer, hold, handled, replied, saved, notes, scenario>>
    /\ UNCHANGED reqVars

(* The end of initiateRekey and of handleRekey: under the lock again, the  *)
(* derived key takes the place of whichever is there.                      *)
InstallKey(x, k) ==
    /\ Alive(x)
    /\ k \in sess[x].next
    /\ sess' = [sess EXCEPT ![x] = [key |-> k, count |-> 0, next |-> sess[x].next \ {k}]]
    /\ UNCHANGED <<phase, trust, peer, spawned, hold, handled, replied, net, faults>>
    /\ UNCHANGED <<reqVars, cacheVars>>

(* A contact request bypasses the whitelist; the owner's handler decides,  *)
(* and AddContact does nothing for a blocked peer.                         *)
HandleContact(x, m, approved) ==
    /\ Passes(x, m)
    /\ m.kind = "contact"
    /\ net' = net \ {m}
    /\ trust' = IF approved /\ trust[x] # "blocked"
                THEN [trust EXCEPT ![x] = "verified"] ELSE trust
    /\ UNCHANGED <<phase, peer, sess, spawned, hold, handled, replied, faults>>
    /\ UNCHANGED <<reqVars, cacheVars>>

-----------------------------------------------------------------------------
(* The owner and the world. *)

(* SendContactRequest over P2P, once each. *)
SendContactRequest(x, out) ==
    /\ scenario = "calls"
    /\ Running(x)
    /\ \A m \in net : m.kind # "contact"
    /\ Other(x) \in Strangers
    /\ trust[Other(x)] = "unknown"
    /\ Send(x, "contact", "-", out, net)
    /\ out = "sent"
    /\ UNCHANGED <<phase, trust, peer, hold, handled, replied, saved, notes, scenario>>
    /\ UNCHANGED reqVars

(* The other agent reports progress on a request it has. *)
SendEvent(x, t, out) ==
    /\ Running(x)
    /\ t \in handled \ replied
    /\ notes < MaxNotes
    /\ out = "sent"
    /\ Send(x, "event", t, out, net)
    /\ Owner(t) # x
    /\ notes' = notes + 1
    /\ UNCHANGED <<phase, trust, peer, hold, handled, replied, saved, scenario>>
    /\ UNCHANGED reqVars

(* Send to a destination without a peer or session: into the cache. *)
SendNote(x, d) ==
    /\ scenario = "notes"
    /\ Alive(x)
    /\ notes < MaxNotes
    /\ notes' = notes + 1
    /\ queues' = IF Full(x) THEN queues
                 ELSE [queues EXCEPT ![x][d] = Enqueue(@, notes + 1)]
    /\ UNCHANGED <<phase, trust, peer, sess, spawned, hold, handled, replied, net, saved, scenario, faults>>
    /\ UNCHANGED reqVars

(* A connection (ConnManager): each side derives the session key from the  *)
(* long-term keys and registers the peer.                                  *)
Connect ==
    /\ \A x \in Agents : phase[x] = "up"
    /\ \E x \in Agents : ~peer[x]
    /\ peer' = [x \in Agents |-> TRUE]
    /\ sess' = [x \in Agents |-> [key |-> Static, count |-> 0, next |-> sess[x].next]]
    /\ UNCHANGED <<phase, trust, spawned, hold, handled, replied, net, faults>>
    /\ UNCHANGED <<reqVars, cacheVars>>

Fault == faults < MaxFaults /\ faults' = faults + 1

Lose(m) ==
    /\ Fault
    /\ m \in net
    /\ net' = net \ {m}
    /\ UNCHANGED <<phase, trust, peer, sess, spawned, hold, handled, replied>>
    /\ UNCHANGED <<reqVars, cacheVars>>

(* BlockAgent. *)
BlockAgent(x) ==
    /\ Fault
    /\ Alive(x)
    /\ trust[x] # "blocked"
    /\ trust' = [trust EXCEPT ![x] = "blocked"]
    /\ UNCHANGED <<phase, peer, sess, spawned, hold, handled, replied, net>>
    /\ UNCHANGED <<reqVars, cacheVars>>

(* The peer is removed from the peer manager; its session key stays. *)
Disconnect(x) ==
    /\ Fault
    /\ Running(x)
    /\ peer[x]
    /\ peer' = [peer EXCEPT ![x] = FALSE]
    /\ UNCHANGED <<phase, trust, sess, spawned, hold, handled, replied, net>>
    /\ UNCHANGED <<reqVars, cacheVars>>

(* Stop, first part: under the lock every pending channel is closed and    *)
(* its entry deleted.  Handlers run on until the connections are closed.   *)
StopBegins(x) ==
    /\ Fault
    /\ phase[x] = "up"
    /\ phase' = [phase EXCEPT ![x] = "stopping"]
    /\ chan' = [t \in Traces |-> IF t \in pendingRequests /\ Owner(t) = x
                                 THEN IF chan[t] = "full" THEN "full_closed" ELSE "closed"
                                 ELSE chan[t]]
    /\ pendingRequests' = {t \in pendingRequests : Owner(t) # x}
    /\ UNCHANGED <<trust, peer, sess, spawned, call, hold, task, handled, replied, net>>
    /\ UNCHANGED cacheVars

(* Stop, the rest: the cache is saved, signaling and peers are closed. *)
StopEnds(x) ==
    /\ phase[x] = "stopping"
    /\ phase' = [phase EXCEPT ![x] = "stopped"]
    /\ saved' = [saved EXCEPT ![x] = queues[x]]
    /\ peer' = [peer EXCEPT ![x] = FALSE]
    /\ UNCHANGED <<trust, sess, spawned, hold, handled, replied, net, queues, notes, scenario, faults>>
    /\ UNCHANGED reqVars

(* The process ends, by itself or after Stop, and is started again. *)
Exit(x) ==
    /\ \/ phase[x] = "stopped" /\ UNCHANGED faults
       \/ phase[x] \in {"up", "stopping"} /\ Fault
    /\ Dies(x, "down")
    /\ UNCHANGED net

Restart(x) ==
    /\ phase[x] = "down"
    /\ phase' = [phase EXCEPT ![x] = "up"]
    /\ UNCHANGED <<trust, peer, sess, spawned, hold, handled, replied, net, faults>>
    /\ UNCHANGED <<reqVars, cacheVars>>

-----------------------------------------------------------------------------
Init ==
    /\ phase = [x \in Agents |-> "up"]
    /\ trust = [x \in Agents |-> IF x \in Strangers THEN "unknown" ELSE "verified"]
    /\ peer = [x \in Agents |-> FALSE]
    /\ sess = [x \in Agents |-> NoSession]
    /\ spawned = [x \in Agents |-> 0]
    /\ call = [t \in Traces |-> "idle"]
    /\ pendingRequests = {}
    /\ chan = [t \in Traces |-> "none"]
    /\ hold = {}
    /\ task = [t \in Traces |-> "none"]
    /\ handled = {}
    /\ replied = {}
    /\ net = {}
    /\ queues = [x \in Agents |-> [d \in Dests |-> <<>>]]
    /\ saved = queues
    /\ notes = 0
    /\ scenario \in {"calls", "notes"}       \* a bound: not both in one behaviour
    /\ faults = 0

Caller(t) ==
    \/ \E out \in Outcomes : SendRequestSends(t, out)
    \/ ReceiveResponse(t)
    \/ TimeOut(t)

Handler(x, m) ==
    \/ Drop(x, m) \/ DecryptFails(x, m) \/ LookupResponse(x, m) \/ HandleOther(x, m)
    \/ HandleUnanswered(x, m)
    \/ \E out \in Outcomes :
         \/ \E reply \in {"response", "error"} : HandleRequest(x, m, reply, out)
         \/ HandleRekey(x, m, out)
    \/ \E approved \in BOOLEAN : HandleContact(x, m, approved)

Next ==
    \/ \E t \in Traces : SendRequest(t) \/ Caller(t)
    \/ \E x \in Agents :
         \/ \E t \in Traces : InitiateRekey(x, t) \/ PutResponse(x, t)
         \/ \E m \in net : Handler(x, m)
         \/ \E t \in Traces, out \in Outcomes : SendEvent(x, t, out)
         \/ \E out \in Outcomes : SendContactRequest(x, out)
         \/ \E d \in Absent : SendNote(x, d)
         \/ \E k \in sess[x].next : InstallKey(x, k)
         \/ BlockAgent(x) \/ Disconnect(x)
         \/ StopBegins(x) \/ StopEnds(x) \/ Exit(x) \/ Restart(x)
    \/ Connect
    \/ \E m \in net : Lose(m)

(* Goroutines that can run do run; messages in flight are handled by an    *)
(* agent that is up; nobody has to make calls, and nothing has to fail.    *)
Fairness ==
    /\ \A t \in Traces : WF_vars(Caller(t))
    /\ \A x \in Agents : \A t \in Traces : WF_vars(PutResponse(x, t))
    /\ \A x \in Agents : WF_vars(\E m \in net : Handler(x, m))
    /\ WF_vars(Connect)

Spec == Init /\ [][Next]_vars /\ Fairness

-----------------------------------------------------------------------------
(* Every variable keeps its type, and what was answered was handled. *)
TypeOK ==
    /\ phase \in [Agents -> {"up", "stopping", "stopped", "down", "panicked"}]
    /\ trust \in [Agents -> {"unknown", "verified", "blocked"}]
    /\ peer \in [Agents -> BOOLEAN]
    /\ sess \in [Agents -> Session]
    /\ spawned \in [Agents -> 0 .. 1]
    /\ call \in [Traces -> {"idle", "sending", "waiting", "answered", "failed", "gone"}]
    /\ chan \in [Traces -> {"none", "open", "full", "closed", "full_closed"}]
    /\ task \in [Traces -> {"none", "submitted", "working", "completed", "failed"}]
    /\ pendingRequests \subseteq Traces /\ hold \subseteq Traces
    /\ replied \subseteq handled /\ handled \subseteq Traces
    /\ net \subseteq Msg
    /\ notes \in 0 .. MaxNotes /\ faults \in 0 .. MaxFaults

(* The map of pending requests holds the requests that are under way and   *)
(* no other, but for those Stop has closed: no entry is left behind by a   *)
(* timeout, a failed send, a stop or a late response, and none is removed  *)
(* under a caller that still waits.                                        *)
PendingExact ==
    \A t \in Traces :
        /\ t \in pendingRequests => call[t] \in {"sending", "waiting"}
        /\ call[t] \in {"sending", "waiting"} =>
              t \in pendingRequests \/ chan[t] \in {"closed", "full_closed"}

(* SendRequest returns a response only when the other agent has run its    *)
(* handler for this very request and answered it; a rekey only when the    *)
(* other side has taken part.                                              *)
AnswerIsOwn ==
    \A t \in Traces : call[t] = "answered" /\ ~IsRekey(t) => t \in replied

(* The cache stays within both its limits and keeps, for each destination, *)
(* messages in the order they were sent, none twice, through any stop,     *)
(* crash and reload.                                                       *)
CacheBounded ==
    \A x \in Agents :
        /\ Total(queues[x]) <= MaxCacheGlobal
        /\ \A d \in Dests : Len(queues[x][d]) <= MaxCachePerDest
        /\ \A d \in Absent : \A i, j \in 1 .. Len(queues[x][d]) :
              i < j => queues[x][d][i] < queues[x][d][j]

(* SendRequest comes back: with a response, at the latest when its timer   *)
(* runs out, or because the process is gone.                               *)
RequestReturns ==
    \A t \in Traces : call[t] \in {"sending", "waiting"}
                        ~> call[t] \in {"answered", "failed", "gone"}

(* No agent panics: Stop closes the channels of pending requests so that   *)
(* their callers return, and an envelope that cannot be decrypted is       *)
(* reported and dropped.                                                   *)
NoPanic == \A x \in Agents : phase[x] # "panicked"

(* resolvePeerPublicKey says of a peer whose key is not known that         *)
(* "ValidateMessage will skip signature verification": a request between   *)
(* connected contacts is handled.                                          *)
RequestHandled ==
    \A t \in Traces :
        call[t] = "sending" /\ ~IsRekey(t) /\ (\A x \in Agents : peer[x])
            ~> t \in handled
=============================================================================
