# A TLA+ verification of peerclaw-agent

peerclaw-agent is a Go library for agents that talk to each other peer to peer: they meet
through a signaling server, negotiate WebRTC connections, exchange signed envelopes and files
over them, and fall back to Nostr relays when the other side is offline. This directory holds
TLA+ models of its concurrent core, the TLC runs that check them, and TLAPS proofs about them.
`PROJECT.json` maps every definition to the lines it models.

## Inventory

| part | state | operations | what is hard |
|---|---|---|---|
| connection manager `conn/manager.go` | `pending` (peer to negotiation) under `m.mu` | `Connect`, signaling loop (offer, answer, candidate, error, contact), a state-handler goroutine per negotiation, a receive loop per transport, `Stop` | crossing offers, handlers that outlive their connection and act by peer id, checks made under one lock and used under another |
| peer manager `peer/peer.go` | `peers` (peer to transport) | `AddPeer`, `RemovePeer`, `GetPeer` | a second lock, written by handlers, receive loops and `Connect` |
| message validator `security/message.go` | nonce to first-seen time | `ValidateMessage`, `CleanExpiredNonces` | concurrent calls, a clock read before the lock |
| file transfer `filetransfer/` | `Transfer.State`, maps of senders and receivers under `m.mu`, the output file | offer, accept, ready, complete, ack, reject; sender and receiver goroutines; `Cancel`; timeout loop | four goroutines share a record without a lock; data and control travel separately; waiting with `m.mu` held |
| mailbox `transport/mailbox.go` | outbox, `lastSync`, `seenEvents`, two files | `SendToInbox`, sync loop, retry loop, receipts, cleanup, `Start`, `Stop` | unreliable relays, duplicates, late publications, crash and restart |
| WebRTC transport `transport/webrtc.go` | closed flag, data channels, inbox | offer and answer, `Send`, `Close` | callbacks of pion against `Close` |
| signaling client `signaling/client.go` | connection, closed flag | connect, send, read loop, reconnect, `Close` | reconnect against `Close` |
| message cache `transport/message_cache.go` | messages per destination, a file | add, evict, save, load | two limits, order across restarts |
| agent `agent.go`, `task.go`, `security/crypto.go` | session keys, pending requests and their channels, tasks | `Send` with its fallbacks, `HandleIncomingEnvelope`, `SendRequest`, rekey, `Stop` | responses against timers and `Stop`; messages under a key that was replaced |
| trust store `security/trust.go`, `cmd/peerclaw-trust` | trust entries, a file | check, first use, set, remove, expire, import, load, save | two processes use one file, crashes during a save, blocks that must last |
| Nostr transport `transport/nostr.go` | a state per relay, loops, `seenEvents`, a wait group | `Connect`, subscription loops, health check, cleaner, `Send`, `Close` | a loop replaced while it waits; goroutines started while `Close` waits |
| monitor, reputation, discovery, tools, platform adapters, router | small maps, HTTP, scores | | see "Not modelled" |

How they interact: `agent.Send` asks `conn.Manager.Connect`, then the signaling relay, then the
mailbox. Offers and answers travel over the signaling client; a transport that connects is
registered with the peer manager, and its receive loop calls `agent.HandleIncomingEnvelope`, as
do the mailbox and the relay callback. There every envelope passes the message validator, is
decrypted under the session key the connection manager had derived, and is put to the whitelist
of the trust store. File transfer sends its control messages as envelopes and its data over a
data channel of the peer's transport.

## Modules

| module | models | run module | proofs |
|---|---|---|---|
| `MessageValidator` | the validator, its callers, the cleaner, the clock | `MCMessageValidator` | `MessageValidatorProofs` |
| `ConnManager` | connection and peer managers of all agents, composed over signaling and ICE | `MCConnManager` | `ConnManagerProofs` |
| `FileTransfer` | both managers, sender and receiver of one transfer, composed over the control path and the data channel | `FileTransfer` | `FileTransferProofs` |
| `Mailbox` | the mailboxes of all agents, composed over shared relays | `MCMailbox` | `MailboxProofs` |
| `TrustPolicy` | abstract: what a trust store promises about levels and blocks | | |
| `TrustStore` | the store in the agent and in the tool, composed over the file; refines `TrustPolicy` | `MCTrustStore` | `TrustStoreProofs` |
| `Agent` | sending, handling, requests, tasks, session keys and cache of two agents, composed over the network | `MCAgent` | `AgentProofs` |
| `NostrTransport` | the relay transport with all its goroutines, composed over its relays | `NostrTransport` | `NostrTransportProofs` |

Conventions. An action is what one goroutine does between two points at which another can
interfere: taking a lock, a map access under it and the release are one step, and a value read
under one lock and used under another makes two. What can go wrong outside is a set of
`FaultKinds`; `Faults` says which a run admits and `MaxFaults` how often. Definitions whose
comment begins with "Slip" are plausible mistakes, each of which breaks a property: they are
used in no specification and only document that the property has force.

### MessageValidator
`ValidateMessage` is three steps: `CheckFresh` (it reads the clock and compares the timestamp),
`RecordNonce` (the critical section) and `VerifySignature`. The nonce is recorded with the clock
reading of the first step, while `CleanExpiredNonces` uses the present. `MaxPause` bounds how
long a call may be held up between the two; `WindowAssumption` is the relation of window, skew
and pause under which replay protection holds. With the code's constants (5 and 2 minutes) a
call may be held up for a minute.

### ConnManager
A `pendingConn` and its transport are one object, `conn`. `Connect` is `ConnectCheck` (peer
manager and gate), `ConnectLock` (the section under `m.mu`: join, or create), `ConnectOffer`
(after the unlock), then `ConnectReady` or `ConnectTimeout`. The signaling loop handles one
message at a time: `OfferCheck`, `OfferLock` (the tie-break), `OfferAnswer`, `OfferSession` for
an offer, `AnswerLookup`, `AnswerSetRemote`, `AnswerVerify` (the fingerprint), `AnswerSession`
for an answer, `SignalingError`, `ContactAdded`. `Keyless` agents send no X25519 key, and the
session is then skipped without an error. A loop whose context is cancelled may still take a
message that is waiting, as the `select` chooses freely. The state handler is
`HandlerConnected`, `HandlerRegister`, `HandlerFailed`, `HandlerGone`, `HandlerRemove`,
`HandlerQuit`; the receive loop `ReceiveQuit`, `ReceiveClosed`; `Stop` is `Cancel` and
`StopFinish`. ICE candidates only influence ICE, whose outcome is free: `IceUp` for two live
transports that hold each other's descriptions, `IceFail` otherwise or as a fault.
`ConnectionGate` is the trust store's verdict of the moment: `NewContact` and `ContactAdded`
extend it, `Revoke` (a block or a removed contact) withdraws it. The code asks the gate once,
when an attempt begins, and closes nothing later; `GateRespected` therefore says that whatever
is held belongs to a peer that was let through at some time.

### FileTransfer
Every goroutine of a side has a list of operations, `todo`: the step that stands for a handler's
beginning decides what the function goes on to do, and `Do` performs one operation at a time.
`Transition` is two operations (`Check`, `Set`) because nothing protects the record between
them. `mu` is held where the code holds `m.mu` over such a list. `Wirings` says whether the
transport hands a file channel to the manager, as the manager expects, or sets it up as a
control channel, as under the agent; with both admitted, the arrival of the channel is either. A
new `Sender` or `Receiver` is "found" (it has its channel), "made" (`Register` put it into its
map) and then started (`Start`), with the mutex free in between; a `Stop` that comes before
`Start` finds no cancel function (`StopUnstarted`), and the goroutine started afterwards is an
"orphan" that nobody can end. The inactivity timeout needs half a minute without progress: that
it meets a goroutine inside a `Transition` or between two of them is the fault "slow". Each side
handles its control messages one after the other, although envelopes may come over three paths
at once, and a signature is checked with the key of the message's source, which here is always
the transfer's peer: the agent has authenticated both. `InitiateSend` always offers a hash; the
branch of `finalize` for an offer without one, which takes any file for whole, is not in the
model.

### Mailbox
Events are numbered in the order of their creation, and the number stands for `CreatedAt`:
sender and receiver are taken to have one clock. A sync asks for events from the second of
`lastSync` on, that second included. What the agent makes of an envelope it was handed, the
validator's refusal included, does not come back to the mailbox and is left to `Agent`. A
publication is `NewEvent`, one `Publish` per relay, and what follows it (`SendTracked`,
`Retried`, `ReceiptSent`). A sync is `SyncInbox`, `handleMailboxEvent` for each event,
`NextRelay`, `SyncEnd`. `Stop` and `Crash` differ in whether the two files are written. The
assumptions on time are stated where they are used: entries expire long after their retries are
used up, unless they were loaded from disk; `seenEvents` forgets after half an hour, and a sync
with the pause before it takes less, so that an event is forgotten only when every sync under
way or to come asks for later seconds. That is so for the default interval of five minutes; a
configured interval of half an hour or more is outside the model. A publication that a sync's
end overtakes is a fault ("late"). Receipts come from the destination only: the code does not
look at who signed one, and forged ones are not modelled.

### TrustPolicy and TrustStore
`TrustPolicy` knows a level and a mark per peer: `Meet` (a first contact), `Declare` (a
decision, along the documented transitions), `Lapse` (trust on first use runs out), `Forget`,
`Adopt`. The last two let a crash, a restart or a removal do anything to the marks, so the
refinement (`PolicyKept`) speaks of single steps within a run; that a block lasts over several
runs is `BlockSurvives`. `TrustStore` has two processes. The agent loads the file (`New`), takes
over the server's contacts one by one while others may already use the store (`SyncContact`)
until `Start` is through, edits its map through `OwnerSets`, `OnContactAdded`, `FirstUse`,
`RemoveContact`, `CleanUp` and `ImportStore`, and saves in `Stop`; the tool is `ToolSets`
(verify, pin, revoke) or `ToolImports`, each a load, a change and a save. A save is `OpenTmp`,
`WriteTmp`, `Rename` on a directory of two names over inodes, and either process may `Crash`
between any two steps. The refinement maps a level to what `Check` answers now and the mark to
`WasBlocked`. `OwnerSets` lets the owner set every level, as the accessor that the repository's
README documents would; the agent itself only verifies and blocks, so this, `FirstUse`,
`CleanUp` and `ImportStore` admit more than its own code calls. `Stop` comes after `Start` has
returned. Time counts lifetimes of a first-use entry. `Overlap` says whether the tool may run
while the agent is up; the run and the proofs of `FileWhole` and `BlockSurvives` take it as
`FALSE` (see "Disagreements").

### Agent
Every request has a trace id that belongs to its caller; a rekey is a request made by
`initiateRekey`. `SendRequest` registers the channel, `SendRequestSends` is its `Send`, and the
wait ends in `ReceiveResponse` or `TimeOut`. `Send` is the whitelist, the count, the rekey it
may set off (by count, or by age at any time), and the ladder of channels (`Route`): a message
is in `net` until it is handled or lost, or in the cache when every channel failed.
`HandleIncomingEnvelope` is one action per way through it; only the response has two,
`LookupResponse` under the lock and `PutResponse` after it. `StopBegins` is the part of `Stop`
under the lock, `StopEnds` the rest, in which handlers of other goroutines no longer run.
`Connect` stands for what `ConnManager` does to peers and session keys. A key is symbolic:
`Static` from both long-term keys, or a side's result of a rekey. The string a rekey carries is
the Ed25519 public key (`PublicKeyString`), which the other side parses as an X25519 key:
`Misreads` says whether that succeeds, and when it does the two sides derive different keys. A
derived key waits in `next` until `InstallKey` puts it in place under the lock, after the answer
was sent or received. Both agents are honest: the code does not compare the source of a response
with the destination of the request, and a third agent that knows a trace id is not modelled.
`Keyed` says whether a registered peer carries its public key, as in the tests, or not, as the
connection manager registers it. `scenario` keeps requests and messages to absent destinations
in separate behaviours; the two meet only in the cache, which requests reach as well.

### NostrTransport
A dial that succeeds makes a connection, and the loop started for it has the same number.
`Connect` is one `ConnectRelay` per relay and `ConnectStart`; a loop is `LoopTop`,
`LoopSubscribed` or `LoopNotSubscribed`, `LoadOrStore` and `Deliver` per event, `LoopClosed`,
`LoopDone`; the health check looks (`HealthLook`, two short critical sections; only the
health check itself replaces a relay's connection), dials (`HealthDial`), cancels the old loop
(`HealthCancel`) and starts the new one (`HealthSpawn`), with an unlock between each; `Close` is
the cancellation, once `Connect` has returned, and `CloseInbox`. `SendFails` counts a failed
publication, on a lost connection or, as a fault, on an open one; `LoopClosed` ends a
subscription with its connection, with its cancelled context, or as a fault. An event reaches
relays only in the unit of time it was made in: one that is published again after the retention
would be delivered again by a subscription that is still open. The inbox is abstracted:
`Deliver` either puts the event in or drops it, for a bad signature, bad content or a full
inbox. An event that is dropped stays remembered, so another copy of it does not help.

## Runs

Passing runs:

| run | instance | shows |
|---|---|---|
| `validator` | two goroutines, four envelopes that share nonces, clock to 9 | `AtMostOnce` |
| `conn_faults` | two agents that call each other, one not yet a contact of the other, one without a key, deadlines, one fault of any kind (loss and revocation among them) | `PendingNotRegistered`, `NilMeansRegistered`, `GateRespected` |
| `conn_progress` | the same, both contacts and keyed, no faults but that agent 2 may be stopped at any point, with whatever is on its way to it | `ConnectReturns`, `PendingResolved`, `StopTerminates`, `RegisteredHasSession` |
| `ft` | two chunks, an ack for each, both wirings, timeouts, one fault of any kind, an untimely timeout among them | `DoneMeansWhole`, `AuthBeforeData`, `AckedReceived`, `TransfersEnd`, `MutexReleased` |
| `mail` | one message, sender on one relay, receiver on that and another, one disturbance of any kind | `ConfirmedHanded`, `HandledOnce`, `AttemptsBounded`, `MessageArrives`, `OutboxDrains` |
| `trust` | one peer, one key pair, three backups to import (verified, blocked, expiring), two lifetimes, crashes anywhere | `PolicyKept` (the refinement), `FileWhole`, `BlockSurvives` |
| `agent` | one request and one rekey, the callee not yet a contact; or four messages to two absent destinations with limits two and three; one stop, crash, block, lost link or lost message | `PendingExact`, `AnswerIsOwn`, `CacheBounded`, `RequestReturns` |
| `nostr` | two relays, one event, three connections, one fault, window and retention of one unit, the clock to 2, `Close` at any point | `ClosedQuiet`, `DeliveredOnce`, `OneReader` |
| `nostr_progress` | one relay, four connections, two faults | `CloseReturns`, `RelayReadAgain` |

`MessageArrives` excuses a sync that passes over what it should have delivered and a restart:
`lastSync` then moves past events nobody delivered, and no statement holds.

Runs in which the code contradicts what is written about it:

| run | property | what happens |
|---|---|---|
| `conn_crossing` | `ConnectLinks` | an offer of the peer arrives between `Connect`'s unlock and `CreateOffer`; the failing `CreateOffer` cleans up by peer id and takes the answerer with it |
| `agent_inbound` | `RequestHandled` | a peer that connected has no public key, and the validator refuses all it sends, although a comment says that it would skip the signature |
| `agent_panic` | `NoPanic` | `Stop` closes a pending channel between the handler's lookup and its send |

### Disagreements

Modelling brought up more places where the code does otherwise than is written; the models
contain the behaviour, and no property above contradicts it.

- `conn/manager.go:371` says that a connection whose key derivation fails is dropped. When ICE
  has registered the peer first, `cleanupPending` finds nothing and the peer stays.
- `conn/manager.go:408` verifies the fingerprint of an answer after the description that starts
  ICE was applied. When the handler has taken the entry out of `pending` meanwhile, a failed
  verification cleans up nothing either, and the peer is registered.
- `conn/manager.go:584` removes a registered peer whose link is lost. The state handler has
  returned when it registered the peer, so nobody gets there.
- `filetransfer/manager.go:423` has the receiver ready before the data channel comes. The two
  travel separately; a channel that comes first is refused and the transfer fails.
- `filetransfer/manager.go:519` is to be called for every `ft-` channel. The agent stores that
  handler in `ftDCHandler` and never installs it (`agent.go:208-218`).
- `filetransfer/manager.go:550,576` start a receiver or a sender after releasing `m.mu`; a
  `Cancel` in between stops what is not yet started and leaves its goroutine behind.
- `transport/mailbox.go:625` publishes receipts where "sender will sync from here". The sender
  reads its own inbox relays; without a common one no receipt arrives.
- `transport/mailbox.go:202` promises offline delivery. A message that waited longer than the
  validator's skew of two minutes is refused, and receipted as delivered.
- `agent.go:268` says that `SetEncryptionKey` copies the key. It keeps the slice, which `New`
  then fills with zeroes: every agent seals its store under the zero key (`StoreKey`), and any
  key pair opens it.
- `README.md:201` has the tool manage the entries. Once an agent has saved, the file is sealed,
  the tool has no key, and it can no longer load it.
- With `Overlap`, both processes write `path.tmp`: one renames what the other has just
  truncated, and the later of two saves undoes the earlier, a `revoke` included. TLC refutes
  `FileWhole` and `BlockSurvives` for `Overlap = TRUE`; no lock in the code rules it out.
- `agent.go:1179` reports an envelope that cannot be decrypted, and reads `Source` of the nil
  envelope to do so (`DecryptFails`). After a rekey this is what the next message meets.
- An error reply has type error and is never matched with the pending request it answers:
  the caller waits for its timer. `message_cache.go:79` hands cached messages over with `Flush`,
  which nobody calls.
- `nostr.go:163` overwrites a relay's connection without closing the old one, which stays open
  until the context ends; failures reported by a cancelled loop count against its successor.

Bounds. Two agents with a call each produce every crossing; four connection objects are as many
as the two calls and the two offers they cause can create, so the pool never runs out. Two
chunks separate first, middle and last acknowledgments. Two relays give a copy to deduplicate
and a relay that fails while another works; one retry and six events suffice for the message,
its retries after a restart and all receipts (with seven events TLC finds the same states). With
one fault the run `mail` has no crash after an earlier `Stop` saved the outbox, whose old
entries would then be sent again: that case is covered by the theorems, which hold for any
number of faults, and not by the liveness properties (two disturbances can lose the message).
The two inboxes have a relay in common; a receipt that is lost stands for the case in which they
have none. One fault at a time is what the code's error paths are written for; the proofs have
no such bound. Peers of the trust store do not influence each other, so one is enough to see
what happens to its entry; two time units let an entry expire and come back. In `agent`,
`RekeyAfter` is two, so that the request or its answer sets off the rekey. In `nostr`, two
relays give a copy to deduplicate, and with window and retention of one unit each a renewed
subscription asks for the oldest event the cleaner may keep; `nostr_progress` needs the second
fault and the fourth connection for a relay to reach the failure limit, which the stragglers of
a cancelled loop help it to. Relays and senders of `NostrTransport` stop once the transport is
being closed. Deadlock is checked where loops run forever (`mail`, `validator`, `trust`); a
connection, a transfer, a request or a closed transport that is over has nothing more to do.

Fairness. Go's scheduler runs every goroutine that can run, tickers tick, contexts with a
deadline expire, and ICE and HTTP time out by themselves: these are weakly fair. In
`ConnManager` and `FileTransfer` every goroutine takes finitely many steps, so fairness of their
disjunction is enough; in `Mailbox`, `Agent` and `NostrTransport`, where one goroutine may run
forever beside another, each goroutine has its own. A message in flight is handled by an agent
that is up. Nobody has to call, send, publish, cancel, stop, close, restart or fail, and a relay
that is down may stay down; for `RelayReadAgain` it is the property that asks the relay to stay
up. `conn_crossing` and `agent_inbound` are refuted under this fairness.

## Proofs

Every invariant that a run checks is proved as `Spec => []Inv`, and the two properties of
`TrustStore` about steps as `Spec => P`. The theorems hold for every value of the constants that
satisfies the named assumptions; bounds such as `MaxFaults`, `MaxEvents` and `MaxConns` are
among those constants, so a theorem holds for every bound. The larger inductive invariants (of
`FileTransfer`, `Mailbox`, `NostrTransport` and for the session keys of `ConnManager`) were
checked with TLC on small instances, the first two with two faults, before they were proved.

`MessageValidatorProofs` proves `TypeCorrect` and `ReplayProtection` (`Spec => []AtMostOnce`)
from `ConstantsAssumption` and `WindowAssumption`. `AtMostOnce` is not inductive: an accepted
envelope must be kept out later. The invariant adds `PausesBounded` (a call at the lock holds a
clock reading at most `MaxPause` old, under which its envelope is fresh), `ClaimProtected` (once
claimed, an envelope's nonce is remembered since a time not before timestamp minus skew, or the
envelope is too old for every call that could still record it) and `ClaimUnique` (one claim at a
time). The cleaner is the interesting step: if it forgets the nonce, the second disjunct of
`ClaimProtected` follows from `WindowAssumption`.

`ConnManagerProofs` proves `TypeCorrect`, `PendingStaysPending` (`PendingNotRegistered`),
`NilIsTrue` (`NilMeansRegistered`) and `GateHolds` (`GateRespected`) for any number of agents,
calls, connections and faults. The invariant is `IInv == TypeOK /\ ConnInv /\ PendingInv /\
GateInv /\ CallInv`: `ConnInv` says that a ready connection failed or was registered, that an
object not yet created has no handler, and that objects exist only for peers the gate lets
through; `PendingInv` that an entry of `pending` is filed under its own owner and peer and that
its handler is not about to register it; `GateInv` carries the gate's verdict from the check to
the lock, through the signaling loop and the calls; `CallInv` ties a call to the object it waits
for. `PendingNotRegistered` needs the clause on handlers, because a handler takes its entry out
of `pending` first and registers the connection in a later step. There is one lemma per action;
actions that share an effect (closing transports, settling a connection, removing an entry)
share a lemma on it.

The same module proves `RegisteredAreKeyed` (`RegisteredHasSession`) where `Faults` has neither
"session" nor "dtls". ICE may register a peer before `onSession` has run, so the property holds
between two messages only, and for peers that send a key; what is invariant is `Keyed`: the key
is there, not to be had, or a step of the loop is still to derive it. `KeyInv` follows the key
from there: an answer on its way or being applied comes from a keyed answerer (`MsgKeys`,
`LoopKeys`), an offerer holds an answer only when both sides are keyed, and a handler that was
told of the connection, or is about to register it, belongs to a keyed owner (`ConnKeys`). An
answerer may hold an offer without a key, as when its answer could not be sent; but then no
offerer holds its answer, the two never match, and ICE does not connect them (`MatchedKeyed`).
Both hypotheses are needed. With "session" it is the first item under "Disagreements". With
"dtls" TLC finds a behaviour of 13 states for one call: ICE connects once the answer was
applied, the handler takes the entry out of `pending`, the verification fails and
`cleanupPending` finds nothing to close, and the handler goes on to register the peer.

`TrustStoreProofs` proves `TypeCorrect`, `StoreImplementsPolicy` (`Spec => PolicyKept`),
`FileIsWhole` and `BlockKept`, the last two from `~Overlap`. The refinement needs only the
types: each edit of the agent's map is a step of the policy for the peers it touches, a tick of
the clock is a `Lapse` of the entries that expire with it, and the steps of files and of the
tool change nothing the policy sees. The interesting cases are a crash, which forgets
everything, and a start, which adopts the file. `BlockKept` follows from `IInv == TypeOK /\
Alone /\ FileInv /\ BarInv`: `Alone` says that one process at most runs, `FileInv` that the file
is whole, that a process about to rename has its own memory in `path.tmp`, and that names and
open files are distinct inodes, `BarInv` that a barred peer is blocked, or unknown with its
mark, in the file and in every memory that may become the file. `ExportsAssumption` is what the
last needs of an import: a blocked entry in a backup has its mark, as every exported one does.

`AgentProofs` proves `TypeCorrect`, `PendingIsExact` and `AnswersAreOwn` for two agents and any
calls, rekeys, destinations, limits and faults, with either value of `Keyed`, `Misreads` and
`MayTimeOut`. The invariant adds to the three properties `NetInv` (a response in flight belongs
to a request that was answered, a rekey message to a rekey) and `ChanInv` (what is in a channel,
or was looked up to be put there, comes from such a message; a request under way has a channel).
`AnswerIsOwn` needs both, since an answer passes through the network, a handler that holds the
channel, and the channel before the caller sees it.

`AgentProofs` also proves `CacheKeepsItsLimits` (`CacheBounded`) from `CacheAssumption`: the
limit per destination is at least one, and absent destinations are no agents. The total of the
cache is the number of its `Slots`, pairs of a destination and a position. `CacheInv` demands of
what was saved the same as of what is in memory, since a restart loads it. The interesting step
evicts and appends: at the limit of a destination a message goes and one comes, so the total
stays; below both limits there is a new slot.

`FileTransferProofs` proves `TypeCorrect`, `DoneIsWhole`, `AuthenticatedFirst` and
`AcksAreTrue`. `Transition` checks and sets in two steps, so a goroutine may set what another
has made obsolete; the properties hold because of what each goroutine knows when it goes on.
`TodoOK` says this of every operation still to be done: one that sets "done" was preceded by a
verified hash, one that starts the sender by a verified signature, an ack names a chunk the
receiver has taken in; `CtlOK` says the same of messages on their way. `FramesOK` has chunks
arrive in the order of their numbers. `StartOnce` is the argument that takes several steps: the
data channel is made once, because the transition to accepted was checked while the state was
offered, and a state that has left offered never returns to it.

`MailboxProofs` proves `TypeCorrect`, `ConfirmedWasHanded`, `EventsHandledOnce` and
`RetriesAreBounded`. `ConfirmedHanded` needs that a receipt event exists only for an envelope
that was handed over (`EventsOK`), in memory and on disk (`OutboxOK`, `DiskOK`), as an entry may
be reloaded. `HandledOnce` needs `HandledOK`: an event that was handled is in `seenEvents`, or
older than what the sync under way, and every later one, asks for; `seenEventsCleanup` may only
make the second true, which is what its guard, the assumption on the interval of syncs,
provides. `AttemptsBounded` needs a budget, `Spent`: the publications of an envelope are paid
for by the first attempt, by `MaxRetries` for every restart, and by the retries its entry counts
or is about to count, since a retry publishes first and counts later and a crash between the two
forgets it. `NoneAssumption` says that no outbox entry is taken for a missing one.

`NostrTransportProofs` proves `TypeCorrect`, `CloseLeavesNobody`, `RelayHasOneReader` and
`DeliveredAtMostOnce`, the last from `RetentionAssumption`: subscriptions look back no longer
than events are remembered. `WgExact` says that the wait group counts the goroutines there are;
`Close` waits for it, so nobody is left. `Current` says that the only loop of a relay not
cancelled is the one its `cancelSub` cancels, and that there is none when the health check,
which has unlocked in between, starts the next. `TakenOnce` says that an event that was handed
over, or that a loop is about to hand over, is remembered or too old to be asked for, and
`Timely` what the two clocks have to do with each other.

Only model-checked: the liveness properties (`ConnectReturns`, `PendingResolved`,
`StopTerminates`, `TransfersEnd`, `MutexReleased`, `MessageArrives`, `OutboxDrains`,
`RequestReturns`, `CloseReturns`, `RelayReadAgain`), as fairness is out of the prover's reach,
and the counterexamples, which need no proof.

## Not modelled

- Cryptography is taken as perfect; frame layouts and JSON are values.
- Resume requests of file transfer: no code of the repository sends one. The saved resume
  state and the Nostr fallback of file transfer have no caller.
- Mailbox wakeups: no code of the repository sends one.
- Of the agent: registration, claim, heartbeats, health and `Broadcast`, which keep no state
  the rest depends on. Reputation, which only makes the inbound whitelist stricter, and its
  gossip are floating-point scores.
- Expiry of cached messages, `Flush` and `CleanExpired` of the cache: nobody calls them.
- The backoff of the Nostr transport is a delay; its growth is not modelled.
- The inside of the WebRTC transport (backpressure, callbacks of pion against `Close`), the
  signaling client's reconnection and the connection monitor: left in the plan.
- The capability router is a map without protocol; discovery and the tools are stateless
  requests; platform adapters follow protocols defined elsewhere.

## Plan

Done: `MessageValidator`, `ConnManager`, `TrustStore`, `Agent`, `FileTransfer`, `Mailbox` and
`NostrTransport`, each with proofs of all the invariants its runs check. Left, in this order:

1. Action properties: what a step may never do to a transfer that has ended, to an outbox
   entry that was confirmed, and to a relay that a newer loop serves.
2. `SignalingClient`: reconnection against `Close`, two of which write the closed flag.
   `WebRTCTransport`: callbacks that check, unlock and send against `Close`.
3. Resume requests in `FileTransfer`.
