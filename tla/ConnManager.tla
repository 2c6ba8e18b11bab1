----------------------------- MODULE ConnManager ------------------------------
(***************************************************************************)
(* P2P connection establishment: conn.Manager and peer.Manager of every    *)
(* agent, composed over the signaling service.                             *)
(*                                                                         *)
(* Each agent runs one signaling loop, any number of Connect calls, one    *)
(* state-handler goroutine per negotiation and one receive loop per        *)
(* registered transport.  They share two maps, pending (under m.mu) and    *)
(* peers (under the peer manager's own lock).  A step of the model is what *)
(* a goroutine does between two points where another can interfere: a lock *)
(* is released between looking at one map and writing the other, so those  *)
(* are separate steps.                                                     *)
(*                                                                         *)
(* A pendingConn and its WebRTCTransport are created together and never    *)
(* exchanged, so one object, a conn, stands for both.  ICE candidates only *)
(* feed the transport; their effect is the outcome of ICE (IceUp, IceFail).*)
(***************************************************************************)
EXTENDS Naturals, Sequences, FiniteSets

CONSTANTS
    Agents,        \* agent ids; the order of Nat is the lexicographic order of the ids
    Conns,         \* pool of connection objects, used in increasing order
    Calls,         \* Connect calls, each made at most once: [id, agent, peer]
    None,          \* nil
    InitAllowed,   \* agent -> peers its connection gate lets through at start
    Keyless,       \* agents whose offers and answers carry no X25519 key
    CanTimeout,    \* a Connect call's context may expire
    Faults,        \* which steps of the outside may go wrong (FaultKinds)
    MaxFaults,     \* bound on how often they do
    CanStop        \* agents that may be stopped

(* transport: NewWebRTCTransport; answer: CreateAnswer or HandleAnswer;    *)
(* dtls: the fingerprint check; send: a signaling send; session: onSession; *)
(* loss: signaling loses a message or rejects an offer; link: ICE fails or *)
(* breaks between two live transports that match; revoke: the owner blocks *)
(* or removes a contact.                                                   *)
FaultKinds == {"transport", "answer", "dtls", "send", "session", "loss", "link", "revoke"}

ASSUME ConstantsAssumption ==
    /\ Agents \subseteq Nat /\ Agents # {}
    /\ Conns \subseteq Nat
    /\ None \notin Conns
    /\ Calls \subseteq [id : Nat, agent : Agents, peer : Agents]
    /\ \A k \in Calls : k.agent # k.peer
    /\ InitAllowed \in [Agents -> SUBSET Agents] /\ Keyless \subseteq Agents
    /\ CanTimeout \in BOOLEAN /\ Faults \subseteq FaultKinds /\ MaxFaults \in Nat
    /\ CanStop \subseteq Agents

VARIABLES
    conn,      \* the connection objects
    pending,   \* Manager.pending: agent -> peer -> conn or None
    peers,     \* peer.Manager.peers: agent -> peer -> conn or None
    session,   \* agent -> peers it holds a session key for (agent.go sessionKeys)
    inbox,     \* agent -> signaling messages on their way to it, in order
    loop,      \* agent -> where its signaling loop is
    call,      \* Connect call -> where it is
    life,      \* agent -> life cycle of its manager
    allowed,   \* agent -> peers its connection gate has let through at some time
    revoked,   \* agent -> those of them it no longer does
    faults     \* how many faults there have been

vars == <<conn, pending, peers, session, inbox, loop, call, life, allowed, revoked, faults>>

MaybeConn == Conns \cup {None}

IceState == {"new", "connected", "disconnected", "failed"}

Event == {"connected", "disconnected", "failed", "closed"}

(* transport: not yet created, in use, or after Close                      *)
(* ready, err: the channel that wakes Connect, and the error it reports    *)
(* remote: the conn whose description was applied with SetRemoteDescription *)
(* stateCh: ICE state changes not yet seen by the handler; a transport has *)
(*          fewer changes than the channel's capacity of 8                 *)
(* handler, recv: the state-handler goroutine and the receive loop         *)
Conn == [transport : {"free", "open", "closed"},
         owner     : Agents,
         peer      : Agents,
         role      : {"offerer", "answerer"},
         ready     : BOOLEAN,
         err       : BOOLEAN,
         remote    : MaybeConn,
         ice       : IceState,
         stateCh   : Seq(Event),
         handler   : {"run", "register", "remove", "done"},
         recv      : {"none", "run", "done"}]

(* offer, answer: the sender and the conn whose description it carries.    *)
(* error: the server rejects a signaling attempt of the receiver.          *)
(* contact: the server reports a new contact of the receiver.              *)
Msg == [type : {"offer", "answer", "error", "contact"}, from : Agents, conn : MaybeConn]

(* The message being handled (its sender and conn) and the local conn the  *)
(* handler works on.                                                       *)
Loop == [pc   : {"idle", "exit", "offerLock", "answer", "offerSession", "setRemote", "verifyDTLS",
                 "answerSession"},
         peer : Agents, remote : MaybeConn, conn : MaybeConn]

CallPc == {"idle", "checked", "offering", "waiting", "joined", "ok", "err", "timeout"}

TypeOK ==
    /\ conn \in [Conns -> Conn]
    /\ pending \in [Agents -> [Agents -> MaybeConn]]
    /\ peers \in [Agents -> [Agents -> MaybeConn]]
    /\ session \in [Agents -> SUBSET Agents]
    /\ inbox \in [Agents -> Seq(Msg)]
    /\ loop \in [Agents -> Loop]
    /\ call \in [Calls -> [pc : CallPc, conn : MaybeConn]]
    /\ life \in [Agents -> {"running", "stopping", "stopped"}]
    /\ allowed \in [Agents -> SUBSET Agents]
    /\ revoked \in [Agents -> SUBSET Agents]
    /\ faults \in Nat

(* Slip: the role is left at its zero value.                               *)
FreshConnNoRole(a, p, role) ==
    [transport |-> "open", owner |-> a, peer |-> p, role |-> "", ready |-> FALSE, err |-> FALSE,
     remote |-> None, ice |-> "new", stateCh |-> <<>>, handler |-> "run", recv |-> "none"]

FreshConn(a, p, role) ==
    [transport |-> "open", owner |-> a, peer |-> p, role |-> role, ready |-> FALSE, err |-> FALSE,
     remote |-> None, ice |-> "new", stateCh |-> <<>>, handler |-> "run", recv |-> "none"]

FirstAgent == CHOOSE a \in Agents : TRUE

IdleLoop == [pc |-> "idle", peer |-> FirstAgent, remote |-> None, conn |-> None]

Init ==
    /\ conn = [c \in Conns |-> [FreshConn(FirstAgent, FirstAgent, "offerer") EXCEPT
                                  !.transport = "free", !.handler = "done"]]
    /\ pending = [a \in Agents |-> [p \in Agents |-> None]]
    /\ peers = [a \in Agents |-> [p \in Agents |-> None]]
    /\ session = [a \in Agents |-> {}]
    /\ inbox = [a \in Agents |-> <<>>]
    /\ loop = [a \in Agents |-> IdleLoop]
    /\ call = [k \in Calls |-> [pc |-> "idle", conn |-> None]]
    /\ life = [a \in Agents |-> "running"]
    /\ allowed = InitAllowed
    /\ revoked = [a \in Agents |-> {}]
    /\ faults = 0

-----------------------------------------------------------------------------
(* Something outside goes wrong, once more, or does not.                   *)
Fault(kind) == kind \in Faults /\ faults < MaxFaults /\ faults' = faults + 1
NoFault == UNCHANGED faults

(* The next unused connection object.                                      *)
Unused(c) == conn[c].transport = "free" /\ \A d \in Conns : d < c => conn[d].transport # "free"

Put(map, a, p, c) == [map EXCEPT ![a][p] = c]

(* Two transports hold each other's description and neither is closed.     *)
Matched(c) ==
    /\ conn[c].transport = "open"
    /\ conn[c].remote # None
    /\ conn[conn[c].remote].transport = "open"
    /\ conn[conn[c].remote].remote = c

(* WebRTCTransport.Close on every member of S.  Pion reports the final     *)
(* "closed" state only for a transport whose ICE agent was started, that   *)
(* is, one with a remote description, and may be too late to report it at  *)
(* all: Reported is the set that does.  What is put on a state channel     *)
(* after its handler returned is read by nobody and left out; so are the   *)
(* description and ICE state of a closed transport.                        *)
Closing(cs, S, Reported) ==
    [c \in Conns |->
        IF c \in S /\ cs[c].transport = "open"
        THEN [cs[c] EXCEPT !.transport = "closed", !.remote = None, !.ice = "new",
                           !.stateCh = IF c \in Reported THEN Append(@, "closed") ELSE @]
        ELSE cs[c]]

Reportable(cs, S) ==
    SUBSET {c \in S : cs[c].transport = "open" /\ cs[c].remote # None /\ cs[c].handler = "run"}

CloseAll(cs, S) == \E R \in Reportable(cs, S) : conn' = Closing(cs, S, R)

(* The conn stored under an id, as a set.                                  *)
Entry(map, a, p) == {map[a][p]} \ {None}

(* cleanupPending(peerID): drop and close whatever is pending for the peer. *)
cleanupPending(cs, a, p) ==
    /\ pending' = Put(pending, a, p, None)
    /\ CloseAll(cs, Entry(pending, a, p))

(* RemovePeer(agentID): drop and close whatever is registered for the peer. *)
RemovePeer(cs, a, p) ==
    /\ peers' = Put(peers, a, p, None)
    /\ CloseAll(cs, Entry(peers, a, p))

(* A message through the signaling service.  Nobody reads what comes for a *)
(* loop that has ended, so nothing is queued for it.                       *)
Send(to, m) == inbox' = IF loop[to].pc # "exit" THEN [inbox EXCEPT ![to] = Append(@, m)] ELSE inbox

(* ConnectionGate: the trust store's verdict on the peer, now.             *)
ConnectionGate(a, p) == p \in allowed[a] \ revoked[a]

(* A signaling send can fail by itself, or because m.ctx is cancelled.     *)
SendFails(a) == \/ life[a] # "running" /\ NoFault
                \/ Fault("send")

-----------------------------------------------------------------------------
(* Connect(ctx, peerID), called by the agent's Send.                       *)

Return(k, result) ==
    call' = [call EXCEPT ![k] = [pc   |-> result,
                                 conn |-> IF result \in {"err", "timeout"} THEN None ELSE @.conn]]

(* Gate check and the look at the peer manager, before m.mu is taken.      *)
ConnectCheck(k) ==
    /\ call[k].pc = "idle"
    /\ Return(k, CASE ~ ConnectionGate(k.agent, k.peer)     -> "err"
                    [] peers[k.agent][k.peer] # None        -> "ok"
                    [] OTHER                                -> "checked")
    /\ UNCHANGED <<conn, pending, peers, session, inbox, loop, life, allowed, revoked, faults>>

(* Under m.mu: join the pending connection, or create one as offerer and   *)
(* start its state handler.                                                *)
ConnectLock(k) ==
    LET a == k.agent
        p == k.peer IN
    /\ call[k].pc = "checked"
    /\ \/ /\ pending[a][p] # None
          /\ call' = [call EXCEPT ![k] = [pc |-> "joined", conn |-> pending[a][p]]]
          /\ NoFault
          /\ UNCHANGED <<conn, pending>>
       \/ /\ pending[a][p] = None
          /\ NoFault
          /\ \E c \in Conns :
                /\ Unused(c)
                /\ conn' = [conn EXCEPT ![c] = FreshConn(a, p, "offerer")]
                /\ pending' = Put(pending, a, p, c)
                /\ call' = [call EXCEPT ![k] = [pc |-> "offering", conn |-> c]]
       \/ /\ pending[a][p] = None
          /\ Fault("transport")
          /\ Return(k, "err")
          /\ UNCHANGED <<conn, pending>>
    /\ UNCHANGED <<peers, session, inbox, loop, life, allowed, revoked>>

(* CreateOffer and the offer's send.  Either can fail, CreateOffer because *)
(* a crossing offer has closed the transport meanwhile.                    *)
ConnectOffer(k) ==
    LET a == k.agent
        p == k.peer
        c == call[k].conn IN
    /\ call[k].pc = "offering"
    /\ \/ /\ conn[c].transport = "open"
          /\ NoFault
          /\ Send(p, [type |-> "offer", from |-> a, conn |-> c])
          /\ Return(k, "waiting")
          /\ UNCHANGED <<conn, pending>>
       \/ /\ (conn[c].transport = "closed" /\ NoFault) \/ SendFails(a)
          /\ cleanupPending(conn, a, p)
          /\ Return(k, "err")
          /\ UNCHANGED inbox
    /\ UNCHANGED <<peers, session, loop, life, allowed, revoked>>

(* pc.ready is closed: the call returns pc.err.                            *)
ConnectReady(k) ==
    /\ call[k].pc \in {"waiting", "joined"}
    /\ conn[call[k].conn].ready
    /\ Return(k, IF conn[call[k].conn].err THEN "err" ELSE "ok")
    /\ UNCHANGED <<conn, pending, peers, session, inbox, loop, life, allowed, revoked, faults>>

(* Slip: a caller that joined a pending connection does not watch its ctx. *)
ConnectTimeoutOffererOnly(k) ==
    /\ CanTimeout
    /\ call[k].pc = "waiting"
    /\ cleanupPending(conn, k.agent, k.peer)
    /\ Return(k, "timeout")
    /\ UNCHANGED <<peers, session, inbox, loop, life, allowed, revoked, faults>>

(* ctx.Done(): the call that made the offer also cleans up, by peer id.    *)
ConnectTimeout(k) ==
    /\ CanTimeout
    /\ \/ /\ call[k].pc = "waiting"
          /\ cleanupPending(conn, k.agent, k.peer)
       \/ /\ call[k].pc = "joined"
          /\ UNCHANGED <<conn, pending>>
    /\ Return(k, "timeout")
    /\ UNCHANGED <<peers, session, inbox, loop, life, allowed, revoked, faults>>

-----------------------------------------------------------------------------
(* signalingLoop: one message at a time.  Once its context is cancelled the *)
(* select may still take a message that is queued.                         *)

Receiving(a, type) ==
    /\ loop[a].pc = "idle"
    /\ inbox[a] # <<>>
    /\ Head(inbox[a]).type = type
    /\ inbox' = [inbox EXCEPT ![a] = Tail(@)]

Goto(a, pc, c) == loop' = [loop EXCEPT ![a] = [@ EXCEPT !.pc = pc, !.conn = c]]

Done(a) == loop' = [loop EXCEPT ![a] = IdleLoop]

(* Slip: offers are not put to the connection gate.                        *)
OfferCheckUngated(a) ==
    LET m == Head(inbox[a]) IN
    /\ Receiving(a, "offer")
    /\ peers[a][m.from] = None
    /\ loop' = [loop EXCEPT ![a] = [pc |-> "offerLock", peer |-> m.from,
                                    remote |-> m.conn, conn |-> None]]
    /\ UNCHANGED <<conn, pending, peers, session, call, life, allowed, revoked, faults>>

(* handleOffer up to m.mu: gate check, already connected, new transport.   *)
OfferCheck(a) ==
    LET m == Head(inbox[a]) IN
    /\ Receiving(a, "offer")
    /\ \/ /\ ConnectionGate(a, m.from)
          /\ peers[a][m.from] = None
          /\ NoFault
          /\ loop' = [loop EXCEPT ![a] = [pc |-> "offerLock", peer |-> m.from,
                                          remote |-> m.conn, conn |-> None]]
       \/ /\ \/ (~ ConnectionGate(a, m.from) \/ peers[a][m.from] # None) /\ NoFault
             \/ Fault("transport")
          /\ UNCHANGED loop
    /\ UNCHANGED <<conn, pending, peers, session, call, life, allowed, revoked>>

(* We keep our own offer when both offered and our id is the smaller one.  *)
WinsTie(a, p) == pending[a][p] # None /\ conn[pending[a][p]].role = "offerer" /\ a < p

(* Under m.mu: the tie-break, then the answerer replaces whatever was      *)
(* pending.  A losing offerer's transport is closed, its ready channel is  *)
(* not; a replaced answerer is not closed at all.                          *)
OfferLock(a) ==
    LET p        == loop[a].peer
        offerers == {d \in Entry(pending, a, p) : conn[d].role = "offerer"} IN
    /\ loop[a].pc = "offerLock"
    /\ \/ /\ WinsTie(a, p)
          /\ Done(a)
          /\ UNCHANGED <<conn, pending>>
       \/ /\ ~ WinsTie(a, p)
          /\ \E c \in Conns :
                /\ Unused(c)
                /\ CloseAll([conn EXCEPT ![c] = FreshConn(a, p, "answerer")], offerers)
                /\ pending' = Put(pending, a, p, c)
                /\ Goto(a, "answer", c)
    /\ UNCHANGED <<peers, session, inbox, call, life, allowed, revoked, faults>>

(* CreateAnswer, the DTLS check and the answer's send; each failure cleans *)
(* up by peer id.  The remote description may be set before the failure.   *)
OfferAnswer(a) ==
    LET p   == loop[a].peer
        c   == loop[a].conn
        set == [conn EXCEPT ![c].remote = loop[a].remote] IN
    /\ loop[a].pc = "answer"
    /\ \/ /\ conn[c].transport = "open"
          /\ conn' = set
          /\ NoFault
          /\ Send(p, [type |-> "answer", from |-> a, conn |-> c])
          /\ Goto(a, "offerSession", c)
          /\ UNCHANGED pending
       \/ /\ (conn[c].transport = "closed" /\ NoFault) \/ Fault("answer")
          /\ cleanupPending(conn, a, p)
          /\ Done(a)
          /\ UNCHANGED inbox
       \/ /\ conn[c].transport = "open"
          /\ Fault("dtls") \/ SendFails(a)
          /\ cleanupPending(set, a, p)
          /\ Done(a)
          /\ UNCHANGED inbox
    /\ UNCHANGED <<peers, session, call, life, allowed, revoked>>

(* onSession, after the answer has gone out; skipped when the peer sent no *)
(* key.                                                                    *)
OfferSession(a) ==
    LET p == loop[a].peer IN
    /\ loop[a].pc = "offerSession"
    /\ \/ /\ session' = [session EXCEPT ![a] = @ \cup ({p} \ Keyless)]
          /\ NoFault
          /\ UNCHANGED <<conn, pending>>
       \/ /\ p \notin Keyless
          /\ Fault("session")
          /\ cleanupPending(conn, a, p)
          /\ UNCHANGED session
    /\ Done(a)
    /\ UNCHANGED <<peers, inbox, call, life, allowed, revoked>>

(* handleAnswer: the pending offerer is looked up under m.mu ...           *)
AnswerLookup(a) ==
    LET m == Head(inbox[a])
        c == pending[a][m.from] IN
    /\ Receiving(a, "answer")
    /\ IF c # None /\ conn[c].role = "offerer"
       THEN loop' = [loop EXCEPT ![a] = [pc |-> "setRemote", peer |-> m.from,
                                         remote |-> m.conn, conn |-> c]]
       ELSE UNCHANGED loop
    /\ UNCHANGED <<conn, pending, peers, session, call, life, allowed, revoked, faults>>

(* Slip: the offerer's handler ends without onSession. *)
AnswerNoSession(a) ==
    /\ loop[a].pc = "answerSession"
    /\ Done(a)
    /\ UNCHANGED <<conn, pending, peers, session, inbox, call, life, allowed, revoked, faults>>

(* ... and used after its release.  SetRemoteDescription fails on a closed *)
(* transport and on one that already holds an answer.                      *)
AnswerSetRemote(a) ==
    LET p       == loop[a].peer
        c       == loop[a].conn
        accepts == conn[c].transport = "open" /\ conn[c].remote = None
        set     == [conn EXCEPT ![c].remote = loop[a].remote] IN
    /\ loop[a].pc = "setRemote"
    /\ \/ /\ accepts
          /\ conn' = set
          /\ NoFault
          /\ Goto(a, "verifyDTLS", c)
          /\ UNCHANGED pending
       \/ /\ (~ accepts /\ NoFault) \/ Fault("answer")
          /\ cleanupPending([conn EXCEPT ![c].err = TRUE], a, p)
          /\ Done(a)
    /\ UNCHANGED <<peers, session, inbox, call, life, allowed, revoked>>

(* VerifyRemoteDTLSFingerprint: by now ICE may have connected the two, and *)
(* the cleanup may find nothing.                                           *)
AnswerVerify(a) ==
    LET p == loop[a].peer
        c == loop[a].conn IN
    /\ loop[a].pc = "verifyDTLS"
    /\ \/ /\ NoFault
          /\ Goto(a, "answerSession", c)
          /\ UNCHANGED <<conn, pending>>
       \/ /\ Fault("dtls")
          /\ cleanupPending([conn EXCEPT ![c].err = TRUE], a, p)
          /\ Done(a)
    /\ UNCHANGED <<peers, session, inbox, call, life, allowed, revoked>>

AnswerSession(a) ==
    LET p == loop[a].peer
        c == loop[a].conn IN
    /\ loop[a].pc = "answerSession"
    /\ \/ /\ session' = [session EXCEPT ![a] = @ \cup ({p} \ Keyless)]
          /\ NoFault
          /\ UNCHANGED <<conn, pending>>
       \/ /\ p \notin Keyless
          /\ Fault("session")
          /\ cleanupPending([conn EXCEPT ![c].err = TRUE], a, p)
          /\ UNCHANGED session
    /\ Done(a)
    /\ UNCHANGED <<peers, inbox, call, life, allowed, revoked>>

(* handleSignalingError: fails every pending offer of the agent.           *)
SignalingError(a) ==
    LET failed == {c \in Conns : /\ \E p \in Agents : pending[a][p] = c
                                 /\ conn[c].role = "offerer"} IN
    /\ Receiving(a, "error")
    /\ pending' = [pending EXCEPT ![a] =
                      [p \in Agents |-> IF @[p] \in failed THEN None ELSE @[p]]]
    /\ CloseAll([c \in Conns |-> IF c \in failed THEN [conn[c] EXCEPT !.err = TRUE, !.ready = TRUE]
                                                 ELSE conn[c]], failed)
    /\ UNCHANGED <<peers, session, loop, call, life, allowed, revoked, faults>>

(* handleContactAdded: the agent verifies the contact, opening the gate.   *)
ContactAdded(a) ==
    /\ Receiving(a, "contact")
    /\ allowed' = [allowed EXCEPT ![a] = @ \cup {Head(inbox[a]).from}]
    /\ revoked' = [revoked EXCEPT ![a] = @ \ {Head(inbox[a]).from}]
    /\ UNCHANGED <<conn, pending, peers, session, loop, call, life, faults>>

LoopExit(a) ==
    /\ loop[a].pc = "idle"
    /\ life[a] = "stopping"
    /\ loop' = [loop EXCEPT ![a].pc = "exit"]
    /\ inbox' = [inbox EXCEPT ![a] = <<>>]
    /\ UNCHANGED <<conn, pending, peers, session, call, life, allowed, revoked, faults>>

-----------------------------------------------------------------------------
(* The state-handler goroutine of a connection (setupStateHandler).        *)

(* The object of a handler that ends, or that goes on to touch the peers;   *)
(* and of one that reports a failure to the waiting Connect.                *)
Ends(c, handler) == [conn[c] EXCEPT !.stateCh = <<>>, !.handler = handler]
Fails(c) == [conn[c] EXCEPT !.stateCh = <<>>, !.handler = "done", !.err = TRUE, !.ready = TRUE]

(* Slip: the handler does not watch the manager's context.                 *)
HandlerQuitOnReady(c) ==
    /\ conn[c].handler = "run"
    /\ conn[c].ready
    /\ conn' = [conn EXCEPT ![c] = Ends(c, "done")]
    /\ UNCHANGED <<pending, peers, session, inbox, loop, call, life, allowed, revoked, faults>>

(* It ends on cancellation, or when something else closed pc.ready.        *)
HandlerQuit(c) ==
    /\ conn[c].handler = "run"
    /\ conn[c].ready \/ life[conn[c].owner] # "running"
    /\ conn' = [conn EXCEPT ![c] = Ends(c, "done")]
    /\ UNCHANGED <<pending, peers, session, inbox, loop, call, life, allowed, revoked, faults>>

(* The handler takes the next state change.  It returns after each of the  *)
(* changes modelled, so the rest of its channel is forgotten with it.      *)
Takes(c, events) ==
    /\ conn[c].handler = "run"
    /\ conn[c].stateCh # <<>>
    /\ Head(conn[c].stateCh) \in events

StillPending(c) == pending[conn[c].owner][conn[c].peer] # None

Unpend(c) == pending' = Put(pending, conn[c].owner, conn[c].peer, None)

(* Slip: the pending entry is not removed.                                 *)
HandlerConnectedKeepsPending(c) ==
    /\ Takes(c, {"connected"})
    /\ StillPending(c)
    /\ conn' = [conn EXCEPT ![c] = Ends(c, "register")]
    /\ UNCHANGED <<pending, peers, session, inbox, loop, call, life, allowed, revoked, faults>>

(* Connected: under m.mu the pending entry of the peer is removed ...      *)
HandlerConnected(c) ==
    /\ Takes(c, {"connected"})
    /\ \/ /\ StillPending(c)
          /\ Unpend(c)
          /\ conn' = [conn EXCEPT ![c] = Ends(c, "register")]
       \/ /\ ~ StillPending(c)
          /\ conn' = [conn EXCEPT ![c] = Ends(c, "done")]
          /\ UNCHANGED pending
    /\ UNCHANGED <<peers, session, inbox, loop, call, life, allowed, revoked, faults>>

(* ... and then the peer is registered (AddPeer replaces an older entry    *)
(* without closing it), its receive loop started and Connect woken.        *)
HandlerRegister(c) ==
    /\ conn[c].handler = "register"
    /\ peers' = Put(peers, conn[c].owner, conn[c].peer, c)
    /\ conn' = [conn EXCEPT ![c] = [@ EXCEPT !.handler = "done", !.recv = "run", !.ready = TRUE]]
    /\ UNCHANGED <<pending, session, inbox, loop, call, life, allowed, revoked, faults>>

(* Slip: a failed negotiation stays in the map.                            *)
HandlerFailedKeepsPending(c) ==
    /\ Takes(c, {"failed"})
    /\ CloseAll([conn EXCEPT ![c] = Fails(c)], {c})
    /\ UNCHANGED <<pending, peers, session, inbox, loop, call, life, allowed, revoked, faults>>

HandlerFailed(c) ==
    /\ Takes(c, {"failed"})
    /\ Unpend(c)
    /\ CloseAll([conn EXCEPT ![c] = IF StillPending(c) THEN Fails(c) ELSE Ends(c, "done")], {c})
    /\ UNCHANGED <<peers, session, inbox, loop, call, life, allowed, revoked, faults>>

(* Slip: the waiting Connect is woken without an error.                    *)
HandlerGoneNoError(c) ==
    /\ Takes(c, {"disconnected", "closed"})
    /\ Unpend(c)
    /\ conn' = [conn EXCEPT ![c] = [Ends(c, "done") EXCEPT !.ready = TRUE]]
    /\ UNCHANGED <<peers, session, inbox, loop, call, life, allowed, revoked, faults>>

(* Disconnected or closed: a pending entry is removed, otherwise the peer  *)
(* is taken to be registered.                                              *)
HandlerGone(c) ==
    /\ Takes(c, {"disconnected", "closed"})
    /\ Unpend(c)
    /\ conn' = [conn EXCEPT ![c] = IF StillPending(c) THEN Fails(c) ELSE Ends(c, "remove")]
    /\ UNCHANGED <<peers, session, inbox, loop, call, life, allowed, revoked, faults>>

HandlerRemove(c) ==
    /\ conn[c].handler = "remove"
    /\ RemovePeer([conn EXCEPT ![c] = [@ EXCEPT !.handler = "done"]], conn[c].owner, conn[c].peer)
    /\ UNCHANGED <<pending, session, inbox, loop, call, life, allowed, revoked, faults>>

-----------------------------------------------------------------------------
(* receiveLoop: ends on cancellation; when the transport's inbox is closed *)
(* it removes the peer, by id.                                             *)
ReceiveQuit(c) ==
    /\ conn[c].recv = "run"
    /\ life[conn[c].owner] # "running"
    /\ conn' = [conn EXCEPT ![c] = [@ EXCEPT !.recv = "done"]]
    /\ UNCHANGED <<pending, peers, session, inbox, loop, call, life, allowed, revoked, faults>>

ReceiveClosed(c) ==
    /\ conn[c].recv = "run"
    /\ conn[c].transport = "closed"
    /\ RemovePeer([conn EXCEPT ![c] = [@ EXCEPT !.recv = "done"]], conn[c].owner, conn[c].peer)
    /\ UNCHANGED <<pending, session, inbox, loop, call, life, allowed, revoked, faults>>

-----------------------------------------------------------------------------
(* Stop: cancel, wait for the loop, the handlers and the receive loops,    *)
(* close what is still pending; the agent then closes its peers.           *)
Cancel(a) ==
    /\ a \in CanStop
    /\ life[a] = "running"
    /\ life' = [life EXCEPT ![a] = "stopping"]
    /\ UNCHANGED <<conn, pending, peers, session, inbox, loop, call, allowed, revoked, faults>>

Goroutines(a) ==
    {c \in Conns : conn[c].owner = a /\ (conn[c].handler # "done" \/ conn[c].recv = "run")}

StopFinish(a) ==
    LET all == {c \in Conns : \E p \in Agents : pending[a][p] = c \/ peers[a][p] = c} IN
    /\ life[a] = "stopping"
    /\ loop[a].pc = "exit"
    /\ Goroutines(a) = {}
    /\ life' = [life EXCEPT ![a] = "stopped"]
    /\ pending' = [pending EXCEPT ![a] = [p \in Agents |-> None]]
    /\ peers' = [peers EXCEPT ![a] = [p \in Agents |-> None]]
    /\ CloseAll(conn, all)
    /\ UNCHANGED <<session, inbox, loop, call, allowed, revoked, faults>>

-----------------------------------------------------------------------------
(* The outside: ICE between two transports, and the signaling service.     *)

(* Only the handler and the receive loop can tell how ICE fares, so a      *)
(* transport that neither serves any more takes no further ICE steps.      *)
IceStep(c, state) ==
    /\ conn[c].handler = "run" \/ conn[c].recv = "run"
    /\ LET ch == conn[c].stateCh IN
       conn' = [conn EXCEPT ![c] = [@ EXCEPT
                   !.stateCh = IF conn[c].handler = "run" THEN Append(ch, state) ELSE ch,
                   !.ice = state]]
    /\ UNCHANGED <<pending, peers, session, inbox, loop, call, life, allowed, revoked>>

IceUp(c) == conn[c].ice = "new" /\ Matched(c) /\ NoFault /\ IceStep(c, "connected")

(* The answer that carries c's description is still on its way.            *)
AnswerUnderway(c) ==
    LET p == conn[c].peer IN
    \/ \E i \in DOMAIN inbox[p] : inbox[p][i].type = "answer" /\ inbox[p][i].conn = c
    \/ loop[p].pc = "setRemote" /\ loop[p].remote = c

(* c has, or is about to have, a counterpart to run its checks with.       *)
Viable(c) ==
    LET d == conn[c].remote IN
    Matched(c) \/ (conn[d].transport = "open" /\ conn[d].remote = None /\ AnswerUnderway(c))

(* ICE gives up on a transport whose counterpart is gone or was never told *)
(* of it; on others only when the link fails or is too slow.               *)
IceFail(c) ==
    /\ conn[c].transport = "open"
    /\ conn[c].remote # None
    /\ conn[c].ice \in {"new", "disconnected"}
    /\ (~ Viable(c) /\ NoFault) \/ Fault("link")
    /\ IceStep(c, "failed")

IceLost(c) ==
    /\ conn[c].transport = "open"
    /\ conn[c].ice = "connected"
    /\ (~ Matched(c) /\ NoFault) \/ Fault("link")
    /\ IceStep(c, "disconnected")

Lose(a) ==
    /\ Fault("loss")
    /\ inbox[a] # <<>>
    /\ inbox' = [inbox EXCEPT ![a] = Tail(@)]
    /\ UNCHANGED <<conn, pending, peers, session, loop, call, life, allowed, revoked>>

(* The server refuses to relay an offer and tells its sender.              *)
Reject(a) ==
    /\ Fault("loss")
    /\ inbox[a] # <<>>
    /\ LET m    == Head(inbox[a])
           rest == [inbox EXCEPT ![a] = Tail(@)] IN
         /\ m.type = "offer"
         /\ loop[m.from].pc # "exit"
         /\ inbox' = [rest EXCEPT ![m.from] =
                         Append(@, [type |-> "error", from |-> a, conn |-> None])]
    /\ UNCHANGED <<conn, pending, peers, session, loop, call, life, allowed, revoked>>

(* BlockAgent and RemoveContact: the trust store no longer allows a peer.   *)
(* Neither closes a connection that stands or is being negotiated.         *)
Revoke(a, p) ==
    /\ ConnectionGate(a, p)
    /\ Fault("revoke")
    /\ revoked' = [revoked EXCEPT ![a] = @ \cup {p}]
    /\ UNCHANGED <<conn, pending, peers, session, inbox, loop, call, life, allowed>>

NewContact(a, p) ==
    /\ ~ ConnectionGate(a, p)
    /\ a # p
    /\ \A i \in DOMAIN inbox[a] : inbox[a][i].type # "contact"
    /\ Send(a, [type |-> "contact", from |-> p, conn |-> None])
    /\ UNCHANGED <<conn, pending, peers, session, loop, call, life, allowed, revoked, faults>>

-----------------------------------------------------------------------------
ConnectStep(k) == ConnectLock(k) \/ ConnectOffer(k) \/ ConnectReady(k) \/ ConnectTimeout(k)

LoopStep(a) ==
    \/ OfferCheck(a) \/ OfferLock(a) \/ OfferAnswer(a) \/ OfferSession(a)
    \/ AnswerLookup(a) \/ AnswerSetRemote(a) \/ AnswerVerify(a) \/ AnswerSession(a)
    \/ SignalingError(a) \/ ContactAdded(a) \/ LoopExit(a)

HandlerStep(c) ==
    \/ HandlerQuit(c) \/ HandlerConnected(c) \/ HandlerRegister(c)
    \/ HandlerFailed(c) \/ HandlerGone(c) \/ HandlerRemove(c)

ReceiveStep(c) == ReceiveQuit(c) \/ ReceiveClosed(c)

IceOutcome(c) == IceUp(c) \/ IceFail(c)

(* What the agents' goroutines and ICE do of themselves.                   *)
System ==
    \/ \E k \in Calls : ConnectStep(k)
    \/ \E a \in Agents : LoopStep(a) \/ StopFinish(a)
    \/ \E c \in Conns : HandlerStep(c) \/ ReceiveStep(c) \/ IceOutcome(c)

(* What callers, the signaling service and the network may do.             *)
Environment ==
    \/ \E k \in Calls : ConnectCheck(k)
    \/ \E a \in Agents : Cancel(a) \/ Lose(a) \/ Reject(a)
    \/ \E c \in Conns : IceLost(c)
    \/ \E a, p \in Agents : NewContact(a, p) \/ Revoke(a, p)

Next == System \/ Environment

(* A goroutine that can run does not wait forever while nothing else runs, *)
(* a context with a deadline expires, and ICE ends its checks with one     *)
(* outcome or the other.  Every goroutine takes finitely many steps per    *)
(* call and per message, so fairness of their disjunction gives each its   *)
(* turn.  Nobody has to call Connect, stop an agent or lose a message.     *)
Fairness == WF_vars(System)

Spec == Init /\ [][Next]_vars /\ Fairness

-----------------------------------------------------------------------------
(* No connection object is still being negotiated once it is registered:   *)
(* whatever stale handlers do to the maps, an entry of pending is never a  *)
(* conn that a receive loop already serves.                                *)
PendingNotRegistered ==
    \A a, p \in Agents, c \in Conns : pending[a][p] = c => conn[c].recv = "none"

(* A Connect call that waited returns nil only if the connection it waited *)
(* on was registered with the peer manager.                                *)
NilMeansRegistered ==
    \A k \in Calls : call[k].pc = "ok" /\ call[k].conn # None => conn[call[k].conn].recv # "none"

(* Nothing is allocated for, and nobody is registered as, a peer that the  *)
(* connection gate has not let through.  The gate is asked once, when an   *)
(* attempt begins: what stands when the owner revokes a peer stays, so the *)
(* property speaks of peers that were let through at some time.            *)
GateRespected ==
    \A a, p \in Agents :
        (pending[a][p] # None \/ peers[a][p] # None \/ p \in session[a]) => p \in allowed[a]

(* Every Connect call returns: no negotiation, lost message, crossing      *)
(* offer or stale handler keeps a caller beyond its deadline.              *)
ConnectReturns ==
    []<>(\A k \in Calls : call[k].pc \in {"idle", "ok", "err", "timeout"})

(* No entry of pending stays forever, although only Connect's deadline and *)
(* ICE's verdict remove it and either may hit the entry of another one.    *)
PendingResolved == []<>(\A a, p \in Agents : pending[a][p] = None)

(* Both peers use the two ends of one live connection.                     *)
Linked(a, p) ==
    /\ peers[a][p] # None
    /\ peers[p][a] # None
    /\ Matched(peers[a][p])
    /\ conn[peers[a][p]].remote = peers[p][a]

(* When nothing outside fails, every attempt to connect ends with the two  *)
(* peers linked, also when their offers cross: the loser of the tie-break  *)
(* discards its offer and becomes the answerer of the winner's.            *)
ConnectLinks == \A k \in Calls : call[k].pc = "checked" ~> Linked(k.agent, k.peer)

(* Where neither a key derivation nor the fingerprint check of an answer   *)
(* fails, a registered peer that sends its key has a session key once the  *)
(* loop is between two messages, although ICE may register it before       *)
(* onSession has run and crossing offers replace the connection under it.  *)
RegisteredHasSession ==
    \A a, p \in Agents :
        peers[a][p] # None /\ loop[a].pc = "idle" => p \in session[a] \cup Keyless

(* Stop terminates: every goroutine it waits for returns.                  *)
StopTerminates == []<>(\A a \in Agents : life[a] # "stopping")
===============================================================================
