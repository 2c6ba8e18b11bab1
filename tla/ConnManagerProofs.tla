-------------------------- MODULE ConnManagerProofs ---------------------------
(***************************************************************************)
(* The safety invariants of connection establishment, for every set of     *)
(* agents, calls and connection objects, every gate and every pattern of   *)
(* faults, timeouts and stops.                                             *)
(***************************************************************************)
EXTENDS ConnManager, TLAPS

(* Facts about single connection objects: ready is closed with an outcome, *)
(* only a created object has a handler, and it was created for an allowed  *)
(* peer.                                                                   *)
ConnInv ==
    \A c \in Conns :
        /\ conn[c].ready => conn[c].err \/ conn[c].recv # "none"
        /\ conn[c].transport = "free" => conn[c].handler = "done"
        /\ conn[c].transport # "free" => conn[c].peer \in allowed[conn[c].owner]

(* An entry of pending is a created object filed under its own peer, that  *)
(* is neither registered nor about to be.                                  *)
PendingInv ==
    \A a, p \in Agents, c \in Conns : pending[a][p] = c =>
        /\ conn[c].transport # "free"
        /\ conn[c].owner = a
        /\ conn[c].peer = p
        /\ conn[c].recv = "none"
        /\ conn[c].handler # "register"

GateInv ==
    /\ \A a, p \in Agents : peers[a][p] # None => p \in allowed[a]
    /\ \A a \in Agents : session[a] \subseteq allowed[a]
    /\ \A a \in Agents : loop[a].pc \notin {"idle", "exit"} => loop[a].peer \in allowed[a]
    /\ \A k \in Calls : call[k].pc \in {"checked", "offering"} => k.peer \in allowed[k.agent]

(* What a Connect call knows of the connection it waits for.               *)
CallInv ==
    \A k \in Calls :
        /\ call[k].pc = "idle" => call[k].conn = None
        /\ call[k].pc \in {"offering", "waiting", "joined"} => call[k].conn \in Conns
        /\ call[k].conn \in Conns => conn[call[k].conn].transport # "free"
        /\ call[k].pc = "ok" /\ call[k].conn # None => conn[call[k].conn].recv # "none"

IInv == TypeOK /\ ConnInv /\ PendingInv /\ GateInv /\ CallInv

-----------------------------------------------------------------------------
(* What closing transports leaves alone: everything the invariants read.   *)
Keeps(f, g) ==
    \A c \in Conns :
        /\ g[c].transport = "free" <=> f[c].transport = "free"
        /\ g[c].owner = f[c].owner
        /\ g[c].peer = f[c].peer
        /\ g[c].ready = f[c].ready
        /\ g[c].err = f[c].err
        /\ g[c].handler = f[c].handler
        /\ g[c].recv = f[c].recv

(* WebRTCTransport.Close changes nothing of a connection object but its    *)
(* transport: not its maps, handler, receive loop or outcome.              *)
LEMMA CloseAllKeeps ==
    ASSUME NEW cs \in [Conns -> Conn], NEW S, CloseAll(cs, S)
    PROVE  conn' \in [Conns -> Conn] /\ Keeps(cs, conn')
<1>1. PICK R \in Reportable(cs, S) : conn' = Closing(cs, S, R)
  BY DEF CloseAll
<1>2. ASSUME NEW c \in Conns
      PROVE  /\ conn'[c] \in Conn
             /\ conn'[c].transport = "free" <=> cs[c].transport = "free"
             /\ conn'[c].owner = cs[c].owner /\ conn'[c].peer = cs[c].peer
             /\ conn'[c].ready = cs[c].ready /\ conn'[c].err = cs[c].err
             /\ conn'[c].handler = cs[c].handler /\ conn'[c].recv = cs[c].recv
  <2>1. CASE c \in S /\ cs[c].transport = "open"
    <3>1. Append(cs[c].stateCh, "closed") \in Seq(Event) /\ cs[c].stateCh \in Seq(Event)
      BY DEF Conn, Event
    <3>2. conn'[c] = [cs[c] EXCEPT !.transport = "closed", !.remote = None, !.ice = "new",
                         !.stateCh = IF c \in R THEN Append(@, "closed") ELSE @]
      BY <1>1, <2>1 DEF Closing
    <3> QED BY <3>1, <3>2, <2>1 DEF Conn, MaybeConn, IceState
  <2>2. CASE ~ (c \in S /\ cs[c].transport = "open")
    BY <1>1, <2>2 DEF Closing
  <2> QED BY <2>1, <2>2
<1>3. conn' = [c \in Conns |-> conn'[c]]
  BY <1>1 DEF Closing
<1> QED BY <1>2, <1>3 DEF Keeps

(* A created object has the type of one.                                   *)
LEMMA FreshConnType ==
    ASSUME NEW a \in Agents, NEW p \in Agents, NEW role \in {"offerer", "answerer"}
    PROVE  FreshConn(a, p, role) \in Conn
<1>1. <<>> \in Seq(Event)
  OBVIOUS
<1> QED BY <1>1 DEF FreshConn, Conn, MaybeConn, IceState

LEMMA FirstAgentType == FirstAgent \in Agents
BY ConstantsAssumption DEF FirstAgent

LEMMA NoneNotConn == None \notin Conns
BY ConstantsAssumption

LEMMA CallType == ASSUME NEW k \in Calls PROVE k.agent \in Agents /\ k.peer \in Agents
BY ConstantsAssumption

(* What a call record may be replaced by.                                  *)
LEMMA CallUpdate ==
    ASSUME TypeOK, NEW k \in Calls, NEW pc \in CallPc, NEW c \in MaybeConn,
           call' = [call EXCEPT ![k] = [pc |-> pc, conn |-> c]]
    PROVE  call' \in [Calls -> [pc : CallPc, conn : MaybeConn]]
BY DEF TypeOK

LEMMA ReturnType ==
    ASSUME TypeOK, NEW k \in Calls, NEW r \in CallPc, Return(k, r)
    PROVE  call' \in [Calls -> [pc : CallPc, conn : MaybeConn]]
BY DEF TypeOK, Return, MaybeConn

LEMMA IdleLoopType == IdleLoop \in Loop /\ IdleLoop.pc = "idle"
BY FirstAgentType DEF IdleLoop, Loop, MaybeConn

LEMMA InitIInv == Init => IInv
<1> SUFFICES ASSUME Init PROVE IInv
  OBVIOUS
<1>1. TypeOK
  <2>1. FreshConn(FirstAgent, FirstAgent, "offerer") \in Conn
    BY FreshConnType, FirstAgentType
  <2>2. conn \in [Conns -> Conn]
    BY <2>1 DEF Init, Conn
  <2>3. \A S : <<>> \in Seq(S)
    OBVIOUS
  <2> QED BY <2>2, <2>3, IdleLoopType, ConstantsAssumption DEF Init, TypeOK, MaybeConn, CallPc
<1>2. ConnInv /\ PendingInv /\ GateInv /\ CallInv
  BY ConstantsAssumption, IdleLoopType
     DEF Init, ConnInv, PendingInv, GateInv, CallInv, FreshConn
<1> QED BY <1>1, <1>2 DEF IInv

-----------------------------------------------------------------------------
(* What every step but the creation of an object does to the objects: none *)
(* is destroyed or changes hands, ready is closed only with an outcome,    *)
(* and only a handler about to register starts a receive loop.             *)
Progress(f, g) ==
    \A c \in Conns :
        /\ g[c].transport = "free" <=> f[c].transport = "free"
        /\ g[c].owner = f[c].owner
        /\ g[c].peer = f[c].peer
        /\ g[c].ready => f[c].ready \/ g[c].err \/ g[c].recv # "none"
        /\ f[c].err => g[c].err
        /\ f[c].recv # "none" => g[c].recv # "none"
        /\ g[c].recv # "none" => f[c].recv # "none" \/ f[c].handler = "register"
        /\ g[c].handler # "done" => f[c].handler # "done"

(* What every step but the creation of an object does to pending.          *)
Shrinks == \A a, p \in Agents : pending'[a][p] \in {None, pending[a][p]}

(* A handler goes to register only when its object leaves pending.         *)
RegistersUnpended ==
    \A c \in Conns :
        conn'[c].handler = "register" =>
            conn[c].handler = "register" \/ pending'[conn[c].owner][conn[c].peer] = None

GateGrows == \A a \in Agents : allowed[a] \subseteq allowed'[a]

LEMMA KeepsProgress ==
    ASSUME NEW f, NEW g, NEW h, Progress(f, g), Keeps(g, h)
    PROVE  Progress(f, h)
BY DEF Progress, Keeps

LEMMA ReflexiveProgress == ASSUME NEW f PROVE Progress(f, f)
BY DEF Progress

LEMMA ProgressInv ==
    ASSUME TypeOK, ConnInv, PendingInv, Progress(conn, conn'), Shrinks, RegistersUnpended, GateGrows
    PROVE  ConnInv' /\ PendingInv'
<1>1. ConnInv'
  <2> SUFFICES ASSUME NEW c \in Conns
               PROVE  /\ conn'[c].ready => conn'[c].err \/ conn'[c].recv # "none"
                      /\ conn'[c].transport = "free" => conn'[c].handler = "done"
                      /\ conn'[c].transport # "free" => conn'[c].peer \in allowed'[conn'[c].owner]
    BY DEF ConnInv
  <2>1. conn[c].owner \in Agents
    BY DEF TypeOK, Conn
  <2> QED BY <2>1 DEF ConnInv, Progress, GateGrows
<1>2. PendingInv'
  <2> SUFFICES ASSUME NEW a \in Agents, NEW p \in Agents, NEW c \in Conns, pending'[a][p] = c
               PROVE  /\ conn'[c].transport # "free" /\ conn'[c].owner = a
                      /\ conn'[c].peer = p /\ conn'[c].recv = "none"
                      /\ conn'[c].handler # "register"
    BY DEF PendingInv
  <2>1. pending[a][p] = c
    BY NoneNotConn DEF Shrinks
  <2>2. /\ conn[c].transport # "free" /\ conn[c].owner = a /\ conn[c].peer = p
        /\ conn[c].recv = "none" /\ conn[c].handler # "register"
    BY <2>1 DEF PendingInv
  <2>3. conn'[c].handler # "register"
    BY <2>2, NoneNotConn DEF RegistersUnpended
  <2> QED BY <2>2, <2>3 DEF Progress
<1> QED BY <1>1, <1>2

LEMMA CallUnchanged ==
    ASSUME CallInv, TypeOK, Progress(conn, conn'), UNCHANGED call
    PROVE  CallInv'
BY DEF CallInv, Progress, TypeOK, MaybeConn

(* A call that returns: nil only on a connection that was registered.      *)
LEMMA CallReturns ==
    ASSUME CallInv, TypeOK, Progress(conn, conn'), NEW k \in Calls, NEW r \in CallPc,
           Return(k, r), r # "idle",
           r \in {"offering", "waiting", "joined"} => call[k].conn \in Conns,
           r = "ok" => call[k].conn = None \/ conn[call[k].conn].recv # "none"
    PROVE  CallInv'
<1> SUFFICES ASSUME NEW j \in Calls
             PROVE  /\ call'[j].pc = "idle" => call'[j].conn = None
                    /\ call'[j].pc \in {"offering", "waiting", "joined"} => call'[j].conn \in Conns
                    /\ call'[j].conn \in Conns => conn'[call'[j].conn].transport # "free"
                    /\ call'[j].pc = "ok" /\ call'[j].conn # None => conn'[call'[j].conn].recv # "none"
  BY DEF CallInv
<1>1. CASE j = k
  BY <1>1, NoneNotConn DEF TypeOK, MaybeConn, Return, CallInv, Progress
<1>2. CASE j # k
  BY <1>2, NoneNotConn DEF TypeOK, MaybeConn, Return, CallInv, Progress
<1> QED BY <1>1, <1>2

LEMMA PutNone ==
    ASSUME TypeOK, NEW a \in Agents, NEW p \in Agents, pending' = Put(pending, a, p, None)
    PROVE  Shrinks /\ pending' \in [Agents -> [Agents -> MaybeConn]] /\ pending'[a][p] = None
BY DEF TypeOK, Shrinks, Put, MaybeConn

LEMMA PutNonePeers ==
    ASSUME TypeOK, NEW a \in Agents, NEW p \in Agents, peers' = Put(peers, a, p, None)
    PROVE  /\ peers' \in [Agents -> [Agents -> MaybeConn]]
           /\ \A b, q \in Agents : peers'[b][q] \in {None, peers[b][q]}
BY DEF TypeOK, Put, MaybeConn

(* cleanupPending on objects that differ from the current ones only in     *)
(* what Progress allows.                                                   *)
LEMMA cleanupPendingInv ==
    ASSUME TypeOK, ConnInv, PendingInv, GateGrows, NEW a \in Agents, NEW p \in Agents,
           NEW cs \in [Conns -> Conn], Progress(conn, cs),
           \A c \in Conns : cs[c].handler = conn[c].handler,
           cleanupPending(cs, a, p)
    PROVE  /\ conn' \in [Conns -> Conn]
           /\ pending' \in [Agents -> [Agents -> MaybeConn]]
           /\ Progress(conn, conn')
           /\ ConnInv' /\ PendingInv'
<1>1. conn' \in [Conns -> Conn] /\ Keeps(cs, conn')
  BY CloseAllKeeps DEF cleanupPending
<1>2. Progress(conn, conn')
  BY <1>1, KeepsProgress
<1>3. pending' \in [Agents -> [Agents -> MaybeConn]] /\ Shrinks
  BY PutNone DEF cleanupPending
<1>4. RegistersUnpended
  BY <1>1 DEF RegistersUnpended, Keeps
<1> QED BY <1>1, <1>2, <1>3, <1>4, ProgressInv

LEMMA FaultType == ASSUME TypeOK, NEW kind, Fault(kind) \/ NoFault PROVE faults' \in Nat
BY DEF TypeOK, Fault, NoFault

LEMMA SendType ==
    ASSUME TypeOK, NEW to \in Agents, NEW m \in Msg, Send(to, m)
    PROVE  inbox' \in [Agents -> Seq(Msg)]
<1>1. Append(inbox[to], m) \in Seq(Msg)
  BY DEF TypeOK
<1> QED BY <1>1 DEF TypeOK, Send

LEMMA ReceivingType ==
    ASSUME TypeOK, NEW a \in Agents, NEW type, Receiving(a, type)
    PROVE  inbox' \in [Agents -> Seq(Msg)] /\ Head(inbox[a]) \in Msg
<1>1. inbox[a] \in Seq(Msg) /\ inbox[a] # <<>>
  BY DEF TypeOK, Receiving
<1>2. Tail(inbox[a]) \in Seq(Msg) /\ Head(inbox[a]) \in Msg
  BY <1>1
<1> QED BY <1>2 DEF TypeOK, Receiving

LEMMA DoneType ==
    ASSUME TypeOK, NEW a \in Agents, Done(a)
    PROVE  /\ loop' \in [Agents -> Loop]
           /\ \A b \in Agents : loop'[b].pc = "idle" \/ loop'[b] = loop[b]
BY IdleLoopType DEF TypeOK, Done

LEMMA LoopAt ==
    ASSUME TypeOK, NEW a \in Agents, NEW l \in Loop, loop' = [loop EXCEPT ![a] = l]
    PROVE  /\ loop' \in [Agents -> Loop]
           /\ \A b \in Agents : loop'[b] = IF b = a THEN l ELSE loop[b]
BY DEF TypeOK

LEMMA GotoType ==
    ASSUME TypeOK, NEW a \in Agents, NEW c \in MaybeConn, loop[a].pc \notin {"idle", "exit"},
           NEW pc \in {"answer", "offerSession", "verifyDTLS", "answerSession"}, Goto(a, pc, c)
    PROVE  /\ loop' \in [Agents -> Loop]
           /\ \A b \in Agents : \/ loop'[b] = loop[b]
                                \/ loop[b].pc \notin {"idle", "exit"} /\ loop'[b].peer = loop[b].peer
<1> DEFINE l == [loop[a] EXCEPT !.pc = pc, !.conn = c]
<1>1. loop[a] \in Loop
  BY DEF TypeOK
<1>2. l \in Loop /\ l.peer = loop[a].peer
  BY <1>1 DEF Loop, MaybeConn
<1>3. loop' = [loop EXCEPT ![a] = l]
  BY DEF Goto
<1> HIDE DEF l
<1> QED BY <1>2, <1>3, LoopAt

LEMMA GateStep ==
    ASSUME TypeOK, GateInv, GateGrows,
           \A a, p \in Agents : peers'[a][p] # None => peers[a][p] # None \/ p \in allowed[a],
           \A a \in Agents : session'[a] \subseteq session[a] \cup allowed[a],
           \A a \in Agents : loop'[a].pc \notin {"idle", "exit"} => loop'[a].peer \in allowed[a],
           \A k \in Calls : call'[k].pc \in {"checked", "offering"} => k.peer \in allowed[k.agent]
    PROVE  GateInv'
<1>1. \A a, p \in Agents : peers'[a][p] # None => p \in allowed'[a]
  BY DEF GateInv, GateGrows
<1>2. \A a \in Agents : session'[a] \subseteq allowed'[a]
  BY DEF GateInv, GateGrows
<1>3. \A a \in Agents : loop'[a].pc \notin {"idle", "exit"} => loop'[a].peer \in allowed'[a]
  BY DEF GateGrows
<1>4. \A k \in Calls : call'[k].pc \in {"checked", "offering"} => k.peer \in allowed'[k.agent]
  BY CallType DEF GateGrows
<1> QED BY <1>1, <1>2, <1>3, <1>4 DEF GateInv

(* Creating an object and filing it under its peer, the objects otherwise  *)
(* changed at most by Close.                                               *)
LEMMA CreateInv ==
    ASSUME TypeOK, ConnInv, PendingInv, NEW a \in Agents, NEW p \in Agents, p \in allowed[a],
           NEW role \in {"offerer", "answerer"}, NEW c \in Conns, Unused(c),
           NEW cs, cs = [conn EXCEPT ![c] = FreshConn(a, p, role)], Keeps(cs, conn'),
           pending' = Put(pending, a, p, c), UNCHANGED <<allowed, revoked>>
    PROVE  /\ pending' \in [Agents -> [Agents -> MaybeConn]]
           /\ ConnInv' /\ PendingInv'
           /\ conn'[c].transport # "free"
           /\ \A d \in Conns : conn[d].transport # "free" =>
                 conn'[d].transport # "free" /\ conn'[d].recv = conn[d].recv
<1>1. /\ cs[c].transport = "open" /\ cs[c].owner = a /\ cs[c].peer = p /\ cs[c].recv = "none"
      /\ cs[c].handler = "run" /\ cs[c].ready = FALSE
  BY DEF TypeOK, FreshConn
<1>2. \A d \in Conns : d # c => cs[d] = conn[d]
  BY DEF TypeOK
<1>3. conn[c].transport = "free"
  BY DEF Unused
<1>4. pending' \in [Agents -> [Agents -> MaybeConn]]
  BY DEF TypeOK, Put, MaybeConn
<1>5. ConnInv'
  BY <1>1, <1>2 DEF ConnInv, Keeps
<1>6. PendingInv'
  <2> SUFFICES ASSUME NEW b \in Agents, NEW q \in Agents, NEW d \in Conns, pending'[b][q] = d
               PROVE  /\ conn'[d].transport # "free" /\ conn'[d].owner = b
                      /\ conn'[d].peer = q /\ conn'[d].recv = "none"
                      /\ conn'[d].handler # "register"
    BY DEF PendingInv
  <2>1. CASE b = a /\ q = p
    <3>1. d = c
      BY <2>1 DEF TypeOK, Put
    <3> QED BY <1>1, <2>1, <3>1 DEF Keeps
  <2>2. CASE ~ (b = a /\ q = p)
    <3>1. pending[b][q] = d
      BY <2>2 DEF TypeOK, Put
    <3>2. d # c
      BY <1>3, <3>1 DEF PendingInv
    <3> QED BY <1>2, <3>1, <3>2 DEF PendingInv, Keeps
  <2> QED BY <2>1, <2>2
<1>7. conn'[c].transport # "free"
  BY <1>1 DEF Keeps
<1>8. \A d \in Conns : conn[d].transport # "free" =>
        conn'[d].transport # "free" /\ conn'[d].recv = conn[d].recv
  BY <1>2, <1>3 DEF Keeps
<1> QED BY <1>4, <1>5, <1>6, <1>7, <1>8

(* The remote description and the error of an object change by themselves. *)
Settles(f, g) ==
    /\ g \in [Conns -> Conn]
    /\ Progress(f, g)
    /\ \A c \in Conns : g[c].handler = f[c].handler

LEMMA SetRemoteSettles ==
    ASSUME TypeOK, NEW c, NEW d \in MaybeConn
    PROVE  Settles(conn, [conn EXCEPT ![c].remote = d])
<1> DEFINE g == [conn EXCEPT ![c].remote = d]
<1>1. ASSUME NEW x \in Conns
      PROVE  /\ g[x] \in Conn
             /\ g[x].transport = conn[x].transport /\ g[x].owner = conn[x].owner
             /\ g[x].peer = conn[x].peer /\ g[x].ready = conn[x].ready /\ g[x].err = conn[x].err
             /\ g[x].handler = conn[x].handler /\ g[x].recv = conn[x].recv
  <2>1. conn[x] \in Conn
    BY DEF TypeOK
  <2>2. g[x] = IF x = c THEN [conn[x] EXCEPT !.remote = d] ELSE conn[x]
    BY DEF TypeOK
  <2> HIDE DEF g
  <2> QED BY <2>1, <2>2 DEF Conn
<1>2. g \in [Conns -> Conn]
  <2>1. g = [x \in Conns |-> g[x]]
    BY DEF TypeOK
  <2> HIDE DEF g
  <2> QED BY <1>1, <2>1
<1> HIDE DEF g
<1>3. Settles(conn, g)
  BY <1>1, <1>2 DEF Settles, Progress
<1> QED BY <1>3 DEF g

LEMMA SetErrSettles ==
    ASSUME NEW f \in [Conns -> Conn], NEW c
    PROVE  Settles(f, [f EXCEPT ![c].err = TRUE])
<1> DEFINE g == [f EXCEPT ![c].err = TRUE]
<1>1. ASSUME NEW x \in Conns
      PROVE  /\ g[x] \in Conn
             /\ g[x].transport = f[x].transport /\ g[x].owner = f[x].owner
             /\ g[x].peer = f[x].peer /\ g[x].ready = f[x].ready
             /\ f[x].err => g[x].err
             /\ g[x].handler = f[x].handler /\ g[x].recv = f[x].recv
  <2>1. f[x] \in Conn
    OBVIOUS
  <2>2. g[x] = IF x = c THEN [f[x] EXCEPT !.err = TRUE] ELSE f[x]
    OBVIOUS
  <2> HIDE DEF g
  <2> QED BY <2>1, <2>2 DEF Conn
<1>2. g \in [Conns -> Conn]
  <2>1. g = [x \in Conns |-> g[x]]
    OBVIOUS
  <2> HIDE DEF g
  <2> QED BY <1>1, <2>1
<1> HIDE DEF g
<1>3. Settles(f, g)
  BY <1>1, <1>2 DEF Settles, Progress
<1> QED BY <1>3 DEF g

LEMMA SettlesTwice ==
    ASSUME NEW f, NEW g, NEW h, Settles(f, g), Settles(g, h)
    PROVE  Settles(f, h)
BY DEF Settles, Progress

LEMMA SettlesSelf == ASSUME TypeOK PROVE Settles(conn, conn)
BY ReflexiveProgress DEF TypeOK, Settles

LEMMA SettledInv ==
    ASSUME TypeOK, ConnInv, PendingInv, UNCHANGED <<pending, allowed, revoked>>, Settles(conn, conn')
    PROVE  ConnInv' /\ PendingInv'
BY ProgressInv DEF Settles, Shrinks, RegistersUnpended, GateGrows

LEMMA SettledCleanup ==
    ASSUME TypeOK, ConnInv, PendingInv, UNCHANGED <<allowed, revoked>>, NEW a \in Agents, NEW p \in Agents,
           NEW cs, Settles(conn, cs), cleanupPending(cs, a, p)
    PROVE  /\ conn' \in [Conns -> Conn]
           /\ pending' \in [Agents -> [Agents -> MaybeConn]]
           /\ Progress(conn, conn')
           /\ ConnInv' /\ PendingInv'
BY cleanupPendingInv DEF Settles, GateGrows

-----------------------------------------------------------------------------
(* One lemma per group of actions: each preserves the inductive invariant. *)

LEMMA ConnUnchanged ==
    ASSUME ConnInv, PendingInv, UNCHANGED <<conn, pending, allowed>>
    PROVE  ConnInv' /\ PendingInv'
BY DEF ConnInv, PendingInv

LEMMA GateUnchanged ==
    ASSUME GateInv, UNCHANGED <<peers, session, loop, call, allowed>>
    PROVE  GateInv'
BY DEF GateInv

LEMMA ConnectCheckIInv == ASSUME IInv, NEW k \in Calls, ConnectCheck(k) PROVE IInv'
<1> USE DEF IInv
<1>1. TypeOK'
  BY DEF TypeOK, ConnectCheck, Return, CallPc, MaybeConn
<1>2. ConnInv' /\ PendingInv'
  BY ConnUnchanged DEF ConnectCheck
<1>3. GateInv'
  BY DEF TypeOK, GateInv, ConnectCheck, ConnectionGate, Return
<1>4. CallInv'
  BY DEF TypeOK, CallInv, ConnectCheck, Return
<1> QED BY <1>1, <1>2, <1>3, <1>4

LEMMA ConnectLockIInv == ASSUME IInv, NEW k \in Calls, ConnectLock(k) PROVE IInv'
<1> USE DEF IInv
<1>1. CASE pending[k.agent][k.peer] # None
  <2>1. call' = [call EXCEPT ![k] = [pc |-> "joined", conn |-> pending[k.agent][k.peer]]]
    BY <1>1 DEF ConnectLock
  <2>2. UNCHANGED <<conn, pending, peers, session, inbox, loop, life, allowed, revoked, faults>>
    BY <1>1 DEF ConnectLock, NoFault
  <2>0. pending[k.agent][k.peer] \in Conns
    BY <1>1, CallType DEF TypeOK, MaybeConn
  <2>3. TypeOK'
    <3>1. call' \in [Calls -> [pc : CallPc, conn : MaybeConn]]
      BY <2>0, <2>1, CallUpdate DEF CallPc, MaybeConn
    <3> QED BY <2>2, <3>1 DEF TypeOK
  <2>4. ConnInv' /\ PendingInv'
    BY <2>2, ConnUnchanged
  <2>6. GateInv'
    BY <2>1, <2>2 DEF TypeOK, GateInv
  <2>5. CallInv'
    <3>1. conn[pending[k.agent][k.peer]].transport # "free"
      BY <2>0, CallType DEF PendingInv
    <3> QED BY <2>0, <2>1, <2>2, <3>1 DEF TypeOK, CallInv
  <2> QED BY <2>3, <2>4, <2>5, <2>6
<1>2. CASE /\ Return(k, "err")
           /\ faults' = faults + 1
           /\ UNCHANGED <<conn, pending, peers, session, inbox, loop, life, allowed, revoked>>
  <2>1. TypeOK'
    BY <1>2, ReturnType DEF TypeOK, CallPc
  <2>2. ConnInv' /\ PendingInv'
    BY <1>2, ConnUnchanged
  <2>3. GateInv'
    BY <1>2 DEF TypeOK, GateInv, Return
  <2>4. CallInv'
    BY <1>2, NoneNotConn DEF TypeOK, CallInv, Return
  <2> QED BY <2>1, <2>2, <2>3, <2>4
<1>3. ASSUME NEW c \in Conns, Unused(c), call[k].pc = "checked",
             conn' = [conn EXCEPT ![c] = FreshConn(k.agent, k.peer, "offerer")],
             pending' = Put(pending, k.agent, k.peer, c),
             call' = [call EXCEPT ![k] = [pc |-> "offering", conn |-> c]],
             UNCHANGED <<peers, session, inbox, loop, life, allowed, revoked, faults>>
      PROVE  IInv'
  <2>1. k.agent \in Agents /\ k.peer \in Agents /\ k.peer \in allowed[k.agent]
    BY <1>3, CallType DEF GateInv
  <2>2. conn' \in [Conns -> Conn] /\ Keeps(conn', conn')
    <3>1. FreshConn(k.agent, k.peer, "offerer") \in Conn
      BY <2>1, FreshConnType
    <3> QED BY <1>3, <3>1 DEF TypeOK, Keeps
  <2>3. /\ pending' \in [Agents -> [Agents -> MaybeConn]]
        /\ ConnInv' /\ PendingInv'
        /\ conn'[c].transport # "free"
        /\ \A d \in Conns : conn[d].transport # "free" =>
              conn'[d].transport # "free" /\ conn'[d].recv = conn[d].recv
    BY <1>3, <2>1, <2>2, CreateInv
  <2>4. TypeOK'
    <3>1. call' \in [Calls -> [pc : CallPc, conn : MaybeConn]]
      BY <1>3, CallUpdate DEF CallPc, MaybeConn
    <3> QED BY <1>3, <2>2, <2>3, <3>1 DEF TypeOK
  <2>5. GateInv'
    BY <1>3, <2>1 DEF TypeOK, GateInv
  <2>6. CallInv'
    BY <1>3, <2>3 DEF TypeOK, CallInv, MaybeConn
  <2> QED BY <2>3, <2>4, <2>5, <2>6
<1> QED BY <1>1, <1>2, <1>3 DEF ConnectLock, Fault, NoFault

LEMMA ConnectOfferIInv == ASSUME IInv, NEW k \in Calls, ConnectOffer(k) PROVE IInv'
<1> USE DEF IInv
<1>1. k.agent \in Agents /\ k.peer \in Agents /\ call[k].pc = "offering" /\ call[k].conn \in Conns
  BY CallType DEF ConnectOffer, CallInv
<1>2. UNCHANGED <<peers, session, loop, life, allowed, revoked>>
  BY DEF ConnectOffer
<1>3. CASE /\ Send(k.peer, [type |-> "offer", from |-> k.agent, conn |-> call[k].conn])
           /\ Return(k, "waiting")
           /\ UNCHANGED <<conn, pending, faults>>
  <2>1. TypeOK'
    <3>1. [type |-> "offer", from |-> k.agent, conn |-> call[k].conn] \in Msg
      BY <1>1 DEF Msg, MaybeConn
    <3>2. inbox' \in [Agents -> Seq(Msg)]
      BY <1>1, <1>3, <3>1, SendType
    <3>3. call' \in [Calls -> [pc : CallPc, conn : MaybeConn]]
      BY <1>3, ReturnType DEF CallPc
    <3> QED BY <1>2, <1>3, <3>2, <3>3 DEF TypeOK
  <2>2. ConnInv' /\ PendingInv'
    BY <1>2, <1>3, ConnUnchanged
  <2>3. CallInv'
    BY <1>1, <1>3, CallReturns, ReflexiveProgress DEF CallPc
  <2>4. GateInv'
    BY <1>2, <1>3 DEF TypeOK, GateInv, Return
  <2> QED BY <2>1, <2>2, <2>3, <2>4
<1>4. CASE /\ cleanupPending(conn, k.agent, k.peer)
           /\ Return(k, "err")
           /\ faults' \in Nat
           /\ UNCHANGED inbox
  <2>1. /\ conn' \in [Conns -> Conn] /\ pending' \in [Agents -> [Agents -> MaybeConn]]
        /\ Progress(conn, conn') /\ ConnInv' /\ PendingInv'
    BY <1>1, <1>2, <1>4, cleanupPendingInv, ReflexiveProgress DEF TypeOK, GateGrows
  <2>2. call' \in [Calls -> [pc : CallPc, conn : MaybeConn]]
    BY <1>4, ReturnType DEF CallPc
  <2>3. TypeOK'
    BY <1>2, <1>4, <2>1, <2>2 DEF TypeOK
  <2>4. CallInv'
    BY <1>4, <2>1, CallReturns DEF CallPc
  <2>5. GateInv'
    BY <1>2, <1>4 DEF TypeOK, GateInv, Return
  <2> QED BY <2>1, <2>3, <2>4, <2>5
<1>5. \A kind : Fault(kind) \/ NoFault => faults' \in Nat
  BY FaultType
<1> QED BY <1>3, <1>4, <1>5 DEF ConnectOffer, SendFails, NoFault

LEMMA ConnectReadyIInv == ASSUME IInv, NEW k \in Calls, ConnectReady(k) PROVE IInv'
<1> USE DEF IInv
<1> DEFINE r == IF conn[call[k].conn].err THEN "err" ELSE "ok"
<1>1. Return(k, r) /\ r \in {"err", "ok"} /\ call[k].conn \in Conns
  BY DEF ConnectReady, CallInv
<1>2. r = "ok" => conn[call[k].conn].recv # "none"
  BY <1>1 DEF ConnectReady, ConnInv
<1> HIDE DEF r
<1>3. UNCHANGED <<conn, pending, peers, session, inbox, loop, life, allowed, revoked, faults>>
  BY DEF ConnectReady
<1>4. call' \in [Calls -> [pc : CallPc, conn : MaybeConn]]
  BY <1>1, ReturnType DEF CallPc
<1>5. TypeOK'
  BY <1>3, <1>4 DEF TypeOK
<1>6. ConnInv' /\ PendingInv'
  BY <1>3, ConnUnchanged
<1>7. CallInv'
  BY <1>1, <1>2, <1>3, CallReturns, ReflexiveProgress DEF CallPc
<1>8. GateInv'
  BY <1>1, <1>3 DEF TypeOK, GateInv, Return
<1> QED BY <1>5, <1>6, <1>7, <1>8

LEMMA ConnectTimeoutIInv == ASSUME IInv, NEW k \in Calls, ConnectTimeout(k) PROVE IInv'
<1> USE DEF IInv
<1>1. k.agent \in Agents /\ k.peer \in Agents /\ Return(k, "timeout")
  BY CallType DEF ConnectTimeout
<1>2. UNCHANGED <<peers, session, inbox, loop, life, allowed, revoked, faults>>
  BY DEF ConnectTimeout
<1>3. call' \in [Calls -> [pc : CallPc, conn : MaybeConn]]
  BY <1>1, ReturnType DEF CallPc
<1>4. /\ conn' \in [Conns -> Conn] /\ pending' \in [Agents -> [Agents -> MaybeConn]]
      /\ Progress(conn, conn') /\ ConnInv' /\ PendingInv'
  <2>1. CASE cleanupPending(conn, k.agent, k.peer)
    BY <1>1, <1>2, <2>1, cleanupPendingInv, ReflexiveProgress DEF TypeOK, GateGrows
  <2>2. CASE UNCHANGED <<conn, pending>>
    BY <1>2, <2>2, ConnUnchanged, ReflexiveProgress DEF TypeOK
  <2> QED BY <2>1, <2>2 DEF ConnectTimeout
<1>5. TypeOK'
  BY <1>2, <1>3, <1>4 DEF TypeOK
<1>6. CallInv'
  BY <1>1, <1>4, CallReturns DEF CallPc
<1>7. GateInv'
  BY <1>1, <1>2 DEF TypeOK, GateInv, Return
<1> QED BY <1>4, <1>5, <1>6, <1>7

LEMMA OfferCheckIInv == ASSUME IInv, NEW a \in Agents, OfferCheck(a) PROVE IInv'
<1> USE DEF IInv
<1> DEFINE m == Head(inbox[a])
           l == [pc |-> "offerLock", peer |-> m.from, remote |-> m.conn, conn |-> None]
<1>1. inbox' \in [Agents -> Seq(Msg)] /\ m \in Msg
  BY ReceivingType DEF OfferCheck
<1>2. UNCHANGED <<conn, pending, peers, session, call, life, allowed, revoked>> /\ faults' \in Nat
  BY DEF OfferCheck, TypeOK, Fault, NoFault
<1>3. \/ UNCHANGED loop
      \/ m.from \in allowed[a] /\ loop' = [loop EXCEPT ![a] = l]
  BY DEF OfferCheck, ConnectionGate
<1>4. l \in Loop /\ l.peer = m.from
  BY <1>1 DEF Loop, Msg, MaybeConn
<1> HIDE DEF m, l
<1>5. /\ loop' \in [Agents -> Loop]
      /\ \A b \in Agents : loop'[b] = loop[b] \/ loop'[b].peer \in allowed[b]
  BY <1>3, <1>4, LoopAt DEF TypeOK
<1>6. TypeOK'
  BY <1>1, <1>2, <1>5 DEF TypeOK
<1>7. ConnInv' /\ PendingInv' /\ CallInv'
  BY <1>2, ConnUnchanged, CallUnchanged, ReflexiveProgress
<1>8. GateInv'
  BY <1>2, <1>5 DEF GateInv
<1> QED BY <1>6, <1>7, <1>8

LEMMA OfferLockIInv == ASSUME IInv, NEW a \in Agents, OfferLock(a) PROVE IInv'
<1> USE DEF IInv
<1> DEFINE p == loop[a].peer
<1>1. p \in Agents /\ p \in allowed[a] /\ loop[a].pc = "offerLock"
  BY DEF TypeOK, Loop, GateInv, OfferLock
<1>2. UNCHANGED <<peers, session, inbox, call, life, allowed, revoked, faults>>
  BY DEF OfferLock
<1>3. CASE Done(a) /\ UNCHANGED <<conn, pending>>
  <2>1. TypeOK'
    BY <1>2, <1>3, DoneType DEF TypeOK
  <2>2. ConnInv' /\ PendingInv' /\ CallInv'
    BY <1>2, <1>3, ConnUnchanged, CallUnchanged, ReflexiveProgress
  <2>3. GateInv'
    BY <1>2, <1>3, DoneType DEF GateInv
  <2> QED BY <2>1, <2>2, <2>3
<1>4. ASSUME NEW c \in Conns, NEW S, Unused(c),
             CloseAll([conn EXCEPT ![c] = FreshConn(a, p, "answerer")], S),
             pending' = Put(pending, a, p, c), Goto(a, "answer", c)
      PROVE  IInv'
  <2> DEFINE cs == [conn EXCEPT ![c] = FreshConn(a, p, "answerer")]
  <2>1. cs \in [Conns -> Conn]
    BY <1>1, FreshConnType DEF TypeOK
  <2>2. conn' \in [Conns -> Conn] /\ Keeps(cs, conn')
    BY <1>4, <2>1, CloseAllKeeps
  <2> HIDE DEF p
  <2>3. /\ pending' \in [Agents -> [Agents -> MaybeConn]]
        /\ ConnInv' /\ PendingInv'
        /\ \A d \in Conns : conn[d].transport # "free" =>
              conn'[d].transport # "free" /\ conn'[d].recv = conn[d].recv
    BY <1>1, <1>2, <1>4, <2>2, CreateInv
  <2> HIDE DEF cs
  <2>4. /\ loop' \in [Agents -> Loop]
        /\ \A b \in Agents : \/ loop'[b] = loop[b]
                             \/ loop[b].pc \notin {"idle", "exit"} /\ loop'[b].peer = loop[b].peer
    BY <1>1, <1>4, GotoType DEF MaybeConn
  <2>5. TypeOK'
    BY <1>2, <2>2, <2>3, <2>4 DEF TypeOK
  <2>6. GateInv'
    BY <1>2, <2>4 DEF GateInv
  <2>7. CallInv'
    BY <1>2, <2>3 DEF TypeOK, CallInv, MaybeConn
  <2> QED BY <2>3, <2>5, <2>6, <2>7
<1> QED BY <1>3, <1>4 DEF OfferLock

LEMMA OfferAnswerIInv == ASSUME IInv, NEW a \in Agents, OfferAnswer(a) PROVE IInv'
<1> USE DEF IInv
<1> DEFINE p   == loop[a].peer
           c   == loop[a].conn
           set == [conn EXCEPT ![c].remote = loop[a].remote]
<1>1. p \in Agents /\ c \in MaybeConn /\ loop[a].remote \in MaybeConn /\ loop[a].pc = "answer"
  BY DEF TypeOK, Loop, OfferAnswer
<1>2. UNCHANGED <<peers, session, call, life, allowed, revoked>>
  BY DEF OfferAnswer
<1>3. Settles(conn, set)
  BY <1>1, SetRemoteSettles
<1>4. CASE /\ conn' = set
           /\ Send(p, [type |-> "answer", from |-> a, conn |-> c])
           /\ Goto(a, "offerSession", c)
           /\ UNCHANGED <<pending, faults>>
  <2>1. [type |-> "answer", from |-> a, conn |-> c] \in Msg
    BY <1>1 DEF Msg
  <2>2. inbox' \in [Agents -> Seq(Msg)]
    BY <1>1, <1>4, <2>1, SendType
  <2>3. /\ loop' \in [Agents -> Loop]
        /\ \A b \in Agents : \/ loop'[b] = loop[b]
                             \/ loop[b].pc \notin {"idle", "exit"} /\ loop'[b].peer = loop[b].peer
    BY <1>1, <1>4, GotoType
  <2>4. Settles(conn, conn')
    BY <1>3, <1>4
  <2>5. TypeOK'
    BY <1>2, <1>4, <2>2, <2>3, <2>4 DEF TypeOK, Settles
  <2>6. ConnInv' /\ PendingInv' /\ CallInv'
    BY <1>2, <1>4, <2>4, SettledInv, CallUnchanged DEF Settles
  <2>7. GateInv'
    BY <1>2, <2>3 DEF GateInv
  <2> QED BY <2>5, <2>6, <2>7
<1>5. ASSUME NEW cs, Settles(conn, cs), cleanupPending(cs, a, p), Done(a), faults' \in Nat,
             UNCHANGED inbox
      PROVE  IInv'
  <2>1. /\ conn' \in [Conns -> Conn] /\ pending' \in [Agents -> [Agents -> MaybeConn]]
        /\ Progress(conn, conn') /\ ConnInv' /\ PendingInv'
    BY <1>1, <1>2, <1>5, SettledCleanup
  <2>2. TypeOK'
    BY <1>2, <1>5, <2>1, DoneType DEF TypeOK
  <2>3. GateInv'
    BY <1>2, <1>5, DoneType DEF GateInv
  <2>4. CallInv'
    BY <1>2, <2>1, CallUnchanged
  <2> QED BY <2>1, <2>2, <2>3, <2>4
<1>6. \A kind : Fault(kind) \/ NoFault => faults' \in Nat
  BY FaultType
<1>7. Settles(conn, conn)
  BY SettlesSelf
<1> HIDE DEF IInv
<1> QED BY <1>3, <1>4, <1>5, <1>6, <1>7 DEF OfferAnswer, SendFails, NoFault

(* What a session-key step of the loop does, whichever handler it ends.    *)
LEMMA SessionStepIInv ==
    ASSUME IInv, NEW a \in Agents, loop[a].pc \in {"offerSession", "answerSession"},
           Done(a), UNCHANGED <<peers, inbox, call, life, allowed, revoked>>,
           \/ /\ session' = [session EXCEPT ![a] = @ \cup ({loop[a].peer} \ Keyless)]
              /\ UNCHANGED <<conn, pending, faults>>
           \/ /\ \E cs : Settles(conn, cs) /\ cleanupPending(cs, a, loop[a].peer)
              /\ faults' \in Nat
              /\ UNCHANGED session
    PROVE  IInv'
<1> USE DEF IInv
<1> DEFINE p == loop[a].peer
<1>1. p \in Agents /\ p \in allowed[a]
  BY DEF TypeOK, Loop, GateInv
<1>2. CASE /\ session' = [session EXCEPT ![a] = @ \cup ({p} \ Keyless)]
           /\ UNCHANGED <<conn, pending, faults>>
  <2> HIDE DEF p
  <2>1. TypeOK'
    BY <1>1, <1>2, DoneType DEF TypeOK
  <2>2. ConnInv' /\ PendingInv' /\ CallInv'
    BY <1>2, ConnUnchanged, CallUnchanged, ReflexiveProgress
  <2>3. GateInv'
    BY <1>1, <1>2, DoneType DEF TypeOK, GateInv
  <2> QED BY <2>1, <2>2, <2>3
<1>3. ASSUME NEW cs, Settles(conn, cs), cleanupPending(cs, a, p), faults' \in Nat,
             UNCHANGED session
      PROVE  IInv'
  <2>1. /\ conn' \in [Conns -> Conn] /\ pending' \in [Agents -> [Agents -> MaybeConn]]
        /\ Progress(conn, conn') /\ ConnInv' /\ PendingInv'
    BY <1>1, <1>3, SettledCleanup
  <2>2. TypeOK'
    BY <1>3, <2>1, DoneType DEF TypeOK
  <2>3. GateInv'
    BY <1>3, DoneType DEF GateInv
  <2>4. CallInv'
    BY <2>1, CallUnchanged
  <2> QED BY <2>1, <2>2, <2>3, <2>4
<1> QED BY <1>2, <1>3

LEMMA OfferSessionIInv == ASSUME IInv, NEW a \in Agents, OfferSession(a) PROVE IInv'
<1>1. TypeOK /\ Settles(conn, conn)
  BY SettlesSelf DEF IInv
<1>2. \A kind : Fault(kind) \/ NoFault => faults' \in Nat
  BY <1>1, FaultType
<1> QED BY <1>1, <1>2, SessionStepIInv DEF OfferSession, NoFault

LEMMA AnswerSessionIInv == ASSUME IInv, NEW a \in Agents, AnswerSession(a) PROVE IInv'
<1>1. TypeOK /\ Settles(conn, [conn EXCEPT ![loop[a].conn].err = TRUE])
  BY SetErrSettles DEF IInv, TypeOK
<1>2. \A kind : Fault(kind) \/ NoFault => faults' \in Nat
  BY <1>1, FaultType
<1> QED BY <1>1, <1>2, SessionStepIInv DEF AnswerSession, NoFault

LEMMA AnswerLookupIInv == ASSUME IInv, NEW a \in Agents, AnswerLookup(a) PROVE IInv'
<1> USE DEF IInv
<1> DEFINE m == Head(inbox[a])
           c == pending[a][m.from]
           l == [pc |-> "setRemote", peer |-> m.from, remote |-> m.conn, conn |-> c]
<1>1. inbox' \in [Agents -> Seq(Msg)] /\ m \in Msg
  BY ReceivingType DEF AnswerLookup
<1>2. UNCHANGED <<conn, pending, peers, session, call, life, allowed, revoked, faults>>
  BY DEF AnswerLookup
<1>3. m.from \in Agents /\ c \in MaybeConn
  BY <1>1 DEF TypeOK, Msg
<1>4. UNCHANGED loop \/ (c # None /\ loop' = [loop EXCEPT ![a] = l])
  BY DEF AnswerLookup
<1>5. c # None => m.from \in allowed[a]
  <2> SUFFICES ASSUME c # None PROVE m.from \in allowed[a]
    OBVIOUS
  <2>1. c \in Conns
    BY <1>3 DEF MaybeConn
  <2>2. conn[c].transport # "free" /\ conn[c].owner = a /\ conn[c].peer = m.from
    BY <1>3, <2>1 DEF PendingInv
  <2> HIDE DEF c, m
  <2> QED BY <2>1, <2>2 DEF ConnInv
<1>6. l \in Loop /\ l.peer = m.from
  BY <1>1, <1>3 DEF Loop, Msg, MaybeConn
<1> HIDE DEF m, l, c
<1>7. /\ loop' \in [Agents -> Loop]
      /\ \A b \in Agents : loop'[b] = loop[b] \/ loop'[b].peer \in allowed[b]
  BY <1>4, <1>5, <1>6, LoopAt DEF TypeOK
<1>8. TypeOK'
  BY <1>1, <1>2, <1>7 DEF TypeOK
<1>9. ConnInv' /\ PendingInv' /\ CallInv'
  BY <1>2, ConnUnchanged, CallUnchanged, ReflexiveProgress
<1>10. GateInv'
  BY <1>2, <1>7 DEF GateInv
<1> QED BY <1>8, <1>9, <1>10

LEMMA AnswerSetRemoteIInv == ASSUME IInv, NEW a \in Agents, AnswerSetRemote(a) PROVE IInv'
<1> USE DEF IInv
<1> DEFINE p   == loop[a].peer
           c   == loop[a].conn
           set == [conn EXCEPT ![c].remote = loop[a].remote]
<1>1. p \in Agents /\ c \in MaybeConn /\ loop[a].remote \in MaybeConn /\ loop[a].pc = "setRemote"
  BY DEF TypeOK, Loop, AnswerSetRemote
<1>2. UNCHANGED <<peers, session, inbox, call, life, allowed, revoked>>
  BY DEF AnswerSetRemote
<1>3. Settles(conn, set) /\ Settles(conn, [conn EXCEPT ![c].err = TRUE])
  BY <1>1, SetRemoteSettles, SetErrSettles DEF TypeOK
<1>4. CASE conn' = set /\ Goto(a, "verifyDTLS", c) /\ UNCHANGED <<pending, faults>>
  <2>1. /\ loop' \in [Agents -> Loop]
        /\ \A b \in Agents : \/ loop'[b] = loop[b]
                             \/ loop[b].pc \notin {"idle", "exit"} /\ loop'[b].peer = loop[b].peer
    BY <1>1, <1>4, GotoType
  <2>2. Settles(conn, conn')
    BY <1>3, <1>4
  <2>3. TypeOK'
    BY <1>2, <1>4, <2>1, <2>2 DEF TypeOK, Settles
  <2>4. ConnInv' /\ PendingInv' /\ CallInv'
    BY <1>2, <1>4, <2>2, SettledInv, CallUnchanged DEF Settles
  <2>5. GateInv'
    BY <1>2, <2>1 DEF GateInv
  <2> QED BY <2>3, <2>4, <2>5
<1>5. ASSUME NEW cs, Settles(conn, cs), cleanupPending(cs, a, p), Done(a), faults' \in Nat
      PROVE  IInv'
  <2>1. /\ conn' \in [Conns -> Conn] /\ pending' \in [Agents -> [Agents -> MaybeConn]]
        /\ Progress(conn, conn') /\ ConnInv' /\ PendingInv'
    BY <1>1, <1>2, <1>5, SettledCleanup
  <2>2. TypeOK'
    BY <1>2, <1>5, <2>1, DoneType DEF TypeOK
  <2>3. GateInv'
    BY <1>2, <1>5, DoneType DEF GateInv
  <2>4. CallInv'
    BY <1>2, <2>1, CallUnchanged
  <2> QED BY <2>1, <2>2, <2>3, <2>4
<1>6. \A kind : Fault(kind) \/ NoFault => faults' \in Nat
  BY FaultType
<1> HIDE DEF IInv
<1> QED BY <1>3, <1>4, <1>5, <1>6 DEF AnswerSetRemote, NoFault

LEMMA AnswerVerifyIInv == ASSUME IInv, NEW a \in Agents, AnswerVerify(a) PROVE IInv'
<1> USE DEF IInv
<1> DEFINE p == loop[a].peer
           c == loop[a].conn
<1>1. p \in Agents /\ c \in MaybeConn /\ loop[a].pc = "verifyDTLS"
  BY DEF TypeOK, Loop, AnswerVerify
<1>2. UNCHANGED <<peers, session, inbox, call, life, allowed, revoked>>
  BY DEF AnswerVerify
<1>3. CASE Goto(a, "answerSession", c) /\ UNCHANGED <<conn, pending, faults>>
  <2>1. /\ loop' \in [Agents -> Loop]
        /\ \A b \in Agents : \/ loop'[b] = loop[b]
                             \/ loop[b].pc \notin {"idle", "exit"} /\ loop'[b].peer = loop[b].peer
    BY <1>1, <1>3, GotoType
  <2>2. TypeOK'
    BY <1>2, <1>3, <2>1 DEF TypeOK
  <2>3. ConnInv' /\ PendingInv' /\ CallInv'
    BY <1>2, <1>3, ConnUnchanged, CallUnchanged, ReflexiveProgress
  <2>4. GateInv'
    BY <1>2, <2>1 DEF GateInv
  <2> QED BY <2>2, <2>3, <2>4
<1>4. CASE /\ cleanupPending([conn EXCEPT ![c].err = TRUE], a, p)
           /\ Done(a)
           /\ Fault("dtls")
  <2>1. Settles(conn, [conn EXCEPT ![c].err = TRUE]) /\ faults' \in Nat
    BY <1>4, SetErrSettles, FaultType DEF TypeOK
  <2>2. /\ conn' \in [Conns -> Conn] /\ pending' \in [Agents -> [Agents -> MaybeConn]]
        /\ Progress(conn, conn') /\ ConnInv' /\ PendingInv'
    BY <1>1, <1>2, <1>4, <2>1, SettledCleanup
  <2>3. TypeOK'
    BY <1>2, <1>4, <2>1, <2>2, DoneType DEF TypeOK
  <2>4. GateInv'
    BY <1>2, <1>4, DoneType DEF GateInv
  <2>5. CallInv'
    BY <1>2, <2>2, CallUnchanged
  <2> QED BY <2>2, <2>3, <2>4, <2>5
<1> HIDE DEF IInv
<1> QED BY <1>3, <1>4 DEF AnswerVerify, NoFault

LEMMA SignalingErrorIInv == ASSUME IInv, NEW a \in Agents, SignalingError(a) PROVE IInv'
<1> USE DEF IInv
<1> DEFINE failed == {c \in Conns : /\ \E p \in Agents : pending[a][p] = c
                                    /\ conn[c].role = "offerer"}
           cs == [c \in Conns |-> IF c \in failed THEN [conn[c] EXCEPT !.err = TRUE, !.ready = TRUE]
                                                   ELSE conn[c]]
<1>1. UNCHANGED <<peers, session, loop, call, life, allowed, revoked, faults>> /\ CloseAll(cs, failed)
  BY DEF SignalingError
<1>2. inbox' \in [Agents -> Seq(Msg)]
  BY ReceivingType DEF SignalingError
<1>3. pending' \in [Agents -> [Agents -> MaybeConn]] /\ Shrinks
  BY DEF SignalingError, TypeOK, Shrinks, MaybeConn
<1> HIDE DEF failed
<1>4. ASSUME NEW x \in Conns
      PROVE  /\ cs[x] \in Conn
             /\ cs[x].transport = conn[x].transport /\ cs[x].owner = conn[x].owner
             /\ cs[x].peer = conn[x].peer
             /\ cs[x].ready => conn[x].ready \/ cs[x].err
             /\ conn[x].err => cs[x].err
             /\ cs[x].handler = conn[x].handler /\ cs[x].recv = conn[x].recv
  <2>1. conn[x] \in Conn
    BY DEF TypeOK
  <2>2. cs[x] = IF x \in failed THEN [conn[x] EXCEPT !.err = TRUE, !.ready = TRUE] ELSE conn[x]
    OBVIOUS
  <2> HIDE DEF cs
  <2> QED BY <2>1, <2>2 DEF Conn
<1>5. cs \in [Conns -> Conn]
  BY <1>4
<1> HIDE DEF cs
<1>6. Progress(conn, cs)
  BY <1>4 DEF Progress
<1>7. conn' \in [Conns -> Conn] /\ Keeps(cs, conn')
  BY <1>1, <1>5, CloseAllKeeps
<1>8. Progress(conn, conn') /\ RegistersUnpended
  BY <1>4, <1>6, <1>7, KeepsProgress DEF RegistersUnpended, Keeps
<1>9. TypeOK'
  BY <1>1, <1>2, <1>3, <1>7 DEF TypeOK
<1>10. ConnInv' /\ PendingInv'
  BY <1>1, <1>3, <1>8, ProgressInv DEF GateGrows
<1>11. CallInv' /\ GateInv'
  BY <1>1, <1>8, CallUnchanged, GateUnchanged
<1> QED BY <1>9, <1>10, <1>11

LEMMA ContactAddedIInv == ASSUME IInv, NEW a \in Agents, ContactAdded(a) PROVE IInv'
<1> USE DEF IInv
<1> DEFINE m == Head(inbox[a])
<1>1. inbox' \in [Agents -> Seq(Msg)] /\ m \in Msg
  BY ReceivingType DEF ContactAdded
<1>2. /\ m.from \in Agents /\ allowed' = [allowed EXCEPT ![a] = @ \cup {m.from}]
      /\ revoked' = [revoked EXCEPT ![a] = @ \ {m.from}]
  BY <1>1 DEF ContactAdded, Msg
<1> HIDE DEF m
<1>3. allowed' \in [Agents -> SUBSET Agents] /\ revoked' \in [Agents -> SUBSET Agents] /\ GateGrows
  BY <1>2 DEF TypeOK, GateGrows
<1>4. UNCHANGED <<conn, pending, peers, session, loop, call, life, faults>>
  BY DEF ContactAdded
<1>5. TypeOK'
  BY <1>1, <1>3, <1>4 DEF TypeOK
<1>6. Progress(conn, conn') /\ Shrinks /\ RegistersUnpended
  BY <1>4, ReflexiveProgress DEF Shrinks, RegistersUnpended
<1>7. ConnInv' /\ PendingInv' /\ CallInv'
  BY <1>3, <1>4, <1>6, ProgressInv, CallUnchanged
<1>8. GateInv'
  BY <1>3, <1>4, GateStep DEF GateInv
<1> QED BY <1>5, <1>7, <1>8

LEMMA EmptyInbox ==
    ASSUME inbox \in [Agents -> Seq(Msg)]
    PROVE  \A a \in Agents : [inbox EXCEPT ![a] = <<>>] \in [Agents -> Seq(Msg)]
<1>1. <<>> \in Seq(Msg)
  OBVIOUS
<1> QED BY <1>1

LEMMA LoopExitIInv == ASSUME IInv, NEW a \in Agents, LoopExit(a) PROVE IInv'
<1> USE DEF IInv
<1>1. UNCHANGED <<conn, pending, peers, session, call, life, allowed, revoked, faults>>
  BY DEF LoopExit
<1>2. /\ loop' \in [Agents -> Loop]
      /\ \A b \in Agents : loop'[b].pc = "exit" \/ loop'[b] = loop[b]
  BY DEF LoopExit, TypeOK, Loop
<1>3. TypeOK'
  <2>1. inbox' \in [Agents -> Seq(Msg)]
    BY EmptyInbox DEF LoopExit, TypeOK
  <2> QED BY <1>1, <1>2, <2>1 DEF TypeOK
<1>4. ConnInv' /\ PendingInv' /\ CallInv'
  BY <1>1, ConnUnchanged, CallUnchanged, ReflexiveProgress
<1>5. GateInv'
  BY <1>1, <1>2 DEF GateInv
<1> QED BY <1>3, <1>4, <1>5

(* A step of an object's own goroutines and of the network: it changes the *)
(* objects and the two maps, and neither the loop nor the calls.           *)
LEMMA ObjectStepIInv ==
    ASSUME IInv, conn' \in [Conns -> Conn], Progress(conn, conn'), Shrinks, RegistersUnpended,
           pending' \in [Agents -> [Agents -> MaybeConn]],
           peers' \in [Agents -> [Agents -> MaybeConn]],
           \A a, p \in Agents : peers'[a][p] # None => peers[a][p] # None \/ p \in allowed[a],
           inbox' \in [Agents -> Seq(Msg)],
           life' \in [Agents -> {"running", "stopping", "stopped"}],
           faults' \in Nat,
           UNCHANGED <<session, loop, call, allowed, revoked>>
    PROVE  IInv'
<1> USE DEF IInv
<1>1. TypeOK'
  BY DEF TypeOK
<1>2. ConnInv' /\ PendingInv' /\ CallInv'
  BY ProgressInv, CallUnchanged DEF GateGrows
<1>3. GateInv'
  BY GateStep DEF GateInv, GateGrows
<1> QED BY <1>1, <1>2, <1>3

LEMMA ObjectAt ==
    ASSUME TypeOK, NEW c \in Conns, NEW r \in Conn,
           r.transport = conn[c].transport, r.owner = conn[c].owner, r.peer = conn[c].peer,
           r.ready => conn[c].ready \/ r.err \/ r.recv # "none",
           conn[c].err => r.err,
           conn[c].recv # "none" => r.recv # "none",
           r.recv # "none" => conn[c].recv # "none" \/ conn[c].handler = "register",
           r.handler # "done" => conn[c].handler # "done"
    PROVE  /\ [conn EXCEPT ![c] = r] \in [Conns -> Conn]
           /\ Progress(conn, [conn EXCEPT ![c] = r])
           /\ \A d \in Conns : [conn EXCEPT ![c] = r][d] = IF d = c THEN r ELSE conn[d]
BY DEF TypeOK, Progress

LEMMA OwnerType ==
    ASSUME TypeOK, NEW c \in Conns
    PROVE  conn[c] \in Conn /\ conn[c].owner \in Agents /\ conn[c].peer \in Agents
BY DEF TypeOK, Conn

(* What a handler's or receive loop's step may make of its object.         *)
Reworks(x, r) ==
    /\ r \in Conn
    /\ r.transport = x.transport /\ r.owner = x.owner /\ r.peer = x.peer /\ r.recv = x.recv
    /\ r.ready => x.ready \/ r.err
    /\ x.err => r.err

LEMMA EndsReworks ==
    ASSUME NEW c \in Conns, conn[c] \in Conn, NEW h \in {"run", "register", "remove", "done"}
    PROVE  Reworks(conn[c], Ends(c, h)) /\ Ends(c, h).handler = h
<1>1. <<>> \in Seq(Event)
  OBVIOUS
<1> QED BY <1>1 DEF Conn, Reworks, Ends

LEMMA FailsReworks ==
    ASSUME NEW c \in Conns, conn[c] \in Conn
    PROVE  Reworks(conn[c], Fails(c)) /\ Fails(c).handler = "done"
<1>1. <<>> \in Seq(Event)
  OBVIOUS
<1> QED BY <1>1 DEF Conn, Reworks, Fails

LEMMA ReworksProgress ==
    ASSUME TypeOK, NEW c \in Conns, NEW r, Reworks(conn[c], r),
           r.handler # "done" => conn[c].handler # "done"
    PROVE  /\ [conn EXCEPT ![c] = r] \in [Conns -> Conn]
           /\ Progress(conn, [conn EXCEPT ![c] = r])
           /\ \A d \in Conns : [conn EXCEPT ![c] = r][d] = IF d = c THEN r ELSE conn[d]
BY ObjectAt DEF Reworks

LEMMA HandlerQuitIInv == ASSUME IInv, NEW c \in Conns, HandlerQuit(c) PROVE IInv'
<1>1. TypeOK /\ conn[c] \in Conn
  BY OwnerType DEF IInv
<1>2. conn' = [conn EXCEPT ![c] = Ends(c, "done")]
  BY DEF HandlerQuit
<1>3. conn' \in [Conns -> Conn] /\ Progress(conn, conn') /\ RegistersUnpended
  BY <1>1, <1>2, EndsReworks, ReworksProgress DEF RegistersUnpended
<1>4. UNCHANGED <<pending, peers, session, inbox, loop, call, life, allowed, revoked, faults>>
  BY DEF HandlerQuit
<1> QED BY <1>1, <1>3, <1>4, ObjectStepIInv DEF TypeOK, Shrinks

LEMMA HandlerConnectedIInv == ASSUME IInv, NEW c \in Conns, HandlerConnected(c) PROVE IInv'
<1>1. TypeOK /\ conn[c] \in Conn /\ conn[c].owner \in Agents /\ conn[c].peer \in Agents
  BY OwnerType DEF IInv
<1>2. conn[c].handler # "done" /\ UNCHANGED <<peers, session, inbox, loop, call, life, allowed, revoked, faults>>
  BY DEF HandlerConnected, Takes
<1>3. CASE Unpend(c) /\ conn' = [conn EXCEPT ![c] = Ends(c, "register")]
  <2>1. /\ conn' \in [Conns -> Conn] /\ Progress(conn, conn')
        /\ \A d \in Conns : d # c => conn'[d] = conn[d]
    BY <1>1, <1>2, <1>3, EndsReworks, ReworksProgress
  <2>2. /\ Shrinks /\ pending' \in [Agents -> [Agents -> MaybeConn]]
        /\ pending'[conn[c].owner][conn[c].peer] = None
    BY <1>1, <1>3, PutNone DEF Unpend
  <2>3. RegistersUnpended
    BY <2>1, <2>2 DEF RegistersUnpended
  <2> QED BY <1>1, <1>2, <2>1, <2>2, <2>3, ObjectStepIInv DEF TypeOK
<1>4. CASE UNCHANGED pending /\ conn' = [conn EXCEPT ![c] = Ends(c, "done")]
  <2>1. conn' \in [Conns -> Conn] /\ Progress(conn, conn') /\ RegistersUnpended
    BY <1>1, <1>2, <1>4, EndsReworks, ReworksProgress DEF RegistersUnpended
  <2> QED BY <1>1, <1>2, <1>4, <2>1, ObjectStepIInv DEF TypeOK, Shrinks
<1> QED BY <1>3, <1>4 DEF HandlerConnected

LEMMA HandlerRegisterIInv == ASSUME IInv, NEW c \in Conns, HandlerRegister(c) PROVE IInv'
<1> DEFINE r == [conn[c] EXCEPT !.handler = "done", !.recv = "run", !.ready = TRUE]
           a == conn[c].owner
           p == conn[c].peer
<1>1. TypeOK /\ conn[c] \in Conn /\ a \in Agents /\ p \in Agents
  BY OwnerType DEF IInv
<1>2. /\ r \in Conn /\ r.transport = conn[c].transport /\ r.owner = a /\ r.peer = p
      /\ r.recv # "none" /\ r.handler = "done" /\ r.err = conn[c].err
  BY <1>1 DEF Conn
<1>3. conn' = [conn EXCEPT ![c] = r] /\ conn[c].handler = "register"
  BY DEF HandlerRegister
<1> HIDE DEF r
<1>4. conn' \in [Conns -> Conn] /\ Progress(conn, conn') /\ RegistersUnpended
  BY <1>1, <1>2, <1>3, ObjectAt DEF RegistersUnpended
<1>5. p \in allowed[a]
  BY <1>3 DEF IInv, ConnInv
<1>6. peers' = Put(peers, a, p, c)
  BY DEF HandlerRegister
<1> HIDE DEF a, p
<1>7. /\ peers' \in [Agents -> [Agents -> MaybeConn]]
      /\ \A b, q \in Agents : peers'[b][q] # None => peers[b][q] # None \/ q \in allowed[b]
  BY <1>1, <1>5, <1>6 DEF Put, TypeOK, MaybeConn
<1>8. UNCHANGED <<pending, session, inbox, loop, call, life, allowed, revoked, faults>>
  BY DEF HandlerRegister
<1> QED BY <1>1, <1>4, <1>7, <1>8, ObjectStepIInv DEF TypeOK, Shrinks

LEMMA HandlerFailedIInv == ASSUME IInv, NEW c \in Conns, HandlerFailed(c) PROVE IInv'
<1> DEFINE r  == IF StillPending(c) THEN Fails(c) ELSE Ends(c, "done")
           cs == [conn EXCEPT ![c] = r]
<1>1. TypeOK /\ conn[c] \in Conn /\ conn[c].owner \in Agents /\ conn[c].peer \in Agents
  BY OwnerType DEF IInv
<1>2. Reworks(conn[c], r) /\ r.handler = "done"
  BY <1>1, EndsReworks, FailsReworks
<1>3. CloseAll(cs, {c})
  BY DEF HandlerFailed
<1> HIDE DEF r
<1>4. /\ cs \in [Conns -> Conn] /\ Progress(conn, cs)
      /\ \A d \in Conns : cs[d].handler = "register" => conn[d].handler = "register"
  BY <1>1, <1>2, ReworksProgress
<1> HIDE DEF cs
<1>5. conn' \in [Conns -> Conn] /\ Keeps(cs, conn') /\ Progress(conn, conn')
  BY <1>3, <1>4, CloseAllKeeps, KeepsProgress
<1>6. RegistersUnpended
  BY <1>4, <1>5 DEF RegistersUnpended, Keeps
<1>7. Shrinks /\ pending' \in [Agents -> [Agents -> MaybeConn]]
  BY <1>1, PutNone DEF HandlerFailed, Unpend
<1>8. UNCHANGED <<peers, session, inbox, loop, call, life, allowed, revoked, faults>>
  BY DEF HandlerFailed
<1> QED BY <1>1, <1>5, <1>6, <1>7, <1>8, ObjectStepIInv DEF TypeOK

LEMMA HandlerGoneIInv == ASSUME IInv, NEW c \in Conns, HandlerGone(c) PROVE IInv'
<1> DEFINE r == IF StillPending(c) THEN Fails(c) ELSE Ends(c, "remove")
<1>1. TypeOK /\ conn[c] \in Conn /\ conn[c].owner \in Agents /\ conn[c].peer \in Agents
  BY OwnerType DEF IInv
<1>2. conn' = [conn EXCEPT ![c] = r] /\ conn[c].handler # "done"
  BY DEF HandlerGone, Takes
<1>3. Reworks(conn[c], r) /\ r.handler # "register"
  BY <1>1, EndsReworks, FailsReworks
<1> HIDE DEF r
<1>4. conn' \in [Conns -> Conn] /\ Progress(conn, conn') /\ RegistersUnpended
  BY <1>1, <1>2, <1>3, ReworksProgress DEF RegistersUnpended
<1>5. Shrinks /\ pending' \in [Agents -> [Agents -> MaybeConn]]
  BY <1>1, PutNone DEF HandlerGone, Unpend
<1>6. UNCHANGED <<peers, session, inbox, loop, call, life, allowed, revoked, faults>>
  BY DEF HandlerGone
<1> QED BY <1>1, <1>4, <1>5, <1>6, ObjectStepIInv DEF TypeOK

(* A step that drops a peer by id and otherwise reworks one object.        *)
LEMMA RemoveStepIInv ==
    ASSUME IInv, NEW a \in Agents, NEW p \in Agents, NEW cs \in [Conns -> Conn],
           Progress(conn, cs), \A d \in Conns : cs[d].handler = "register" => conn[d].handler = "register",
           RemovePeer(cs, a, p),
           UNCHANGED <<pending, session, inbox, loop, call, life, allowed, revoked, faults>>
    PROVE  IInv'
<1>1. TypeOK
  BY DEF IInv
<1>2. conn' \in [Conns -> Conn] /\ Keeps(cs, conn') /\ Progress(conn, conn')
  BY CloseAllKeeps, KeepsProgress DEF RemovePeer
<1>3. RegistersUnpended
  BY <1>2 DEF RegistersUnpended, Keeps
<1>4. /\ peers' \in [Agents -> [Agents -> MaybeConn]]
      /\ \A b, q \in Agents : peers'[b][q] # None => peers[b][q] # None
  BY <1>1, PutNonePeers DEF RemovePeer
<1> QED BY <1>1, <1>2, <1>3, <1>4, ObjectStepIInv DEF TypeOK, Shrinks

LEMMA HandlerRemoveIInv == ASSUME IInv, NEW c \in Conns, HandlerRemove(c) PROVE IInv'
<1> DEFINE r == [conn[c] EXCEPT !.handler = "done"]
<1>1. TypeOK /\ conn[c] \in Conn /\ conn[c].owner \in Agents /\ conn[c].peer \in Agents
  BY OwnerType DEF IInv
<1>2. Reworks(conn[c], r) /\ r.handler = "done"
  BY <1>1 DEF Conn, Reworks
<1>3. RemovePeer([conn EXCEPT ![c] = r], conn[c].owner, conn[c].peer)
  BY DEF HandlerRemove
<1> HIDE DEF r
<1>4. /\ [conn EXCEPT ![c] = r] \in [Conns -> Conn] /\ Progress(conn, [conn EXCEPT ![c] = r])
      /\ \A d \in Conns : [conn EXCEPT ![c] = r][d].handler = "register" => conn[d].handler = "register"
  BY <1>1, <1>2, ReworksProgress
<1>5. UNCHANGED <<pending, session, inbox, loop, call, life, allowed, revoked, faults>>
  BY DEF HandlerRemove
<1> QED BY <1>1, <1>3, <1>4, <1>5, RemoveStepIInv

LEMMA RecvDone ==
    ASSUME TypeOK, NEW c \in Conns, conn[c].recv = "run"
    PROVE  LET cs == [conn EXCEPT ![c] = [@ EXCEPT !.recv = "done"]]
           IN  /\ cs \in [Conns -> Conn] /\ Progress(conn, cs)
               /\ \A d \in Conns : cs[d].handler = conn[d].handler
<1> DEFINE r == [conn[c] EXCEPT !.recv = "done"]
<1>1. conn[c] \in Conn
  BY DEF TypeOK
<1>2. /\ r \in Conn /\ r.transport = conn[c].transport /\ r.owner = conn[c].owner
      /\ r.peer = conn[c].peer /\ r.ready = conn[c].ready /\ r.err = conn[c].err
      /\ r.handler = conn[c].handler /\ r.recv = "done"
  BY <1>1 DEF Conn
<1>3. [conn EXCEPT ![c] = [@ EXCEPT !.recv = "done"]] = [conn EXCEPT ![c] = r]
  BY DEF TypeOK
<1> HIDE DEF r
<1>4. /\ [conn EXCEPT ![c] = r] \in [Conns -> Conn] /\ Progress(conn, [conn EXCEPT ![c] = r])
      /\ \A d \in Conns : [conn EXCEPT ![c] = r][d].handler = conn[d].handler
  BY <1>2, ObjectAt
<1> QED BY <1>3, <1>4

LEMMA ReceiveIInv ==
    ASSUME IInv, NEW c \in Conns, ReceiveQuit(c) \/ ReceiveClosed(c) PROVE IInv'
<1> DEFINE cs == [conn EXCEPT ![c] = [@ EXCEPT !.recv = "done"]]
<1>1. TypeOK /\ conn[c].owner \in Agents /\ conn[c].peer \in Agents
  BY OwnerType DEF IInv
<1>2. /\ cs \in [Conns -> Conn] /\ Progress(conn, cs)
      /\ \A d \in Conns : cs[d].handler = conn[d].handler
  BY <1>1, RecvDone DEF ReceiveQuit, ReceiveClosed
<1>3. CASE ReceiveQuit(c)
  <2>1. conn' = cs /\ UNCHANGED <<pending, peers, session, inbox, loop, call, life, allowed, revoked, faults>>
    BY <1>3 DEF ReceiveQuit
  <2> HIDE DEF cs
  <2>2. conn' \in [Conns -> Conn] /\ Progress(conn, conn') /\ RegistersUnpended
    BY <1>2, <2>1 DEF RegistersUnpended
  <2> QED BY <1>1, <2>1, <2>2, ObjectStepIInv DEF TypeOK, Shrinks
<1>4. CASE ReceiveClosed(c)
  <2>1. /\ RemovePeer(cs, conn[c].owner, conn[c].peer)
        /\ UNCHANGED <<pending, session, inbox, loop, call, life, allowed, revoked, faults>>
    BY <1>4 DEF ReceiveClosed
  <2> HIDE DEF cs
  <2> QED BY <1>1, <1>2, <2>1, RemoveStepIInv
<1> QED BY <1>3, <1>4

LEMMA CancelIInv == ASSUME IInv, NEW a \in Agents, Cancel(a) PROVE IInv'
<1>1. TypeOK /\ UNCHANGED <<conn, pending, peers, session, inbox, loop, call, allowed, revoked, faults>>
  BY DEF IInv, Cancel
<1>2. inbox' \in [Agents -> Seq(Msg)]
  BY <1>1 DEF TypeOK
<1>3. life' \in [Agents -> {"running", "stopping", "stopped"}]
  BY <1>1 DEF TypeOK, Cancel
<1>4. Progress(conn, conn') /\ Shrinks /\ RegistersUnpended
  BY <1>1, ReflexiveProgress DEF Shrinks, RegistersUnpended
<1> QED BY <1>1, <1>2, <1>3, <1>4, ObjectStepIInv DEF TypeOK

LEMMA StopFinishIInv == ASSUME IInv, NEW a \in Agents, StopFinish(a) PROVE IInv'
<1>1. TypeOK /\ UNCHANGED <<session, inbox, loop, call, allowed, revoked, faults>>
  BY DEF IInv, StopFinish
<1>2. PICK S : CloseAll(conn, S)
  BY DEF StopFinish
<1>3. conn' \in [Conns -> Conn] /\ Keeps(conn, conn') /\ Progress(conn, conn')
  BY <1>1, <1>2, CloseAllKeeps, KeepsProgress, ReflexiveProgress DEF TypeOK
<1>4. RegistersUnpended
  BY <1>3 DEF RegistersUnpended, Keeps
<1>5. /\ pending' \in [Agents -> [Agents -> MaybeConn]] /\ Shrinks
      /\ peers' \in [Agents -> [Agents -> MaybeConn]]
      /\ \A b, q \in Agents : peers'[b][q] # None => peers[b][q] # None
  BY <1>1 DEF StopFinish, TypeOK, Shrinks, MaybeConn
<1>6. life' \in [Agents -> {"running", "stopping", "stopped"}]
  BY <1>1 DEF TypeOK, StopFinish
<1> QED BY <1>1, <1>3, <1>4, <1>5, <1>6, ObjectStepIInv DEF TypeOK

LEMMA IceStepIInv ==
    ASSUME IInv, NEW c \in Conns, NEW state \in {"connected", "disconnected", "failed"},
           IceStep(c, state), faults' \in Nat
    PROVE  IInv'
<1> DEFINE ch == IF conn[c].handler = "run" THEN Append(conn[c].stateCh, state) ELSE conn[c].stateCh
           r  == [conn[c] EXCEPT !.stateCh = ch, !.ice = state]
<1>1. TypeOK /\ conn[c] \in Conn
  BY OwnerType DEF IInv
<1>2. ch \in Seq(Event)
  BY <1>1 DEF Conn, Event
<1>3. conn' = [conn EXCEPT ![c] = r]
  BY DEF IceStep
<1> HIDE DEF ch
<1>4. Reworks(conn[c], r) /\ r.handler = conn[c].handler
  BY <1>1, <1>2 DEF Conn, Reworks, IceState
<1> HIDE DEF r
<1>5. conn' \in [Conns -> Conn] /\ Progress(conn, conn') /\ RegistersUnpended
  BY <1>1, <1>3, <1>4, ReworksProgress DEF RegistersUnpended
<1>6. UNCHANGED <<pending, peers, session, inbox, loop, call, life, allowed, revoked>>
  BY DEF IceStep
<1> QED BY <1>1, <1>5, <1>6, ObjectStepIInv DEF TypeOK, Shrinks

LEMMA IceIInv ==
    ASSUME IInv, NEW c \in Conns, IceUp(c) \/ IceFail(c) \/ IceLost(c) PROVE IInv'
<1>1. \A kind : Fault(kind) \/ NoFault => faults' \in Nat
  BY FaultType DEF IInv
<1> QED BY <1>1, IceStepIInv DEF IceUp, IceFail, IceLost

(* A step that only puts a message on its way, or takes one off it.        *)
LEMMA MessageStepIInv ==
    ASSUME IInv, inbox' \in [Agents -> Seq(Msg)], faults' \in Nat,
           UNCHANGED <<conn, pending, peers, session, loop, call, life, allowed, revoked>>
    PROVE  IInv'
<1>1. TypeOK
  BY DEF IInv
<1>2. Progress(conn, conn') /\ Shrinks /\ RegistersUnpended
  BY ReflexiveProgress DEF Shrinks, RegistersUnpended
<1> QED BY <1>1, <1>2, ObjectStepIInv DEF TypeOK

LEMMA MessageIInv ==
    ASSUME IInv, NEW a \in Agents, Lose(a) \/ Reject(a) \/ \E p \in Agents : NewContact(a, p)
    PROVE  IInv'
<1>1. TypeOK
  BY DEF IInv
<1>2. \A kind : Fault(kind) \/ NoFault => faults' \in Nat
  BY <1>1, FaultType
<1>3. inbox[a] # <<>> => Tail(inbox[a]) \in Seq(Msg) /\ Head(inbox[a]) \in Msg
  <2>1. inbox[a] \in Seq(Msg)
    BY <1>1 DEF TypeOK
  <2> QED BY <2>1
<1>4. CASE Lose(a)
  <2>1. inbox' \in [Agents -> Seq(Msg)]
    BY <1>1, <1>3, <1>4 DEF Lose, TypeOK
  <2> QED BY <1>2, <1>4, <2>1, MessageStepIInv DEF Lose
<1>5. CASE Reject(a)
  <2> DEFINE m == Head(inbox[a])
             e == [type |-> "error", from |-> a, conn |-> None]
             i == [inbox EXCEPT ![a] = Tail(@)]
  <2>1. m.from \in Agents /\ e \in Msg
    BY <1>3, <1>5 DEF Reject, Msg, MaybeConn
  <2>2. i \in [Agents -> Seq(Msg)]
    BY <1>1, <1>3, <1>5 DEF Reject, TypeOK
  <2>3. inbox' = [i EXCEPT ![m.from] = Append(@, e)]
    BY <1>5 DEF Reject
  <2> HIDE DEF i, m, e
  <2>4. Append(i[m.from], e) \in Seq(Msg)
    BY <2>1, <2>2
  <2>5. inbox' \in [Agents -> Seq(Msg)]
    BY <2>2, <2>3, <2>4
  <2> QED BY <1>2, <1>5, <2>5, MessageStepIInv DEF Reject
<1>6. ASSUME NEW p \in Agents, NewContact(a, p) PROVE IInv'
  <2>1. [type |-> "contact", from |-> p, conn |-> None] \in Msg
    BY DEF Msg, MaybeConn
  <2>2. inbox' \in [Agents -> Seq(Msg)]
    BY <1>1, <1>6, <2>1, SendType DEF NewContact
  <2> QED BY <1>1, <1>6, <2>2, MessageStepIInv DEF NewContact, TypeOK
<1> QED BY <1>4, <1>5, <1>6

LEMMA RevokeIInv == ASSUME IInv, NEW a \in Agents, NEW p \in Agents, Revoke(a, p) PROVE IInv'
<1> USE DEF IInv
<1>1. UNCHANGED <<conn, pending, peers, session, inbox, loop, call, life, allowed>>
  BY DEF Revoke
<1>2. revoked' \in [Agents -> SUBSET Agents] /\ faults' \in Nat
  BY DEF Revoke, TypeOK, Fault
<1>3. TypeOK'
  BY <1>1, <1>2 DEF TypeOK
<1>4. ConnInv' /\ PendingInv' /\ CallInv' /\ GateInv'
  BY <1>1, ConnUnchanged, CallUnchanged, ReflexiveProgress, GateUnchanged
<1> QED BY <1>3, <1>4

-----------------------------------------------------------------------------
(* Every step of the system preserves the inductive invariant.             *)
LEMMA NextIInv == IInv /\ [Next]_vars => IInv'
<1> SUFFICES ASSUME IInv, [Next]_vars PROVE IInv'
  OBVIOUS
<1>1. ASSUME NEW k \in Calls, ConnectCheck(k) \/ ConnectStep(k) PROVE IInv'
  BY <1>1, ConnectCheckIInv, ConnectLockIInv, ConnectOfferIInv, ConnectReadyIInv,
     ConnectTimeoutIInv DEF ConnectStep
<1>2. ASSUME NEW a \in Agents, LoopStep(a) PROVE IInv'
  BY <1>2, OfferCheckIInv, OfferLockIInv, OfferAnswerIInv, OfferSessionIInv, AnswerLookupIInv,
     AnswerSetRemoteIInv, AnswerVerifyIInv, AnswerSessionIInv, SignalingErrorIInv,
     ContactAddedIInv, LoopExitIInv DEF LoopStep
<1>3. ASSUME NEW c \in Conns, HandlerStep(c) PROVE IInv'
  BY <1>3, HandlerQuitIInv, HandlerConnectedIInv, HandlerRegisterIInv, HandlerFailedIInv,
     HandlerGoneIInv, HandlerRemoveIInv DEF HandlerStep
<1>4. ASSUME NEW c \in Conns, ReceiveStep(c) \/ IceOutcome(c) \/ IceLost(c) PROVE IInv'
  BY <1>4, ReceiveIInv, IceIInv DEF ReceiveStep, IceOutcome
<1>5. ASSUME NEW a \in Agents, StopFinish(a) \/ Cancel(a) PROVE IInv'
  BY <1>5, StopFinishIInv, CancelIInv
<1>6. ASSUME NEW a \in Agents, Lose(a) \/ Reject(a) \/ \E p \in Agents : NewContact(a, p)
      PROVE  IInv'
  BY <1>6, MessageIInv
<1>7. CASE UNCHANGED vars
  <2>1. TypeOK
    BY DEF IInv
  <2> QED BY <1>7, <2>1, MessageStepIInv DEF vars, TypeOK
<1>8. ASSUME NEW a \in Agents, NEW p \in Agents, Revoke(a, p) PROVE IInv'
  BY <1>8, RevokeIInv
<1> QED BY <1>1, <1>2, <1>3, <1>4, <1>5, <1>6, <1>7, <1>8 DEF Next, System, Environment

LEMMA Inductive == Spec => []IInv
BY InitIInv, NextIInv, PTL DEF Spec

(* Every variable keeps its type, whatever the signaling service, the      *)
(* network and the callers do.                                             *)
THEOREM TypeCorrect == Spec => []TypeOK
<1>1. IInv => TypeOK
  BY DEF IInv
<1> QED BY <1>1, Inductive, PTL

(* pending never holds an object that a receive loop already serves,       *)
(* although setupStateHandler, cleanupPending and handleOffer all find     *)
(* entries by peer id and may meet each other's.                           *)
THEOREM PendingStaysPending == Spec => []PendingNotRegistered
<1>1. IInv => PendingNotRegistered
  BY DEF IInv, PendingInv, PendingNotRegistered
<1> QED BY <1>1, Inductive, PTL

(* Connect returns nil after waiting only when the connection it waited on *)
(* was registered with the peer manager.                                   *)
THEOREM NilIsTrue == Spec => []NilMeansRegistered
<1>1. IInv => NilMeansRegistered
  BY DEF IInv, CallInv, NilMeansRegistered
<1> QED BY <1>1, Inductive, PTL

(* No pending connection, registered peer or session key exists for a peer *)
(* the connection gate has not let through, at any agent and for every     *)
(* order of offers, answers, contact notifications and calls.              *)
THEOREM GateHolds == Spec => []GateRespected
<1>1. IInv => GateRespected
  <2> SUFFICES ASSUME IInv, NEW a \in Agents, NEW p \in Agents,
                      pending[a][p] # None \/ peers[a][p] # None \/ p \in session[a]
               PROVE  p \in allowed[a]
    BY DEF GateRespected
  <2>1. CASE pending[a][p] # None
    <3>1. pending[a][p] \in Conns
      BY <2>1 DEF IInv, TypeOK, MaybeConn
    <3>2. /\ conn[pending[a][p]].transport # "free"
          /\ conn[pending[a][p]].owner = a /\ conn[pending[a][p]].peer = p
      BY <3>1 DEF IInv, PendingInv
    <3> QED BY <3>1, <3>2 DEF IInv, ConnInv
  <2>2. CASE peers[a][p] # None \/ p \in session[a]
    BY <2>2 DEF IInv, GateInv
  <2> QED BY <2>1, <2>2
<1> QED BY <1>1, Inductive, PTL

-----------------------------------------------------------------------------
(* Session keys.  ICE may connect a pair of transports, and register the   *)
(* peer, while the loop that negotiated them has still to run onSession,   *)
(* so a key is either there or is what the loop derives before it looks at *)
(* the next message.  Of a peer that sends no key there is none to wait for. *)
Deriving == {"offerSession", "verifyDTLS", "answerSession"}

Keyed(a, p) ==
    \/ p \in session[a] \cup Keyless
    \/ loop[a].pc \in Deriving /\ loop[a].peer = p

Is(c, role) == c \in Conns /\ conn[c].transport # "free" /\ conn[c].role = role

Owned(c, a, p) == conn[c].owner = a /\ conn[c].peer = p

OwnerKeyed(c) == Keyed(conn[c].owner, conn[c].peer)

(* The answerer's side is keyed as soon as its answer is on its way.       *)
MsgOK(m) ==
    /\ m.type = "offer" => Is(m.conn, "offerer")
    /\ m.type = "answer" => Is(m.conn, "answerer") /\ OwnerKeyed(m.conn)

Msgs(q) == {q[i] : i \in DOMAIN q}

MsgKeys == \A a \in Agents : \A m \in Msgs(inbox[a]) : MsgOK(m)

LoopOK(a) ==
    /\ loop[a].pc \in {"offerLock", "answer"} => Is(loop[a].remote, "offerer")
    /\ loop[a].pc = "answer" => Is(loop[a].conn, "answerer") /\ Owned(loop[a].conn, a, loop[a].peer)
    /\ loop[a].pc = "setRemote" =>
          /\ Is(loop[a].conn, "offerer") /\ Owned(loop[a].conn, a, loop[a].peer)
          /\ Is(loop[a].remote, "answerer") /\ OwnerKeyed(loop[a].remote)

LoopKeys == \A a \in Agents : LoopOK(a)

(* The handler of x has been told that ICE connected.                      *)
Hears(x) == \E i \in DOMAIN x.stateCh : x.stateCh[i] = "connected"

(* An offerer holds an answer only when both sides are keyed; an answerer  *)
(* may hold an offer without, as when its answer could not be sent, but    *)
(* then no offerer holds its answer and ICE never connects it.             *)
ConnOK(c) ==
    /\ conn[c].remote # None /\ conn[c].role = "answerer" => Is(conn[c].remote, "offerer")
    /\ conn[c].remote # None /\ conn[c].role = "offerer" =>
          OwnerKeyed(c) /\ Is(conn[c].remote, "answerer") /\ OwnerKeyed(conn[c].remote)
    /\ Hears(conn[c]) \/ conn[c].handler = "register" => OwnerKeyed(c)

ConnKeys == \A c \in Conns : ConnOK(c)

PeerKeys == \A a, p \in Agents : peers[a][p] # None => Keyed(a, p)

CallOK(k) == call[k].pc = "offering" => Is(call[k].conn, "offerer")

CallKeys == \A k \in Calls : CallOK(k)

KeyInv == MsgKeys /\ LoopKeys /\ ConnKeys /\ PeerKeys /\ CallKeys

(* The key is there, or next, after the step.                              *)
KeyedNext(a, p) ==
    \/ p \in session'[a] \cup Keyless
    \/ loop'[a].pc \in Deriving /\ loop'[a].peer = p

KeysStay == \A a, p \in Agents : Keyed(a, p) => KeyedNext(a, p)

(* What a step may make of the objects: an unused one becomes a fresh one, *)
(* and of the others only a description that a keyed loop sets, and only a *)
(* matched transport's "connected", are new.                               *)
SameOwner(x, y) == y.role = x.role /\ y.owner = x.owner /\ y.peer = x.peer

Remotes(c, d) ==
    \/ conn[c].role = "answerer" /\ Is(d, "offerer")
    \/ /\ conn[c].role = "offerer" /\ KeyedNext(conn[c].owner, conn[c].peer)
       /\ Is(d, "answerer") /\ OwnerKeyed(d)

Follows(c, y) ==
    /\ conn[c].transport # "free" => y.transport # "free"
    /\ SameOwner(conn[c], y)
    /\ y.remote \in {None, conn[c].remote} \/ Remotes(c, y.remote)
    /\ Hears(y) => Hears(conn[c]) \/ OwnerKeyed(c)
    /\ y.handler = "register" => conn[c].handler = "register" \/ Hears(conn[c])

Starts(c, y) ==
    /\ conn[c].transport = "free"
    /\ y.transport # "free" /\ y.remote = None /\ ~ Hears(y) /\ y.handler # "register"

Tame(g) == \A c \in Conns : Follows(c, g[c]) \/ Starts(c, g[c])

LEMMA TameSelf == Tame(conn)
BY DEF Tame, Follows, SameOwner

LEMMA KeyedIsNext == \A a, p : Keyed(a, p)' <=> KeyedNext(a, p)
BY DEF Keyed, KeyedNext

(* What is true of a created object stays true of it.                      *)
LEMMA IsStays ==
    ASSUME Tame(conn'), NEW c, NEW role, Is(c, role)
    PROVE  Is(c, role)' /\ conn'[c].owner = conn[c].owner /\ conn'[c].peer = conn[c].peer
BY DEF Is, Tame, Follows, Starts, SameOwner

LEMMA OwnerKeyedStays ==
    ASSUME TypeOK, Tame(conn'), KeysStay, NEW c, NEW role, Is(c, role), OwnerKeyed(c)
    PROVE  OwnerKeyed(c)'
<1>1. c \in Conns /\ conn[c].owner \in Agents /\ conn[c].peer \in Agents
  BY OwnerType DEF Is
<1>2. KeyedNext(conn[c].owner, conn[c].peer)
  BY <1>1 DEF OwnerKeyed, KeysStay
<1>3. conn'[c].owner = conn[c].owner /\ conn'[c].peer = conn[c].peer
  BY IsStays
<1> QED BY <1>2, <1>3 DEF OwnerKeyed, Keyed, KeyedNext

LEMMA ConnKeysStay ==
    ASSUME TypeOK, ConnKeys, Tame(conn'), KeysStay PROVE ConnKeys'
<1> SUFFICES ASSUME NEW c \in Conns PROVE ConnOK(c)'
  BY DEF ConnKeys
<1>1. CASE Starts(c, conn'[c])
  BY <1>1 DEF Starts, ConnOK
<1>2. CASE Follows(c, conn'[c])
  <2>0. conn[c].owner \in Agents /\ conn[c].peer \in Agents /\ ConnOK(c)
    BY OwnerType DEF ConnKeys
  <2>1. conn'[c].owner = conn[c].owner /\ conn'[c].peer = conn[c].peer /\ conn'[c].role = conn[c].role
    BY <1>2 DEF Follows, SameOwner
  <2>2. OwnerKeyed(c) \/ KeyedNext(conn[c].owner, conn[c].peer) => OwnerKeyed(c)'
    BY <2>0, <2>1 DEF OwnerKeyed, KeysStay, Keyed, KeyedNext
  <2>3. Hears(conn'[c]) \/ conn'[c].handler = "register" => OwnerKeyed(c)'
    BY <1>2, <2>0, <2>2 DEF Follows, ConnOK
  <2>4. PICK d : d = conn'[c].remote
    OBVIOUS
  <2>5. ASSUME d # None, conn[c].role = "answerer" PROVE Is(d, "offerer")'
    <3>1. Is(d, "offerer")
      BY <1>2, <2>0, <2>4, <2>5 DEF Follows, ConnOK, Remotes
    <3> QED BY <3>1, IsStays
  <2>6. ASSUME d # None, conn[c].role = "offerer"
        PROVE  OwnerKeyed(c)' /\ Is(d, "answerer")' /\ OwnerKeyed(d)'
    <3>1. (OwnerKeyed(c) \/ KeyedNext(conn[c].owner, conn[c].peer)) /\ Is(d, "answerer") /\ OwnerKeyed(d)
      BY <1>2, <2>0, <2>4, <2>6 DEF Follows, ConnOK, Remotes
    <3> QED BY <3>1, <2>2, IsStays, OwnerKeyedStays
  <2> QED BY <2>1, <2>3, <2>4, <2>5, <2>6 DEF ConnOK, Is, OwnerKeyed
<1> QED BY <1>1, <1>2 DEF Tame

LEMMA MsgKeysStay ==
    ASSUME TypeOK, MsgKeys, Tame(conn'), KeysStay,
           \A a \in Agents : \A m \in Msgs(inbox'[a]) : m \in Msgs(inbox[a]) \/ MsgOK(m)'
    PROVE  MsgKeys'
<1>1. ASSUME NEW m, MsgOK(m) PROVE MsgOK(m)'
  BY <1>1, IsStays, OwnerKeyedStays DEF MsgOK
<1> QED BY <1>1 DEF MsgKeys

LEMMA LoopKeysStay ==
    ASSUME TypeOK, LoopKeys, Tame(conn'), KeysStay,
           \A a \in Agents : loop'[a] = loop[a] \/ LoopOK(a)'
    PROVE  LoopKeys'
<1> SUFFICES ASSUME NEW a \in Agents, loop'[a] = loop[a] PROVE LoopOK(a)'
  BY DEF LoopKeys
<1>1. PICK c, d : c = loop[a].conn /\ d = loop[a].remote
  OBVIOUS
<1>2. LoopOK(a)
  BY DEF LoopKeys
<1>3. \A r : (Is(c, r) => Is(c, r)' /\ conn'[c].owner = conn[c].owner /\ conn'[c].peer = conn[c].peer)
             /\ (Is(d, r) => Is(d, r)')
  BY IsStays
<1>4. Is(d, "answerer") /\ OwnerKeyed(d) => OwnerKeyed(d)'
  BY OwnerKeyedStays
<1>5. loop[a].pc \in {"offerLock", "answer"} => Is(d, "offerer")'
  BY <1>1, <1>2, <1>3 DEF LoopOK
<1>6. loop[a].pc = "answer" => Is(c, "answerer")' /\ Owned(c, a, loop[a].peer)'
  BY <1>1, <1>2, <1>3 DEF LoopOK, Owned
<1>7. loop[a].pc = "setRemote" => Is(c, "offerer")' /\ Owned(c, a, loop[a].peer)'
  BY <1>1, <1>2, <1>3 DEF LoopOK, Owned
<1>8. loop[a].pc = "setRemote" => Is(d, "answerer")' /\ OwnerKeyed(d)'
  BY <1>1, <1>2, <1>3, <1>4 DEF LoopOK
<1> QED BY <1>1, <1>5, <1>6, <1>7, <1>8 DEF LoopOK, Is, Owned, OwnerKeyed

(* What a step has to show for the session keys.                           *)
LEMMA KeyStep ==
    ASSUME TypeOK, KeyInv, Tame(conn'), KeysStay,
           \A a \in Agents : \A m \in Msgs(inbox'[a]) : m \in Msgs(inbox[a]) \/ MsgOK(m)',
           \A a \in Agents : loop'[a] = loop[a] \/ LoopOK(a)',
           \A a, p \in Agents : peers'[a][p] # None => peers[a][p] # None \/ KeyedNext(a, p),
           \A k \in Calls : call'[k] = call[k] \/ CallOK(k)'
    PROVE  KeyInv'
<1>1. ConnKeys' /\ MsgKeys' /\ LoopKeys'
  BY ConnKeysStay, MsgKeysStay, LoopKeysStay DEF KeyInv
<1>2. PeerKeys'
  BY KeyedIsNext DEF KeyInv, PeerKeys, KeysStay
<1>3. CallKeys'
  <2> SUFFICES ASSUME NEW k \in Calls, call'[k] = call[k] PROVE CallOK(k)'
    BY DEF CallKeys
  <2>1. CallOK(k)
    BY DEF KeyInv, CallKeys
  <2>2. PICK c : c = call[k].conn
    OBVIOUS
  <2>3. Is(c, "offerer") => Is(c, "offerer")'
    BY IsStays
  <2> QED BY <2>1, <2>2, <2>3 DEF CallOK, Is
<1> QED BY <1>1, <1>2, <1>3 DEF KeyInv

(* A step of neither the loop nor the session keys.                        *)
LEMMA KeysUntouched == ASSUME UNCHANGED <<session, loop>> PROVE KeysStay
BY DEF KeysStay, Keyed, KeyedNext

(* ... and of no call and no message either.                               *)
LEMMA ObjectKeyStep ==
    ASSUME TypeOK, KeyInv, Tame(conn'), UNCHANGED <<session, inbox, loop, call>>,
           \A a, p \in Agents : peers'[a][p] # None => peers[a][p] # None \/ Keyed(a, p)
    PROVE  KeyInv'
<1>1. KeysStay
  BY KeysUntouched
<1> QED BY <1>1, KeyStep DEF KeysStay

-----------------------------------------------------------------------------
(* The changes of objects and messages that the actions are made of.       *)
LEMMA TameAt ==
    ASSUME TypeOK, NEW c \in Conns, NEW r, Follows(c, r) \/ Starts(c, r)
    PROVE  Tame([conn EXCEPT ![c] = r])
<1>1. \A d \in Conns : [conn EXCEPT ![c] = r][d] = IF d = c THEN r ELSE conn[d]
  BY DEF TypeOK
<1> QED BY <1>1, TameSelf DEF Tame

LEMMA HearsAppend ==
    ASSUME NEW x, NEW y, x.stateCh \in Seq(Event), NEW e \in Event, e # "connected",
           y.stateCh = Append(x.stateCh, e)
    PROVE  Hears(y) => Hears(x)
<1>1. \A i \in DOMAIN y.stateCh : y.stateCh[i] = e \/ (i \in DOMAIN x.stateCh /\ y.stateCh[i] = x.stateCh[i])
  OBVIOUS
<1> QED BY <1>1 DEF Hears

LEMMA TameClose ==
    ASSUME NEW cs \in [Conns -> Conn], Tame(cs), NEW S, CloseAll(cs, S)
    PROVE  Tame(conn')
<1>1. PICK R \in Reportable(cs, S) : conn' = Closing(cs, S, R)
  BY DEF CloseAll
<1> SUFFICES ASSUME NEW c \in Conns PROVE Follows(c, conn'[c]) \/ Starts(c, conn'[c])
  BY DEF Tame
<1>2. CASE c \in S /\ cs[c].transport = "open"
  <2> DEFINE ch == IF c \in R THEN Append(cs[c].stateCh, "closed") ELSE cs[c].stateCh
             y  == [cs[c] EXCEPT !.transport = "closed", !.remote = None, !.ice = "new", !.stateCh = ch]
  <2>1. conn'[c] = y
    BY <1>1, <1>2 DEF Closing
  <2>2. cs[c] \in Conn
    OBVIOUS
  <2>3. /\ y.transport = "closed" /\ y.remote = None /\ y.handler = cs[c].handler /\ y.role = cs[c].role
        /\ y.owner = cs[c].owner /\ y.peer = cs[c].peer /\ y.stateCh = ch
    BY <2>2 DEF Conn
  <2> HIDE DEF y
  <2>4. Hears(y) => Hears(cs[c])
    <3>1. CASE c \in R
      BY <2>2, <2>3, <3>1, HearsAppend DEF Conn, Event
    <3>2. CASE c \notin R
      BY <2>3, <3>2 DEF Hears
    <3> QED BY <3>1, <3>2
  <2>5. Follows(c, cs[c]) \/ Starts(c, cs[c])
    BY DEF Tame
  <2> QED BY <2>1, <2>3, <2>4, <2>5, <1>2 DEF Follows, Starts, SameOwner
<1>3. CASE ~ (c \in S /\ cs[c].transport = "open")
  BY <1>1, <1>3 DEF Closing, Tame
<1> QED BY <1>2, <1>3

LEMMA MsgsTail ==
    ASSUME NEW q \in Seq(Msg), q # <<>>
    PROVE  Msgs(Tail(q)) \subseteq Msgs(q) /\ Head(q) \in Msgs(q)
<1>1. \A i \in DOMAIN Tail(q) : i + 1 \in DOMAIN q /\ Tail(q)[i] = q[i + 1]
  OBVIOUS
<1>2. 1 \in DOMAIN q /\ Head(q) = q[1]
  OBVIOUS
<1> QED BY <1>1, <1>2 DEF Msgs

LEMMA MsgsAppend ==
    ASSUME NEW q \in Seq(Msg), NEW m \in Msg
    PROVE  Msgs(Append(q, m)) \subseteq Msgs(q) \cup {m}
<1>1. \A i \in DOMAIN Append(q, m) :
         Append(q, m)[i] = m \/ (i \in DOMAIN q /\ Append(q, m)[i] = q[i])
  OBVIOUS
<1> QED BY <1>1 DEF Msgs

LEMMA ReceivingMsgs ==
    ASSUME TypeOK, NEW a \in Agents, NEW type, Receiving(a, type)
    PROVE  /\ \A b \in Agents : Msgs(inbox'[b]) \subseteq Msgs(inbox[b])
           /\ Head(inbox[a]) \in Msgs(inbox[a]) /\ Head(inbox[a]).type = type
<1>1. inbox[a] \in Seq(Msg) /\ inbox[a] # <<>>
  BY DEF TypeOK, Receiving
<1> QED BY <1>1, MsgsTail DEF TypeOK, Receiving

LEMMA SendMsgs ==
    ASSUME TypeOK, NEW to \in Agents, NEW m \in Msg, Send(to, m)
    PROVE  \A b \in Agents : Msgs(inbox'[b]) \subseteq Msgs(inbox[b]) \cup {m}
<1>1. inbox[to] \in Seq(Msg)
  BY DEF TypeOK
<1> QED BY <1>1, MsgsAppend DEF TypeOK, Send

LEMMA FreshStarts ==
    ASSUME NEW c \in Conns, Unused(c), NEW a, NEW p, NEW role
    PROVE  Starts(c, FreshConn(a, p, role))
BY DEF Starts, FreshConn, Hears, Unused

(* An error noted in an object.                                            *)
LEMMA TameErr ==
    ASSUME TypeOK, NEW c \in Conns
    PROVE  /\ Tame([conn EXCEPT ![c].err = TRUE])
           /\ [conn EXCEPT ![c].err = TRUE] \in [Conns -> Conn]
<1> DEFINE r == [conn[c] EXCEPT !.err = TRUE]
<1>1. conn[c] \in Conn
  BY OwnerType
<1>2. r \in Conn /\ Follows(c, r)
  BY <1>1 DEF Conn, Follows, SameOwner, Hears
<1>3. [conn EXCEPT ![c].err = TRUE] = [conn EXCEPT ![c] = r]
  OBVIOUS
<1> HIDE DEF r
<1> QED BY <1>2, <1>3, TameAt DEF TypeOK

(* A description set with SetRemoteDescription.                            *)
LEMMA TameSet ==
    ASSUME TypeOK, NEW c \in Conns, NEW d \in MaybeConn, Remotes(c, d)
    PROVE  /\ Tame([conn EXCEPT ![c].remote = d])
           /\ [conn EXCEPT ![c].remote = d] \in [Conns -> Conn]
<1> DEFINE r == [conn[c] EXCEPT !.remote = d]
<1>1. conn[c] \in Conn
  BY OwnerType
<1>2. r \in Conn /\ Follows(c, r)
  BY <1>1 DEF Conn, Follows, SameOwner, Hears
<1>3. [conn EXCEPT ![c].remote = d] = [conn EXCEPT ![c] = r]
  OBVIOUS
<1> HIDE DEF r
<1> QED BY <1>2, <1>3, TameAt DEF TypeOK

LEMMA ReturnKeys ==
    ASSUME TypeOK, NEW k \in Calls, NEW r, r # "offering", Return(k, r)
    PROVE  \A j \in Calls : call'[j] = call[j] \/ CallOK(j)'
BY DEF TypeOK, Return, CallOK

-----------------------------------------------------------------------------
(* One lemma per operation: Connect.                                       *)
LEMMA ConnectKeys ==
    ASSUME IInv, KeyInv, NEW k \in Calls,
           ConnectCheck(k) \/ ConnectReady(k) \/ ConnectTimeout(k)
    PROVE  KeyInv'
<1>1. TypeOK /\ UNCHANGED <<peers, session, inbox, loop>>
  BY DEF IInv, ConnectCheck, ConnectReady, ConnectTimeout
<1>2. PICK r \in {"err", "ok", "checked", "timeout"} : Return(k, r)
  BY Zenon DEF ConnectCheck, ConnectReady, ConnectTimeout
<1>3. \A j \in Calls : call'[j] = call[j] \/ CallOK(j)'
  BY <1>1, <1>2, ReturnKeys
<1>4. Tame(conn')
  <2>1. CASE UNCHANGED conn
    BY <2>1, TameSelf
  <2>2. CASE cleanupPending(conn, k.agent, k.peer)
    BY <1>1, <2>2, TameSelf, TameClose DEF cleanupPending, TypeOK
  <2> QED BY <2>1, <2>2 DEF ConnectCheck, ConnectReady, ConnectTimeout
<1> QED BY <1>1, <1>3, <1>4, KeysUntouched, KeyStep

LEMMA ConnectLockKeys ==
    ASSUME IInv, KeyInv, NEW k \in Calls, ConnectLock(k) PROVE KeyInv'
<1> DEFINE a == k.agent
           p == k.peer
<1>1. TypeOK /\ UNCHANGED <<peers, session, inbox, loop>>
  BY DEF IInv, ConnectLock
<1>2. CASE UNCHANGED conn /\ call' = [call EXCEPT ![k] = [pc |-> "joined", conn |-> pending[a][p]]]
  <2>1. \A j \in Calls : call'[j] = call[j] \/ CallOK(j)'
    BY <1>1, <1>2 DEF TypeOK, CallOK
  <2> QED BY <1>1, <1>2, <2>1, TameSelf, KeysUntouched, KeyStep
<1>3. CASE UNCHANGED conn /\ Return(k, "err")
  BY <1>1, <1>3, ReturnKeys, TameSelf, KeysUntouched, KeyStep
<1>4. ASSUME NEW c \in Conns, Unused(c), conn' = [conn EXCEPT ![c] = FreshConn(a, p, "offerer")],
             call' = [call EXCEPT ![k] = [pc |-> "offering", conn |-> c]]
      PROVE  KeyInv'
  <2>1. Tame(conn')
    BY <1>1, <1>4, FreshStarts, TameAt
  <2>2. Is(c, "offerer")'
    BY <1>1, <1>4 DEF TypeOK, Is, FreshConn
  <2>3. \A j \in Calls : call'[j] = call[j] \/ CallOK(j)'
    BY <1>1, <1>4, <2>2 DEF TypeOK, CallOK, Is
  <2> QED BY <1>1, <2>1, <2>3, KeysUntouched, KeyStep
<1> QED BY <1>2, <1>3, <1>4 DEF ConnectLock

LEMMA ConnectOfferKeys ==
    ASSUME IInv, KeyInv, NEW k \in Calls, ConnectOffer(k) PROVE KeyInv'
<1> DEFINE a == k.agent
           p == k.peer
           m == [type |-> "offer", from |-> a, conn |-> call[k].conn]
<1>1. TypeOK /\ UNCHANGED <<peers, session, loop>> /\ call[k].pc = "offering"
  BY DEF IInv, ConnectOffer
<1>2. KeysStay
  BY <1>1, KeysUntouched
<1>3. Is(call[k].conn, "offerer")
  BY <1>1 DEF KeyInv, CallKeys, CallOK
<1>4. CASE UNCHANGED conn /\ Send(p, m) /\ Return(k, "waiting")
  <2>1. m \in Msg /\ p \in Agents
    BY <1>3, CallType DEF Msg, MaybeConn, Is
  <2>2. PICK c : c = call[k].conn
    OBVIOUS
  <2>3. m.conn = c /\ m.type = "offer" /\ Is(c, "offerer")'
    BY <1>3, <1>4, <2>2 DEF Is
  <2>4. \A x : x = m => MsgOK(x)'
    BY <2>3 DEF MsgOK, Is
  <2> HIDE DEF m
  <2>5. \A b \in Agents : \A x \in Msgs(inbox'[b]) : x \in Msgs(inbox[b]) \/ MsgOK(x)'
    BY <1>1, <1>4, <2>1, <2>4, SendMsgs
  <2> QED BY <1>1, <1>2, <1>4, <2>5, ReturnKeys, TameSelf, KeyStep
<1>5. CASE cleanupPending(conn, a, p) /\ Return(k, "err") /\ UNCHANGED inbox
  <2>1. Tame(conn')
    BY <1>1, <1>5, TameSelf, TameClose DEF cleanupPending, TypeOK
  <2> QED BY <1>1, <1>2, <1>5, <2>1, ReturnKeys, KeyStep
<1> QED BY <1>4, <1>5 DEF ConnectOffer

-----------------------------------------------------------------------------
(* The signaling loop.                                                     *)
LEMMA LoopMoves ==
    ASSUME TypeOK, NEW a \in Agents, NEW l, loop' = [loop EXCEPT ![a] = l], UNCHANGED session,
           loop[a].pc \notin Deriving
    PROVE  /\ KeysStay
           /\ loop'[a] = l
           /\ \A b \in Agents : b # a => loop'[b] = loop[b]
BY DEF TypeOK, KeysStay, Keyed, KeyedNext

LEMMA LoopDone ==
    ASSUME TypeOK, NEW a \in Agents, Done(a), UNCHANGED session,
           loop[a].pc \notin Deriving
    PROVE  KeysStay /\ \A b \in Agents : loop'[b] = loop[b] \/ LoopOK(b)'
<1>1. KeysStay /\ loop'[a] = IdleLoop /\ \A b \in Agents : b # a => loop'[b] = loop[b]
  BY LoopMoves DEF Done
<1> QED BY <1>1, IdleLoopType DEF LoopOK

LEMMA LoopGoto ==
    ASSUME TypeOK, NEW a \in Agents, NEW pc, NEW c, Goto(a, pc, c), UNCHANGED session,
           loop[a].pc \notin Deriving
    PROVE  /\ KeysStay
           /\ loop'[a].pc = pc /\ loop'[a].conn = c
           /\ loop'[a].peer = loop[a].peer /\ loop'[a].remote = loop[a].remote
           /\ \A b \in Agents : b # a => loop'[b] = loop[b]
<1> DEFINE l == [loop[a] EXCEPT !.pc = pc, !.conn = c]
<1>1. loop[a] \in Loop
  BY DEF TypeOK
<1>2. l.pc = pc /\ l.conn = c /\ l.peer = loop[a].peer /\ l.remote = loop[a].remote
  BY <1>1 DEF Loop
<1>3. loop' = [loop EXCEPT ![a] = l]
  BY DEF Goto
<1> HIDE DEF l
<1> QED BY <1>2, <1>3, LoopMoves

LEMMA OfferCheckKeys == ASSUME IInv, KeyInv, NEW a \in Agents, OfferCheck(a) PROVE KeyInv'
<1>1. PICK m : m = Head(inbox[a])
  OBVIOUS
<1>2. TypeOK /\ Receiving(a, "offer") /\ UNCHANGED <<conn, peers, session, call>> /\ loop[a].pc = "idle"
  BY DEF IInv, OfferCheck, Receiving
<1>3. (\A b \in Agents : Msgs(inbox'[b]) \subseteq Msgs(inbox[b])) /\ m \in Msgs(inbox[a]) /\ m.type = "offer"
  BY <1>1, <1>2, ReceivingMsgs
<1>4. Is(m.conn, "offerer") /\ Is(m.conn, "offerer")'
  BY <1>2, <1>3 DEF KeyInv, MsgKeys, MsgOK, Is
<1>5. CASE UNCHANGED loop
  BY <1>2, <1>3, <1>5, KeysUntouched, TameSelf, KeyStep
<1>6. CASE loop' = [loop EXCEPT ![a] = [pc |-> "offerLock", peer |-> m.from,
                                        remote |-> m.conn, conn |-> None]]
  <2> DEFINE l == [pc |-> "offerLock", peer |-> m.from, remote |-> m.conn, conn |-> None]
  <2>1. l.pc = "offerLock" /\ l.remote = m.conn
    OBVIOUS
  <2> HIDE DEF l
  <2>2. KeysStay /\ loop'[a] = l /\ \A b \in Agents : b # a => loop'[b] = loop[b]
    BY <1>2, <1>6, LoopMoves DEF l, Deriving
  <2>3. LoopOK(a)'
    BY <1>4, <2>1, <2>2 DEF LoopOK, Is
  <2> QED BY <1>2, <1>3, <2>2, <2>3, TameSelf, KeyStep
<1> QED BY <1>1, <1>5, <1>6 DEF OfferCheck

LEMMA OfferLockKeys == ASSUME IInv, KeyInv, NEW a \in Agents, OfferLock(a) PROVE KeyInv'
<1> DEFINE p        == loop[a].peer
           offerers == {d \in Entry(pending, a, p) : conn[d].role = "offerer"}
<1>1. TypeOK /\ loop[a].pc = "offerLock" /\ UNCHANGED <<peers, session, inbox, call>>
  BY DEF IInv, OfferLock
<1>2. CASE Done(a) /\ UNCHANGED conn
  BY <1>1, <1>2, LoopDone, TameSelf, KeyStep DEF Deriving
<1>3. ASSUME NEW c \in Conns, Unused(c),
             CloseAll([conn EXCEPT ![c] = FreshConn(a, p, "answerer")], offerers), Goto(a, "answer", c)
      PROVE  KeyInv'
  <2> DEFINE cs == [conn EXCEPT ![c] = FreshConn(a, p, "answerer")]
  <2>1. cs \in [Conns -> Conn] /\ Tame(cs)
    <3>1. p \in Agents
      BY <1>1 DEF TypeOK, Loop
    <3>2. FreshConn(a, p, "answerer") \in Conn
      BY <3>1, FreshConnType
    <3>3. Starts(c, FreshConn(a, p, "answerer"))
      BY <1>3, FreshStarts
    <3> QED BY <1>1, <3>2, <3>3, TameAt DEF TypeOK
  <2>2. /\ cs[c].transport = "open" /\ cs[c].role = "answerer" /\ cs[c].owner = a /\ cs[c].peer = p
    BY <1>1 DEF TypeOK, FreshConn
  <2> HIDE DEF cs
  <2>3. Tame(conn')
    BY <1>3, <2>1, TameClose DEF cs
  <2>4. conn'[c].transport # "free" /\ conn'[c].role = "answerer" /\ conn'[c].owner = a /\ conn'[c].peer = p
    <3>1. PICK R : conn' = Closing(cs, offerers, R)
      BY <1>3 DEF CloseAll, cs
    <3>2. cs[c] \in Conn
      BY <2>1
    <3> QED BY <2>2, <3>1, <3>2 DEF Closing, Conn
  <2>5. /\ KeysStay /\ loop'[a].pc = "answer" /\ loop'[a].conn = c /\ loop'[a].peer = p
        /\ loop'[a].remote = loop[a].remote /\ \A b \in Agents : b # a => loop'[b] = loop[b]
    BY <1>1, <1>3, LoopGoto DEF Deriving
  <2>6. PICK d : d = loop[a].remote
    OBVIOUS
  <2>7. Is(d, "offerer")'
    <3>1. Is(d, "offerer")
      BY <1>1, <2>6 DEF KeyInv, LoopKeys, LoopOK
    <3> QED BY <2>3, <3>1, IsStays
  <2>8. LoopOK(a)'
    BY <2>4, <2>5, <2>6, <2>7 DEF LoopOK, Is, Owned
  <2> QED BY <1>1, <2>3, <2>5, <2>8, KeyStep
<1> QED BY <1>2, <1>3 DEF OfferLock

LEMMA OfferAnswerKeys == ASSUME IInv, KeyInv, NEW a \in Agents, OfferAnswer(a) PROVE KeyInv'
<1>1. PICK p, c, d : p = loop[a].peer /\ c = loop[a].conn /\ d = loop[a].remote
  OBVIOUS
<1> DEFINE set == [conn EXCEPT ![c].remote = d]
           m   == [type |-> "answer", from |-> a, conn |-> c]
<1>2. TypeOK /\ loop[a].pc = "answer" /\ UNCHANGED <<peers, session, call>>
  BY DEF IInv, OfferAnswer
<1>3. Is(c, "answerer") /\ Owned(c, a, p) /\ Is(d, "offerer")
  BY <1>1, <1>2 DEF KeyInv, LoopKeys, LoopOK
<1>4. c \in Conns /\ d \in Conns /\ p \in Agents /\ Remotes(c, d)
  <2>1. p \in Agents
    BY <1>1, <1>2 DEF TypeOK, Loop
  <2> QED BY <1>3, <2>1 DEF Is, Remotes
<1>5. Tame(set) /\ set \in [Conns -> Conn]
  BY <1>2, <1>4, TameSet DEF MaybeConn
<1>6. CASE conn' = set /\ Send(p, m) /\ Goto(a, "offerSession", c)
  <2>1. /\ KeysStay /\ loop'[a].pc = "offerSession" /\ loop'[a].peer = p
        /\ \A b \in Agents : b # a => loop'[b] = loop[b]
    BY <1>1, <1>2, <1>6, LoopGoto DEF Deriving
  <2>2. LoopOK(a)'
    BY <2>1 DEF LoopOK
  <2>3. Is(c, "answerer")' /\ conn'[c].owner = a /\ conn'[c].peer = p
    BY <1>3, <1>5, <1>6, IsStays DEF Owned
  <2>4. OwnerKeyed(c)'
    BY <2>1, <2>3 DEF OwnerKeyed, Keyed, Deriving
  <2>5. m \in Msg /\ m.type = "answer" /\ m.conn = c
    BY <1>4 DEF Msg, MaybeConn
  <2> HIDE DEF m, set
  <2>6. \A x : x = m => MsgOK(x)'
    BY <2>3, <2>4, <2>5 DEF MsgOK
  <2>7. \A b \in Agents : \A x \in Msgs(inbox'[b]) : x \in Msgs(inbox[b]) \/ MsgOK(x)'
    BY <1>2, <1>4, <1>6, <2>5, <2>6, SendMsgs
  <2> QED BY <1>2, <1>5, <1>6, <2>1, <2>2, <2>7, KeyStep
<1>7. ASSUME NEW cs \in [Conns -> Conn], Tame(cs), cleanupPending(cs, a, p), Done(a), UNCHANGED inbox
      PROVE  KeyInv'
  <2>1. Tame(conn')
    BY <1>7, TameClose DEF cleanupPending
  <2> QED BY <1>2, <1>7, <2>1, LoopDone, KeyStep DEF Deriving
<1> HIDE DEF set
<1>8. conn \in [Conns -> Conn]
  BY <1>2 DEF TypeOK
<1>9. CASE cleanupPending(conn, a, p) /\ Done(a) /\ UNCHANGED inbox
  BY <1>7, <1>8, <1>9, TameSelf
<1>10. CASE cleanupPending(set, a, p) /\ Done(a) /\ UNCHANGED inbox
  BY <1>5, <1>7, <1>10
<1> QED BY <1>1, <1>6, <1>9, <1>10 DEF OfferAnswer, set

(* onSession: the key the loop was about to derive is there.               *)
LEMMA SessionKeys ==
    ASSUME IInv, KeyInv, "session" \notin Faults, NEW a \in Agents, OfferSession(a) \/ AnswerSession(a)
    PROVE  KeyInv'
<1>1. PICK p : p = loop[a].peer
  OBVIOUS
<1>2. TypeOK /\ Done(a) /\ UNCHANGED <<peers, inbox, call>>
  BY DEF IInv, OfferSession, AnswerSession
<1>3. session' = [session EXCEPT ![a] = @ \cup ({p} \ Keyless)] /\ UNCHANGED conn
  BY <1>1 DEF OfferSession, AnswerSession, Fault
<1>4. loop'[a] = IdleLoop /\ \A b \in Agents : b # a => loop'[b] = loop[b]
  BY <1>2 DEF Done, TypeOK
<1>5. session'[a] = session[a] \cup ({p} \ Keyless) /\ \A b \in Agents : b # a => session'[b] = session[b]
  BY <1>2, <1>3 DEF TypeOK
<1>6. KeysStay
  BY <1>1, <1>4, <1>5 DEF KeysStay, Keyed, KeyedNext
<1>7. LoopOK(a)'
  BY <1>4, IdleLoopType DEF LoopOK
<1> QED BY <1>2, <1>3, <1>4, <1>6, <1>7, TameSelf, KeyStep

LEMMA AnswerLookupKeys == ASSUME IInv, KeyInv, NEW a \in Agents, AnswerLookup(a) PROVE KeyInv'
<1>1. PICK m : m = Head(inbox[a])
  OBVIOUS
<1>2. PICK c : c = pending[a][m.from]
  OBVIOUS
<1>3. TypeOK /\ Receiving(a, "answer") /\ UNCHANGED <<conn, peers, session, call>> /\ loop[a].pc = "idle"
  BY DEF IInv, AnswerLookup, Receiving
<1>4. (\A b \in Agents : Msgs(inbox'[b]) \subseteq Msgs(inbox[b])) /\ m \in Msgs(inbox[a]) /\ m.type = "answer"
  BY <1>1, <1>3, ReceivingMsgs
<1>5. CASE UNCHANGED loop
  BY <1>3, <1>4, <1>5, KeysUntouched, TameSelf, KeyStep
<1>6. CASE /\ c # None /\ conn[c].role = "offerer"
           /\ loop' = [loop EXCEPT ![a] = [pc |-> "setRemote", peer |-> m.from,
                                           remote |-> m.conn, conn |-> c]]
  <2> DEFINE l == [pc |-> "setRemote", peer |-> m.from, remote |-> m.conn, conn |-> c]
  <2>1. l.pc = "setRemote" /\ l.peer = m.from /\ l.remote = m.conn /\ l.conn = c
    OBVIOUS
  <2> HIDE DEF l
  <2>2. KeysStay /\ loop'[a] = l /\ \A b \in Agents : b # a => loop'[b] = loop[b]
    BY <1>3, <1>6, LoopMoves DEF l, Deriving
  <2>3. PICK d : d = m.conn
    OBVIOUS
  <2>4. Is(d, "answerer")' /\ OwnerKeyed(d)'
    <3>1. Is(d, "answerer") /\ OwnerKeyed(d)
      BY <1>4, <2>3 DEF KeyInv, MsgKeys, MsgOK
    <3>2. Tame(conn')
      BY <1>3, TameSelf
    <3> QED BY <1>3, <2>2, <3>1, <3>2, IsStays, OwnerKeyedStays
  <2>5. Is(c, "offerer") /\ Owned(c, a, m.from)
    <3>1. m.from \in Agents /\ c \in Conns
      <4>1. m \in Msg
        BY <1>1, <1>3, ReceivingType
      <4>2. m.from \in Agents
        BY <4>1 DEF Msg
      <4> QED BY <1>2, <1>3, <1>6, <4>2 DEF TypeOK, MaybeConn
    <3> QED BY <1>2, <1>6, <3>1 DEF IInv, PendingInv, Is, Owned
  <2>6. Is(c, "offerer")' /\ Owned(c, a, m.from)'
    BY <1>3, <2>5 DEF Is, Owned
  <2>7. LoopOK(a)'
    BY <2>1, <2>2, <2>3, <2>4, <2>6 DEF LoopOK, Is, Owned, OwnerKeyed
  <2> QED BY <1>3, <1>4, <2>2, <2>7, TameSelf, KeyStep
<1> QED BY <1>1, <1>2, <1>5, <1>6 DEF AnswerLookup

LEMMA AnswerSetRemoteKeys ==
    ASSUME IInv, KeyInv, NEW a \in Agents, AnswerSetRemote(a) PROVE KeyInv'
<1>1. PICK p, c, d : p = loop[a].peer /\ c = loop[a].conn /\ d = loop[a].remote
  OBVIOUS
<1> DEFINE set == [conn EXCEPT ![c].remote = d]
           bad == [conn EXCEPT ![c].err = TRUE]
<1>2. TypeOK /\ loop[a].pc = "setRemote" /\ UNCHANGED <<peers, session, inbox, call>>
  BY DEF IInv, AnswerSetRemote
<1>3. Is(c, "offerer") /\ Owned(c, a, p) /\ Is(d, "answerer") /\ OwnerKeyed(d)
  BY <1>1, <1>2 DEF KeyInv, LoopKeys, LoopOK
<1>4. c \in Conns /\ d \in MaybeConn
  BY <1>3 DEF Is, MaybeConn
<1>5. CASE conn' = set /\ Goto(a, "verifyDTLS", c)
  <2>1. /\ KeysStay /\ loop'[a].pc = "verifyDTLS" /\ loop'[a].peer = p
        /\ \A b \in Agents : b # a => loop'[b] = loop[b]
    BY <1>1, <1>2, <1>5, LoopGoto DEF Deriving
  <2>2. LoopOK(a)'
    BY <2>1 DEF LoopOK
  <2>3. Remotes(c, d)
    BY <1>3, <2>1 DEF Remotes, Is, Owned, KeyedNext, Deriving
  <2>4. Tame(conn')
    BY <1>2, <1>4, <1>5, <2>3, TameSet
  <2> QED BY <1>2, <2>1, <2>2, <2>4, KeyStep
<1>6. CASE cleanupPending(bad, a, p) /\ Done(a)
  <2>1. Tame(bad) /\ bad \in [Conns -> Conn]
    BY <1>2, <1>4, TameErr
  <2> HIDE DEF bad
  <2>2. Tame(conn')
    BY <1>6, <2>1, TameClose DEF cleanupPending
  <2> QED BY <1>2, <1>6, <2>2, LoopDone, KeyStep DEF Deriving
<1> QED BY <1>1, <1>5, <1>6 DEF AnswerSetRemote, Fault

(* The loop goes on towards onSession for the same peer.                   *)
LEMMA AnswerVerifyKeys ==
    ASSUME IInv, KeyInv, "dtls" \notin Faults, NEW a \in Agents, AnswerVerify(a) PROVE KeyInv'
<1>1. TypeOK /\ loop[a].pc = "verifyDTLS" /\ UNCHANGED <<conn, peers, session, inbox, call>>
  BY DEF IInv, AnswerVerify, Fault
<1>2. Goto(a, "answerSession", loop[a].conn)
  BY DEF AnswerVerify, Fault
<1> DEFINE l == [loop[a] EXCEPT !.pc = "answerSession", !.conn = loop[a].conn]
<1>3. loop' = [loop EXCEPT ![a] = l] /\ l.pc = "answerSession" /\ l.peer = loop[a].peer
  BY <1>1, <1>2 DEF Goto, TypeOK, Loop
<1> HIDE DEF l
<1>4. loop'[a] = l /\ \A b \in Agents : b # a => loop'[b] = loop[b]
  BY <1>1, <1>3 DEF TypeOK
<1>5. KeysStay
  BY <1>1, <1>3, <1>4 DEF KeysStay, Keyed, KeyedNext, Deriving
<1>6. LoopOK(a)'
  BY <1>3, <1>4 DEF LoopOK
<1> QED BY <1>1, <1>4, <1>5, <1>6, TameSelf, KeyStep

LEMMA SignalingErrorKeys == ASSUME IInv, KeyInv, NEW a \in Agents, SignalingError(a) PROVE KeyInv'
<1> DEFINE failed == {c \in Conns : /\ \E p \in Agents : pending[a][p] = c
                                    /\ conn[c].role = "offerer"}
           cs == [c \in Conns |-> IF c \in failed THEN [conn[c] EXCEPT !.err = TRUE, !.ready = TRUE]
                                                  ELSE conn[c]]
<1>1. TypeOK /\ Receiving(a, "error") /\ UNCHANGED <<peers, session, loop, call>> /\ CloseAll(cs, failed)
  BY DEF IInv, SignalingError
<1>2. ASSUME NEW c \in Conns PROVE cs[c] \in Conn /\ Follows(c, cs[c])
  <2>1. conn[c] \in Conn
    BY <1>1, OwnerType
  <2> DEFINE r == [conn[c] EXCEPT !.err = TRUE, !.ready = TRUE]
  <2>2. r \in Conn /\ Follows(c, r) /\ Follows(c, conn[c])
    BY <2>1 DEF Conn, Follows, SameOwner, Hears
  <2>3. cs[c] = r \/ cs[c] = conn[c]
    OBVIOUS
  <2> HIDE DEF cs, r
  <2> QED BY <2>1, <2>2, <2>3
<1>3. cs \in [Conns -> Conn] /\ Tame(cs)
  <2>1. cs = [c \in Conns |-> cs[c]]
    OBVIOUS
  <2> HIDE DEF cs
  <2> QED BY <1>2, <2>1 DEF Tame
<1> HIDE DEF cs, failed
<1>4. Tame(conn')
  BY <1>1, <1>3, TameClose
<1> QED BY <1>1, <1>4, ReceivingMsgs, KeysUntouched, KeyStep

LEMMA ContactAddedKeys == ASSUME IInv, KeyInv, NEW a \in Agents, ContactAdded(a) PROVE KeyInv'
<1>1. TypeOK /\ Receiving(a, "contact") /\ UNCHANGED <<conn, peers, session, loop, call>>
  BY DEF IInv, ContactAdded
<1> QED BY <1>1, TameSelf, ReceivingMsgs, KeysUntouched, KeyStep

LEMMA LoopExitKeys == ASSUME IInv, KeyInv, NEW a \in Agents, LoopExit(a) PROVE KeyInv'
<1>1. /\ TypeOK /\ loop[a].pc = "idle" /\ UNCHANGED <<conn, peers, session, call>>
      /\ inbox' = [inbox EXCEPT ![a] = <<>>]
  BY DEF IInv, LoopExit
<1> DEFINE l == [loop[a] EXCEPT !.pc = "exit"]
<1>2. loop' = [loop EXCEPT ![a] = l] /\ l.pc = "exit"
  BY <1>1 DEF LoopExit, TypeOK, Loop
<1> HIDE DEF l
<1>3. KeysStay /\ loop'[a] = l /\ \A b \in Agents : b # a => loop'[b] = loop[b]
  BY <1>1, <1>2, LoopMoves DEF Deriving
<1>4. LoopOK(a)'
  BY <1>2, <1>3 DEF LoopOK
<1>5. \A b \in Agents : Msgs(inbox'[b]) \subseteq Msgs(inbox[b])
  BY <1>1 DEF TypeOK, Msgs
<1> QED BY <1>1, <1>3, <1>4, <1>5, TameSelf, KeyStep

-----------------------------------------------------------------------------
(* Handlers, receive loops, ICE and the signaling service.                 *)
LEMMA EndsFollows ==
    ASSUME TypeOK, NEW c \in Conns, NEW h \in {"run", "register", "remove", "done"},
           h = "register" => Hears(conn[c])
    PROVE  Follows(c, Ends(c, h)) /\ Ends(c, h) \in Conn
<1>1. conn[c] \in Conn
  BY OwnerType
<1>2. Ends(c, h).stateCh = <<>> /\ Ends(c, h).handler = h /\ Ends(c, h) \in Conn
  BY <1>1, EndsReworks DEF Ends, Conn, Reworks
<1> QED BY <1>1, <1>2 DEF Follows, SameOwner, Hears, Ends, Conn

LEMMA FailsFollows ==
    ASSUME TypeOK, NEW c \in Conns
    PROVE  Follows(c, Fails(c)) /\ Fails(c) \in Conn
<1>1. conn[c] \in Conn
  BY OwnerType
<1>2. Fails(c).stateCh = <<>> /\ Fails(c).handler = "done" /\ Fails(c) \in Conn
  BY <1>1, FailsReworks DEF Fails, Conn, Reworks
<1> QED BY <1>1, <1>2 DEF Follows, SameOwner, Hears, Fails, Conn

LEMMA HandlerKeys ==
    ASSUME IInv, KeyInv, NEW c \in Conns, HandlerQuit(c) \/ HandlerConnected(c) \/ HandlerGone(c)
    PROVE  KeyInv'
<1>1. TypeOK /\ UNCHANGED <<peers, session, inbox, loop, call>>
  BY DEF IInv, HandlerQuit, HandlerConnected, HandlerGone
<1>2. CASE \E h \in {"remove", "done"} : conn' = [conn EXCEPT ![c] = Ends(c, h)]
  BY <1>1, <1>2, EndsFollows, TameAt, ObjectKeyStep
<1>3. CASE conn' = [conn EXCEPT ![c] = Fails(c)]
  BY <1>1, <1>3, FailsFollows, TameAt, ObjectKeyStep
<1>4. CASE HandlerConnected(c) /\ conn' = [conn EXCEPT ![c] = Ends(c, "register")]
  <2>1. conn[c].stateCh \in Seq(Event) /\ conn[c].stateCh # <<>> /\ Head(conn[c].stateCh) = "connected"
    BY <1>1, <1>4, OwnerType DEF HandlerConnected, Takes, Conn
  <2>2. 1 \in DOMAIN conn[c].stateCh /\ conn[c].stateCh[1] = "connected"
    BY <2>1
  <2>3. Hears(conn[c])
    BY <2>2 DEF Hears
  <2> QED BY <1>1, <1>4, <2>3, EndsFollows, TameAt, ObjectKeyStep
<1> QED BY <1>2, <1>3, <1>4 DEF HandlerQuit, HandlerConnected, HandlerGone

LEMMA HandlerRegisterKeys ==
    ASSUME IInv, KeyInv, NEW c \in Conns, HandlerRegister(c) PROVE KeyInv'
<1> DEFINE r == [conn[c] EXCEPT !.handler = "done", !.recv = "run", !.ready = TRUE]
<1>1. PICK a, p : a = conn[c].owner /\ p = conn[c].peer
  OBVIOUS
<1>2. /\ TypeOK /\ conn[c] \in Conn /\ a \in Agents /\ p \in Agents
      /\ UNCHANGED <<session, inbox, loop, call>>
  BY <1>1, OwnerType DEF IInv, HandlerRegister
<1>3. Keyed(a, p)
  BY <1>1 DEF HandlerRegister, KeyInv, ConnKeys, ConnOK, OwnerKeyed
<1>4. Follows(c, r)
  BY <1>2 DEF Follows, SameOwner, Hears, Conn
<1>5. conn' = [conn EXCEPT ![c] = r]
  BY DEF HandlerRegister
<1> HIDE DEF r
<1>6. Tame(conn')
  BY <1>2, <1>4, <1>5, TameAt
<1>7. \A b, q \in Agents : peers'[b][q] = IF b = a /\ q = p THEN c ELSE peers[b][q]
  BY <1>1, <1>2 DEF HandlerRegister, Put, TypeOK
<1> QED BY <1>2, <1>3, <1>6, <1>7, ObjectKeyStep

LEMMA HandlerFailedKeys ==
    ASSUME IInv, KeyInv, NEW c \in Conns, HandlerFailed(c) PROVE KeyInv'
<1> DEFINE r == IF StillPending(c) THEN Fails(c) ELSE Ends(c, "done")
<1>1. TypeOK /\ UNCHANGED <<peers, session, inbox, loop, call>> /\ CloseAll([conn EXCEPT ![c] = r], {c})
  BY DEF IInv, HandlerFailed
<1>2. r \in Conn /\ Follows(c, r)
  BY <1>1, FailsFollows, EndsFollows
<1> HIDE DEF r
<1> DEFINE cs == [conn EXCEPT ![c] = r]
<1>3. cs \in [Conns -> Conn] /\ Tame(cs)
  BY <1>1, <1>2, TameAt DEF TypeOK
<1> HIDE DEF cs
<1>4. Tame(conn')
  BY <1>1, <1>3, TameClose DEF cs
<1> QED BY <1>1, <1>4, ObjectKeyStep

(* RemovePeer after a change of the object's goroutines.                   *)
LEMMA RemoveKeys ==
    ASSUME TypeOK, KeyInv, NEW c \in Conns, NEW r \in Conn, Follows(c, r),
           NEW a \in Agents, NEW p \in Agents, RemovePeer([conn EXCEPT ![c] = r], a, p),
           UNCHANGED <<session, inbox, loop, call>>
    PROVE  KeyInv'
<1> DEFINE cs == [conn EXCEPT ![c] = r]
<1>1. cs \in [Conns -> Conn] /\ Tame(cs)
  BY TameAt DEF TypeOK
<1>2. peers' = Put(peers, a, p, None) /\ CloseAll(cs, Entry(peers, a, p))
  BY DEF RemovePeer
<1> HIDE DEF cs
<1>3. Tame(conn')
  BY <1>1, <1>2, TameClose
<1>4. \A b, q \in Agents : peers'[b][q] \in {None, peers[b][q]}
  BY <1>2, PutNonePeers
<1> QED BY <1>3, <1>4, ObjectKeyStep

LEMMA HandlerRemoveKeys ==
    ASSUME IInv, KeyInv, NEW c \in Conns, HandlerRemove(c) PROVE KeyInv'
<1> DEFINE r == [conn[c] EXCEPT !.handler = "done"]
<1>1. TypeOK /\ conn[c] \in Conn /\ conn[c].owner \in Agents /\ conn[c].peer \in Agents
  BY OwnerType DEF IInv
<1>2. r \in Conn /\ Follows(c, r)
  BY <1>1 DEF Follows, SameOwner, Hears, Conn
<1>3. /\ RemovePeer([conn EXCEPT ![c] = r], conn[c].owner, conn[c].peer)
      /\ UNCHANGED <<session, inbox, loop, call>>
  BY DEF HandlerRemove
<1> HIDE DEF r
<1> QED BY <1>1, <1>2, <1>3, RemoveKeys

LEMMA ReceiveKeys ==
    ASSUME IInv, KeyInv, NEW c \in Conns, ReceiveQuit(c) \/ ReceiveClosed(c) PROVE KeyInv'
<1> DEFINE r == [conn[c] EXCEPT !.recv = "done"]
<1>1. TypeOK /\ conn[c] \in Conn /\ conn[c].owner \in Agents /\ conn[c].peer \in Agents
  BY OwnerType DEF IInv
<1>2. r \in Conn /\ Follows(c, r)
  BY <1>1 DEF Follows, SameOwner, Hears, Conn
<1>3. UNCHANGED <<session, inbox, loop, call>>
  BY DEF ReceiveQuit, ReceiveClosed
<1>4. CASE ReceiveQuit(c)
  <2>1. conn' = [conn EXCEPT ![c] = r] /\ UNCHANGED peers
    BY <1>4 DEF ReceiveQuit
  <2> HIDE DEF r
  <2> QED BY <1>1, <1>2, <1>3, <2>1, TameAt, ObjectKeyStep
<1>5. CASE ReceiveClosed(c)
  <2>1. RemovePeer([conn EXCEPT ![c] = r], conn[c].owner, conn[c].peer)
    BY <1>5 DEF ReceiveClosed
  <2> HIDE DEF r
  <2> QED BY <1>1, <1>2, <1>3, <2>1, RemoveKeys
<1> QED BY <1>4, <1>5

LEMMA StopKeys ==
    ASSUME IInv, KeyInv, NEW a \in Agents, StopFinish(a) \/ Cancel(a) PROVE KeyInv'
<1>1. TypeOK /\ UNCHANGED <<session, loop, call>>
  BY DEF IInv, StopFinish, Cancel
<1>2. CASE StopFinish(a)
  <2>1. Tame(conn')
    BY <1>1, <1>2, TameSelf, TameClose DEF StopFinish, TypeOK
  <2>2. UNCHANGED inbox /\ \A b, q \in Agents : peers'[b][q] \in {None, peers[b][q]}
    BY <1>1, <1>2 DEF StopFinish, TypeOK
  <2> QED BY <1>1, <2>1, <2>2, ObjectKeyStep
<1>3. CASE Cancel(a)
  BY <1>1, <1>3, TameSelf, ObjectKeyStep DEF Cancel
<1> QED BY <1>2, <1>3

(* ICE connects only transports that hold each other's descriptions; one   *)
(* of the two is an offerer with an answer, so both sides are keyed.       *)
LEMMA MatchedKeyed ==
    ASSUME TypeOK, ConnKeys, NEW c \in Conns, Matched(c) PROVE OwnerKeyed(c)
<1>1. PICK d : d = conn[c].remote
  OBVIOUS
<1>2. d \in Conns /\ conn[d].remote = c /\ d # None /\ c # None
  BY <1>1, NoneNotConn DEF Matched, TypeOK, Conn, MaybeConn
<1>3. conn[c].role \in {"offerer", "answerer"}
  BY DEF TypeOK, Conn
<1>4. CASE conn[c].role = "offerer"
  BY <1>1, <1>2, <1>4 DEF ConnKeys, ConnOK
<1>5. CASE conn[c].role = "answerer"
  <2>1. conn[d].role = "offerer"
    BY <1>1, <1>2, <1>5 DEF ConnKeys, ConnOK, Is
  <2> QED BY <1>2, <2>1 DEF ConnKeys, ConnOK
<1> QED BY <1>3, <1>4, <1>5

LEMMA IceKeys ==
    ASSUME IInv, KeyInv, NEW c \in Conns, IceUp(c) \/ IceFail(c) \/ IceLost(c) PROVE KeyInv'
<1>1. PICK state \in {"connected", "disconnected", "failed"} :
         IceStep(c, state) /\ (state = "connected" => Matched(c))
  BY DEF IceUp, IceFail, IceLost
<1> DEFINE ch == IF conn[c].handler = "run" THEN Append(conn[c].stateCh, state) ELSE conn[c].stateCh
           r  == [conn[c] EXCEPT !.stateCh = ch, !.ice = state]
<1>2. TypeOK /\ conn[c] \in Conn /\ conn[c].stateCh \in Seq(Event) /\ state \in Event
  BY OwnerType DEF IInv, Conn, Event
<1>3. conn' = [conn EXCEPT ![c] = r] /\ UNCHANGED <<peers, session, inbox, loop, call>>
  BY <1>1 DEF IceStep
<1>4. /\ r.transport = conn[c].transport /\ r.role = conn[c].role /\ r.owner = conn[c].owner
      /\ r.peer = conn[c].peer /\ r.remote = conn[c].remote /\ r.handler = conn[c].handler
      /\ r.stateCh = ch
  BY <1>2 DEF Conn
<1> HIDE DEF r
<1>5. Hears(r) => Hears(conn[c]) \/ OwnerKeyed(c)
  <2>1. CASE state = "connected"
    BY <1>1, <1>2, <2>1, MatchedKeyed DEF KeyInv
  <2>2. CASE conn[c].handler # "run"
    BY <1>4, <2>2 DEF Hears
  <2>3. CASE state # "connected" /\ conn[c].handler = "run"
    BY <1>2, <1>4, <2>3, HearsAppend
  <2> QED BY <2>1, <2>2, <2>3
<1>6. Follows(c, r)
  BY <1>4, <1>5 DEF Follows, SameOwner
<1> QED BY <1>2, <1>3, <1>6, TameAt, ObjectKeyStep

LEMMA MessageKeys ==
    ASSUME IInv, KeyInv, NEW a \in Agents, Lose(a) \/ Reject(a) \/ \E p \in Agents : NewContact(a, p)
    PROVE  KeyInv'
<1>1. TypeOK /\ UNCHANGED <<conn, peers, session, loop, call>>
  BY DEF IInv, Lose, Reject, NewContact
<1>2. inbox[a] \in Seq(Msg)
  BY <1>1 DEF TypeOK
<1>3. SUFFICES \A b \in Agents : \A m \in Msgs(inbox'[b]) : m \in Msgs(inbox[b]) \/ MsgOK(m)'
  BY <1>1, TameSelf, KeysUntouched, KeyStep
<1>4. CASE Lose(a)
  BY <1>1, <1>2, <1>4, MsgsTail DEF Lose, TypeOK
<1>5. CASE Reject(a)
  <2> DEFINE e == [type |-> "error", from |-> a, conn |-> None]
             i == [inbox EXCEPT ![a] = Tail(@)]
  <2>1. PICK b : b = Head(inbox[a]).from
    OBVIOUS
  <2>2. inbox[a] # <<>> /\ inbox' = [i EXCEPT ![b] = Append(@, e)]
    BY <1>5, <2>1 DEF Reject
  <2>3. b \in Agents /\ Tail(inbox[a]) \in Seq(Msg)
    <3>1. Head(inbox[a]) \in Msg /\ Tail(inbox[a]) \in Seq(Msg)
      BY <1>2, <2>2
    <3> QED BY <2>1, <3>1 DEF Msg
  <2>4. e \in Msg /\ \A m : m = e => MsgOK(m)'
    BY DEF MsgOK, Msg, MaybeConn
  <2>5. i \in [Agents -> Seq(Msg)] /\ \A x \in Agents : Msgs(i[x]) \subseteq Msgs(inbox[x])
    BY <1>1, <1>2, <2>2, <2>3, MsgsTail DEF TypeOK
  <2> HIDE DEF e, i
  <2>6. Msgs(Append(i[b], e)) \subseteq Msgs(i[b]) \cup {e}
    BY <2>3, <2>4, <2>5, MsgsAppend
  <2>7. \A x \in Agents : inbox'[x] = IF x = b THEN Append(i[b], e) ELSE i[x]
    BY <2>2, <2>3, <2>5
  <2>8. \A x \in Agents : Msgs(inbox'[x]) \subseteq Msgs(inbox[x]) \cup {e}
    BY <2>5, <2>6, <2>7
  <2> QED BY <2>4, <2>8
<1>6. ASSUME NEW p \in Agents, NewContact(a, p)
      PROVE  \A b \in Agents : \A m \in Msgs(inbox'[b]) : m \in Msgs(inbox[b]) \/ MsgOK(m)'
  <2> DEFINE e == [type |-> "contact", from |-> p, conn |-> None]
  <2>1. e \in Msg /\ \A m : m = e => MsgOK(m)'
    BY DEF MsgOK, Msg, MaybeConn
  <2>2. Send(a, e)
    BY <1>6 DEF NewContact
  <2> HIDE DEF e
  <2> QED BY <1>1, <2>1, <2>2, SendMsgs
<1> QED BY <1>4, <1>5, <1>6

-----------------------------------------------------------------------------
LEMMA InitKeys == Init => KeyInv
<1> SUFFICES ASSUME Init PROVE KeyInv
  OBVIOUS
<1>1. MsgKeys
  BY DEF Init, MsgKeys, Msgs
<1>2. LoopKeys /\ PeerKeys /\ CallKeys
  BY IdleLoopType DEF Init, LoopKeys, LoopOK, PeerKeys, CallKeys, CallOK
<1>3. ConnKeys
  <2> SUFFICES ASSUME NEW c \in Conns PROVE ConnOK(c)
    BY DEF ConnKeys
  <2>1. conn[c].remote = None /\ conn[c].stateCh = <<>> /\ conn[c].handler = "done"
    BY DEF Init, FreshConn
  <2>2. ~ Hears(conn[c])
    BY <2>1 DEF Hears
  <2> QED BY <2>1, <2>2 DEF ConnOK
<1> QED BY <1>1, <1>2, <1>3 DEF KeyInv

LEMMA NextKeys ==
    ASSUME "session" \notin Faults, "dtls" \notin Faults
    PROVE  IInv /\ KeyInv /\ [Next]_vars => KeyInv'
<1> SUFFICES ASSUME IInv, KeyInv, [Next]_vars PROVE KeyInv'
  OBVIOUS
<1>1. ASSUME NEW k \in Calls, ConnectCheck(k) \/ ConnectStep(k) PROVE KeyInv'
  BY <1>1, ConnectKeys, ConnectLockKeys, ConnectOfferKeys DEF ConnectStep
<1>2. ASSUME NEW a \in Agents, LoopStep(a) PROVE KeyInv'
  BY <1>2, OfferCheckKeys, OfferLockKeys, OfferAnswerKeys, SessionKeys, AnswerLookupKeys,
     AnswerSetRemoteKeys, AnswerVerifyKeys, SignalingErrorKeys, ContactAddedKeys, LoopExitKeys
     DEF LoopStep
<1>3. ASSUME NEW c \in Conns, HandlerStep(c) PROVE KeyInv'
  BY <1>3, HandlerKeys, HandlerRegisterKeys, HandlerFailedKeys, HandlerRemoveKeys DEF HandlerStep
<1>4. ASSUME NEW c \in Conns, ReceiveStep(c) \/ IceOutcome(c) \/ IceLost(c) PROVE KeyInv'
  BY <1>4, ReceiveKeys, IceKeys DEF ReceiveStep, IceOutcome
<1>5. ASSUME NEW a \in Agents, StopFinish(a) \/ Cancel(a) PROVE KeyInv'
  BY <1>5, StopKeys
<1>6. ASSUME NEW a \in Agents, Lose(a) \/ Reject(a) \/ \E p \in Agents : NewContact(a, p)
      PROVE  KeyInv'
  BY <1>6, MessageKeys
<1>7. CASE UNCHANGED vars
  BY <1>7, TameSelf, ObjectKeyStep DEF vars, IInv
<1>8. ASSUME NEW a \in Agents, NEW p \in Agents, Revoke(a, p) PROVE KeyInv'
  BY <1>8, TameSelf, ObjectKeyStep DEF Revoke, IInv
<1> QED BY <1>1, <1>2, <1>3, <1>4, <1>5, <1>6, <1>7, <1>8 DEF Next, System, Environment

(* Where neither onSession nor the fingerprint check of an answer fails, a *)
(* registered peer that sends a key has its session key once the loop is   *)
(* between two messages, whatever else fails, is lost, times out or is stopped: ICE    *)
(* may register the peer before onSession has run, but only while the loop *)
(* is about to run it.                                                     *)
THEOREM RegisteredAreKeyed ==
    ASSUME "session" \notin Faults, "dtls" \notin Faults
    PROVE  Spec => []RegisteredHasSession
<1>1. IInv /\ KeyInv /\ [Next]_vars => KeyInv'
  BY NextKeys
<1>2. KeyInv => RegisteredHasSession
  BY DEF KeyInv, PeerKeys, Keyed, Deriving, RegisteredHasSession
<1> QED BY <1>1, <1>2, InitKeys, Inductive, PTL DEF Spec
===============================================================================
