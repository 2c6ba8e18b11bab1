-------------------------- MODULE FileTransferProofs --------------------------
(***************************************************************************)
(* Proofs about FileTransfer for any number of chunks, any acknowledgment  *)
(* interval and any faults: types, that done means the whole file, that no *)
(* data flows before authentication, and that acknowledgments tell the     *)
(* truth.                                                                  *)
(***************************************************************************)
EXTENDS FileTransfer, TLAPS

(* What a message says is so, given the last chunk taken in and the file. *)
GoodMsg(m, c, f) ==
    /\ m.type = "ack" => m.seq <= c
    /\ m.type = "complete" /\ m.ok = TRUE => f = Whole

(* A goroutine goes on to do only what its function has checked before. *)
GoodOp(s, r, op, c, f, v, p) ==
    /\ GoodMsg(op.msg, c, f)
    /\ op.to # "offered"
    /\ op.to = "done" => f = Whole
    /\ op.to = "transferring" /\ s = "recv" => v["recv"] = TRUE
    /\ op.do = "start" => s = "send" /\ r = "handler" /\ v["send"] = TRUE
    /\ op.do = "close" => p # "none"

MsgNow(m) == GoodMsg(m, confirmed["recv"], file)
MsgNext(m) == GoodMsg(m, confirmed'["recv"], file')
OpNow(s, r, op) == GoodOp(s, r, op, confirmed["recv"], file, verified, chan.phase)
OpNext(s, r, op) == GoodOp(s, r, op, confirmed'["recv"], file', verified', chan'.phase)

TodoOK == \A s \in Side, r \in Role : \A i \in 1 .. Len(todo[s][r]) : OpNow(s, r, todo[s][r][i])
CtlOK == \A s \in Side : \A i \in 1 .. Len(ctl[s]) : MsgNow(ctl[s][i])

(* What is left of handleFileAccept when it is going to call startSender. *)
HasStart(q) == \E i \in 1 .. Len(q) : q[i].do = "start"

AcceptShape(q) ==
    /\ Len(q) \in 1 .. 4
    /\ \A i \in 1 .. Len(q) :
        /\ q[i].do = "start" <=> i = Len(q)
        /\ i = Len(q) - 1 => q[i].do = "send"
        /\ i = Len(q) - 2 => q[i].do \in {"must", "set"}
        /\ i = Len(q) - 3 => q[i].do \in {"must", "set"} /\ q[i].to = "accepted"

Accepting == todo["send"]["handler"]

(* The transition to accepted was checked, so that it will start. *)
Committed(q) == HasStart(q) /\ ~(Len(q) = 4 /\ q[1].do = "must")

(* The data channel is made once: the state is never again offered. *)
StartOnce ==
    /\ HasStart(Accepting) => AcceptShape(Accepting)
    /\ Committed(Accepting) => chan.phase = "none"
    /\ (Committed(Accepting) /\ Len(Accepting) < 4) \/ chan.phase # "none" =>
           state["send"] \notin {"none", "offered"}

(* The workers and what they have produced. *)
WorkOK ==
    /\ state["recv"] = "transferring" => verified["recv"] = TRUE
    /\ worker["send"] # "none" => verified["send"] = TRUE /\ chan.phase # "none"
    /\ worker["recv"] # "none" => verified["recv"] = TRUE /\ chan.phase \notin {"none", "created"}
    /\ sent > 0 => worker["send"] # "none"
    /\ file # <<>> => worker["recv"] \notin {"none", "found", "made"} /\ confirmed["recv"] = file[Len(file)]

(* Chunks arrive in the order of their numbers, each once. *)
FramesOK ==
    /\ \A i \in 1 .. Len(chan.frames) :
           chan.frames[i] # Fin => confirmed["recv"] < chan.frames[i] /\ chan.frames[i] <= sent
    /\ \A i, j \in 1 .. Len(chan.frames) :
           i < j /\ chan.frames[i] # Fin /\ chan.frames[j] # Fin => chan.frames[i] < chan.frames[j]

Inv == TodoOK /\ CtlOK /\ StartOnce /\ WorkOK /\ FramesOK /\ AckedReceived /\ DoneMeansWhole
IInv == TypeOK /\ Inv

(* Facts that, once true, stay so. *)
Grows ==
    /\ confirmed' \in [Side -> 0 .. Chunks]
    /\ confirmed["recv"] <= confirmed'["recv"]
    /\ file = Whole => file' = Whole
    /\ verified["send"] = TRUE => verified'["send"] = TRUE
    /\ verified["recv"] = TRUE => verified'["recv"] = TRUE
    /\ chan.phase # "none" => chan'.phase # "none"

TodoType == [Side -> [Role -> Seq(Op)]]

-----------------------------------------------------------------------------
LEMMA AppendFacts ==
    ASSUME NEW S, NEW f \in Seq(S), NEW x \in S
    PROVE  /\ Append(f, x) \in Seq(S) /\ Len(f) \in Nat
           /\ Len(Append(f, x)) = Len(f) + 1 /\ Append(f, x)[Len(f) + 1] = x
           /\ \A i \in 1 .. Len(f) : Append(f, x)[i] = f[i] /\ f[i] \in S
OBVIOUS

LEMMA TailFacts ==
    ASSUME NEW S, NEW f \in Seq(S), f # <<>>
    PROVE  /\ Len(f) \in Nat \ {0} /\ 1 \in 1 .. Len(f) /\ Head(f) = f[1] /\ Head(f) \in S
           /\ Tail(f) \in Seq(S) /\ Len(Tail(f)) = Len(f) - 1
           /\ \A i \in 1 .. Len(Tail(f)) : Tail(f)[i] = f[i + 1] /\ i + 1 \in 1 .. Len(f)
OBVIOUS

LEMMA StateElements ==
    State = {"idle", "offered", "accepted", "transferring", "completing", "done", "failed", "cancelled"}
BY DEF State, validTransitions

LEMMA OpTypes ==
    /\ NoMsg \in Msg
    /\ \A to \in State : Try(to) \in Op /\ Must(to) \in Op
    /\ \A m \in Msg : SendOp(m) \in Op
    /\ \A do \in {"start", "fire", "stop", "close"} : Call(do) \in Op
<1>1. NoMsg \in Msg
    BY DEF NoMsg, Message, Msg
<1> QED BY <1>1, StateElements DEF Op, Try, Must, SendOp, Call

LEMMA MessageTypes ==
    ASSUME NEW type \in {"offer", "accept", "reject", "ready", "complete", "ack"},
           NEW ok \in BOOLEAN, NEW seq \in Nat
    PROVE  Message(type, ok, seq) \in Msg
BY DEF Message, Msg

LEMMA TodoSeq ==
    ASSUME TypeOK
    PROVE  \A s \in Side, r \in Role : todo[s][r] \in Seq(Op)
BY DEF TypeOK

LEMMA MsgStays ==
    ASSUME NEW m \in Msg, TypeOK, Grows, MsgNow(m)
    PROVE  MsgNext(m)
<1>1. confirmed["recv"] \in Nat /\ confirmed'["recv"] \in Nat
    BY ConstantsAssumption DEF TypeOK, Grows, Side
<1>2. m.seq \in Nat
    BY DEF Msg
<1> QED BY <1>1, <1>2 DEF MsgNow, MsgNext, GoodMsg, Grows

LEMMA OpStays ==
    ASSUME NEW s \in Side, NEW r \in Role, NEW op \in Op, TypeOK, Grows, OpNow(s, r, op)
    PROVE  OpNext(s, r, op)
<1>1. op.msg \in Msg
    BY DEF Op
<1>2. MsgNext(op.msg)
    BY <1>1, MsgStays DEF OpNow, GoodOp, MsgNow
<1> QED BY <1>2 DEF OpNow, OpNext, GoodOp, MsgNext, Grows

(* A step that gives a goroutine a new list of operations. *)
LEMMA PlanType ==
    ASSUME TypeOK, NEW s \in Side, NEW r \in Role, NEW ops \in Seq(Op), Plan(s, r, ops)
    PROVE  /\ todo' \in TodoType
           /\ todo'[s][r] = ops
           /\ \A t \in Side, q \in Role : <<t, q>> # <<s, r>> => todo'[t][q] = todo[t][q]
BY DEF TypeOK, Plan, TodoType

LEMMA PlanOK ==
    ASSUME TypeOK, TodoOK, Grows, NEW s \in Side, NEW r \in Role, NEW ops \in Seq(Op),
           Plan(s, r, ops), \A i \in 1 .. Len(ops) : OpNext(s, r, ops[i])
    PROVE  TodoOK'
<1> SUFFICES ASSUME NEW t \in Side, NEW q \in Role, NEW i \in 1 .. Len(todo'[t][q])
             PROVE  OpNext(t, q, todo'[t][q][i])
    BY DEF TodoOK, OpNow, OpNext
<1>1. CASE <<t, q>> = <<s, r>>
    BY <1>1, PlanType
<1>2. CASE <<t, q>> # <<s, r>>
    <2>1. todo'[t][q] = todo[t][q] /\ todo[t][q] \in Seq(Op)
        BY <1>2, PlanType, TodoSeq
    <2>2. OpNow(t, q, todo[t][q][i]) /\ todo[t][q][i] \in Op
        BY <2>1 DEF TodoOK
    <2> QED BY <2>1, <2>2, OpStays
<1> QED BY <1>1, <1>2

LEMMA TodoFrame ==
    ASSUME TypeOK, TodoOK, Grows, UNCHANGED todo
    PROVE  TodoOK'
<1> SUFFICES ASSUME NEW t \in Side, NEW q \in Role, NEW i \in 1 .. Len(todo[t][q])
             PROVE  OpNext(t, q, todo[t][q][i])
    BY DEF TodoOK, OpNow, OpNext
<1>1. OpNow(t, q, todo[t][q][i]) /\ todo[t][q][i] \in Op
    BY TodoSeq DEF TodoOK
<1> QED BY <1>1, OpStays

(* A step that performs the first operation of a list. *)
LEMMA RestProperties ==
    ASSUME TypeOK, NEW s \in Side, NEW r \in Role, ~Idle(s, r)
    PROVE  /\ todo[s][r] \in Seq(Op) /\ Len(todo[s][r]) \in Nat \ {0}
           /\ Head(todo[s][r]) = todo[s][r][1] /\ todo[s][r][1] \in Op
           /\ Rest(s, r) \in Seq(Op) /\ Len(Rest(s, r)) = Len(todo[s][r]) - 1
           /\ \A i \in 1 .. Len(Rest(s, r)) : Rest(s, r)[i] = todo[s][r][i + 1]
<1>1. todo[s][r] \in Seq(Op)
    BY TodoSeq
<1> QED BY <1>1 DEF Idle, Rest

LEMMA FirstGood ==
    ASSUME TypeOK, TodoOK, NEW s \in Side, NEW r \in Role, ~Idle(s, r)
    PROVE  /\ Head(todo[s][r]) \in Op
           /\ OpNow(s, r, Head(todo[s][r]))
<1>1. 1 \in 1 .. Len(todo[s][r])
    BY RestProperties
<1> QED BY <1>1, RestProperties DEF TodoOK

LEMMA RestGood ==
    ASSUME TypeOK, TodoOK, Grows, NEW s \in Side, NEW r \in Role, ~Idle(s, r)
    PROVE  \A i \in 1 .. Len(Rest(s, r)) : OpNext(s, r, Rest(s, r)[i])
<1> SUFFICES ASSUME NEW i \in 1 .. Len(Rest(s, r))
             PROVE  OpNext(s, r, Rest(s, r)[i])
    OBVIOUS
<1> DEFINE op == todo[s][r][i + 1]
<1>1. Rest(s, r)[i] = op /\ i + 1 \in 1 .. Len(todo[s][r]) /\ op \in Op
    BY RestProperties
<1>2. OpNow(s, r, op)
    BY <1>1 DEF TodoOK
<1> HIDE DEF op
<1> QED BY <1>1, <1>2, OpStays

LEMMA RestOK ==
    ASSUME TypeOK, TodoOK, Grows, NEW s \in Side, NEW r \in Role, ~Idle(s, r), Plan(s, r, Rest(s, r))
    PROVE  TodoOK' /\ todo' \in TodoType
BY RestProperties, RestGood, PlanOK, PlanType

(* Control messages: kept, delivered, taken. *)
LEMMA CtlFrame ==
    ASSUME TypeOK, CtlOK, Grows, UNCHANGED ctl
    PROVE  CtlOK'
<1> SUFFICES ASSUME NEW s \in Side, NEW i \in 1 .. Len(ctl[s])
             PROVE  MsgNext(ctl[s][i])
    BY DEF CtlOK, MsgNow, MsgNext
<1>1. ctl[s] \in Seq(Msg)
    BY DEF TypeOK
<1>2. MsgNow(ctl[s][i]) /\ ctl[s][i] \in Msg
    BY <1>1 DEF CtlOK
<1> QED BY <1>2, MsgStays

CtlType == [Side -> Seq(Msg)]

LEMMA CtlDeliver ==
    ASSUME TypeOK, CtlOK, Grows, NEW s \in Side, NEW m \in Msg, MsgNext(m), Deliver(s, m)
    PROVE  CtlOK' /\ ctl' \in CtlType
<1>1. ctl \in CtlType
    BY DEF TypeOK, CtlType
<1>2. ctl' \in CtlType
    BY <1>1 DEF Deliver, CtlType
<1>3. SUFFICES ASSUME NEW t \in Side, NEW i \in 1 .. Len(ctl'[t])
               PROVE  MsgNext(ctl'[t][i])
    BY <1>2 DEF CtlOK, MsgNow, MsgNext
<1>4. ctl[t] \in Seq(Msg) /\ ctl'[t] = IF t = s THEN Append(ctl[t], m) ELSE ctl[t]
    BY <1>1 DEF Deliver, CtlType
<1>5. CASE t = s /\ i = Len(ctl[t]) + 1
    BY <1>4, <1>5
<1>6. CASE i \in 1 .. Len(ctl[t])
    <2>1. MsgNow(ctl[t][i]) /\ ctl[t][i] \in Msg /\ ctl'[t][i] = ctl[t][i]
        BY <1>4, <1>6 DEF CtlOK
    <2> QED BY <2>1, MsgStays
<1>7. (t = s /\ i = Len(ctl[t]) + 1) \/ i \in 1 .. Len(ctl[t])
    BY <1>3, <1>4
<1> QED BY <1>5, <1>6, <1>7

LEMMA Received ==
    ASSUME TypeOK, CtlOK, NEW s \in Side, NEW type, Receiving(s, type)
    PROVE  /\ Head(ctl[s]) \in Msg /\ MsgNow(Head(ctl[s])) /\ Head(ctl[s]).type = type
           /\ ctl' \in CtlType
           /\ Grows => CtlOK'
<1>1. ctl \in CtlType /\ ctl[s] \in Seq(Msg) /\ ctl[s] # <<>>
    BY DEF TypeOK, CtlType, Receiving
<1>2. Head(ctl[s]) = ctl[s][1] /\ 1 \in 1 .. Len(ctl[s]) /\ Head(ctl[s]) \in Msg
    BY <1>1
<1>3. MsgNow(Head(ctl[s]))
    BY <1>2 DEF CtlOK
<1>4. ctl' \in CtlType
    BY <1>1 DEF Receiving, CtlType
<1>5. ASSUME Grows
      PROVE  CtlOK'
    <2>1. SUFFICES ASSUME NEW t \in Side, NEW i \in 1 .. Len(ctl'[t])
                   PROVE  MsgNext(ctl'[t][i])
        BY DEF CtlOK, MsgNow, MsgNext
    <2>2. ctl[t] \in Seq(Msg) /\ ctl'[t] = IF t = s THEN Tail(ctl[t]) ELSE ctl[t]
        BY <1>1 DEF Receiving, CtlType
    <2>3. PICK j \in 1 .. Len(ctl[t]) : ctl'[t][i] = ctl[t][j]
        <3>1. CASE t = s
            <4>1. i + 1 \in 1 .. Len(ctl[t]) /\ ctl'[t][i] = ctl[t][i + 1]
                BY <1>1, <2>1, <2>2, <3>1
            <4> QED BY <4>1
        <3>2. CASE t # s
            BY <2>1, <2>2, <3>2
        <3> QED BY <3>1, <3>2
    <2>4. MsgNow(ctl[t][j]) /\ ctl[t][j] \in Msg
        BY <2>2 DEF CtlOK
    <2> QED BY <1>5, <2>3, <2>4, MsgStays
<1>6. Head(ctl[s]).type = type
    BY DEF Receiving
<1> QED BY <1>2, <1>3, <1>4, <1>5, <1>6

-----------------------------------------------------------------------------
(* A step that moves no chunk and starts no worker. *)
Calm ==
    /\ UNCHANGED <<file, confirmed, sent, worker>>
    /\ chan' = chan \/ (chan' = Closed /\ chan.phase # "none")
    /\ verified' \in [Side -> BOOLEAN]
    /\ \A s \in Side : verified[s] = TRUE => verified'[s] = TRUE
    /\ state'["recv"] = "transferring" => verified'["recv"] = TRUE
    /\ \A s \in Side : state'[s] = "done" => file = Whole

LEMMA CalmGrows ==
    ASSUME TypeOK, Calm
    PROVE  Grows
<1>1. confirmed \in [Side -> 0 .. Chunks] /\ confirmed["recv"] \in Nat
    BY ConstantsAssumption DEF TypeOK, Side
<1>2. chan.phase # "none" => chan'.phase # "none"
    BY DEF Calm, Closed
<1> QED BY <1>1, <1>2 DEF Calm, Grows, Side

LEMMA CalmKeeps ==
    ASSUME TypeOK, Inv, Calm
    PROVE  WorkOK' /\ FramesOK' /\ AckedReceived' /\ DoneMeansWhole'
<1>1. WorkOK'
    <2>1. chan.phase # "none" => chan'.phase # "none"
        BY DEF Calm, Closed
    <2>2. chan.phase \notin {"none", "created"} => chan'.phase \notin {"none", "created"}
        BY DEF Calm, Closed
    <2>3. worker' = worker /\ sent' = sent /\ file' = file /\ confirmed' = confirmed
        BY DEF Calm
    <2> QED BY <2>1, <2>2, <2>3 DEF Calm, WorkOK, Inv, Side
<1>2. FramesOK'
    <2>1. CASE chan' = chan
        BY <2>1 DEF Calm, FramesOK, Inv
    <2>2. CASE chan' = Closed
        BY <2>2 DEF Closed, FramesOK
    <2> QED BY <2>1, <2>2 DEF Calm
<1>3. AckedReceived'
    BY DEF Calm, AckedReceived, Inv
<1>4. DoneMeansWhole'
    BY DEF Calm, DoneMeansWhole
<1> QED BY <1>1, <1>2, <1>3, <1>4

(* StartOnce, when handleFileAccept comes no nearer to startSender. *)
NoStart(q) == \A i \in 1 .. Len(q) : q[i].do # "start"

LEMMA StartFrame ==
    ASSUME StartOnce,
           Accepting' = Accepting \/ NoStart(Accepting'),
           chan'.phase = "none" <=> chan.phase = "none",
           state'["send"] \in {"none", "offered"} => state["send"] \in {"none", "offered"}
    PROVE  StartOnce'
<1>1. CASE Accepting' = Accepting
    BY <1>1 DEF StartOnce, Accepting, Committed
<1>2. CASE NoStart(Accepting')
    <2>1. ~HasStart(Accepting')
        BY <1>2 DEF NoStart, HasStart
    <2>2. ~HasStart(Accepting)' /\ ~Committed(Accepting)'
        BY <2>1 DEF Committed, HasStart
    <2> QED BY <2>2 DEF StartOnce
<1> QED BY <1>1, <1>2

LEMMA AcceptingPlan ==
    ASSUME TypeOK, NEW s \in Side, NEW r \in Role, NEW ops \in Seq(Op), Plan(s, r, ops),
           s = "send" /\ r = "handler" => NoStart(ops)
    PROVE  Accepting' = Accepting \/ NoStart(Accepting')
<1>1. CASE <<s, r>> = <<"send", "handler">>
    BY <1>1, PlanType DEF Accepting
<1>2. CASE <<s, r>> # <<"send", "handler">>
    BY <1>2, PlanType DEF Accepting, Side, Role
<1> QED BY <1>1, <1>2

(* StartOnce, when the first operation of a list is performed. *)
LEMMA StartPerformed ==
    ASSUME TypeOK, StartOnce, NEW s \in Side, NEW r \in Role, ~Idle(s, r),
           Plan(s, r, Rest(s, r)),
           Head(todo[s][r]).do \notin {"start", "must", "try"},
           chan'.phase = "none" <=> chan.phase = "none",
           state'["send"] \in {"none", "offered"} => state["send"] \in {"none", "offered"},
           Head(todo[s][r]).do = "set" => state'[s] = Head(todo[s][r]).to
    PROVE  StartOnce'
<1> DEFINE q == Accepting
           t == Accepting'
<1>1. CASE <<s, r>> # <<"send", "handler">>
    <2>1. Accepting' = Accepting
        BY <1>1, PlanType, RestProperties DEF Accepting, Side, Role
    <2> QED BY <2>1, StartFrame
<1>2. CASE <<s, r>> = <<"send", "handler">> /\ ~HasStart(q)
    <2>1. q = todo[s][r] /\ t = Rest(s, r)
        BY <1>2, PlanType, RestProperties DEF Accepting
    <2>2. NoStart(t)
        <3>1. SUFFICES ASSUME NEW i \in 1 .. Len(t) PROVE t[i].do # "start"
            BY DEF NoStart
        <3>2. t[i] = q[i + 1] /\ i + 1 \in 1 .. Len(q)
            BY <2>1, <3>1, RestProperties
        <3> QED BY <1>2, <3>2 DEF HasStart
    <2> QED BY <2>2, StartFrame
<1>3. CASE <<s, r>> = <<"send", "handler">> /\ HasStart(q)
    <2>1. /\ q = todo[s][r] /\ t = Rest(s, r)
          /\ Len(t) = Len(q) - 1 /\ Len(q) \in Nat \ {0} /\ Head(q) = q[1]
          /\ \A i \in 1 .. Len(t) : t[i] = q[i + 1]
        BY <1>3, PlanType, RestProperties DEF Accepting
    <2>2. AcceptShape(q)
        BY <1>3 DEF StartOnce
    <2>3. q[1].do \notin {"start", "must", "try"}
        BY <2>1
    <2> HIDE DEF q, t
    <2>4. Len(q) \in {2, 3, 4}
        BY <2>1, <2>2, <2>3 DEF AcceptShape
    <2>5. Committed(q)
        BY <1>3, <2>3 DEF Committed
    <2>6. AcceptShape(t)
        <3>1. Len(t) \in 1 .. 4
            BY <2>1, <2>4
        <3>2. ASSUME NEW i \in 1 .. Len(t)
              PROVE  /\ t[i].do = "start" <=> i = Len(t)
                     /\ i = Len(t) - 1 => t[i].do = "send"
                     /\ i = Len(t) - 2 => t[i].do \in {"must", "set"}
                     /\ i = Len(t) - 3 => t[i].do \in {"must", "set"} /\ t[i].to = "accepted"
            <4>1. i + 1 \in 1 .. Len(q) /\ t[i] = q[i + 1]
                BY <2>1, <3>1
            <4> QED BY <2>1, <2>2, <4>1 DEF AcceptShape
        <3> QED BY <3>1, <3>2 DEF AcceptShape
    <2>8. chan.phase = "none" /\ chan'.phase = "none"
        BY <2>5 DEF StartOnce, q
    <2>9. state'["send"] \notin {"none", "offered"}
        <3>1. CASE Len(q) = 4
            <4>1. q[1].do = "set" /\ q[1].to = "accepted"
                BY <2>2, <2>3, <3>1 DEF AcceptShape
            <4> QED BY <1>3, <2>1, <4>1
        <3>2. CASE Len(q) < 4
            BY <2>5, <3>2 DEF StartOnce, q
        <3> QED BY <2>4, <3>1, <3>2
    <2> QED BY <2>6, <2>8, <2>9 DEF StartOnce, t
<1> QED BY <1>1, <1>2, <1>3

-----------------------------------------------------------------------------
(* Lists of operations that a goroutine may be given in this step. *)
GoodList(s, r, ops) ==
    /\ ops \in Seq(Op)
    /\ \A i \in 1 .. Len(ops) : OpNext(s, r, ops[i])

LEMMA PlainMsg ==
    ASSUME NEW m, m.type \notin {"ack", "complete"}
    PROVE  MsgNext(m)
BY DEF MsgNext, GoodMsg

LEMMA GoodNoMsg == MsgNext(NoMsg)
<1>1. NoMsg.type = "offer"
    BY DEF NoMsg, Message
<1> QED BY <1>1, PlainMsg

LEMMA GoodTry ==
    ASSUME NEW s \in Side, NEW r \in Role, NEW to \in State, to # "offered",
           to = "done" => file' = Whole,
           to = "transferring" /\ s = "recv" => verified'["recv"] = TRUE
    PROVE  /\ Try(to) \in Op /\ OpNext(s, r, Try(to)) /\ Try(to).do # "start"
           /\ Must(to) \in Op /\ OpNext(s, r, Must(to)) /\ Must(to).do # "start"
<1>1. Try(to) \in Op /\ Must(to) \in Op
    BY OpTypes
<1>2. MsgNext(Try(to).msg) /\ MsgNext(Must(to).msg)
    BY GoodNoMsg DEF Try, Must
<1>3. Try(to).to = to /\ Must(to).to = to /\ Try(to).do = "try" /\ Must(to).do = "must"
    BY DEF Try, Must
<1> QED BY <1>1, <1>2, <1>3 DEF OpNext, GoodOp, MsgNext

LEMMA GoodSendOp ==
    ASSUME NEW s \in Side, NEW r \in Role, NEW m \in Msg, MsgNext(m)
    PROVE  SendOp(m) \in Op /\ OpNext(s, r, SendOp(m)) /\ SendOp(m).do # "start"
<1>1. SendOp(m) \in Op
    BY OpTypes
<1>2. SendOp(m).msg = m /\ SendOp(m).to = "idle" /\ SendOp(m).do = "send"
    BY DEF SendOp
<1> QED BY <1>1, <1>2 DEF OpNext, GoodOp, MsgNext

LEMMA GoodCall ==
    ASSUME NEW s \in Side, NEW r \in Role, NEW do \in {"fire", "stop", "close"},
           do = "close" => chan'.phase # "none"
    PROVE  Call(do) \in Op /\ OpNext(s, r, Call(do)) /\ Call(do).do # "start"
<1>1. Call(do) \in Op
    BY OpTypes
<1>2. MsgNext(Call(do).msg) /\ Call(do).to = "idle" /\ Call(do).do = do
    BY GoodNoMsg DEF Call
<1> QED BY <1>1, <1>2 DEF OpNext, GoodOp, MsgNext

LEMMA List0 ==
    ASSUME NEW s \in Side, NEW r \in Role
    PROVE  GoodList(s, r, <<>>) /\ NoStart(<<>>)
BY DEF GoodList, NoStart

LEMMA List1 ==
    ASSUME NEW s \in Side, NEW r \in Role, NEW a \in Op, OpNext(s, r, a)
    PROVE  /\ GoodList(s, r, <<a>>)
           /\ a.do # "start" => NoStart(<<a>>)
BY DEF GoodList, NoStart

LEMMA List2 ==
    ASSUME NEW s \in Side, NEW r \in Role, NEW a \in Op, NEW b \in Op,
           OpNext(s, r, a), OpNext(s, r, b)
    PROVE  /\ GoodList(s, r, <<a, b>>)
           /\ a.do # "start" /\ b.do # "start" => NoStart(<<a, b>>)
BY DEF GoodList, NoStart

LEMMA List3 ==
    ASSUME NEW s \in Side, NEW r \in Role, NEW a \in Op, NEW b \in Op, NEW c \in Op,
           OpNext(s, r, a), OpNext(s, r, b), OpNext(s, r, c)
    PROVE  /\ GoodList(s, r, <<a, b, c>>)
           /\ a.do # "start" /\ b.do # "start" /\ c.do # "start" => NoStart(<<a, b, c>>)
BY DEF GoodList, NoStart

LEMMA List4 ==
    ASSUME NEW s \in Side, NEW r \in Role, NEW a \in Op, NEW b \in Op, NEW c \in Op, NEW d \in Op,
           OpNext(s, r, a), OpNext(s, r, b), OpNext(s, r, c), OpNext(s, r, d)
    PROVE  GoodList(s, r, <<a, b, c, d>>)
BY DEF GoodList

LEMMA ListConcat ==
    ASSUME NEW s \in Side, NEW r \in Role, NEW p, NEW q, GoodList(s, r, p), GoodList(s, r, q)
    PROVE  /\ GoodList(s, r, p \o q)
           /\ NoStart(p) /\ NoStart(q) => NoStart(p \o q)
<1>1. p \in Seq(Op) /\ q \in Seq(Op)
    BY DEF GoodList
<1>2. /\ p \o q \in Seq(Op)
      /\ \A i \in 1 .. Len(p \o q) :
            \/ i \in 1 .. Len(p) /\ (p \o q)[i] = p[i]
            \/ i - Len(p) \in 1 .. Len(q) /\ (p \o q)[i] = q[i - Len(p)]
    BY <1>1
<1>3. \A i \in 1 .. Len(p \o q) : OpNext(s, r, (p \o q)[i])
    BY <1>2 DEF GoodList
<1>4. ASSUME NoStart(p), NoStart(q) PROVE NoStart(p \o q)
    BY <1>2, <1>4 DEF NoStart
<1> QED BY <1>2, <1>3, <1>4 DEF GoodList

(* Giving a goroutine such a list. *)
LEMMA ListPlan ==
    ASSUME TypeOK, TodoOK, Grows, NEW s \in Side, NEW r \in Role, NEW ops, GoodList(s, r, ops),
           Plan(s, r, ops)
    PROVE  TodoOK' /\ todo' \in TodoType
BY PlanOK, PlanType DEF GoodList

-----------------------------------------------------------------------------
LEMMA CalmSame ==
    ASSUME IInv, UNCHANGED <<state, file, confirmed, sent, worker, chan, verified>>
    PROVE  Calm
<1>1. verified \in [Side -> BOOLEAN]
    BY DEF IInv, TypeOK
<1> QED BY <1>1 DEF IInv, Inv, WorkOK, DoneMeansWhole, Calm

LEMMA CalmStep ==
    ASSUME IInv, Calm, TypeOK', TodoOK', CtlOK', StartOnce'
    PROVE  IInv'
BY CalmKeeps DEF IInv, Inv

LEMMA NextType ==
    ASSUME TypeOK, Calm, todo' \in TodoType, ctl' \in CtlType,
           state' \in [Side -> State \cup Absent], mu' \in [Side -> Role \cup {"free"}],
           cancelled' \in [Side -> BOOLEAN], fired' \in [Side -> Nat], faults' \in Nat
    PROVE  TypeOK'
<1>1. chan' \in [phase : {"none", "created", "announced", "closed"}, frames : Seq(0 .. Chunks)]
    <2>1. chan \in [phase : {"none", "created", "announced", "closed"}, frames : Seq(0 .. Chunks)]
        BY DEF TypeOK
    <2>2. Closed \in [phase : {"none", "created", "announced", "closed"}, frames : Seq(0 .. Chunks)]
        BY DEF Closed
    <2> QED BY <2>1, <2>2 DEF Calm
<1>2. /\ worker' \in [Side -> Life]
      /\ sent' \in 0 .. Chunks
      /\ file' \in Seq(1 .. Chunks)
      /\ confirmed' \in [Side -> 0 .. Chunks]
    BY DEF TypeOK, Calm
<1>3. verified' \in [Side -> BOOLEAN]
    BY DEF Calm
<1> QED BY <1>1, <1>2, <1>3 DEF TypeOK, TodoType, CtlType

LEMMA Types ==
    ASSUME TypeOK
    PROVE  /\ todo \in TodoType /\ ctl \in CtlType
           /\ state \in [Side -> State \cup Absent] /\ mu \in [Side -> Role \cup {"free"}]
           /\ cancelled \in [Side -> BOOLEAN] /\ fired \in [Side -> Nat] /\ faults \in Nat
BY DEF TypeOK, TodoType, CtlType

LEMMA CheckStep ==
    ASSUME IInv, NEW s \in Side, NEW r \in Role, Check(s, r)
    PROVE  IInv'
<1> DEFINE op == Head(todo[s][r])
           done == [op EXCEPT !.do = "set"]
           ok == state[s] \in State /\ op.to \in validTransitions[state[s]]
           ops == IF ok THEN <<done>> \o Rest(s, r)
                        ELSE IF op.do = "try" THEN Rest(s, r) ELSE <<>>
<1>1. /\ Plan(s, r, ops)
      /\ UNCHANGED <<state, mu, worker, cancelled, ctl, chan, sent, file, confirmed, verified, fired, faults>>
    BY DEF Check
<1>2. TypeOK /\ TodoOK /\ CtlOK /\ StartOnce
    BY DEF IInv, Inv
<1>3. Calm /\ Grows
    BY <1>1, <1>2, CalmSame, CalmGrows
<1>4. ~Idle(s, r) /\ op.do \in {"try", "must"}
    BY DEF Check, Does
<1>5. op \in Op /\ OpNow(s, r, op) /\ op = todo[s][r][1]
    BY <1>2, <1>4, FirstGood, RestProperties
<1>6. OpNext(s, r, op)
    BY <1>2, <1>3, <1>5, OpStays
<1> HIDE DEF op
<1>7. done \in Op /\ done.do = "set" /\ done.to = op.to /\ done.msg = op.msg
    BY <1>5 DEF Op
<1> HIDE DEF done
<1>8. OpNext(s, r, done)
    BY <1>6, <1>7 DEF OpNext, GoodOp
<1>9. GoodList(s, r, Rest(s, r))
    BY <1>2, <1>3, <1>4, RestProperties, RestGood DEF GoodList
<1>10. GoodList(s, r, <<done>> \o Rest(s, r))
    BY <1>7, <1>8, <1>9, List1, ListConcat
<1>11. GoodList(s, r, ops)
    BY <1>9, <1>10, List0
<1>12. TodoOK' /\ todo' \in TodoType
    BY <1>1, <1>2, <1>3, <1>11, ListPlan
<1>13. CtlOK'
    BY <1>1, <1>2, <1>3, CtlFrame
<1>14. TypeOK'
    <2>1. UNCHANGED <<state, mu, cancelled, ctl, fired, faults>>
        BY <1>1
    <2> QED BY <1>2, <1>3, <1>12, <2>1, Types, NextType
<1>15. StartOnce'
    <2>1. CASE <<s, r>> # <<"send", "handler">>
        <3>1. Accepting' = Accepting
            BY <1>1, <1>2, <1>11, <2>1, PlanType DEF Accepting, GoodList, Side, Role
        <3> QED BY <1>1, <1>2, <3>1, StartFrame
    <2>2. CASE <<s, r>> = <<"send", "handler">>
        <3> DEFINE q == todo[s][r]
                   t == todo'[s][r]
        <3>1. Accepting = q /\ Accepting' = t
            BY <2>2 DEF Accepting
        <3>2. t = ops /\ q \in Seq(Op) /\ Len(q) \in Nat \ {0} /\ q[1] = op
            <4>1. ops \in Seq(Op)
                BY <1>11 DEF GoodList
            <4> HIDE DEF ops
            <4>2. t = ops
                BY <1>1, <1>2, <4>1, PlanType
            <4>3. q \in Seq(Op) /\ Len(q) \in Nat \ {0}
                BY <1>2, <1>4, RestProperties
            <4> QED BY <1>5, <4>2, <4>3
        <3>3. CASE ~HasStart(q) \/ ~ok
            <4>1. ASSUME ~HasStart(q) PROVE NoStart(t)
                <5>1. NoStart(Rest(s, r))
                    <6>1. SUFFICES ASSUME NEW i \in 1 .. Len(Rest(s, r))
                                   PROVE  Rest(s, r)[i].do # "start"
                        BY DEF NoStart
                    <6>2. Rest(s, r)[i] = q[i + 1] /\ i + 1 \in 1 .. Len(q)
                        BY <1>2, <1>4, <6>1, RestProperties
                    <6> QED BY <4>1, <6>2 DEF HasStart
                <5>2. NoStart(<<done>> \o Rest(s, r))
                    BY <1>7, <1>8, <1>9, <5>1, List1, ListConcat
                <5> QED BY <3>2, <5>1, <5>2, List0
            <4>2. ASSUME HasStart(q), ~ok PROVE NoStart(t)
                <5>1. AcceptShape(q)
                    BY <1>2, <3>1, <4>2 DEF StartOnce
                <5>2. op.do # "try"
                    <6> HIDE DEF q, t, ops, ok
                    <6>1. 1 \in 1 .. Len(q) /\ Len(q) \in 1 .. 4
                        BY <5>1 DEF AcceptShape
                    <6> QED BY <3>2, <5>1, <6>1 DEF AcceptShape
                <5> QED BY <3>2, <4>2, <5>2, List0
            <4> QED BY <1>1, <1>2, <3>1, <3>3, <4>1, <4>2, StartFrame
        <3>4. CASE HasStart(q) /\ ok
            <4>1. t = <<done>> \o Rest(s, r)
                BY <3>2, <3>4
            <4>2. AcceptShape(q) /\ Len(q) \in 1 .. 4
                BY <1>2, <3>1, <3>4 DEF StartOnce, AcceptShape
            <4>3. /\ Len(t) = Len(q) /\ t[1] = done
                  /\ \A i \in 1 .. Len(q) : i # 1 => t[i] = q[i]
                <5>1. /\ Rest(s, r) \in Seq(Op) /\ Len(Rest(s, r)) = Len(q) - 1
                      /\ \A i \in 1 .. Len(Rest(s, r)) : Rest(s, r)[i] = q[i + 1]
                    BY <1>2, <1>4, RestProperties
                <5> HIDE DEF q
                <5> QED BY <1>7, <3>2, <4>1, <5>1
            <4> HIDE DEF q, t
            <4>4. Len(q) \in {3, 4}
                BY <1>4, <3>2, <4>2 DEF AcceptShape
            <4>5. AcceptShape(t)
                BY <1>4, <1>7, <3>2, <4>2, <4>3, <4>4 DEF AcceptShape
            <4>6. chan.phase = "none"
                <5>1. CASE Len(q) = 3
                    BY <1>2, <3>1, <3>4, <5>1 DEF StartOnce, Committed
                <5>2. CASE Len(q) = 4
                    <6>1. op.to = "accepted"
                        BY <3>2, <4>2, <5>2 DEF AcceptShape
                    <6>2. state["send"] = "offered"
                        BY <2>2, <3>4, <6>1 DEF validTransitions, State
                    <6> QED BY <1>2, <6>2 DEF StartOnce
                <5> QED BY <4>4, <5>1, <5>2
            <4>7. Len(t) < 4 => state["send"] \notin {"none", "offered"}
                <5>1. ASSUME Len(q) = 3 PROVE Committed(q)
                    BY <3>4, <5>1 DEF Committed
                <5> QED BY <1>2, <3>1, <4>3, <4>4, <5>1 DEF StartOnce
            <4>8. Len(t) < 4 \/ Len(t) = 4
                BY <4>3, <4>4
            <4> QED BY <1>1, <3>1, <4>5, <4>6, <4>7 DEF StartOnce
        <3> QED BY <3>3, <3>4
    <2> QED BY <2>1, <2>2
<1> QED BY <1>3, <1>12, <1>13, <1>14, <1>15, CalmStep

LEMMA SetStep ==
    ASSUME IInv, NEW s \in Side, NEW r \in Role, Set(s, r)
    PROVE  IInv'
<1> DEFINE op == Head(todo[s][r])
<1>1. /\ Plan(s, r, Rest(s, r)) /\ state' = [state EXCEPT ![s] = op.to]
      /\ ~Idle(s, r) /\ op.do = "set"
      /\ UNCHANGED <<mu, worker, cancelled, ctl, chan, sent, file, confirmed, verified, fired, faults>>
    BY DEF Set, Does
<1>2. TypeOK /\ TodoOK /\ CtlOK /\ StartOnce
    BY DEF IInv, Inv
<1>3. op \in Op /\ OpNow(s, r, op)
    BY <1>1, <1>2, FirstGood
<1> HIDE DEF op
<1>4. /\ op.to \in State /\ op.to # "offered" /\ op.to # "none"
      /\ op.to = "done" => file = Whole
      /\ op.to = "transferring" /\ s = "recv" => verified["recv"] = TRUE
    BY <1>3, StateElements DEF Op, OpNow, GoodOp
<1>5. /\ state' \in [Side -> State \cup Absent] /\ state'[s] = op.to
      /\ \A t \in Side : t # s => state'[t] = state[t]
    BY <1>1, <1>2, <1>4, Types
<1>6. Calm
    <2>1. verified \in [Side -> BOOLEAN]
        BY <1>2 DEF TypeOK
    <2>2. \A t \in Side : state'[t] = "done" => file = Whole
        BY <1>4, <1>5 DEF IInv, Inv, DoneMeansWhole
    <2>3. state'["recv"] = "transferring" => verified["recv"] = TRUE
        BY <1>4, <1>5 DEF IInv, Inv, WorkOK, Side
    <2> QED BY <1>1, <2>1, <2>2, <2>3 DEF Calm
<1>7. Grows
    BY <1>2, <1>6, CalmGrows
<1>8. TodoOK' /\ todo' \in TodoType
    BY <1>1, <1>2, <1>7, RestOK
<1>9. CtlOK'
    BY <1>1, <1>2, <1>7, CtlFrame
<1>10. TypeOK'
    <2>1. UNCHANGED <<mu, cancelled, ctl, fired, faults>>
        BY <1>1
    <2> QED BY <1>2, <1>5, <1>6, <1>8, <2>1, Types, NextType
<1>11. StartOnce'
    <2>1. state'["send"] \in {"none", "offered"} => state["send"] \in {"none", "offered"}
        BY <1>4, <1>5 DEF Side
    <2>2. op.do = "set" => state'[s] = op.to
        BY <1>5
    <2>3. UNCHANGED chan
        BY <1>1
    <2> QED BY <1>1, <1>2, <2>1, <2>2, <2>3, StartPerformed DEF op
<1> QED BY <1>6, <1>8, <1>9, <1>10, <1>11, CalmStep

LEMMA SendStep ==
    ASSUME IInv, NEW s \in Side, NEW r \in Role, Send(s, r)
    PROVE  IInv'
<1> DEFINE op == Head(todo[s][r])
           m == op.msg
<1>1. /\ ~Idle(s, r) /\ op.do = "send"
      /\ UNCHANGED <<mu, worker, cancelled, chan, sent, file, confirmed, verified, fired>>
    BY DEF Send, Does
<1>2. TypeOK /\ TodoOK /\ CtlOK /\ StartOnce
    BY DEF IInv, Inv
<1>3. op \in Op /\ OpNow(s, r, op)
    BY <1>1, <1>2, FirstGood
<1>4. m \in Msg
    BY <1>3 DEF Op
<1>5. Other(s) \in Side
    BY DEF Other, Side
<1>6. \/ /\ UNCHANGED <<faults, state>>
         /\ Deliver(Other(s), m)
         /\ Plan(s, r, Rest(s, r))
      \/ /\ faults' = faults + 1
         /\ UNCHANGED ctl
         /\ Plan(s, r, Rest(s, r)) \/ Plan(s, r, <<>>)
         /\ state' = [state EXCEPT ![s] = "gone"] \/ UNCHANGED state
    BY DEF Send, NoFault, Fault
<1>7. state' \in [Side -> State \cup Absent] /\ \A t \in Side : state'[t] \in {state[t], "gone"}
    <2>1. state \in [Side -> State \cup Absent]
        BY <1>2, Types
    <2>2. CASE UNCHANGED state
        BY <2>1, <2>2
    <2>3. CASE state' = [state EXCEPT ![s] = "gone"]
        BY <2>1, <2>3 DEF Absent
    <2> QED BY <1>6, <2>2, <2>3
<1>8. Calm
    <2>1. verified \in [Side -> BOOLEAN]
        BY <1>2 DEF TypeOK
    <2>2. \A t \in Side : state'[t] = "done" => file = Whole
        BY <1>7 DEF IInv, Inv, DoneMeansWhole
    <2>3. state'["recv"] = "transferring" => verified["recv"] = TRUE
        BY <1>7 DEF IInv, Inv, WorkOK, Side
    <2> QED BY <1>1, <2>1, <2>2, <2>3 DEF Calm
<1>9. Grows
    BY <1>2, <1>8, CalmGrows
<1>10. MsgNext(m)
    <2>1. OpNext(s, r, op)
        BY <1>2, <1>3, <1>9, OpStays
    <2> QED BY <2>1 DEF OpNext, GoodOp, MsgNext
<1> HIDE DEF op, m
<1>11. TodoOK' /\ todo' \in TodoType
    <2>1. ASSUME Plan(s, r, Rest(s, r)) PROVE TodoOK' /\ todo' \in TodoType
        BY <1>1, <1>2, <1>9, <2>1, RestOK
    <2>2. ASSUME Plan(s, r, <<>>) PROVE TodoOK' /\ todo' \in TodoType
        BY <1>2, <1>9, <2>2, List0, ListPlan
    <2> QED BY <1>6, <2>1, <2>2
<1>12. CtlOK' /\ ctl' \in CtlType
    <2>1. ASSUME Deliver(Other(s), m) PROVE CtlOK' /\ ctl' \in CtlType
        BY <1>2, <1>4, <1>5, <1>9, <1>10, <2>1, CtlDeliver
    <2>2. ASSUME UNCHANGED ctl PROVE CtlOK' /\ ctl' \in CtlType
        BY <1>2, <1>9, <2>2, CtlFrame, Types
    <2> QED BY <1>6, <2>1, <2>2
<1>13. TypeOK'
    <2>1. UNCHANGED <<mu, cancelled, fired>> /\ faults' \in Nat
        BY <1>1, <1>2, <1>6, Types
    <2> QED BY <1>2, <1>7, <1>8, <1>11, <1>12, <2>1, Types, NextType
<1>14. StartOnce'
    <2>1. state'["send"] \in {"none", "offered"} => state["send"] \in {"none", "offered"}
        BY <1>7 DEF Side
    <2>2. UNCHANGED chan
        BY <1>1
    <2>3. ASSUME Plan(s, r, Rest(s, r)) PROVE StartOnce'
        BY <1>1, <1>2, <2>1, <2>2, <2>3, StartPerformed DEF op
    <2>4. ASSUME Plan(s, r, <<>>) PROVE StartOnce'
        <3>1. Accepting' = Accepting \/ NoStart(Accepting')
            BY <1>2, <2>4, List0, AcceptingPlan DEF GoodList
        <3> QED BY <1>2, <2>1, <2>2, <3>1, StartFrame
    <2> QED BY <1>6, <2>3, <2>4
<1> QED BY <1>8, <1>11, <1>12, <1>13, <1>14, CalmStep

LEMMA FireStep ==
    ASSUME IInv, NEW s \in Side, NEW r \in Role, fireOnComplete(s, r)
    PROVE  IInv'
<1>1. /\ Plan(s, r, Rest(s, r)) /\ ~Idle(s, r) /\ Head(todo[s][r]).do = "fire"
      /\ UNCHANGED <<state, mu, worker, cancelled, ctl, chan, sent, file, confirmed, verified, faults>>
    BY DEF fireOnComplete, Does
<1>2. TypeOK /\ TodoOK /\ CtlOK /\ StartOnce
    BY DEF IInv, Inv
<1>3. Calm /\ Grows
    BY <1>1, <1>2, CalmSame, CalmGrows
<1>4. TodoOK' /\ todo' \in TodoType /\ CtlOK'
    BY <1>1, <1>2, <1>3, RestOK, CtlFrame
<1>5. fired' \in [Side -> Nat]
    BY <1>2, Types DEF fireOnComplete
<1>6. TypeOK'
    <2>1. UNCHANGED <<state, mu, cancelled, ctl, faults>>
        BY <1>1
    <2> QED BY <1>2, <1>3, <1>4, <1>5, <2>1, Types, NextType
<1>7. StartOnce'
    <2>1. UNCHANGED <<state, chan>>
        BY <1>1
    <2> QED BY <1>1, <1>2, <2>1, StartPerformed
<1> QED BY <1>3, <1>4, <1>6, <1>7, CalmStep

LEMMA StopStep ==
    ASSUME IInv, NEW s \in Side, NEW r \in Role, Stop(s, r)
    PROVE  IInv'
<1>1. /\ ~Idle(s, r) /\ Head(todo[s][r]).do = "stop"
      /\ UNCHANGED <<state, worker, ctl, sent, file, confirmed, verified, fired, faults>>
      /\ UNCHANGED todo \/ Plan(s, r, Rest(s, r))
      /\ mu' = [mu EXCEPT ![s] = r] \/ mu' = [mu EXCEPT ![s] = "free"]
      /\ cancelled' = [cancelled EXCEPT ![s] = TRUE] \/ UNCHANGED cancelled
    BY DEF Stop, Does
<1>2. TypeOK /\ TodoOK /\ CtlOK /\ StartOnce /\ WorkOK
    BY DEF IInv, Inv
<1>3. UNCHANGED chan \/ (chan' = Closed /\ worker[s] # "none")
    BY DEF Stop, Gone
<1>4. UNCHANGED chan \/ (chan' = Closed /\ chan.phase # "none")
    BY <1>2, <1>3 DEF WorkOK, Side
<1>5. Calm
    <2>1. verified \in [Side -> BOOLEAN]
        BY <1>2 DEF TypeOK
    <2> QED BY <1>1, <1>4, <2>1 DEF IInv, Inv, WorkOK, DoneMeansWhole, Calm
<1>6. Grows
    BY <1>2, <1>5, CalmGrows
<1>7. TodoOK' /\ todo' \in TodoType
    <2>1. ASSUME Plan(s, r, Rest(s, r)) PROVE TodoOK' /\ todo' \in TodoType
        BY <1>1, <1>2, <1>6, <2>1, RestOK
    <2>2. ASSUME UNCHANGED todo PROVE TodoOK' /\ todo' \in TodoType
        BY <1>2, <1>6, <2>2, TodoFrame, Types
    <2> QED BY <1>1, <2>1, <2>2
<1>8. CtlOK'
    BY <1>1, <1>2, <1>6, CtlFrame
<1>9. mu' \in [Side -> Role \cup {"free"}] /\ cancelled' \in [Side -> BOOLEAN]
    BY <1>1, <1>2, Types
<1>10. TypeOK'
    <2>1. UNCHANGED <<state, ctl, fired, faults>>
        BY <1>1
    <2> QED BY <1>2, <1>5, <1>7, <1>9, <2>1, Types, NextType
<1>11. StartOnce'
    <2>1. UNCHANGED state /\ (chan'.phase = "none" <=> chan.phase = "none")
        BY <1>1, <1>4 DEF Closed
    <2>2. ASSUME Plan(s, r, Rest(s, r)) PROVE StartOnce'
        BY <1>1, <1>2, <2>1, <2>2, StartPerformed
    <2>3. ASSUME UNCHANGED todo PROVE StartOnce'
        <3>1. Accepting' = Accepting
            BY <2>3 DEF Accepting
        <3> QED BY <1>2, <2>1, <3>1, StartFrame
    <2> QED BY <1>1, <2>2, <2>3
<1> QED BY <1>5, <1>7, <1>8, <1>10, <1>11, CalmStep

LEMMA CloseStep ==
    ASSUME IInv, NEW s \in Side, NEW r \in Role, CloseChannel(s, r)
    PROVE  IInv'
<1>1. /\ Plan(s, r, Rest(s, r)) /\ ~Idle(s, r) /\ Head(todo[s][r]).do = "close" /\ chan' = Closed
      /\ UNCHANGED <<state, mu, worker, cancelled, ctl, sent, file, confirmed, verified, fired, faults>>
    BY DEF CloseChannel, Does
<1>2. TypeOK /\ TodoOK /\ CtlOK /\ StartOnce
    BY DEF IInv, Inv
<1>3. chan.phase # "none"
    BY <1>1, <1>2, FirstGood DEF OpNow, GoodOp
<1>4. Calm
    <2>1. verified \in [Side -> BOOLEAN]
        BY <1>2 DEF TypeOK
    <2> QED BY <1>1, <1>3, <2>1 DEF IInv, Inv, WorkOK, DoneMeansWhole, Calm
<1>5. Grows
    BY <1>2, <1>4, CalmGrows
<1>6. TodoOK' /\ todo' \in TodoType /\ CtlOK'
    BY <1>1, <1>2, <1>5, RestOK, CtlFrame
<1>7. TypeOK'
    <2>1. UNCHANGED <<state, mu, cancelled, ctl, fired, faults>>
        BY <1>1
    <2> QED BY <1>2, <1>4, <1>6, <2>1, Types, NextType
<1>8. StartOnce'
    <2>1. UNCHANGED state /\ (chan'.phase = "none" <=> chan.phase = "none")
        BY <1>1, <1>3 DEF Closed
    <2> QED BY <1>1, <1>2, <2>1, StartPerformed
<1> QED BY <1>4, <1>6, <1>7, <1>8, CalmStep

(* A step that gives a goroutine a list without startSender. *)
LEMMA PlanStep ==
    ASSUME IInv, Calm, NEW s \in Side, NEW r \in Role, NEW ops, GoodList(s, r, ops), NoStart(ops),
           Plan(s, r, ops),
           CtlOK', ctl' \in CtlType,
           state' \in [Side -> State \cup Absent],
           state'["send"] \in {"none", "offered"} => state["send"] \in {"none", "offered"},
           UNCHANGED chan,
           mu' \in [Side -> Role \cup {"free"}], cancelled' \in [Side -> BOOLEAN],
           fired' \in [Side -> Nat], faults' \in Nat
    PROVE  IInv'
<1>1. TypeOK /\ TodoOK /\ StartOnce
    BY DEF IInv, Inv
<1>2. Grows
    BY <1>1, CalmGrows
<1>3. TodoOK' /\ todo' \in TodoType
    BY <1>1, <1>2, ListPlan
<1>4. TypeOK'
    BY <1>1, <1>3, NextType
<1>5. Accepting' = Accepting \/ NoStart(Accepting')
    BY <1>1, AcceptingPlan DEF GoodList
<1>6. StartOnce'
    BY <1>1, <1>5, StartFrame
<1> QED BY <1>3, <1>4, <1>6, CalmStep

LEMMA GoodFailed ==
    ASSUME NEW s \in Side, NEW r \in Role, NEW to \in {"failed", "cancelled", "completing"}
    PROVE  /\ Try(to) \in Op /\ OpNext(s, r, Try(to)) /\ Try(to).do # "start"
           /\ GoodList(s, r, <<Try(to)>>) /\ NoStart(<<Try(to)>>)
<1>1. to \in State /\ to # "offered" /\ to # "done" /\ to # "transferring"
    BY StateElements
<1>2. Try(to) \in Op /\ OpNext(s, r, Try(to)) /\ Try(to).do # "start"
    BY <1>1, GoodTry
<1> QED BY <1>2, List1

LEMMA startSenderStep ==
    ASSUME IInv, NEW s \in Side, NEW r \in Role, startSender(s, r)
    PROVE  IInv'
<1> DEFINE q == todo[s][r]
<1>1. /\ ~Idle(s, r) /\ Head(q).do = "start"
      /\ UNCHANGED <<state, mu, cancelled, ctl, sent, file, confirmed, verified, fired>>
    BY DEF startSender, Does
<1>2. TypeOK /\ TodoOK /\ CtlOK /\ StartOnce /\ WorkOK
    BY DEF IInv, Inv
<1>3. s = "send" /\ r = "handler" /\ verified["send"] = TRUE /\ q = Accepting
    BY <1>1, <1>2, FirstGood DEF OpNow, GoodOp, Accepting
<1>4. CASE faults' = faults + 1 /\ Plan(s, r, <<Try("failed")>>) /\ UNCHANGED <<chan, worker>>
    <2>1. Calm /\ Grows
        BY <1>1, <1>2, <1>4, CalmSame, CalmGrows
    <2>2. CtlOK'
        BY <1>1, <1>2, <2>1, CtlFrame
    <2>3. GoodList(s, r, <<Try("failed")>>) /\ NoStart(<<Try("failed")>>)
        BY GoodFailed
    <2>4. UNCHANGED <<state, mu, cancelled, ctl, fired, chan>> /\ faults' \in Nat
        BY <1>1, <1>2, <1>4, Types
    <2> QED BY <1>2, <1>4, <2>1, <2>2, <2>3, <2>4, Types, PlanStep
<1>5. CASE /\ UNCHANGED faults
           /\ chan' = [chan EXCEPT !.phase = "created"]
           /\ worker' = [worker EXCEPT ![s] = "found"]
           /\ Plan(s, r, Rest(s, r))
    <2>1. q \in Seq(Op) /\ Len(q) \in Nat \ {0} /\ q[1].do = "start" /\ 1 \in 1 .. Len(q)
        BY <1>1, <1>2, RestProperties
    <2>2. HasStart(q)
        BY <2>1 DEF HasStart
    <2>3. AcceptShape(q)
        BY <1>2, <1>3, <2>2 DEF StartOnce
    <2>4. Len(q) = 1
        BY <2>1, <2>3 DEF AcceptShape
    <2>5. chan.phase = "none" /\ state["send"] \notin {"none", "offered"}
        BY <1>2, <1>3, <2>2, <2>4 DEF StartOnce, Committed
    <2>6. chan \in [phase : {"none", "created", "announced", "closed"}, frames : Seq(0 .. Chunks)]
        BY <1>2 DEF TypeOK
    <2>7. /\ chan' \in [phase : {"none", "created", "announced", "closed"}, frames : Seq(0 .. Chunks)]
          /\ chan'.phase = "created" /\ chan'.frames = chan.frames
        BY <1>5, <2>6
    <2>8. Grows
        <3>1. confirmed \in [Side -> 0 .. Chunks] /\ confirmed["recv"] \in Nat
            BY <1>2, ConstantsAssumption DEF TypeOK, Side
        <3> QED BY <1>1, <2>7, <3>1 DEF Grows
    <2>9. TodoOK' /\ todo' \in TodoType /\ CtlOK'
        BY <1>1, <1>2, <1>5, <2>8, RestOK, CtlFrame
    <2>10. /\ worker' \in [Side -> Life]
           /\ worker'["send"] = "found" /\ worker'["recv"] = worker["recv"]
        BY <1>2, <1>3, <1>5 DEF TypeOK, Side, Life
    <2>11. TypeOK'
        <3>1. UNCHANGED <<state, mu, cancelled, ctl, sent, file, confirmed, verified, fired, faults>>
            BY <1>1, <1>5
        <3> QED BY <1>2, <2>7, <2>9, <2>10, <3>1 DEF TypeOK, TodoType
    <2>12. StartOnce'
        <3>1. Accepting' = Rest(s, r) /\ Len(Rest(s, r)) = 0
            BY <1>1, <1>2, <1>3, <1>5, <2>4, RestProperties, PlanType DEF Accepting
        <3>2. ~HasStart(Accepting')
            BY <3>1 DEF HasStart
        <3>3. ~HasStart(Accepting)' /\ ~Committed(Accepting)'
            BY <3>2 DEF Committed, HasStart
        <3> QED BY <1>1, <2>5, <2>7, <3>3 DEF StartOnce
    <2>13. WorkOK'
        <3>1. worker["recv"] = "none"
            BY <1>2, <2>5 DEF WorkOK
        <3>2. UNCHANGED <<state, sent, file, confirmed, verified>>
            BY <1>1
        <3> QED BY <1>2, <1>3, <2>7, <2>10, <3>1, <3>2 DEF WorkOK
    <2>14. FramesOK' /\ AckedReceived' /\ DoneMeansWhole'
        BY <1>1, <2>7 DEF IInv, Inv, FramesOK, AckedReceived, DoneMeansWhole
    <2> QED BY <2>9, <2>11, <2>12, <2>13, <2>14 DEF IInv, Inv
<1> QED BY <1>4, <1>5 DEF startSender, NoFault, Fault

LEMMA InitiateStep ==
    ASSUME IInv, InitiateSend
    PROVE  IInv'
<1> DEFINE m == Message("offer", TRUE, 0)
<1>1. /\ state["send"] = "none" /\ state' = [state EXCEPT !["send"] = "offered"]
      /\ Plan("send", "user", <<SendOp(m)>>)
      /\ UNCHANGED <<mu, worker, cancelled, ctl, chan, sent, file, confirmed, verified, fired, faults>>
    BY DEF InitiateSend
<1>2. TypeOK /\ CtlOK
    BY DEF IInv, Inv
<1>3. "send" \in Side /\ "user" \in Role /\ "recv" \in Side
    BY DEF Side, Role
<1>4. /\ state' \in [Side -> State \cup Absent]
      /\ state'["send"] = "offered" /\ state'["recv"] = state["recv"]
    BY <1>1, <1>2, <1>3, Types, StateElements
<1>5. Calm
    <2>1. verified \in [Side -> BOOLEAN]
        BY <1>2 DEF TypeOK
    <2>2. \A t \in Side : state'[t] = "done" => file = Whole
        BY <1>3, <1>4 DEF IInv, Inv, DoneMeansWhole, Side
    <2> QED BY <1>1, <1>4, <2>1, <2>2 DEF IInv, Inv, WorkOK, Calm
<1>6. CtlOK'
    BY <1>1, <1>2, <1>5, CalmGrows, CtlFrame
<1>7. m \in Msg /\ MsgNext(m)
    <2>1. m \in Msg
        BY MessageTypes
    <2>2. m.type = "offer"
        BY DEF Message
    <2> QED BY <2>1, <2>2, PlainMsg
<1>8. GoodList("send", "user", <<SendOp(m)>>) /\ NoStart(<<SendOp(m)>>)
    BY <1>3, <1>7, GoodSendOp, List1
<1>9. UNCHANGED <<mu, cancelled, ctl, chan, fired, faults>>
    BY <1>1
<1> QED BY <1>1, <1>2, <1>3, <1>4, <1>5, <1>6, <1>8, <1>9, Types, PlanStep

LEMMA EndStep ==
    ASSUME IInv, NEW s \in Side, NEW r \in Role, NEW to \in {"failed", "cancelled"},
           End(s, r, to), faults' \in Nat
    PROVE  IInv'
<1> DEFINE ops == <<Try(to), Call("stop"), Call("fire")>>
<1>1. /\ mu' = [mu EXCEPT ![s] = r] /\ Plan(s, r, ops)
      /\ UNCHANGED <<state, worker, cancelled, ctl, chan, sent, file, confirmed, verified, fired>>
    BY DEF End
<1>2. TypeOK /\ CtlOK
    BY DEF IInv, Inv
<1>3. Calm
    BY <1>1, CalmSame
<1>4. CtlOK'
    BY <1>1, <1>2, <1>3, CalmGrows, CtlFrame
<1>5. GoodList(s, r, ops) /\ NoStart(ops)
    BY GoodFailed, GoodCall, List3
<1>6. mu' \in [Side -> Role \cup {"free"}]
    BY <1>1, <1>2, Types
<1>7. UNCHANGED <<state, cancelled, ctl, chan, fired>>
    BY <1>1
<1> HIDE DEF ops
<1> QED BY <1>1, <1>2, <1>3, <1>4, <1>5, <1>6, <1>7, Types, PlanStep

LEMMA CancelStep ==
    ASSUME IInv, NEW s \in Side, Cancel(s)
    PROVE  IInv'
<1>1. faults' \in Nat
    BY Types DEF IInv, Cancel, Fault
<1> QED BY <1>1, EndStep DEF Cancel, Role

LEMMA TimeoutStep ==
    ASSUME IInv, NEW s \in Side, timeoutLoop(s)
    PROVE  IInv'
<1>1. faults' \in Nat
    BY Types DEF IInv, timeoutLoop, NoFault, Fault
<1> QED BY <1>1, EndStep DEF timeoutLoop, Role

LEMMA ForgeStep ==
    ASSUME IInv, NEW s \in Side, Forge(s)
    PROVE  IInv'
<1> DEFINE m == Message(IF s = "send" THEN "accept" ELSE "ready", FALSE, 0)
<1>1. /\ faults' = faults + 1 /\ Deliver(s, m)
      /\ UNCHANGED <<state, todo, mu, worker, cancelled, chan, sent, file, confirmed, verified, fired>>
    BY DEF Forge, Fault
<1>2. TypeOK /\ CtlOK /\ TodoOK /\ StartOnce
    BY DEF IInv, Inv
<1>3. Calm /\ Grows
    BY <1>1, <1>2, CalmSame, CalmGrows
<1>4. m \in Msg /\ MsgNext(m)
    <2>1. m \in Msg
        BY MessageTypes
    <2>2. m.type \in {"accept", "ready"}
        BY DEF Message
    <2> QED BY <2>1, <2>2, PlainMsg
<1> HIDE DEF m
<1>5. CtlOK' /\ ctl' \in CtlType
    BY <1>1, <1>2, <1>3, <1>4, CtlDeliver
<1>6. TodoOK'
    BY <1>1, <1>2, <1>3, TodoFrame
<1>7. TypeOK'
    <2>1. UNCHANGED <<state, todo, mu, cancelled, fired>> /\ faults' \in Nat
        BY <1>1, <1>2, Types
    <2> QED BY <1>2, <1>3, <1>5, <2>1, Types, NextType
<1>8. StartOnce'
    <2>1. Accepting' = Accepting /\ UNCHANGED <<chan, state>>
        BY <1>1 DEF Accepting
    <2> QED BY <1>2, <2>1, StartFrame
<1> QED BY <1>3, <1>5, <1>6, <1>7, <1>8, CalmStep

-----------------------------------------------------------------------------
LEMMA OfferStep ==
    ASSUME IInv, handleFileOffer
    PROVE  IInv'
<1> DEFINE accept == Message("accept", TRUE, 0)
           reject == Message("reject", TRUE, 0)
<1>1. /\ Receiving("recv", "offer")
      /\ UNCHANGED <<mu, worker, cancelled, chan, sent, file, confirmed, verified, fired>>
      /\ \/ /\ UNCHANGED faults
            /\ state' = [state EXCEPT !["recv"] = "accepted"]
            /\ Plan("recv", "handler", <<SendOp(accept)>>)
         \/ /\ faults' = faults + 1
            /\ UNCHANGED state
            /\ Plan("recv", "handler", <<SendOp(reject)>>)
    BY DEF handleFileOffer, NoFault, Fault
<1>2. TypeOK /\ CtlOK /\ "recv" \in Side /\ "send" \in Side /\ "handler" \in Role
    BY DEF IInv, Inv, Side, Role
<1>3. /\ state' \in [Side -> State \cup Absent]
      /\ state'["send"] = state["send"]
      /\ state'["recv"] \in {state["recv"], "accepted"}
    <2>1. CASE UNCHANGED state
        BY <1>2, <2>1, Types
    <2>2. CASE state' = [state EXCEPT !["recv"] = "accepted"]
        BY <1>2, <2>2, Types, StateElements
    <2> QED BY <1>1, <2>1, <2>2
<1>4. Calm
    <2>1. verified \in [Side -> BOOLEAN]
        BY <1>2 DEF TypeOK
    <2>2. \A t \in Side : state'[t] = "done" => file = Whole
        BY <1>2, <1>3 DEF IInv, Inv, DoneMeansWhole, Side
    <2>3. state'["recv"] = "transferring" => verified["recv"] = TRUE
        BY <1>3 DEF IInv, Inv, WorkOK
    <2> QED BY <1>1, <2>1, <2>2, <2>3 DEF Calm
<1>5. CtlOK' /\ ctl' \in CtlType
    BY <1>1, <1>2, <1>4, CalmGrows, Received
<1>6. accept \in Msg /\ reject \in Msg /\ MsgNext(accept) /\ MsgNext(reject)
    <2>1. accept \in Msg /\ reject \in Msg
        BY MessageTypes
    <2>2. accept.type = "accept" /\ reject.type = "reject"
        BY DEF Message
    <2> QED BY <2>1, <2>2, PlainMsg
<1> HIDE DEF accept, reject
<1>7. /\ GoodList("recv", "handler", <<SendOp(accept)>>) /\ NoStart(<<SendOp(accept)>>)
      /\ GoodList("recv", "handler", <<SendOp(reject)>>) /\ NoStart(<<SendOp(reject)>>)
    BY <1>2, <1>6, GoodSendOp, List1
<1>8. UNCHANGED <<mu, cancelled, chan, fired>> /\ faults' \in Nat
    BY <1>1, <1>2, Types
<1>9. ASSUME NEW m, Plan("recv", "handler", <<SendOp(m)>>),
             GoodList("recv", "handler", <<SendOp(m)>>), NoStart(<<SendOp(m)>>)
      PROVE  IInv'
    BY <1>2, <1>3, <1>4, <1>5, <1>8, <1>9, Types, PlanStep
<1> QED BY <1>1, <1>7, <1>9

(* VerifyChallenge, for accept and ready. *)
LEMMA VerifyCalm ==
    ASSUME IInv, NEW s \in Side, NEW ok \in BOOLEAN, NEW ops, Verify(s, ok, ops)
    PROVE  /\ Calm /\ faults' \in Nat
           /\ UNCHANGED <<state, mu, worker, cancelled, chan, sent, file, confirmed, fired>>
           /\ \/ Plan(s, "handler", <<>>)
              \/ Plan(s, "handler", <<Try("failed")>>)
              \/ Plan(s, "handler", ops) /\ verified'[s] = TRUE
<1>1. TypeOK /\ verified \in [Side -> BOOLEAN] /\ faults \in Nat
    BY DEF IInv, TypeOK
<1>2. UNCHANGED <<state, mu, worker, cancelled, chan, sent, file, confirmed, fired>>
    BY DEF Verify
<1>3. /\ verified' \in [Side -> BOOLEAN]
      /\ \A t \in Side : verified[t] = TRUE => verified'[t] = TRUE
    <2>1. CASE UNCHANGED verified
        BY <1>1, <2>1
    <2>2. CASE verified' = [verified EXCEPT ![s] = @ \/ (Known(s) /\ ok)]
        <3>1. (verified[s] \/ (Known(s) /\ ok)) \in BOOLEAN
            OBVIOUS
        <3>2. verified' \in [Side -> BOOLEAN]
            BY <1>1, <2>2, <3>1
        <3>3. \A t \in Side : t # s => verified'[t] = verified[t]
            BY <1>1, <2>2
        <3>4. verified'[s] = (verified[s] \/ (Known(s) /\ ok))
            BY <1>1, <2>2
        <3>5. verified[s] = TRUE => verified'[s] = TRUE
            BY <3>4
        <3> QED BY <3>2, <3>3, <3>5
    <2> QED BY <2>1, <2>2 DEF Verify
<1>4. Calm
    <2>1. \A t \in Side : state[t] = "done" => file = Whole
        BY DEF IInv, Inv, DoneMeansWhole
    <2>2. state["recv"] = "transferring" => verified'["recv"] = TRUE
        BY <1>3 DEF IInv, Inv, WorkOK, Side
    <2> QED BY <1>2, <1>3, <2>1, <2>2 DEF Calm
<1>5. faults' \in Nat
    BY <1>1 DEF Verify, Fault, NoFault
<1>6. \/ Plan(s, "handler", <<>>)
      \/ Plan(s, "handler", <<Try("failed")>>)
      \/ Plan(s, "handler", ops) /\ verified'[s] = TRUE
    <2>1. CASE Plan(s, "handler", <<>>)
        BY <2>1
    <2>2. CASE /\ verified' = [verified EXCEPT ![s] = @ \/ (Known(s) /\ ok)]
               /\ Plan(s, "handler", IF ~ Known(s) THEN <<>> ELSE IF ok THEN ops ELSE <<Try("failed")>>)
        <3>1. CASE ~Known(s)
            BY <2>2, <3>1
        <3>2. CASE Known(s) /\ ok = FALSE
            BY <2>2, <3>2
        <3>3. CASE Known(s) /\ ok = TRUE
            <4>1. verified'[s] = (verified[s] \/ (Known(s) /\ ok))
                BY <1>1, <2>2
            <4>2. verified'[s] = TRUE
                BY <3>3, <4>1
            <4>3. Plan(s, "handler", ops)
                BY <2>2, <3>3
            <4> QED BY <4>2, <4>3
        <3> QED BY <3>1, <3>2, <3>3
    <2> QED BY <2>1, <2>2 DEF Verify
<1> QED BY <1>2, <1>4, <1>5, <1>6

LEMMA ReadyStep ==
    ASSUME IInv, handleTransferReady
    PROVE  IInv'
<1> DEFINE ok == Head(ctl["recv"]).ok
           ops == <<Must("transferring")>>
<1>1. /\ Receiving("recv", "ready") /\ Verify("recv", ok, ops)
    BY DEF handleTransferReady
<1>2. TypeOK /\ CtlOK /\ "recv" \in Side /\ "handler" \in Role
    BY DEF IInv, Inv, Side, Role
<1>3. ok \in BOOLEAN
    BY <1>1, <1>2, Received DEF Msg
<1> HIDE DEF ok
<1>4. /\ Calm /\ faults' \in Nat
      /\ UNCHANGED <<state, mu, worker, cancelled, chan, sent, file, confirmed, fired>>
      /\ \/ Plan("recv", "handler", <<>>)
         \/ Plan("recv", "handler", <<Try("failed")>>)
         \/ Plan("recv", "handler", ops) /\ verified'["recv"] = TRUE
    BY <1>1, <1>2, <1>3, VerifyCalm
<1>5. CtlOK' /\ ctl' \in CtlType
    BY <1>1, <1>2, <1>4, CalmGrows, Received
<1>6. UNCHANGED <<state, mu, cancelled, chan, fired>>
    BY <1>4
<1>7. ASSUME NEW l, Plan("recv", "handler", l), GoodList("recv", "handler", l), NoStart(l)
      PROVE  IInv'
    BY <1>2, <1>4, <1>5, <1>6, <1>7, Types, PlanStep
<1>8. CASE Plan("recv", "handler", <<>>)
    BY <1>2, <1>7, <1>8, List0
<1>9. CASE Plan("recv", "handler", <<Try("failed")>>)
    BY <1>2, <1>7, <1>9, GoodFailed
<1>10. CASE Plan("recv", "handler", ops) /\ verified'["recv"] = TRUE
    <2>1. GoodList("recv", "handler", ops) /\ NoStart(ops)
        BY <1>2, <1>10, StateElements, GoodTry, List1
    <2> QED BY <1>7, <1>10, <2>1
<1> QED BY <1>4, <1>8, <1>9, <1>10

LEMMA AcceptStep ==
    ASSUME IInv, handleFileAccept
    PROVE  IInv'
<1> DEFINE ok == Head(ctl["send"]).ok
           ready == Message("ready", TRUE, 0)
           ops == <<Must("accepted"), Must("transferring"), SendOp(ready), Call("start")>>
<1>1. /\ Receiving("send", "accept") /\ Verify("send", ok, ops)
    BY DEF handleFileAccept
<1>2. TypeOK /\ TodoOK /\ CtlOK /\ StartOnce /\ "send" \in Side /\ "handler" \in Role
    BY DEF IInv, Inv, Side, Role
<1>3. ok \in BOOLEAN
    BY <1>1, <1>2, Received DEF Msg
<1> HIDE DEF ok
<1>4. /\ Calm /\ faults' \in Nat
      /\ UNCHANGED <<state, mu, worker, cancelled, chan, sent, file, confirmed, fired>>
      /\ \/ Plan("send", "handler", <<>>)
         \/ Plan("send", "handler", <<Try("failed")>>)
         \/ Plan("send", "handler", ops) /\ verified'["send"] = TRUE
    BY <1>1, <1>2, <1>3, VerifyCalm
<1>5. CtlOK' /\ ctl' \in CtlType /\ Grows
    BY <1>1, <1>2, <1>4, CalmGrows, Received
<1>6. UNCHANGED <<state, mu, cancelled, chan, fired>>
    BY <1>4
<1>7. ASSUME NEW l, Plan("send", "handler", l), GoodList("send", "handler", l), NoStart(l)
      PROVE  IInv'
    BY <1>2, <1>4, <1>5, <1>6, <1>7, Types, PlanStep
<1>8. CASE Plan("send", "handler", <<>>)
    BY <1>2, <1>7, <1>8, List0
<1>9. CASE Plan("send", "handler", <<Try("failed")>>)
    BY <1>2, <1>7, <1>9, GoodFailed
<1>10. CASE Plan("send", "handler", ops) /\ verified'["send"] = TRUE
    <2>1. ready \in Msg /\ MsgNext(ready)
        <3>1. ready \in Msg
            BY MessageTypes
        <3>2. ready.type = "ready"
            BY DEF Message
        <3> QED BY <3>1, <3>2, PlainMsg
    <2> HIDE DEF ready
    <2>2. Call("start") \in Op /\ OpNext("send", "handler", Call("start"))
        <3>1. Call("start") \in Op
            BY OpTypes
        <3>2. MsgNext(Call("start").msg) /\ Call("start").to = "idle" /\ Call("start").do = "start"
            BY GoodNoMsg DEF Call
        <3> QED BY <1>10, <3>1, <3>2 DEF OpNext, GoodOp, MsgNext
    <2>3. /\ Must("accepted") \in Op /\ OpNext("send", "handler", Must("accepted"))
          /\ Must("transferring") \in Op /\ OpNext("send", "handler", Must("transferring"))
        BY <1>2, StateElements, GoodTry
    <2>4. SendOp(ready) \in Op /\ OpNext("send", "handler", SendOp(ready))
        BY <1>2, <2>1, GoodSendOp
    <2>5. GoodList("send", "handler", ops)
        BY <1>2, <2>2, <2>3, <2>4, List4
    <2>6. TodoOK' /\ todo' \in TodoType /\ todo'["send"]["handler"] = ops
        BY <1>2, <1>5, <1>10, <2>5, ListPlan, PlanType DEF GoodList
    <2>7. TypeOK'
        BY <1>2, <1>4, <1>5, <1>6, <2>6, Types, NextType
    <2>8. /\ Len(ops) = 4 /\ ops[1].do = "must" /\ ops[1].to = "accepted"
          /\ ops[2].do = "must" /\ ops[3].do = "send" /\ ops[4].do = "start"
        BY DEF Must, SendOp, Call
    <2> HIDE DEF ops
    <2>9. AcceptShape(ops) /\ ~Committed(ops)
        BY <2>8 DEF AcceptShape, Committed
    <2>10. Accepting' = ops
        BY <2>6 DEF Accepting
    <2>11. StartOnce'
        BY <1>2, <1>6, <2>9, <2>10 DEF StartOnce
    <2> QED BY <1>4, <1>5, <2>6, <2>7, <2>11, CalmStep
<1> QED BY <1>4, <1>8, <1>9, <1>10

LEMMA RejectStep ==
    ASSUME IInv, handleFileReject
    PROVE  IInv'
<1> DEFINE ops == <<Try("failed"), Call("fire")>>
<1>1. /\ Receiving("send", "reject")
      /\ Plan("send", "handler", <<>>) \/ Plan("send", "handler", ops)
      /\ UNCHANGED <<state, mu, worker, cancelled, chan, sent, file, confirmed, verified, fired, faults>>
    BY DEF handleFileReject
<1>2. TypeOK /\ CtlOK /\ "send" \in Side /\ "handler" \in Role
    BY DEF IInv, Inv, Side, Role
<1>3. Calm
    BY <1>1, CalmSame
<1>4. CtlOK' /\ ctl' \in CtlType
    BY <1>1, <1>2, <1>3, CalmGrows, Received
<1>5. GoodList("send", "handler", ops) /\ NoStart(ops)
    BY <1>2, GoodFailed, GoodCall, List2
<1>6. UNCHANGED <<state, mu, cancelled, chan, fired, faults>>
    BY <1>1
<1> HIDE DEF ops
<1>7. ASSUME NEW l, Plan("send", "handler", l), GoodList("send", "handler", l), NoStart(l)
      PROVE  IInv'
    BY <1>2, <1>3, <1>4, <1>6, <1>7, Types, PlanStep
<1> QED BY <1>1, <1>2, <1>5, <1>7, List0

LEMMA CompleteStep ==
    ASSUME IInv, handleTransferComplete
    PROVE  IInv'
<1> DEFINE m == Head(ctl["send"])
           good == <<Try("completing"), Try("done")>>
           bad == <<Try("failed")>>
           tail == <<Call("fire"), Call("stop")>>
<1>1. /\ Receiving("send", "complete")
      /\ Plan("send", "handler", IF Known("send") THEN (IF m.ok THEN good ELSE bad) \o tail ELSE <<>>)
      /\ UNCHANGED <<state, mu, worker, cancelled, chan, sent, file, confirmed, verified, fired, faults>>
    BY DEF handleTransferComplete
<1>2. TypeOK /\ CtlOK /\ "send" \in Side /\ "handler" \in Role
    BY DEF IInv, Inv, Side, Role
<1>3. Calm
    BY <1>1, CalmSame
<1>4. CtlOK' /\ ctl' \in CtlType
    BY <1>1, <1>2, <1>3, CalmGrows, Received
<1>5. m \in Msg /\ MsgNow(m) /\ m.type = "complete"
    BY <1>1, <1>2, Received
<1>6. m.ok = TRUE => file' = Whole
    BY <1>1, <1>5 DEF MsgNow, GoodMsg
<1>7. GoodList("send", "handler", tail) /\ NoStart(tail)
    BY <1>2, GoodCall, List2
<1>8. GoodList("send", "handler", bad) /\ NoStart(bad)
    BY <1>2, GoodFailed
<1>9. m.ok = TRUE => GoodList("send", "handler", good) /\ NoStart(good)
    BY <1>2, <1>6, StateElements, GoodTry, GoodFailed, List2
<1>10. UNCHANGED <<state, mu, cancelled, chan, fired, faults>>
    BY <1>1
<1>11. m.ok \in BOOLEAN
    BY <1>5 DEF Msg
<1> HIDE DEF m, good, bad, tail
<1>12. ASSUME NEW l, Plan("send", "handler", l), GoodList("send", "handler", l), NoStart(l)
       PROVE  IInv'
    BY <1>2, <1>3, <1>4, <1>10, <1>12, Types, PlanStep
<1>13. CASE ~Known("send")
    <2>1. Plan("send", "handler", <<>>)
        BY <1>1, <1>13
    <2> QED BY <1>2, <1>12, <2>1, List0
<1>14. CASE Known("send") /\ m.ok = TRUE
    <2>1. Plan("send", "handler", good \o tail)
        BY <1>1, <1>14
    <2> QED BY <1>2, <1>7, <1>9, <1>12, <1>14, <2>1, ListConcat
<1>15. CASE Known("send") /\ m.ok = FALSE
    <2>1. Plan("send", "handler", bad \o tail)
        BY <1>1, <1>15
    <2> QED BY <1>2, <1>7, <1>8, <1>12, <2>1, ListConcat
<1> QED BY <1>11, <1>13, <1>14, <1>15

(* The lists and messages, in a step that is not calm. *)
LEMMA PlanKeeps ==
    ASSUME IInv, Grows, NEW s \in Side, NEW r \in Role, NEW ops, GoodList(s, r, ops), NoStart(ops),
           Plan(s, r, ops), UNCHANGED <<ctl, state>>, chan'.phase = "none" <=> chan.phase = "none"
    PROVE  todo' \in TodoType /\ TodoOK' /\ CtlOK' /\ StartOnce'
<1>1. TypeOK /\ TodoOK /\ StartOnce /\ CtlOK
    BY DEF IInv, Inv
<1>2. TodoOK' /\ todo' \in TodoType
    BY <1>1, ListPlan
<1>3. CtlOK'
    BY <1>1, CtlFrame
<1>4. Accepting' = Accepting \/ NoStart(Accepting')
    BY <1>1, AcceptingPlan DEF GoodList
<1>5. StartOnce'
    BY <1>1, <1>4, StartFrame
<1> QED BY <1>2, <1>3, <1>5

LEMMA FrameKeeps ==
    ASSUME IInv, Grows, UNCHANGED <<todo, ctl, state>>, chan'.phase = "none" <=> chan.phase = "none"
    PROVE  todo' \in TodoType /\ TodoOK' /\ CtlOK' /\ StartOnce'
<1>1. TypeOK /\ TodoOK /\ StartOnce /\ CtlOK
    BY DEF IInv, Inv
<1>2. TodoOK' /\ todo' \in TodoType
    BY <1>1, TodoFrame, Types
<1>3. CtlOK'
    BY <1>1, CtlFrame
<1>4. Accepting' = Accepting
    BY DEF Accepting
<1>5. StartOnce'
    BY <1>1, <1>4, StartFrame
<1> QED BY <1>2, <1>3, <1>5

ChanType == [phase : {"none", "created", "announced", "closed"}, frames : Seq(0 .. Chunks)]
WorkerType == [Side -> Life]

LEMMA DataTypes ==
    ASSUME TypeOK
    PROVE  /\ chan \in ChanType /\ worker \in WorkerType
           /\ sent \in 0 .. Chunks /\ file \in Seq(1 .. Chunks)
           /\ confirmed \in [Side -> 0 .. Chunks] /\ verified \in [Side -> BOOLEAN]
           /\ confirmed["recv"] \in Nat /\ confirmed["send"] \in Nat /\ sent \in Nat
           /\ Chunks \in Nat
BY ConstantsAssumption DEF TypeOK, ChanType, WorkerType, Side

(* Steps of the workers leave the rest of the state alone. *)
LEMMA WorkType ==
    ASSUME TypeOK, todo' \in TodoType, chan' \in ChanType, worker' \in WorkerType,
           sent' \in 0 .. Chunks, file' \in Seq(1 .. Chunks), confirmed' \in [Side -> 0 .. Chunks],
           UNCHANGED <<state, mu, cancelled, ctl, verified, fired>>, faults' \in Nat
    PROVE  TypeOK'
BY DEF TypeOK, TodoType, ChanType, WorkerType

LEMMA WorkStep ==
    ASSUME IInv, TypeOK', TodoOK', CtlOK', StartOnce', WorkOK', FramesOK', AckedReceived',
           UNCHANGED state, file = Whole => file' = Whole
    PROVE  IInv'
BY DEF IInv, Inv, DoneMeansWhole, Whole

LEMMA AckStep ==
    ASSUME IInv, handleChunkAck
    PROVE  IInv'
<1> DEFINE m == Head(ctl["send"])
<1>1. /\ Receiving("send", "ack")
      /\ confirmed' = confirmed \/ confirmed' = [confirmed EXCEPT !["send"] = m.seq]
      /\ UNCHANGED <<state, todo, mu, worker, cancelled, chan, sent, file, verified, fired, faults>>
    BY DEF handleChunkAck
<1>2. TypeOK /\ TodoOK /\ CtlOK /\ StartOnce /\ AckedReceived /\ "send" \in Side /\ "recv" \in Side
    BY DEF IInv, Inv, Side
<1>3. m \in Msg /\ MsgNow(m) /\ m.type = "ack"
    BY <1>1, <1>2, Received
<1>4. m.seq \in Nat /\ m.seq <= confirmed["recv"]
    BY <1>3 DEF Msg, MsgNow, GoodMsg
<1> HIDE DEF m
<1>5. /\ confirmed' \in [Side -> 0 .. Chunks] /\ confirmed'["recv"] = confirmed["recv"]
      /\ confirmed'["send"] \in {confirmed["send"], m.seq}
    <2>1. m.seq \in 0 .. Chunks
        BY <1>2, <1>4, DataTypes
    <2> QED BY <1>1, <1>2, <2>1, DataTypes
<1>6. Grows
    BY <1>1, <1>2, <1>5, DataTypes DEF Grows
<1>7. CtlOK' /\ ctl' \in CtlType
    BY <1>1, <1>2, <1>6, Received
<1>8. TodoOK'
    BY <1>1, <1>2, <1>6, TodoFrame
<1>9. StartOnce'
    <2>1. Accepting' = Accepting /\ UNCHANGED <<chan, state>>
        BY <1>1 DEF Accepting
    <2> QED BY <1>2, <2>1, StartFrame
<1>10. TypeOK'
    BY <1>1, <1>2, <1>5, <1>7 DEF TypeOK, CtlType
<1>11. WorkOK' /\ FramesOK'
    BY <1>1, <1>5 DEF IInv, Inv, WorkOK, FramesOK
<1>12. AckedReceived'
    BY <1>1, <1>2, <1>4, <1>5 DEF AckedReceived
<1> QED BY <1>1, <1>7, <1>8, <1>9, <1>10, <1>11, <1>12, WorkStep

-----------------------------------------------------------------------------
(* A worker goes on to another phase of its life. *)
LEMMA WorkerStep ==
    ASSUME IInv, NEW s \in Side, NEW w \in Life, w # "none", worker[s] # "none",
           w \in {"found", "made"} => worker[s] \in {"found", "made"},
           worker' = [worker EXCEPT ![s] = w],
           UNCHANGED <<state, todo, mu, cancelled, ctl, chan, sent, file, confirmed, verified, fired, faults>>
    PROVE  IInv'
<1>1. TypeOK /\ TodoOK /\ CtlOK /\ StartOnce /\ WorkOK
    BY DEF IInv, Inv
<1>2. /\ worker' \in WorkerType /\ worker'[s] = w
      /\ \A t \in Side : t # s => worker'[t] = worker[t]
    BY <1>1, DataTypes DEF WorkerType
<1>3. Grows
    BY <1>1, DataTypes DEF Grows
<1>4. todo' \in TodoType /\ TodoOK' /\ CtlOK' /\ StartOnce'
    BY <1>3, FrameKeeps
<1>5. faults' \in Nat
    BY <1>1, Types
<1>6. TypeOK'
    BY <1>1, <1>2, <1>4, <1>5, DataTypes, WorkType
<1>7. WorkOK'
    <2>1. \A t \in Side : worker'[t] = "none" <=> worker[t] = "none"
        BY <1>2
    <2>2. worker["recv"] \notin {"none", "found", "made"} => worker'["recv"] \notin {"none", "found", "made"}
        BY <1>2, <2>1 DEF Side
    <2> QED BY <1>1, <2>1, <2>2 DEF WorkOK, Side
<1>8. FramesOK' /\ AckedReceived'
    BY DEF IInv, Inv, FramesOK, AckedReceived
<1> QED BY <1>4, <1>6, <1>7, <1>8, WorkStep

LEMMA SenderErrorStep ==
    ASSUME IInv, SenderError
    PROVE  IInv'
<1>1. /\ worker["send"] = "run" /\ worker' = [worker EXCEPT !["send"] = "done"]
      /\ Plan("send", "worker", <<Try("failed")>>)
      /\ UNCHANGED <<state, mu, cancelled, ctl, chan, sent, file, confirmed, verified, fired>>
    BY DEF SenderError
<1>2. TypeOK /\ TodoOK /\ CtlOK /\ StartOnce /\ WorkOK /\ "send" \in Side /\ "worker" \in Role
    BY DEF IInv, Inv, Side, Role
<1>3. worker' \in WorkerType /\ worker'["send"] = "done" /\ worker'["recv"] = worker["recv"]
    BY <1>1, <1>2, DataTypes DEF WorkerType, Side, Life
<1>4. Grows
    BY <1>1, <1>2, DataTypes DEF Grows
<1>5. todo' \in TodoType /\ TodoOK' /\ CtlOK' /\ StartOnce'
    <2>1. GoodList("send", "worker", <<Try("failed")>>) /\ NoStart(<<Try("failed")>>)
        BY <1>2, GoodFailed
    <2> QED BY <1>1, <1>2, <1>4, <2>1, PlanKeeps
<1>6. faults' \in Nat
    BY <1>2, Types DEF SenderError, Fault, NoFault
<1>7. TypeOK'
    BY <1>1, <1>2, <1>3, <1>5, <1>6, DataTypes, WorkType
<1>8. WorkOK'
    BY <1>1, <1>2, <1>3 DEF WorkOK
<1>9. FramesOK' /\ AckedReceived'
    BY <1>1 DEF IInv, Inv, FramesOK, AckedReceived
<1> QED BY <1>1, <1>5, <1>7, <1>8, <1>9, WorkStep

(* A frame put on the channel. *)
LEMMA AppendFrame ==
    ASSUME IInv, NEW x \in 0 .. Chunks, chan' = [chan EXCEPT !.frames = Append(@, x)],
           UNCHANGED confirmed, sent' \in 0 .. Chunks, sent <= sent',
           x # Fin => x = sent + 1 /\ x <= sent'
    PROVE  /\ chan' \in ChanType /\ chan'.phase = chan.phase
           /\ FramesOK'
<1>1. TypeOK /\ FramesOK /\ AckedReceived
    BY DEF IInv, Inv
<1>2. chan \in ChanType /\ chan.frames \in Seq(0 .. Chunks)
    BY <1>1, DataTypes DEF ChanType
<1>3. chan' \in ChanType /\ chan'.phase = chan.phase /\ chan'.frames = Append(chan.frames, x)
    <2>1. Append(chan.frames, x) \in Seq(0 .. Chunks)
        BY <1>2, AppendFacts
    <2>2. chan' = [chan EXCEPT !.frames = Append(chan.frames, x)]
        OBVIOUS
    <2> QED BY <1>2, <2>1, <2>2 DEF ChanType
<1> DEFINE f == chan.frames
           g == chan'.frames
<1>4. /\ Len(f) \in Nat /\ Len(g) = Len(f) + 1 /\ g[Len(f) + 1] = x
      /\ \A i \in 1 .. Len(f) : g[i] = f[i] /\ f[i] \in 0 .. Chunks
    <2>1. f \in Seq(0 .. Chunks) /\ g = Append(f, x)
        BY <1>2, <1>3
    <2> HIDE DEF f, g
    <2> DEFINE S == 0 .. Chunks
    <2>2. f \in Seq(S) /\ x \in S
        BY <2>1
    <2> HIDE DEF S
    <2>3. /\ Len(f) \in Nat
          /\ Len(Append(f, x)) = Len(f) + 1 /\ Append(f, x)[Len(f) + 1] = x
          /\ \A i \in 1 .. Len(f) : Append(f, x)[i] = f[i] /\ f[i] \in S
        BY <2>2, AppendFacts
    <2> QED BY <2>1, <2>3, Zenon DEF S
<1>5. /\ sent \in Nat /\ sent' \in Nat /\ confirmed["recv"] \in Nat /\ confirmed["recv"] <= sent
      /\ Chunks \in Nat
    BY <1>1, DataTypes DEF AckedReceived
<1>6. /\ \A i \in 1 .. Len(f) : f[i] # Fin => confirmed["recv"] < f[i] /\ f[i] <= sent
      /\ \A i, j \in 1 .. Len(f) : i < j /\ f[i] # Fin /\ f[j] # Fin => f[i] < f[j]
    BY <1>1 DEF FramesOK
<1> HIDE DEF f, g
<1>7. ASSUME NEW i \in 1 .. Len(g), g[i] # Fin
      PROVE  confirmed["recv"] < g[i] /\ g[i] <= sent'
    <2>1. CASE i = Len(f) + 1
        BY <1>4, <1>5, <1>7, <2>1
    <2>2. CASE i \in 1 .. Len(f)
        BY <1>4, <1>5, <1>6, <1>7, <2>2
    <2> QED BY <1>4, <2>1, <2>2
<1>8. ASSUME NEW i \in 1 .. Len(g), NEW j \in 1 .. Len(g), i < j, g[i] # Fin, g[j] # Fin
      PROVE  g[i] < g[j]
    <2>1. i \in 1 .. Len(f) /\ g[i] = f[i]
        BY <1>4, <1>8
    <2>2. CASE j = Len(f) + 1
        <3>1. f[i] <= sent /\ g[j] = sent + 1 /\ f[i] \in Nat
            BY <1>4, <1>5, <1>6, <1>8, <2>1, <2>2
        <3> QED BY <1>5, <2>1, <3>1
    <2>3. CASE j \in 1 .. Len(f)
        BY <1>4, <1>6, <1>8, <2>1, <2>3
    <2> QED BY <1>4, <2>2, <2>3
<1>9. FramesOK'
    BY <1>7, <1>8 DEF FramesOK, g
<1> QED BY <1>3, <1>9

LEMMA SendChunkStep ==
    ASSUME IInv, SendChunk
    PROVE  IInv'
<1>1. /\ worker["send"] = "run" /\ sent < Chunks /\ sent' = sent + 1
      /\ chan' = [chan EXCEPT !.frames = Append(@, sent + 1)]
      /\ UNCHANGED <<state, todo, mu, worker, cancelled, ctl, file, confirmed, verified, fired, faults>>
    BY DEF SendChunk
<1>2. TypeOK /\ WorkOK /\ AckedReceived
    BY DEF IInv, Inv
<1>3. sent + 1 \in 0 .. Chunks /\ sent <= sent' /\ sent \in Nat /\ sent' \in 0 .. Chunks
    BY <1>1, <1>2, DataTypes
<1>4. chan' \in ChanType /\ chan'.phase = chan.phase /\ FramesOK'
    <2>1. sent + 1 # Fin => sent + 1 <= sent'
        BY <1>1, <1>3
    <2>2. UNCHANGED confirmed
        BY <1>1
    <2> QED BY <1>1, <1>3, <2>1, <2>2, AppendFrame
<1>5. Grows
    BY <1>1, <1>2, <1>4, DataTypes DEF Grows
<1>6. todo' \in TodoType /\ TodoOK' /\ CtlOK' /\ StartOnce'
    BY <1>1, <1>4, <1>5, FrameKeeps
<1>7. TypeOK'
    BY <1>1, <1>2, <1>3, <1>4, <1>6, DataTypes, Types, WorkType
<1>8. WorkOK'
    BY <1>1, <1>2, <1>4 DEF WorkOK
<1>9. AckedReceived'
    BY <1>1, <1>2, <1>3, DataTypes DEF AckedReceived
<1> QED BY <1>1, <1>4, <1>6, <1>7, <1>8, <1>9, WorkStep

LEMMA SendFINStep ==
    ASSUME IInv, SendFIN
    PROVE  IInv'
<1>1. /\ worker["send"] = "run" /\ worker' = [worker EXCEPT !["send"] = "done"]
      /\ chan' = [chan EXCEPT !.frames = Append(@, Fin)]
      /\ Plan("send", "worker", <<Try("completing")>>)
      /\ UNCHANGED <<state, mu, cancelled, ctl, sent, file, confirmed, verified, fired, faults>>
    BY DEF SendFIN
<1>2. TypeOK /\ WorkOK /\ AckedReceived /\ "send" \in Side /\ "worker" \in Role
    BY DEF IInv, Inv, Side, Role
<1>3. chan' \in ChanType /\ chan'.phase = chan.phase /\ FramesOK'
    <2>1. Fin \in 0 .. Chunks /\ sent' \in 0 .. Chunks /\ sent <= sent'
        BY <1>1, <1>2, DataTypes DEF Fin
    <2> QED BY <1>1, <2>1, AppendFrame
<1>4. worker' \in WorkerType /\ worker'["send"] = "done" /\ worker'["recv"] = worker["recv"]
    BY <1>1, <1>2, DataTypes DEF WorkerType, Side, Life
<1>5. Grows
    BY <1>1, <1>2, <1>3, DataTypes DEF Grows
<1>6. todo' \in TodoType /\ TodoOK' /\ CtlOK' /\ StartOnce'
    <2>1. GoodList("send", "worker", <<Try("completing")>>) /\ NoStart(<<Try("completing")>>)
        BY <1>2, GoodFailed
    <2> QED BY <1>1, <1>2, <1>3, <1>5, <2>1, PlanKeeps
<1>7. TypeOK'
    BY <1>1, <1>2, <1>3, <1>4, <1>6, DataTypes, Types, WorkType
<1>8. WorkOK'
    BY <1>1, <1>2, <1>3, <1>4 DEF WorkOK
<1>9. AckedReceived'
    BY <1>1, <1>2 DEF AckedReceived
<1> QED BY <1>1, <1>3, <1>6, <1>7, <1>8, <1>9, WorkStep

-----------------------------------------------------------------------------
(* The channel reaches the receiver, which has no worker and no file yet. *)
LEMMA IncomingStep ==
    ASSUME IInv, handleIncomingDataChannel
    PROVE  IInv'
<1>1. /\ chan.phase = "created"
      /\ UNCHANGED <<state, todo, mu, cancelled, ctl, sent, file, confirmed, verified, fired, faults>>
    BY DEF handleIncomingDataChannel
<1>2. TypeOK /\ WorkOK /\ CtlOK /\ "recv" \in Side
    BY DEF IInv, Inv, Side
<1>3. worker["recv"] = "none" /\ file = <<>>
    BY <1>1, <1>2 DEF WorkOK
<1>4. CASE chan' = Closed /\ UNCHANGED worker
    <2>1. Calm
        <3>1. verified \in [Side -> BOOLEAN]
            BY <1>2, DataTypes
        <3> QED BY <1>1, <1>4, <3>1 DEF IInv, Inv, WorkOK, DoneMeansWhole, Calm
    <2>2. Grows
        BY <1>2, <2>1, CalmGrows
    <2>3. chan'.phase = "none" <=> chan.phase = "none"
        BY <1>1, <1>4 DEF Closed
    <2>4. todo' \in TodoType /\ TodoOK' /\ CtlOK' /\ StartOnce'
        BY <1>1, <2>2, <2>3, FrameKeeps
    <2>5. UNCHANGED <<state, mu, cancelled, ctl, fired, faults>>
        BY <1>1
    <2>6. TypeOK'
        BY <1>2, <2>1, <2>4, <2>5, Types, NextType
    <2> QED BY <2>1, <2>4, <2>6, CalmStep
<1>5. CASE /\ chan' = [chan EXCEPT !.phase = "announced"]
           /\ \/ UNCHANGED worker
              \/ state["recv"] = "transferring" /\ worker' = [worker EXCEPT !["recv"] = "found"]
    <2>1. chan' \in ChanType /\ chan'.phase = "announced" /\ chan'.frames = chan.frames
        BY <1>2, <1>5, DataTypes DEF ChanType
    <2>2. /\ worker' \in WorkerType /\ worker'["send"] = worker["send"]
          /\ worker'["recv"] = "none" \/ state["recv"] = "transferring"
        <3>1. CASE UNCHANGED worker
            BY <1>2, <1>3, <3>1, DataTypes
        <3>2. CASE state["recv"] = "transferring" /\ worker' = [worker EXCEPT !["recv"] = "found"]
            BY <1>2, <3>2, DataTypes DEF WorkerType, Side, Life
        <3> QED BY <1>5, <3>1, <3>2
    <2>3. Grows
        BY <1>1, <1>2, <2>1, DataTypes DEF Grows
    <2>4. chan'.phase = "none" <=> chan.phase = "none"
        BY <1>1, <2>1
    <2>5. todo' \in TodoType /\ TodoOK' /\ CtlOK' /\ StartOnce'
        BY <1>1, <2>3, <2>4, FrameKeeps
    <2>6. faults' \in Nat
        BY <1>1, <1>2, Types
    <2>7. TypeOK'
        BY <1>1, <1>2, <2>1, <2>2, <2>5, <2>6, DataTypes, WorkType
    <2>8. WorkOK'
        BY <1>1, <1>2, <1>3, <2>1, <2>2 DEF WorkOK
    <2>9. FramesOK' /\ AckedReceived'
        BY <1>1, <2>1 DEF IInv, Inv, FramesOK, AckedReceived
    <2> QED BY <1>1, <2>5, <2>7, <2>8, <2>9, WorkStep
<1> QED BY <1>4, <1>5 DEF handleIncomingDataChannel

(* Receiver.Start: its file is new, as it was empty before. *)
LEMMA StartStep ==
    ASSUME IInv, NEW s \in Side, Start(s)
    PROVE  IInv'
<1>1. /\ worker[s] = "made"
      /\ UNCHANGED <<state, mu, cancelled, ctl, chan, sent, confirmed, verified, fired>>
    BY DEF Start
<1>2. TypeOK /\ WorkOK /\ "worker" \in Role
    BY DEF IInv, Inv, Role
<1>3. file' = file
    BY <1>1, <1>2 DEF Start, WorkOK
<1>4. CASE UNCHANGED <<faults, todo>> /\ worker' = [worker EXCEPT ![s] = "opening"]
    <2>1. "opening" \in Life
        BY DEF Life
    <2> QED BY <1>1, <1>3, <1>4, <2>1, WorkerStep
<1>5. CASE /\ faults' = faults + 1 /\ worker' = [worker EXCEPT ![s] = "broken"]
           /\ Plan(s, "worker", <<Try("failed")>>)
    <2>1. /\ worker' \in WorkerType /\ worker'[s] = "broken"
          /\ \A t \in Side : t # s => worker'[t] = worker[t]
        BY <1>2, <1>5, DataTypes DEF WorkerType, Life
    <2>2. Grows
        BY <1>1, <1>2, <1>3, DataTypes DEF Grows
    <2>3. todo' \in TodoType /\ TodoOK' /\ CtlOK' /\ StartOnce'
        <3>1. GoodList(s, "worker", <<Try("failed")>>) /\ NoStart(<<Try("failed")>>)
            BY <1>2, GoodFailed
        <3> QED BY <1>1, <1>2, <1>5, <2>2, <3>1, PlanKeeps
    <2>4. faults' \in Nat
        BY <1>2, <1>5, Types
    <2>5. TypeOK'
        BY <1>1, <1>2, <1>3, <2>1, <2>3, <2>4, DataTypes, WorkType
    <2>6. WorkOK'
        <3>1. \A t \in Side : worker'[t] = "none" <=> worker[t] = "none"
            BY <1>1, <2>1
        <3>2. worker["recv"] \notin {"none", "found", "made"} => worker'["recv"] \notin {"none", "found", "made"}
            BY <2>1 DEF Side
        <3> QED BY <1>1, <1>2, <1>3, <3>1, <3>2 DEF WorkOK, Side
    <2>7. FramesOK' /\ AckedReceived'
        BY <1>1 DEF IInv, Inv, FramesOK, AckedReceived
    <2> QED BY <1>1, <1>3, <2>3, <2>5, <2>6, <2>7, WorkStep
<1> QED BY <1>4, <1>5 DEF Start, NoFault, Fault

LEMMA RegisterStep ==
    ASSUME IInv, NEW s \in Side, Register(s)
    PROVE  IInv'
<1>1. "made" \in Life
    BY DEF Life
<1> QED BY <1>1, WorkerStep DEF Register

(* Stop before Start closes the channel, which the worker was made for. *)
LEMMA StopUnstartedStep ==
    ASSUME IInv, NEW s \in Side, NEW r \in Role, StopUnstarted(s, r)
    PROVE  IInv'
<1>1. /\ ~Idle(s, r) /\ Head(todo[s][r]).do = "stop" /\ worker[s] = "made"
      /\ worker' = [worker EXCEPT ![s] = "orphan"]
      /\ chan' = Closed
      /\ mu' = [mu EXCEPT ![s] = "free"]
      /\ Plan(s, r, Rest(s, r))
      /\ UNCHANGED <<state, cancelled, ctl, sent, file, confirmed, verified, fired, faults>>
    BY DEF StopUnstarted, Does
<1>2. TypeOK /\ TodoOK /\ CtlOK /\ StartOnce /\ WorkOK
    BY DEF IInv, Inv
<1>3. chan.phase # "none"
    BY <1>1, <1>2 DEF WorkOK, Side
<1>4. chan' \in ChanType /\ chan'.phase = "closed" /\ chan'.frames = <<>>
    BY <1>1 DEF Closed, ChanType
<1>5. /\ worker' \in WorkerType /\ worker'[s] = "orphan"
      /\ \A t \in Side : t # s => worker'[t] = worker[t]
    BY <1>1, <1>2, DataTypes DEF WorkerType, Life
<1>6. Grows
    BY <1>1, <1>2, <1>4, DataTypes DEF Grows
<1>7. TodoOK' /\ todo' \in TodoType /\ CtlOK'
    BY <1>1, <1>2, <1>6, RestOK, CtlFrame
<1>8. TypeOK'
    <2>1. /\ mu' \in [Side -> Role \cup {"free"}]
          /\ UNCHANGED <<state, cancelled, ctl, sent, file, confirmed, verified, fired, faults>>
        BY <1>1, <1>2, Types
    <2> QED BY <1>2, <1>4, <1>5, <1>7, <2>1 DEF TypeOK, TodoType, ChanType, WorkerType
<1>9. StartOnce'
    <2>1. UNCHANGED state /\ (chan'.phase = "none" <=> chan.phase = "none")
        BY <1>1, <1>3, <1>4
    <2> QED BY <1>1, <1>2, <2>1, StartPerformed
<1>10. WorkOK'
    <2>1. \A t \in Side : worker'[t] = "none" <=> worker[t] = "none"
        BY <1>1, <1>5
    <2>2. worker["recv"] \notin {"none", "found", "made"} => worker'["recv"] \notin {"none", "found", "made"}
        BY <1>5 DEF Side
    <2> QED BY <1>1, <1>2, <1>4, <2>1, <2>2 DEF WorkOK, Side
<1>11. FramesOK' /\ AckedReceived'
    BY <1>1, <1>4 DEF IInv, Inv, FramesOK, AckedReceived
<1> QED BY <1>1, <1>7, <1>8, <1>9, <1>10, <1>11, WorkStep

(* A frame taken off the channel. *)
LEMMA FrameTaken ==
    ASSUME IInv, NextFrame
    PROVE  /\ chan' \in ChanType /\ chan'.phase = "announced" /\ chan.phase = "announced"
           /\ chan.frames \in Seq(0 .. Chunks) /\ Len(chan.frames) \in Nat \ {0}
           /\ Head(chan.frames) = chan.frames[1] /\ Head(chan.frames) \in 0 .. Chunks
           /\ Len(chan'.frames) = Len(chan.frames) - 1
           /\ \A i \in 1 .. Len(chan'.frames) :
                 chan'.frames[i] = chan.frames[i + 1] /\ i + 1 \in 1 .. Len(chan.frames)
<1>1. chan \in ChanType
    BY DataTypes DEF IInv
<1>2. chan.frames \in Seq(0 .. Chunks) /\ chan.frames # <<>>
    BY <1>1 DEF ChanType, NextFrame
<1>3. Tail(chan.frames) \in Seq(0 .. Chunks)
    BY <1>2, TailFacts
<1>4. chan' = [chan EXCEPT !.frames = Tail(chan.frames)] /\ chan.phase = "announced"
    BY DEF NextFrame
<1>5. chan' \in ChanType /\ chan'.phase = "announced" /\ chan'.frames = Tail(chan.frames)
    BY <1>1, <1>3, <1>4 DEF ChanType
<1> DEFINE f == chan.frames
<1>6. /\ Len(f) \in Nat \ {0} /\ Head(f) = f[1] /\ Head(f) \in 0 .. Chunks
      /\ Len(Tail(f)) = Len(f) - 1
      /\ \A i \in 1 .. Len(Tail(f)) : Tail(f)[i] = f[i + 1] /\ i + 1 \in 1 .. Len(f)
    <2>1. f \in Seq(0 .. Chunks) /\ f # <<>>
        BY <1>2
    <2> HIDE DEF f
    <2> QED BY <2>1, TailFacts
<1> QED BY <1>2, <1>4, <1>5, <1>6

(* The frames left after one was taken, whose number is now the last one   *)
(* confirmed or which was not counted.                                     *)
LEMMA FramesLeft ==
    ASSUME IInv, NextFrame, UNCHANGED sent,
           \/ confirmed'["recv"] = confirmed["recv"]
           \/ Head(chan.frames) # Fin /\ confirmed'["recv"] = Head(chan.frames)
    PROVE  FramesOK'
<1> DEFINE f == chan.frames
           g == chan'.frames
<1>1. /\ f \in Seq(0 .. Chunks) /\ Len(f) \in Nat \ {0} /\ Head(f) = f[1]
      /\ Len(g) = Len(f) - 1
      /\ \A i \in 1 .. Len(g) : g[i] = f[i + 1] /\ i + 1 \in 1 .. Len(f)
    BY FrameTaken
<1>2. /\ \A i \in 1 .. Len(f) : f[i] # Fin => confirmed["recv"] < f[i] /\ f[i] <= sent
      /\ \A i, j \in 1 .. Len(f) : i < j /\ f[i] # Fin /\ f[j] # Fin => f[i] < f[j]
    BY DEF IInv, Inv, FramesOK
<1> HIDE DEF f, g
<1>3. confirmed'["recv"] = confirmed["recv"] \/ (f[1] # Fin /\ confirmed'["recv"] = f[1])
    BY <1>1 DEF f
<1>4. ASSUME NEW i \in 1 .. Len(g), g[i] # Fin
      PROVE  confirmed'["recv"] < g[i] /\ g[i] <= sent
    <2>1. i + 1 \in 1 .. Len(f) /\ g[i] = f[i + 1] /\ 1 \in 1 .. Len(f) /\ 1 < i + 1
        BY <1>1
    <2> QED BY <1>2, <1>3, <1>4, <2>1
<1>5. ASSUME NEW i \in 1 .. Len(g), NEW j \in 1 .. Len(g), i < j, g[i] # Fin, g[j] # Fin
      PROVE  g[i] < g[j]
    <2>1. /\ i + 1 \in 1 .. Len(f) /\ g[i] = f[i + 1] /\ j + 1 \in 1 .. Len(f) /\ g[j] = f[j + 1]
          /\ i + 1 < j + 1
        BY <1>1, <1>5
    <2> QED BY <1>2, <1>5, <2>1
<1> QED BY <1>4, <1>5 DEF FramesOK, g

LEMMA MissStep ==
    ASSUME IInv, MissFrame
    PROVE  IInv'
<1>1. /\ NextFrame
      /\ UNCHANGED <<state, todo, mu, worker, cancelled, ctl, sent, file, confirmed, verified, fired>>
    BY DEF MissFrame
<1>2. TypeOK /\ WorkOK /\ faults' \in Nat
    BY Types DEF IInv, Inv, MissFrame, Fault
<1>3. chan' \in ChanType /\ chan'.phase = "announced" /\ chan.phase = "announced"
    BY <1>1, FrameTaken
<1>4. FramesOK'
    BY <1>1, FramesLeft
<1>5. Grows
    BY <1>1, <1>2, <1>3, DataTypes DEF Grows
<1>6. todo' \in TodoType /\ TodoOK' /\ CtlOK' /\ StartOnce'
    BY <1>1, <1>3, <1>5, FrameKeeps
<1>7. TypeOK'
    BY <1>1, <1>2, <1>3, <1>6, DataTypes, WorkType
<1>8. WorkOK' /\ AckedReceived'
    BY <1>1, <1>2, <1>3 DEF IInv, Inv, WorkOK, AckedReceived
<1> QED BY <1>1, <1>4, <1>6, <1>7, <1>8, WorkStep

(* Once the file is whole no chunk is left on the channel. *)
LEMMA WholeIsLast ==
    ASSUME IInv, file = Whole, chan.frames # <<>>, Head(chan.frames) # Fin
    PROVE  FALSE
<1>1. TypeOK /\ WorkOK /\ FramesOK
    BY DEF IInv, Inv
<1>2. file \in Seq(1 .. Chunks) /\ Chunks \in Nat \ {0} /\ DOMAIN file = 1 .. Chunks
    BY <1>1, DataTypes, ConstantsAssumption DEF Whole
<1>3. Len(file) = Chunks
    BY <1>2
<1>4. file[Chunks] = Chunks
    BY <1>2 DEF Whole
<1>5. confirmed["recv"] = Chunks
    BY <1>1, <1>2, <1>3, <1>4 DEF WorkOK
<1>6. chan.frames \in Seq(0 .. Chunks)
    BY <1>1, DataTypes DEF ChanType
<1>7. /\ Head(chan.frames) = chan.frames[1] /\ 1 \in 1 .. Len(chan.frames)
      /\ chan.frames[1] \in 0 .. Chunks
    BY <1>6, TailFacts
<1>8. Chunks < chan.frames[1]
    BY <1>1, <1>5, <1>7 DEF FramesOK
<1> QED BY <1>2, <1>7, <1>8

LEMMA ReceiveChunkStep ==
    ASSUME IInv, ReceiveChunk
    PROVE  IInv'
<1> DEFINE seq == Head(chan.frames)
           ack == Message("ack", TRUE, seq)
<1>1. /\ NextFrame /\ seq # Fin /\ worker["recv"] \in {"run", "done"}
      /\ UNCHANGED <<state, mu, worker, cancelled, ctl, sent, verified, fired>>
    BY DEF ReceiveChunk
<1>2. /\ TypeOK /\ WorkOK /\ AckedReceived /\ FramesOK /\ faults' \in Nat
      /\ "recv" \in Side /\ "send" \in Side /\ "worker" \in Role
    BY Types DEF IInv, Inv, ReceiveChunk, Fault, NoFault, Side, Role
<1>3. /\ chan' \in ChanType /\ chan'.phase = "announced" /\ chan.phase = "announced"
      /\ seq = chan.frames[1] /\ 1 \in 1 .. Len(chan.frames) /\ seq \in 0 .. Chunks
    BY <1>1, FrameTaken
<1>4. confirmed["recv"] < seq /\ seq <= sent /\ seq \in Nat /\ seq \in 1 .. Chunks
    BY <1>1, <1>2, <1>3, DataTypes DEF FramesOK, Fin
<1>5. file # Whole
    BY <1>1, WholeIsLast DEF NextFrame
<1> HIDE DEF seq
<1>6. CASE UNCHANGED <<file, confirmed>> /\ Plan("recv", "worker", <<Try("failed")>>)
    <2>1. FramesOK'
        BY <1>1, <1>6, FramesLeft
    <2>2. Grows
        BY <1>1, <1>2, <1>3, <1>6, DataTypes DEF Grows
    <2>3. todo' \in TodoType /\ TodoOK' /\ CtlOK' /\ StartOnce'
        <3>1. GoodList("recv", "worker", <<Try("failed")>>) /\ NoStart(<<Try("failed")>>)
            BY <1>2, GoodFailed
        <3> QED BY <1>1, <1>2, <1>3, <1>6, <2>2, <3>1, PlanKeeps
    <2>4. TypeOK'
        BY <1>1, <1>2, <1>3, <1>6, <2>3, DataTypes, WorkType
    <2>5. WorkOK' /\ AckedReceived'
        BY <1>1, <1>2, <1>3, <1>6 DEF WorkOK, AckedReceived
    <2> QED BY <1>1, <1>5, <2>1, <2>3, <2>4, <2>5, WorkStep
<1>7. CASE /\ file' = Append(file, seq) /\ confirmed' = [confirmed EXCEPT !["recv"] = seq]
           /\ Plan("recv", "worker", <<SendOp(ack)>>) \/ Plan("recv", "worker", <<>>)
    <2>1. /\ confirmed' \in [Side -> 0 .. Chunks]
          /\ confirmed'["recv"] = seq /\ confirmed'["send"] = confirmed["send"]
        BY <1>2, <1>3, <1>7, DataTypes
    <2>2. file' \in Seq(1 .. Chunks) /\ Len(file') = Len(file) + 1 /\ file'[Len(file')] = seq
        BY <1>2, <1>4, <1>7, DataTypes
    <2>3. FramesOK'
        BY <1>1, <2>1, FramesLeft DEF seq
    <2>4. Grows
        BY <1>1, <1>2, <1>3, <1>4, <1>5, <2>1, DataTypes DEF Grows
    <2>5. ack \in Msg /\ MsgNext(ack)
        <3>1. ack \in Msg
            BY <1>4, MessageTypes
        <3>2. ack.type = "ack" /\ ack.seq = seq
            BY DEF Message
        <3> HIDE DEF ack
        <3>3. ack.seq <= confirmed'["recv"]
            <4>1. seq <= confirmed'["recv"]
                BY <1>4, <2>1
            <4> QED BY <3>2, <4>1, Zenon
        <3>4. ack.type # "complete"
            BY <3>2
        <3> QED BY <3>1, <3>3, <3>4 DEF MsgNext, GoodMsg
    <2> HIDE DEF ack
    <2>6. todo' \in TodoType /\ TodoOK' /\ CtlOK' /\ StartOnce'
        <3>1. GoodList("recv", "worker", <<SendOp(ack)>>) /\ NoStart(<<SendOp(ack)>>)
            BY <1>2, <2>5, GoodSendOp, List1
        <3>2. GoodList("recv", "worker", <<>>) /\ NoStart(<<>>)
            BY <1>2, List0
        <3>3. UNCHANGED <<ctl, state>> /\ (chan'.phase = "none" <=> chan.phase = "none")
            BY <1>1, <1>3
        <3> QED BY <1>2, <1>7, <2>4, <3>1, <3>2, <3>3, PlanKeeps
    <2>7. TypeOK'
        <3>1. UNCHANGED <<state, mu, worker, cancelled, ctl, sent, verified, fired>>
            BY <1>1
        <3> QED BY <1>2, <1>3, <2>1, <2>2, <2>6, <3>1, DataTypes, WorkType
    <2>8. WorkOK'
        <3>1. UNCHANGED <<state, worker, sent, verified>>
            BY <1>1
        <3> QED BY <1>1, <1>2, <1>3, <2>1, <2>2, <3>1 DEF WorkOK
    <2>9. AckedReceived'
        BY <1>1, <1>2, <1>4, <2>1, DataTypes DEF AckedReceived
    <2> QED BY <1>1, <1>5, <2>3, <2>6, <2>7, <2>8, <2>9, WorkStep
<1> QED BY <1>6, <1>7 DEF ReceiveChunk, seq

LEMMA FinalizeStep ==
    ASSUME IInv, finalize
    PROVE  IInv'
<1> DEFINE ok == worker["recv"] = "run" /\ file = Whole
           m == Message("complete", ok, 0)
           good == <<Try("completing"), Try("done")>>
           bad == <<Try("failed")>>
           tail == <<Call("fire"), Call("close")>>
<1>1. /\ NextFrame
      /\ Plan("recv", "worker", <<SendOp(m)>> \o (IF ok THEN good ELSE bad) \o tail)
      /\ UNCHANGED <<state, mu, worker, cancelled, ctl, sent, file, confirmed, verified, fired, faults>>
    BY DEF finalize
<1>2. TypeOK /\ WorkOK /\ "recv" \in Side /\ "worker" \in Role
    BY DEF IInv, Inv, Side, Role
<1>3. chan' \in ChanType /\ chan'.phase = "announced" /\ chan.phase = "announced"
    BY <1>1, FrameTaken
<1>4. FramesOK'
    BY <1>1, FramesLeft
<1>5. Grows
    BY <1>1, <1>2, <1>3, DataTypes DEF Grows
<1>6. m \in Msg /\ MsgNext(m)
    <2>1. ok \in BOOLEAN
        OBVIOUS
    <2>2. ok = TRUE => file' = Whole
        BY <1>1
    <2> HIDE DEF ok
    <2>3. m \in Msg
        BY <2>1, MessageTypes
    <2>4. m.type = "complete" /\ m.ok = ok
        BY DEF Message
    <2> QED BY <2>2, <2>3, <2>4 DEF MsgNext, GoodMsg
<1>7. ok => file' = Whole
    BY <1>1
<1>8. GoodList("recv", "worker", tail) /\ NoStart(tail)
    BY <1>2, <1>3, GoodCall, List2
<1>9. GoodList("recv", "worker", bad) /\ NoStart(bad)
    BY <1>2, GoodFailed
<1>10. ok => GoodList("recv", "worker", good) /\ NoStart(good)
    BY <1>2, <1>7, StateElements, GoodTry, GoodFailed, List2
<1>11. GoodList("recv", "worker", <<SendOp(m)>>) /\ NoStart(<<SendOp(m)>>)
    <2> HIDE DEF m
    <2> QED BY <1>2, <1>6, GoodSendOp, List1
<1>12. UNCHANGED <<ctl, state>> /\ (chan'.phase = "none" <=> chan.phase = "none")
    BY <1>1, <1>3
<1> DEFINE first == <<SendOp(m)>>
           rest == IF ok THEN good ELSE bad
<1>13. GoodList("recv", "worker", rest) /\ NoStart(rest)
    <2> HIDE DEF ok, good, bad
    <2> QED BY <1>9, <1>10
<1>14. /\ Plan("recv", "worker", first \o rest \o tail)
       /\ GoodList("recv", "worker", first) /\ NoStart(first)
    BY <1>1, <1>11
<1> HIDE DEF first, rest, tail
<1>15. GoodList("recv", "worker", first \o rest \o tail) /\ NoStart(first \o rest \o tail)
    <2>1. GoodList("recv", "worker", first \o rest) /\ NoStart(first \o rest)
        BY <1>2, <1>13, <1>14, ListConcat
    <2> QED BY <1>2, <1>8, <2>1, ListConcat
<1>16. todo' \in TodoType /\ TodoOK' /\ CtlOK' /\ StartOnce'
    BY <1>2, <1>5, <1>12, <1>14, <1>15, PlanKeeps
<1>17. TypeOK'
    <2>1. UNCHANGED <<state, mu, worker, cancelled, ctl, sent, file, confirmed, verified, fired, faults>>
        BY <1>1
    <2> QED BY <1>2, <1>3, <1>16, <2>1, DataTypes, Types, WorkType
<1>18. WorkOK' /\ AckedReceived'
    <2>1. UNCHANGED <<state, worker, sent, file, confirmed, verified>>
        BY <1>1
    <2> QED BY <1>2, <1>3, <2>1 DEF IInv, Inv, WorkOK, AckedReceived
<1>19. UNCHANGED <<state, file>>
    BY <1>1
<1> QED BY <1>4, <1>16, <1>17, <1>18, <1>19, WorkStep

-----------------------------------------------------------------------------
LEMMA InitOK == Init => IInv
<1> SUFFICES ASSUME Init PROVE IInv
    OBVIOUS
<1>1. TypeOK
    BY ConstantsAssumption, StateElements DEF Init, TypeOK, Absent, Life
<1>2. TodoOK /\ CtlOK
    BY DEF Init, TodoOK, CtlOK
<1>3. StartOnce
    <2>1. ~HasStart(Accepting)
        BY DEF Init, Accepting, HasStart, Side, Role
    <2> QED BY <2>1 DEF Init, StartOnce, Committed
<1>4. WorkOK /\ FramesOK /\ AckedReceived /\ DoneMeansWhole
    BY DEF Init, WorkOK, FramesOK, AckedReceived, DoneMeansWhole, Side
<1> QED BY <1>1, <1>2, <1>3, <1>4 DEF IInv, Inv

LEMMA StutterStep ==
    ASSUME IInv, UNCHANGED vars
    PROVE  IInv'
<1>1. UNCHANGED <<state, mu, worker, cancelled, ctl, chan, sent, file, confirmed, verified, fired, faults, todo>>
    BY DEF vars
<1>2. TypeOK /\ Calm /\ Grows
    BY <1>1, CalmSame, CalmGrows DEF IInv
<1>3. todo' \in TodoType /\ TodoOK' /\ CtlOK' /\ StartOnce'
    BY <1>1, <1>2, FrameKeeps
<1>4. TypeOK'
    BY <1>1, <1>2, <1>3, Types, NextType
<1> QED BY <1>2, <1>3, <1>4, CalmStep

LEMMA NextOK == IInv /\ [Next]_vars => IInv'
<1> SUFFICES ASSUME IInv, [Next]_vars PROVE IInv'
    OBVIOUS
<1>1. ASSUME NEW s \in Side, NEW r \in Role, Do(s, r) PROVE IInv'
    BY <1>1, CheckStep, SetStep, SendStep, startSenderStep, FireStep, StopStep,
       StopUnstartedStep, CloseStep DEF Do
<1>2. CASE Handler
    BY <1>2, OfferStep, AcceptStep, RejectStep, ReadyStep, CompleteStep, AckStep DEF Handler
<1>3. CASE Sender
    <2>1. ASSUME SenderOpened \/ SenderNotOpened PROVE IInv'
        BY <2>1, WorkerStep DEF SenderOpened, SenderNotOpened, Side, Life
    <2> QED BY <1>3, <2>1, SenderErrorStep, SendChunkStep, SendFINStep DEF Sender
<1>4. CASE Receiver
    <2>1. ASSUME ReceiverStarted \/ ReceiverEnded PROVE IInv'
        BY <2>1, WorkerStep DEF ReceiverStarted, ReceiverEnded, Side, Life
    <2> QED BY <1>4, <2>1, IncomingStep, MissStep, ReceiveChunkStep, FinalizeStep DEF Receiver
<1>5. ASSUME NEW s \in Side, Register(s) \/ Start(s) \/ timeoutLoop(s) PROVE IInv'
    BY <1>5, RegisterStep, StartStep, TimeoutStep
<1>6. CASE Environment
    BY <1>6, InitiateStep, CancelStep, ForgeStep DEF Environment
<1>7. CASE UNCHANGED vars
    BY <1>7, StutterStep
<1> QED BY <1>1, <1>2, <1>3, <1>4, <1>5, <1>6, <1>7 DEF Next, System

LEMMA Invariance == Spec => []IInv
BY InitOK, NextOK, PTL DEF Spec

(* The Transfer records, the operations each goroutine has left, the       *)
(* control messages and the frames keep their types; in particular no      *)
(* acknowledgment and no frame carries a number beyond the last chunk.     *)
THEOREM TypeCorrect == Spec => []TypeOK
<1>1. IInv => TypeOK
    BY DEF IInv
<1> QED BY <1>1, Invariance, PTL

(* Either side's done means the whole file is on the receiver's disk:      *)
(* Transition is not atomic and messages may be lost, but done is only     *)
(* ever set by a goroutine that saw a verified hash, or a message that     *)
(* reports one, and a whole file stays whole.                              *)
THEOREM DoneIsWhole == Spec => []DoneMeansWhole
<1>1. IInv => DoneMeansWhole
    BY DEF IInv, Inv
<1> QED BY <1>1, Invariance, PTL

(* No chunk leaves the sender, and none is written by the receiver, before *)
(* VerifyChallenge has accepted the peer's signature.                      *)
THEOREM AuthenticatedFirst == Spec => []AuthBeforeData
<1>1. IInv => AuthBeforeData
    BY DEF IInv, Inv, WorkOK, AuthBeforeData
<1> QED BY <1>1, Invariance, PTL

(* The sender's lastConfirmedSeq never runs ahead of what the receiver has *)
(* taken in, nor that of what was sent.                                    *)
THEOREM AcksAreTrue == Spec => []AckedReceived
<1>1. IInv => AckedReceived
    BY DEF IInv, Inv
<1> QED BY <1>1, Invariance, PTL
=============================================================================
