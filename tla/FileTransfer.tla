----------------------------- MODULE FileTransfer -----------------------------
(***************************************************************************)
(* One file transfer: filetransfer.Manager at the sending and at the       *)
(* receiving agent, their control messages and the file's data channel.    *)
(*                                                                         *)
(* On each side four goroutines share the Transfer record: the handler of  *)
(* control messages, the worker (the sender's goroutine, or the receiver's *)
(* OnMessage callback), the user's calls and the timeout loop.  The record *)
(* has no lock: Transition reads State and writes it later, so it is two   *)
(* steps here.  m.mu is held only where the code holds it.                 *)
(*                                                                         *)
(* What a goroutine still has to do is a list of operations, todo: a step  *)
(* puts there what its function does, in order, and Do performs the first. *)
(***************************************************************************)
EXTENDS Naturals, Sequences

CONSTANTS
    Chunks,       \* number of chunks of the file
    AckInterval,  \* an acknowledgment is sent for every so many chunks
    CanTimeout,   \* the inactivity timeouts may expire
    Wirings,      \* does the transport hand file channels to the manager?
    Faults,       \* which choices of the outside may be made (FaultKinds)
    MaxFaults     \* bound on how often they are

(* distrust: the receiver does not trust the sender; forge: a message with *)
(* a wrong signature arrives; send: an envelope is not sent; channel: no   *)
(* data channel; io: a file operation or encryption fails; early: a frame  *)
(* comes before OnMessage is installed; key: the peer's public key is not  *)
(* known or the answer cannot be signed; cancel: the user cancels; slow: a *)
(* timeout falls between two steps of a goroutine.                         *)
FaultKinds == {"distrust", "forge", "send", "channel", "io", "early", "key", "cancel", "slow"}

ASSUME ConstantsAssumption ==
    /\ Chunks \in Nat \ {0} /\ AckInterval \in Nat \ {0}
    /\ CanTimeout \in BOOLEAN /\ Wirings \subseteq BOOLEAN
    /\ Faults \subseteq FaultKinds /\ MaxFaults \in Nat

Side == {"send", "recv"}
Other(s) == IF s = "send" THEN "recv" ELSE "send"
Role == {"handler", "worker", "user", "timer"}

VARIABLES
    state,      \* side -> Transfer.State; none, gone: no record, record deleted
    todo,       \* side -> role -> what the goroutine still has to do
    mu,         \* side -> who holds m.mu over several steps
    worker,     \* side -> Sender or Receiver and its goroutine (Life)
    cancelled,  \* side -> its context was cancelled
    ctl,        \* side -> control messages on their way to it
    chan,       \* data channel
    sent,       \* chunks put on the channel
    file,       \* sequence numbers of the chunks in the receiver's file
    confirmed,  \* side -> lastConfirmedSeq
    verified,   \* side -> the peer's signature of our challenge was verified
    fired,      \* side -> calls of OnComplete
    faults      \* how many faults there have been

vars == <<state, todo, mu, worker, cancelled, ctl, chan, sent, file, confirmed, verified, fired, faults>>

validTransitions ==
    [idle         |-> {"offered"},
     offered      |-> {"accepted", "failed", "cancelled"},
     accepted     |-> {"transferring", "failed", "cancelled"},
     transferring |-> {"completing", "failed", "cancelled"},
     completing   |-> {"done", "failed"},
     done         |-> {},
     failed       |-> {},
     cancelled    |-> {}]

State == DOMAIN validTransitions
Terminal == {"done", "failed", "cancelled"}
Absent == {"none", "gone"}

(* Slip: the completing state has no timeout.                              *)
StateTimeoutPartial == {"offered", "accepted", "transferring"}

(* The states with an inactivity timeout.                                  *)
StateTimeout == {"offered", "accepted", "transferring", "completing"}

(* ok: the signature of accept and ready, SHA256Verified of complete.      *)
Msg == [type : {"offer", "accept", "reject", "ready", "complete", "ack"}, ok : BOOLEAN, seq : Nat]
Message(type, ok, seq) == [type |-> type, ok |-> ok, seq |-> seq]
NoMsg == Message("offer", FALSE, 0)

(* Transition(to) with its error ignored or returned, its second half, a   *)
(* send, startSender, fireOnComplete, Stop and dc.Close.                   *)
Op == [do  : {"try", "must", "set", "send", "start", "fire", "stop", "close"},
       to  : State,
       msg : Msg]
Try(to)   == [do |-> "try",  to |-> to, msg |-> NoMsg]
Must(to)  == [do |-> "must", to |-> to, msg |-> NoMsg]
SendOp(m) == [do |-> "send", to |-> "idle", msg |-> m]
Call(do)  == [do |-> do, to |-> "idle", msg |-> NoMsg]

Fin == 0   \* the FIN frame; data frames carry 1 .. Chunks

(* none: there is no Sender or Receiver; found: it has a channel and is    *)
(* not in its map; made: it is, but Start has not been called; broken: it  *)
(* has no file; orphan: Stop came before Start, whose goroutine nobody can *)
(* cancel any more, nor wake up, since its channel is closed.              *)
Life == {"none", "found", "made", "opening", "run", "done", "broken", "orphan"}

TypeOK ==
    /\ state \in [Side -> State \cup Absent]
    /\ todo \in [Side -> [Role -> Seq(Op)]]
    /\ mu \in [Side -> Role \cup {"free"}]
    /\ worker \in [Side -> Life]
    /\ cancelled \in [Side -> BOOLEAN]
    /\ ctl \in [Side -> Seq(Msg)]
    /\ chan \in [phase : {"none", "created", "announced", "closed"}, frames : Seq(0 .. Chunks)]
    /\ sent \in 0 .. Chunks
    /\ file \in Seq(1 .. Chunks)
    /\ confirmed \in [Side -> 0 .. Chunks]
    /\ verified \in [Side -> BOOLEAN]
    /\ fired \in [Side -> Nat]
    /\ faults \in Nat

Init ==
    /\ state = [s \in Side |-> "none"]
    /\ todo = [s \in Side |-> [r \in Role |-> <<>>]]
    /\ mu = [s \in Side |-> "free"]
    /\ worker = [s \in Side |-> "none"]
    /\ cancelled = [s \in Side |-> FALSE]
    /\ ctl = [s \in Side |-> <<>>]
    /\ chan = [phase |-> "none", frames |-> <<>>]
    /\ sent = 0
    /\ file = <<>>
    /\ confirmed = [s \in Side |-> 0]
    /\ verified = [s \in Side |-> FALSE]
    /\ fired = [s \in Side |-> 0]
    /\ faults = 0

Fault(kind) == kind \in Faults /\ faults < MaxFaults /\ faults' = faults + 1
NoFault == UNCHANGED faults

Whole == [i \in 1 .. Chunks |-> i]

Idle(s, r) == todo[s][r] = <<>>
Plan(s, r, ops) == todo' = [todo EXCEPT ![s][r] = ops]
Deliver(s, m) == ctl' = [ctl EXCEPT ![s] = Append(@, m)]
Closed == [phase |-> "closed", frames |-> <<>>]

-----------------------------------------------------------------------------
(* Slips: plausible mistakes in the code, each of which breaks a property. *)

(* Transition to a state that is not one of the constants.                 *)
SetMisspelt(s, r) ==
    /\ todo[s][r] # <<>> /\ Head(todo[s][r]).do = "set"
    /\ state' = [state EXCEPT ![s] = IF Head(todo[s][r]).to = "done" THEN "complete" ELSE Head(todo[s][r]).to]
    /\ Plan(s, r, Tail(todo[s][r]))
    /\ UNCHANGED <<mu, worker, cancelled, ctl, chan, sent, file, confirmed, verified, fired, faults>>

(* VerifyChallenge's error is dropped.                                     *)
VerifyNothing(s, ok, ops) ==
    /\ verified' = [verified EXCEPT ![s] = @ \/ (state[s] \notin Absent /\ ok)]
    /\ Plan(s, "handler", IF state[s] \in Absent THEN <<>> ELSE ops)
    /\ UNCHANGED <<state, mu, worker, cancelled, chan, sent, file, confirmed, fired, faults>>

(* The sender's goroutine waits for the channel to open, not for ctx.      *)
SenderNotOpenedNever == FALSE

(* finalize compares nothing: the file is taken for whole.                 *)
finalizeUnverified ==
    /\ chan.phase = "announced"
    /\ chan.frames # <<>>
    /\ Idle("recv", "worker")
    /\ Head(chan.frames) = Fin
    /\ worker["recv"] \in {"run", "done"}
    /\ chan' = [chan EXCEPT !.frames = Tail(@)]
    /\ Plan("recv", "worker",
            <<SendOp(Message("complete", TRUE, 0)), Try("completing"), Try("done"),
              Call("fire"), Call("close")>>)
    /\ UNCHANGED <<state, mu, worker, cancelled, ctl, sent, file, confirmed, verified, fired, faults>>

(* The acknowledgment names the chunk expected next.                       *)
handleChunkAckNext ==
    /\ Idle("send", "handler")
    /\ mu["send"] = "free"
    /\ ctl["send"] # <<>>
    /\ Head(ctl["send"]).type = "ack"
    /\ ctl' = [ctl EXCEPT !["send"] = Tail(@)]
    /\ confirmed' = [confirmed EXCEPT !["send"] = Head(ctl["send"]).seq + 1]
    /\ UNCHANGED <<state, todo, mu, worker, cancelled, chan, sent, file, verified, fired, faults>>

-----------------------------------------------------------------------------
(* The operations.  Each removes itself from the list.                     *)

Does(s, r, do) == ~ Idle(s, r) /\ Head(todo[s][r]).do = do
Rest(s, r) == Tail(todo[s][r])

(* Transition, first half: ValidTransition(t.State, to).                   *)
Check(s, r) ==
    LET op == Head(todo[s][r]) IN
    /\ Does(s, r, "try") \/ Does(s, r, "must")
    /\ Plan(s, r, IF state[s] \in State /\ op.to \in validTransitions[state[s]]
                  THEN <<[op EXCEPT !.do = "set"]>> \o Rest(s, r)
                  ELSE IF op.do = "try" THEN Rest(s, r) ELSE <<>>)
    /\ UNCHANGED <<state, mu, worker, cancelled, ctl, chan, sent, file, confirmed, verified, fired, faults>>

(* Transition, second half: t.State = to.                                  *)
Set(s, r) ==
    /\ Does(s, r, "set")
    /\ state' = [state EXCEPT ![s] = Head(todo[s][r]).to]
    /\ Plan(s, r, Rest(s, r))
    /\ UNCHANGED <<mu, worker, cancelled, ctl, chan, sent, file, confirmed, verified, fired, faults>>

(* A send that fails deletes an offered transfer, ends handleFileAccept    *)
(* and is ignored everywhere else.                                         *)
Send(s, r) ==
    LET m == Head(todo[s][r]).msg IN
    /\ Does(s, r, "send")
    /\ \/ /\ NoFault
          /\ Deliver(Other(s), m)
          /\ Plan(s, r, Rest(s, r))
          /\ UNCHANGED state
       \/ /\ Fault("send")
          /\ Plan(s, r, IF m.type = "ready" THEN <<>> ELSE Rest(s, r))
          /\ state' = IF m.type = "offer" THEN [state EXCEPT ![s] = "gone"] ELSE state
          /\ UNCHANGED ctl
    /\ UNCHANGED <<mu, worker, cancelled, chan, sent, file, confirmed, verified, fired>>

(* CreateFileDataChannel and NewSender.                                    *)
startSender(s, r) ==
    /\ Does(s, r, "start")
    /\ \/ /\ NoFault
          /\ chan' = [chan EXCEPT !.phase = "created"]
          /\ worker' = [worker EXCEPT ![s] = "found"]
          /\ Plan(s, r, Rest(s, r))
       \/ /\ Fault("channel")
          /\ Plan(s, r, <<Try("failed")>>)
          /\ UNCHANGED <<chan, worker>>
    /\ UNCHANGED <<state, mu, cancelled, ctl, sent, file, confirmed, verified, fired>>

fireOnComplete(s, r) ==
    /\ Does(s, r, "fire")
    /\ fired' = IF state[s] \in Terminal THEN [fired EXCEPT ![s] = @ + 1] ELSE fired
    /\ Plan(s, r, Rest(s, r))
    /\ UNCHANGED <<state, mu, worker, cancelled, ctl, chan, sent, file, confirmed, verified, faults>>

(* wg.Wait returns: the sender's goroutine has also made its last          *)
(* transition; the receiver's OnMessage is not waited for.                 *)
Gone(s) == worker[s] = "broken" \/ (worker[s] = "done" /\ (s = "send" => Idle(s, "worker")))

(* Under m.mu, Sender.Stop or Receiver.Stop: cancel, wait for the          *)
(* goroutine, close the channel; nothing if there is none in the map.      *)
Stop(s, r) ==
    /\ Does(s, r, "stop")
    /\ mu[s] \in {"free", r}
    /\ \/ /\ worker[s] \in {"opening", "run", "done", "broken"} /\ ~ cancelled[s]
          /\ cancelled' = [cancelled EXCEPT ![s] = TRUE]
          /\ mu' = [mu EXCEPT ![s] = r]
          /\ UNCHANGED <<chan, todo>>
       \/ /\ cancelled[s] /\ Gone(s)
          /\ chan' = Closed
          /\ mu' = [mu EXCEPT ![s] = "free"]
          /\ Plan(s, r, Rest(s, r))
          /\ UNCHANGED cancelled
       \/ /\ worker[s] \in {"none", "found", "orphan"}
          /\ mu' = [mu EXCEPT ![s] = "free"]
          /\ Plan(s, r, Rest(s, r))
          /\ UNCHANGED <<chan, cancelled>>
    /\ UNCHANGED <<state, worker, ctl, sent, file, confirmed, verified, fired, faults>>

(* Stop before Start: there is no cancel function and no goroutine yet.    *)
StopUnstarted(s, r) ==
    /\ Does(s, r, "stop")
    /\ mu[s] \in {"free", r}
    /\ worker[s] = "made"
    /\ worker' = [worker EXCEPT ![s] = "orphan"]
    /\ chan' = Closed
    /\ mu' = [mu EXCEPT ![s] = "free"]
    /\ Plan(s, r, Rest(s, r))
    /\ UNCHANGED <<state, cancelled, ctl, sent, file, confirmed, verified, fired, faults>>

CloseChannel(s, r) ==
    /\ Does(s, r, "close")
    /\ chan' = Closed
    /\ Plan(s, r, Rest(s, r))
    /\ UNCHANGED <<state, mu, worker, cancelled, ctl, sent, file, confirmed, verified, fired, faults>>

Do(s, r) ==
    \/ Check(s, r) \/ Set(s, r) \/ Send(s, r) \/ startSender(s, r) \/ fireOnComplete(s, r)
    \/ Stop(s, r) \/ StopUnstarted(s, r) \/ CloseChannel(s, r)

-----------------------------------------------------------------------------
(* The user's calls and the timeout loop.                                  *)

InitiateSend ==
    /\ state["send"] = "none"
    /\ state' = [state EXCEPT !["send"] = "offered"]
    /\ Plan("send", "user", <<SendOp(Message("offer", TRUE, 0))>>)
    /\ UNCHANGED <<mu, worker, cancelled, ctl, chan, sent, file, confirmed, verified, fired, faults>>

(* Under m.mu: transition, stop the worker; OnComplete after the unlock.   *)
End(s, r, to) ==
    /\ Idle(s, r)
    /\ mu[s] = "free"
    /\ mu' = [mu EXCEPT ![s] = r]
    /\ Plan(s, r, <<Try(to), Call("stop"), Call("fire")>>)
    /\ UNCHANGED <<state, worker, cancelled, ctl, chan, sent, file, confirmed, verified, fired>>

Cancel(s) == Fault("cancel") /\ state[s] \notin Absent \cup Terminal /\ End(s, "user", "cancelled")

(* The record has been inactive for 30 seconds at least.  A goroutine may  *)
(* have been sending for so long; that one has just begun, or is held up,  *)
(* inside a Transition or between two of them is rare, and counted.        *)
Inactive(s) == \A r \in Role : Idle(s, r) \/ Does(s, r, "send")

timeoutLoop(s) ==
    /\ CanTimeout
    /\ state[s] \in StateTimeout
    /\ (Inactive(s) /\ NoFault) \/ (~ Inactive(s) /\ Fault("slow"))
    /\ End(s, "timer", "failed")

-----------------------------------------------------------------------------
(* HandleEnvelope: one control message at a time.  Every handler looks the *)
(* transfer up under m.mu.  That of the sending side ends with startSender, *)
(* when the Sender has been started.                                       *)

Receiving(s, type) ==
    /\ Idle(s, "handler")
    /\ s = "send" => worker[s] \notin {"found", "made"}
    /\ mu[s] = "free"
    /\ ctl[s] # <<>>
    /\ Head(ctl[s]).type = type
    /\ ctl' = [ctl EXCEPT ![s] = Tail(@)]

Known(s) == state[s] \notin Absent

handleFileOffer ==
    /\ Receiving("recv", "offer")
    /\ \/ /\ NoFault
          /\ state' = [state EXCEPT !["recv"] = "accepted"]
          /\ Plan("recv", "handler", <<SendOp(Message("accept", TRUE, 0))>>)
       \/ /\ Fault("distrust")
          /\ Plan("recv", "handler", <<SendOp(Message("reject", TRUE, 0))>>)
          /\ UNCHANGED state
    /\ UNCHANGED <<mu, worker, cancelled, chan, sent, file, confirmed, verified, fired>>

(* VerifyChallenge on the answer to our challenge, then what follows it.   *)
(* Nothing follows if the peer's key is not known or ours fails to sign.   *)
Verify(s, ok, ops) ==
    /\ \/ /\ NoFault
          /\ verified' = [verified EXCEPT ![s] = @ \/ (Known(s) /\ ok)]
          /\ Plan(s, "handler", IF ~ Known(s) THEN <<>> ELSE IF ok THEN ops ELSE <<Try("failed")>>)
       \/ /\ Fault("key")
          /\ Plan(s, "handler", <<>>)
          /\ UNCHANGED verified
    /\ UNCHANGED <<state, mu, worker, cancelled, chan, sent, file, confirmed, fired>>

handleFileAccept ==
    /\ Receiving("send", "accept")
    /\ Verify("send", Head(ctl["send"]).ok,
              <<Must("accepted"), Must("transferring"),
                SendOp(Message("ready", TRUE, 0)), Call("start")>>)

handleTransferReady ==
    /\ Receiving("recv", "ready")
    /\ Verify("recv", Head(ctl["recv"]).ok, <<Must("transferring")>>)

handleFileReject ==
    /\ Receiving("send", "reject")
    /\ Plan("send", "handler", IF Known("send") THEN <<Try("failed"), Call("fire")>> ELSE <<>>)
    /\ UNCHANGED <<state, mu, worker, cancelled, chan, sent, file, confirmed, verified, fired, faults>>

handleTransferComplete ==
    LET result == IF Head(ctl["send"]).ok THEN <<Try("completing"), Try("done")>>
                                          ELSE <<Try("failed")>> IN
    /\ Receiving("send", "complete")
    /\ Plan("send", "handler",
            IF Known("send")
            THEN result \o <<Call("fire"), Call("stop")>>
            ELSE <<>>)
    /\ UNCHANGED <<state, mu, worker, cancelled, chan, sent, file, confirmed, verified, fired, faults>>

handleChunkAck ==
    /\ Receiving("send", "ack")
    /\ confirmed' = IF Known("send") THEN [confirmed EXCEPT !["send"] = Head(ctl["send"]).seq]
                                     ELSE confirmed
    /\ UNCHANGED <<state, todo, mu, worker, cancelled, chan, sent, file, verified, fired, faults>>

-----------------------------------------------------------------------------
(* A new Sender or Receiver: m.mu is taken to put it into its map, and     *)
(* released again before it is started.                                    *)

Register(s) ==
    /\ worker[s] = "found"
    /\ mu[s] = "free"
    /\ worker' = [worker EXCEPT ![s] = "made"]
    /\ UNCHANGED <<state, todo, mu, cancelled, ctl, chan, sent, file, confirmed, verified, fired, faults>>

(* The Receiver creates its file before its goroutine.                     *)
Start(s) ==
    /\ worker[s] = "made"
    /\ \/ /\ NoFault
          /\ worker' = [worker EXCEPT ![s] = "opening"]
          /\ file' = IF s = "recv" THEN <<>> ELSE file
          /\ UNCHANGED todo
       \/ /\ s = "recv" /\ Fault("io")
          /\ worker' = [worker EXCEPT ![s] = "broken"]
          /\ Plan(s, "worker", <<Try("failed")>>)
          /\ UNCHANGED file
    /\ UNCHANGED <<state, mu, cancelled, ctl, chan, sent, confirmed, verified, fired>>

-----------------------------------------------------------------------------
(* Sender: the goroutine of Sender.Start.                                  *)

(* A channel closed before OnOpen is installed never reports that it opened. *)
SenderOpened ==
    /\ worker["send"] = "opening"
    /\ chan.phase \in {"created", "announced"}
    /\ worker' = [worker EXCEPT !["send"] = "run"]
    /\ UNCHANGED <<state, todo, mu, cancelled, ctl, chan, sent, file, confirmed, verified, fired, faults>>

(* It leaves the wait for the channel without touching the transfer.       *)
SenderNotOpened ==
    /\ worker["send"] = "opening"
    /\ cancelled["send"]
    /\ worker' = [worker EXCEPT !["send"] = "done"]
    /\ UNCHANGED <<state, todo, mu, cancelled, ctl, chan, sent, file, confirmed, verified, fired, faults>>

(* sendLoop returns an error: cancelled, closed channel, file or cipher.   *)
SenderError ==
    /\ worker["send"] = "run"
    /\ (NoFault /\ (cancelled["send"] \/ chan.phase = "closed")) \/ Fault("io")
    /\ worker' = [worker EXCEPT !["send"] = "done"]
    /\ Plan("send", "worker", <<Try("failed")>>)
    /\ UNCHANGED <<state, mu, cancelled, ctl, chan, sent, file, confirmed, verified, fired>>

SendChunk ==
    /\ worker["send"] = "run"
    /\ chan.phase # "closed"
    /\ sent < Chunks
    /\ sent' = sent + 1
    /\ chan' = [chan EXCEPT !.frames = Append(@, sent + 1)]
    /\ UNCHANGED <<state, todo, mu, worker, cancelled, ctl, file, confirmed, verified, fired, faults>>

SendFIN ==
    /\ worker["send"] = "run"
    /\ chan.phase # "closed"
    /\ sent = Chunks
    /\ chan' = [chan EXCEPT !.frames = Append(@, Fin)]
    /\ worker' = [worker EXCEPT !["send"] = "done"]
    /\ Plan("send", "worker", <<Try("completing")>>)
    /\ UNCHANGED <<state, mu, cancelled, ctl, sent, file, confirmed, verified, fired, faults>>

-----------------------------------------------------------------------------
(* Receiver.                                                               *)

(* The channel reaches the other side.  A manager that is not waiting for  *)
(* it closes it; one that is makes a Receiver.  A channel that nobody      *)
(* handed to the manager is left with the transport, which takes its       *)
(* frames for envelopes and drops them.                                    *)
handleIncomingDataChannel ==
    /\ chan.phase = "created"
    /\ mu["recv"] = "free"
    /\ \/ /\ TRUE \in Wirings /\ state["recv"] = "transferring"
          /\ chan' = [chan EXCEPT !.phase = "announced"]
          /\ worker' = [worker EXCEPT !["recv"] = "found"]
       \/ /\ TRUE \in Wirings /\ state["recv"] # "transferring"
          /\ chan' = Closed
          /\ UNCHANGED worker
       \/ /\ FALSE \in Wirings
          /\ chan' = [chan EXCEPT !.phase = "announced"]
          /\ UNCHANGED worker
    /\ UNCHANGED <<state, todo, mu, cancelled, ctl, sent, file, confirmed, verified, fired, faults>>

(* The goroutine installs OnMessage, waits, and closes the file at the end. *)
ReceiverStarted ==
    /\ worker["recv"] = "opening"
    /\ worker' = [worker EXCEPT !["recv"] = "run"]
    /\ UNCHANGED <<state, todo, mu, cancelled, ctl, chan, sent, file, confirmed, verified, fired, faults>>

ReceiverEnded ==
    /\ worker["recv"] = "run"
    /\ cancelled["recv"] \/ chan.phase = "closed"
    /\ worker' = [worker EXCEPT !["recv"] = "done"]
    /\ UNCHANGED <<state, todo, mu, cancelled, ctl, chan, sent, file, confirmed, verified, fired, faults>>

NextFrame ==
    /\ chan.phase = "announced"
    /\ chan.frames # <<>>
    /\ Idle("recv", "worker")
    /\ chan' = [chan EXCEPT !.frames = Tail(@)]

MissFrame ==
    /\ NextFrame
    /\ worker["recv"] \in {"found", "made", "opening"} /\ Fault("early")
    /\ UNCHANGED <<state, todo, mu, worker, cancelled, ctl, sent, file, confirmed, verified, fired>>

(* A data frame is decrypted, written and counted.  Either step may fail,  *)
(* the write because the file is closed already.                           *)
ReceiveChunk ==
    LET seq == Head(chan.frames) IN
    /\ NextFrame
    /\ seq # Fin
    /\ \/ /\ worker["recv"] = "run"
          /\ NoFault
          /\ file' = Append(file, seq)
          /\ confirmed' = [confirmed EXCEPT !["recv"] = seq]
          /\ Plan("recv", "worker", IF Len(file') % AckInterval = 0
                                    THEN <<SendOp(Message("ack", TRUE, seq))>> ELSE <<>>)
       \/ /\ (worker["recv"] = "done" /\ NoFault) \/ (worker["recv"] = "run" /\ Fault("io"))
          /\ Plan("recv", "worker", <<Try("failed")>>)
          /\ UNCHANGED <<file, confirmed>>
    /\ UNCHANGED <<state, mu, worker, cancelled, ctl, sent, verified, fired>>

(* finalize, on the FIN frame: the hash of a closed file cannot be read.   *)
(* InitiateSend always offers a hash, without which any file would do.     *)
finalize ==
    LET ok == worker["recv"] = "run" /\ file = Whole IN
    /\ NextFrame
    /\ Head(chan.frames) = Fin
    /\ worker["recv"] \in {"run", "done"}
    /\ Plan("recv", "worker",
            <<SendOp(Message("complete", ok, 0))>>
            \o (IF ok THEN <<Try("completing"), Try("done")>> ELSE <<Try("failed")>>)
            \o <<Call("fire"), Call("close")>>)
    /\ UNCHANGED <<state, mu, worker, cancelled, ctl, sent, file, confirmed, verified, fired, faults>>

-----------------------------------------------------------------------------
(* A message whose signature does not match reaches the handler.           *)
Forge(s) ==
    /\ Fault("forge")
    /\ Deliver(s, Message(IF s = "send" THEN "accept" ELSE "ready", FALSE, 0))
    /\ UNCHANGED <<state, todo, mu, worker, cancelled, chan, sent, file, confirmed, verified, fired>>

Handler ==
    \/ handleFileOffer \/ handleFileAccept \/ handleFileReject
    \/ handleTransferReady \/ handleTransferComplete \/ handleChunkAck

Sender == SenderOpened \/ SenderNotOpened \/ SenderError \/ SendChunk \/ SendFIN

Receiver ==
    \/ handleIncomingDataChannel \/ ReceiverStarted \/ ReceiverEnded
    \/ MissFrame \/ ReceiveChunk \/ finalize

System ==
    \/ \E s \in Side, r \in Role : Do(s, r)
    \/ Handler \/ Sender \/ Receiver
    \/ \E s \in Side : Register(s) \/ Start(s) \/ timeoutLoop(s)

Environment == InitiateSend \/ (\E s \in Side : Cancel(s)) \/ (\E s \in Side : Forge(s))

Next == System \/ Environment

(* Every goroutine runs on and the ticker of the timeout loop keeps going. *)
(* Each takes finitely many steps per transfer, so fairness of their       *)
(* disjunction gives each its turn.  Nobody has to send, cancel or forge.  *)
Spec == Init /\ [][Next]_vars /\ WF_vars(System)

-----------------------------------------------------------------------------
(* A transfer that either side reports as done put the whole file, chunk   *)
(* by chunk and in order, on the receiver's disk, whatever was lost,       *)
(* refused, cancelled or timed out on the way.                             *)
DoneMeansWhole == \A s \in Side : state[s] = "done" => file = Whole

(* No chunk leaves before the receiver has proved who it is, and none is   *)
(* written before the sender has.                                          *)
AuthBeforeData == (sent > 0 => verified["send"]) /\ (file # <<>> => verified["recv"])

(* What the sender holds for confirmed the receiver has taken in, and what *)
(* that has taken in was sent.                                             *)
AckedReceived == confirmed["send"] <= confirmed["recv"] /\ confirmed["recv"] <= sent

(* Every transfer reaches a terminal state on both sides: a lost message,  *)
(* a refused channel or a failed worker leaves no side waiting forever.    *)
TransfersEnd == []<>(\A s \in Side : state[s] \in Terminal \cup Absent)

(* m.mu is always released, although Cancel, the timeout loop and          *)
(* handleTransferComplete wait for the worker while they hold it.          *)
MutexReleased == []<>(\A s \in Side : mu[s] = "free")
===============================================================================
