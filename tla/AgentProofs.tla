----------------------------- MODULE AgentProofs -----------------------------
(***************************************************************************)
(* Proofs about Agent for any two agents, any sets of calls and rekeys and *)
(* any number of faults: types, the map of pending requests, that a        *)
(* request is answered only by its own response, and the cache's limits.   *)
(***************************************************************************)
EXTENDS Agent, FiniteSetTheorems, TLAPS

(* What a message in flight says about its trace: a response exists only   *)
(* for a request that was answered, a rekey message only for a rekey.      *)
Good(m) ==
    /\ m.kind # "contact" => m.trace \in Traces
    /\ m.kind = "response" => m.trace \in replied
    /\ m.kind \in {"rekey", "rekey_response"} => IsRekey(m.trace)

NetInv == \A m \in net : Good(m)

(* A request that is under way has a channel, and what is in a channel or  *)
(* on its way into it comes from a response.                               *)
ChanInv ==
    \A t \in Traces :
        /\ call[t] \in {"sending", "waiting"} => chan[t] # "none"
        /\ chan[t] \in {"full", "full_closed"} \/ t \in hold => IsRekey(t) \/ t \in replied

IInv == TypeOK /\ NetInv /\ ChanInv /\ PendingExact /\ AnswerIsOwn

ReqInv == ChanInv /\ PendingExact /\ AnswerIsOwn

-----------------------------------------------------------------------------
(* Constants. *)

LEMMA OwnerType == \A t \in Traces : Owner(t) \in Agents
BY DEF Traces, Owner

LEMMA OtherType == \A x \in Agents : Other(x) \in Agents
<1>1. \A x \in Agents : \E y \in Agents : y # x
    BY AgentsAssumption
<1> QED BY <1>1 DEF Other

LEMMA KeyTypes ==
    /\ NoKey \in Keys /\ Static \in Keys
    /\ \A t \in Traces : RekeyedKey(t, "asker") \in Keys /\ RekeyedKey(t, "answerer") \in Keys
BY DEF Keys

(* Sessions: a key is counted, derived or installed. *)
LEMMA SessionTypes ==
    ASSUME NEW s \in Session
    PROVE  /\ s.key \in Keys /\ s.count \in 0 .. RekeyAfter /\ s.next \in SUBSET Keys
           /\ NoSession \in Session
           /\ \A k \in Keys, n \in SUBSET Keys : [key |-> k, count |-> 0, next |-> n] \in Session
           /\ \A n \in SUBSET Keys : [s EXCEPT !.next = @ \cup n] \in Session
<1>1. s.key \in Keys /\ s.count \in 0 .. RekeyAfter /\ s.next \in SUBSET Keys
    BY DEF Session
<1>2. NoSession \in Session
    BY KeyTypes, BoundsAssumption DEF Session, NoSession
<1>3. \A k \in Keys, n \in SUBSET Keys : [key |-> k, count |-> 0, next |-> n] \in Session
    BY BoundsAssumption DEF Session
<1>4. \A n \in SUBSET Keys : [s EXCEPT !.next = @ \cup n] \in Session
    BY DEF Session
<1> QED BY <1>1, <1>2, <1>3, <1>4

LEMMA SessType ==
    ASSUME TypeOK, NEW x \in Agents
    PROVE  sess[x] \in Session /\ sess[x].key \in Keys
BY SessionTypes DEF TypeOK

-----------------------------------------------------------------------------
(* Shared effects. *)

(* Steps that leave requests alone keep what is said of them. *)
LEMMA Quiet ==
    ASSUME IInv, UNCHANGED <<call, pendingRequests, chan>>, hold' \subseteq hold,
           replied \subseteq replied'
    PROVE  ReqInv'
BY DEF IInv, ReqInv, ChanInv, PendingExact, AnswerIsOwn

(* Messages stay good when responses are only added to. *)
LEMMA NetGains ==
    ASSUME NetInv, replied \subseteq replied', NEW kind, NEW t,
           \A m \in net' \ net : m.kind = kind /\ m.trace = t,
           kind # "contact" => t \in Traces,
           kind = "response" => t \in replied',
           kind \in {"rekey", "rekey_response"} => IsRekey(t)
    PROVE  NetInv'
BY DEF NetInv, Good

LEMMA NetShrinks ==
    ASSUME NetInv, replied \subseteq replied', net' \subseteq net
    PROVE  NetInv'
BY DEF NetInv, Good

(* Send puts at most its own message in flight. *)
LEMMA RouteEffect ==
    ASSUME TypeOK, NEW x \in Agents, NEW kind \in Kinds, NEW t \in Traces \cup {"-"}, NEW out,
           NEW rest \in SUBSET net, Route(x, kind, t, out, rest)
    PROVE  /\ spawned' \in [Agents -> 0 .. 1]
           /\ faults' \in 0 .. MaxFaults
           /\ net' \subseteq rest \cup {[to |-> Other(x), kind |-> kind, trace |-> t,
                                         key |-> sess[x].key]}
           /\ net' \subseteq Msg
<1> DEFINE m == [to |-> Other(x), kind |-> kind, trace |-> t, key |-> sess[x].key]
<1>1. m \in Msg
    BY OtherType, SessType DEF Msg
<1>2. spawned' \in [Agents -> 0 .. 1]
    BY DEF Route, TypeOK
<1>3. faults' \in 0 .. MaxFaults
    BY BoundsAssumption DEF Route, TypeOK
<1>4. net' \subseteq rest \cup {m}
    BY DEF Route
<1> QED BY <1>1, <1>2, <1>3, <1>4 DEF TypeOK

LEMMA CountedType ==
    ASSUME TypeOK, NEW x \in Agents, NEW kind
    PROVE  Counted(x, kind) \in Session
<1>1. sess[x] \in Session
    BY DEF TypeOK
<1> QED BY <1>1, BoundsAssumption DEF Counted, Session

LEMMA SendEffect ==
    ASSUME TypeOK, NEW x \in Agents, NEW kind \in Kinds, NEW t \in Traces \cup {"-"}, NEW out,
           NEW rest \in SUBSET net, Send(x, kind, t, out, rest)
    PROVE  /\ sess' \in [Agents -> Session]
           /\ spawned' \in [Agents -> 0 .. 1]
           /\ faults' \in 0 .. MaxFaults
           /\ net' \subseteq rest \cup {[to |-> Other(x), kind |-> kind, trace |-> t,
                                         key |-> sess[x].key]}
           /\ net' \subseteq Msg
<1>1. sess' \in [Agents -> Session]
    BY CountedType DEF Send, TypeOK
<1> QED BY <1>1, RouteEffect DEF Send

(* Register and Return. *)
LEMMA RegisterInv ==
    ASSUME IInv, NEW t \in Traces, Register(t), UNCHANGED <<hold, replied>>
    PROVE  /\ ReqInv'
           /\ call' \in [Traces -> {"idle", "sending", "waiting", "answered", "failed", "gone"}]
           /\ chan' \in [Traces -> {"none", "open", "full", "closed", "full_closed"}]
           /\ task' \in [Traces -> {"none", "submitted", "working", "completed", "failed"}]
           /\ pendingRequests' \subseteq Traces
<1>1. ChanInv'
    BY DEF Register, IInv, ChanInv, TypeOK
<1>2. PendingExact'
    BY DEF Register, IInv, PendingExact, TypeOK
<1>3. AnswerIsOwn'
    BY DEF Register, IInv, AnswerIsOwn, TypeOK
<1> QED BY <1>1, <1>2, <1>3 DEF Register, Submit, IInv, ReqInv, TypeOK

LEMMA ReturnInv ==
    ASSUME IInv, NEW t \in Traces, NEW result \in {"answered", "failed"}, Return(t, result),
           UNCHANGED <<hold, replied>>,
           result = "answered" => IsRekey(t) \/ t \in replied
    PROVE  /\ ReqInv'
           /\ call' \in [Traces -> {"idle", "sending", "waiting", "answered", "failed", "gone"}]
           /\ task' \in [Traces -> {"none", "submitted", "working", "completed", "failed"}]
           /\ pendingRequests' \subseteq Traces
           /\ chan' = chan
<1>1. ChanInv'
    BY DEF Return, IInv, ChanInv, TypeOK
<1>2. PendingExact'
    BY DEF Return, IInv, PendingExact, TypeOK
<1>3. AnswerIsOwn'
    BY DEF Return, IInv, AnswerIsOwn, TypeOK
<1> QED BY <1>1, <1>2, <1>3 DEF Return, Update, IInv, ReqInv, TypeOK

(* A process ends: its requests are gone, with their entries. *)
LEMMA DiesInv ==
    ASSUME IInv, NEW x \in Agents, NEW how \in {"down", "panicked"}, Dies(x, how),
           net' \subseteq net, faults' \in 0 .. MaxFaults
    PROVE  IInv'
<1>1. NetInv'
    BY NetShrinks DEF Dies, IInv
<1>2. ChanInv'
    BY DEF Dies, IInv, ChanInv, TypeOK
<1>3. PendingExact'
    BY DEF Dies, IInv, PendingExact, TypeOK
<1>4. AnswerIsOwn'
    BY DEF Dies, IInv, AnswerIsOwn, TypeOK
<1>5. sess' \in [Agents -> Session]
    <2>1. NoSession \in Session
        BY SessType, SessionTypes DEF IInv
    <2> QED BY <2>1 DEF Dies, IInv, TypeOK
<1>6. call' \in [Traces -> {"idle", "sending", "waiting", "answered", "failed", "gone"}]
    BY DEF Dies, IInv, TypeOK
<1>7. task' \in [Traces -> {"none", "submitted", "working", "completed", "failed"}]
    BY DEF Dies, IInv, TypeOK
<1>8. TypeOK'
    BY <1>5, <1>6, <1>7 DEF Dies, IInv, TypeOK
<1> QED BY <1>1, <1>2, <1>3, <1>4, <1>8 DEF IInv

-----------------------------------------------------------------------------
(* The caller. *)

LEMMA InitInv == Init => IInv
<1> SUFFICES ASSUME Init PROVE IInv
    OBVIOUS
<1>1. TypeOK
    <2>1. NoSession \in Session
        BY KeyTypes, BoundsAssumption DEF Session, NoSession
    <2> QED BY <2>1, BoundsAssumption DEF Init, TypeOK
<1>2. NetInv /\ ChanInv /\ PendingExact /\ AnswerIsOwn
    BY DEF Init, NetInv, ChanInv, PendingExact, AnswerIsOwn
<1> QED BY <1>1, <1>2 DEF IInv

LEMMA SendRequestInv ==
    ASSUME IInv, NEW t \in Traces, SendRequest(t)
    PROVE  IInv'
<1>1. ReqInv'
    BY RegisterInv DEF SendRequest
<1>2. NetInv'
    BY NetShrinks DEF SendRequest, IInv
<1>3. TypeOK'
    BY RegisterInv DEF SendRequest, cacheVars, IInv, TypeOK
<1> QED BY <1>1, <1>2, <1>3 DEF IInv, ReqInv

LEMMA InitiateRekeyInv ==
    ASSUME IInv, NEW x \in Agents, NEW t \in Traces, InitiateRekey(x, t)
    PROVE  IInv'
<1>1. ReqInv'
    BY RegisterInv DEF InitiateRekey
<1>2. NetInv'
    BY NetShrinks DEF InitiateRekey, IInv
<1>3. TypeOK'
    BY RegisterInv DEF InitiateRekey, cacheVars, IInv, TypeOK
<1> QED BY <1>1, <1>2, <1>3 DEF IInv, ReqInv

LEMMA SendRequestSendsInv ==
    ASSUME IInv, NEW t \in Traces, NEW out, SendRequestSends(t, out)
    PROVE  IInv'
<1> DEFINE x == Owner(t)
           kind == IF IsRekey(t) THEN "rekey" ELSE "request"
           m == [to |-> Other(x), kind |-> kind, trace |-> t, key |-> sess[x].key]
<1>1. x \in Agents /\ kind \in Kinds
    BY OwnerType DEF Kinds
<1>2. Send(x, kind, t, out, net) /\ UNCHANGED <<hold, replied>>
    BY DEF SendRequestSends
<1>3. /\ sess' \in [Agents -> Session]
      /\ spawned' \in [Agents -> 0 .. 1]
      /\ faults' \in 0 .. MaxFaults
      /\ net' \subseteq net \cup {m}
      /\ net' \subseteq Msg
    BY <1>1, <1>2, SendEffect DEF IInv
<1>4. NetInv'
    <2>1. \A n \in net' \ net : n.kind = kind /\ n.trace = t
        BY <1>3
    <2>2. kind # "response" /\ (kind \in {"rekey", "rekey_response"} => IsRekey(t))
        OBVIOUS
    <2> HIDE DEF kind
    <2> QED BY <1>2, <2>1, <2>2, NetGains DEF IInv
<1>5. /\ ReqInv'
      /\ call' \in [Traces -> {"idle", "sending", "waiting", "answered", "failed", "gone"}]
      /\ chan' \in [Traces -> {"none", "open", "full", "closed", "full_closed"}]
      /\ task' \in [Traces -> {"none", "submitted", "working", "completed", "failed"}]
      /\ pendingRequests' \subseteq Traces
    <2>1. CASE out = "failed"
        <3>1. Return(t, "failed")
            BY <2>1 DEF SendRequestSends
        <3> QED BY <1>2, <3>1, ReturnInv DEF IInv, TypeOK
    <2>2. CASE out # "failed"
        <3>1. /\ call' = [call EXCEPT ![t] = "waiting"] /\ call[t] = "sending"
              /\ UNCHANGED <<pendingRequests, chan, task>>
            BY <2>2 DEF SendRequestSends
        <3>2. ChanInv' /\ PendingExact' /\ AnswerIsOwn'
            BY <1>2, <3>1 DEF IInv, ChanInv, PendingExact, AnswerIsOwn, TypeOK
        <3> QED BY <3>1, <3>2 DEF ReqInv, IInv, TypeOK
    <2> QED BY <2>1, <2>2
<1> HIDE DEF x, kind, m
<1>6. TypeOK'
    BY <1>3, <1>5 DEF SendRequestSends, IInv, TypeOK
<1> QED BY <1>4, <1>5, <1>6 DEF IInv, ReqInv

LEMMA ReceiveResponseInv ==
    ASSUME IInv, NEW t \in Traces, ReceiveResponse(t)
    PROVE  IInv'
<1> DEFINE r == IF chan[t] = "closed" THEN "failed" ELSE "answered"
<1>1. Return(t, r) /\ UNCHANGED <<hold, replied, net>>
    BY DEF ReceiveResponse
<1>2. r = "answered" => IsRekey(t) \/ t \in replied
    BY DEF ReceiveResponse, IInv, ChanInv, TypeOK
<1>3. /\ ReqInv'
      /\ call' \in [Traces -> {"idle", "sending", "waiting", "answered", "failed", "gone"}]
      /\ task' \in [Traces -> {"none", "submitted", "working", "completed", "failed"}]
      /\ pendingRequests' \subseteq Traces
      /\ chan' = chan
    BY <1>1, <1>2, ReturnInv
<1>4. NetInv'
    BY <1>1, NetShrinks DEF IInv
<1>5. sess' \in [Agents -> Session]
    <2> DEFINE x == Owner(t)
               k == {RekeyedKey(t, "asker")}
               s == [sess[x] EXCEPT !.next = @ \cup k]
    <2>1. x \in Agents /\ k \in SUBSET Keys /\ sess \in [Agents -> Session]
        BY OwnerType, KeyTypes DEF IInv, TypeOK
    <2>2. UNCHANGED sess \/ sess' = [sess EXCEPT ![x] = s]
        BY DEF ReceiveResponse, Rekeyed
    <2> HIDE DEF x, k
    <2>3. s \in Session
        BY <2>1, SessionTypes
    <2> HIDE DEF s
    <2> QED BY <2>1, <2>2, <2>3
<1>6. TypeOK'
    BY <1>3, <1>5 DEF ReceiveResponse, cacheVars, IInv, TypeOK
<1> QED BY <1>3, <1>4, <1>6 DEF IInv, ReqInv

LEMMA TimeOutInv ==
    ASSUME IInv, NEW t \in Traces, TimeOut(t)
    PROVE  IInv'
<1>1. Return(t, "failed") /\ UNCHANGED <<hold, replied, net>>
    BY DEF TimeOut
<1>2. /\ ReqInv'
      /\ call' \in [Traces -> {"idle", "sending", "waiting", "answered", "failed", "gone"}]
      /\ task' \in [Traces -> {"none", "submitted", "working", "completed", "failed"}]
      /\ pendingRequests' \subseteq Traces
      /\ chan' = chan
    BY <1>1, ReturnInv
<1>3. NetInv'
    BY <1>1, NetShrinks DEF IInv
<1>4. TypeOK'
    BY <1>2 DEF TimeOut, cacheVars, IInv, TypeOK
<1> QED BY <1>2, <1>3, <1>4 DEF IInv, ReqInv

-----------------------------------------------------------------------------
(* The handler. *)

LEMMA DropInv ==
    ASSUME IInv, NEW x \in Agents, NEW m \in net, Drop(x, m)
    PROVE  IInv'
<1>1. ReqInv'
    BY Quiet DEF Drop, reqVars
<1>2. NetInv'
    BY NetShrinks DEF Drop, IInv
<1>3. TypeOK'
    BY DEF Drop, reqVars, cacheVars, IInv, TypeOK
<1> QED BY <1>1, <1>2, <1>3 DEF IInv, ReqInv

LEMMA HandleRequestInv ==
    ASSUME IInv, NEW x \in Agents, NEW m \in net, NEW reply \in {"response", "error"}, NEW out,
           HandleRequest(x, m, reply, out)
    PROVE  IInv'
<1> DEFINE a == [to |-> Other(x), kind |-> reply, trace |-> m.trace, key |-> sess[x].key]
<1>1. m.trace \in Traces /\ reply \in Kinds
    BY DEF HandleRequest, IInv, NetInv, Good, Kinds
<1>2. Send(x, reply, m.trace, out, net \ {m})
    BY DEF HandleRequest
<1>3. /\ sess' \in [Agents -> Session]
      /\ spawned' \in [Agents -> 0 .. 1]
      /\ faults' \in 0 .. MaxFaults
      /\ net' \subseteq net \cup {a}
      /\ net' \subseteq Msg
    BY <1>1, <1>2, SendEffect DEF IInv
<1>4. /\ replied \subseteq replied'
      /\ reply = "response" => m.trace \in replied'
      /\ replied' \subseteq handled' /\ handled' \subseteq Traces
    BY <1>1 DEF HandleRequest, IInv, TypeOK
<1>5. NetInv'
    <2>1. \A n \in net' \ net : n.kind = reply /\ n.trace = m.trace
        BY <1>3
    <2> QED BY <1>1, <1>4, <2>1, NetGains DEF IInv
<1>6. ReqInv'
    BY <1>4, Quiet DEF HandleRequest, reqVars
<1> HIDE DEF a
<1>7. TypeOK'
    BY <1>3, <1>4 DEF HandleRequest, reqVars, IInv, TypeOK
<1> QED BY <1>5, <1>6, <1>7 DEF IInv, ReqInv

LEMMA HandleUnansweredInv ==
    ASSUME IInv, NEW x \in Agents, NEW m \in net, HandleUnanswered(x, m)
    PROVE  IInv'
<1>1. m.trace \in Traces
    BY DEF HandleUnanswered, IInv, NetInv, Good
<1>2. ReqInv'
    BY Quiet DEF HandleUnanswered, reqVars
<1>3. NetInv'
    BY NetShrinks DEF HandleUnanswered, IInv
<1>4. TypeOK'
    BY <1>1 DEF HandleUnanswered, reqVars, cacheVars, IInv, TypeOK
<1> QED BY <1>2, <1>3, <1>4 DEF IInv, ReqInv

LEMMA LookupResponseInv ==
    ASSUME IInv, NEW x \in Agents, NEW m \in net, LookupResponse(x, m)
    PROVE  IInv'
<1>1. IsRekey(m.trace) \/ m.trace \in replied
    BY DEF LookupResponse, IInv, NetInv, Good
<1>2. ChanInv' /\ PendingExact' /\ AnswerIsOwn'
    BY <1>1 DEF LookupResponse, reqVars, IInv, ChanInv, PendingExact, AnswerIsOwn
<1>3. NetInv'
    BY NetShrinks DEF LookupResponse, IInv
<1>4. TypeOK'
    BY DEF LookupResponse, reqVars, cacheVars, IInv, TypeOK
<1> QED BY <1>2, <1>3, <1>4 DEF IInv

LEMMA PutResponseInv ==
    ASSUME IInv, NEW x \in Agents, NEW t \in Traces, PutResponse(x, t)
    PROVE  IInv'
<1>1. CASE chan[t] \in {"closed", "full_closed"}
    <2>1. Dies(x, "panicked") /\ UNCHANGED <<net, faults>>
        BY <1>1 DEF PutResponse
    <2> QED BY <2>1, DiesInv DEF IInv, TypeOK
<1>2. CASE chan[t] \notin {"closed", "full_closed"}
    <2>1. /\ chan' = [chan EXCEPT ![t] = "full"]
          /\ hold' = hold \ {t} /\ t \in hold
          /\ UNCHANGED <<phase, trust, peer, sess, spawned, call, pendingRequests, task,
                         handled, replied, net, faults, notes>>
        BY <1>2 DEF PutResponse, cacheVars
    <2>2. ChanInv'
        BY <2>1 DEF IInv, ChanInv, TypeOK
    <2>3. PendingExact' /\ AnswerIsOwn'
        BY <1>2, <2>1 DEF IInv, PendingExact, AnswerIsOwn, TypeOK
    <2>4. NetInv'
        BY <2>1, NetShrinks DEF IInv
    <2>5. TypeOK'
        BY <2>1 DEF IInv, TypeOK
    <2> QED BY <2>2, <2>3, <2>4, <2>5 DEF IInv
<1> QED BY <1>1, <1>2

LEMMA HandleOtherInv ==
    ASSUME IInv, NEW x \in Agents, NEW m \in net, HandleOther(x, m)
    PROVE  IInv'
<1>1. ReqInv'
    BY Quiet DEF HandleOther
<1>2. NetInv'
    BY NetShrinks DEF HandleOther, IInv
<1>3. task' \in [Traces -> {"none", "submitted", "working", "completed", "failed"}]
    BY DEF HandleOther, Update, IInv, TypeOK
<1>4. TypeOK'
    BY <1>3 DEF HandleOther, cacheVars, IInv, TypeOK
<1> QED BY <1>1, <1>2, <1>4 DEF IInv, ReqInv

LEMMA HandleRekeyInv ==
    ASSUME IInv, NEW x \in Agents, NEW m \in net, NEW out, HandleRekey(x, m, out)
    PROVE  IInv'
<1> DEFINE a == [to |-> Other(x), kind |-> "rekey_response", trace |-> m.trace,
                 key |-> sess[x].key]
<1>1. m.trace \in Traces /\ IsRekey(m.trace) /\ "rekey_response" \in Kinds
    BY DEF HandleRekey, IInv, NetInv, Good, Kinds
<1>2. ReqInv'
    BY Quiet DEF HandleRekey, reqVars
<1>3. CASE ~Misreads
    <2>1. NetInv'
        BY <1>3, NetShrinks DEF HandleRekey, IInv
    <2>2. TypeOK'
        BY <1>3 DEF HandleRekey, reqVars, IInv, TypeOK
    <2> QED BY <1>2, <2>1, <2>2 DEF IInv, ReqInv
<1>4. CASE Misreads
    <2>1. Route(x, "rekey_response", m.trace, out, net \ {m})
        BY <1>4 DEF HandleRekey
    <2>2. /\ spawned' \in [Agents -> 0 .. 1]
          /\ faults' \in 0 .. MaxFaults
          /\ net' \subseteq net \cup {a}
          /\ net' \subseteq Msg
        BY <1>1, <2>1, RouteEffect DEF IInv
    <2>3. sess' \in [Agents -> Session]
        <3> DEFINE k == IF out = "failed" THEN {} ELSE {RekeyedKey(m.trace, "answerer")}
                   c == Counted(x, "rekey_response")
                   d == [c EXCEPT !.next = @ \cup k]
        <3>1. k \in SUBSET Keys /\ sess \in [Agents -> Session]
            BY <1>1, KeyTypes DEF IInv, TypeOK
        <3>2. c \in Session
            BY CountedType DEF IInv
        <3>3. sess' = [sess EXCEPT ![x] = d]
            BY <1>4 DEF HandleRekey
        <3> HIDE DEF k, c
        <3>4. d \in Session
            BY <3>1, <3>2, SessionTypes
        <3> HIDE DEF d
        <3> QED BY <3>1, <3>3, <3>4
    <2>4. NetInv'
        <3>1. \A n \in net' \ net : n.kind = "rekey_response" /\ n.trace = m.trace
            BY <2>2
        <3>2. UNCHANGED replied
            BY DEF HandleRekey
        <3> QED BY <1>1, <3>1, <3>2, NetGains DEF IInv
    <2> HIDE DEF a
    <2>5. TypeOK'
        BY <2>2, <2>3 DEF HandleRekey, reqVars, IInv, TypeOK
    <2> QED BY <1>2, <2>4, <2>5 DEF IInv, ReqInv
<1> QED BY <1>3, <1>4

LEMMA InstallKeyInv ==
    ASSUME IInv, NEW x \in Agents, NEW k \in sess[x].next, InstallKey(x, k)
    PROVE  IInv'
<1>1. ReqInv'
    BY Quiet DEF InstallKey, reqVars
<1>2. NetInv'
    BY NetShrinks DEF InstallKey, IInv
<1>3. TypeOK'
    <2> DEFINE s == [key |-> k, count |-> 0, next |-> sess[x].next \ {k}]
    <2>1. sess' = [sess EXCEPT ![x] = s]
        BY DEF InstallKey
    <2>2. sess[x].next \in SUBSET Keys
        BY SessType, SessionTypes DEF IInv
    <2>3. s \in Session
        BY <2>2, SessType, SessionTypes DEF IInv
    <2> HIDE DEF s
    <2>4. sess' \in [Agents -> Session]
        BY <2>1, <2>3 DEF IInv, TypeOK
    <2> QED BY <2>4 DEF InstallKey, reqVars, cacheVars, IInv, TypeOK
<1> QED BY <1>1, <1>2, <1>3 DEF IInv, ReqInv

LEMMA HandleContactInv ==
    ASSUME IInv, NEW x \in Agents, NEW m \in net, NEW approved, HandleContact(x, m, approved)
    PROVE  IInv'
<1>1. ReqInv'
    BY Quiet DEF HandleContact, reqVars
<1>2. NetInv'
    BY NetShrinks DEF HandleContact, IInv
<1>3. TypeOK'
    BY DEF HandleContact, reqVars, cacheVars, IInv, TypeOK
<1> QED BY <1>1, <1>2, <1>3 DEF IInv, ReqInv

-----------------------------------------------------------------------------
(* The owner and the world. *)

LEMMA SendContactRequestInv ==
    ASSUME IInv, NEW x \in Agents, NEW out, SendContactRequest(x, out)
    PROVE  IInv'
<1>1. Send(x, "contact", "-", out, net) /\ UNCHANGED replied /\ "contact" \in Kinds
    BY DEF SendContactRequest, Kinds
<1>2. /\ sess' \in [Agents -> Session]
      /\ spawned' \in [Agents -> 0 .. 1]
      /\ faults' \in 0 .. MaxFaults
      /\ net' \subseteq net \cup {[to |-> Other(x), kind |-> "contact", trace |-> "-",
                                   key |-> sess[x].key]}
      /\ net' \subseteq Msg
    BY <1>1, SendEffect DEF IInv
<1>3. NetInv'
    <2>1. \A n \in net' \ net : n.kind = "contact" /\ n.trace = "-"
        BY <1>2
    <2> QED BY <1>1, <2>1, NetGains DEF IInv
<1>4. ReqInv'
    BY Quiet DEF SendContactRequest, reqVars
<1>5. TypeOK'
    BY <1>2 DEF SendContactRequest, reqVars, IInv, TypeOK
<1> QED BY <1>3, <1>4, <1>5 DEF IInv, ReqInv

LEMMA SendEventInv ==
    ASSUME IInv, NEW x \in Agents, NEW t \in Traces, NEW out, SendEvent(x, t, out)
    PROVE  IInv'
<1>1. Send(x, "event", t, out, net) /\ UNCHANGED replied /\ "event" \in Kinds
    BY DEF SendEvent, Kinds
<1>2. /\ sess' \in [Agents -> Session]
      /\ spawned' \in [Agents -> 0 .. 1]
      /\ faults' \in 0 .. MaxFaults
      /\ net' \subseteq net \cup {[to |-> Other(x), kind |-> "event", trace |-> t,
                                   key |-> sess[x].key]}
      /\ net' \subseteq Msg
    BY <1>1, SendEffect DEF IInv
<1>3. NetInv'
    <2>1. \A n \in net' \ net : n.kind = "event" /\ n.trace = t
        BY <1>2
    <2> QED BY <1>1, <2>1, NetGains DEF IInv
<1>4. ReqInv'
    BY Quiet DEF SendEvent, reqVars
<1>5. notes' \in 0 .. MaxNotes
    BY BoundsAssumption DEF SendEvent, IInv, TypeOK
<1>6. TypeOK'
    BY <1>2, <1>5 DEF SendEvent, reqVars, IInv, TypeOK
<1> QED BY <1>3, <1>4, <1>6 DEF IInv, ReqInv

LEMMA SendNoteInv ==
    ASSUME IInv, NEW x \in Agents, NEW d \in Absent, SendNote(x, d)
    PROVE  IInv'
<1>1. ReqInv'
    BY Quiet DEF SendNote, reqVars
<1>2. NetInv'
    BY NetShrinks DEF SendNote, IInv
<1>3. notes' \in 0 .. MaxNotes
    BY BoundsAssumption DEF SendNote, IInv, TypeOK
<1>4. TypeOK'
    BY <1>3 DEF SendNote, reqVars, IInv, TypeOK
<1> QED BY <1>1, <1>2, <1>4 DEF IInv, ReqInv

LEMMA ConnectInv ==
    ASSUME IInv, Connect
    PROVE  IInv'
<1>1. ReqInv'
    BY Quiet DEF Connect, reqVars
<1>2. NetInv'
    BY NetShrinks DEF Connect, IInv
<1>3. TypeOK'
    <2>1. \A x \in Agents : [key |-> Static, count |-> 0, next |-> sess[x].next] \in Session
        BY KeyTypes, SessType, SessionTypes DEF IInv
    <2> QED BY <2>1 DEF Connect, reqVars, cacheVars, IInv, TypeOK
<1> QED BY <1>1, <1>2, <1>3 DEF IInv, ReqInv

(* Fault counts no further than its bound. *)
LEMMA FaultType ==
    ASSUME IInv, Fault
    PROVE  faults' \in 0 .. MaxFaults
BY BoundsAssumption DEF Fault, IInv, TypeOK

LEMMA LoseInv ==
    ASSUME IInv, NEW m \in net, Lose(m)
    PROVE  IInv'
<1>1. ReqInv'
    BY Quiet DEF Lose, reqVars
<1>2. NetInv'
    BY NetShrinks DEF Lose, IInv
<1>3. TypeOK'
    BY FaultType DEF Lose, reqVars, cacheVars, IInv, TypeOK
<1> QED BY <1>1, <1>2, <1>3 DEF IInv, ReqInv

LEMMA BlockAgentInv ==
    ASSUME IInv, NEW x \in Agents, BlockAgent(x)
    PROVE  IInv'
<1>1. ReqInv'
    BY Quiet DEF BlockAgent, reqVars
<1>2. NetInv'
    BY NetShrinks DEF BlockAgent, IInv
<1>3. TypeOK'
    BY FaultType DEF BlockAgent, reqVars, cacheVars, IInv, TypeOK
<1> QED BY <1>1, <1>2, <1>3 DEF IInv, ReqInv

LEMMA DisconnectInv ==
    ASSUME IInv, NEW x \in Agents, Disconnect(x)
    PROVE  IInv'
<1>1. ReqInv'
    BY Quiet DEF Disconnect, reqVars
<1>2. NetInv'
    BY NetShrinks DEF Disconnect, IInv
<1>3. TypeOK'
    BY FaultType DEF Disconnect, reqVars, cacheVars, IInv, TypeOK
<1> QED BY <1>1, <1>2, <1>3 DEF IInv, ReqInv

(* Stop deletes exactly the entries whose channels it closes. *)
LEMMA StopBeginsInv ==
    ASSUME IInv, NEW x \in Agents, StopBegins(x)
    PROVE  IInv'
<1>1. ChanInv'
    BY DEF StopBegins, IInv, ChanInv, TypeOK
<1>2. PendingExact'
    BY DEF StopBegins, IInv, PendingExact, TypeOK
<1>3. AnswerIsOwn'
    BY DEF StopBegins, IInv, AnswerIsOwn
<1>4. NetInv'
    BY NetShrinks DEF StopBegins, IInv
<1>5. chan' \in [Traces -> {"none", "open", "full", "closed", "full_closed"}]
    BY DEF StopBegins, IInv, TypeOK
<1>6. TypeOK'
    BY <1>5, FaultType DEF StopBegins, cacheVars, IInv, TypeOK
<1> QED BY <1>1, <1>2, <1>3, <1>4, <1>6 DEF IInv

LEMMA StopEndsInv ==
    ASSUME IInv, NEW x \in Agents, StopEnds(x)
    PROVE  IInv'
<1>1. ReqInv'
    BY Quiet DEF StopEnds, reqVars
<1>2. NetInv'
    BY NetShrinks DEF StopEnds, IInv
<1>3. TypeOK'
    BY DEF StopEnds, reqVars, IInv, TypeOK
<1> QED BY <1>1, <1>2, <1>3 DEF IInv, ReqInv

LEMMA ExitInv ==
    ASSUME IInv, NEW x \in Agents, Exit(x)
    PROVE  IInv'
<1>1. faults' \in 0 .. MaxFaults
    BY FaultType DEF Exit, IInv, TypeOK
<1> QED BY <1>1, DiesInv DEF Exit

LEMMA DecryptFailsInv ==
    ASSUME IInv, NEW x \in Agents, NEW m \in net, DecryptFails(x, m)
    PROVE  IInv'
<1>1. faults' \in 0 .. MaxFaults
    BY DEF DecryptFails, IInv, TypeOK
<1> QED BY <1>1, DiesInv DEF DecryptFails

LEMMA RestartInv ==
    ASSUME IInv, NEW x \in Agents, Restart(x)
    PROVE  IInv'
<1>1. ReqInv'
    BY Quiet DEF Restart, reqVars
<1>2. NetInv'
    BY NetShrinks DEF Restart, IInv
<1>3. TypeOK'
    BY DEF Restart, reqVars, cacheVars, IInv, TypeOK
<1> QED BY <1>1, <1>2, <1>3 DEF IInv, ReqInv

-----------------------------------------------------------------------------
(* The induction. *)

LEMMA HandlerInv ==
    ASSUME IInv, NEW x \in Agents, NEW m \in net, Handler(x, m)
    PROVE  IInv'
BY DropInv, DecryptFailsInv, LookupResponseInv, HandleOtherInv, HandleRequestInv, HandleUnansweredInv,
   HandleRekeyInv, HandleContactInv DEF Handler

LEMMA InvStep == IInv /\ [Next]_vars => IInv'
<1> SUFFICES ASSUME IInv, [Next]_vars PROVE IInv'
    OBVIOUS
<1>1. CASE UNCHANGED vars
    BY <1>1 DEF vars, IInv, TypeOK, NetInv, Good, ChanInv, PendingExact, AnswerIsOwn
<1>2. ASSUME NEW t \in Traces, SendRequest(t) \/ Caller(t)
      PROVE  IInv'
    BY <1>2, SendRequestInv, SendRequestSendsInv, ReceiveResponseInv, TimeOutInv DEF Caller
<1>3. ASSUME NEW x \in Agents, NEW t \in Traces, InitiateRekey(x, t) \/ PutResponse(x, t)
      PROVE  IInv'
    BY <1>3, InitiateRekeyInv, PutResponseInv
<1>4. ASSUME NEW x \in Agents, NEW m \in net, Handler(x, m)
      PROVE  IInv'
    BY <1>4, HandlerInv
<1>5. ASSUME NEW x \in Agents, NEW t \in Traces, NEW out \in Outcomes, SendEvent(x, t, out)
      PROVE  IInv'
    BY <1>5, SendEventInv
<1>6. ASSUME NEW x \in Agents, NEW out \in Outcomes, SendContactRequest(x, out)
      PROVE  IInv'
    BY <1>6, SendContactRequestInv
<1>7. ASSUME NEW x \in Agents, NEW d \in Absent, SendNote(x, d)
      PROVE  IInv'
    BY <1>7, SendNoteInv
<1>8. ASSUME NEW x \in Agents,
             \/ BlockAgent(x) \/ Disconnect(x)
             \/ StopBegins(x) \/ StopEnds(x) \/ Exit(x) \/ Restart(x)
      PROVE  IInv'
    BY <1>8, BlockAgentInv, DisconnectInv, StopBeginsInv, StopEndsInv, ExitInv, RestartInv
<1>9. CASE Connect
    BY <1>9, ConnectInv
<1>10. ASSUME NEW m \in net, Lose(m)
       PROVE  IInv'
    BY <1>10, LoseInv
<1>11. ASSUME NEW x \in Agents, NEW k \in sess[x].next, InstallKey(x, k)
       PROVE  IInv'
    BY <1>11, InstallKeyInv
<1> QED BY <1>1, <1>2, <1>3, <1>4, <1>5, <1>6, <1>7, <1>8, <1>9, <1>10, <1>11 DEF Next

LEMMA InvHolds == Spec => []IInv
BY InitInv, InvStep, PTL DEF Spec

(* Every variable of the agents keeps its type. *)
THEOREM TypeCorrect == Spec => []TypeOK
<1>1. IInv => TypeOK
    BY DEF IInv
<1> QED BY <1>1, InvHolds, PTL

(* SendRequest, its deferred delete, Stop and a late response leave the map *)
(* of pending requests with the requests under way and no other.           *)
THEOREM PendingIsExact == Spec => []PendingExact
<1>1. IInv => PendingExact
    BY DEF IInv
<1> QED BY <1>1, InvHolds, PTL

(* Through any interleaving of handlers, timeouts, stops and crashes,      *)
(* SendRequest returns a response only to a request the other agent's      *)
(* handler has answered.                                                   *)
THEOREM AnswersAreOwn == Spec => []AnswerIsOwn
<1>1. IInv => AnswerIsOwn
    BY DEF IInv
<1> QED BY <1>1, InvHolds, PTL

-----------------------------------------------------------------------------
(* The message cache.  What is saved has to satisfy the same as what is in *)
(* memory, since a restart loads it.                                       *)

Item == Nat \cup (Kinds \X (Traces \cup {"-"}))

(* Notes in the order they were sent, none later than n. *)
Sorted(s, n) ==
    /\ \A i \in 1 .. Len(s) : s[i] \in Nat /\ s[i] <= n
    /\ \A i, j \in 1 .. Len(s) : i < j => s[i] < s[j]

CacheOK(q, n) ==
    /\ q \in [Dests -> Seq(Item)]
    /\ IsFiniteSet(Slots(q)) /\ Total(q) <= MaxCacheGlobal
    /\ \A d \in Dests : Len(q[d]) <= MaxCachePerDest
    /\ \A d \in Absent : Sorted(q[d], n)

Cache == [Dests -> Seq(Item)]

CacheInv ==
    /\ queues \in [Agents -> Cache] /\ saved \in [Agents -> Cache]
    /\ \A x \in Agents : CacheOK(queues[x], notes) /\ CacheOK(saved[x], notes)

LEMMA EnqueueFacts ==
    ASSUME NEW S, NEW s \in Seq(S), NEW m \in S
    PROVE  /\ Enqueue(s, m) \in Seq(S)
           /\ Len(s) >= MaxCachePerDest =>
                 /\ Len(Enqueue(s, m)) = Len(s)
                 /\ Enqueue(s, m)[Len(s)] = m
                 /\ \A i \in 1 .. Len(s) : i # Len(s) => Enqueue(s, m)[i] = s[i + 1]
           /\ ~ (Len(s) >= MaxCachePerDest) =>
                 /\ Len(Enqueue(s, m)) = Len(s) + 1
                 /\ Enqueue(s, m)[Len(s) + 1] = m
                 /\ \A i \in 1 .. Len(s) : Enqueue(s, m)[i] = s[i]
<1>1. MaxCachePerDest \in Nat \ {0}
    BY CacheAssumption
<1>2. CASE Len(s) >= MaxCachePerDest
    <2>1. Enqueue(s, m) = Append(Tail(s), m)
        BY <1>2 DEF Enqueue
    <2>2. s # <<>>
        BY <1>1, <1>2
    <2>3. Tail(s) \in Seq(S) /\ Len(Tail(s)) = Len(s) - 1 /\ Len(s) \in Nat \ {0}
        BY <2>2
    <2>4. \A i \in 1 .. Len(Tail(s)) : Tail(s)[i] = s[i + 1]
        BY <2>2
    <2> DEFINE t == Tail(s)
    <2> HIDE DEF t
    <2>5. /\ Append(t, m) \in Seq(S) /\ Len(Append(t, m)) = Len(t) + 1
          /\ Append(t, m)[Len(t) + 1] = m
          /\ \A i \in 1 .. Len(t) : Append(t, m)[i] = t[i]
        BY <2>3 DEF t
    <2>6. Len(t) = Len(s) - 1 /\ Len(t) + 1 = Len(s) /\ \A i \in 1 .. Len(t) : t[i] = s[i + 1]
        BY <2>3, <2>4 DEF t
    <2>7. Enqueue(s, m) = Append(t, m)
        BY <2>1 DEF t
    <2>8. \A i \in 1 .. Len(s) : i # Len(s) => i \in 1 .. Len(t)
        <3>1. \A n \in Nat \ {0} : \A i \in 1 .. n : i # n => i \in 1 .. (n - 1)
            OBVIOUS
        <3> QED BY <2>3, <2>6, <3>1, Zenon
    <2>9. \A i \in 1 .. Len(s) : i # Len(s) => Append(t, m)[i] = s[i + 1]
        BY <2>5, <2>6, <2>8
    <2>10. Len(Append(t, m)) = Len(s) /\ Append(t, m)[Len(s)] = m
        BY <2>5, <2>6
    <2> QED BY <1>2, <2>5, <2>7, <2>9, <2>10, Zenon
<1>3. CASE ~ (Len(s) >= MaxCachePerDest)
    <2>1. Enqueue(s, m) = Append(s, m)
        BY <1>3 DEF Enqueue
    <2> QED BY <1>3, <2>1
<1> QED BY <1>2, <1>3

LEMMA EnqueueSorted ==
    ASSUME NEW s \in Seq(Item), NEW n \in Nat, Sorted(s, n)
    PROVE  Sorted(Enqueue(s, n + 1), n + 1)
<1> DEFINE m == n + 1
           e == Enqueue(s, m)
<1>1. m \in Item /\ m \in Nat /\ n <= m /\ n < m /\ Len(s) \in Nat /\ MaxCachePerDest \in Nat \ {0}
    BY CacheAssumption DEF Item
<1>2. /\ \A i \in 1 .. Len(s) : s[i] \in Nat /\ s[i] <= n
      /\ \A i, j \in 1 .. Len(s) : i < j => s[i] < s[j]
    BY DEF Sorted
<1>3. /\ e \in Seq(Item)
      /\ Len(s) >= MaxCachePerDest =>
            /\ Len(e) = Len(s)
            /\ e[Len(s)] = m
            /\ \A i \in 1 .. Len(s) : i # Len(s) => e[i] = s[i + 1]
      /\ ~ (Len(s) >= MaxCachePerDest) =>
            /\ Len(e) = Len(s) + 1
            /\ e[Len(s) + 1] = m
            /\ \A i \in 1 .. Len(s) : e[i] = s[i]
    <2> HIDE DEF m
    <2> QED BY <1>1, EnqueueFacts
<1> HIDE DEF m, e
<1>4. CASE Len(s) >= MaxCachePerDest
    <2>1. /\ Len(e) = Len(s) /\ e[Len(s)] = m
          /\ \A i \in 1 .. Len(s) : i # Len(s) => i + 1 \in 1 .. Len(s) /\ e[i] = s[i + 1]
        BY <1>1, <1>3, <1>4
    <2>2. \A i \in 1 .. Len(e) : e[i] \in Nat /\ e[i] <= m
        BY <1>1, <1>2, <2>1
    <2>3. ASSUME NEW i \in 1 .. Len(e), NEW j \in 1 .. Len(e), i < j PROVE e[i] < e[j]
        <3>1. i # Len(s) /\ e[i] = s[i + 1] /\ i + 1 \in 1 .. Len(s)
            BY <1>1, <2>1, <2>3
        <3>2. CASE j = Len(s)
            BY <1>1, <1>2, <2>1, <3>1, <3>2
        <3>3. CASE j # Len(s)
            <4>1. e[j] = s[j + 1] /\ j + 1 \in 1 .. Len(s) /\ i + 1 < j + 1
                BY <1>1, <2>1, <2>3, <3>3
            <4> QED BY <1>2, <3>1, <4>1
        <3> QED BY <3>2, <3>3
    <2> QED BY <2>2, <2>3 DEF Sorted, m, e
<1>5. CASE ~ (Len(s) >= MaxCachePerDest)
    <2>1. /\ Len(e) = Len(s) + 1 /\ e[Len(s) + 1] = m
          /\ \A i \in 1 .. Len(s) : e[i] = s[i]
        BY <1>3, <1>5
    <2>2. \A i \in 1 .. Len(e) : i = Len(s) + 1 \/ i \in 1 .. Len(s)
        BY <1>1, <2>1
    <2>3. \A i \in 1 .. Len(e) : e[i] \in Nat /\ e[i] <= m
        BY <1>1, <1>2, <2>1, <2>2
    <2>4. ASSUME NEW i \in 1 .. Len(e), NEW j \in 1 .. Len(e), i < j PROVE e[i] < e[j]
        <3>1. i \in 1 .. Len(s)
            BY <1>1, <2>1, <2>4
        <3>2. CASE j = Len(s) + 1
            BY <1>1, <1>2, <2>1, <3>1, <3>2
        <3>3. CASE j \in 1 .. Len(s)
            BY <1>2, <2>1, <2>4, <3>1, <3>3
        <3> QED BY <2>2, <3>2, <3>3
    <2> QED BY <2>3, <2>4 DEF Sorted, m, e
<1> QED BY <1>4, <1>5

(* Enqueue adds one message, or takes the place of one. *)
LEMMA EnqueueTotal ==
    ASSUME NEW q \in [Dests -> Seq(Item)], NEW d \in Dests, NEW m \in Item,
           IsFiniteSet(Slots(q)), Total(q) < MaxCacheGlobal, Len(q[d]) <= MaxCachePerDest
    PROVE  /\ IsFiniteSet(Slots([q EXCEPT ![d] = Enqueue(q[d], m)]))
           /\ Total([q EXCEPT ![d] = Enqueue(q[d], m)]) <= MaxCacheGlobal
           /\ Len(Enqueue(q[d], m)) <= MaxCachePerDest
<1> DEFINE s == q[d]
           e == Enqueue(s, m)
           p == [q EXCEPT ![d] = e]
<1>1. s \in Seq(Item) /\ Len(s) \in Nat /\ MaxCachePerDest \in Nat /\ MaxCacheGlobal \in Nat
    BY CacheAssumption
<1>2. /\ e \in Seq(Item)
      /\ Len(s) >= MaxCachePerDest => Len(e) = Len(s)
      /\ ~ (Len(s) >= MaxCachePerDest) => Len(e) = Len(s) + 1
    <2> HIDE DEF s
    <2> QED BY <1>1, EnqueueFacts
<1>3. p[d] = e /\ \A c \in Dests : c # d => p[c] = q[c]
    BY DEF s
<1>4. \A c \in Dests : \A i : <<c, i>> \in Slots(q) <=> i \in 1 .. Len(q[c])
    BY DEF Slots
<1> HIDE DEF e
<1>5. Total(q) \in Nat
    BY FS_CardinalityType DEF Total
<1>6. CASE Len(s) >= MaxCachePerDest
    <2>1. \A c \in Dests : Len(p[c]) = Len(q[c])
        BY <1>2, <1>3, <1>6
    <2> HIDE DEF p
    <2>2. Slots(p) = Slots(q)
        BY <2>1 DEF Slots
    <2>3. IsFiniteSet(Slots(p)) /\ Total(p) <= MaxCacheGlobal
        BY <1>1, <1>5, <2>2 DEF Total
    <2>4. Len(e) <= MaxCachePerDest
        BY <1>1, <1>2, <1>6
    <2> QED BY <2>3, <2>4 DEF p, e, s
<1>7. CASE ~ (Len(s) >= MaxCachePerDest)
    <2> DEFINE new == <<d, Len(s) + 1>>
    <2>1. Len(e) = Len(s) + 1
        BY <1>2, <1>7
    <2>2. 1 .. Len(e) = (1 .. Len(s)) \cup {Len(s) + 1} /\ Len(s) + 1 \notin 1 .. Len(s)
        BY <1>1, <2>1
    <2>3. new \notin Slots(q)
        BY <1>4, <2>2
    <2>4. Slots(p) = Slots(q) \cup {new}
        <3> HIDE DEF p
        <3>1. ASSUME NEW z \in Slots(p) PROVE z \in Slots(q) \cup {new}
            <4>0. PICK c \in Dests : \E i \in 1 .. Len(p[c]) : z = <<c, i>>
                BY <3>1 DEF Slots
            <4>1. PICK i \in 1 .. Len(p[c]) : z = <<c, i>>
                BY <4>0
            <4>2. CASE c = d
                BY <1>3, <1>4, <2>2, <4>1, <4>2
            <4>3. CASE c # d
                BY <1>3, <1>4, <4>1, <4>3
            <4> QED BY <4>2, <4>3
        <3>2. ASSUME NEW z \in Slots(q) PROVE z \in Slots(p)
            <4>0. PICK c \in Dests : \E i \in 1 .. Len(q[c]) : z = <<c, i>>
                BY <3>2 DEF Slots
            <4>1. PICK i \in 1 .. Len(q[c]) : z = <<c, i>>
                BY <4>0
            <4>2. i \in 1 .. Len(p[c])
                BY <1>3, <2>2, <4>1
            <4> QED BY <4>1, <4>2 DEF Slots
        <3>3. new \in Slots(p)
            BY <1>3, <2>2 DEF Slots
        <3> QED BY <3>1, <3>2, <3>3
    <2> HIDE DEF new, p
    <2>5. IsFiniteSet(Slots(p)) /\ Total(p) = Total(q) + 1
        BY <2>3, <2>4, FS_AddElement DEF Total
    <2>6. Total(p) <= MaxCacheGlobal /\ Len(e) <= MaxCachePerDest
        BY <1>1, <1>5, <1>7, <2>1, <2>5
    <2> QED BY <2>5, <2>6 DEF p, e, s
<1> QED BY <1>6, <1>7

LEMMA EnqueueOK ==
    ASSUME NEW q, NEW n \in Nat, CacheOK(q, n), Total(q) < MaxCacheGlobal,
           NEW d \in Dests, NEW m \in Item, NEW k \in Nat, n <= k,
           d \in Absent => m = n + 1 /\ k = n + 1
    PROVE  CacheOK([q EXCEPT ![d] = Enqueue(q[d], m)], k)
<1> DEFINE p == [q EXCEPT ![d] = Enqueue(q[d], m)]
<1>1. /\ q \in [Dests -> Seq(Item)] /\ IsFiniteSet(Slots(q))
      /\ \A c \in Dests : Len(q[c]) <= MaxCachePerDest
      /\ \A c \in Absent : Sorted(q[c], n)
    BY DEF CacheOK
<1>2. /\ IsFiniteSet(Slots(p)) /\ Total(p) <= MaxCacheGlobal
      /\ Len(Enqueue(q[d], m)) <= MaxCachePerDest
    BY <1>1, EnqueueTotal
<1>3. q[d] \in Seq(Item)
    BY <1>1
<1>4. Enqueue(q[d], m) \in Seq(Item)
    BY <1>3, EnqueueFacts
<1>5. p \in [Dests -> Seq(Item)] /\ p[d] = Enqueue(q[d], m) /\ \A c \in Dests : c # d => p[c] = q[c]
    BY <1>1, <1>4
<1> HIDE DEF p
<1>6. \A c \in Dests : Len(p[c]) <= MaxCachePerDest
    BY <1>1, <1>2, <1>5
<1>7. ASSUME NEW c \in Absent PROVE Sorted(p[c], k)
    <2>1. CASE c = d
        BY <1>1, <1>3, <1>5, <2>1, EnqueueSorted
    <2>2. CASE c # d
        <3>1. p[c] = q[c] /\ Sorted(q[c], n)
            BY <1>1, <1>5, <2>2 DEF Dests
        <3> QED BY <3>1 DEF Sorted
    <2> QED BY <2>1, <2>2
<1> QED BY <1>2, <1>5, <1>6, <1>7 DEF CacheOK, p

(* Later notes do not matter. *)
LEMMA CacheLater ==
    ASSUME NEW q, NEW n \in Nat, NEW k \in Nat, n <= k, CacheOK(q, n)
    PROVE  CacheOK(q, k)
<1>1. \A d \in Absent : Sorted(q[d], n) => Sorted(q[d], k)
    BY DEF Sorted
<1> QED BY <1>1 DEF CacheOK

LEMMA CacheFrame ==
    ASSUME TypeOK, CacheInv, UNCHANGED <<queues, saved>>, notes' \in Nat, notes <= notes'
    PROVE  CacheInv'
<1>1. notes \in Nat
    BY BoundsAssumption DEF TypeOK
<1>2. \A x \in Agents : CacheOK(queues[x], notes') /\ CacheOK(saved[x], notes')
    BY <1>1, CacheLater DEF CacheInv
<1> QED BY <1>2 DEF CacheInv

LEMMA CacheSame ==
    ASSUME TypeOK, CacheInv, UNCHANGED <<queues, saved, notes>>
    PROVE  CacheInv'
<1>1. notes' \in Nat /\ notes <= notes'
    BY BoundsAssumption DEF TypeOK
<1> QED BY <1>1, CacheFrame

(* One message for destination d goes into the cache of x. *)
LEMMA CacheGains ==
    ASSUME TypeOK, CacheInv, NEW x \in Agents, ~ Full(x), NEW d \in Dests, NEW m \in Item,
           queues' = [queues EXCEPT ![x][d] = Enqueue(@, m)], UNCHANGED saved,
           notes' \in Nat, notes <= notes',
           d \in Absent => m = notes + 1 /\ notes' = notes + 1
    PROVE  CacheInv'
<1> DEFINE q == queues[x]
           p == [q EXCEPT ![d] = Enqueue(q[d], m)]
<1>1. notes \in Nat /\ MaxCacheGlobal \in Nat
    BY BoundsAssumption, CacheAssumption DEF TypeOK
<1>2. queues \in [Agents -> Cache] /\ saved \in [Agents -> Cache] /\ CacheOK(q, notes)
    BY DEF CacheInv
<1>3. Total(q) < MaxCacheGlobal
    <2>1. Total(q) \in Nat
        BY <1>2, FS_CardinalityType DEF CacheOK, Total
    <2>2. ~ (Total(q) >= MaxCacheGlobal)
        BY DEF Full
    <2> HIDE DEF q
    <2> QED BY <1>1, <2>1, <2>2
<1>4. queues' = [queues EXCEPT ![x] = p]
    OBVIOUS
<1> HIDE DEF q
<1>5. CacheOK(p, notes')
    BY <1>1, <1>2, <1>3, EnqueueOK
<1>6. p \in Cache
    BY <1>5 DEF CacheOK, Cache
<1> HIDE DEF p
<1>7. queues' \in [Agents -> Cache] /\ queues'[x] = p /\ \A y \in Agents : y # x => queues'[y] = queues[y]
    BY <1>2, <1>4, <1>6
<1>8. \A y \in Agents : CacheOK(queues[y], notes') /\ CacheOK(saved[y], notes')
    BY <1>1, CacheLater DEF CacheInv
<1>9. \A y \in Agents : CacheOK(queues'[y], notes') /\ CacheOK(saved'[y], notes')
    BY <1>5, <1>7, <1>8
<1> QED BY <1>2, <1>7, <1>9 DEF CacheInv

LEMMA RouteCache ==
    ASSUME TypeOK, CacheInv, NEW x \in Agents, NEW kind \in Kinds, NEW t \in Traces \cup {"-"}, NEW out,
           NEW rest, Route(x, kind, t, out, rest), UNCHANGED saved, notes' \in Nat, notes <= notes'
    PROVE  CacheInv'
<1> DEFINE m == <<kind, t>>
<1>1. \/ UNCHANGED queues
      \/ ~ Full(x) /\ queues' = [queues EXCEPT ![x][Other(x)] = Enqueue(@, m)]
    BY DEF Route
<1>2. Other(x) \in Dests /\ Other(x) \notin Absent
    BY OtherType, CacheAssumption DEF Dests
<1>3. m \in Item
    BY DEF Item
<1> HIDE DEF m
<1>4. CASE UNCHANGED queues
    BY <1>4, CacheFrame
<1>5. CASE ~ Full(x) /\ queues' = [queues EXCEPT ![x][Other(x)] = Enqueue(@, m)]
    BY <1>2, <1>3, <1>5, CacheGains
<1> QED BY <1>1, <1>4, <1>5

(* Send and handleRekey within a step. *)
LEMMA SendCache ==
    ASSUME TypeOK, CacheInv, NEW x \in Agents, NEW kind \in Kinds, NEW t \in Traces \cup {"-"}, NEW out,
           NEW rest, Route(x, kind, t, out, rest), UNCHANGED <<saved, notes>>
    PROVE  CacheInv'
<1>1. notes' \in Nat /\ notes <= notes'
    BY BoundsAssumption DEF TypeOK
<1> QED BY <1>1, RouteCache

LEMMA DiesCache ==
    ASSUME TypeOK, CacheInv, NEW x \in Agents, NEW how, Dies(x, how)
    PROVE  CacheInv'
<1>1. queues' = [queues EXCEPT ![x] = saved[x]] /\ UNCHANGED <<saved, notes>>
    BY DEF Dies
<1>2. queues' \in [Agents -> Cache] /\ queues'[x] = saved[x] /\ \A y \in Agents : y # x => queues'[y] = queues[y]
    BY <1>1 DEF CacheInv
<1> QED BY <1>1, <1>2 DEF CacheInv

LEMMA StopEndsCache ==
    ASSUME TypeOK, CacheInv, NEW x \in Agents, StopEnds(x)
    PROVE  CacheInv'
<1>1. saved' = [saved EXCEPT ![x] = queues[x]] /\ UNCHANGED <<queues, notes>>
    BY DEF StopEnds
<1>2. saved' \in [Agents -> Cache] /\ saved'[x] = queues[x] /\ \A y \in Agents : y # x => saved'[y] = saved[y]
    BY <1>1 DEF CacheInv
<1> QED BY <1>1, <1>2 DEF CacheInv

LEMMA SendNoteCache ==
    ASSUME TypeOK, CacheInv, NEW x \in Agents, NEW d \in Absent, SendNote(x, d)
    PROVE  CacheInv'
<1>1. /\ notes' = notes + 1 /\ UNCHANGED saved
      /\ \/ UNCHANGED queues
         \/ ~ Full(x) /\ queues' = [queues EXCEPT ![x][d] = Enqueue(@, notes + 1)]
    BY DEF SendNote
<1>2. notes \in Nat /\ notes' \in Nat /\ notes <= notes' /\ notes + 1 \in Item /\ d \in Dests
    BY <1>1, BoundsAssumption DEF TypeOK, Item, Dests
<1> DEFINE m == notes + 1
<1>3. m \in Item /\ m = notes + 1
    BY <1>2
<1> HIDE DEF m
<1>4. CASE UNCHANGED queues
    BY <1>1, <1>2, <1>4, CacheFrame
<1>5. CASE ~ Full(x) /\ queues' = [queues EXCEPT ![x][d] = Enqueue(@, m)]
    BY <1>1, <1>2, <1>3, <1>5, CacheGains
<1> QED BY <1>1, <1>3, <1>4, <1>5

LEMMA HandlerCache ==
    ASSUME IInv, CacheInv, NEW x \in Agents, NEW m \in net, Handler(x, m)
    PROVE  CacheInv'
<1>1. m.kind # "contact" => m.trace \in Traces
    BY DEF IInv, NetInv, Good
<1>2. TypeOK
    BY DEF IInv
<1>3. CASE DecryptFails(x, m)
    BY <1>2, <1>3, DiesCache DEF DecryptFails
<1>4. CASE Drop(x, m) \/ LookupResponse(x, m) \/ HandleOther(x, m) \/ HandleUnanswered(x, m)
    <2>1. UNCHANGED <<queues, saved, notes>>
        BY <1>4 DEF Drop, LookupResponse, HandleOther, HandleUnanswered, cacheVars
    <2> QED BY <1>2, <2>1, CacheSame
<1>5. ASSUME NEW out \in Outcomes, NEW reply \in {"response", "error"}, HandleRequest(x, m, reply, out)
      PROVE  CacheInv'
    <2>1. /\ Route(x, reply, m.trace, out, net \ {m}) /\ UNCHANGED <<saved, notes>>
          /\ m.kind = "request"
        BY <1>5 DEF HandleRequest, Send
    <2>2. m.trace \in Traces /\ reply \in Kinds
        BY <1>1, <1>2, <2>1 DEF Kinds
    <2> QED BY <1>2, <2>1, <2>2, SendCache
<1>6. ASSUME NEW out \in Outcomes, HandleRekey(x, m, out)
      PROVE  CacheInv'
    <2>1. m.kind = "rekey" /\ UNCHANGED <<saved, notes>>
        BY <1>6 DEF HandleRekey
    <2>2. m.trace \in Traces /\ "rekey_response" \in Kinds
        BY <1>1, <1>2, <2>1 DEF Kinds
    <2>3. UNCHANGED queues \/ Route(x, "rekey_response", m.trace, out, net \ {m})
        BY <1>6 DEF HandleRekey
    <2>4. CASE UNCHANGED queues
        BY <1>2, <2>1, <2>4, CacheSame
    <2>5. CASE Route(x, "rekey_response", m.trace, out, net \ {m})
        BY <1>2, <2>1, <2>2, <2>5, SendCache
    <2> QED BY <2>3, <2>4, <2>5
<1>7. ASSUME NEW approved \in BOOLEAN, HandleContact(x, m, approved)
      PROVE  CacheInv'
    <2>1. UNCHANGED <<queues, saved, notes>>
        BY <1>7 DEF HandleContact, cacheVars
    <2> QED BY <1>2, <2>1, CacheSame
<1> QED BY <1>3, <1>4, <1>5, <1>6, <1>7 DEF Handler

LEMMA CallerCache ==
    ASSUME IInv, CacheInv, NEW t \in Traces, SendRequest(t) \/ Caller(t)
    PROVE  CacheInv'
<1>1. TypeOK /\ Owner(t) \in Agents
    BY OwnerType DEF IInv
<1>2. CASE SendRequest(t) \/ ReceiveResponse(t) \/ TimeOut(t)
    <2>1. UNCHANGED <<queues, saved, notes>>
        BY <1>2 DEF SendRequest, ReceiveResponse, TimeOut, cacheVars
    <2> QED BY <1>1, <2>1, CacheSame
<1>3. ASSUME NEW out \in Outcomes, SendRequestSends(t, out)
      PROVE  CacheInv'
    <2> DEFINE kind == IF IsRekey(t) THEN "rekey" ELSE "request"
    <2>1. kind \in Kinds
        BY DEF Kinds
    <2>2. Route(Owner(t), kind, t, out, net) /\ UNCHANGED <<saved, notes>>
        BY <1>3 DEF SendRequestSends, Send
    <2> HIDE DEF kind
    <2> QED BY <1>1, <2>1, <2>2, SendCache
<1> QED BY <1>2, <1>3 DEF Caller

LEMMA InitCache == Init => CacheInv
<1> SUFFICES ASSUME Init PROVE CacheInv
    OBVIOUS
<1> DEFINE q == [d \in Dests |-> <<>>]
<1>1. q \in Cache /\ \A d \in Dests : Len(q[d]) = 0
    BY DEF Cache
<1>2. \A d \in Absent : q[d] = <<>>
    BY DEF Dests
<1>3. Slots(q) = {}
    <2> HIDE DEF q
    <2> QED BY <1>1 DEF Slots
<1>4. IsFiniteSet(Slots(q)) /\ Total(q) = 0
    BY <1>3, FS_EmptySet DEF Total
<1>5. \A x \in Agents : queues[x] = q /\ saved[x] = q
    BY DEF Init
<1>6. queues \in [Agents -> Cache] /\ saved \in [Agents -> Cache]
    BY <1>1 DEF Init
<1> HIDE DEF q
<1>7. CacheOK(q, notes)
    <2>1. \A d \in Absent : Sorted(q[d], notes)
        BY <1>2 DEF Sorted
    <2> QED BY <1>1, <1>4, <2>1, CacheAssumption DEF CacheOK, Cache
<1> QED BY <1>5, <1>6, <1>7 DEF CacheInv

LEMMA CacheStep == IInv /\ CacheInv /\ [Next]_vars => CacheInv'
<1> SUFFICES ASSUME IInv, CacheInv, [Next]_vars PROVE CacheInv'
    OBVIOUS
<1>0. TypeOK
    BY DEF IInv
<1>1. CASE UNCHANGED vars
    BY <1>0, <1>1, CacheSame DEF vars
<1>2. ASSUME NEW t \in Traces, SendRequest(t) \/ Caller(t)
      PROVE  CacheInv'
    BY <1>2, CallerCache
<1>3. ASSUME NEW x \in Agents, NEW t \in Traces, InitiateRekey(x, t) \/ PutResponse(x, t)
      PROVE  CacheInv'
    <2>1. Dies(x, "panicked") \/ UNCHANGED <<queues, saved, notes>>
        BY <1>3 DEF InitiateRekey, PutResponse, cacheVars
    <2> QED BY <1>0, <2>1, DiesCache, CacheSame
<1>4. ASSUME NEW x \in Agents, NEW m \in net, Handler(x, m)
      PROVE  CacheInv'
    BY <1>4, HandlerCache
<1>5. ASSUME NEW x \in Agents, NEW t \in Traces, NEW out \in Outcomes, SendEvent(x, t, out)
      PROVE  CacheInv'
    <2>1. Route(x, "event", t, out, net) /\ UNCHANGED saved /\ notes' = notes + 1 /\ "event" \in Kinds
        BY <1>5 DEF SendEvent, Send, Kinds
    <2>2. notes' \in Nat /\ notes <= notes'
        BY <1>0, <2>1, BoundsAssumption DEF TypeOK
    <2> QED BY <1>0, <2>1, <2>2, RouteCache
<1>6. ASSUME NEW x \in Agents, NEW out \in Outcomes, SendContactRequest(x, out)
      PROVE  CacheInv'
    <2>1. Route(x, "contact", "-", out, net) /\ UNCHANGED <<saved, notes>> /\ "contact" \in Kinds
        BY <1>6 DEF SendContactRequest, Send, Kinds
    <2> QED BY <1>0, <2>1, SendCache
<1>7. ASSUME NEW x \in Agents, NEW d \in Absent, SendNote(x, d)
      PROVE  CacheInv'
    BY <1>0, <1>7, SendNoteCache
<1>8. ASSUME NEW x \in Agents, BlockAgent(x) \/ Disconnect(x) \/ StopBegins(x) \/ Restart(x)
      PROVE  CacheInv'
    <2>1. UNCHANGED <<queues, saved, notes>>
        BY <1>8 DEF BlockAgent, Disconnect, StopBegins, Restart, cacheVars
    <2> QED BY <1>0, <2>1, CacheSame
<1>9. ASSUME NEW x \in Agents, StopEnds(x) \/ Exit(x)
      PROVE  CacheInv'
    BY <1>0, <1>9, StopEndsCache, DiesCache DEF Exit
<1>10. CASE Connect
    BY <1>0, <1>10, CacheSame DEF Connect, cacheVars
<1>11. ASSUME NEW m \in net, Lose(m)
       PROVE  CacheInv'
    BY <1>0, <1>11, CacheSame DEF Lose, cacheVars
<1>12. ASSUME NEW x \in Agents, NEW k \in sess[x].next, InstallKey(x, k)
       PROVE  CacheInv'
    BY <1>0, <1>12, CacheSame DEF InstallKey, cacheVars
<1> QED BY <1>1, <1>2, <1>3, <1>4, <1>5, <1>6, <1>7, <1>8, <1>9, <1>10, <1>11, <1>12 DEF Next

(* MessageCache.Enqueue keeps the cache within MaxCachePerDest and         *)
(* MaxCacheGlobal and in the order of sending, also across the save and    *)
(* the load of a restart and the crash that loses what was not saved.      *)
THEOREM CacheKeepsItsLimits == Spec => []CacheBounded
<1>1. CacheInv => CacheBounded
    BY DEF CacheInv, CacheOK, CacheBounded, Sorted
<1> QED BY <1>1, InitCache, CacheStep, InvHolds, PTL DEF Spec
=============================================================================
