---------------------------- MODULE MailboxProofs -----------------------------
(***************************************************************************)
(* Proofs about Mailbox for any agents, relays, envelopes, number of       *)
(* retries and faults: types, that a confirmed message was handed over,    *)
(* that a mailbox handles an event once, and that retries are bounded.     *)
(***************************************************************************)
EXTENDS Mailbox, FiniteSetTheorems, TLAPS

(* Events are numbered in the order of their creation, only created ones   *)
(* are published and held, and a receipt is created when its envelope is   *)
(* handed over.                                                            *)
EventsOK ==
    \A n \in Events :
        /\ n <= created => event[n].kind \in {"message", "receipt"} /\ event[n].env \in Envelopes
        /\ n > created => event[n].kind = "none"
        /\ event[n].kind = "receipt" => event[n].env \in handed

RelayOK ==
    /\ \A r \in Relays : \A n \in relay[r] : n <= created
    /\ \A a \in Agents, g \in Goroutine : pub[a][g].event <= created

SyncOK ==
    \A a \in Agents : sync[a].at <= Len(InboxRelays[a]) /\ (up[a] = FALSE => sync[a].at = 0)

(* A mailbox that is down does nothing. *)
DownQuiet ==
    \A a \in Agents : up[a] = FALSE =>
        /\ \A g \in Goroutine : pub[a][g].event = 0
        /\ batch[a] = {}
        /\ \A n \in Events : times[a][n] = 0

(* SendToInbox is publishing e; so is the retry goroutine. *)
Calling(e) == pub[Source[e]]["caller"].event # 0 /\ pub[Source[e]]["caller"].env = e
Retrying(e) == pub[Source[e]]["retry"].event # 0 /\ pub[Source[e]]["retry"].env = e

(* An envelope is tracked only after SendToInbox is through with it, and   *)
(* the retry goroutine keeps to its batch.                                 *)
PubOK ==
    /\ \A a \in Agents : pub[a]["caller"].event # 0 =>
           pub[a]["caller"].env \in Envelopes /\ Source[pub[a]["caller"].env] = a
    /\ \A a \in Agents : pub[a]["retry"].event # 0 => pub[a]["retry"].env \in batch[a]
    /\ \A e \in Envelopes : Calling(e) => outbox[e] = None /\ Attempts(e) # {}

BatchOK ==
    \A a \in Agents : \A e \in batch[a] :
        Source[e] = a /\ outbox[e] # None /\ outbox[e].retries < MaxRetries

(* An entry, in memory or on disk, is of an envelope that was sent, and    *)
(* confirmed only if it was handed over.                                   *)
GoodEntry(e, x, sent, there) ==
    x # None => sent # {} /\ (x.confirmed = TRUE => e \in there)

OutboxOK == \A e \in Envelopes : GoodEntry(e, outbox[e], Attempts(e), handed)
DiskOK == \A e \in Envelopes, a \in Agents : GoodEntry(e, disk[a].outbox[e], Attempts(e), handed)

(* An event that was handled stays in seenEvents until it is older than    *)
(* what the sync under way and every later one asks for.                   *)
Remembered(a, n) ==
    \/ n \in seen[a]
    \/ n < lastSync[a] /\ (sync[a].at # 0 => n < sync[a].since)

HandledOK ==
    \A a \in Agents, n \in Events :
        /\ times[a][n] <= 1
        /\ times[a][n] # 0 => n <= created /\ Remembered(a, n)

(* The attempts made so far are paid for by the restarts and by the        *)
(* retries the entry counts, or is about to count.                         *)
Restarts == Cardinality(Occurred({"stop", "crash"}))
Base == 1 + MaxRetries * Restarts
Tries(e) == Cardinality(Attempts(e))
Counted(e) == outbox[e].retries + (IF Retrying(e) THEN 1 ELSE 0)

Spent ==
    \A e \in Envelopes :
        /\ Tries(e) <= Base + MaxRetries
        /\ up[Source[e]] = FALSE \/ Calling(e) => Tries(e) <= Base
        /\ outbox[e] # None => Tries(e) <= Base + Counted(e)

Inv ==
    /\ EventsOK /\ RelayOK /\ SyncOK /\ DownQuiet /\ PubOK /\ BatchOK
    /\ OutboxOK /\ DiskOK /\ HandledOK /\ Spent
IInv == TypeOK /\ Inv

-----------------------------------------------------------------------------
(* Types. *)

EventFun == [Events -> EventType]
OutboxType == [Envelopes -> MaybeEntry]
PubType == [Agents -> [Goroutine -> Pub]]
SyncType == [Agents -> Sync]
TimesType == [Agents -> [Events -> Nat]]
DiskType == [Agents -> [outbox : [Envelopes -> MaybeEntry], lastSync : Moment]]

LEMMA Types ==
    ASSUME TypeOK
    PROVE  /\ created \in 0 .. MaxEvents /\ created \in Nat /\ MaxEvents \in Nat
           /\ event \in EventFun /\ relay \in [Relays -> SUBSET Events]
           /\ outbox \in OutboxType /\ lastSync \in [Agents -> Moment]
           /\ seen \in [Agents -> SUBSET Events] /\ sync \in SyncType
           /\ batch \in [Agents -> SUBSET Envelopes] /\ pub \in PubType
           /\ up \in [Agents -> BOOLEAN] /\ disk \in DiskType
           /\ handed \subseteq Envelopes /\ receipted \subseteq Envelopes
           /\ times \in TimesType /\ faults \in Seq(FaultKinds)
BY ConstantsAssumption DEF TypeOK, EventFun, OutboxType, PubType, SyncType, TimesType, DiskType

LEMMA TypesNext ==
    ASSUME created' \in 0 .. MaxEvents, event' \in EventFun, relay' \in [Relays -> SUBSET Events],
           outbox' \in OutboxType, lastSync' \in [Agents -> Moment],
           seen' \in [Agents -> SUBSET Events], sync' \in SyncType,
           batch' \in [Agents -> SUBSET Envelopes], pub' \in PubType,
           up' \in [Agents -> BOOLEAN], disk' \in DiskType,
           handed' \subseteq Envelopes, receipted' \subseteq Envelopes,
           times' \in TimesType, faults' \in Seq(FaultKinds)
    PROVE  TypeOK'
BY DEF TypeOK, EventFun, OutboxType, PubType, SyncType, TimesType, DiskType

LEMMA SyncedAtType ==
    ASSUME TypeOK, NEW a \in Agents, NEW now \in {created, created + 1}
    PROVE  SyncedAt(a, now) \in Moment /\ lastSync[a] \in Moment /\ lastSync[a] <= SyncedAt(a, now)
BY Types, ConstantsAssumption DEF SyncedAt, Moment

LEMMA EventsFinite == IsFiniteSet(Events) /\ \A S \in SUBSET Events : IsFiniteSet(S)
<1>1. IsFiniteSet(Events)
    BY ConstantsAssumption, FS_Interval DEF Events
<1> QED BY <1>1, FS_Subset

LEMMA AttemptsFinite ==
    ASSUME NEW e \in Envelopes
    PROVE  IsFiniteSet(Attempts(e)) /\ Tries(e) \in Nat
<1>1. Attempts(e) \in SUBSET Events
    BY DEF Attempts
<1> QED BY <1>1, EventsFinite, FS_CardinalityType DEF Tries

(* Restarts are counted by a sequence that only grows. *)
LEMMA AppendFault ==
    ASSUME NEW f \in Seq(FaultKinds), NEW k \in FaultKinds
    PROVE  /\ Append(f, k) \in Seq(FaultKinds)
           /\ DOMAIN Append(f, k) = DOMAIN f \cup {Len(f) + 1} /\ Len(f) + 1 \notin DOMAIN f
           /\ Append(f, k)[Len(f) + 1] = k /\ \A i \in DOMAIN f : Append(f, k)[i] = f[i]
OBVIOUS

LEMMA OccurredFinite ==
    ASSUME TypeOK, NEW kinds
    PROVE  IsFiniteSet(Occurred(kinds))
<1>1. faults \in Seq(FaultKinds)
    BY Types
<1>2. DOMAIN faults = 1 .. Len(faults) /\ Len(faults) \in Nat
    BY <1>1
<1>3. IsFiniteSet(DOMAIN faults)
    BY <1>2, FS_Interval
<1> QED BY <1>3, FS_Subset DEF Occurred

LEMMA RestartsType ==
    ASSUME TypeOK
    PROVE  Restarts \in Nat /\ Base \in Nat /\ MaxRetries \in Nat
<1>1. Restarts \in Nat
    BY OccurredFinite, FS_CardinalityType DEF Restarts
<1>2. MaxRetries \in Nat
    BY ConstantsAssumption
<1>3. \A m, r \in Nat : 1 + m * r \in Nat
    OBVIOUS
<1>4. Base \in Nat
    BY <1>1, <1>2, <1>3, Zenon DEF Base
<1> QED BY <1>1, <1>2, <1>4

(* A fault that is no restart. *)
Mild == Restarts' = Restarts /\ faults' \in Seq(FaultKinds)

LEMMA MildFault ==
    ASSUME TypeOK, NoFault \/ \E k \in FaultKinds \ {"stop", "crash"} : Fault(k)
    PROVE  Mild
<1>1. faults \in Seq(FaultKinds)
    BY Types
<1>2. CASE NoFault
    BY <1>1, <1>2 DEF NoFault, Mild, Restarts, Occurred
<1>3. ASSUME NEW k \in FaultKinds \ {"stop", "crash"}, Fault(k) PROVE Mild
    <2>1. faults' = Append(faults, k) /\ faults' \in Seq(FaultKinds)
        BY <1>1, <1>3, AppendFault DEF Fault
    <2>2. Occurred({"stop", "crash"})' = Occurred({"stop", "crash"})
        BY <1>1, <1>3, <2>1, AppendFault DEF Occurred
    <2> QED BY <2>1, <2>2 DEF Mild, Restarts
<1> QED BY <1>2, <1>3

LEMMA MildBase ==
    ASSUME Mild
    PROVE  Base' = Base
BY DEF Mild, Base

-----------------------------------------------------------------------------
(* What a step leaves alone. *)

(* The caller and the retry goroutine go on with what they publish. *)
PubLike ==
    \A a \in Agents, g \in {"caller", "retry"} :
        pub'[a][g].event = pub[a][g].event /\ pub'[a][g].env = pub[a][g].env

LEMMA LikeCalling ==
    ASSUME PubLike, NEW e \in Envelopes
    PROVE  (Calling(e)' <=> Calling(e)) /\ (Retrying(e)' <=> Retrying(e))
<1>1. Source[e] \in Agents
    BY ConstantsAssumption
<1> QED BY <1>1 DEF PubLike, Calling, Retrying

LEMMA SamePub ==
    ASSUME UNCHANGED pub
    PROVE  PubLike
BY DEF PubLike

LEMMA EventFrame ==
    ASSUME EventsOK, UNCHANGED <<created, event>>, handed \subseteq handed'
    PROVE  EventsOK'
BY DEF EventsOK

LEMMA PubFrame ==
    ASSUME PubOK, PubLike, UNCHANGED <<event, outbox, batch>>
    PROVE  PubOK'
<1>1. \A e \in Envelopes : Attempts(e)' = Attempts(e)
    BY DEF Attempts
<1>2. \A e \in Envelopes : Calling(e)' <=> Calling(e)
    BY LikeCalling
<1>3. \A e \in Envelopes : Calling(e)' => outbox'[e] = None /\ Attempts(e)' # {}
    BY <1>1, <1>2 DEF PubOK
<1>4. \A a \in Agents : pub'[a]["caller"].event # 0 =>
           pub'[a]["caller"].env \in Envelopes /\ Source[pub'[a]["caller"].env] = a
    BY DEF PubOK, PubLike
<1>5. \A a \in Agents : pub'[a]["retry"].event # 0 => pub'[a]["retry"].env \in batch'[a]
    BY DEF PubOK, PubLike
<1> QED BY <1>3, <1>4, <1>5 DEF PubOK

LEMMA DownFrame ==
    ASSUME DownQuiet, UNCHANGED <<up, batch, times>>,
           \A a \in Agents, g \in Goroutine : pub[a][g].event = 0 => up[a] = TRUE \/ pub'[a][g].event = 0,
           TypeOK
    PROVE  DownQuiet'
<1>1. \A a \in Agents : up[a] \in BOOLEAN
    BY Types
<1> QED BY <1>1 DEF DownQuiet

LEMMA BatchFrame ==
    ASSUME BatchOK, UNCHANGED <<batch, outbox>>
    PROVE  BatchOK'
BY DEF BatchOK

LEMMA OutboxFrame ==
    ASSUME OutboxOK, UNCHANGED <<event, outbox>>, handed \subseteq handed'
    PROVE  OutboxOK'
<1>1. \A e \in Envelopes : Attempts(e)' = Attempts(e)
    BY DEF Attempts
<1> QED BY <1>1 DEF OutboxOK, GoodEntry

LEMMA DiskFrame ==
    ASSUME DiskOK, UNCHANGED disk, handed \subseteq handed',
           \A e \in Envelopes : Attempts(e) # {} => Attempts(e)' # {}
    PROVE  DiskOK'
BY DEF DiskOK, GoodEntry

LEMMA HandledFrame ==
    ASSUME TypeOK, HandledOK, UNCHANGED <<times, seen, lastSync, sync>>, created' \in Nat, created <= created'
    PROVE  HandledOK'
<1>1. created \in Nat /\ Events \subseteq Nat
    BY Types, ConstantsAssumption DEF Events
<1> SUFFICES ASSUME NEW a \in Agents, NEW n \in Events
             PROVE  /\ times[a][n] <= 1
                    /\ times[a][n] # 0 => n <= created' /\ Remembered(a, n)
    BY DEF HandledOK, Remembered
<1> QED BY <1>1 DEF HandledOK

LEMMA SpentFrame ==
    ASSUME Spent, PubLike, UNCHANGED <<event, up, outbox>>, Mild
    PROVE  Spent'
<1>1. \A e \in Envelopes : Attempts(e)' = Attempts(e)
    BY DEF Attempts
<1>2. \A e \in Envelopes : Tries(e)' = Tries(e)
    BY <1>1 DEF Tries
<1>3. \A e \in Envelopes : (Calling(e)' <=> Calling(e)) /\ (Retrying(e)' <=> Retrying(e))
    BY LikeCalling
<1>4. \A e \in Envelopes : Counted(e)' = Counted(e)
    BY <1>3 DEF Counted
<1>5. Base' = Base
    BY MildBase
<1> QED BY <1>2, <1>3, <1>4, <1>5 DEF Spent

(* A step that creates no event and leaves the outboxes alone. *)
LEMMA QuietStep ==
    ASSUME IInv, UNCHANGED <<created, event, outbox, batch, up, disk, handed>>, PubLike, Mild,
           TypeOK', DownQuiet', HandledOK', RelayOK', SyncOK'
    PROVE  IInv'
<1>1. EventsOK /\ PubOK /\ BatchOK /\ OutboxOK /\ DiskOK /\ Spent
    BY DEF IInv, Inv
<1>2. \A e \in Envelopes : Attempts(e) # {} => Attempts(e)' # {}
    BY DEF Attempts
<1>3. EventsOK' /\ PubOK' /\ BatchOK' /\ OutboxOK'
    BY <1>1, EventFrame, PubFrame, BatchFrame, OutboxFrame
<1>4. DiskOK' /\ Spent'
    BY <1>1, <1>2, DiskFrame, SpentFrame
<1> QED BY <1>3, <1>4 DEF IInv, Inv

LEMMA PubTaken ==
    ASSUME NEW p \in Pub
    PROVE  /\ [p EXCEPT !.at = @ + 1, !.ok = TRUE] \in Pub
           /\ [p EXCEPT !.at = @ + 1, !.ok = TRUE].event = p.event
           /\ [p EXCEPT !.at = @ + 1, !.ok = TRUE].env = p.env
<1> DEFINE y == [p EXCEPT !.at = @ + 1]
           x == [y EXCEPT !.ok = TRUE]
<1>1. y \in Pub /\ y.event = p.event /\ y.env = p.env
    BY DEF Pub
<1>2. x = [p EXCEPT !.at = @ + 1, !.ok = TRUE]
    OBVIOUS
<1> HIDE DEF y
<1>3. x \in Pub /\ x.event = y.event /\ x.env = y.env
    BY <1>1 DEF Pub
<1> HIDE DEF x
<1> QED BY <1>1, <1>2, <1>3

LEMMA PublishStep ==
    ASSUME IInv, NEW a \in Agents, NEW g \in Goroutine, Publish(a, g)
    PROVE  IInv'
<1> DEFINE p == pub[a][g]
           q == pub'[a][g]
<1>1. /\ p.event # 0
      /\ UNCHANGED <<created, event, outbox, lastSync, seen, sync, batch, up, disk>>
      /\ UNCHANGED <<handed, receipted, times>>
    BY DEF Publish, Publishing, ghosts
<1>2. TypeOK /\ RelayOK /\ SyncOK /\ DownQuiet /\ HandledOK
    BY DEF IInv, Inv
<1>3. p \in Pub /\ pub \in PubType
    BY <1>2, Types DEF PubType
<1>4. /\ pub' \in PubType
      /\ \A b \in Agents, h \in Goroutine :
            pub'[b][h].event = pub[b][h].event /\ pub'[b][h].env = pub[b][h].env
    <2>1. ASSUME NEW x \in Pub, x.event = p.event, x.env = p.env, pub' = [pub EXCEPT ![a][g] = x]
          PROVE  /\ pub' \in PubType
                 /\ \A b \in Agents, h \in Goroutine :
                       pub'[b][h].event = pub[b][h].event /\ pub'[b][h].env = pub[b][h].env
        <3>1. pub' \in PubType
            BY <1>3, <2>1 DEF PubType
        <3>2. \A b \in Agents, h \in Goroutine : pub'[b][h] = IF b = a /\ h = g THEN x ELSE pub[b][h]
            BY <1>3, <2>1 DEF PubType
        <3> QED BY <2>1, <3>1, <3>2
    <2>2. /\ [p EXCEPT !.at = @ + 1] \in Pub
          /\ [p EXCEPT !.at = @ + 1].event = p.event /\ [p EXCEPT !.at = @ + 1].env = p.env
        BY <1>3 DEF Pub
    <2>3. /\ [p EXCEPT !.at = @ + 1, !.ok = TRUE] \in Pub
          /\ [p EXCEPT !.at = @ + 1, !.ok = TRUE].event = p.event
          /\ [p EXCEPT !.at = @ + 1, !.ok = TRUE].env = p.env
        BY <1>3, PubTaken
    <2>4. \/ pub' = [pub EXCEPT ![a][g] = [p EXCEPT !.at = @ + 1, !.ok = TRUE]]
          \/ pub' = [pub EXCEPT ![a][g] = [p EXCEPT !.at = @ + 1]]
        BY DEF Publish
    <2>5. CASE pub' = [pub EXCEPT ![a][g] = [p EXCEPT !.at = @ + 1, !.ok = TRUE]]
        <3> DEFINE x == [p EXCEPT !.at = @ + 1, !.ok = TRUE]
        <3>1. x \in Pub /\ x.event = p.event /\ x.env = p.env /\ pub' = [pub EXCEPT ![a][g] = x]
            BY <2>3, <2>5
        <3> HIDE DEF x, p
        <3> QED BY <2>1, <3>1
    <2>6. CASE pub' = [pub EXCEPT ![a][g] = [p EXCEPT !.at = @ + 1]]
        <3> DEFINE x == [p EXCEPT !.at = @ + 1]
        <3>1. x \in Pub /\ x.event = p.event /\ x.env = p.env /\ pub' = [pub EXCEPT ![a][g] = x]
            BY <2>2, <2>6
        <3> HIDE DEF x, p
        <3> QED BY <2>1, <3>1
    <2> QED BY <2>4, <2>5, <2>6
<1>5. PubLike
    BY <1>4 DEF PubLike, Goroutine
<1>6. Mild
    BY <1>2, MildFault DEF Publish, FaultKinds
<1>7. p.event \in Events /\ p.event <= created
    BY <1>1, <1>2, <1>3, ConstantsAssumption DEF Pub, Events, RelayOK
<1>8. relay' \in [Relays -> SUBSET Events] /\ RelayOK'
    <2>1. relay \in [Relays -> SUBSET Events]
        BY <1>2, Types
    <2>2. \A b \in Agents, h \in Goroutine : pub'[b][h].event <= created'
        BY <1>1, <1>2, <1>4 DEF RelayOK
    <2>3. CASE UNCHANGED relay
        BY <1>1, <1>2, <2>1, <2>2, <2>3 DEF RelayOK
    <2>4. ASSUME NEW r, relay' = [relay EXCEPT ![r] = @ \cup {p.event}]
          PROVE  relay' \in [Relays -> SUBSET Events] /\ RelayOK'
        <3> HIDE DEF p
        <3>1. relay' \in [Relays -> SUBSET Events]
            BY <1>7, <2>1, <2>4
        <3>2. \A x \in Relays : relay'[x] = relay[x] \/ relay'[x] = relay[x] \cup {p.event}
            BY <2>1, <2>4
        <3>3. \A x \in Relays : \A n \in relay'[x] : n <= created'
            BY <1>1, <1>2, <1>7, <3>2 DEF RelayOK
        <3> QED BY <2>2, <3>1, <3>3 DEF RelayOK
    <2> QED BY <2>3, <2>4 DEF Publish
<1>9. TypeOK'
    BY <1>1, <1>2, <1>4, <1>6, <1>8, Types, TypesNext DEF Mild
<1>10. DownQuiet'
    BY <1>1, <1>2, <1>4, DownFrame
<1>11. HandledOK'
    BY <1>1, <1>2, HandledFrame, Types
<1>12. SyncOK'
    BY <1>1, <1>2 DEF SyncOK
<1> QED BY <1>1, <1>5, <1>6, <1>8, <1>9, <1>10, <1>11, <1>12, QuietStep

-----------------------------------------------------------------------------
(* The sync goroutine's steps that handle no event. *)

LEMMA SyncStepKeeps ==
    ASSUME IInv, UNCHANGED <<created, event, relay, outbox, batch, pub, up, disk>>,
           UNCHANGED <<handed, receipted, times>>, Mild,
           sync' \in SyncType, lastSync' \in [Agents -> Moment], seen' \in [Agents -> SUBSET Events],
           HandledOK', SyncOK'
    PROVE  IInv'
<1>1. TypeOK /\ RelayOK /\ DownQuiet
    BY DEF IInv, Inv
<1>2. TypeOK'
    BY <1>1, Types, TypesNext DEF Mild
<1>3. PubLike
    BY SamePub
<1>4. DownQuiet' /\ RelayOK'
    BY <1>1 DEF DownQuiet, RelayOK
<1> QED BY <1>2, <1>3, <1>4, QuietStep

LEMMA SyncInboxStep ==
    ASSUME IInv, NEW a \in Agents, SyncInbox(a)
    PROVE  IInv'
<1> DEFINE start == [at |-> 1, since |-> lastSync[a]]
<1>1. /\ sync[a].at = 0 /\ sync' = [sync EXCEPT ![a] = start]
      /\ UNCHANGED <<created, event, relay, outbox, batch, pub, up, disk, lastSync, seen, faults>>
      /\ UNCHANGED <<handed, receipted, times>>
    BY DEF SyncInbox, ghosts
<1>2. TypeOK /\ SyncOK /\ HandledOK /\ Mild
    BY <1>1, MildFault DEF IInv, Inv, NoFault
<1>3. start \in Sync /\ start.at = 1 /\ start.since = lastSync[a]
    BY <1>2, Types DEF Sync
<1> HIDE DEF start
<1>4. sync' \in SyncType /\ sync'[a] = start /\ \A b \in Agents : b # a => sync'[b] = sync[b]
    BY <1>1, <1>2, <1>3, Types DEF SyncType
<1>5. SyncOK'
    <2>1. Len(InboxRelays[a]) \in Nat \ {0}
        BY ConstantsAssumption
    <2>2. up[a] = TRUE
        BY <1>2, Types DEF SyncInbox
    <2> QED BY <1>1, <1>2, <1>3, <1>4, <2>1, <2>2 DEF SyncOK
<1>6. HandledOK'
    <2> SUFFICES ASSUME NEW b \in Agents, NEW n \in Events
                 PROVE  /\ times[b][n] <= 1
                        /\ times[b][n] # 0 => n <= created /\ Remembered(b, n)'
        BY <1>1 DEF HandledOK
    <2>1. /\ times[b][n] <= 1
          /\ times[b][n] # 0 => n <= created /\ Remembered(b, n)
        BY <1>2 DEF HandledOK
    <2>2. Remembered(b, n) => Remembered(b, n)'
        BY <1>1, <1>3, <1>4 DEF Remembered
    <2> QED BY <2>1, <2>2
<1>7. lastSync' \in [Agents -> Moment] /\ seen' \in [Agents -> SUBSET Events]
    BY <1>1, <1>2, Types
<1> QED BY <1>1, <1>2, <1>4, <1>5, <1>6, <1>7, SyncStepKeeps

LEMMA NextRelayStep ==
    ASSUME IInv, NEW a \in Agents, NextRelay(a)
    PROVE  IInv'
<1> DEFINE next == [sync[a] EXCEPT !.at = @ + 1]
<1>1. /\ sync[a].at # 0 /\ sync[a].at < Len(InboxRelays[a]) /\ sync' = [sync EXCEPT ![a] = next]
      /\ UNCHANGED <<created, event, relay, outbox, batch, pub, up, disk, lastSync, seen>>
      /\ UNCHANGED <<handed, receipted, times>>
    BY DEF NextRelay, ghosts, Reading
<1>2. TypeOK /\ SyncOK /\ HandledOK
    BY DEF IInv, Inv
<1>3. Mild
    BY <1>2, MildFault DEF NextRelay, FaultKinds
<1>4. next \in Sync /\ next.at = sync[a].at + 1 /\ next.since = sync[a].since /\ sync[a].at \in Nat
    <2>1. sync[a] \in Sync
        BY <1>2, Types DEF SyncType
    <2> QED BY <2>1 DEF Sync
<1> HIDE DEF next
<1>5. sync' \in SyncType /\ sync'[a] = next /\ \A b \in Agents : b # a => sync'[b] = sync[b]
    BY <1>1, <1>2, <1>4, Types DEF SyncType
<1>6. SyncOK'
    <2>1. Len(InboxRelays[a]) \in Nat \ {0}
        BY ConstantsAssumption
    <2> QED BY <1>1, <1>2, <1>4, <1>5, <2>1 DEF SyncOK
<1>7. HandledOK'
    <2> SUFFICES ASSUME NEW b \in Agents, NEW n \in Events
                 PROVE  /\ times[b][n] <= 1
                        /\ times[b][n] # 0 => n <= created /\ Remembered(b, n)'
        BY <1>1 DEF HandledOK
    <2>1. /\ times[b][n] <= 1
          /\ times[b][n] # 0 => n <= created /\ Remembered(b, n)
        BY <1>2 DEF HandledOK
    <2>2. Remembered(b, n) => Remembered(b, n)'
        BY <1>1, <1>4, <1>5 DEF Remembered
    <2> QED BY <2>1, <2>2
<1>8. lastSync' \in [Agents -> Moment] /\ seen' \in [Agents -> SUBSET Events]
    BY <1>1, <1>2, Types
<1> QED BY <1>1, <1>3, <1>5, <1>6, <1>7, <1>8, SyncStepKeeps

LEMMA SyncEndStep ==
    ASSUME IInv, NEW a \in Agents, SyncEnd(a)
    PROVE  IInv'
<1>1. /\ sync' = [sync EXCEPT ![a] = Asleep]
      /\ UNCHANGED <<created, event, relay, outbox, batch, pub, up, disk, seen>>
      /\ UNCHANGED <<handed, receipted, times>>
    BY DEF SyncEnd, ghosts
<1>2. TypeOK /\ SyncOK /\ HandledOK
    BY DEF IInv, Inv
<1>3. Mild
    BY <1>2, MildFault DEF SyncEnd, FaultKinds
<1>4. Asleep \in Sync /\ Asleep.at = 0
    BY ConstantsAssumption DEF Asleep, Sync, Moment
<1>5. sync' \in SyncType /\ sync'[a] = Asleep /\ \A b \in Agents : b # a => sync'[b] = sync[b]
    BY <1>1, <1>2, <1>4, Types DEF SyncType
<1>6. /\ lastSync' \in [Agents -> Moment] /\ lastSync[a] \in Moment /\ lastSync[a] <= lastSync'[a]
      /\ \A b \in Agents : b # a => lastSync'[b] = lastSync[b]
    <2>1. PICK now \in {created, created + 1} : lastSync' = [lastSync EXCEPT ![a] = SyncedAt(a, now)]
        BY DEF SyncEnd
    <2> DEFINE t == SyncedAt(a, now)
    <2>2. t \in Moment /\ lastSync[a] \in Moment /\ lastSync[a] <= t
        BY <1>2, SyncedAtType
    <2>3. lastSync' = [lastSync EXCEPT ![a] = t]
        BY <2>1
    <2> HIDE DEF t
    <2> QED BY <1>2, <2>2, <2>3, Types
<1>7. SyncOK'
    <2>1. Len(InboxRelays[a]) \in Nat \ {0}
        BY ConstantsAssumption
    <2> QED BY <1>1, <1>2, <1>4, <1>5, <2>1 DEF SyncOK
<1>8. HandledOK'
    <2> SUFFICES ASSUME NEW b \in Agents, NEW n \in Events
                 PROVE  /\ times[b][n] <= 1
                        /\ times[b][n] # 0 => n <= created /\ Remembered(b, n)'
        BY <1>1 DEF HandledOK
    <2>1. /\ times[b][n] <= 1
          /\ times[b][n] # 0 => n <= created /\ Remembered(b, n)
        BY <1>2 DEF HandledOK
    <2>2. b = a /\ n < lastSync[a] => n < lastSync'[a]
        BY <1>6, ConstantsAssumption DEF Events, Moment
    <2>3. Remembered(b, n) => Remembered(b, n)'
        BY <1>1, <1>4, <1>5, <1>6, <2>2 DEF Remembered
    <2> QED BY <2>1, <2>3
<1>9. seen' \in [Agents -> SUBSET Events]
    BY <1>1, <1>2, Types
<1> QED BY <1>1, <1>3, <1>5, <1>6, <1>7, <1>8, <1>9, SyncStepKeeps

LEMMA CleanupStep ==
    ASSUME IInv, NEW a \in Agents, seenEventsCleanup(a)
    PROVE  IInv'
<1> DEFINE old == {n \in seen[a] : n < lastSync[a] /\ (sync[a].at # 0 => n < sync[a].since)}
<1>1. /\ seen' = [seen EXCEPT ![a] = @ \ old]
      /\ UNCHANGED <<created, event, relay, outbox, batch, pub, up, disk, lastSync, sync, faults>>
      /\ UNCHANGED <<handed, receipted, times>>
    BY DEF seenEventsCleanup, ghosts
<1>2. TypeOK /\ SyncOK /\ HandledOK /\ Mild
    BY <1>1, MildFault DEF IInv, Inv, NoFault
<1>3. /\ seen' \in [Agents -> SUBSET Events] /\ seen'[a] = seen[a] \ old
      /\ \A b \in Agents : b # a => seen'[b] = seen[b]
    BY <1>1, <1>2, Types
<1>4. HandledOK'
    <2> SUFFICES ASSUME NEW b \in Agents, NEW n \in Events
                 PROVE  /\ times[b][n] <= 1
                        /\ times[b][n] # 0 => n <= created /\ Remembered(b, n)'
        BY <1>1 DEF HandledOK
    <2>1. /\ times[b][n] <= 1
          /\ times[b][n] # 0 => n <= created /\ Remembered(b, n)
        BY <1>2 DEF HandledOK
    <2>2. Remembered(b, n) => Remembered(b, n)'
        BY <1>1, <1>3 DEF Remembered
    <2> QED BY <2>1, <2>2
<1>5. SyncOK'
    BY <1>1, <1>2 DEF SyncOK
<1>6. lastSync' \in [Agents -> Moment] /\ sync' \in SyncType
    BY <1>1, <1>2, Types
<1> QED BY <1>1, <1>2, <1>3, <1>4, <1>5, <1>6, SyncStepKeeps

(* A goroutine has published its event. *)
LEMMA QuietPub ==
    ASSUME TypeOK, NEW a \in Agents, NEW g \in Goroutine, EndPublishing(a, g)
    PROVE  /\ pub' \in PubType
           /\ pub'[a][g].event = 0
           /\ \A b \in Agents, h \in Goroutine : <<b, h>> # <<a, g>> => pub'[b][h] = pub[b][h]
<1>1. pub \in PubType
    BY Types
<1>2. Quiet \in Pub /\ Quiet.event = 0
    BY ConstantsAssumption DEF Quiet, Pub
<1>3. pub' = [pub EXCEPT ![a][g] = Quiet]
    BY DEF EndPublishing
<1> QED BY <1>1, <1>2, <1>3 DEF PubType

LEMMA ReceiptSentStep ==
    ASSUME IInv, NEW a \in Agents, ReceiptSent(a)
    PROVE  IInv'
<1>1. /\ EndPublishing(a, "sync")
      /\ UNCHANGED <<created, event, relay, outbox, lastSync, seen, sync, batch, up, disk, faults>>
      /\ UNCHANGED <<handed, receipted, times>>
    BY DEF ReceiptSent, ghosts
<1>2. TypeOK /\ SyncOK /\ HandledOK /\ RelayOK /\ DownQuiet /\ Mild /\ "sync" \in Goroutine
    BY <1>1, MildFault DEF IInv, Inv, NoFault, Goroutine
<1>3. /\ pub' \in PubType
      /\ pub'[a]["sync"].event = 0
      /\ \A b \in Agents, h \in Goroutine : <<b, h>> # <<a, "sync">> => pub'[b][h] = pub[b][h]
    BY <1>1, <1>2, QuietPub
<1>4. PubLike
    BY <1>3 DEF PubLike, Goroutine
<1>5. TypeOK'
    BY <1>1, <1>2, <1>3, Types, TypesNext
<1>6. \A b \in Agents, h \in Goroutine : pub'[b][h].event = pub[b][h].event \/ pub'[b][h].event = 0
    BY <1>3
<1>7. DownQuiet'
    BY <1>1, <1>2, <1>6, DownFrame
<1>8. RelayOK'
    <2>1. 0 <= created
        BY <1>2, Types
    <2> QED BY <1>1, <1>2, <1>6, <2>1 DEF RelayOK
<1>9. SyncOK' /\ HandledOK'
    BY <1>1, <1>2, HandledFrame, Types DEF SyncOK
<1> QED BY <1>1, <1>2, <1>4, <1>5, <1>7, <1>8, <1>9, QuietStep

LEMMA StutterStep ==
    ASSUME IInv, UNCHANGED vars
    PROVE  IInv'
<1>1. /\ UNCHANGED <<created, event, relay, outbox, lastSync, seen, sync, batch, pub, up, disk, faults>>
      /\ UNCHANGED <<handed, receipted, times>>
    BY DEF vars, mail, ghosts
<1>2. TypeOK /\ SyncOK /\ HandledOK /\ Mild
    BY <1>1, MildFault DEF IInv, Inv, NoFault
<1>3. SyncOK' /\ HandledOK'
    BY <1>1, <1>2, HandledFrame, Types DEF SyncOK
<1>4. lastSync' \in [Agents -> Moment] /\ sync' \in SyncType /\ seen' \in [Agents -> SUBSET Events]
    BY <1>1, <1>2, Types
<1> QED BY <1>1, <1>2, <1>3, <1>4, SyncStepKeeps

-----------------------------------------------------------------------------
(* A new event. *)

LEMMA NewEventType ==
    ASSUME IInv, NEW a \in Agents, NEW g \in Goroutine, NEW kind \in {"message", "receipt"},
           NEW e \in Envelopes, NewEvent(a, g, kind, e)
    PROVE  /\ created' \in 0 .. MaxEvents /\ created' = created + 1 /\ created' \in Events
           /\ created \in Nat /\ created <= created'
           /\ event' \in EventFun /\ event'[created'] = [kind |-> kind, env |-> e]
           /\ \A n \in Events : n # created' => event'[n] = event[n]
           /\ pub' \in PubType
<1> DEFINE p == [env |-> e, event |-> created + 1, at |-> 1, ok |-> FALSE]
           x == [kind |-> kind, env |-> e]
<1>1. TypeOK
    BY DEF IInv
<1>2. /\ created < MaxEvents /\ created' = created + 1
      /\ event' = [event EXCEPT ![created + 1] = x] /\ pub' = [pub EXCEPT ![a][g] = p]
    BY DEF NewEvent
<1>3. /\ created' \in 0 .. MaxEvents /\ created' \in Events /\ created + 1 \in Events
      /\ created \in Nat /\ created <= created'
    BY <1>1, <1>2, Types DEF Events
<1>4. x \in EventType
    BY DEF EventType
<1>5. p \in Pub
    BY <1>2, <1>3 DEF Pub
<1> HIDE DEF p, x
<1>6. /\ event' \in EventFun /\ event'[created'] = x
      /\ \A n \in Events : n # created' => event'[n] = event[n]
    BY <1>1, <1>2, <1>3, <1>4, Types DEF EventFun
<1>7. pub' \in PubType
    BY <1>1, <1>2, <1>5, Types DEF PubType
<1> QED BY <1>2, <1>3, <1>5, <1>6, <1>7 DEF x

LEMMA NewEventPub ==
    ASSUME IInv, NEW a \in Agents, NEW g \in Goroutine, NEW kind \in {"message", "receipt"},
           NEW e \in Envelopes, NewEvent(a, g, kind, e)
    PROVE  /\ created' = created + 1 /\ created \in Nat
           /\ pub'[a][g].event = created' /\ pub'[a][g].env = e
           /\ \A b \in Agents, h \in Goroutine : <<b, h>> # <<a, g>> => pub'[b][h] = pub[b][h]
<1> DEFINE p == [env |-> e, event |-> created + 1, at |-> 1, ok |-> FALSE]
<1>1. pub \in PubType /\ created \in 0 .. MaxEvents /\ MaxEvents \in Nat
    BY Types DEF IInv
<1>2. created < MaxEvents /\ created' = created + 1 /\ pub' = [pub EXCEPT ![a][g] = p]
    BY DEF NewEvent
<1>3. p.event = created' /\ p.env = e /\ created \in Nat
    BY <1>1, <1>2
<1> HIDE DEF p
<1>4. /\ pub'[a][g] = p
      /\ \A b \in Agents, h \in Goroutine : <<b, h>> # <<a, g>> => pub'[b][h] = pub[b][h]
    BY <1>1, <1>2 DEF PubType
<1> QED BY <1>2, <1>3, <1>4

(* It is one more attempt if it is a message. *)
LEMMA NewEventAttempts ==
    ASSUME IInv, NEW a \in Agents, NEW g \in Goroutine, NEW kind \in {"message", "receipt"},
           NEW e \in Envelopes, NewEvent(a, g, kind, e), NEW f \in Envelopes
    PROVE  /\ kind = "message" /\ f = e =>
                  Attempts(f)' # {} /\ Tries(f)' = Tries(f) + 1
           /\ kind = "receipt" \/ f # e => Attempts(f)' = Attempts(f) /\ Tries(f)' = Tries(f)
           /\ Attempts(f) # {} => Attempts(f)' # {}
<1> DEFINE m(x) == [kind |-> "message", env |-> x]
<1>1. EventsOK /\ TypeOK
    BY DEF IInv, Inv
<1>2. created' \in Events /\ created' = created + 1 /\ created \in Nat
    BY NewEventType
<1>3. event[created'].kind = "none"
    BY <1>1, <1>2 DEF EventsOK
<1>4. created' \notin Attempts(f)
    BY <1>3 DEF Attempts
<1>5. event'[created'] = [kind |-> kind, env |-> e] /\ \A n \in Events : n # created' => event'[n] = event[n]
    BY NewEventType
<1>6. CASE kind = "message" /\ f = e
    <2>1. Attempts(f)' = Attempts(f) \cup {created'}
        BY <1>2, <1>5, <1>6 DEF Attempts
    <2>2. Tries(f)' = Tries(f) + 1
        BY <1>4, <2>1, AttemptsFinite, FS_AddElement DEF Tries
    <2> QED BY <1>6, <2>1, <2>2
<1>7. CASE kind = "receipt" \/ f # e
    <2>1. event'[created'] # m(f)
        BY <1>5, <1>7
    <2>2. Attempts(f)' = Attempts(f)
        BY <1>4, <1>5, <2>1 DEF Attempts
    <2> QED BY <1>7, <2>2 DEF Tries
<1> QED BY <1>6, <1>7

LEMMA NewEventOK ==
    ASSUME IInv, NEW a \in Agents, NEW g \in Goroutine, NEW kind \in {"message", "receipt"},
           NEW e \in Envelopes, NewEvent(a, g, kind, e), handed \subseteq handed',
           kind = "receipt" => e \in handed'
    PROVE  EventsOK'
<1>1. EventsOK
    BY DEF IInv, Inv
<1>2. /\ created' = created + 1 /\ created \in Nat /\ Events \subseteq Nat
      /\ event'[created'] = [kind |-> kind, env |-> e]
      /\ \A n \in Events : n # created' => event'[n] = event[n]
    BY NewEventType, ConstantsAssumption DEF Events
<1> SUFFICES ASSUME NEW n \in Events
             PROVE  /\ n <= created' => event'[n].kind \in {"message", "receipt"} /\ event'[n].env \in Envelopes
                    /\ n > created' => event'[n].kind = "none"
                    /\ event'[n].kind = "receipt" => event'[n].env \in handed'
    BY DEF EventsOK
<1>3. CASE n = created'
    BY <1>2, <1>3
<1>4. CASE n # created'
    BY <1>1, <1>2, <1>4 DEF EventsOK
<1> QED BY <1>3, <1>4

(* What does not depend on whose event it is. *)
LEMMA NewEventKeeps ==
    ASSUME IInv, NEW a \in Agents, NEW g \in Goroutine, NEW kind \in {"message", "receipt"},
           NEW e \in Envelopes, NewEvent(a, g, kind, e), handed \subseteq handed',
           UNCHANGED relay, UNCHANGED outbox, UNCHANGED disk
    PROVE  RelayOK' /\ OutboxOK' /\ DiskOK'
<1>1. RelayOK /\ OutboxOK /\ DiskOK /\ TypeOK
    BY DEF IInv, Inv
<1>2. /\ created' = created + 1 /\ created \in Nat
      /\ pub'[a][g].event = created'
      /\ \A b \in Agents, h \in Goroutine : <<b, h>> # <<a, g>> => pub'[b][h] = pub[b][h]
    BY NewEventPub
<1>3. RelayOK'
    <2>1. ASSUME NEW r \in Relays, NEW n \in relay[r] PROVE n <= created'
        <3>1. n \in Nat /\ n <= created
            BY <1>1, <2>1, Types, ConstantsAssumption DEF RelayOK, Events
        <3> QED BY <1>2, <3>1
    <2>2. ASSUME NEW b \in Agents, NEW h \in Goroutine PROVE pub'[b][h].event <= created'
        <3>1. CASE <<b, h>> = <<a, g>>
            BY <1>2, <3>1
        <3>2. CASE <<b, h>> # <<a, g>>
            <4>1. pub[b][h].event \in Nat /\ pub[b][h].event <= created
                BY <1>1, Types, ConstantsAssumption DEF RelayOK, PubType, Pub
            <4> QED BY <1>2, <3>2, <4>1
        <3> QED BY <3>1, <3>2
    <2> QED BY <2>1, <2>2 DEF RelayOK
<1>4. \A f \in Envelopes : Attempts(f) # {} => Attempts(f)' # {}
    BY NewEventAttempts
<1>5. OutboxOK'
    BY <1>1, <1>4 DEF OutboxOK, GoodEntry
<1>6. DiskOK'
    BY <1>1, <1>4, DiskFrame
<1> QED BY <1>3, <1>5, <1>6

LEMMA SendToInboxStep ==
    ASSUME IInv, NEW e \in Envelopes, SendToInbox(e)
    PROVE  IInv'
<1> DEFINE a == Source[e]
<1>1. /\ up[a] /\ Attempts(e) = {} /\ NewEvent(a, "caller", "message", e)
      /\ UNCHANGED <<relay, outbox, lastSync, seen, sync, batch, up, disk, faults>>
      /\ UNCHANGED <<handed, receipted, times>>
    BY DEF SendToInbox, ghosts
<1>2. /\ TypeOK /\ SyncOK /\ HandledOK /\ DownQuiet /\ PubOK /\ BatchOK /\ OutboxOK /\ Spent /\ Mild
      /\ a \in Agents /\ "caller" \in Goroutine
    BY <1>1, MildFault, ConstantsAssumption DEF IInv, Inv, NoFault, Goroutine
<1>3. /\ created' \in 0 .. MaxEvents /\ created' = created + 1 /\ created' \in Events
      /\ created \in Nat /\ created <= created'
      /\ event' \in EventFun /\ pub' \in PubType
      /\ pub'[a]["caller"].event = created' /\ pub'[a]["caller"].env = e
      /\ \A b \in Agents, h \in Goroutine : <<b, h>> # <<a, "caller">> => pub'[b][h] = pub[b][h]
    <2> HIDE DEF a
    <2>1. /\ created' \in 0 .. MaxEvents /\ created' = created + 1 /\ created' \in Events
          /\ created \in Nat /\ created <= created' /\ event' \in EventFun /\ pub' \in PubType
        BY <1>1, <1>2, NewEventType
    <2>2. /\ pub'[a]["caller"].event = created' /\ pub'[a]["caller"].env = e
          /\ \A b \in Agents, h \in Goroutine : <<b, h>> # <<a, "caller">> => pub'[b][h] = pub[b][h]
        BY <1>1, <1>2, NewEventPub
    <2> QED BY <2>1, <2>2
<1> HIDE DEF a
<1>4. TypeOK'
    BY <1>1, <1>2, <1>3, Types, TypesNext
<1>5. EventsOK' /\ RelayOK' /\ OutboxOK' /\ DiskOK'
    BY <1>1, <1>2, NewEventOK, NewEventKeeps
<1>6. SyncOK' /\ HandledOK' /\ BatchOK'
    BY <1>1, <1>2, <1>3, HandledFrame, BatchFrame DEF SyncOK
<1>7. DownQuiet'
    <2>1. up[a] = TRUE
        BY <1>1, <1>2, Types
    <2> QED BY <1>1, <1>2, <1>3, <2>1, DownFrame
<1>8. /\ \A f \in Envelopes : f # e => Attempts(f)' = Attempts(f) /\ Tries(f)' = Tries(f)
      /\ Attempts(e)' # {} /\ Tries(e)' = Tries(e) + 1
    BY <1>1, <1>2, NewEventAttempts
<1>9. Tries(e) = 0 /\ outbox[e] = None
    <2>1. Tries(e) = 0
        BY <1>1, FS_EmptySet DEF Tries
    <2> QED BY <1>1, <1>2, <2>1 DEF OutboxOK, GoodEntry
<1>10. \A f \in Envelopes : /\ Retrying(f)' <=> Retrying(f)
                            /\ f # e /\ Calling(f)' => Calling(f)
    <2> SUFFICES ASSUME NEW f \in Envelopes
                 PROVE  /\ Retrying(f)' <=> Retrying(f)
                        /\ f # e /\ Calling(f)' => Calling(f)
        OBVIOUS
    <2>1. Source[f] \in Agents /\ "retry" \in Goroutine /\ "caller" \in Goroutine
        BY ConstantsAssumption DEF Goroutine
    <2>2. pub'[Source[f]]["retry"] = pub[Source[f]]["retry"]
        BY <1>3, <2>1
    <2>3. CASE Source[f] = a
        BY <1>3, <2>2, <2>3 DEF Calling, Retrying
    <2>4. CASE Source[f] # a
        BY <1>3, <2>1, <2>2, <2>4 DEF Calling, Retrying
    <2> QED BY <2>3, <2>4
<1>11. PubOK'
    <2>1. ASSUME NEW b \in Agents, pub'[b]["caller"].event # 0
          PROVE  pub'[b]["caller"].env \in Envelopes /\ Source[pub'[b]["caller"].env] = b
        <3>1. CASE b = a
            BY <1>3, <3>1 DEF a
        <3>2. CASE b # a
            BY <1>2, <1>3, <2>1, <3>2 DEF PubOK
        <3> QED BY <3>1, <3>2
    <2>2. ASSUME NEW b \in Agents, pub'[b]["retry"].event # 0
          PROVE  pub'[b]["retry"].env \in batch'[b]
        <3>1. pub'[b]["retry"] = pub[b]["retry"]
            BY <1>3 DEF Goroutine
        <3> QED BY <1>1, <1>2, <2>2, <3>1 DEF PubOK
    <2>3. ASSUME NEW f \in Envelopes, Calling(f)'
          PROVE  outbox'[f] = None /\ Attempts(f)' # {}
        BY <1>1, <1>2, <1>8, <1>9, <1>10, <2>3 DEF PubOK
    <2> QED BY <2>1, <2>2, <2>3 DEF PubOK
<1>12. Spent'
    <2> SUFFICES ASSUME NEW f \in Envelopes
                 PROVE  /\ Tries(f)' <= Base' + MaxRetries
                        /\ up'[Source[f]] = FALSE \/ Calling(f)' => Tries(f)' <= Base'
                        /\ outbox'[f] # None => Tries(f)' <= Base' + Counted(f)'
        BY DEF Spent
    <2>1. Base' = Base /\ Base \in Nat /\ MaxRetries \in Nat
        BY <1>2, MildBase, RestartsType
    <2>2. CASE f = e
        <3>1. Tries(f)' = 1
            BY <1>8, <1>9, <2>2
        <3>2. Base >= 1
            <4>1. \A m, r \in Nat : 1 + m * r >= 1
                OBVIOUS
            <4> QED BY <1>2, <4>1, RestartsType DEF Base
        <3> QED BY <1>1, <1>9, <2>1, <2>2, <3>1, <3>2
    <2>3. CASE f # e
        <3>1. Tries(f)' = Tries(f) /\ (Calling(f)' => Calling(f)) /\ Counted(f)' = Counted(f)
            BY <1>1, <1>8, <1>10, <2>3 DEF Counted
        <3> QED BY <1>1, <1>2, <2>1, <3>1 DEF Spent
    <2> QED BY <2>2, <2>3
<1> QED BY <1>4, <1>5, <1>6, <1>7, <1>11, <1>12 DEF IInv, Inv

-----------------------------------------------------------------------------
(* Steps that change entries of the outbox. *)

LEMMA OutboxStepKeeps ==
    ASSUME IInv, UNCHANGED <<created, event, relay, lastSync, seen, sync, up, disk, faults>>,
           UNCHANGED <<handed, receipted, times>>,
           outbox' \in OutboxType, batch' \in [Agents -> SUBSET Envelopes], pub' \in PubType,
           \A b \in Agents, h \in Goroutine : pub'[b][h].event = pub[b][h].event \/ pub'[b][h].event = 0,
           \A b \in Agents : up[b] = FALSE => batch'[b] = {}
    PROVE  /\ TypeOK' /\ EventsOK' /\ RelayOK' /\ SyncOK' /\ HandledOK' /\ DiskOK' /\ DownQuiet'
           /\ \A f \in Envelopes : Attempts(f)' = Attempts(f) /\ Tries(f)' = Tries(f)
           /\ Base' = Base
<1>1. TypeOK /\ EventsOK /\ RelayOK /\ SyncOK /\ HandledOK /\ DiskOK /\ DownQuiet /\ Mild
    BY MildFault DEF IInv, Inv, NoFault
<1>2. TypeOK'
    BY <1>1, Types, TypesNext
<1>3. \A f \in Envelopes : Attempts(f)' = Attempts(f)
    BY DEF Attempts
<1>4. \A f \in Envelopes : Tries(f)' = Tries(f)
    BY <1>3 DEF Tries
<1>5. EventsOK' /\ DiskOK' /\ SyncOK' /\ HandledOK'
    BY <1>1, <1>3, EventFrame, DiskFrame, HandledFrame, Types DEF SyncOK
<1>6. RelayOK'
    <2>1. 0 <= created
        BY <1>1, Types
    <2> QED BY <1>1, <2>1 DEF RelayOK
<1>7. DownQuiet'
    BY <1>1 DEF DownQuiet
<1> QED BY <1>1, <1>2, <1>3, <1>4, <1>5, <1>6, <1>7, MildBase

LEMMA QuietCaller ==
    ASSUME TypeOK, NEW a \in Agents, EndPublishing(a, "caller"), NEW f \in Envelopes
    PROVE  (Retrying(f)' <=> Retrying(f)) /\ (Calling(f)' => Calling(f) /\ Source[f] # a)
<1>1. Source[f] \in Agents /\ "caller" \in Goroutine /\ "retry" \in Goroutine
    BY ConstantsAssumption DEF Goroutine
<1>2. /\ pub'[a]["caller"].event = 0
      /\ \A b \in Agents, h \in Goroutine : <<b, h>> # <<a, "caller">> => pub'[b][h] = pub[b][h]
    BY <1>1, QuietPub
<1> QED BY <1>1, <1>2 DEF Calling, Retrying

LEMMA QuietRetry ==
    ASSUME TypeOK, NEW a \in Agents, EndPublishing(a, "retry"), NEW f \in Envelopes
    PROVE  (Calling(f)' <=> Calling(f)) /\ (Retrying(f)' <=> Retrying(f) /\ Source[f] # a)
<1>1. Source[f] \in Agents /\ "caller" \in Goroutine /\ "retry" \in Goroutine
    BY ConstantsAssumption DEF Goroutine
<1>2. /\ pub'[a]["retry"].event = 0
      /\ \A b \in Agents, h \in Goroutine : <<b, h>> # <<a, "retry">> => pub'[b][h] = pub[b][h]
    BY <1>1, QuietPub
<1> QED BY <1>1, <1>2 DEF Calling, Retrying

LEMMA SendTrackedStep ==
    ASSUME IInv, NEW a \in Agents, SendTracked(a)
    PROVE  IInv'
<1> DEFINE p == pub[a]["caller"]
           e == p.env
           x == [event |-> p.event, retries |-> 0, confirmed |-> FALSE, loaded |-> FALSE]
<1>1. /\ p.event # 0 /\ EndPublishing(a, "caller")
      /\ outbox' = outbox \/ outbox' = [outbox EXCEPT ![e] = x]
      /\ UNCHANGED <<created, event, relay, lastSync, seen, sync, batch, up, disk, faults>>
      /\ UNCHANGED <<handed, receipted, times>>
    BY DEF SendTracked, Published, Publishing, ghosts
<1>2. /\ TypeOK /\ PubOK /\ BatchOK /\ OutboxOK /\ Spent /\ DownQuiet /\ "caller" \in Goroutine
    BY DEF IInv, Inv, Goroutine
<1>3. /\ e \in Envelopes /\ Source[e] = a /\ Calling(e)
      /\ outbox[e] = None /\ Attempts(e) # {} /\ Tries(e) <= Base
    <2>1. e \in Envelopes /\ Source[e] = a
        BY <1>1, <1>2 DEF PubOK
    <2>2. Calling(e)
        BY <1>1, <2>1 DEF Calling
    <2> QED BY <1>2, <2>1, <2>2 DEF PubOK, Spent
<1>4. x \in Entry /\ x.retries = 0 /\ x.confirmed = FALSE
    <2>1. p \in Pub
        BY <1>2, Types DEF PubType
    <2>2. p.event \in Events
        BY <1>1, <2>1, ConstantsAssumption DEF Pub, Events
    <2> QED BY <2>2, ConstantsAssumption DEF Entry
<1> HIDE DEF p, e, x
<1>5. /\ outbox' \in OutboxType /\ (outbox'[e] = x \/ outbox'[e] = None)
      /\ \A f \in Envelopes : f # e => outbox'[f] = outbox[f]
    BY <1>1, <1>2, <1>3, <1>4, Types DEF OutboxType, MaybeEntry
<1>6. pub' \in PubType /\ \A b \in Agents, h \in Goroutine : pub'[b][h] = pub[b][h] \/ pub'[b][h].event = 0
    BY <1>1, <1>2, QuietPub
<1>7. /\ TypeOK' /\ EventsOK' /\ RelayOK' /\ SyncOK' /\ HandledOK' /\ DiskOK' /\ DownQuiet'
      /\ \A f \in Envelopes : Attempts(f)' = Attempts(f) /\ Tries(f)' = Tries(f)
      /\ Base' = Base
    <2>1. \A b \in Agents : up[b] = FALSE => batch'[b] = {}
        BY <1>1, <1>2 DEF DownQuiet
    <2>2. batch' \in [Agents -> SUBSET Envelopes]
        BY <1>1, <1>2, Types
    <2> QED BY <1>1, <1>5, <1>6, <2>1, <2>2, OutboxStepKeeps
<1>8. OutboxOK'
    BY <1>1, <1>2, <1>3, <1>4, <1>5, <1>7 DEF OutboxOK, GoodEntry
<1>9. BatchOK'
    <2>1. \A b \in Agents : \A f \in batch[b] : f \in Envelopes
        BY <1>2, Types
    <2> QED BY <1>1, <1>2, <1>3, <1>5, <2>1 DEF BatchOK
<1>10. \A f \in Envelopes : (Retrying(f)' <=> Retrying(f)) /\ (Calling(f)' => Calling(f) /\ f # e)
    BY <1>1, <1>2, <1>3, QuietCaller
<1>11. PubOK'
    <2>1. ASSUME NEW b \in Agents, pub'[b]["caller"].event # 0
          PROVE  pub'[b]["caller"].env \in Envelopes /\ Source[pub'[b]["caller"].env] = b
        BY <1>2, <1>6, <2>1 DEF PubOK
    <2>2. ASSUME NEW b \in Agents, pub'[b]["retry"].event # 0
          PROVE  pub'[b]["retry"].env \in batch'[b]
        BY <1>1, <1>2, <1>6, <2>2 DEF PubOK, Goroutine
    <2>3. ASSUME NEW f \in Envelopes, Calling(f)'
          PROVE  outbox'[f] = None /\ Attempts(f)' # {}
        BY <1>2, <1>5, <1>7, <1>10, <2>3 DEF PubOK
    <2> QED BY <2>1, <2>2, <2>3 DEF PubOK
<1>12. Spent'
    <2> SUFFICES ASSUME NEW f \in Envelopes
                 PROVE  /\ Tries(f)' <= Base' + MaxRetries
                        /\ up'[Source[f]] = FALSE \/ Calling(f)' => Tries(f)' <= Base'
                        /\ outbox'[f] # None => Tries(f)' <= Base' + Counted(f)'
        BY DEF Spent
    <2>1. /\ Tries(f)' = Tries(f) /\ Base' = Base /\ (Calling(f)' => Calling(f)) /\ up' = up
          /\ Tries(f) \in Nat /\ Base \in Nat /\ MaxRetries \in Nat
        BY <1>1, <1>2, <1>7, <1>10, AttemptsFinite, RestartsType
    <2>2. CASE f = e
        <3>1. outbox'[f] # None => Counted(f)' \in Nat
            BY <1>4, <1>5, <2>2 DEF Counted
        <3> QED BY <1>2, <1>3, <2>1, <2>2, <3>1 DEF Spent
    <2>3. CASE f # e
        <3>1. Counted(f)' = Counted(f) /\ outbox'[f] = outbox[f]
            BY <1>5, <1>10, <2>3 DEF Counted
        <3> QED BY <1>2, <2>1, <3>1 DEF Spent
    <2> QED BY <2>2, <2>3
<1> QED BY <1>7, <1>8, <1>9, <1>11, <1>12 DEF IInv, Inv

LEMMA ProcessOutboxStep ==
    ASSUME IInv, NEW a \in Agents, processOutbox(a)
    PROVE  IInv'
<1>1. /\ up[a]
      /\ pub[a]["retry"].event = 0
      /\ UNCHANGED <<created, event, relay, lastSync, seen, sync, up, disk, pub, faults>>
      /\ UNCHANGED <<handed, receipted, times>>
    BY DEF processOutbox, Publishing, ghosts
<1>2. TypeOK /\ PubOK /\ BatchOK /\ OutboxOK /\ Spent /\ DownQuiet
    BY DEF IInv, Inv
<1>3. PICK expired \in SUBSET {e \in Mine(a) : outbox[e].loaded} :
          LET dropped == expired \cup {e \in Mine(a) : GivenUp(e)} IN
          \E due \in SUBSET (Mine(a) \ dropped) :
              /\ outbox' = [e \in Envelopes |-> IF e \in dropped THEN None ELSE outbox[e]]
              /\ batch' = [batch EXCEPT ![a] = due]
    BY DEF processOutbox
<1> DEFINE dropped == expired \cup {e \in Mine(a) : GivenUp(e)}
<1>4. PICK due \in SUBSET (Mine(a) \ dropped) :
          /\ outbox' = [e \in Envelopes |-> IF e \in dropped THEN None ELSE outbox[e]]
          /\ batch' = [batch EXCEPT ![a] = due]
    BY <1>3
<1>5. /\ outbox' \in OutboxType
      /\ \A f \in Envelopes : outbox'[f] = None \/ outbox'[f] = outbox[f]
      /\ \A f \in due : f \in Envelopes /\ Source[f] = a /\ outbox'[f] = outbox[f] /\ outbox[f] # None
    BY <1>2, <1>4, Types DEF OutboxType, MaybeEntry, Mine
<1>6. \A f \in due : outbox[f].retries < MaxRetries
    <2>1. ASSUME NEW f \in due PROVE outbox[f].retries < MaxRetries
        <3>1. f \in Envelopes /\ outbox[f] # None /\ ~ (outbox[f].retries >= MaxRetries)
            BY <2>1, <1>4, <1>5 DEF GivenUp, Mine
        <3>2. outbox[f] \in Entry
            BY <1>2, <3>1, Types DEF OutboxType, MaybeEntry
        <3>3. outbox[f].retries \in Nat /\ MaxRetries \in Nat
            BY <3>2, ConstantsAssumption DEF Entry
        <3> QED BY <3>1, <3>3
    <2> QED BY <2>1
<1> HIDE DEF dropped
<1>7. /\ batch' \in [Agents -> SUBSET Envelopes] /\ batch'[a] = due
      /\ \A b \in Agents : b # a => batch'[b] = batch[b]
    BY <1>2, <1>4, <1>5, Types
<1>8. /\ TypeOK' /\ EventsOK' /\ RelayOK' /\ SyncOK' /\ HandledOK' /\ DiskOK' /\ DownQuiet'
      /\ \A f \in Envelopes : Attempts(f)' = Attempts(f) /\ Tries(f)' = Tries(f)
      /\ Base' = Base
    <2>1. up[a] = TRUE
        BY <1>1, <1>2, Types
    <2>2. \A b \in Agents : up[b] = FALSE => batch'[b] = {}
        BY <1>2, <1>7, <2>1 DEF DownQuiet
    <2>3. pub' \in PubType /\ \A b \in Agents, h \in Goroutine : pub'[b][h].event = pub[b][h].event
        BY <1>1, <1>2, Types
    <2> QED BY <1>1, <1>5, <1>7, <2>2, <2>3, OutboxStepKeeps
<1>9. OutboxOK'
    BY <1>1, <1>2, <1>5, <1>8 DEF OutboxOK, GoodEntry
<1>10. BatchOK'
    <2> SUFFICES ASSUME NEW b \in Agents, NEW f \in batch'[b]
                 PROVE  Source[f] = b /\ outbox'[f] # None /\ outbox'[f].retries < MaxRetries
        BY DEF BatchOK
    <2>1. CASE b = a
        BY <1>5, <1>6, <1>7, <2>1
    <2>2. CASE b # a
        <3>1. f \in Envelopes /\ Source[f] = b /\ outbox[f] # None /\ outbox[f].retries < MaxRetries
            BY <1>2, <1>7, <2>2, Types DEF BatchOK
        <3>2. f \notin dropped
            BY <2>2, <3>1 DEF dropped, Mine
        <3> QED BY <1>4, <3>1, <3>2
    <2> QED BY <2>1, <2>2
<1>11. PubLike
    BY <1>1, SamePub
<1>12. PubOK'
    <2>1. \A b \in Agents : pub'[b]["caller"].event # 0 =>
              pub'[b]["caller"].env \in Envelopes /\ Source[pub'[b]["caller"].env] = b
        BY <1>1, <1>2 DEF PubOK
    <2>2. \A b \in Agents : pub'[b]["retry"].event # 0 => pub'[b]["retry"].env \in batch'[b]
        BY <1>1, <1>2, <1>7 DEF PubOK
    <2>3. \A f \in Envelopes : Calling(f)' => outbox'[f] = None /\ Attempts(f)' # {}
        BY <1>2, <1>5, <1>8, <1>11, LikeCalling DEF PubOK
    <2> QED BY <2>1, <2>2, <2>3 DEF PubOK
<1>13. Spent'
    <2> SUFFICES ASSUME NEW f \in Envelopes
                 PROVE  /\ Tries(f)' <= Base' + MaxRetries
                        /\ up'[Source[f]] = FALSE \/ Calling(f)' => Tries(f)' <= Base'
                        /\ outbox'[f] # None => Tries(f)' <= Base' + Counted(f)'
        BY DEF Spent
    <2>1. Tries(f)' = Tries(f) /\ Base' = Base /\ (Calling(f)' => Calling(f)) /\ up' = up
        BY <1>1, <1>8, <1>11, LikeCalling
    <2>2. outbox'[f] # None => outbox[f] # None /\ Counted(f)' = Counted(f)
        BY <1>5, <1>11, LikeCalling DEF Counted
    <2> QED BY <1>2, <2>1, <2>2 DEF Spent
<1> QED BY <1>8, <1>9, <1>10, <1>12, <1>13 DEF IInv, Inv

LEMMA RetriedStep ==
    ASSUME IInv, NEW a \in Agents, Retried(a)
    PROVE  IInv'
<1> DEFINE e == pub[a]["retry"].env
           x == [outbox[e] EXCEPT !.retries = outbox[e].retries + 1]
<1>1. /\ pub[a]["retry"].event # 0 /\ EndPublishing(a, "retry")
      /\ batch' = [batch EXCEPT ![a] = @ \ {e}]
      /\ UNCHANGED <<created, event, relay, lastSync, seen, sync, up, disk, faults>>
      /\ UNCHANGED <<handed, receipted, times>>
    BY DEF Retried, Published, Publishing, ghosts
<1>2. /\ TypeOK /\ PubOK /\ BatchOK /\ OutboxOK /\ Spent /\ DownQuiet /\ "retry" \in Goroutine
    BY DEF IInv, Inv, Goroutine
<1>3. /\ e \in batch[a] /\ e \in Envelopes /\ Source[e] = a /\ Retrying(e)
      /\ outbox[e] # None /\ outbox[e].retries < MaxRetries
    <2>1. e \in batch[a]
        BY <1>1, <1>2 DEF PubOK
    <2>2. e \in Envelopes
        BY <1>2, <2>1, Types
    <2>3. Source[e] = a /\ outbox[e] # None /\ outbox[e].retries < MaxRetries
        BY <1>2, <2>1 DEF BatchOK
    <2>4. Retrying(e)
        BY <1>1, <2>3 DEF Retrying
    <2> QED BY <2>1, <2>2, <2>3, <2>4
<1>4. outbox' = [outbox EXCEPT ![e] = x]
    BY <1>3 DEF Retried
<1>5. x \in Entry /\ x.retries = outbox[e].retries + 1 /\ x.confirmed = outbox[e].confirmed
    <2> DEFINE y == outbox[e]
    <2>1. y \in Entry
        BY <1>2, <1>3, Types DEF OutboxType, MaybeEntry
    <2>2. y.retries + 1 \in 0 .. MaxRetries
        BY <1>3, <2>1, ConstantsAssumption DEF Entry
    <2>3. [y EXCEPT !.retries = y.retries + 1] \in Entry
        <3> HIDE DEF y
        <3> QED BY <2>1, <2>2 DEF Entry
    <2>4. /\ [y EXCEPT !.retries = y.retries + 1].retries = y.retries + 1
          /\ [y EXCEPT !.retries = y.retries + 1].confirmed = y.confirmed
        <3> HIDE DEF y
        <3> QED BY <2>1 DEF Entry
    <2> QED BY <2>3, <2>4
<1>50. outbox[e].retries \in Nat /\ MaxRetries \in Nat
    BY <1>2, <1>3, Types, ConstantsAssumption DEF OutboxType, MaybeEntry, Entry
<1> HIDE DEF e, x
<1>6. /\ outbox' \in OutboxType /\ outbox'[e] = x
      /\ \A f \in Envelopes : f # e => outbox'[f] = outbox[f]
    BY <1>2, <1>3, <1>4, <1>5, Types DEF OutboxType, MaybeEntry
<1>7. /\ batch' \in [Agents -> SUBSET Envelopes] /\ batch'[a] = batch[a] \ {e}
      /\ \A b \in Agents : b # a => batch'[b] = batch[b]
    BY <1>1, <1>2, Types
<1>8. /\ pub' \in PubType /\ pub'[a]["retry"].event = 0
      /\ \A b \in Agents, h \in Goroutine : <<b, h>> # <<a, "retry">> => pub'[b][h] = pub[b][h]
    BY <1>1, <1>2, QuietPub
<1>9. /\ TypeOK' /\ EventsOK' /\ RelayOK' /\ SyncOK' /\ HandledOK' /\ DiskOK' /\ DownQuiet'
      /\ \A f \in Envelopes : Attempts(f)' = Attempts(f) /\ Tries(f)' = Tries(f)
      /\ Base' = Base
    <2>1. \A b \in Agents : up[b] = FALSE => batch'[b] = {}
        BY <1>2, <1>7 DEF DownQuiet
    <2>2. \A b \in Agents, h \in Goroutine : pub'[b][h].event = pub[b][h].event \/ pub'[b][h].event = 0
        BY <1>8
    <2> QED BY <1>1, <1>6, <1>7, <1>8, <2>1, <2>2, OutboxStepKeeps
<1>10. OutboxOK'
    BY <1>1, <1>2, <1>3, <1>5, <1>6, <1>9 DEF OutboxOK, GoodEntry
<1>11. BatchOK'
    <2> SUFFICES ASSUME NEW b \in Agents, NEW f \in batch'[b]
                 PROVE  Source[f] = b /\ outbox'[f] # None /\ outbox'[f].retries < MaxRetries
        BY DEF BatchOK
    <2>1. f \in batch[b]
        BY <1>7
    <2>2. f \in Envelopes /\ Source[f] = b /\ outbox[f] # None /\ outbox[f].retries < MaxRetries
        BY <1>2, <2>1, Types DEF BatchOK
    <2>3. f # e
        BY <1>3, <1>7, <2>2
    <2> QED BY <1>6, <2>2, <2>3
<1>12. \A f \in Envelopes : /\ Calling(f)' <=> Calling(f)
                            /\ Retrying(f)' <=> Retrying(f) /\ Source[f] # a
                            /\ Retrying(f) /\ Source[f] = a => f = e
    BY <1>1, <1>2, QuietRetry DEF Retrying, e
<1>13. PubOK'
    <2>1. ASSUME NEW b \in Agents, pub'[b]["caller"].event # 0
          PROVE  pub'[b]["caller"].env \in Envelopes /\ Source[pub'[b]["caller"].env] = b
        <3>1. pub'[b]["caller"] = pub[b]["caller"]
            BY <1>8 DEF Goroutine
        <3> QED BY <1>2, <2>1, <3>1 DEF PubOK
    <2>2. ASSUME NEW b \in Agents, pub'[b]["retry"].event # 0
          PROVE  pub'[b]["retry"].env \in batch'[b]
        <3>1. b # a
            BY <1>8, <2>2
        <3>2. pub'[b]["retry"] = pub[b]["retry"] /\ batch'[b] = batch[b]
            BY <1>2, <1>7, <1>8, <3>1
        <3> QED BY <1>2, <2>2, <3>2 DEF PubOK
    <2>3. ASSUME NEW f \in Envelopes, Calling(f)'
          PROVE  outbox'[f] = None /\ Attempts(f)' # {}
        BY <1>2, <1>3, <1>6, <1>9, <1>12, <2>3 DEF PubOK
    <2> QED BY <2>1, <2>2, <2>3 DEF PubOK
<1>14. Spent'
    <2> SUFFICES ASSUME NEW f \in Envelopes
                 PROVE  /\ Tries(f)' <= Base' + MaxRetries
                        /\ up'[Source[f]] = FALSE \/ Calling(f)' => Tries(f)' <= Base'
                        /\ outbox'[f] # None => Tries(f)' <= Base' + Counted(f)'
        BY DEF Spent
    <2>1. Tries(f)' = Tries(f) /\ Base' = Base /\ (Calling(f)' <=> Calling(f)) /\ up' = up
        BY <1>1, <1>9, <1>12
    <2>2. outbox'[f] # None => outbox[f] # None /\ Counted(f)' = Counted(f)
        <3>1. CASE f = e
            <4>1. Retrying(f) /\ ~ Retrying(f)' /\ outbox[f] # None
                BY <1>3, <1>12, <3>1
            <4>2. outbox'[f].retries = outbox[f].retries + 1 /\ outbox[f].retries \in Nat
                BY <1>5, <1>50, <1>6, <3>1
            <4> QED BY <4>1, <4>2 DEF Counted
        <3>2. CASE f # e
            <4>1. Retrying(f)' <=> Retrying(f)
                BY <1>12, <3>2
            <4> QED BY <1>6, <3>2, <4>1 DEF Counted
        <3> QED BY <3>1, <3>2
    <2> QED BY <1>2, <2>1, <2>2 DEF Spent
<1> QED BY <1>9, <1>10, <1>11, <1>13, <1>14 DEF IInv, Inv

LEMMA RetrySendStep ==
    ASSUME IInv, NEW a \in Agents, retrySend(a)
    PROVE  IInv'
<1>1. /\ pub[a]["retry"].event = 0
      /\ UNCHANGED <<relay, outbox, lastSync, seen, sync, batch, up, disk, faults>>
      /\ UNCHANGED <<handed, receipted, times>>
    BY DEF retrySend, Publishing, ghosts
<1>2. /\ TypeOK /\ SyncOK /\ HandledOK /\ DownQuiet /\ PubOK /\ BatchOK /\ OutboxOK /\ Spent /\ Mild
      /\ "retry" \in Goroutine /\ "caller" \in Goroutine /\ "message" \in {"message", "receipt"}
    BY <1>1, MildFault DEF IInv, Inv, NoFault, Goroutine
<1>3. PICK e \in batch[a] : NewEvent(a, "retry", "message", e)
    BY DEF retrySend
<1>4. e \in Envelopes
    BY <1>2, <1>3, Types
<1>5. Source[e] = a /\ outbox[e] # None /\ outbox[e].retries < MaxRetries
    BY <1>2, <1>3 DEF BatchOK
<1>6. outbox[e].retries \in Nat /\ MaxRetries \in Nat
    BY <1>2, <1>4, <1>5, Types, ConstantsAssumption DEF OutboxType, MaybeEntry, Entry
<1>7. /\ created' \in 0 .. MaxEvents /\ created \in Nat /\ created <= created' /\ created' \in Nat
      /\ event' \in EventFun /\ pub' \in PubType
      /\ pub'[a]["retry"].event = created' /\ pub'[a]["retry"].env = e /\ created' # 0
      /\ \A b \in Agents, h \in Goroutine : <<b, h>> # <<a, "retry">> => pub'[b][h] = pub[b][h]
    <2>1. /\ created' \in 0 .. MaxEvents /\ created' \in Events /\ created \in Nat /\ created <= created'
          /\ event' \in EventFun /\ pub' \in PubType
        BY <1>2, <1>3, <1>4, NewEventType
    <2>2. /\ pub'[a]["retry"].event = created' /\ pub'[a]["retry"].env = e
          /\ \A b \in Agents, h \in Goroutine : <<b, h>> # <<a, "retry">> => pub'[b][h] = pub[b][h]
        BY <1>2, <1>3, <1>4, NewEventPub
    <2>3. created' \in Nat /\ created' # 0
        BY <2>1, ConstantsAssumption DEF Events
    <2> QED BY <2>1, <2>2, <2>3
<1>8. TypeOK'
    BY <1>1, <1>2, <1>7, Types, TypesNext
<1>9. EventsOK' /\ RelayOK' /\ OutboxOK' /\ DiskOK'
    BY <1>1, <1>2, <1>3, <1>4, NewEventOK, NewEventKeeps
<1>10. SyncOK' /\ HandledOK' /\ BatchOK'
    BY <1>1, <1>2, <1>7, HandledFrame, BatchFrame DEF SyncOK
<1>11. up[a] = TRUE
    BY <1>2, <1>3, Types DEF DownQuiet
<1>12. DownQuiet'
    BY <1>1, <1>2, <1>7, <1>11, DownFrame
<1>13. /\ \A f \in Envelopes : f # e => Attempts(f)' = Attempts(f) /\ Tries(f)' = Tries(f)
       /\ \A f \in Envelopes : Attempts(f) # {} => Attempts(f)' # {}
       /\ Tries(e)' = Tries(e) + 1
    BY <1>2, <1>3, <1>4, NewEventAttempts
<1>14. \A f \in Envelopes : /\ Calling(f)' <=> Calling(f)
                            /\ f # e => (Retrying(f)' <=> Retrying(f))
    <2> SUFFICES ASSUME NEW f \in Envelopes
                 PROVE  /\ Calling(f)' <=> Calling(f)
                        /\ f # e => (Retrying(f)' <=> Retrying(f))
        OBVIOUS
    <2>1. Source[f] \in Agents
        BY ConstantsAssumption
    <2>2. pub'[Source[f]]["caller"] = pub[Source[f]]["caller"]
        BY <1>2, <1>7, <2>1
    <2>3. CASE Source[f] = a
        BY <1>1, <1>7, <2>2, <2>3 DEF Calling, Retrying
    <2>4. CASE Source[f] # a
        BY <1>2, <1>7, <2>1, <2>2, <2>4 DEF Calling, Retrying
    <2> QED BY <2>3, <2>4
<1>15. Retrying(e)' /\ ~ Retrying(e) /\ ~ Calling(e)
    BY <1>1, <1>2, <1>4, <1>5, <1>7 DEF Retrying, PubOK
<1>16. PubOK'
    <2>1. ASSUME NEW b \in Agents, pub'[b]["caller"].event # 0
          PROVE  pub'[b]["caller"].env \in Envelopes /\ Source[pub'[b]["caller"].env] = b
        <3>1. pub'[b]["caller"] = pub[b]["caller"]
            BY <1>2, <1>7
        <3> QED BY <1>2, <2>1, <3>1 DEF PubOK
    <2>2. ASSUME NEW b \in Agents, pub'[b]["retry"].event # 0
          PROVE  pub'[b]["retry"].env \in batch'[b]
        <3>1. CASE b = a
            BY <1>1, <1>3, <1>7, <3>1
        <3>2. CASE b # a
            BY <1>1, <1>2, <1>7, <2>2, <3>2 DEF PubOK
        <3> QED BY <3>1, <3>2
    <2>3. ASSUME NEW f \in Envelopes, Calling(f)'
          PROVE  outbox'[f] = None /\ Attempts(f)' # {}
        BY <1>1, <1>2, <1>13, <1>14, <2>3 DEF PubOK
    <2> QED BY <2>1, <2>2, <2>3 DEF PubOK
<1>17. Spent'
    <2> SUFFICES ASSUME NEW f \in Envelopes
                 PROVE  /\ Tries(f)' <= Base' + MaxRetries
                        /\ up'[Source[f]] = FALSE \/ Calling(f)' => Tries(f)' <= Base'
                        /\ outbox'[f] # None => Tries(f)' <= Base' + Counted(f)'
        BY DEF Spent
    <2>1. Base' = Base /\ Base \in Nat /\ Tries(f) \in Nat /\ up' = up
        BY <1>1, <1>2, MildBase, RestartsType, AttemptsFinite
    <2>2. CASE f = e
        <3>1. Tries(f)' = Tries(f) + 1 /\ Tries(f) <= Base + Counted(f)
            BY <1>2, <1>5, <1>13, <2>2 DEF Spent
        <3>2. Counted(f) = outbox[f].retries /\ Counted(f)' = outbox[f].retries + 1
            BY <1>1, <1>6, <1>15, <2>2 DEF Counted
        <3>3. up[Source[f]] # FALSE /\ ~ Calling(f)'
            BY <1>5, <1>11, <1>14, <1>15, <2>2
        <3>4. outbox[f].retries \in Nat /\ outbox[f].retries < MaxRetries /\ MaxRetries \in Nat
            BY <1>5, <1>6, <2>2
        <3>5. Tries(f)' <= Base' + MaxRetries /\ Tries(f)' <= Base' + Counted(f)'
            BY <2>1, <3>1, <3>2, <3>4
        <3> QED BY <2>1, <3>3, <3>5
    <2>3. CASE f # e
        <3>1. Tries(f)' = Tries(f) /\ (Calling(f)' <=> Calling(f)) /\ Counted(f)' = Counted(f)
            BY <1>1, <1>13, <1>14, <2>3 DEF Counted
        <3> QED BY <1>1, <1>2, <2>1, <3>1 DEF Spent
    <2> QED BY <2>2, <2>3
<1> QED BY <1>8, <1>9, <1>10, <1>12, <1>16, <1>17 DEF IInv, Inv

-----------------------------------------------------------------------------
(* An event is handled. *)

LEMMA IncomingFacts ==
    ASSUME IInv, NEW a \in Agents, Reading(a), NEW n \in Incoming(a)
    PROVE  /\ n \in Events /\ n <= created /\ n \notin seen[a]
           /\ sync[a].at # 0 /\ ~ (n < sync[a].since) /\ up[a] = TRUE
           /\ event[n].kind \in {"message", "receipt"} /\ event[n].env \in Envelopes
           /\ event[n].kind = "receipt" => event[n].env \in handed
<1>1. TypeOK /\ SyncOK /\ RelayOK /\ EventsOK
    BY DEF IInv, Inv
<1>2. sync[a] \in Sync /\ sync[a].at # 0 /\ sync[a].at <= Len(InboxRelays[a]) /\ up[a] = TRUE
    BY <1>1, Types DEF SyncType, SyncOK, Reading
<1>3. InboxRelays[a] \in Seq(Relays) /\ sync[a].at \in 1 .. Len(InboxRelays[a])
    BY <1>2, ConstantsAssumption DEF Sync
<1> DEFINE r == InboxRelays[a][sync[a].at]
<1>4. r \in Relays
    BY <1>3
<1>5. n \in relay[r] /\ n >= sync[a].since /\ n \notin seen[a]
    BY DEF Incoming
<1> HIDE DEF r
<1>6. n \in Events /\ n <= created
    BY <1>1, <1>4, <1>5, Types DEF RelayOK
<1>7. ~ (n < sync[a].since)
    <2>1. n \in Nat /\ sync[a].since \in Nat
        BY <1>2, <1>6, ConstantsAssumption DEF Events, Sync, Moment
    <2> QED BY <1>5, <2>1
<1>8. /\ event[n].kind \in {"message", "receipt"} /\ event[n].env \in Envelopes
      /\ event[n].kind = "receipt" => event[n].env \in handed
    BY <1>1, <1>6 DEF EventsOK
<1> QED BY <1>2, <1>5, <1>6, <1>7, <1>8

(* It was not handled before: seenEvents or the filter would have held it back. *)
LEMMA HandledNow ==
    ASSUME IInv, NEW a \in Agents, Reading(a), NEW n \in Incoming(a), created' \in Nat, created <= created',
           seen' = [seen EXCEPT ![a] = @ \cup {n}], times' = [times EXCEPT ![a][n] = @ + 1],
           UNCHANGED <<lastSync, sync>>
    PROVE  /\ HandledOK'
           /\ seen' \in [Agents -> SUBSET Events] /\ times' \in TimesType
           /\ \A b \in Agents : b # a => times'[b] = times[b]
<1>1. TypeOK /\ HandledOK
    BY DEF IInv, Inv
<1>2. /\ n \in Events /\ n <= created /\ n \notin seen[a]
      /\ sync[a].at # 0 /\ ~ (n < sync[a].since)
    BY IncomingFacts
<1>3. times[a][n] = 0
    BY <1>1, <1>2 DEF HandledOK, Remembered
<1>4. /\ seen' \in [Agents -> SUBSET Events] /\ seen'[a] = seen[a] \cup {n}
      /\ \A b \in Agents : b # a => seen'[b] = seen[b]
    BY <1>1, <1>2, Types
<1>5. /\ times' \in TimesType /\ times'[a][n] = times[a][n] + 1
      /\ \A b \in Agents : b # a => times'[b] = times[b]
      /\ \A k \in Events : k # n => times'[a][k] = times[a][k]
    <2>1. times \in TimesType
        BY <1>1, Types
    <2> QED BY <1>2, <2>1 DEF TimesType
<1>6. Events \subseteq Nat /\ created \in Nat
    BY <1>1, Types, ConstantsAssumption DEF Events
<1>7. HandledOK'
    <2> SUFFICES ASSUME NEW b \in Agents, NEW k \in Events
                 PROVE  /\ times'[b][k] <= 1
                        /\ times'[b][k] # 0 => k <= created' /\ Remembered(b, k)'
        BY DEF HandledOK
    <2>1. Remembered(b, k) => Remembered(b, k)'
        BY <1>4 DEF Remembered
    <2>2. CASE b = a /\ k = n
        <3>1. times'[b][k] = 1 /\ Remembered(b, k)'
            BY <1>3, <1>4, <1>5, <2>2 DEF Remembered
        <3>2. k <= created'
            BY <1>2, <1>6, <2>2
        <3> QED BY <3>1, <3>2
    <2>3. CASE ~ (b = a /\ k = n)
        <3>1. times'[b][k] = times[b][k]
            BY <1>5, <2>3
        <3>2. times[b][k] <= 1 /\ (times[b][k] # 0 => k <= created /\ Remembered(b, k))
            BY <1>1 DEF HandledOK
        <3>3. k <= created => k <= created'
            BY <1>6
        <3> QED BY <2>1, <3>1, <3>2, <3>3
    <2> QED BY <2>2, <2>3
<1> QED BY <1>4, <1>5, <1>7

(* The pub of the sync goroutine does not concern the outbox. *)
LEMMA SyncPub ==
    ASSUME \A b \in Agents, h \in Goroutine : h # "sync" => pub'[b][h] = pub[b][h]
    PROVE  PubLike
BY DEF PubLike, Goroutine

LEMMA InboxMessageStep ==
    ASSUME IInv, NEW a \in Agents, Reading(a), NEW n \in Incoming(a), event[n].kind = "message",
           seen' = [seen EXCEPT ![a] = @ \cup {n}], times' = [times EXCEPT ![a][n] = @ + 1],
           handleInboxMessage(a, event[n].env),
           UNCHANGED <<relay, lastSync, sync, batch, up, disk, faults>>
    PROVE  IInv'
<1> DEFINE e == event[n].env
<1>1. /\ handed' = handed \cup {e} /\ NewEvent(a, "sync", "receipt", e) /\ UNCHANGED <<outbox, receipted>>
    BY DEF handleInboxMessage
<1>2. /\ TypeOK /\ SyncOK /\ HandledOK /\ DownQuiet /\ PubOK /\ BatchOK /\ OutboxOK /\ Spent /\ Mild
      /\ "sync" \in Goroutine /\ "receipt" \in {"message", "receipt"}
    BY MildFault DEF IInv, Inv, NoFault, Goroutine
<1>3. e \in Envelopes /\ up[a] = TRUE
    BY IncomingFacts
<1> HIDE DEF e
<1>4. /\ created' \in 0 .. MaxEvents /\ created' \in Nat /\ created <= created'
      /\ event' \in EventFun /\ pub' \in PubType
    <2>1. /\ created' \in 0 .. MaxEvents /\ created <= created'
          /\ event' \in EventFun /\ pub' \in PubType
        BY <1>1, <1>2, <1>3, NewEventType
    <2>2. created' \in Nat
        BY <2>1, ConstantsAssumption
    <2> QED BY <2>1, <2>2
<1>5. \A b \in Agents, h \in Goroutine : <<b, h>> # <<a, "sync">> => pub'[b][h] = pub[b][h]
    BY <1>1, <1>2, <1>3, NewEventPub
<1>6. /\ HandledOK'
      /\ seen' \in [Agents -> SUBSET Events] /\ times' \in TimesType
      /\ \A b \in Agents : b # a => times'[b] = times[b]
    BY <1>4, HandledNow
<1>7. TypeOK'
    <2>1. handed' \subseteq Envelopes /\ receipted' \subseteq Envelopes
        BY <1>1, <1>2, <1>3, Types
    <2> QED BY <1>1, <1>2, <1>4, <1>6, <2>1, Types, TypesNext
<1>8. EventsOK' /\ RelayOK' /\ OutboxOK' /\ DiskOK'
    <2>1. handed \subseteq handed' /\ e \in handed'
        BY <1>1
    <2> QED BY <1>1, <1>2, <1>3, <2>1, NewEventOK, NewEventKeeps
<1>9. SyncOK' /\ BatchOK'
    BY <1>1, <1>2, BatchFrame DEF SyncOK
<1>10. DownQuiet'
    BY <1>2, <1>3, <1>5, <1>6 DEF DownQuiet
<1>11. PubLike
    BY <1>5, SyncPub
<1>12. \A f \in Envelopes : Attempts(f)' = Attempts(f) /\ Tries(f)' = Tries(f)
    BY <1>1, <1>2, <1>3, NewEventAttempts
<1>13. \A f \in Envelopes : (Calling(f)' <=> Calling(f)) /\ (Retrying(f)' <=> Retrying(f))
    BY <1>11, LikeCalling
<1>14. PubOK'
    <2>1. \A b \in Agents : pub'[b]["caller"] = pub[b]["caller"] /\ pub'[b]["retry"] = pub[b]["retry"]
        BY <1>5 DEF Goroutine
    <2>2. \A f \in Envelopes : Calling(f)' => outbox'[f] = None /\ Attempts(f)' # {}
        BY <1>1, <1>2, <1>12, <1>13 DEF PubOK
    <2> QED BY <1>2, <2>1, <2>2 DEF PubOK
<1>15. Spent'
    <2>1. Base' = Base
        BY <1>2, MildBase
    <2>2. \A f \in Envelopes : Counted(f)' = Counted(f)
        BY <1>1, <1>13 DEF Counted
    <2> QED BY <1>1, <1>2, <1>12, <1>13, <2>1, <2>2 DEF Spent
<1> QED BY <1>6, <1>7, <1>8, <1>9, <1>10, <1>14, <1>15 DEF IInv, Inv

LEMMA DeliveryReceiptStep ==
    ASSUME IInv, NEW a \in Agents, Reading(a), NEW n \in Incoming(a), event[n].kind # "message",
           seen' = [seen EXCEPT ![a] = @ \cup {n}], times' = [times EXCEPT ![a][n] = @ + 1],
           handleDeliveryReceipt(event[n].env),
           UNCHANGED <<relay, lastSync, sync, batch, up, disk, faults>>
    PROVE  IInv'
<1> DEFINE e == event[n].env
           x == [outbox[e] EXCEPT !.confirmed = TRUE]
<1>1. /\ receipted' = receipted \cup {e} /\ UNCHANGED <<created, event, pub, handed>>
      /\ outbox' = IF outbox[e] = None THEN outbox ELSE [outbox EXCEPT ![e] = x]
    BY DEF handleDeliveryReceipt, confirmDelivery
<1>2. /\ TypeOK /\ EventsOK /\ RelayOK /\ SyncOK /\ HandledOK /\ DownQuiet /\ PubOK /\ BatchOK
      /\ OutboxOK /\ DiskOK /\ Spent /\ Mild
    BY MildFault DEF IInv, Inv, NoFault
<1>3. e \in Envelopes /\ e \in handed /\ up[a] = TRUE
    BY IncomingFacts
<1>4. outbox[e] # None => x \in Entry /\ x.retries = outbox[e].retries
    <2>1. outbox[e] # None => outbox[e] \in Entry
        BY <1>2, <1>3, Types DEF OutboxType, MaybeEntry
    <2> DEFINE y == outbox[e]
    <2>2. \A z \in Entry : [z EXCEPT !.confirmed = TRUE] \in Entry /\ [z EXCEPT !.confirmed = TRUE].retries = z.retries
        BY DEF Entry
    <2> QED BY <2>1, <2>2
<1> HIDE DEF x, e
<1>5. /\ outbox' \in OutboxType
      /\ \A f \in Envelopes : f # e => outbox'[f] = outbox[f]
      /\ \A f \in Envelopes : outbox[f] = None <=> outbox'[f] = None
      /\ \A f \in Envelopes : outbox[f] # None => outbox'[f].retries = outbox[f].retries
    <2>1. outbox \in OutboxType
        BY <1>2, Types
    <2>2. CASE outbox[e] = None
        BY <1>1, <2>1, <2>2
    <2>3. CASE outbox[e] # None
        <3>1. outbox' \in OutboxType /\ outbox'[e] = x /\ \A f \in Envelopes : f # e => outbox'[f] = outbox[f]
            BY <1>1, <1>3, <1>4, <2>1, <2>3 DEF OutboxType, MaybeEntry
        <3>2. x # None
            BY <1>4, <2>3, NoneAssumption
        <3> QED BY <1>4, <2>3, <3>1, <3>2
    <2> QED BY <2>2, <2>3
<1>6. /\ HandledOK'
      /\ seen' \in [Agents -> SUBSET Events] /\ times' \in TimesType
      /\ \A b \in Agents : b # a => times'[b] = times[b]
    <2>1. created' \in Nat /\ created <= created'
        BY <1>1, <1>2, Types
    <2> QED BY <1>1, <2>1, HandledNow
<1>7. TypeOK'
    <2>1. receipted' \subseteq Envelopes
        BY <1>1, <1>2, <1>3, Types
    <2> QED BY <1>1, <1>2, <1>5, <1>6, <2>1, Types, TypesNext
<1>8. \A f \in Envelopes : Attempts(f)' = Attempts(f)
    BY <1>1 DEF Attempts
<1>9. EventsOK' /\ RelayOK' /\ DiskOK' /\ SyncOK'
    BY <1>1, <1>2, <1>8, EventFrame, DiskFrame DEF RelayOK, SyncOK
<1>10. OutboxOK'
    BY <1>1, <1>2, <1>3, <1>5, <1>8 DEF OutboxOK, GoodEntry
<1>11. BatchOK'
    <2>1. \A b \in Agents : \A f \in batch[b] : f \in Envelopes
        BY <1>2, Types
    <2> QED BY <1>2, <1>5, <2>1 DEF BatchOK
<1>12. DownQuiet'
    BY <1>1, <1>2, <1>3, <1>6 DEF DownQuiet
<1>13. \A f \in Envelopes : (Calling(f)' <=> Calling(f)) /\ (Retrying(f)' <=> Retrying(f))
    BY <1>1, SamePub, LikeCalling
<1>14. PubOK'
    <2>1. \A f \in Envelopes : Calling(f)' => outbox'[f] = None /\ Attempts(f)' # {}
        BY <1>2, <1>5, <1>8, <1>13 DEF PubOK
    <2> QED BY <1>1, <1>2, <2>1 DEF PubOK
<1>15. Spent'
    <2>1. Base' = Base
        BY <1>2, MildBase
    <2>2. \A f \in Envelopes : outbox'[f] # None => outbox[f] # None /\ Counted(f)' = Counted(f)
        BY <1>5, <1>13 DEF Counted
    <2>3. \A f \in Envelopes : Tries(f)' = Tries(f)
        BY <1>8 DEF Tries
    <2> QED BY <1>2, <1>13, <2>1, <2>2, <2>3 DEF Spent
<1> QED BY <1>6, <1>7, <1>9, <1>10, <1>11, <1>12, <1>14, <1>15 DEF IInv, Inv

LEMMA HandleMailboxEventStep ==
    ASSUME IInv, NEW a \in Agents, handleMailboxEvent(a)
    PROVE  IInv'
<1>1. Reading(a) /\ UNCHANGED <<relay, lastSync, sync, batch, up, disk>>
    BY DEF handleMailboxEvent
<1>2. PICK n \in Incoming(a) :
        /\ seen' = [seen EXCEPT ![a] = @ \cup {n}]
        /\ \/ /\ NoFault
              /\ times' = [times EXCEPT ![a][n] = @ + 1]
              /\ IF event[n].kind = "message" THEN handleInboxMessage(a, event[n].env)
                                              ELSE handleDeliveryReceipt(event[n].env)
           \/ /\ Fault("corrupt")
              /\ UNCHANGED <<created, event, pub, outbox, handed, receipted, times>>
    BY DEF handleMailboxEvent
<1>3. CASE /\ NoFault
           /\ times' = [times EXCEPT ![a][n] = @ + 1]
           /\ IF event[n].kind = "message" THEN handleInboxMessage(a, event[n].env)
                                           ELSE handleDeliveryReceipt(event[n].env)
    <2>1. UNCHANGED faults
        BY <1>3 DEF NoFault
    <2>2. CASE event[n].kind = "message"
        BY <1>1, <1>2, <1>3, <2>1, <2>2, InboxMessageStep
    <2>3. CASE event[n].kind # "message"
        BY <1>1, <1>2, <1>3, <2>1, <2>3, DeliveryReceiptStep
    <2> QED BY <2>2, <2>3
<1>4. CASE /\ Fault("corrupt")
           /\ UNCHANGED <<created, event, pub, outbox, handed, receipted, times>>
    <2>1. TypeOK /\ SyncOK /\ HandledOK
        BY DEF IInv, Inv
    <2>2. Mild
        BY <1>4, <2>1, MildFault DEF FaultKinds
    <2>3. n \in Events
        BY <1>1, IncomingFacts
    <2>4. /\ seen' \in [Agents -> SUBSET Events] /\ \A b \in Agents : seen[b] \subseteq seen'[b]
          /\ lastSync' \in [Agents -> Moment] /\ sync' \in SyncType
        BY <1>1, <1>2, <2>1, <2>3, Types
    <2>5. \A b \in Agents, k \in Events : Remembered(b, k) => Remembered(b, k)'
        BY <1>1, <2>4 DEF Remembered
    <2>6. SyncOK' /\ HandledOK'
        BY <1>1, <1>4, <2>1, <2>5 DEF SyncOK, HandledOK
    <2> QED BY <1>1, <1>4, <2>2, <2>4, <2>6, SyncStepKeeps
<1> QED BY <1>2, <1>3, <1>4

-----------------------------------------------------------------------------
(* Stop, crash and restart. *)

(* A restart pays for the retries of one more run. *)
LEMMA RestartCounts ==
    ASSUME TypeOK, NEW k \in {"stop", "crash"}, Fault(k)
    PROVE  Base' = Base + MaxRetries /\ faults' \in Seq(FaultKinds)
<1> DEFINE S == Occurred({"stop", "crash"})
           n == Len(faults) + 1
<1>1. faults \in Seq(FaultKinds) /\ faults' = Append(faults, k) /\ k \in FaultKinds
    BY Types DEF Fault, FaultKinds
<1>2. S' = S \cup {n} /\ n \notin S
    BY <1>1, AppendFault DEF Occurred
<1>3. IsFiniteSet(S)
    BY OccurredFinite
<1> HIDE DEF S, n
<1>4. Cardinality(S \cup {n}) = Cardinality(S) + 1
    BY <1>2, <1>3, FS_AddElement
<1>5. Restarts' = Restarts + 1 /\ Restarts \in Nat /\ MaxRetries \in Nat
    BY <1>2, <1>4, RestartsType DEF Restarts, S
<1>6. \A m, r \in Nat : 1 + m * (r + 1) = (1 + m * r) + m
    OBVIOUS
<1>7. 1 + MaxRetries * (Restarts + 1) = (1 + MaxRetries * Restarts) + MaxRetries
    BY <1>5, <1>6
<1>8. Base' = Base + MaxRetries
    BY <1>5, <1>7, Zenon DEF Base
<1>9. faults' \in Seq(FaultKinds)
    BY <1>1, AppendFault
<1> QED BY <1>8, <1>9

LEMMA HaltStep ==
    ASSUME IInv, NEW a \in Agents, NEW k \in {"stop", "crash"}, Fault(k), Halt(a),
           disk' \in DiskType,
           \A e \in Envelopes, b \in Agents : GoodEntry(e, disk'[b].outbox[e], Attempts(e), handed)
    PROVE  IInv'
<1>1. /\ up' = [up EXCEPT ![a] = FALSE]
      /\ outbox' = [e \in Envelopes |-> IF Source[e] = a THEN None ELSE outbox[e]]
      /\ lastSync' = [lastSync EXCEPT ![a] = 0]
      /\ seen' = [seen EXCEPT ![a] = {}]
      /\ sync' = [sync EXCEPT ![a] = Asleep]
      /\ batch' = [batch EXCEPT ![a] = {}]
      /\ pub' = [pub EXCEPT ![a] = NoPub]
      /\ times' = [times EXCEPT ![a] = [n \in Events |-> 0]]
    BY DEF Halt
<1>2. UNCHANGED <<created, event, relay, handed, receipted>>
    BY DEF Halt
<1>3. /\ TypeOK /\ EventsOK /\ RelayOK /\ SyncOK /\ HandledOK /\ DownQuiet /\ PubOK /\ BatchOK
      /\ OutboxOK /\ Spent
    BY DEF IInv, Inv
<1>4. Base' = Base + MaxRetries /\ faults' \in Seq(FaultKinds)
    BY <1>3, RestartCounts
<1>5. NoPub \in [Goroutine -> Pub] /\ \A g \in Goroutine : NoPub[g].event = 0
    <2>1. Quiet \in Pub /\ Quiet.event = 0
        BY ConstantsAssumption DEF Quiet, Pub
    <2> QED BY <2>1 DEF NoPub
<1>6. Asleep \in Sync /\ Asleep.at = 0
    BY ConstantsAssumption DEF Asleep, Sync, Moment
<1>7. /\ up' \in [Agents -> BOOLEAN] /\ \A b \in Agents : b # a => up'[b] = up[b]
      /\ lastSync' \in [Agents -> Moment] /\ \A b \in Agents : b # a => lastSync'[b] = lastSync[b]
      /\ seen' \in [Agents -> SUBSET Events] /\ \A b \in Agents : b # a => seen'[b] = seen[b]
    BY <1>1, <1>3, Types, ConstantsAssumption DEF Moment
<1>8. /\ sync' \in SyncType /\ sync'[a] = Asleep /\ \A b \in Agents : b # a => sync'[b] = sync[b]
    BY <1>1, <1>3, <1>6, Types DEF SyncType
<1>9. /\ batch' \in [Agents -> SUBSET Envelopes] /\ batch'[a] = {} /\ \A b \in Agents : b # a => batch'[b] = batch[b]
    BY <1>1, <1>3, Types
<1>10. /\ pub' \in PubType /\ pub'[a] = NoPub /\ \A b \in Agents : b # a => pub'[b] = pub[b]
    BY <1>1, <1>3, <1>5, Types DEF PubType
<1>11. /\ times' \in TimesType /\ times'[a] = [n \in Events |-> 0]
       /\ \A b \in Agents : b # a => times'[b] = times[b]
    BY <1>1, <1>3, Types DEF TimesType
<1>12. /\ outbox' \in OutboxType
       /\ \A f \in Envelopes : Source[f] = a => outbox'[f] = None
       /\ \A f \in Envelopes : Source[f] # a => outbox'[f] = outbox[f]
    BY <1>1, <1>3, Types DEF OutboxType, MaybeEntry
<1>13. TypeOK'
    BY <1>2, <1>3, <1>4, <1>7, <1>8, <1>9, <1>10, <1>11, <1>12, Types, TypesNext
<1>14. \A f \in Envelopes : Attempts(f)' = Attempts(f)
    BY <1>2 DEF Attempts
<1>15. EventsOK' /\ DiskOK'
    <2>1. EventsOK'
        BY <1>2, <1>3, EventFrame
    <2>2. DiskOK'
        BY <1>2, <1>14 DEF DiskOK, GoodEntry
    <2> QED BY <2>1, <2>2
<1>16. RelayOK'
    <2>1. 0 <= created
        BY <1>3, Types
    <2>2. \A b \in Agents, g \in Goroutine : pub'[b][g].event <= created
        BY <1>3, <1>5, <1>10, <2>1 DEF RelayOK
    <2> QED BY <1>2, <1>3, <2>2 DEF RelayOK
<1>17. SyncOK'
    <2>1. Len(InboxRelays[a]) \in Nat \ {0}
        BY ConstantsAssumption
    <2> QED BY <1>3, <1>6, <1>7, <1>8, <2>1 DEF SyncOK
<1>18. HandledOK'
    <2> SUFFICES ASSUME NEW b \in Agents, NEW n \in Events
                 PROVE  /\ times'[b][n] <= 1
                        /\ times'[b][n] # 0 => n <= created' /\ Remembered(b, n)'
        BY DEF HandledOK
    <2>1. CASE b = a
        BY <1>11, <2>1
    <2>2. CASE b # a
        <3>1. times'[b] = times[b] /\ (Remembered(b, n)' <=> Remembered(b, n))
            BY <1>7, <1>8, <1>11, <2>2 DEF Remembered
        <3> QED BY <1>2, <1>3, <3>1 DEF HandledOK
    <2> QED BY <2>1, <2>2
<1>19. DownQuiet'
    <2> SUFFICES ASSUME NEW b \in Agents, up'[b] = FALSE
                 PROVE  /\ \A g \in Goroutine : pub'[b][g].event = 0
                        /\ batch'[b] = {}
                        /\ \A n \in Events : times'[b][n] = 0
        BY DEF DownQuiet
    <2>1. CASE b = a
        BY <1>5, <1>9, <1>10, <1>11, <2>1
    <2>2. CASE b # a
        BY <1>3, <1>7, <1>9, <1>10, <1>11, <2>2 DEF DownQuiet
    <2> QED BY <2>1, <2>2
<1>20. BatchOK'
    <2> SUFFICES ASSUME NEW b \in Agents, NEW f \in batch'[b]
                 PROVE  Source[f] = b /\ outbox'[f] # None /\ outbox'[f].retries < MaxRetries
        BY DEF BatchOK
    <2>1. b # a /\ batch'[b] = batch[b]
        BY <1>9
    <2>2. f \in Envelopes /\ Source[f] = b /\ outbox[f] # None /\ outbox[f].retries < MaxRetries
        BY <1>3, <2>1, Types DEF BatchOK
    <2> QED BY <1>12, <2>1, <2>2
<1>21. OutboxOK'
    BY <1>2, <1>3, <1>12, <1>14 DEF OutboxOK, GoodEntry
<1>22. \A f \in Envelopes : Calling(f)' => Calling(f) /\ Source[f] # a
    <2> SUFFICES ASSUME NEW f \in Envelopes, Calling(f)'
                 PROVE  Calling(f) /\ Source[f] # a
        OBVIOUS
    <2>1. Source[f] \in Agents /\ "caller" \in Goroutine
        BY ConstantsAssumption DEF Goroutine
    <2>2. Source[f] # a
        BY <1>5, <1>10, <2>1 DEF Calling
    <2> QED BY <1>10, <2>1, <2>2 DEF Calling
<1>23. PubOK'
    <2>1. ASSUME NEW b \in Agents, pub'[b]["caller"].event # 0
          PROVE  pub'[b]["caller"].env \in Envelopes /\ Source[pub'[b]["caller"].env] = b
        <3>1. b # a
            BY <1>5, <1>10, <2>1 DEF Goroutine
        <3> QED BY <1>3, <1>10, <2>1, <3>1 DEF PubOK
    <2>2. ASSUME NEW b \in Agents, pub'[b]["retry"].event # 0
          PROVE  pub'[b]["retry"].env \in batch'[b]
        <3>1. b # a
            BY <1>5, <1>10, <2>2 DEF Goroutine
        <3> QED BY <1>3, <1>9, <1>10, <2>2, <3>1 DEF PubOK
    <2>3. ASSUME NEW f \in Envelopes, Calling(f)'
          PROVE  outbox'[f] = None /\ Attempts(f)' # {}
        BY <1>3, <1>12, <1>14, <1>22, <2>3 DEF PubOK
    <2> QED BY <2>1, <2>2, <2>3 DEF PubOK
<1>24. Spent'
    <2> SUFFICES ASSUME NEW f \in Envelopes
                 PROVE  /\ Tries(f)' <= Base' + MaxRetries
                        /\ up'[Source[f]] = FALSE \/ Calling(f)' => Tries(f)' <= Base'
                        /\ outbox'[f] # None => Tries(f)' <= Base' + Counted(f)'
        BY DEF Spent
    <2>1. Tries(f)' = Tries(f)
        BY <1>14 DEF Tries
    <2>2. Tries(f) \in Nat /\ Base \in Nat /\ MaxRetries \in Nat /\ Tries(f) <= Base + MaxRetries
        BY <1>3, AttemptsFinite, RestartsType DEF Spent
    <2>3. outbox'[f] # None => Counted(f)' \in Nat
        <3>1. outbox'[f] # None => outbox'[f].retries \in Nat
            BY <1>12, ConstantsAssumption DEF OutboxType, MaybeEntry, Entry
        <3> QED BY <3>1 DEF Counted
    <2> QED BY <1>4, <2>1, <2>2, <2>3
<1> QED BY <1>13, <1>15, <1>16, <1>17, <1>18, <1>19, <1>20, <1>21, <1>23, <1>24 DEF IInv, Inv

LEMMA SavedEntry ==
    ASSUME NEW y \in Entry, NEW m \in 0 .. MaxRetries
    PROVE  /\ [y EXCEPT !.retries = m, !.loaded = TRUE] \in Entry
           /\ [y EXCEPT !.retries = m, !.loaded = TRUE].confirmed = y.confirmed
<1> DEFINE z == [y EXCEPT !.retries = m]
           x == [z EXCEPT !.loaded = TRUE]
<1>1. z \in Entry /\ z.confirmed = y.confirmed
    BY DEF Entry
<1>2. x = [y EXCEPT !.retries = m, !.loaded = TRUE]
    OBVIOUS
<1> HIDE DEF z
<1>3. x \in Entry /\ x.confirmed = z.confirmed
    BY <1>1 DEF Entry
<1> HIDE DEF x
<1> QED BY <1>1, <1>2, <1>3

LEMMA SavedOutbox ==
    ASSUME IInv, NEW a \in Agents
    PROVE  /\ saveOutbox(a) \in OutboxType
           /\ \A e \in Envelopes : GoodEntry(e, saveOutbox(a)[e], Attempts(e), handed)
<1>1. TypeOK /\ BatchOK /\ OutboxOK
    BY DEF IInv, Inv
<1>2. ASSUME NEW e \in Envelopes
      PROVE  saveOutbox(a)[e] \in MaybeEntry /\ GoodEntry(e, saveOutbox(a)[e], Attempts(e), handed)
    <2>1. CASE Source[e] # a \/ outbox[e] = None
        <3>1. saveOutbox(a)[e] = None
            BY <2>1 DEF saveOutbox
        <3> QED BY <3>1 DEF MaybeEntry, GoodEntry
    <2>2. CASE ~ (Source[e] # a \/ outbox[e] = None)
        <3> DEFINE y == outbox[e]
                   m == IF e \in batch[a] THEN y.retries + 1 ELSE y.retries
        <3>1. saveOutbox(a)[e] = [y EXCEPT !.retries = m, !.loaded = TRUE]
            BY <2>2 DEF saveOutbox
        <3>2. y \in Entry
            BY <1>1, <2>2, Types DEF OutboxType, MaybeEntry
        <3>3. m \in 0 .. MaxRetries
            <4>1. y.retries \in 0 .. MaxRetries /\ MaxRetries \in Nat
                BY <3>2, ConstantsAssumption DEF Entry
            <4>2. e \in batch[a] => y.retries < MaxRetries
                BY <1>1 DEF BatchOK
            <4> HIDE DEF y
            <4> QED BY <4>1, <4>2
        <3>4. y # None /\ GoodEntry(e, y, Attempts(e), handed)
            BY <1>1, <2>2 DEF OutboxOK
        <3> HIDE DEF y, m
        <3>5. saveOutbox(a)[e] \in Entry /\ saveOutbox(a)[e].confirmed = y.confirmed
            BY <3>1, <3>2, <3>3, SavedEntry
        <3> QED BY <3>4, <3>5 DEF MaybeEntry, GoodEntry
    <2> QED BY <2>1, <2>2
<1>3. saveOutbox(a) \in [Envelopes -> MaybeEntry]
    BY <1>2 DEF saveOutbox
<1> QED BY <1>2, <1>3 DEF OutboxType

LEMMA StopStep ==
    ASSUME IInv, NEW a \in Agents, Stop(a)
    PROVE  IInv'
<1>0. PICK now \in {created, created + 1} :
            disk' = [disk EXCEPT ![a] = [outbox |-> saveOutbox(a), lastSync |-> saveLastSync(a, now)]]
    BY DEF Stop
<1> DEFINE d == [outbox |-> saveOutbox(a), lastSync |-> saveLastSync(a, now)]
<1>1. disk' = [disk EXCEPT ![a] = d] /\ Fault("stop") /\ Halt(a)
    BY <1>0 DEF Stop
<1>2. TypeOK /\ DiskOK
    BY DEF IInv, Inv
<1>3. saveLastSync(a, now) \in Moment
    BY <1>2, SyncedAtType DEF saveLastSync
<1>4. /\ d \in [outbox : [Envelopes -> MaybeEntry], lastSync : Moment]
      /\ d.outbox = saveOutbox(a)
    BY <1>3, SavedOutbox DEF OutboxType
<1> HIDE DEF d
<1>5. disk' \in DiskType /\ disk'[a] = d /\ \A b \in Agents : b # a => disk'[b] = disk[b]
    BY <1>1, <1>2, <1>4, Types DEF DiskType
<1>6. \A e \in Envelopes, b \in Agents : GoodEntry(e, disk'[b].outbox[e], Attempts(e), handed)
    <2> SUFFICES ASSUME NEW e \in Envelopes, NEW b \in Agents
                 PROVE  GoodEntry(e, disk'[b].outbox[e], Attempts(e), handed)
        OBVIOUS
    <2>1. CASE b = a
        BY <1>4, <1>5, <2>1, SavedOutbox
    <2>2. CASE b # a
        BY <1>2, <1>5, <2>2 DEF DiskOK
    <2> QED BY <2>1, <2>2
<1> QED BY <1>1, <1>5, <1>6, HaltStep

LEMMA CrashStep ==
    ASSUME IInv, NEW a \in Agents, Crash(a)
    PROVE  IInv'
<1>1. Fault("crash") /\ Halt(a) /\ UNCHANGED disk
    BY DEF Crash
<1>2. TypeOK /\ DiskOK
    BY DEF IInv, Inv
<1>3. disk' \in DiskType
    BY <1>1, <1>2, Types
<1>4. \A e \in Envelopes, b \in Agents : GoodEntry(e, disk'[b].outbox[e], Attempts(e), handed)
    BY <1>1, <1>2 DEF DiskOK
<1> QED BY <1>1, <1>3, <1>4, HaltStep

LEMMA StartStep ==
    ASSUME IInv, NEW a \in Agents, Start(a)
    PROVE  IInv'
<1>1. /\ up' = [up EXCEPT ![a] = TRUE]
      /\ outbox' = [e \in Envelopes |-> IF Source[e] = a THEN disk[a].outbox[e] ELSE outbox[e]]
      /\ lastSync' = [lastSync EXCEPT ![a] = disk[a].lastSync]
      /\ UNCHANGED <<created, event, relay, seen, sync, batch, pub, disk, faults>>
      /\ UNCHANGED <<handed, receipted, times>>
    BY DEF Start, loadOutbox, loadLastSync, ghosts
<1>2. /\ TypeOK /\ EventsOK /\ RelayOK /\ SyncOK /\ HandledOK /\ DownQuiet /\ PubOK /\ BatchOK
      /\ OutboxOK /\ DiskOK /\ Spent /\ Mild
    BY <1>1, MildFault DEF IInv, Inv, NoFault
<1>3. up[a] = FALSE
    BY <1>2, Types DEF Start
<1>4. /\ \A g \in Goroutine : pub[a][g].event = 0
      /\ batch[a] = {} /\ \A n \in Events : times[a][n] = 0
    BY <1>2, <1>3 DEF DownQuiet
<1>5. disk[a].outbox \in [Envelopes -> MaybeEntry] /\ disk[a].lastSync \in Moment
    BY <1>2, Types DEF DiskType
<1>6. /\ up' \in [Agents -> BOOLEAN] /\ up'[a] = TRUE /\ \A b \in Agents : b # a => up'[b] = up[b]
      /\ lastSync' \in [Agents -> Moment] /\ \A b \in Agents : b # a => lastSync'[b] = lastSync[b]
    BY <1>1, <1>2, <1>5, Types
<1>7. /\ outbox' \in OutboxType
      /\ \A f \in Envelopes : Source[f] = a => outbox'[f] = disk[a].outbox[f]
      /\ \A f \in Envelopes : Source[f] # a => outbox'[f] = outbox[f]
    BY <1>1, <1>2, <1>5, Types DEF OutboxType
<1>8. TypeOK'
    BY <1>1, <1>2, <1>6, <1>7, Types, TypesNext
<1>9. \A f \in Envelopes : Attempts(f)' = Attempts(f)
    BY <1>1 DEF Attempts
<1>10. EventsOK' /\ RelayOK' /\ DiskOK'
    BY <1>1, <1>2, <1>9, EventFrame, DiskFrame DEF RelayOK
<1>11. SyncOK' /\ DownQuiet'
    BY <1>1, <1>2, <1>6 DEF SyncOK, DownQuiet
<1>12. HandledOK'
    <2> SUFFICES ASSUME NEW b \in Agents, NEW n \in Events
                 PROVE  /\ times[b][n] <= 1
                        /\ times[b][n] # 0 => n <= created /\ Remembered(b, n)'
        BY <1>1 DEF HandledOK
    <2>1. CASE b = a
        BY <1>4, <2>1
    <2>2. CASE b # a
        <3>1. Remembered(b, n)' <=> Remembered(b, n)
            BY <1>1, <1>6, <2>2 DEF Remembered
        <3> QED BY <1>2, <3>1 DEF HandledOK
    <2> QED BY <2>1, <2>2
<1>13. BatchOK'
    <2> SUFFICES ASSUME NEW b \in Agents, NEW f \in batch[b]
                 PROVE  Source[f] = b /\ outbox'[f] # None /\ outbox'[f].retries < MaxRetries
        BY <1>1 DEF BatchOK
    <2>1. f \in Envelopes /\ Source[f] = b /\ outbox[f] # None /\ outbox[f].retries < MaxRetries
        BY <1>2, Types DEF BatchOK
    <2> QED BY <1>4, <1>7, <2>1
<1>14. OutboxOK'
    BY <1>1, <1>2, <1>7, <1>9 DEF OutboxOK, DiskOK, GoodEntry
<1>15. \A f \in Envelopes : /\ (Calling(f)' <=> Calling(f)) /\ (Retrying(f)' <=> Retrying(f))
                            /\ Calling(f) => Source[f] # a
    <2>1. \A f \in Envelopes : (Calling(f)' <=> Calling(f)) /\ (Retrying(f)' <=> Retrying(f))
        BY <1>1, SamePub, LikeCalling
    <2>2. \A f \in Envelopes : Calling(f) => Source[f] # a
        BY <1>4 DEF Calling, Goroutine
    <2> QED BY <2>1, <2>2
<1>16. PubOK'
    <2>1. \A f \in Envelopes : Calling(f)' => outbox'[f] = None /\ Attempts(f)' # {}
        BY <1>2, <1>7, <1>9, <1>15 DEF PubOK
    <2> QED BY <1>1, <1>2, <2>1 DEF PubOK
<1>17. Spent'
    <2> SUFFICES ASSUME NEW f \in Envelopes
                 PROVE  /\ Tries(f)' <= Base' + MaxRetries
                        /\ up'[Source[f]] = FALSE \/ Calling(f)' => Tries(f)' <= Base'
                        /\ outbox'[f] # None => Tries(f)' <= Base' + Counted(f)'
        BY DEF Spent
    <2>1. Tries(f)' = Tries(f) /\ Source[f] \in Agents
        BY <1>9, ConstantsAssumption DEF Tries
    <2>2. Base' = Base /\ Base \in Nat /\ MaxRetries \in Nat /\ Tries(f) \in Nat
        BY <1>2, MildBase, RestartsType, AttemptsFinite
    <2>3. CASE Source[f] = a
        <3>1. Tries(f) <= Base
            BY <1>2, <1>3, <2>3 DEF Spent
        <3>2. outbox'[f] # None => Counted(f)' \in Nat
            <4>1. outbox'[f] # None => outbox'[f].retries \in Nat
                BY <1>7, ConstantsAssumption DEF OutboxType, MaybeEntry, Entry
            <4> QED BY <4>1 DEF Counted
        <3> QED BY <2>1, <2>2, <3>1, <3>2
    <2>4. CASE Source[f] # a
        <3>1. /\ outbox'[f] = outbox[f] /\ Counted(f)' = Counted(f)
              /\ up'[Source[f]] = up[Source[f]] /\ (Calling(f)' <=> Calling(f))
            BY <1>6, <1>7, <1>15, <2>1, <2>4 DEF Counted
        <3> QED BY <1>2, <2>1, <2>2, <3>1 DEF Spent
    <2> QED BY <2>3, <2>4
<1> QED BY <1>8, <1>10, <1>11, <1>12, <1>13, <1>14, <1>16, <1>17 DEF IInv, Inv

-----------------------------------------------------------------------------
LEMMA InitIInv == Init => IInv
<1> SUFFICES ASSUME Init
             PROVE  IInv
    OBVIOUS
<1>1. MaxEvents \in Nat /\ MaxRetries \in Nat /\ Events \subseteq Nat
    BY ConstantsAssumption DEF Events
<1>2. Quiet \in Pub /\ Quiet.event = 0 /\ Asleep \in Sync /\ Asleep.at = 0
    BY <1>1 DEF Quiet, Pub, Asleep, Sync, Moment
<1>3. NoPub \in [Goroutine -> Pub] /\ \A g \in Goroutine : NoPub[g].event = 0
    BY <1>2 DEF NoPub
<1>4. NoEntries \in [Envelopes -> MaybeEntry] /\ \A e \in Envelopes : NoEntries[e] = None
    BY DEF NoEntries, MaybeEntry
<1>5. TypeOK
    <2>1. created \in 0 .. MaxEvents /\ event \in [Events -> EventType] /\ relay \in [Relays -> SUBSET Events]
        BY <1>1 DEF Init, EventType
    <2>2. outbox \in [Envelopes -> MaybeEntry] /\ lastSync \in [Agents -> Moment]
        BY <1>1, <1>4 DEF Init, Moment
    <2>3. /\ seen \in [Agents -> SUBSET Events] /\ sync \in [Agents -> Sync]
          /\ batch \in [Agents -> SUBSET Envelopes] /\ pub \in [Agents -> [Goroutine -> Pub]]
        BY <1>2, <1>3 DEF Init
    <2>4. disk \in [Agents -> [outbox : [Envelopes -> MaybeEntry], lastSync : Moment]]
        BY <1>1, <1>4 DEF Init, Moment
    <2>5. up \in [Agents -> BOOLEAN] /\ times \in [Agents -> [Events -> Nat]]
        BY DEF Init
    <2>6. handed \subseteq Envelopes /\ receipted \subseteq Envelopes /\ faults \in Seq(FaultKinds)
        BY DEF Init
    <2> QED BY <2>1, <2>2, <2>3, <2>4, <2>5, <2>6 DEF TypeOK
<1>6. /\ created = 0 /\ handed = {} /\ \A n \in Events : event[n].kind = "none"
      /\ \A r \in Relays : relay[r] = {}
    BY DEF Init
<1>7. /\ \A a \in Agents, g \in Goroutine : pub[a][g].event = 0
      /\ \A a \in Agents : sync[a].at = 0 /\ batch[a] = {} /\ up[a] = TRUE
    BY <1>2, <1>3 DEF Init
<1>8. \A e \in Envelopes : outbox[e] = None /\ \A a \in Agents : disk[a].outbox[e] = None
    BY <1>4 DEF Init
<1>9. \A a \in Agents, n \in Events : times[a][n] = 0
    BY DEF Init
<1>10. EventsOK /\ RelayOK
    <2>1. \A n \in Events : ~ (n <= created)
        BY <1>1, <1>6 DEF Events
    <2> QED BY <1>6, <1>7, <2>1 DEF EventsOK, RelayOK
<1>11. SyncOK
    <2>1. \A a \in Agents : Len(InboxRelays[a]) \in Nat
        BY ConstantsAssumption
    <2> QED BY <1>7, <2>1 DEF SyncOK
<1>12. DownQuiet /\ BatchOK /\ HandledOK
    BY <1>7, <1>9 DEF DownQuiet, BatchOK, HandledOK
<1>13. \A e \in Envelopes : ~ Calling(e)
    BY <1>7, ConstantsAssumption DEF Calling, Goroutine
<1>14. PubOK
    BY <1>7, <1>13 DEF PubOK, Goroutine
<1>15. OutboxOK /\ DiskOK
    BY <1>8 DEF OutboxOK, DiskOK, GoodEntry
<1>16. Spent
    <2> SUFFICES ASSUME NEW e \in Envelopes
                 PROVE  Tries(e) <= Base + MaxRetries /\ Tries(e) <= Base
        BY <1>8 DEF Spent
    <2>1. Attempts(e) = {}
        BY <1>6 DEF Attempts
    <2>2. Tries(e) = 0
        BY <2>1, FS_EmptySet DEF Tries
    <2> QED BY <1>5, <2>2, RestartsType
<1> QED BY <1>5, <1>10, <1>11, <1>12, <1>14, <1>15, <1>16 DEF IInv, Inv

LEMMA NextIInv == IInv /\ [Next]_vars => IInv'
<1> SUFFICES ASSUME IInv, [Next]_vars
             PROVE  IInv'
    OBVIOUS
<1>1. ASSUME NEW e \in Envelopes, SendToInbox(e) PROVE IInv'
    BY <1>1, SendToInboxStep
<1>2. ASSUME NEW a \in Agents, Caller(a) PROVE IInv'
    BY <1>2, PublishStep, SendTrackedStep DEF Caller, Goroutine
<1>3. ASSUME NEW a \in Agents, RetryLoop(a) PROVE IInv'
    <2>1. CASE processOutbox(a) \/ retrySend(a) \/ Retried(a)
        BY <2>1, ProcessOutboxStep, RetrySendStep, RetriedStep
    <2>2. CASE Publish(a, "retry")
        BY <2>2, PublishStep DEF Goroutine
    <2> QED BY <1>3, <2>1, <2>2 DEF RetryLoop
<1>4. ASSUME NEW a \in Agents, SyncLoop(a) PROVE IInv'
    <2>1. CASE SyncInbox(a) \/ handleMailboxEvent(a)
        BY <2>1, SyncInboxStep, HandleMailboxEventStep
    <2>2. CASE Publish(a, "sync")
        BY <2>2, PublishStep DEF Goroutine
    <2>3. CASE ReceiptSent(a) \/ NextRelay(a) \/ SyncEnd(a)
        BY <2>3, ReceiptSentStep, NextRelayStep, SyncEndStep
    <2> QED BY <1>4, <2>1, <2>2, <2>3 DEF SyncLoop
<1>5. ASSUME NEW a \in Agents, seenEventsCleanup(a) \/ Stop(a) \/ Crash(a) \/ Start(a) PROVE IInv'
    BY <1>5, CleanupStep, StopStep, CrashStep, StartStep
<1>6. CASE UNCHANGED vars
    BY <1>6, StutterStep
<1> QED BY <1>1, <1>2, <1>3, <1>4, <1>5, <1>6 DEF Next

LEMMA Inductive == Spec => []IInv
<1> QED BY InitIInv, NextIInv, PTL DEF Spec

(* The variables of every mailbox keep their types, whatever fails: in     *)
(* particular no entry, in memory or on disk, counts more retries than     *)
(* outboxMaxRetries.                                                       *)
THEOREM TypeCorrect == Spec => []TypeOK
<1>1. IInv => TypeOK
    BY DEF IInv
<1> QED BY <1>1, Inductive, PTL

(* An entry is confirmed (handleDeliveryReceipt) only after the mailbox of *)
(* the destination handed the envelope to its agent, also when the outbox  *)
(* was reloaded or the event was published several times.                  *)
THEOREM ConfirmedWasHanded == Spec => []ConfirmedHanded
<1>1. IInv => ConfirmedHanded
    <2> SUFFICES ASSUME IInv, NEW e \in Envelopes, outbox[e] # None, outbox[e].confirmed
                 PROVE  e \in handed
        BY DEF ConfirmedHanded
    <2>1. TypeOK /\ OutboxOK
        BY DEF IInv, Inv
    <2>2. outbox[e] \in Entry
        BY <2>1, Types DEF OutboxType, MaybeEntry
    <2>3. outbox[e].confirmed \in BOOLEAN
        BY <2>2 DEF Entry
    <2>4. outbox[e].confirmed = TRUE
        BY <2>3
    <2> QED BY <2>1, <2>4 DEF OutboxOK, GoodEntry
<1> QED BY <1>1, Inductive, PTL

(* handleMailboxEvent takes an event once between Start and Stop: the      *)
(* cleanup of seenEvents forgets only what the filter of every sync, the   *)
(* one under way too, leaves out.                                          *)
THEOREM EventsHandledOnce == Spec => []HandledOnce
<1>1. IInv => HandledOnce
    BY DEF IInv, Inv, HandledOK, HandledOnce
<1> QED BY <1>1, Inductive, PTL

(* SendToInbox and retrySend make 1 + outboxMaxRetries attempts at most    *)
(* for an envelope, and outboxMaxRetries more for each restart, whatever   *)
(* the relays do.                                                          *)
THEOREM RetriesAreBounded == Spec => []AttemptsBounded
<1>1. IInv => AttemptsBounded
    <2> SUFFICES ASSUME IInv, NEW e \in Envelopes
                 PROVE  Cardinality(Attempts(e)) <=
                            1 + MaxRetries * (1 + Cardinality(Occurred({"stop", "crash"})))
        BY DEF AttemptsBounded
    <2>1. Tries(e) <= Base + MaxRetries
        BY DEF IInv, Inv, Spent
    <2>2. Restarts \in Nat /\ MaxRetries \in Nat
        BY RestartsType DEF IInv
    <2>3. \A m, r \in Nat : (1 + m * r) + m = 1 + m * (1 + r)
        OBVIOUS
    <2>4. (1 + MaxRetries * Restarts) + MaxRetries = 1 + MaxRetries * (1 + Restarts)
        BY <2>2, <2>3
    <2>5. Tries(e) <= 1 + MaxRetries * (1 + Restarts)
        BY <2>1, <2>4, Zenon DEF Base
    <2> QED BY <2>5, Zenon DEF Tries, Restarts
<1> QED BY <1>1, Inductive, PTL
=============================================================================
