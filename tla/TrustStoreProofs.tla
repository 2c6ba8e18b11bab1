-------------------------- MODULE TrustStoreProofs --------------------------
(***************************************************************************)
(* Proofs about TrustStore for any number of peers, keypairs and exports:  *)
(* types, the refinement of TrustPolicy, and, as long as the tool does not *)
(* run while the agent is up, that the file is always whole and a saved    *)
(* block survives.                                                         *)
(***************************************************************************)
EXTENDS TrustStore, TLAPS

(* One process at a time. *)
Alone == pc["agent"] = "down" \/ pc["tool"] = "down"

(* The store's name never leads to the file being written; what is about   *)
(* to be renamed is complete and holds what its writer had in memory.      *)
FileInv ==
    /\ dir.path # 0 => dir.path # dir.tmp /\ disk[dir.path].key # "torn"
    /\ \A pr \in Procs :
          /\ fd[pr] # 0 => fd[pr] = dir.tmp
          /\ pc[pr] = "rename" => /\ dir.tmp # 0
                                  /\ disk[dir.tmp].key # "torn"
                                  /\ disk[dir.tmp].data = mem[pr]

Blocked(s) == Lookup(s).level = "blocked"

(* A barred peer is blocked in the file and in the memory of whoever runs; *)
(* a peer being revoked is blocked in the tool's.                          *)
BarInv ==
    /\ \A p \in barred : /\ Blocked(FileOf("path").data[p])
                         /\ \A pr \in Procs : pc[pr] # "down" => Blocked(mem[pr][p])
    /\ pc["tool"] # "down" => \A p \in revoking : Blocked(mem["tool"][p])

IInv == TypeOK /\ Alone /\ FileInv /\ BarInv

-----------------------------------------------------------------------------
(* Entries and stores. *)

(* What a map lookup gives is an entry. *)
LEMMA LookupType ==
    ASSUME NEW s \in Slot
    PROVE  Lookup(s) \in Entry
BY MaxTimeAssumption DEF Slot, Lookup, Entry, Levels

(* A present slot is an entry. *)
LEMMA SlotEntry ==
    ASSUME NEW s \in Slot, s # None
    PROVE  s \in Entry
BY DEF Slot

(* SetTrust yields a slot for any level. *)
LEMMA SetTrustType ==
    ASSUME NEW s \in Slot, NEW to \in Levels
    PROVE  SetTrust(s, to) \in Slot
<1>1. Lookup(s) \in Entry
    BY LookupType
<1>2. [level |-> to, wasBlocked |-> Lookup(s).wasBlocked \/ to = "blocked",
       expires |-> Lookup(s).expires] \in Entry
    BY <1>1 DEF Entry
<1> QED
    BY <1>2 DEF SetTrust, Slot

(* TrustOnFirstUse yields a slot at any time the clock shows. *)
LEMMA FirstUseType ==
    ASSUME NEW s \in Slot, NEW t \in 0 .. MaxTime
    PROVE  TrustOnFirstUse(s, t) \in Slot
<1>1. [level |-> "tofu", wasBlocked |-> FALSE, expires |-> t + 1] \in Entry
    BY MaxTimeAssumption DEF Entry, Levels
<1> QED
    BY <1>1 DEF TrustOnFirstUse, Slot

(* Import and CleanExpired yield stores. *)
LEMMA StoreTypes ==
    ASSUME NEW m \in [Peers -> Slot], NEW d \in [Peers -> Slot], NEW t
    PROVE  Import(m, d) \in [Peers -> Slot] /\ CleanExpired(m, t) \in [Peers -> Slot]
BY DEF Import, CleanExpired, Slot

LEMMA EmptyType == Empty \in [Peers -> Slot]
BY DEF Empty, Slot

(* A file that is read as a store holds one. *)
LEMMA FileType ==
    ASSUME TypeOK, NEW name \in {"path", "tmp"}
    PROVE  FileOf(name) \in Content
<1>1. CASE dir[name] = 0
    <2>1. [key |-> "plain", data |-> Empty] \in Content
        BY EmptyType DEF Content
    <2> QED BY <1>1, <2>1 DEF FileOf
<1>2. CASE dir[name] # 0
    <2>1. dir[name] \in Inodes
        BY <1>2 DEF TypeOK, Inodes
    <2> QED BY <1>2, <2>1 DEF FileOf, TypeOK
<1> QED BY <1>1, <1>2

(* There is always a free inode: two names, of which tmp is absent, and    *)
(* two open files.                                                         *)
LEMMA FreeInode ==
    ASSUME TypeOK
    PROVE  \E n \in Inodes : n \notin {dir.path, fd["agent"], fd["tool"]}
<1>1. dir.path \in 0 .. 4 /\ fd["agent"] \in 0 .. 4 /\ fd["tool"] \in 0 .. 4
    BY DEF TypeOK, Procs
<1>2. \A x, y, z \in 0 .. 4 : \E n \in 1 .. 4 : n # x /\ n # y /\ n # z
    OBVIOUS
<1> QED
    BY <1>1, <1>2 DEF Inodes

-----------------------------------------------------------------------------
(* Types, one step for each action. *)

LEMMA InitType == Init => TypeOK
<1> SUFFICES ASSUME Init PROVE TypeOK
    OBVIOUS
<1>1. Torn \in Content
    BY EmptyType DEF Torn, Content
<1> QED
    BY <1>1, EmptyType, MaxTimeAssumption DEF Init, TypeOK, Procs, Inodes

(* The file steps keep the types. *)
LEMMA SaveType ==
    ASSUME TypeOK, NEW pr \in Procs, OpenTmp(pr) \/ WriteTmp(pr) \/ Rename(pr) \/ Crash(pr)
    PROVE  TypeOK'
<1>0. Torn \in Content
    BY EmptyType DEF Torn, Content
<1>1. CASE OpenTmp(pr)
    <2>1. PICK i \in Inodes : /\ dir' = [dir EXCEPT !.tmp = i]
                              /\ disk' = [disk EXCEPT ![i] = Torn]
                              /\ fd' = [fd EXCEPT ![pr] = i]
        <3>1. CASE dir.tmp # 0
            <4>1. dir.tmp \in Inodes
                BY <3>1 DEF TypeOK, Inodes
            <4>2. /\ dir' = [dir EXCEPT !.tmp = dir.tmp]
                  /\ disk' = [disk EXCEPT ![dir.tmp] = Torn]
                  /\ fd' = [fd EXCEPT ![pr] = dir.tmp]
                BY <1>1, <3>1 DEF OpenTmp
            <4> QED BY <4>1, <4>2
        <3>2. CASE dir.tmp = 0
            <4> DEFINE i == CHOOSE n \in Inodes : n \notin {dir.path, fd["agent"], fd["tool"]}
            <4>1. i \in Inodes
                BY FreeInode
            <4>2. /\ dir' = [dir EXCEPT !.tmp = i]
                  /\ disk' = [disk EXCEPT ![i] = Torn]
                  /\ fd' = [fd EXCEPT ![pr] = i]
                BY <1>1, <3>2 DEF OpenTmp
            <4> HIDE DEF i
            <4> QED BY <4>1, <4>2
        <3> QED BY <3>1, <3>2
    <2>2. dir' \in [path : 0 .. 4, tmp : 0 .. 4] /\ disk' \in [Inodes -> Content]
          /\ fd' \in [Procs -> 0 .. 4]
        BY <1>0, <2>1 DEF TypeOK, Inodes
    <2>3. \A q \in Procs : pc'[q] = "write" <=> fd'[q] # 0
        <3>1. pc' = [pc EXCEPT ![pr] = "write"]
            BY <1>1 DEF OpenTmp
        <3> QED BY <2>1, <3>1 DEF TypeOK, Inodes
    <2>4. /\ pc' \in [Procs -> {"down", "new", "up", "save", "write", "rename"}]
          /\ pc'["tool"] \notin {"new", "up"}
          /\ \A q \in Procs : pc'[q] = "down" => mem'[q] = Empty
        BY <1>1 DEF OpenTmp, TypeOK, Procs
    <2> QED BY <1>1, <2>2, <2>3, <2>4 DEF OpenTmp, TypeOK
<1>2. CASE WriteTmp(pr)
    <2>1. fd[pr] \in Inodes
        BY <1>2 DEF WriteTmp, TypeOK, Inodes
    <2>2. mem[pr] \in [Peers -> Slot]
        BY DEF TypeOK
    <2>3. /\ [key |-> StoreKey(self), data |-> mem[pr]] \in Content
          /\ [key |-> "plain", data |-> mem[pr]] \in Content
        BY <2>2 DEF TypeOK, Content, StoreKey
    <2>4. disk' \in [Inodes -> Content]
        BY <1>2, <2>1, <2>3 DEF WriteTmp, TypeOK
    <2> QED BY <1>2, <2>4 DEF WriteTmp, TypeOK
<1>3. CASE Rename(pr)
    <2>1. disk' \in [Inodes -> Content]
        BY <1>0, <1>3 DEF Rename, TypeOK, Inodes
    <2>2. dir' \in [path : 0 .. 4, tmp : 0 .. 4]
        BY <1>3 DEF Rename, TypeOK
    <2>3. barred' \subseteq Peers /\ revoking' \subseteq Peers
        BY <1>3 DEF Rename, TypeOK
    <2>4. mem' \in [Procs -> [Peers -> Slot]]
        BY <1>3, EmptyType DEF Rename, TypeOK
    <2> QED BY <1>3, <2>1, <2>2, <2>3, <2>4 DEF Rename, TypeOK
<1>4. CASE Crash(pr)
    <2>1. mem' \in [Procs -> [Peers -> Slot]]
        BY <1>4, EmptyType DEF Crash, TypeOK
    <2>2. revoking' \subseteq Peers
        BY <1>4 DEF Crash, TypeOK
    <2> QED BY <1>4, <2>1, <2>2 DEF Crash, TypeOK
<1> QED BY <1>1, <1>2, <1>3, <1>4

(* Changing one entry, or all, in a running agent keeps the types. *)
LEMMA EditType ==
    ASSUME TypeOK, NEW p \in Peers, NEW s \in Slot, Edit(p, s), barred' \subseteq Peers
    PROVE  TypeOK'
<1>1. mem' \in [Procs -> [Peers -> Slot]]
    BY DEF Edit, TypeOK, Procs
<1>2. mem'["tool"] = mem["tool"]
    BY DEF Edit, TypeOK, Procs
<1> QED BY <1>1, <1>2 DEF Edit, TypeOK, Procs

LEMMA EditAllType ==
    ASSUME TypeOK, NEW m \in [Peers -> Slot], EditAll(m)
    PROVE  TypeOK'
<1>1. mem' \in [Procs -> [Peers -> Slot]]
    BY DEF EditAll, TypeOK, Procs
<1>2. mem'["tool"] = mem["tool"]
    BY DEF EditAll, TypeOK, Procs
<1> QED BY <1>1, <1>2 DEF EditAll, TypeOK, Procs

LEMMA NewType ==
    ASSUME TypeOK, NEW id \in Identities, New(id)
    PROVE  TypeOK'
<1>1. FileOf("path").data \in [Peers -> Slot]
    BY FileType DEF Content
<1>2. mem' \in [Procs -> [Peers -> Slot]] /\ mem'["tool"] = mem["tool"]
    BY <1>1 DEF New, TypeOK, Procs
<1> QED BY <1>2 DEF New, MayRun, TypeOK, Procs

LEMMA ToolType ==
    ASSUME TypeOK, NEW m \in [Peers -> Slot], NEW rev \in SUBSET Peers, ToolRuns(m, rev)
    PROVE  TypeOK'
<1>1. mem' \in [Procs -> [Peers -> Slot]] /\ mem'["agent"] = mem["agent"]
    BY DEF ToolRuns, TypeOK, Procs
<1> QED BY <1>1 DEF ToolRuns, MayRun, TypeOK, Procs

LEMMA TypeStep == TypeOK /\ [Next]_vars => TypeOK'
<1> SUFFICES ASSUME TypeOK, [Next]_vars PROVE TypeOK'
    OBVIOUS
<1>0. /\ \A p \in Peers : mem["agent"][p] \in Slot
      /\ mem["agent"] \in [Peers -> Slot]
      /\ FileOf("path").data \in [Peers -> Slot]
    BY FileType DEF TypeOK, Procs, Content
<1>1. CASE (\E id \in Identities : New(id)) \/ Start
    <2>1. CASE Start
        BY <2>1 DEF Start, TypeOK, Procs
    <2> QED BY <1>1, <2>1, NewType
<1>2. ASSUME NEW p \in Peers, NEW to \in Decisions, OwnerSets(p, to) PROVE TypeOK'
    BY <1>0, <1>2, SetTrustType, EditType DEF OwnerSets, Decisions, TypeOK
<1>3. ASSUME NEW p \in Peers, SyncContact(p) \/ OnContactAdded(p) PROVE TypeOK'
    BY <1>0, <1>3, SetTrustType, EditType DEF SyncContact, OnContactAdded, Levels, TypeOK
<1>4. ASSUME NEW p \in Peers, FirstUse(p) PROVE TypeOK'
    BY <1>0, <1>4, FirstUseType, EditType DEF FirstUse, TypeOK
<1>5. ASSUME NEW p \in Peers, RemoveContact(p) PROVE TypeOK'
    BY <1>5, EditType DEF RemoveContact, Slot, TypeOK
<1>6. CASE CleanUp
    BY <1>0, <1>6, StoreTypes, EditAllType DEF CleanUp
<1>7. ASSUME NEW d \in Exports, ImportStore(d) PROVE TypeOK'
    BY <1>0, <1>7, StoreTypes, EditAllType, ExportsAssumption DEF ImportStore
<1>8. CASE Stop
    BY <1>8 DEF Stop, TypeOK, Procs
<1>9. ASSUME NEW p \in Peers, NEW to \in {"verified", "pinned", "blocked"}, ToolSets(p, to)
      PROVE  TypeOK'
    <2> DEFINE m == FileOf("path").data
    <2>1. SetTrust(m[p], to) \in Slot
        BY <1>0, SetTrustType DEF Levels
    <2>2. [m EXCEPT ![p] = SetTrust(@, to)] \in [Peers -> Slot]
        BY <1>0, <2>1
    <2> QED BY <1>9, <2>2, ToolType DEF ToolSets
<1>10. ASSUME NEW d \in Exports, ToolImports(d) PROVE TypeOK'
    <2>1. Import(FileOf("path").data, d) \in [Peers -> Slot]
        BY <1>0, StoreTypes, ExportsAssumption
    <2> QED BY <1>10, <2>1, ToolType DEF ToolImports
<1>11. CASE \E pr \in Procs : OpenTmp(pr) \/ WriteTmp(pr) \/ Rename(pr) \/ Crash(pr)
    BY <1>11, SaveType
<1>12. CASE Tick
    BY <1>12, MaxTimeAssumption DEF Tick, TypeOK
<1>13. CASE UNCHANGED vars
    BY <1>13 DEF vars, TypeOK
<1> QED
    BY <1>1, <1>2, <1>3, <1>4, <1>5, <1>6, <1>7, <1>8, <1>9, <1>10, <1>11, <1>12, <1>13
       DEF Next, AgentNext, ToolNext

(* Both processes' memories, the directory and every file keep their type. *)
THEOREM TypeCorrect == Spec => []TypeOK
BY InitType, TypeStep, PTL DEF Spec

-----------------------------------------------------------------------------
(* The store implements TrustPolicy: each step is a step of the policy or  *)
(* leaves the agent's view alone.                                          *)

(* The refinement mapping. *)
LevelOf == [p \in Peers |-> Check(mem["agent"][p], now)]
WaryOf == [p \in Peers |-> Lookup(mem["agent"][p]).wasBlocked]

LEMMA MapType ==
    ASSUME TypeOK
    PROVE  LevelOf \in [Peers -> Levels] /\ WaryOf \in [Peers -> BOOLEAN]
<1>1. \A p \in Peers : Lookup(mem["agent"][p]) \in Entry
    BY LookupType DEF TypeOK, Procs
<1> QED BY <1>1 DEF LevelOf, WaryOf, Check, Entry, Levels

(* A step that leaves the agent's memory and the clock alone is a stutter. *)
LEMMA ViewKept ==
    ASSUME mem'["agent"] = mem["agent"], now' = now
    PROVE  UNCHANGED <<LevelOf, WaryOf>>
BY DEF LevelOf, WaryOf

(* Editing one entry changes the view of that peer only. *)
LEMMA EditView ==
    ASSUME TypeOK, NEW p \in Peers, NEW s \in Slot, Edit(p, s)
    PROVE  /\ LevelOf' = [LevelOf EXCEPT ![p] = Check(s, now)]
           /\ WaryOf' = [WaryOf EXCEPT ![p] = Lookup(s).wasBlocked]
<1>1. now' = now /\ mem'["agent"] = [mem["agent"] EXCEPT ![p] = s]
    BY DEF Edit, TypeOK, Procs
<1>2. mem["agent"] \in [Peers -> Slot]
    BY DEF TypeOK, Procs
<1> QED BY <1>1, <1>2 DEF LevelOf, WaryOf

(* SetTrust is a decision the policy admits, or changes nothing.  An entry *)
(* that has expired counts as unknown, from where every decision is free.  *)
LEMMA SetTrustView ==
    ASSUME TypeOK, NEW p \in Peers, NEW to \in Decisions,
           Edit(p, SetTrust(mem["agent"][p], to))
    PROVE  Policy!Declare(p, to) \/ UNCHANGED <<LevelOf, WaryOf>>
<1> DEFINE s == mem["agent"][p]
<1>1. s \in Slot /\ SetTrust(s, to) \in Slot /\ Lookup(s) \in Entry
    BY SetTrustType, LookupType DEF TypeOK, Procs, Decisions
<1>2. /\ LevelOf' = [LevelOf EXCEPT ![p] = Check(SetTrust(s, to), now)]
      /\ WaryOf' = [WaryOf EXCEPT ![p] = Lookup(SetTrust(s, to)).wasBlocked]
    BY <1>1, EditView
<1>3. LevelOf[p] = Check(s, now) /\ WaryOf[p] = Lookup(s).wasBlocked
    BY DEF LevelOf, WaryOf
<1>4. CASE ValidTrustTransition(Lookup(s).level, to)
    <2>1. SetTrust(s, to) = [level |-> to, wasBlocked |-> Lookup(s).wasBlocked \/ to = "blocked",
                             expires |-> Lookup(s).expires]
        BY <1>4 DEF SetTrust
    <2>2. SetTrust(s, to) # None
        <3>1. SetTrust(s, to).level = to
            BY <2>1
        <3>2. None.level = "none"
            BY DEF None
        <3> QED BY <3>1, <3>2 DEF Decisions, Levels
    <2>3. Check(SetTrust(s, to), now) = to
        BY <2>1, <2>2 DEF Check, Expired, Lookup, Decisions
    <2>4. Lookup(SetTrust(s, to)).wasBlocked = (Lookup(s).wasBlocked \/ to = "blocked")
        <3> DEFINE b == Lookup(s).wasBlocked \/ to = "blocked"
        <3>1. Lookup(SetTrust(s, to)) = SetTrust(s, to)
            BY <2>2 DEF Lookup
        <3>2. SetTrust(s, to) = [level |-> to, wasBlocked |-> b, expires |-> Lookup(s).expires]
            BY <2>1
        <3> HIDE DEF b
        <3>3. SetTrust(s, to).wasBlocked = b
            BY <3>2
        <3> QED BY <3>1, <3>3 DEF b
    <2>5. Policy!ValidTrustTransition(LevelOf[p], to)
        <3>1. CASE Expired(s, now)
            BY <1>3, <3>1 DEF Check, Policy!ValidTrustTransition
        <3>2. CASE ~Expired(s, now)
            BY <1>3, <1>4, <3>2 DEF Check, ValidTrustTransition, Policy!ValidTrustTransition
        <3> QED BY <3>1, <3>2
    <2>6. LevelOf' = [LevelOf EXCEPT ![p] = to]
          /\ WaryOf' = [WaryOf EXCEPT ![p] = @ \/ to = "blocked"]
        BY <1>2, <1>3, <2>3, <2>4
    <2> QED BY <2>5, <2>6 DEF Policy!Declare, LevelOf, WaryOf, Decisions
<1>5. CASE ~ValidTrustTransition(Lookup(s).level, to)
    <2>1. SetTrust(s, to) = s
        BY <1>5 DEF SetTrust
    <2>2. LevelOf' = LevelOf /\ WaryOf' = WaryOf
        BY <1>2, <1>3, <2>1, MapType
    <2> QED BY <2>2
<1> QED BY <1>4, <1>5

(* A first contact admits a peer without an entry and changes no other. *)
LEMMA FirstUseView ==
    ASSUME TypeOK, NEW p \in Peers, Edit(p, TrustOnFirstUse(mem["agent"][p], now))
    PROVE  Policy!Meet(p) \/ UNCHANGED <<LevelOf, WaryOf>>
<1> DEFINE s == mem["agent"][p]
           u == TrustOnFirstUse(s, now)
<1>1. s \in Slot /\ u \in Slot
    BY FirstUseType DEF TypeOK, Procs
<1>2. /\ LevelOf' = [LevelOf EXCEPT ![p] = Check(u, now)]
      /\ WaryOf' = [WaryOf EXCEPT ![p] = Lookup(u).wasBlocked]
    BY <1>1, EditView
<1>3. LevelOf[p] = Check(s, now) /\ WaryOf[p] = Lookup(s).wasBlocked
    BY DEF LevelOf, WaryOf
<1>4. CASE s = None
    <2>1. u = [level |-> "tofu", wasBlocked |-> FALSE, expires |-> now + 1]
        BY <1>4 DEF TrustOnFirstUse
    <2>2. u # None
        <3>1. u.level = "tofu" /\ None.level = "none"
            BY <2>1 DEF None
        <3> QED BY <3>1
    <2>3. Check(u, now) = "tofu"
        <3>1. ~(now > now + 1)
            BY DEF TypeOK
        <3> QED BY <2>1, <2>2, <3>1 DEF Check, Expired, Lookup
    <2>4. Lookup(u).wasBlocked = FALSE
        BY <2>1, <2>2 DEF Lookup
    <2>5. LevelOf[p] = "unknown" /\ WaryOf[p] = FALSE
        BY <1>3, <1>4 DEF Check, Expired, Lookup
    <2>6. LevelOf' = [LevelOf EXCEPT ![p] = "tofu"] /\ WaryOf' = WaryOf
        BY <1>2, <2>3, <2>4, <2>5, MapType
    <2> QED BY <2>5, <2>6 DEF Policy!Meet, LevelOf, WaryOf
<1>5. CASE s # None
    <2>1. u = s
        BY <1>5 DEF TrustOnFirstUse
    <2>2. LevelOf' = LevelOf /\ WaryOf' = WaryOf
        BY <1>2, <1>3, <2>1, MapType
    <2> QED BY <2>2
<1> QED BY <1>4, <1>5

(* Dropping entries is forgetting. *)
LEMMA DropView ==
    ASSUME TypeOK, NEW S \in SUBSET Peers, now' = now,
           mem'["agent"] = [p \in Peers |-> IF p \in S THEN None ELSE mem["agent"][p]]
    PROVE  Policy!Forget(S)
<1>1. /\ LevelOf' = [p \in Peers |-> IF p \in S THEN "unknown" ELSE LevelOf[p]]
      /\ WaryOf' = [p \in Peers |-> p \notin S /\ WaryOf[p]]
    <2>1. Check(None, now) = "unknown" /\ Lookup(None).wasBlocked = FALSE
        BY DEF Check, Expired, Lookup
    <2> QED BY <2>1, MapType DEF LevelOf, WaryOf
<1> QED BY <1>1 DEF Policy!Forget, LevelOf, WaryOf

(* Filling slots that are empty is adopting. *)
LEMMA FillView ==
    ASSUME TypeOK, TypeOK', now' = now, NEW S \in SUBSET Peers,
           \A p \in S : mem["agent"][p] = None,
           \A p \in Peers \ S : mem'["agent"][p] = mem["agent"][p]
    PROVE  Policy!Adopt(S)
<1>1. LevelOf' \in [Peers -> Levels] /\ WaryOf' \in [Peers -> BOOLEAN]
    <2>1. \A p \in Peers : Lookup(mem'["agent"][p]) \in Entry
        BY LookupType DEF TypeOK, Procs
    <2> QED BY <2>1 DEF LevelOf, WaryOf, Check, Entry, Levels
<1>2. \A p \in S : LevelOf[p] = "unknown" /\ ~WaryOf[p]
    BY DEF LevelOf, WaryOf, Check, Expired, Lookup
<1>3. \A p \in Peers \ S : LevelOf'[p] = LevelOf[p] /\ WaryOf'[p] = WaryOf[p]
    BY DEF LevelOf, WaryOf
<1> QED BY <1>1, <1>2, <1>3 DEF Policy!Adopt, LevelOf, WaryOf, Policy!Levels, Levels

(* Time passing lets trust on first use lapse and nothing else. *)
LEMMA TickView ==
    ASSUME TypeOK, Tick
    PROVE  \E S \in SUBSET Peers : Policy!Lapse(S)
<1> DEFINE S == {p \in Peers : LevelOf[p] = "tofu" /\ Expired(mem["agent"][p], now')}
<1>1. now \in Nat /\ now' = now + 1 /\ mem' = mem
    BY DEF Tick, TypeOK
<1>2. \A p \in Peers : mem["agent"][p] # None => mem["agent"][p].expires \in Nat
    BY SlotEntry, MaxTimeAssumption DEF TypeOK, Procs, Entry
<1>3. \A p \in Peers : LevelOf'[p] = IF p \in S THEN "unknown" ELSE LevelOf[p]
    BY <1>1, <1>2 DEF LevelOf, Check, Expired, Lookup
<1>4. WaryOf' = WaryOf
    BY <1>1 DEF WaryOf
<1>5. LevelOf' = [p \in Peers |-> IF p \in S THEN "unknown" ELSE LevelOf[p]]
    BY <1>3 DEF LevelOf
<1>6. Policy!Lapse(S)
    BY <1>4, <1>5 DEF Policy!Lapse, LevelOf, WaryOf
<1> QED BY <1>6

LEMMA PolicyStep ==
    ASSUME TypeOK, TypeOK', [Next]_vars
    PROVE  Policy!Next \/ UNCHANGED <<LevelOf, WaryOf>>
<1>0. mem["agent"] \in [Peers -> Slot] /\ mem'["agent"] \in [Peers -> Slot]
    BY DEF TypeOK, Procs
<1>1. ASSUME NEW id \in Identities, New(id)
      PROVE  Policy!Adopt(Peers)
    <2>1. mem["agent"] = Empty /\ now' = now
        BY <1>1 DEF New, MayRun, TypeOK, Procs
    <2> QED BY <2>1, FillView DEF Empty
<1>2. ASSUME NEW p \in Peers, NEW to \in Decisions, OwnerSets(p, to)
      PROVE  Policy!Declare(p, to) \/ UNCHANGED <<LevelOf, WaryOf>>
    BY <1>2, SetTrustView DEF OwnerSets
<1>3. ASSUME NEW p \in Peers, SyncContact(p) \/ OnContactAdded(p)
      PROVE  Policy!Declare(p, "verified") \/ UNCHANGED <<LevelOf, WaryOf>>
    BY <1>3, SetTrustView DEF SyncContact, OnContactAdded, Decisions, Levels
<1>4. ASSUME NEW p \in Peers, FirstUse(p)
      PROVE  Policy!Meet(p) \/ UNCHANGED <<LevelOf, WaryOf>>
    BY <1>4, FirstUseView DEF FirstUse
<1>5. ASSUME NEW p \in Peers, RemoveContact(p)
      PROVE  Policy!Forget({p})
    <2>1. now' = now /\ mem'["agent"] = [mem["agent"] EXCEPT ![p] = None]
        BY <1>5 DEF RemoveContact, Edit, TypeOK, Procs
    <2>2. mem'["agent"] = [q \in Peers |-> IF q \in {p} THEN None ELSE mem["agent"][q]]
        BY <1>0, <2>1
    <2> QED BY <2>1, <2>2, DropView
<1>6. ASSUME CleanUp
      PROVE  \E S \in SUBSET Peers : Policy!Forget(S)
    <2> DEFINE S == {p \in Peers : Expired(mem["agent"][p], now)}
    <2>1. now' = now /\ mem'["agent"] = CleanExpired(mem["agent"], now)
        BY <1>6 DEF CleanUp, EditAll, TypeOK, Procs
    <2>2. mem'["agent"] = [p \in Peers |-> IF p \in S THEN None ELSE mem["agent"][p]]
        BY <2>1 DEF CleanExpired
    <2>3. Policy!Forget(S)
        BY <2>1, <2>2, DropView
    <2> QED BY <2>3
<1>7. ASSUME NEW d \in Exports, ImportStore(d)
      PROVE  \E S \in SUBSET Peers : Policy!Adopt(S)
    <2> DEFINE S == {p \in Peers : mem["agent"][p] = None}
    <2>1. now' = now /\ mem'["agent"] = Import(mem["agent"], d)
        BY <1>7 DEF ImportStore, EditAll, TypeOK, Procs
    <2>2. \A p \in Peers \ S : mem'["agent"][p] = mem["agent"][p]
        BY <2>1 DEF Import
    <2>3. Policy!Adopt(S)
        BY <2>1, <2>2, FillView
    <2> QED BY <2>3
<1>8. ASSUME NEW pr \in Procs, Rename(pr) \/ Crash(pr)
      PROVE  Policy!Forget(Peers) \/ UNCHANGED <<LevelOf, WaryOf>>
    <2>1. now' = now /\ mem' = [mem EXCEPT ![pr] = Empty]
        BY <1>8 DEF Rename, Crash
    <2>2. CASE pr = "agent"
        <3>1. mem'["agent"] = [p \in Peers |-> IF p \in Peers THEN None ELSE mem["agent"][p]]
            BY <2>1, <2>2 DEF TypeOK, Procs, Empty
        <3> QED BY <2>1, <3>1, DropView
    <2>3. CASE pr = "tool"
        BY <2>1, <2>3, ViewKept DEF TypeOK, Procs
    <2> QED BY <2>2, <2>3 DEF Procs
<1>9. ASSUME ToolNext \/ Start \/ Stop \/ (\E pr \in Procs : OpenTmp(pr) \/ WriteTmp(pr)) \/ UNCHANGED vars
      PROVE  UNCHANGED <<LevelOf, WaryOf>>
    <2>1. CASE ToolNext
        <3>1. \E m, rev : ToolRuns(m, rev)
            BY <2>1 DEF ToolNext, ToolSets, ToolImports
        <3>2. mem'["agent"] = mem["agent"] /\ now' = now
            BY <3>1 DEF ToolRuns, TypeOK, Procs
        <3> QED BY <3>2, ViewKept
    <2>2. CASE ~ToolNext
        <3>1. mem' = mem /\ now' = now
            BY <1>9, <2>2 DEF Start, Stop, OpenTmp, WriteTmp, vars
        <3> QED BY <3>1, ViewKept
    <2> QED BY <2>1, <2>2
<1>10. ASSUME Tick
       PROVE  \E S \in SUBSET Peers : Policy!Lapse(S)
    BY <1>10, TickView
<1>11. Decisions \subseteq Policy!Levels /\ "verified" \in Policy!Levels
    BY DEF Decisions, Levels, Policy!Levels
<1> QED
    BY <1>1, <1>2, <1>3, <1>4, <1>5, <1>6, <1>7, <1>8, <1>9, <1>10, <1>11
       DEF Next, AgentNext, Policy!Next

LEMMA PolicyInit == Init => Policy!Init
BY DEF Init, Policy!Init, Procs, Empty, Check, Expired, Lookup

(* The trust store implements the policy: whatever the contact calls, the  *)
(* server's notifications, imports, expiry, the tool, crashes and restarts *)
(* do, the levels the agent acts on move only as TrustPolicy allows.       *)
THEOREM StoreImplementsPolicy == Spec => PolicyKept
<1>1. TypeOK /\ TypeOK' /\ [Next]_vars => [Policy!Next]_<<LevelOf, WaryOf>>
    BY PolicyStep
<1> QED
    BY <1>1, PolicyInit, TypeCorrect, PTL DEF Spec, PolicyKept, Policy!Spec, LevelOf, WaryOf

-----------------------------------------------------------------------------
(* The file, while one process runs at a time. *)

(* Steps that touch neither the directory nor a file. *)
Files == <<dir, disk, fd>>

LEMMA AloneStep ==
    ASSUME ~Overlap, TypeOK, Alone, [Next]_vars
    PROVE  Alone'
<1>1. ASSUME (\E id \in Identities : New(id)) \/ Start PROVE Alone'
    BY <1>1 DEF New, Start, MayRun, Other, Alone, TypeOK, Procs
<1>2. CASE ToolNext
    <2>1. \E m, rev : ToolRuns(m, rev)
        BY <1>2 DEF ToolNext, ToolSets, ToolImports
    <2> QED BY <2>1 DEF ToolRuns, MayRun, Other, Alone, TypeOK, Procs
<1>3. ASSUME NEW pr \in Procs, OpenTmp(pr) \/ WriteTmp(pr) \/ Rename(pr) \/ Crash(pr)
      PROVE  Alone'
    BY <1>3 DEF OpenTmp, WriteTmp, Rename, Crash, Alone, TypeOK, Procs
<1>4. CASE Stop
    BY <1>4 DEF Stop, Alone, TypeOK, Procs
<1>5. ASSUME UNCHANGED pc PROVE Alone'
    BY <1>5 DEF Alone
<1> QED
    BY <1>1, <1>2, <1>3, <1>4, <1>5
       DEF Next, AgentNext, OwnerSets, SyncContact, OnContactAdded, FirstUse, RemoveContact, Edit,
           CleanUp, ImportStore, EditAll, Tick, vars

(* path.tmp is created or truncated away from the store's own file. *)
LEMMA OpenedAside ==
    ASSUME TypeOK, FileInv, NEW pr \in Procs, OpenTmp(pr)
    PROVE  \E i \in Inodes : /\ i # dir.path
                             /\ dir' = [dir EXCEPT !.tmp = i]
                             /\ disk' = [disk EXCEPT ![i] = Torn]
                             /\ fd' = [fd EXCEPT ![pr] = i]
<1>1. CASE dir.tmp # 0
    <2>1. dir.tmp \in Inodes /\ dir.tmp # dir.path
        BY <1>1 DEF TypeOK, Inodes, FileInv
    <2>2. /\ dir' = [dir EXCEPT !.tmp = dir.tmp]
          /\ disk' = [disk EXCEPT ![dir.tmp] = Torn]
          /\ fd' = [fd EXCEPT ![pr] = dir.tmp]
        BY <1>1 DEF OpenTmp
    <2> QED BY <2>1, <2>2
<1>2. CASE dir.tmp = 0
    <2> DEFINE i == CHOOSE n \in Inodes : n \notin {dir.path, fd["agent"], fd["tool"]}
    <2>1. i \in Inodes /\ i \notin {dir.path, fd["agent"], fd["tool"]}
        BY FreeInode
    <2>2. /\ dir' = [dir EXCEPT !.tmp = i]
          /\ disk' = [disk EXCEPT ![i] = Torn]
          /\ fd' = [fd EXCEPT ![pr] = i]
        BY <1>2 DEF OpenTmp
    <2> HIDE DEF i
    <2> QED BY <2>1, <2>2
<1> QED BY <1>1, <1>2

(* SaveToFile keeps the store's name on a whole file. *)
LEMMA FileStep ==
    ASSUME TypeOK, Alone, FileInv, [Next]_vars
    PROVE  FileInv'
<1>1. ASSUME UNCHANGED Files, \A pr \in Procs : pc'[pr] # "rename"
      PROVE  FileInv'
    BY <1>1 DEF Files, FileInv
<1>2. ASSUME NEW pr \in Procs, OpenTmp(pr) PROVE FileInv'
    <2>1. PICK i \in Inodes : /\ i # dir.path
                              /\ dir' = [dir EXCEPT !.tmp = i]
                              /\ disk' = [disk EXCEPT ![i] = Torn]
                              /\ fd' = [fd EXCEPT ![pr] = i]
        BY <1>2, OpenedAside
    <2>2. \A q \in Procs : q # pr => fd[q] = 0 /\ pc'[q] # "rename"
        BY <1>2 DEF OpenTmp, Alone, TypeOK, Procs
    <2>3. pc'[pr] = "write"
        BY <1>2 DEF OpenTmp, TypeOK
    <2> QED BY <2>1, <2>2, <2>3 DEF FileInv, TypeOK, Inodes
<1>3. ASSUME NEW pr \in Procs, WriteTmp(pr) PROVE FileInv'
    <2>1. fd[pr] = dir.tmp /\ dir.tmp \in Inodes /\ dir.tmp # 0
        BY <1>3 DEF WriteTmp, FileInv, TypeOK, Inodes
    <2>2. \A q \in Procs : q # pr => pc[q] = "down" /\ fd[q] = 0
        BY <1>3 DEF WriteTmp, Alone, TypeOK, Procs
    <2>3. PICK k : /\ k # "torn"
                   /\ disk' = [disk EXCEPT ![dir.tmp] = [key |-> k, data |-> mem[pr]]]
        BY <1>3, <2>1 DEF WriteTmp, StoreKey
    <2>4. /\ disk'[dir.tmp].key # "torn" /\ disk'[dir.tmp].data = mem[pr]
          /\ dir.path # 0 => disk'[dir.path] = disk[dir.path]
        BY <2>1, <2>3 DEF TypeOK, FileInv
    <2>5. dir' = dir /\ mem' = mem /\ fd' = [fd EXCEPT ![pr] = 0] /\ pc' = [pc EXCEPT ![pr] = "rename"]
        BY <1>3 DEF WriteTmp
    <2> QED BY <2>1, <2>2, <2>4, <2>5 DEF FileInv, TypeOK
<1>4. ASSUME NEW pr \in Procs, Rename(pr) PROVE FileInv'
    <2>1. dir.tmp # 0 /\ disk[dir.tmp].key # "torn"
        BY <1>4 DEF Rename, FileInv
    <2>2. dir' = [path |-> dir.tmp, tmp |-> 0]
        BY <1>4, <2>1 DEF Rename
    <2>3. disk'[dir.tmp] = disk[dir.tmp]
        BY <1>4, <2>1 DEF Rename, FileInv, TypeOK, Inodes
    <2>4. \A q \in Procs : fd'[q] = 0 /\ pc'[q] # "rename"
        BY <1>4 DEF Rename, Alone, TypeOK, Procs
    <2> QED BY <2>1, <2>2, <2>3, <2>4 DEF FileInv
<1>5. ASSUME NEW pr \in Procs, Crash(pr) PROVE FileInv'
    <2>1. \A q \in Procs : fd'[q] = 0 /\ pc'[q] # "rename"
        BY <1>5 DEF Crash, Alone, TypeOK, Procs
    <2> QED BY <1>5, <2>1 DEF Crash, FileInv
<1>6. CASE AgentNext
    <2>1. UNCHANGED Files
        BY <1>6 DEF AgentNext, New, Start, OwnerSets, SyncContact, OnContactAdded, FirstUse,
                    RemoveContact, Edit, CleanUp, ImportStore, EditAll, Stop, Files
    <2>2. \/ /\ pc["agent"] \in {"new", "up"}
             /\ UNCHANGED pc \/ \E w \in {"up", "save"} : pc' = [pc EXCEPT !["agent"] = w]
          \/ /\ pc["agent"] = "down" /\ pc' = [pc EXCEPT !["agent"] = "new"]
             /\ mem'["tool"] = mem["tool"]
        BY <1>6 DEF AgentNext, New, Start, MayRun, OwnerSets, SyncContact, OnContactAdded, FirstUse,
                    RemoveContact, Edit, CleanUp, ImportStore, EditAll, Stop, TypeOK, Procs
    <2>3. CASE pc["agent"] \in {"new", "up"}
        <3>1. \A pr \in Procs : pc'[pr] # "rename"
            BY <2>2, <2>3 DEF Alone, TypeOK, Procs
        <3> QED BY <1>1, <2>1, <3>1
    <2>4. CASE pc["agent"] = "down"
        BY <2>1, <2>2, <2>4 DEF FileInv, Files, TypeOK, Procs
    <2> QED BY <2>2, <2>3, <2>4
<1>7. CASE ToolNext
    <2>1. PICK m, rev : ToolRuns(m, rev)
        BY <1>7 DEF ToolNext, ToolSets, ToolImports
    <2>2. UNCHANGED Files /\ pc' = [pc EXCEPT !["tool"] = "save"] /\ mem'["agent"] = mem["agent"]
        BY <2>1 DEF ToolRuns, Files, TypeOK, Procs
    <2> QED BY <2>2 DEF FileInv, Files, TypeOK, Procs
<1>8. CASE Tick \/ UNCHANGED vars
    BY <1>8 DEF Tick, vars, FileInv
<1> QED BY <1>2, <1>3, <1>4, <1>5, <1>6, <1>7, <1>8 DEF Next

-----------------------------------------------------------------------------
(* Blocks. *)

(* A blocked entry stays blocked under everything but a release. *)
LEMMA BlockedStays ==
    ASSUME NEW s \in Slot, Blocked(s), NEW t
    PROVE  /\ \A to \in Levels \ {"unknown"} : Blocked(SetTrust(s, to))
           /\ TrustOnFirstUse(s, t) = s
           /\ ~Expired(s, t)
           /\ Check(s, t) = "blocked"
           /\ ~IsAllowed(s, t)
<1>1. s # None /\ s.level = "blocked"
    BY DEF Blocked, Lookup
<1>2. ~Expired(s, t)
    BY <1>1 DEF Expired
<1>3. Check(s, t) = "blocked"
    BY <1>1, <1>2 DEF Check, Lookup
<1>4. ASSUME NEW to \in Levels \ {"unknown"} PROVE Blocked(SetTrust(s, to))
    <2>1. Lookup(s).level = "blocked"
        BY DEF Blocked
    <2>2. CASE to = "blocked"
        <3>1. SetTrust(s, to).level = "blocked"
            BY <2>1, <2>2 DEF SetTrust, ValidTrustTransition
        <3>2. SetTrust(s, to) # None
            BY <3>1 DEF None
        <3> QED BY <3>1, <3>2 DEF Blocked, Lookup
    <2>3. CASE to # "blocked"
        <3>1. SetTrust(s, to) = s
            BY <2>1, <2>3 DEF SetTrust, ValidTrustTransition
        <3> QED BY <3>1
    <2> QED BY <2>2, <2>3
<1> QED BY <1>1, <1>2, <1>3, <1>4 DEF TrustOnFirstUse, IsAllowed

(* Edits of a running agent that release nobody silently. *)
LEMMA EditBar ==
    ASSUME TypeOK, Alone, BarInv, NEW p \in Peers, NEW s, Edit(p, s),
           barred' \subseteq barred, p \in barred' => Blocked(s)
    PROVE  BarInv'
<1>1. mem'["agent"] = [mem["agent"] EXCEPT ![p] = s] /\ mem'["tool"] = mem["tool"]
    BY DEF Edit, TypeOK, Procs
<1>2. mem["agent"] \in [Peers -> Slot] /\ barred \subseteq Peers
    BY DEF TypeOK, Procs
<1>3. \A q \in barred' : Blocked(mem'["agent"][q])
    BY <1>1, <1>2 DEF BarInv, Edit, Procs
<1>4. pc' = pc /\ pc["tool"] = "down" /\ UNCHANGED <<dir, disk, revoking>>
    BY DEF Edit, Alone
<1>5. FileOf("path")' = FileOf("path")
    BY <1>4 DEF FileOf
<1> QED BY <1>3, <1>4, <1>5 DEF BarInv, Procs

LEMMA EditAllBar ==
    ASSUME TypeOK, Alone, BarInv, NEW m, EditAll(m), \A p \in barred : Blocked(m[p])
    PROVE  BarInv'
<1>1. mem'["agent"] = m
    BY DEF EditAll, TypeOK, Procs
<1>2. pc' = pc /\ pc["tool"] = "down" /\ UNCHANGED <<dir, disk, revoking, barred>>
    BY DEF EditAll, Alone
<1>3. FileOf("path")' = FileOf("path")
    BY <1>2 DEF FileOf
<1> QED BY <1>1, <1>2, <1>3 DEF BarInv, Procs

LEMMA ToolBar ==
    ASSUME ~Overlap, TypeOK, BarInv, NEW m, NEW rev, ToolRuns(m, rev),
           \A p \in barred \cup rev : Blocked(m[p])
    PROVE  BarInv'
<1>1. mem'["tool"] = m /\ pc'["agent"] = "down"
    BY DEF ToolRuns, MayRun, Other, TypeOK, Procs
<1>2. UNCHANGED <<dir, disk, barred>> /\ revoking' = rev
    BY DEF ToolRuns
<1>3. FileOf("path")' = FileOf("path")
    BY <1>2 DEF FileOf
<1> QED BY <1>1, <1>2, <1>3 DEF BarInv, Procs

LEMMA NewBar ==
    ASSUME ~Overlap, TypeOK, BarInv, NEW id \in Identities, New(id)
    PROVE  BarInv' /\ \A p \in barred : ~IsAllowed(mem'["agent"][p], now')
<1> DEFINE m == FileOf("path").data
<1>1. m \in [Peers -> Slot] /\ barred \subseteq Peers
    BY FileType DEF Content, TypeOK
<1>2. \A p \in barred : Blocked(m[p]) /\ ~IsAllowed(m[p], now)
    BY <1>1, BlockedStays DEF BarInv
<1>3. mem'["agent"] = m
    BY DEF New, TypeOK, Procs
<1>4. /\ UNCHANGED <<now, dir, disk, barred, revoking>>
      /\ pc'["tool"] = "down"
    BY DEF New, MayRun, Other, TypeOK, Procs
<1>5. FileOf("path")' = FileOf("path")
    BY <1>4 DEF FileOf
<1> QED BY <1>2, <1>3, <1>4, <1>5 DEF BarInv, Procs

LEMMA StartBar ==
    ASSUME TypeOK, BarInv, Start
    PROVE  BarInv' /\ \A p \in barred : ~IsAllowed(mem'["agent"][p], now')
<1>1. /\ UNCHANGED <<now, mem, dir, disk, barred, revoking>>
      /\ pc["agent"] = "new" /\ pc'["tool"] = pc["tool"]
    BY DEF Start, TypeOK, Procs
<1>2. \A p \in barred : Blocked(mem["agent"][p]) /\ mem["agent"][p] \in Slot
    BY <1>1 DEF BarInv, TypeOK, Procs
<1>3. \A p \in barred : ~IsAllowed(mem["agent"][p], now)
    BY <1>2, BlockedStays
<1>4. FileOf("path")' = FileOf("path")
    BY <1>1 DEF FileOf
<1> QED BY <1>1, <1>2, <1>3, <1>4 DEF BarInv, Procs

(* The file steps: what is renamed into place is what the process had. *)
LEMMA SaveBar ==
    ASSUME TypeOK, Alone, FileInv, BarInv, NEW pr \in Procs,
           OpenTmp(pr) \/ WriteTmp(pr) \/ Rename(pr) \/ Crash(pr)
    PROVE  BarInv'
<1>1. CASE OpenTmp(pr)
    <2>1. dir'.path = dir.path /\ (dir.path # 0 => disk'[dir.path] = disk[dir.path])
        BY <1>1, OpenedAside DEF TypeOK, Inodes
    <2>2. FileOf("path")' = FileOf("path")
        BY <2>1 DEF FileOf
    <2> QED BY <1>1, <2>2 DEF OpenTmp, BarInv, TypeOK, Procs
<1>2. CASE WriteTmp(pr)
    <2>1. dir' = dir /\ (dir.path # 0 => disk'[dir.path] = disk[dir.path])
        BY <1>2 DEF WriteTmp, FileInv, TypeOK, Inodes
    <2>2. FileOf("path")' = FileOf("path")
        BY <2>1 DEF FileOf
    <2> QED BY <1>2, <2>2 DEF WriteTmp, BarInv, TypeOK, Procs
<1>3. CASE Rename(pr)
    <2>1. dir.tmp # 0 /\ disk[dir.tmp].data = mem[pr] /\ pc[pr] = "rename"
        BY <1>3 DEF Rename, FileInv
    <2>2. dir' = [path |-> dir.tmp, tmp |-> 0] /\ disk'[dir.tmp] = disk[dir.tmp]
        BY <1>3, <2>1 DEF Rename, FileInv, TypeOK, Inodes
    <2>3. FileOf("path")'.data = mem[pr]
        BY <2>1, <2>2 DEF FileOf
    <2>4. \A p \in barred' : Blocked(mem[pr][p])
        BY <1>3, <2>1 DEF Rename, BarInv, Blocked, Procs
    <2>5. \A q \in Procs : pc'[q] = "down"
        BY <1>3 DEF Rename, Alone, TypeOK, Procs
    <2> QED BY <2>3, <2>4, <2>5 DEF BarInv, Procs
<1>4. CASE Crash(pr)
    <2>1. \A q \in Procs : pc'[q] = "down"
        BY <1>4 DEF Crash, Alone, TypeOK, Procs
    <2>2. FileOf("path")' = FileOf("path") /\ barred' = barred
        BY <1>4 DEF Crash, FileOf
    <2> QED BY <2>1, <2>2 DEF BarInv, Procs
<1> QED BY <1>1, <1>2, <1>3, <1>4

LEMMA BarStep ==
    ASSUME ~Overlap, TypeOK, Alone, FileInv, BarInv, [Next]_vars
    PROVE  BarInv'
<1>0. /\ mem["agent"] \in [Peers -> Slot]
      /\ FileOf("path").data \in [Peers -> Slot]
      /\ barred \subseteq Peers
    BY FileType DEF TypeOK, Procs, Content
<1>1. ASSUME (\E id \in Identities : New(id)) \/ Start PROVE BarInv'
    BY <1>1, NewBar, StartBar
<1>2. ASSUME NEW p \in Peers, NEW to \in Decisions, OwnerSets(p, to) PROVE BarInv'
    <2>1. p \in barred' => p \in barred /\ to # "unknown"
        BY <1>2 DEF OwnerSets
    <2>2. p \in barred' => Blocked(SetTrust(mem["agent"][p], to))
        <3>1. p \in barred => Blocked(mem["agent"][p])
            BY <1>2 DEF OwnerSets, Edit, BarInv, Procs
        <3> QED BY <1>0, <2>1, <3>1, BlockedStays DEF Decisions
    <2> QED BY <1>2, <2>2, EditBar DEF OwnerSets
<1>3. ASSUME NEW p \in Peers, SyncContact(p) \/ OnContactAdded(p) PROVE BarInv'
    <2>1. p \in barred => Blocked(SetTrust(mem["agent"][p], "verified"))
        <3>1. p \in barred => Blocked(mem["agent"][p])
            BY <1>3 DEF SyncContact, OnContactAdded, Edit, BarInv, Procs
        <3> QED BY <1>0, <3>1, BlockedStays DEF Levels
    <2> QED BY <1>3, <2>1, EditBar DEF SyncContact, OnContactAdded
<1>4. ASSUME NEW p \in Peers, FirstUse(p) PROVE BarInv'
    <2>1. p \in barred => Blocked(TrustOnFirstUse(mem["agent"][p], now))
        <3>1. p \in barred => Blocked(mem["agent"][p])
            BY <1>4 DEF FirstUse, Edit, BarInv, Procs
        <3> QED BY <1>0, <3>1, BlockedStays
    <2> QED BY <1>4, <2>1, EditBar DEF FirstUse
<1>5. ASSUME NEW p \in Peers, RemoveContact(p) PROVE BarInv'
    BY <1>5, EditBar DEF RemoveContact
<1>6. CASE CleanUp
    <2>1. \A p \in barred : Blocked(mem["agent"][p]) /\ ~Expired(mem["agent"][p], now)
        BY <1>0, <1>6, BlockedStays DEF CleanUp, EditAll, BarInv, Procs
    <2>2. \A p \in barred : Blocked(CleanExpired(mem["agent"], now)[p])
        BY <1>0, <2>1 DEF CleanExpired
    <2> QED BY <1>6, <2>2, EditAllBar DEF CleanUp
<1>7. ASSUME NEW d \in Exports, ImportStore(d) PROVE BarInv'
    <2>1. \A p \in barred : Blocked(mem["agent"][p])
        BY <1>7 DEF ImportStore, EditAll, BarInv, Procs
    <2>2. \A p \in barred : Blocked(Import(mem["agent"], d)[p])
        BY <1>0, <2>1 DEF Import, Blocked, Lookup
    <2> QED BY <1>7, <2>2, EditAllBar DEF ImportStore
<1>8. CASE Stop
    <2>1. FileOf("path")' = FileOf("path")
        BY <1>8 DEF Stop, FileOf
    <2> QED BY <1>8, <2>1 DEF Stop, BarInv, TypeOK, Procs
<1>9. ASSUME NEW p \in Peers, NEW to \in {"verified", "pinned", "blocked"}, ToolSets(p, to)
      PROVE  BarInv'
    <2> DEFINE m == FileOf("path").data
               n == [m EXCEPT ![p] = SetTrust(@, to)]
    <2>1. \A q \in barred : Blocked(m[q])
        BY DEF BarInv
    <2>2. \A q \in barred : Blocked(n[q])
        <3>1. p \in barred => Blocked(SetTrust(m[p], to))
            BY <1>0, <2>1, BlockedStays DEF Levels
        <3> QED BY <1>0, <2>1, <3>1
    <2>3. to = "blocked" => Blocked(n[p])
        <3>1. ValidTrustTransition(Lookup(m[p]).level, to)
            BY <1>9 DEF ToolSets
        <3>2. SetTrust(m[p], to).level = to
            BY <3>1 DEF SetTrust
        <3>3. SetTrust(m[p], to) # None
            BY <3>2 DEF None
        <3> QED BY <1>0, <3>2, <3>3 DEF Blocked, Lookup
    <2>4. ToolRuns(n, IF to = "blocked" THEN {p} ELSE {})
        BY <1>9 DEF ToolSets
    <2>5. \A q \in barred \cup (IF to = "blocked" THEN {p} ELSE {}) : Blocked(n[q])
        BY <2>2, <2>3
    <2> HIDE DEF n
    <2> QED BY <2>4, <2>5, ToolBar
<1>10. ASSUME NEW d \in Exports, ToolImports(d) PROVE BarInv'
    <2>1. \A p \in barred : Blocked(Import(FileOf("path").data, d)[p])
        BY <1>0 DEF Import, Blocked, Lookup, BarInv
    <2> QED BY <1>10, <2>1, ToolBar DEF ToolImports
<1>11. CASE \E pr \in Procs : OpenTmp(pr) \/ WriteTmp(pr) \/ Rename(pr) \/ Crash(pr)
    BY <1>11, SaveBar
<1>12. CASE Tick \/ UNCHANGED vars
    <2>1. FileOf("path")' = FileOf("path")
        BY <1>12 DEF Tick, vars, FileOf
    <2> QED BY <1>12, <2>1 DEF Tick, vars, BarInv
<1> QED
    BY <1>1, <1>2, <1>3, <1>4, <1>5, <1>6, <1>7, <1>8, <1>9, <1>10, <1>11, <1>12
       DEF Next, AgentNext, ToolNext

-----------------------------------------------------------------------------
LEMMA InvInit == Init => IInv
<1>1. Init => Alone /\ FileInv /\ BarInv
    BY DEF Init, Alone, FileInv, BarInv, Procs
<1> QED BY <1>1, InitType DEF IInv

LEMMA InvStep ==
    ASSUME ~Overlap, IInv, [Next]_vars
    PROVE  IInv'
BY TypeStep, AloneStep, FileStep, BarStep DEF IInv

LEMMA InvHolds == ASSUME ~Overlap PROVE Spec => []IInv
<1>1. IInv /\ [Next]_vars => IInv'
    BY InvStep
<1> QED BY <1>1, InvInit, PTL DEF Spec

(* SaveToFile is atomic: wherever a process dies, the store's file is a    *)
(* whole one, as long as the tool and the agent do not run together.       *)
THEOREM FileIsWhole == ASSUME ~Overlap PROVE Spec => []FileWhole
<1>1. IInv => FileWhole
    BY DEF IInv, FileInv, FileWhole
<1> QED BY <1>1, InvHolds, PTL

(* Whatever crashes, imports, notifications and saves come in between, a   *)
(* saved block keeps the peer out of every later run of the agent until    *)
(* the owner releases or removes the peer.                                 *)
THEOREM BlockKept == ASSUME ~Overlap PROVE Spec => BlockSurvives
<1>1. ASSUME IInv, [Next]_vars, pc["agent"] # pc'["agent"], pc'["agent"] \in {"new", "up"}
      PROVE  \A p \in barred : ~IsAllowed(mem'["agent"][p], now')
    <2>1. (\E id \in Identities : New(id)) \/ Start
        <3>1. ASSUME NEW pr \in Procs, OpenTmp(pr) \/ WriteTmp(pr) \/ Rename(pr) \/ Crash(pr)
              PROVE  FALSE
            BY <1>1, <3>1 DEF OpenTmp, WriteTmp, Rename, Crash, IInv, TypeOK, Procs
        <3>2. ASSUME ToolNext PROVE FALSE
            <4>1. \E m, rev : ToolRuns(m, rev)
                BY <3>2 DEF ToolNext, ToolSets, ToolImports
            <4> QED BY <1>1, <4>1 DEF ToolRuns, IInv, TypeOK, Procs
        <3>3. ASSUME Stop PROVE FALSE
            BY <1>1, <3>3 DEF Stop, IInv, TypeOK, Procs
        <3> QED
            BY <1>1, <3>1, <3>2, <3>3
               DEF Next, AgentNext, OwnerSets, SyncContact, OnContactAdded, FirstUse, RemoveContact, Edit,
                   CleanUp, ImportStore, EditAll, Tick, vars
    <2> QED BY <1>1, <2>1, NewBar, StartBar DEF IInv
<1>2. IInv /\ [Next]_vars
        => [pc["agent"] # pc'["agent"] /\ pc'["agent"] \in {"new", "up"}
              => \A p \in barred : ~IsAllowed(mem'["agent"][p], now')]_vars
    BY <1>1
<1> QED BY <1>2, InvHolds, PTL DEF Spec, BlockSurvives
=============================================================================
