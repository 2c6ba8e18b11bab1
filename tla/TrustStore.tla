----------------------------- MODULE TrustStore -----------------------------
(***************************************************************************)
(* The trust store (security/trust.go) as its two users share it: the      *)
(* agent process, which loads the file in New, changes entries through its *)
(* contact API and the server's notifications and saves only in Stop, and  *)
(* the peerclaw-trust tool (cmd/peerclaw-trust/main.go), which loads,      *)
(* changes and saves in one command.  Both save by writing <path>.tmp and  *)
(* renaming it, so the model keeps the directory's two names, the inodes   *)
(* behind them and each process's open file.  A process may crash between  *)
(* any two of these steps.                                                 *)
(***************************************************************************)
EXTENDS Naturals, FiniteSets

CONSTANTS
    Peers,              \* public keys
    Identities,         \* keypairs an agent may be started with
    Exports,            \* stores that may be imported, as Export wrote them
    MaxTime,            \* bound on the clock, in lifetimes of a TOFU entry
    Overlap             \* may the tool run while the agent is up?

ASSUME OverlapAssumption == Overlap \in BOOLEAN
ASSUME MaxTimeAssumption == MaxTime \in Nat

VARIABLES
    now,                \* the clock
    mem,                \* [Procs -> [Peers -> Slot]]: each process's ts.trusted
    pc,                 \* [Procs -> where the process is]
    self,               \* the keypair of the agent process
    dir,                \* the inodes named path and path.tmp, 0 when absent
    disk,               \* [Inodes -> Content]
    fd,                 \* [Procs -> inode being written, 0 when none]
    revoking,           \* the peers the running revoke command is to block
    barred              \* history: blocked, saved, and not released since

vars == <<now, mem, pc, self, dir, disk, fd, revoking, barred>>

Procs == {"agent", "tool"}
Inodes == 1 .. 4        \* two names and two open files

Levels == {"unknown", "tofu", "verified", "blocked", "pinned"}
Entry == [level : Levels, wasBlocked : BOOLEAN, expires : 0 .. MaxTime + 1]
None == [level |-> "none"]                       \* no entry under this key
Slot == Entry \cup {None}
Empty == [p \in Peers |-> None]

(* An exported store holds a blocked entry only with its mark. *)
Marked(d) == \A p \in Peers : d[p] # None /\ d[p].level = "blocked" => d[p].wasBlocked
ASSUME ExportsAssumption == \A d \in Exports : d \in [Peers -> Slot] /\ Marked(d)

Torn == [key |-> "torn", data |-> Empty]   \* truncated, not yet written
Content == [key : {"plain", "zero", "torn"}, data : [Peers -> Slot]]

-----------------------------------------------------------------------------
(* Entries.  A slot is what the map lookup gives; the zero TrustEntry of a *)
(* missing key has level TrustUnknown.                                     *)

ValidTrustTransition(from, to) ==
    \/ from = to
    \/ from = "unknown"
    \/ from = "tofu" /\ to \in {"verified", "blocked"}
    \/ from = "verified" /\ to \in {"pinned", "blocked"}
    \/ from = "pinned" /\ to = "blocked"
    \/ from = "blocked" /\ to = "unknown"

Lookup(s) ==
    IF s = None THEN [level |-> "unknown", wasBlocked |-> FALSE, expires |-> 0] ELSE s

Expired(s, t) == s # None /\ s.level = "tofu" /\ s.expires # 0 /\ t > s.expires

(* Check: an expired TOFU entry counts as unknown. *)
Check(s, t) == IF Expired(s, t) THEN "unknown" ELSE Lookup(s).level

IsAllowed(s, t) == Check(s, t) \in {"tofu", "verified", "pinned"}

(* SetTrust on one slot: refused transitions leave it alone, the first     *)
(* expiry is kept, and a block leaves a mark.                              *)
SetTrust(s, to) ==
    IF ValidTrustTransition(Lookup(s).level, to)
    THEN [level |-> to,
          wasBlocked |-> Lookup(s).wasBlocked \/ to = "blocked",
          expires |-> Lookup(s).expires]
    ELSE s

(* Slip: the lifetime is added to the expiry. *)
TrustTwiceAsLong(s, t) ==
    IF s = None
    THEN [level |-> "tofu", wasBlocked |-> FALSE, expires |-> t + 2]
    ELSE s

(* Slip: an entry rewritten whenever the peer counts as unknown. *)
TrustOnEveryUse(s, t) ==
    IF Check(s, t) = "unknown"
    THEN [level |-> "tofu", wasBlocked |-> Lookup(s).wasBlocked, expires |-> t + 1]
    ELSE s

(* TrustOnFirstUse: only a key without an entry is admitted. *)
TrustOnFirstUse(s, t) ==
    IF s = None
    THEN [level |-> "tofu", wasBlocked |-> FALSE, expires |-> t + 1]
    ELSE s

(* Slip: what is imported wins. *)
ImportOver(m, d) == [p \in Peers |-> IF d[p] = None THEN m[p] ELSE d[p]]

(* Import: existing entries are not overwritten. *)
Import(m, d) == [p \in Peers |-> IF m[p] = None THEN d[p] ELSE m[p]]

(* CleanExpired drops expired TOFU entries, mark and all. *)
CleanExpired(m, t) == [p \in Peers |-> IF Expired(m[p], t) THEN None ELSE m[p]]

-----------------------------------------------------------------------------
(* Files. *)

FileOf(name) == IF dir[name] = 0 THEN [key |-> "plain", data |-> Empty]
                                 ELSE disk[dir[name]]

(* The key in the store.  SetEncryptionKey keeps the caller's slice, which *)
(* New then fills with zeroes, so every agent seals under the same key.    *)
StoreKey(id) == "zero"

(* LoadFromFile succeeds on a missing file, on plaintext, and on a file    *)
(* sealed under the process's key.  The tool has no key.                   *)
Loadable(pr, id) ==
    FileOf("path").key \in {"plain"} \cup (IF pr = "agent" THEN {StoreKey(id)} ELSE {})

(* Slip: writing over the store itself. *)
OpenPath(pr) ==
    /\ pc[pr] = "save"
    /\ LET i == IF dir.path # 0 THEN dir.path
                ELSE CHOOSE n \in Inodes : n \notin {dir.tmp, fd["agent"], fd["tool"]}
       IN  /\ dir' = [dir EXCEPT !.path = i]
           /\ disk' = [disk EXCEPT ![i] = Torn]
           /\ fd' = [fd EXCEPT ![pr] = i]
    /\ pc' = [pc EXCEPT ![pr] = "write"]
    /\ UNCHANGED <<now, mem, self, revoking, barred>>

(* SaveToFile, first half: the map is marshalled and sealed, path.tmp is   *)
(* created or truncated.                                                   *)
OpenTmp(pr) ==
    /\ pc[pr] = "save"
    /\ LET i == IF dir.tmp # 0 THEN dir.tmp
                ELSE CHOOSE n \in Inodes : n \notin {dir.path, fd["agent"], fd["tool"]}
       IN  /\ dir' = [dir EXCEPT !.tmp = i]
           /\ disk' = [disk EXCEPT ![i] = Torn]
           /\ fd' = [fd EXCEPT ![pr] = i]
    /\ pc' = [pc EXCEPT ![pr] = "write"]
    /\ UNCHANGED <<now, mem, self, revoking, barred>>

WriteTmp(pr) ==
    /\ pc[pr] = "write"
    /\ disk' = [disk EXCEPT ![fd[pr]] =
                  IF pr = "agent"
                  THEN [key |-> StoreKey(self), data |-> mem[pr]]
                  ELSE [key |-> "plain", data |-> mem[pr]]]
    /\ fd' = [fd EXCEPT ![pr] = 0]
    /\ pc' = [pc EXCEPT ![pr] = "rename"]
    /\ UNCHANGED <<now, mem, self, dir, revoking, barred>>

(* SaveToFile, last step, and the end of the process: Rename fails when    *)
(* the other process has renamed path.tmp away.                            *)
Rename(pr) ==
    /\ pc[pr] = "rename"
    /\ dir' = IF dir.tmp = 0 THEN dir ELSE [path |-> dir.tmp, tmp |-> 0]
    /\ barred' = IF dir.tmp = 0 THEN barred
                 ELSE barred \cup (IF pr = "tool" THEN revoking
                                   ELSE {p \in Peers : Lookup(mem[pr][p]).level = "blocked"})
    /\ pc' = [pc EXCEPT ![pr] = "down"]
    /\ mem' = [mem EXCEPT ![pr] = Empty]
    /\ revoking' = IF pr = "tool" THEN {} ELSE revoking
    /\ disk' = IF dir.tmp = 0 \/ dir.path = 0 THEN disk      \* a freed inode
               ELSE [disk EXCEPT ![dir.path] = Torn]
    /\ UNCHANGED <<now, self, fd>>

(* A process dies; what it has not renamed into place is lost. *)
Crash(pr) ==
    /\ pc[pr] # "down"
    /\ pc' = [pc EXCEPT ![pr] = "down"]
    /\ mem' = [mem EXCEPT ![pr] = Empty]
    /\ fd' = [fd EXCEPT ![pr] = 0]
    /\ revoking' = IF pr = "tool" THEN {} ELSE revoking
    /\ UNCHANGED <<now, self, dir, disk, barred>>

-----------------------------------------------------------------------------
(* The agent. *)

Other(pr) == IF pr = "agent" THEN "tool" ELSE "agent"
MayRun(pr) == pc[pr] = "down" /\ (Overlap \/ pc[Other(pr)] = "down")

(* New loads the file; the store can be used from then on. *)
New(id) ==
    /\ MayRun("agent")
    /\ Loadable("agent", id)
    /\ mem' = [mem EXCEPT !["agent"] = FileOf("path").data]
    /\ self' = id
    /\ pc' = [pc EXCEPT !["agent"] = "new"]
    /\ UNCHANGED <<now, dir, disk, fd, revoking, barred>>

(* Start has taken over the server's contacts, or could not get them. *)
Start ==
    /\ pc["agent"] = "new"
    /\ pc' = [pc EXCEPT !["agent"] = "up"]
    /\ UNCHANGED <<now, mem, self, dir, disk, fd, revoking, barred>>

Edit(p, s) ==
    /\ pc["agent"] \in {"new", "up"}
    /\ mem' = [mem EXCEPT !["agent"][p] = s]
    /\ UNCHANGED <<now, pc, self, dir, disk, fd, revoking>>

(* SetTrust takes any level, but no caller makes a decision of TOFU. *)
Decisions == Levels \ {"tofu"}

(* AddContact, ImportContacts (which stops at the first refusal),          *)
(* BlockAgent and TrustStore().SetTrust: the owner's decision.  Setting a  *)
(* blocked peer to unknown releases it.                                    *)
OwnerSets(p, to) ==
    /\ Edit(p, SetTrust(mem["agent"][p], to))
    /\ barred' = IF to = "unknown" THEN barred \ {p} ELSE barred

(* Start, for one contact on the server's list: verified if it counts as   *)
(* unknown.                                                                *)
SyncContact(p) ==
    /\ pc["agent"] = "new"
    /\ Check(mem["agent"][p], now) = "unknown"
    /\ Edit(p, SetTrust(mem["agent"][p], "verified"))
    /\ UNCHANGED barred

(* OnContactAdded: the server says that somebody accepted a request. *)
OnContactAdded(p) ==
    /\ pc["agent"] = "up"
    /\ Edit(p, SetTrust(mem["agent"][p], "verified"))
    /\ UNCHANGED barred

(* A first contact. *)
FirstUse(p) ==
    /\ Edit(p, TrustOnFirstUse(mem["agent"][p], now))
    /\ UNCHANGED barred

(* RemoveContact / RemoveEntry: the owner drops the entry and its mark. *)
RemoveContact(p) ==
    /\ Edit(p, None)
    /\ barred' = barred \ {p}

EditAll(m) ==
    /\ pc["agent"] \in {"new", "up"}
    /\ mem' = [mem EXCEPT !["agent"] = m]
    /\ UNCHANGED <<now, pc, self, dir, disk, fd, revoking, barred>>

CleanUp == EditAll(CleanExpired(mem["agent"], now))
ImportStore(d) == EditAll(Import(mem["agent"], d))

(* Stop: SaveToFile starts. *)
Stop ==
    /\ pc["agent"] = "up"
    /\ pc' = [pc EXCEPT !["agent"] = "save"]
    /\ UNCHANGED <<now, mem, self, dir, disk, fd, revoking, barred>>

-----------------------------------------------------------------------------
(* The tool: verify, pin, revoke and import load the store, change it and  *)
(* save it.  A store it cannot read and a refused transition end it.       *)

ToolRuns(m, rev) ==
    /\ MayRun("tool")
    /\ Loadable("tool", self)
    /\ mem' = [mem EXCEPT !["tool"] = m]
    /\ pc' = [pc EXCEPT !["tool"] = "save"]
    /\ revoking' = rev
    /\ UNCHANGED <<now, self, dir, disk, fd, barred>>

ToolSets(p, to) ==
    LET m == FileOf("path").data
    IN  /\ ValidTrustTransition(Lookup(m[p]).level, to)
        /\ ToolRuns([m EXCEPT ![p] = SetTrust(@, to)], IF to = "blocked" THEN {p} ELSE {})

ToolImports(d) == ToolRuns(Import(FileOf("path").data, d), {})

Tick ==
    /\ now < MaxTime
    /\ now' = now + 1
    /\ UNCHANGED <<mem, pc, self, dir, disk, fd, revoking, barred>>

-----------------------------------------------------------------------------
Init ==
    /\ now = 0
    /\ mem = [pr \in Procs |-> Empty]
    /\ pc = [pr \in Procs |-> "down"]
    /\ self \in Identities
    /\ dir = [path |-> 0, tmp |-> 0]
    /\ disk = [i \in Inodes |-> Torn]
    /\ fd = [pr \in Procs |-> 0]
    /\ revoking = {}
    /\ barred = {}

AgentNext ==
    \/ (\E id \in Identities : New(id)) \/ Start
    \/ \E p \in Peers : \/ \E to \in Decisions : OwnerSets(p, to)
                        \/ SyncContact(p)
                        \/ OnContactAdded(p)
                        \/ FirstUse(p)
                        \/ RemoveContact(p)
    \/ CleanUp
    \/ \E d \in Exports : ImportStore(d)
    \/ Stop

ToolNext ==
    \/ \E p \in Peers, to \in {"verified", "pinned", "blocked"} : ToolSets(p, to)
    \/ \E d \in Exports : ToolImports(d)

Next ==
    \/ AgentNext
    \/ ToolNext
    \/ \E pr \in Procs : OpenTmp(pr) \/ WriteTmp(pr) \/ Rename(pr) \/ Crash(pr)
    \/ Tick

Spec == Init /\ [][Next]_vars

-----------------------------------------------------------------------------
(* Every variable keeps its type, and a process that is down holds nothing. *)
TypeOK ==
    /\ now \in 0 .. MaxTime
    /\ mem \in [Procs -> [Peers -> Slot]]
    /\ pc \in [Procs -> {"down", "new", "up", "save", "write", "rename"}]
    /\ self \in Identities
    /\ dir \in [path : 0 .. 4, tmp : 0 .. 4]
    /\ disk \in [Inodes -> Content]
    /\ fd \in [Procs -> 0 .. 4]
    /\ revoking \subseteq Peers
    /\ barred \subseteq Peers
    /\ pc["tool"] \notin {"new", "up"}
    /\ \A pr \in Procs : /\ pc[pr] = "down" => mem[pr] = Empty
                         /\ pc[pr] = "write" <=> fd[pr] # 0

(* What the agent's gate and its whitelist see of the store is the policy: *)
(* no sequence of contact calls, notifications, imports, expiries, crashes *)
(* and restarts moves a peer along a transition the state machine refuses  *)
(* (trust.go:68-101), nor admits a once blocked peer by a first contact.   *)
Policy == INSTANCE TrustPolicy
            WITH level <- [p \in Peers |-> Check(mem["agent"][p], now)],
                 wary <- [p \in Peers |-> Lookup(mem["agent"][p]).wasBlocked]
PolicyKept == Policy!Spec

(* SaveToFile's promise, "atomic write (write to temp file, then rename)   *)
(* to prevent corruption on crash": wherever a process dies, the file under *)
(* the store's name is a whole one, so the agent can be started again.     *)
FileWhole == dir.path # 0 => disk[dir.path].key # "torn"

(* A block that was saved, by the tool's revoke or by the agent's Stop,    *)
(* keeps the peer out of every later run of the agent until the owner      *)
(* releases or removes it, when the store is loaded and when the server's  *)
(* contacts were taken over: crashes, imports, contact lists,              *)
(* notifications and further saves do not bring the peer back.             *)
BlockSurvives ==
    [][pc["agent"] # pc'["agent"] /\ pc'["agent"] \in {"new", "up"}
         => \A p \in barred : ~IsAllowed(mem'["agent"][p], now')]_vars
=============================================================================
