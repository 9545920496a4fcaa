--------------------------- MODULE PrivateRestore ---------------------------
(***************************************************************************)
(* Restore of the private data of one installation                         *)
(* (proto_mind/native_private_restore.py, native_private_backup.py,        *)
(* private_state_gate.py), together with the ordinary writers of the same  *)
(* files: the core memory (memory_store.py), the chat history of the macOS *)
(* client (ChatHistoryFiles.swift, ChatStore.swift), the GitHub connection *)
(* (native_github.py) and private records (native_private_records.py).     *)
(*                                                                         *)
(* An agent is a running copy of the program.  Copies share nothing but    *)
(* the files: the data, one sidecar lock per store, two markers (the gate) *)
(* and two generation files, in the core and in the native directory.      *)
(* A step is one access of the files; an agent may die between any two.    *)
(***************************************************************************)
EXTENDS Naturals, FiniteSets

CONSTANTS
    Agents,       \* running copies of the program
    Writers,      \* the stores that ordinary writers use
    Original,     \* the files at first
    Copy,         \* the files in the backup the operator restores
    Grant,        \* a connected account, the content of the integrations file
    None,
    MaxWrites,    \* bound: ordinary writes
    MaxRestores,  \* bound: restores with a plan
    MaxCrashes    \* bound: agents that die

Stores == {"core", "history", "integrations", "records"}
Native == Stores \ {"core"}

(* One file stands for each store: a set of items, or None when absent. *)
Items == (0..MaxWrites) \cup {Grant}
Content == {None} \cup SUBSET Items
Images == [Stores -> Content]

Ids == 1..MaxRestores
NoId == 0
Directions == {"restore", "rollback"}
Marker == [id : Ids, dir : Directions]

ASSUME RestoreAssumption ==
    /\ IsFiniteSet(Agents) /\ Writers \subseteq Stores
    /\ Original \in Images /\ Copy \in Images
    /\ Copy["history"] # None          \* restore refuses a copy without a list of chats
    /\ \A s \in Stores : Copy[s] # None => Copy[s] \cap 1..MaxWrites = {}  \* made before the writes
    /\ MaxWrites \in Nat /\ MaxRestores \in Nat /\ MaxCrashes \in Nat
    /\ None \notin Agents \cup Marker \cup Images \cup Stores
    /\ \A content \in SUBSET Items : content # None
    /\ Grant \notin 0..MaxWrites

VARIABLES
    file,            \* the data files
    nmark, cmark,    \* native marker (plan and direction), core marker (plan)
    ngen, cgen,      \* the two generation files
    plan, receipt,   \* per plan: the before-image; the direction its receipt records
    lock,            \* holder of each store's lock
    pc, job,         \* what an agent does, and its parameters
    base,            \* what an agent read when it started
    acked,           \* history: items of writes reported as done
    writes, crashes

gate   == <<nmark, cmark, ngen, cgen>>
disk   == <<file, gate, plan, receipt>>
agent  == <<pc, job, base>>
bounds == <<writes, crashes>>
vars   == <<disk, lock, agent, acked, bounds>>

NoJob == [store |-> None, read |-> None, id |-> NoId, dir |-> None, target |-> None]

Places == {"idle", "lock", "write", "prepare", "resume", "marked", "check", "files",
           "coreGen", "nativeGen", "unlockCore", "unlockNative"}

(* The places where an agent holds the locks of all stores. *)
Restoring == Places \ {"idle", "lock", "write", "prepare", "resume"}

TypeOK ==
    /\ file \in Images
    /\ nmark \in Marker \cup {None} /\ cmark \in {NoId} \cup Ids
    /\ ngen \in Marker \cup {None} /\ cgen \in Marker \cup {None}
    /\ plan \in [Ids -> Images \cup {None}]
    /\ receipt \in [Ids -> Directions \cup {None}]
    /\ lock \in [Stores -> Agents \cup {None}]
    /\ pc \in [Agents -> Places]
    /\ job \in [Agents -> [store : Stores \cup {None}, read : Content, id : {NoId} \cup Ids,
                           dir : Directions \cup {None}, target : Images \cup {None}]]
    /\ base \in [Agents -> [core : Marker \cup {None}, native : Marker \cup {None}, history : Content]]
    /\ acked \in [Stores -> SUBSET Items]
    /\ writes \in 0..MaxWrites /\ crashes \in 0..MaxCrashes

Init ==
    /\ file = Original
    /\ nmark = None /\ cmark = NoId /\ ngen = None /\ cgen = None
    /\ plan = [i \in Ids |-> None] /\ receipt = [i \in Ids |-> None]
    /\ lock = [s \in Stores |-> None]
    /\ pc = [p \in Agents |-> "idle"] /\ job = [p \in Agents |-> NoJob]
    /\ base = [p \in Agents |-> [core |-> None, native |-> None, history |-> Original["history"]]]
    /\ acked = [s \in Stores |-> {}]
    /\ writes = 0 /\ crashes = 0

-----------------------------------------------------------------------------
(* Plans.  A restored or returned integrations file connects no account;    *)
(* every other file here is taken as it is (without_authority).             *)

(* Mutant: a restored connection keeps its account. *)
BugDisconnected(s, content) == content

Disconnected(s, content) == IF s = "integrations" /\ content # None THEN {} ELSE content

Desired(i, dir, s) == Disconnected(s, IF dir = "restore" THEN Copy[s] ELSE plan[i][s])

(* Mutant: a restore replaces whatever it finds. *)
BugKnown(i, s) == Content

(* The contents _apply accepts: before, restore and rollback. *)
Known(i, s) == {plan[i][s], Desired(i, "restore", s), Desired(i, "rollback", s)}

Planned == {i \in Ids : plan[i] # None}

Pending == nmark # None

(* The gate and the generation, as core and native code read them. *)
CoreOpen(p) == cmark = NoId /\ base[p].core = cgen
NativeOpen(p) == nmark = None /\ base[p].native = ngen

Free(s) == lock[s] = None
TakeAll(p) == lock' = [s \in Stores |-> p]
Release(p) == lock' = [s \in Stores |-> IF lock[s] = p THEN None ELSE lock[s]]

Goto(p, place) == pc' = [pc EXCEPT ![p] = place]

(* The agent's call ends: with an error, or with its result. *)
Finish(p) == Goto(p, "idle") /\ job' = [job EXCEPT ![p] = NoJob] /\ Release(p)

-----------------------------------------------------------------------------
(* Ordinary writers. *)

(* The check before the lock: MemoryStore.transaction; withLock of the       *)
(* client; for the other two, the check of the bridge at the request.        *)
Admitted(p, s) ==
    CASE s = "core" -> CoreOpen(p)
      [] s = "history" -> nmark = None
      [] s \in {"integrations", "records"} -> CoreOpen(p) /\ NativeOpen(p)

(* A window saves over the chats it has loaded, and over nothing else. *)
ChatsUnchanged(p) == file["history"] = base[p].history

(* Mutant: the core memory is checked only before its lock is taken. *)
BugConfirmedCore(p, s) ==
    CASE s = "core" -> TRUE
      [] s = "history" -> NativeOpen(p) /\ ChatsUnchanged(p)
      [] s = "records" -> file[s] = None
      [] s = "integrations" -> TRUE

(* Mutant: a waiting save of chats does not look at the marker again. *)
BugConfirmedChats(p, s) ==
    CASE s = "core" -> CoreOpen(p)
      [] s = "history" -> ChatsUnchanged(p)
      [] s = "records" -> file[s] = None
      [] s = "integrations" -> TRUE

(* The check under the lock.  A save of chats compares the file with the one *)
(* it was loaded from; a record is saved once; the connection checks nothing. *)
Confirmed(p, s) ==
    CASE s = "core" -> CoreOpen(p)
      [] s = "history" -> NativeOpen(p) /\ ChatsUnchanged(p)
      [] s = "records" -> file[s] = None
      [] s = "integrations" -> TRUE

(* The core and the connection wait for the lock, the others try it once. *)
Waits(s) == s \in {"core", "integrations"}

WriteCall(p, s) ==
    /\ pc[p] = "idle" /\ s \in Writers
    /\ writes + Cardinality({q \in Agents : pc[q] \in {"lock", "write"}}) < MaxWrites
    /\ Admitted(p, s)
    /\ Goto(p, "lock") /\ job' = [job EXCEPT ![p].store = s]
    /\ UNCHANGED <<disk, lock, base, acked, bounds>>

(* Memory is read under the lock; a window saves the chats it has loaded. *)
WriteLock(p) ==
    LET s == job[p].store IN
    /\ pc[p] = "lock" /\ Free(s) /\ Confirmed(p, s)
    /\ lock' = [lock EXCEPT ![s] = p]
    /\ Goto(p, "write") /\ job' = [job EXCEPT ![p].read = IF s = "history" THEN base[p].history ELSE file[s]]
    /\ UNCHANGED <<disk, base, acked, bounds>>

RefuseWrite(p) ==
    LET s == job[p].store IN
    /\ pc[p] = "lock"
    /\ \/ ~Free(s) /\ ~Waits(s)
       \/ Free(s) /\ ~Confirmed(p, s)
    /\ Finish(p)
    /\ UNCHANGED <<disk, base, acked, bounds>>

(* Memory and chats grow by an item; a record is a new file; the connection  *)
(* is switched on or off.                                                    *)
NewContent(p, s, n) ==
    CASE s \in {"core", "history"} -> {(IF job[p].read = None THEN {} ELSE job[p].read) \cup {n}}
      [] s = "records" -> {{n}}
      [] s = "integrations" -> {{}, {Grant}}

WriteCommit(p) ==
    LET s == job[p].store
        n == writes + 1
    IN
    /\ pc[p] = "write"
    /\ \E content \in NewContent(p, s, n) :
        /\ file' = [file EXCEPT ![s] = content]
        /\ base' = IF s = "history" THEN [base EXCEPT ![p].history = content] ELSE base
    /\ acked' = IF s = "integrations" THEN acked ELSE [acked EXCEPT ![s] = @ \cup {n}]
    /\ writes' = n
    /\ Finish(p)
    /\ UNCHANGED <<gate, plan, receipt, crashes>>

-----------------------------------------------------------------------------
(* Restore: a plan, two markers, the files one by one, the generation, the  *)
(* markers away.  All of it runs under the locks of all stores.             *)

(* The operator has looked at the copy and the files: both gates are open,  *)
(* and the files' fingerprint is kept.                                      *)
RestoreCall(p) ==
    /\ pc[p] = "idle" /\ nmark = None /\ cmark = NoId
    /\ Cardinality(Planned) + Cardinality({q \in Agents : pc[q] = "prepare"}) < MaxRestores
    /\ Goto(p, "prepare") /\ job' = [job EXCEPT ![p].target = file]
    /\ UNCHANGED <<disk, lock, base, acked, bounds>>

(* The core lock waits, a native lock is tried once.  Inside, the memory    *)
(* store checks the core gate again; the native marker is not read again.   *)
Agreed(p) == (\A s \in Native : Free(s)) /\ cmark = NoId /\ file = job[p].target

(* The plan and the before-image have no effect before the native marker,   *)
(* which names them, is in place.                                           *)
Begin(p) ==
    LET i == Cardinality(Planned) + 1 IN
    /\ pc[p] = "prepare" /\ Free("core") /\ Agreed(p)
    /\ TakeAll(p)
    /\ plan' = [plan EXCEPT ![i] = file]
    /\ nmark' = [id |-> i, dir |-> "restore"]
    /\ Goto(p, "marked")
    /\ job' = [job EXCEPT ![p].id = i, ![p].dir = "restore", ![p].target = None]
    /\ UNCHANGED <<file, cmark, ngen, cgen, receipt, base, acked, bounds>>

RefuseRestore(p) ==
    /\ pc[p] = "prepare" /\ Free("core") /\ ~Agreed(p)
    /\ Finish(p)
    /\ UNCHANGED <<disk, base, acked, bounds>>

(* The operator continues, or returns the previous data. *)
ResumeCall(p, back) ==
    /\ pc[p] = "idle" /\ Pending
    /\ Goto(p, "resume")
    /\ job' = [job EXCEPT ![p].id = nmark.id, ![p].dir = IF back THEN "rollback" ELSE None]
    /\ UNCHANGED <<disk, lock, base, acked, bounds>>

StillPending(p) == (\A s \in Native : Free(s)) /\ Pending /\ nmark.id = job[p].id

(* The plan is read again under the locks; a rollback rewrites the marker. *)
TakeOver(p) ==
    /\ pc[p] = "resume" /\ Free("core") /\ StillPending(p)
    /\ TakeAll(p)
    /\ nmark' = IF job[p].dir = None THEN nmark ELSE [nmark EXCEPT !.dir = job[p].dir]
    /\ Goto(p, "marked") /\ job' = [job EXCEPT ![p].dir = nmark'.dir]
    /\ UNCHANGED <<file, cmark, ngen, cgen, plan, receipt, base, acked, bounds>>

RefuseResume(p) ==
    /\ pc[p] = "resume" /\ Free("core") /\ ~StillPending(p)
    /\ Finish(p)
    /\ UNCHANGED <<disk, base, acked, bounds>>

(* Mutant: a core marker of the same plan is refused after a crash. *)
BugWriteCoreMarker(p) ==
    /\ pc[p] = "marked" /\ cmark = NoId
    /\ cmark' = job[p].id
    /\ Goto(p, "check")
    /\ UNCHANGED <<file, nmark, ngen, cgen, plan, receipt, lock, job, base, acked, bounds>>

WriteCoreMarker(p) ==
    /\ pc[p] = "marked" /\ cmark \in {NoId, job[p].id}
    /\ cmark' = job[p].id
    /\ Goto(p, "check")
    /\ UNCHANGED <<file, nmark, ngen, cgen, plan, receipt, lock, job, base, acked, bounds>>

Foreign(i) == {s \in Stores : file[s] \notin Known(i, s)}

CheckFiles(p) ==
    /\ pc[p] = "check" /\ Foreign(job[p].id) = {}
    /\ Goto(p, "files")
    /\ UNCHANGED <<disk, lock, job, base, acked, bounds>>

(* New or edited files are not overwritten: the restore stays pending. *)
RefuseFiles(p) ==
    /\ pc[p] = "check" /\ Foreign(job[p].id) # {}
    /\ Finish(p)
    /\ UNCHANGED <<disk, base, acked, bounds>>

Remaining(p) == {s \in Stores : file[s] # Desired(job[p].id, job[p].dir, s)}

(* Removals come first, the list of chats last. *)
InOrder(p, s) ==
    LET removed == {r \in Remaining(p) : Desired(job[p].id, job[p].dir, r) = None} IN
    \/ s \in removed
    \/ removed = {} /\ (s = "history" => Remaining(p) = {s})

ReplaceFile(p, s) ==
    /\ pc[p] = "files" /\ s \in Remaining(p) /\ InOrder(p, s)
    /\ file[s] \in Known(job[p].id, s)
    /\ file' = [file EXCEPT ![s] = Desired(job[p].id, job[p].dir, s)]
    /\ UNCHANGED <<gate, plan, receipt, lock, agent, acked, bounds>>

(* Mutant: only the native directory gets a new generation. *)
BugWriteReceipt(p) ==
    /\ pc[p] = "files" /\ Remaining(p) = {}
    /\ receipt' = [receipt EXCEPT ![job[p].id] = job[p].dir]
    /\ Goto(p, "nativeGen")
    /\ UNCHANGED <<file, gate, plan, lock, job, base, acked, bounds>>

WriteReceipt(p) ==
    /\ pc[p] = "files" /\ Remaining(p) = {}
    /\ receipt' = [receipt EXCEPT ![job[p].id] = job[p].dir]
    /\ Goto(p, "coreGen")
    /\ UNCHANGED <<file, gate, plan, lock, job, base, acked, bounds>>

Generation(p) == [id |-> job[p].id, dir |-> job[p].dir]

WriteCoreGeneration(p) ==
    /\ pc[p] = "coreGen"
    /\ cgen' = Generation(p)
    /\ Goto(p, "nativeGen")
    /\ UNCHANGED <<file, nmark, cmark, ngen, plan, receipt, lock, job, base, acked, bounds>>

WriteNativeGeneration(p) ==
    /\ pc[p] = "nativeGen"
    /\ ngen' = Generation(p)
    /\ Goto(p, "unlockCore")
    /\ UNCHANGED <<file, nmark, cmark, cgen, plan, receipt, lock, job, base, acked, bounds>>

UnlockCore(p) ==
    /\ pc[p] = "unlockCore" /\ nmark = Generation(p) /\ cmark = job[p].id
    /\ cmark' = NoId
    /\ Goto(p, "unlockNative")
    /\ UNCHANGED <<file, nmark, ngen, cgen, plan, receipt, lock, job, base, acked, bounds>>

UnlockNative(p) ==
    /\ pc[p] = "unlockNative"
    /\ nmark' = None
    /\ Finish(p)
    /\ UNCHANGED <<file, cmark, ngen, cgen, plan, receipt, base, acked, bounds>>

-----------------------------------------------------------------------------
(* A start of the program: generations as they are, the chats if the gate   *)
(* lets them be read.                                                       *)
Fresh == [core |-> cgen, native |-> ngen, history |-> IF Pending THEN None ELSE file["history"]]

Restart(p) ==
    /\ pc[p] = "idle" /\ base[p] # Fresh
    /\ base' = [base EXCEPT ![p] = Fresh]
    /\ UNCHANGED <<disk, lock, pc, job, acked, bounds>>

(* The process dies, its locks go, the operator starts it again. *)
Crash(p) ==
    /\ pc[p] # "idle" /\ crashes < MaxCrashes
    /\ crashes' = crashes + 1
    /\ Finish(p)
    /\ base' = [base EXCEPT ![p] = Fresh]
    /\ UNCHANGED <<disk, acked, writes>>

(* What an agent does once it has been asked to. *)
Step(p) ==
    \/ WriteLock(p) \/ RefuseWrite(p) \/ WriteCommit(p)
    \/ Begin(p) \/ RefuseRestore(p)
    \/ TakeOver(p) \/ RefuseResume(p)
    \/ WriteCoreMarker(p) \/ CheckFiles(p) \/ RefuseFiles(p)
    \/ \E s \in Stores : ReplaceFile(p, s)
    \/ WriteReceipt(p) \/ WriteCoreGeneration(p) \/ WriteNativeGeneration(p)
    \/ UnlockCore(p) \/ UnlockNative(p)

Next == \E p \in Agents :
    \/ \E s \in Stores : WriteCall(p, s)
    \/ RestoreCall(p)
    \/ \E back \in BOOLEAN : ResumeCall(p, back)
    \/ Step(p)
    \/ Restart(p) \/ Crash(p)

Spec == Init /\ [][Next]_vars

(* An agent that was asked goes on; while a restore is pending the operator *)
(* answers the gate's question in every window that shows it.               *)
Fairness == \A p \in Agents :
    /\ WF_vars(Step(p))
    /\ WF_vars(\E back \in BOOLEAN : ResumeCall(p, back))

FairSpec == Spec /\ Fairness

-----------------------------------------------------------------------------
(* Properties *)

(* An ordinary write of the core or of the chats lands only while that      *)
(* store's gate is open, by an agent started after the last restore, and on *)
(* top of what it has read; the check was made steps before, and restores,  *)
(* crashes and other writers may come in between.                           *)
Commits(p) == pc[p] = "write" /\ writes' # writes /\ pc'[p] = "idle"

GateHolds == [][\A p \in Agents :
    /\ Commits(p) /\ job[p].store = "core" => CoreOpen(p) /\ file["core"] = job[p].read
    /\ Commits(p) /\ job[p].store = "history" => NativeOpen(p) /\ file["history"] = job[p].read]_vars

(* A restore is finished, over any crashes, continuations and change of     *)
(* direction, only when every file is the image of the marker's direction;  *)
(* no account stays connected.                                              *)
CompletesExactly == [][Pending /\ nmark' = None =>
    /\ \A s \in Stores : file'[s] = Desired(nmark.id, nmark.dir, s)
    /\ file'["integrations"] \in {None, {}}]_vars

Kept(s) == {x \in Items : \E c \in {file[s]} \cup {plan[i][s] : i \in Planned} : c # None /\ x \in c}

(* What a writer reported as saved is in the file or in the before-image of *)
(* a restore: neither another writer nor a restore drops it.                *)
NothingLost == \A s \in Stores : acked[s] \subseteq Kept(s)

(* A client that lost the reply decides from the generations and the        *)
(* receipt (completedRestore): with the gate open they agree.               *)
CompletionIsProvable == nmark = None /\ cmark = NoId =>
    ngen = cgen /\ (cgen # None => receipt[cgen.id] = cgen.dir)

(* While a restore is pending the chats are one of the contents that both   *)
(* continuing and returning accept, wherever it was interrupted.            *)
ChatsStayRestorable == Pending => file["history"] \in Known(nmark.id, "history")

(* An interrupted restore ends, unless a file was changed meanwhile.        *)
PendingEnds == Pending ~> (nmark = None \/ Foreign(nmark.id) # {})

(* "Explicit, restartable restore" (native_private_restore.py:1): while it  *)
(* is pending, every file is one of the contents that continuing accepts.   *)
Restartable == Pending => Foreign(nmark.id) = {}

=============================================================================
