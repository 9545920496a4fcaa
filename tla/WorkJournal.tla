---------------------------- MODULE WorkJournal ----------------------------
(***************************************************************************)
(* The private work journal of Proto-Mind Native                           *)
(* (proto_mind/native_work_sessions.py): one JSON record per turn, written *)
(* by several bridge processes ("windows") that share a directory.         *)
(*                                                                         *)
(* A window is one bridge process.  It serves one request at a time, and   *)
(* between any two file-system calls of a request every other window may   *)
(* run, any process may be killed, or the machine may lose power.          *)
(*                                                                         *)
(* Three kinds of advisory flock protect the records.  .writer.lock is     *)
(* shared by turns and exclusive for a review; .conversation-<id>.lock and *)
(* .run-<id>.lock are exclusive for one turn.  Every lock is taken with    *)
(* LOCK_NB, so a busy lock refuses the request instead of delaying it.     *)
(* A reader finds out who is active by taking the run locks for a moment.  *)
(*                                                                         *)
(* A file-system rename is visible at once and durable only after the      *)
(* directory has been fsynced: disk is what processes read, media[r] the   *)
(* set of contents a power failure may leave for run r.                    *)
(***************************************************************************)
EXTENDS Naturals, FiniteSets

CONSTANTS
    Windows,        \* bridge processes
    Runs,           \* run IDs (request UUIDs chosen by the client)
    Conversations,  \* conversation IDs
    None,           \* no owner, no parent, no reference
    Absent,         \* the record file does not exist
    MaxLog,         \* bound: changes of one turn's previews by progress
    MaxReviews,     \* bound: reviews of one run (12 in the code)
    MaxFaults       \* bound: I/O errors, killed processes and power failures

Record == [status : {"prepared", "dispatching", "completed", "error"},
           sent   : BOOLEAN,                   \* "dispatched_at" is present
           conv   : Conversations,
           parent : Runs \cup {None},
           log    : 0..MaxLog,                 \* version of the public previews
           reviews : 0..MaxReviews]

ASSUME ConstantsAssumption ==
    /\ None \notin Windows \cup Runs \cup Conversations
    /\ Absent \notin Record
    /\ MaxLog \in Nat
    /\ MaxReviews \in Nat
    /\ MaxFaults \in Nat

VARIABLES
    pc,          \* where each window is in its request
    turn,        \* the WorkSession object of each window
    view,        \* the journal row each window showed last
    todo,        \* run locks a reader has still to probe
    barrierShared, barrierOwner,   \* .writer.lock: LOCK_SH and LOCK_EX holders
    convLock, runLock,             \* owner of each ownership lock
    lockFiles,   \* runs whose .run-<id>.lock exists
    disk, media, \* visible and possible durable content of each record
    promised,    \* history: content whose save returned to its caller
    calls,       \* history: how often the turn handler was called for a run
    faults       \* failures of the environment so far

locks == <<barrierShared, barrierOwner, convLock, runLock, lockFiles>>
files == <<disk, media, promised>>
vars  == <<pc, turn, view, todo, locks, files, calls, faults>>

-----------------------------------------------------------------------------
(* State of one window *)

TurnStates == {"opened", "naming", "owning", "prepared", "dispatched", "running"}
ReadStates == {"barrier", "probe"}
SaveStates == {"write", "sync"}
Places == {"idle", "review", "reviewing", "closing"}
            \cup TurnStates \cup ReadStates \cup SaveStates

NoTurn == [run |-> None, conv |-> None, from |-> None, rec |-> Absent,
           expected |-> Absent, failed |-> FALSE, after |-> "idle"]

View == [run : Runs, rec : Record, active : BOOLEAN]

Turn == [run : Runs \cup {None}, conv : Conversations \cup {None},
         from : View \cup {None}, rec : Record \cup {Absent},
         expected : Record \cup {Absent}, failed : BOOLEAN, after : Places]

TypeOK ==
    /\ pc \in [Windows -> Places]
    /\ turn \in [Windows -> Turn]
    /\ view \in [Windows -> View \cup {None}]
    /\ todo \in [Windows -> SUBSET Runs]
    /\ barrierShared \in SUBSET Windows
    /\ barrierOwner \in Windows \cup {None}
    /\ convLock \in [Conversations -> Windows \cup {None}]
    /\ runLock \in [Runs -> Windows \cup {None}]
    /\ lockFiles \in SUBSET Runs
    /\ disk \in [Runs -> Record \cup {Absent}]
    /\ media \in [Runs -> SUBSET (Record \cup {Absent})]
    /\ promised \in [Runs -> Record \cup {Absent}]
    /\ calls \in [Runs -> Nat]
    /\ faults \in 0..MaxFaults

Init ==
    /\ pc = [w \in Windows |-> "idle"]
    /\ turn = [w \in Windows |-> NoTurn]
    /\ view = [w \in Windows |-> None]
    /\ todo = [w \in Windows |-> {}]
    /\ barrierShared = {}
    /\ barrierOwner = None
    /\ convLock = [c \in Conversations |-> None]
    /\ runLock = [r \in Runs |-> None]
    /\ lockFiles = {}
    /\ disk = [r \in Runs |-> Absent]
    /\ media = [r \in Runs |-> {Absent}]
    /\ promised = [r \in Runs |-> Absent]
    /\ calls = [r \in Runs |-> 0]
    /\ faults = 0

Goto(w, place) == pc' = [pc EXCEPT ![w] = place]

Parent(w) == IF turn[w].from = None THEN None ELSE turn[w].from.run

(* close() and process death: the kernel drops every flock of the window. *)
ReleaseLocks(W) ==
    /\ barrierShared' = barrierShared \ W
    /\ barrierOwner' = IF barrierOwner \in W THEN None ELSE barrierOwner
    /\ convLock' = [c \in Conversations |->
                      IF convLock[c] \in W THEN None ELSE convLock[c]]
    /\ runLock' = [r \in Runs |->
                      IF runLock[r] \in W THEN None ELSE runLock[r]]
    /\ UNCHANGED lockFiles

-----------------------------------------------------------------------------
(* Opening a turn: WorkSession.__enter__ *)

(* LOCK_SH on the barrier, then a saved record with this ID refuses the     *)
(* turn before any claim.  Refused, with nothing changed, while a review    *)
(* holds the barrier.  A continuation names the row the window showed last; *)
(* the client drops its row when it sends.                                  *)
Begin(w, r, c, from) ==
    /\ pc[w] = "idle"
    /\ barrierOwner = None
    /\ barrierShared' = barrierShared \cup {w}
    /\ turn' = [turn EXCEPT ![w] = [NoTurn EXCEPT !.run = r, !.conv = c, !.from = from]]
    /\ view' = [view EXCEPT ![w] = None]
    /\ Goto(w, IF disk[r] = Absent THEN "opened" ELSE "closing")
    /\ UNCHANGED <<todo, barrierOwner, convLock, runLock, lockFiles, files, calls, faults>>

(* _parent: the parent is exactly the record that was shown, belongs to     *)
(* this conversation and has no child yet.                                  *)
MayContinue(w) ==
    LET p == Parent(w) IN
    \/ p = None
    \/ /\ disk[p] # Absent
       /\ disk[p].conv = turn[w].conv
       /\ disk[p] = turn[w].from.rec
       /\ \A r \in Runs : disk[r] # Absent => disk[r].parent # p

(* flock(LOCK_EX | LOCK_NB) on the conversation: granted, or refused at once *)
BugAlwaysGranted(c) == TRUE
ConversationFree(c) == convLock[c] = None
BugNeverRefused(c) == FALSE
ConversationBusy(c) == convLock[c] # None

(* The conversation lock, and the lineage scan under it. *)
ClaimConversation(w) ==
    LET c == turn[w].conv IN
    /\ pc[w] = "opened"
    /\ \/ /\ ConversationFree(c)
          /\ convLock' = [convLock EXCEPT ![c] = w]
          /\ Goto(w, IF MayContinue(w) THEN "naming" ELSE "closing")
       \/ /\ ConversationBusy(c)
          /\ Goto(w, "closing")
          /\ UNCHANGED convLock
    /\ UNCHANGED <<turn, view, todo, barrierShared, barrierOwner, runLock, lockFiles,
                   files, calls, faults>>

(* _claim opens the sidecar first (open_sidecar, creating it if missing)... *)
OpenRunLock(w) ==
    /\ pc[w] = "naming"
    /\ lockFiles' = lockFiles \cup {turn[w].run}
    /\ Goto(w, "owning")
    /\ UNCHANGED <<turn, view, todo, barrierShared, barrierOwner, convLock, runLock,
                   files, calls, faults>>

(* A save request: the new content, and where the caller resumes. *)
Save(w, rec, after) ==
    /\ turn' = [turn EXCEPT ![w].rec = rec, ![w].after = after]
    /\ Goto(w, "write")

(* ... and flocks it in a second call; a reader may hold it just then.      *)
(* The ID is checked again under the lock, then the first save starts.      *)
ClaimRun(w) ==
    LET r == turn[w].run IN
    /\ pc[w] = "owning"
    /\ \/ /\ runLock[r] = None
          /\ runLock' = [runLock EXCEPT ![r] = w]
          /\ IF disk[r] = Absent
             THEN Save(w, [status |-> "prepared", sent |-> FALSE, conv |-> turn[w].conv,
                           parent |-> Parent(w), log |-> 0, reviews |-> 0], "prepared")
             ELSE Goto(w, "closing") /\ UNCHANGED turn
       \/ /\ runLock[r] # None
          /\ Goto(w, "closing")
          /\ UNCHANGED <<turn, runLock>>
    /\ UNCHANGED <<view, todo, barrierShared, barrierOwner, convLock, lockFiles,
                   files, calls, faults>>

-----------------------------------------------------------------------------
(* _save: byte comparison, private temporary file, fsync, byte comparison,  *)
(* rename, directory fsync.  Any failure is final for this WorkSession.     *)

Fault == faults < MaxFaults /\ faults' = faults + 1

FailSave(w) ==
    /\ turn' = [turn EXCEPT ![w].failed = TRUE]
    /\ Goto(w, "closing")

(* The temporary file is invisible; the byte comparison is repeated right   *)
(* before the rename.  The disjunct that fails is an I/O error of any of    *)
(* these calls, or a record that another writer has changed.                *)
ReplaceRecord(w) ==
    LET r == turn[w].run IN
    /\ pc[w] = "write"
    /\ \/ /\ disk[r] = turn[w].expected
          /\ disk' = [disk EXCEPT ![r] = turn[w].rec]
          /\ media' = [media EXCEPT ![r] = @ \cup {turn[w].rec}]
          /\ Goto(w, "sync")
          /\ UNCHANGED <<turn, faults>>
       \/ /\ disk[r] = turn[w].expected => Fault
          /\ disk[r] # turn[w].expected => UNCHANGED faults
          /\ FailSave(w)
          /\ UNCHANGED <<disk, media>>
    /\ UNCHANGED <<view, todo, locks, promised, calls>>

(* One fsync of the directory settles every rename made in it so far. *)
BugNoFsync == media
Settled == [x \in Runs |-> {disk[x]}]

SyncDirectory(w) ==
    LET r == turn[w].run IN
    /\ pc[w] = "sync"
    /\ \/ /\ media' = Settled
          /\ promised' = [promised EXCEPT ![r] = turn[w].rec]
          /\ turn' = [turn EXCEPT ![w].expected = turn[w].rec]
          /\ Goto(w, turn[w].after)
          /\ UNCHANGED faults
       \/ Fault /\ FailSave(w) /\ UNCHANGED <<media, promised>>
    /\ UNCHANGED <<view, todo, locks, disk, calls>>

-----------------------------------------------------------------------------
(* The turn itself: dispatch, observe, complete, __exit__, close *)

BugDispatchInMemory(w) ==
    /\ pc[w] = "prepared"
    /\ turn' = [turn EXCEPT ![w].rec.status = "dispatching", ![w].rec.sent = TRUE]
    /\ Goto(w, "dispatched")
    /\ UNCHANGED <<view, todo, locks, files, calls, faults>>

Dispatch(w) ==
    /\ pc[w] = "prepared"
    /\ Save(w, [turn[w].rec EXCEPT !.status = "dispatching", !.sent = TRUE], "dispatched")
    /\ UNCHANGED <<view, todo, locks, files, calls, faults>>

(* NativeBackend.process hands the text to the core and to the provider. *)
CallHandler(w) ==
    /\ pc[w] = "dispatched"
    /\ calls' = [calls EXCEPT ![turn[w].run] = @ + 1]
    /\ Goto(w, "running")
    /\ UNCHANGED <<turn, view, todo, locks, files, faults>>

(* Progress of skill selection or of the turn; saved, or kept in memory     *)
(* when the last save is less than half a second old.  Rows are added,      *)
(* replaced and, at the limits of the record, evicted: log counts these     *)
(* changes, so that two records differ when their previews do.              *)
Observe(w) ==
    LET rec == [turn[w].rec EXCEPT !.log = @ + 1] IN
    /\ pc[w] \in {"prepared", "running"}
    /\ turn[w].rec.log < MaxLog
    /\ \/ Save(w, rec, pc[w])
       \/ turn' = [turn EXCEPT ![w].rec = rec] /\ UNCHANGED pc
    /\ UNCHANGED <<view, todo, locks, files, calls, faults>>

(* After complete() come only the memory suggestions, whose errors are       *)
(* caught, and the reply: the answer that was saved is not replaced.        *)
BugAnswerMayFail == "running"
AfterAnswer == "closing"

BugCompleteUncalled(w) ==
    /\ pc[w] \in {"dispatched", "running"}
    /\ Save(w, [turn[w].rec EXCEPT !.status = "completed"], AfterAnswer)
    /\ UNCHANGED <<view, todo, locks, files, calls, faults>>

Complete(w) ==
    /\ pc[w] = "running"
    /\ Save(w, [turn[w].rec EXCEPT !.status = "completed"], AfterAnswer)
    /\ UNCHANGED <<view, todo, locks, files, calls, faults>>

(* Any exception of the turn: drift, refusal, provider error, Stop.         *)
(* After a failed save __exit__ writes nothing (FailSave goes to close).    *)
Fail(w) ==
    /\ pc[w] \in {"prepared", "dispatched", "running"}
    /\ Save(w, [turn[w].rec EXCEPT !.status = "error"], "closing")
    /\ UNCHANGED <<view, todo, locks, files, calls, faults>>

Close(w) ==
    /\ pc[w] = "closing"
    /\ ReleaseLocks({w})
    /\ turn' = [turn EXCEPT ![w] = NoTurn]
    /\ Goto(w, "idle")
    /\ UNCHANGED <<view, todo, files, calls, faults>>

-----------------------------------------------------------------------------
(* Reading the journal: page, lookup and inspect, then _active *)

(* The record is read first; the owners are observed afterwards. *)
Read(w, r, after) ==
    /\ view' = [view EXCEPT ![w] = [run |-> r, rec |-> disk[r], active |-> FALSE]]
    /\ todo' = [todo EXCEPT ![w] = lockFiles]
    /\ turn' = [turn EXCEPT ![w].after = after]
    /\ Goto(w, "barrier")
    /\ UNCHANGED <<locks, files, calls, faults>>

OpenPage(w, r) ==
    /\ pc[w] = "idle"
    /\ disk[r] # Absent
    /\ Read(w, r, "idle")

(* _active takes the barrier shared for a moment.  Under a review it finds  *)
(* an empty lock file where an old app kept its run ID, and raises.         *)
ProbeBarrier(w) ==
    /\ pc[w] = "barrier"
    /\ \/ /\ barrierOwner = None
          /\ barrierShared' = barrierShared \cup {w}
          /\ Goto(w, "probe")
          /\ UNCHANGED <<turn, view, todo>>
       \/ /\ barrierOwner # None
          /\ view' = [view EXCEPT ![w] = None]
          /\ todo' = [todo EXCEPT ![w] = {}]
          /\ turn' = [turn EXCEPT ![w] = NoTurn]
          /\ Goto(w, "idle")
          /\ UNCHANGED barrierShared
    /\ UNCHANGED <<barrierOwner, convLock, runLock, lockFiles, files, calls, faults>>

(* The previous descriptor is closed and the next run lock tried with       *)
(* LOCK_EX: busy means active, free means that the reader now holds it.     *)
ProbeRun(w, r) ==
    /\ pc[w] = "probe"
    /\ r \in todo[w]
    /\ todo' = [todo EXCEPT ![w] = @ \ {r}]
    /\ barrierShared' = barrierShared \ {w}
    /\ runLock' = [x \in Runs |-> IF runLock[x] = w THEN None
                                 ELSE IF x = r /\ runLock[r] = None THEN w ELSE runLock[x]]
    /\ view' = IF r = view[w].run /\ runLock[r] # None
               THEN [view EXCEPT ![w].active = TRUE] ELSE view
    /\ UNCHANGED <<pc, turn, barrierOwner, convLock, lockFiles, files, calls, faults>>

FinishRead(w) ==
    /\ pc[w] = "probe"
    /\ todo[w] = {}
    /\ ReleaseLocks({w})
    /\ Goto(w, turn[w].after)
    /\ turn' = [turn EXCEPT ![w] = NoTurn]
    /\ UNCHANGED <<view, todo, files, calls, faults>>

(* _view: the state a row shows *)
Display(v) ==
    CASE v.rec.status = "prepared"    -> IF v.active THEN "preparing" ELSE "not_started"
      [] v.rec.status = "dispatching" -> IF v.active THEN "running" ELSE "unknown"
      [] v.rec.status = "error"       -> IF v.rec.sent THEN "unknown" ELSE "not_started"
      [] OTHER                        -> "completed"

-----------------------------------------------------------------------------
(* record_review: one metadata write under the exclusive barrier *)

(* inspect() compares the fingerprint and observes the owners as page does. *)
StartReview(w) ==
    /\ pc[w] = "idle"
    /\ view[w] # None
    /\ disk[view[w].run] = view[w].rec
    /\ Read(w, view[w].run, "review")

BugSharedReview == TRUE
BarrierFree == barrierShared = {} /\ barrierOwner = None

LockReview(w) ==
    /\ pc[w] = "review"
    /\ \/ /\ BarrierFree
          /\ barrierOwner' = w
          /\ Goto(w, "reviewing")
       \/ /\ barrierShared # {} \/ barrierOwner # None
          /\ Goto(w, "idle")
          /\ UNCHANGED barrierOwner
    /\ UNCHANGED <<turn, view, todo, barrierShared, convLock, runLock, lockFiles,
                   files, calls, faults>>

BugAnyFingerprint(rec, shown) == TRUE
SameFingerprint(rec, shown) == rec = shown
BugOneReviewMore(rec) == rec.reviews <= MaxReviews
ReviewRoom(rec) == rec.reviews < MaxReviews

(* Re-read under the lock; only the completed record the operator saw.      *)
Review(w) ==
    LET r == view[w].run  rec == disk[r] IN
    /\ pc[w] = "reviewing"
    /\ \/ /\ SameFingerprint(rec, view[w].rec)
          /\ rec.status = "completed"
          /\ ReviewRoom(rec)
          /\ turn' = [turn EXCEPT ![w] = [NoTurn EXCEPT
                        !.run = r, !.expected = rec, !.after = "closing",
                        !.rec = [rec EXCEPT !.reviews = @ + 1]]]
          /\ Goto(w, "write")
       \/ /\ ~ /\ SameFingerprint(rec, view[w].rec)
               /\ rec.status = "completed"
               /\ ReviewRoom(rec)
          /\ Goto(w, "closing")
          /\ UNCHANGED turn
    /\ UNCHANGED <<view, todo, locks, files, calls, faults>>

-----------------------------------------------------------------------------
(* Failures of the environment *)

(* The window's process is killed and later started again: it has lost its  *)
(* memory and its locks, and left the files as they are.                    *)
Crash(w) ==
    /\ Fault
    /\ pc[w] # "idle"
    /\ ReleaseLocks({w})
    /\ pc' = [pc EXCEPT ![w] = "idle"]
    /\ turn' = [turn EXCEPT ![w] = NoTurn]
    /\ view' = [view EXCEPT ![w] = None]
    /\ todo' = [todo EXCEPT ![w] = {}]
    /\ UNCHANGED <<files, calls>>

(* Every process ends and each record keeps one of its possible contents.   *)
PowerLoss ==
    /\ Fault
    /\ \E content \in [Runs -> UNION {media[r] : r \in Runs}] :
         /\ \A r \in Runs : content[r] \in media[r]
         /\ disk' = content
         /\ media' = [r \in Runs |-> {content[r]}]
    /\ ReleaseLocks(Windows)
    /\ pc' = [w \in Windows |-> "idle"]
    /\ turn' = [w \in Windows |-> NoTurn]
    /\ view' = [w \in Windows |-> None]
    /\ todo' = [w \in Windows |-> {}]
    /\ UNCHANGED <<promised, calls>>

-----------------------------------------------------------------------------
(* Steps that need no one else: the window's own code runs on. *)
WindowStep(w) ==
    \/ ClaimConversation(w) \/ OpenRunLock(w) \/ ClaimRun(w)
    \/ ReplaceRecord(w) \/ SyncDirectory(w)
    \/ Dispatch(w) \/ CallHandler(w) \/ Close(w)
    \/ ProbeBarrier(w) \/ FinishRead(w)
    \/ \E r \in Runs : ProbeRun(w, r)
    \/ LockReview(w) \/ Review(w)

(* Requests of the client, the answer of the provider, failures. *)
Request(w) ==
    \/ \E r \in Runs, c \in Conversations, from \in {None, view[w]} : Begin(w, r, c, from)
    \/ \E r \in Runs : OpenPage(w, r)
    \/ StartReview(w)

Outcome(w) == Observe(w) \/ Complete(w) \/ Fail(w)

Next ==
    \/ \E w \in Windows : WindowStep(w) \/ Request(w) \/ Outcome(w) \/ Crash(w)
    \/ PowerLoss

Spec == Init /\ [][Next]_vars

(* A live process executes its next instruction; nothing is assumed of the  *)
(* provider, of the operator or of crashes.                                 *)
FairSpec == Spec /\ \A w \in Windows : WF_vars(WindowStep(w))

-----------------------------------------------------------------------------
(* Properties *)

Rank(status) == CASE status = "prepared" -> 0
                  [] status = "dispatching" -> 1
                  [] OTHER -> 2

(* new is old with more evidence: a later state of the same run. *)
Follows(old, new) ==
    /\ new.conv = old.conv /\ new.parent = old.parent
    /\ Rank(old.status) <= Rank(new.status)
    /\ Rank(old.status) = 2 => new.status = old.status
    /\ old.sent => new.sent
    /\ old.log <= new.log /\ old.reviews <= new.reviews

(* The journal implements its ledger (RunLedger): what a save has           *)
(* acknowledged and what the handler was given change only as the ledger    *)
(* allows, whatever fails in between (WorkSession, record_review).          *)
Ledger == INSTANCE RunLedger WITH saved <- promised, Records <- Record

KeepsTheLedger == Ledger!Spec

(* A run ID reaches the turn handler at most once, whatever is submitted    *)
(* twice, crashes, or loses power (WorkSession.__enter__, dispatch).        *)
AtMostOneCall == \A r \in Runs : calls[r] <= 1

(* When the handler has been called, no failure can leave a journal that    *)
(* does not show the dispatch (dispatch() before the provider call).        *)
EvidenceBeforeCall ==
    \A r \in Runs : calls[r] > 0 =>
        \A v \in media[r] : v # Absent /\ v.sent

(* Content whose save has returned is never lost, overtaken or rewritten:   *)
(* a completed answer stays completed and a review stays (_save).           *)
SavedIsDurable ==
    \A r \in Runs : promised[r] # Absent =>
        \A v \in media[r] : v # Absent /\ Follows(promised[r], v)

(* The locks alone keep every writer's copy fresh: the byte comparison of   *)
(* _save never meets a record changed by another window.                    *)
WriterIsFresh ==
    \A w \in Windows : pc[w] = "write" =>
        disk[turn[w].run] = turn[w].expected

(* A parent has at most one continuation on disk (_parent under the         *)
(* conversation lock).                                                      *)
OneContinuation ==
    \A r, s \in Runs :
        /\ disk[r] # Absent /\ disk[s] # Absent
        /\ disk[r].parent = disk[s].parent /\ disk[r].parent # None
        => r = s

(* A continued run has no writer any more: its evidence cannot change under *)
(* the child that was prepared from it (conversation lock and barrier).     *)
ContinuedIsSettled ==
    \A r \in Runs : promised[r] # Absent /\ promised[r].parent # None =>
        \A w \in Windows :
            turn[w].conv # None /\ turn[w].run = promised[r].parent
            => turn[w].rec = Absent

(* A continuation or a review becomes visible only while the record it      *)
(* refers to is byte for byte the one the operator was shown (fingerprint   *)
(* checks of _parent and record_review, kept true by the locks).            *)
ActsOnWhatWasShown ==
    [][\A w \in Windows : pc[w] = "write" /\ pc'[w] = "sync" =>
          /\ Parent(w) # None /\ disk[turn[w].run] = Absent =>
                disk[Parent(w)] = turn[w].from.rec
          /\ turn[w].rec.reviews > 0 => disk[turn[w].run] = view[w].rec]_vars

(* "A stopped/vanished writer with no dispatch is not_started": a row that  *)
(* shows "The request was not sent" belongs to a run that was not sent.     *)
NotStartedWasNotSent ==
    \A w \in Windows :
        pc[w] \notin ReadStates /\ view[w] # None /\ Display(view[w]) = "not_started"
        => calls[view[w].run] = 0

(* No request waits for another window: with every lock taken non-blocking, *)
(* a request ends or is waiting for its own turn handler.                   *)
NoRequestWaits ==
    \A w \in Windows : pc[w] # "idle" ~> pc[w] \in {"idle", "running"}
=============================================================================
