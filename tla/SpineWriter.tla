---------------------------- MODULE SpineWriter ----------------------------
(***************************************************************************)
(* The single-turn Session Spine writer (native_session_spine_writer.py,   *)
(* session_spine_intent.py, _handshake.py, _forward.py, _store.py, with    *)
(* SessionSpineFlowModel, Acceptance and Durability of the client).        *)
(*                                                                         *)
(* A process is a client and its bridge; processes share the state root:   *)
(* the saved history, the installation identity, the intent store and the  *)
(* Spine of one conversation.  A turn is known by the run that made it,    *)
(* and runs are numbered in the order of the chat.  Bytes and hashes are   *)
(* abstracted to what they depend on: the sources to their version, an     *)
(* image of the Spine to the turns in it.  One fsync makes durable what    *)
(* was written before it; the entries of the intent store count as durable *)
(* as soon as they are visible.                                            *)
(***************************************************************************)
EXTENDS Naturals, Sequences

CONSTANTS
    Procs,
    NoProc,
    NRuns,        \* completed runs the chat may get
    MaxChanges,   \* bound: changes of the history or of a Work Session
    MaxFaults,    \* bound: writes that are interrupted, losses of power
    PowerFails    \* whether the power may be lost

ASSUME SpineWriterAssumption ==
    /\ NRuns \in Nat \ {0} /\ MaxChanges \in Nat /\ MaxFaults \in Nat
    /\ PowerFails \in BOOLEAN
    /\ NoProc \notin Procs

Runs == 1..NRuns

(* An image of the Spine that parses: what a plan is computed from. *)
Images == [exists : BOOLEAN, turns : Seq(Runs)]
Absent == [exists |-> FALSE, turns |-> <<>>]

(* The Spine's files: no data ("none"), its lock without data ("lock"), a   *)
(* part of the header ("torn") or the header ("ok") with the turns after it *)
(* and perhaps a part of one more (tail).                                   *)
Files == [head : {"none", "lock", "torn", "ok"}, turns : Seq(Runs), tail : BOOLEAN]
NoFile == [head |-> "none", turns |-> <<>>, tail |-> FALSE]

(* A prepared intent: the turn, the version of its sources and the image    *)
(* the turn is to be added to.                                              *)
Intents == [run : {0} \cup Runs, ver : 0..MaxChanges, pre : Images]
NoIntent == [run |-> 0, ver |-> 0, pre |-> Absent]

(* How an apply ended: it added the turn, it found the planned bytes there, *)
(* it found the turn committed, or it found the intent closed.              *)
Results == {"added", "found", "recovered", "closed"}
Markers == [id : Intents, by : Results, ver : 0..MaxChanges]

HandshakeStates == {"MANUAL", "COMMITTED", "DRIFT", "STALE", "READY"}
Views == [run : Runs, ver : 0..MaxChanges, fresh : BOOLEAN, known : BOOLEAN,
          id : Intents, state : {"none"} \cup HandshakeStates]

Running == {"find", "handshake", "prepare", "inspect", "classify", "recheck",
            "open", "append", "verify", "mark", "finish"}
Places == {"idle", "shown", "confirmed", "identified"} \cup Running

VARIABLES
    latest, ver,        \* the latest saved run, the version of the sources
    ident,              \* the identity: "none", "made", or beside a leftover file
    idir,               \* the intent store: "none", without its lock ("bare"), "ready",
                        \* or with a leftover file ("littered")
    intents, markers,   \* prepared and committed records
    spine, durable,     \* the Spine, and what of it survives a loss of power
    spineLock,
    pc, view, plan, by, \* a process: where it is, its preview, its intent, its result
    receipts,           \* history: the receipts that were returned
    faults

sources == <<latest, ver>>
records == <<ident, idir, intents, markers>>
files   == <<spine, durable, spineLock>>
proc    == <<pc, view, plan, by>>
vars    == <<sources, records, files, proc, receipts, faults>>

(* Types. *)
TypeOK ==
    /\ latest \in Runs /\ ver \in 0..MaxChanges
    /\ ident \in {"none", "made", "littered"}
    /\ idir \in {"none", "bare", "ready", "littered"}
    /\ intents \subseteq Intents /\ markers \subseteq Markers
    /\ spine \in Files /\ durable \in Files
    /\ spineLock \in {NoProc} \cup Procs
    /\ pc \in [Procs -> Places]
    /\ view \in [Procs -> Views] /\ plan \in [Procs -> Intents]
    /\ by \in [Procs -> {"none"} \cup Results]
    /\ receipts \subseteq [run : Runs, by : Results]
    /\ faults \in 0..MaxFaults

Init ==
    /\ latest = 1 /\ ver = 0
    /\ ident = "none" /\ idir = "none" /\ intents = {} /\ markers = {}
    /\ spine = NoFile /\ durable = NoFile /\ spineLock = NoProc
    /\ pc = [p \in Procs |-> "idle"]
    /\ view = [p \in Procs |-> [run |-> 1, ver |-> 0, fresh |-> TRUE, known |-> FALSE,
                                id |-> NoIntent, state |-> "none"]]
    /\ plan = [p \in Procs |-> NoIntent] /\ by = [p \in Procs |-> "none"]
    /\ receipts = {} /\ faults = 0

-----------------------------------------------------------------------------
(* What a reader sees *)

Image(f) == IF f.head = "ok" THEN [exists |-> TRUE, turns |-> f.turns] ELSE Absent

(* The image once the intent is applied. *)
Candidate(i) == [exists |-> TRUE, turns |-> Append(i.pre.turns, i.run)]

Has(f, r) == \E k \in 1..Len(f.turns) : f.turns[k] = r

(* Missing, or parsed up to a verified record boundary. *)
AtBoundary(f) == f.head \in {"none", "ok"} /\ ~f.tail

(* Mutant: the Spine is read without its shared lock. *)
BugReadable == AtBoundary(spine)

Readable == spineLock = NoProc /\ AtBoundary(spine)

Catalogued == idir \in {"none", "ready"}

Of(r) == {i \in intents : i.run = r}
Marked(i) == \E m \in markers : m.id = i

(* inspect_native_turn_handshake, for sources of version v. *)
HandshakeState(i, v) ==
    IF ~Readable THEN "MANUAL"
    ELSE IF Has(spine, i.run) THEN "COMMITTED"
    ELSE IF v # i.ver THEN "DRIFT"
    ELSE IF Image(spine) # i.pre THEN "STALE"
    ELSE "READY"

(* Acceptance needs both directories clean, a recovery exactly one intent    *)
(* of the turn that can be completed.                                        *)
FreshOffered == ident # "littered" /\ idir = "none" /\ spine.head = "none"

Recoverable(i) ==
    /\ ident = "made" /\ idir = "ready"
    /\ Of(latest) = {i} /\ ~Marked(i)
    /\ HandshakeState(i, ver) \in {"READY", "COMMITTED"}

Intent(r, v, image) == [run |-> r, ver |-> v, pre |-> image]

FreshView ==
    [run |-> latest, ver |-> ver, fresh |-> TRUE, known |-> ident = "made",
     id |-> IF ident = "made" THEN Intent(latest, ver, Absent) ELSE NoIntent,
     state |-> "none"]

RecoveryView(i) ==
    [run |-> latest, ver |-> ver, fresh |-> FALSE, known |-> TRUE,
     id |-> i, state |-> HandshakeState(i, ver)]

(* Previews that carry a confirmation token. *)
Offers == {v \in {FreshView} : FreshOffered}
          \cup {RecoveryView(i) : i \in {j \in intents : Recoverable(j)}}

-----------------------------------------------------------------------------
(* The sources *)

(* locked_history_read: a running apply shares the lock of the history. *)
Busy == \E p \in Procs : pc[p] \in Running

(* A save of the history takes its lock for itself. *)
SaveHistory ==
    /\ ~Busy /\ ver < MaxChanges /\ ver' = ver + 1
    /\ latest' \in {latest, latest + 1} \cap Runs
    /\ UNCHANGED <<records, files, proc, receipts, faults>>

(* A review of the run changes its Work Session at any time. *)
Review ==
    /\ ver < MaxChanges /\ ver' = ver + 1
    /\ UNCHANGED <<latest, records, files, proc, receipts, faults>>

-----------------------------------------------------------------------------
(* The client *)

Go(p, place) == pc' = [pc EXCEPT ![p] = place]

OpenWriter(p) ==
    /\ pc[p] = "idle" /\ Go(p, "shown")
    /\ \E v \in Offers : view' = [view EXCEPT ![p] = v]
    /\ UNCHANGED <<sources, records, files, plan, by, receipts, faults>>

(* The phrase is accepted and a second preview is the same. *)
Confirm(p) ==
    /\ pc[p] = "shown" /\ view[p] \in Offers /\ Go(p, "confirmed")
    /\ UNCHANGED <<sources, records, files, view, plan, by, receipts, faults>>

(* The history is saved under its lock and is what the preview showed; then *)
(* the identity is loaded, or created once.  (Whether it was there is read  *)
(* before: two processes may each believe that they created it.)            *)
SaveAndIdentify(p) ==
    /\ pc[p] = "confirmed" /\ Go(p, "identified")
    /\ ~Busy /\ view[p].run = latest
    /\ ident # "littered" /\ ident' = "made"
    /\ UNCHANGED <<sources, idir, intents, markers, files, view, plan, by, receipts, faults>>

-----------------------------------------------------------------------------
(* apply_native_session_spine_writer, under the shared lock of the history *)

(* The sources are still those of the preview. *)
BeginApply(p) ==
    /\ pc[p] = "identified" /\ Go(p, "find")
    /\ ident = "made" /\ view[p].run = latest /\ view[p].ver = ver
    /\ plan' = [plan EXCEPT ![p] = NoIntent] /\ by' = [by EXCEPT ![p] = "none"]
    /\ UNCHANGED <<sources, records, files, view, receipts, faults>>

(* find_by_source: one intent claims the turn, or there is none at all. *)
FindBySource(p) ==
    /\ pc[p] = "find" /\ Catalogued
    /\ \/ intents = {} /\ view[p].fresh /\ Go(p, "handshake") /\ UNCHANGED plan
       \/ \E i \in intents :
             /\ Of(view[p].run) = {i}
             /\ view[p].fresh => view[p].id \in {NoIntent, i}
             /\ plan' = [plan EXCEPT ![p] = i] /\ Go(p, "inspect")
    /\ UNCHANGED <<sources, records, files, view, by, receipts, faults>>

(* prepare_native_turn_handshake: the turn is not in the Spine yet. *)
Handshake(p) ==
    /\ pc[p] = "handshake" /\ Go(p, "prepare")
    /\ Readable /\ ~Has(spine, view[p].run)
    /\ plan' = [plan EXCEPT ![p] = Intent(view[p].run, view[p].ver, Image(spine))]
    /\ UNCHANGED <<sources, records, files, view, by, receipts, faults>>

(* SessionSpineIntentStore.prepare: equal bytes are not written again. *)
Prepare(p) ==
    /\ pc[p] = "prepare" /\ Go(p, "inspect")
    /\ idir # "littered" /\ idir' = "ready"
    /\ intents' = intents \cup {plan[p]}
    /\ UNCHANGED <<sources, ident, markers, files, view, plan, by, receipts, faults>>

(* inspect_native_turn_intent: a closed intent ends the apply. *)
Inspect(p) ==
    /\ pc[p] = "inspect" /\ idir = "ready" /\ plan[p] \in intents
    /\ LET s == HandshakeState(plan[p], view[p].ver) IN
          \/ /\ Marked(plan[p]) /\ s = "COMMITTED"
             /\ by' = [by EXCEPT ![p] = "closed"] /\ Go(p, "finish")
          \/ /\ ~Marked(plan[p]) /\ s \in {"READY", "COMMITTED"}
             /\ Go(p, "classify") /\ UNCHANGED by
    /\ UNCHANGED <<sources, records, files, view, plan, receipts, faults>>

(* apply_native_turn_handshake reads again; when READY, the forward plan it *)
(* computes must be the one of the handshake.                               *)
Classify(p) ==
    /\ pc[p] = "classify"
    /\ \/ /\ HandshakeState(plan[p], view[p].ver) = "COMMITTED"
          /\ by' = [by EXCEPT ![p] = "recovered"] /\ Go(p, "mark")
       \/ /\ HandshakeState(plan[p], view[p].ver) = "READY"
          /\ Go(p, "recheck") /\ UNCHANGED by
    /\ UNCHANGED <<sources, records, files, view, plan, receipts, faults>>

(* apply_forward_native_turn: the planned bytes are there already, or the   *)
(* image is still the one of the plan.                                      *)
Recheck(p) ==
    /\ pc[p] = "recheck" /\ Readable
    /\ \/ /\ Image(spine) = Candidate(plan[p])
          /\ by' = [by EXCEPT ![p] = "found"] /\ Go(p, "verify")
       \/ Image(spine) = plan[p].pre /\ Go(p, "open") /\ UNCHANGED by
    /\ UNCHANGED <<sources, records, files, view, plan, receipts, faults>>

(* Mutant: the new file is opened even if it exists. *)
BugCreatable(i) == ~i.pre.exists /\ spineLock = NoProc

Creatable(i) == ~i.pre.exists /\ spineLock = NoProc /\ spine.head \in {"none", "lock"}

Acquire(p) == spineLock' = p /\ Go(p, "append")

(* SessionSpineWriter.__enter__ of a new session: lock, header, fsync. *)
Create(p) ==
    /\ pc[p] = "open" /\ Creatable(plan[p]) /\ Acquire(p)
    /\ spine' = [spine EXCEPT !.head = "ok"] /\ durable' = spine'
    /\ UNCHANGED <<sources, records, view, plan, by, receipts, faults>>

(* ... of an existing one, whose bytes must still be those of the plan. *)
Open(p) ==
    /\ pc[p] = "open" /\ plan[p].pre.exists
    /\ Readable /\ Image(spine) = plan[p].pre /\ Acquire(p)
    /\ UNCHANGED <<sources, records, spine, durable, view, plan, by, receipts, faults>>

Extended(p) == [spine EXCEPT !.turns = Append(@, plan[p].run)]

(* Mutant: the turn is written without a sync. *)
BugAppendTurn(p) ==
    /\ pc[p] = "append" /\ Go(p, "verify")
    /\ spine' = Extended(p) /\ spineLock' = NoProc
    /\ by' = [by EXCEPT ![p] = "added"]
    /\ UNCHANGED <<sources, records, durable, view, plan, receipts, faults>>

(* append_turn: one write, one fsync; the writer is closed. *)
AppendTurn(p) ==
    /\ pc[p] = "append" /\ Go(p, "verify")
    /\ spine' = Extended(p) /\ durable' = spine' /\ spineLock' = NoProc
    /\ by' = [by EXCEPT ![p] = "added"]
    /\ UNCHANGED <<sources, records, view, plan, receipts, faults>>

(* The Spine is now exactly what was planned. *)
Verify(p) ==
    /\ pc[p] = "verify" /\ Go(p, "mark")
    /\ Readable /\ Image(spine) = Candidate(plan[p])
    /\ UNCHANGED <<sources, records, files, view, plan, by, receipts, faults>>

Marker(p) == [id |-> plan[p], by |-> by[p], ver |-> view[p].ver]

(* commit: a marker is written once; another one may only be equal. *)
Mark(p) ==
    /\ pc[p] = "mark" /\ Go(p, "finish")
    /\ idir = "ready" /\ plan[p] \in intents
    /\ \A m \in markers : m.id = plan[p] => m = Marker(p)
    /\ markers' = markers \cup {Marker(p)}
    /\ UNCHANGED <<sources, ident, idir, intents, files, view, plan, by, receipts, faults>>

(* The last inspection finds the intent CLOSED; the receipt is returned. *)
Finish(p) ==
    /\ pc[p] = "finish" /\ Go(p, "idle")
    /\ idir = "ready" /\ Marked(plan[p])
    /\ HandshakeState(plan[p], view[p].ver) = "COMMITTED"
    /\ receipts' = receipts \cup {[run |-> view[p].run, by |-> by[p]]}
    /\ UNCHANGED <<sources, records, files, view, plan, by, faults>>

-----------------------------------------------------------------------------
(* Errors and faults *)

(* The sheet is closed, a check fails, a lock is busy, a read fails or the  *)
(* process ends: nothing was written by this step.                          *)
GiveUp(p) ==
    /\ pc[p] \notin {"idle", "append"} /\ Go(p, "idle")
    /\ UNCHANGED <<sources, records, files, view, plan, by, receipts, faults>>

Fault == faults < MaxFaults /\ faults' = faults + 1

(* What an interrupted write of a record leaves: its temporary file, the    *)
(* lock alone, the directory alone.                                         *)
Leaves(written) ==
    \/ idir' \in {"ready", "littered"}
    \/ idir' = "bare" /\ idir = "none" /\ ~written

InterruptIdentity(p) ==
    /\ pc[p] = "confirmed" /\ Go(p, "idle") /\ Fault
    /\ ~Busy /\ view[p].run = latest
    /\ ident = "none" /\ ident' \in {"made", "littered"}
    /\ UNCHANGED <<sources, idir, intents, markers, files, view, plan, by, receipts>>

InterruptPrepare(p) ==
    /\ pc[p] = "prepare" /\ Go(p, "idle") /\ Fault
    /\ idir # "littered"
    /\ \/ intents' = intents /\ Leaves(FALSE)
       \/ intents' = intents \cup {plan[p]} /\ Leaves(TRUE)
    /\ UNCHANGED <<sources, ident, markers, files, view, plan, by, receipts>>

InterruptMark(p) ==
    /\ pc[p] = "mark" /\ Go(p, "idle") /\ Fault
    /\ idir = "ready" /\ plan[p] \in intents /\ ~Marked(plan[p])
    /\ markers' \in {markers, markers \cup {Marker(p)}}
    /\ idir' \in {"ready", "littered"}
    /\ UNCHANGED <<sources, ident, intents, files, view, plan, by, receipts>>

(* What was written may or may not be on the disk. *)
InterruptCreate(p) ==
    /\ pc[p] = "open" /\ Creatable(plan[p]) /\ Go(p, "idle") /\ Fault
    /\ \E h \in {"lock", "torn", "ok"} : spine' = [spine EXCEPT !.head = h]
    /\ durable' \in {durable, spine'}
    /\ UNCHANGED <<sources, records, spineLock, view, plan, by, receipts>>

(* Rolled back, torn, or whole. *)
InterruptAppend(p) ==
    /\ pc[p] = "append" /\ Go(p, "idle") /\ Fault
    /\ spine' \in {spine, [spine EXCEPT !.tail = TRUE], Extended(p)}
    /\ durable' \in {durable, spine'} /\ spineLock' = NoProc
    /\ UNCHANGED <<sources, records, view, plan, by, receipts>>

(* Without power every process has ended; of what was not synced, all, a    *)
(* part or nothing is left.                                                 *)
PowerLoss ==
    /\ PowerFails /\ Fault /\ \A p \in Procs : pc[p] = "idle"
    /\ \/ spine' \in {durable, spine}
       \/ durable.head # spine.head /\ spine' = [durable EXCEPT !.head = "torn"]
       \/ /\ durable.turns # spine.turns
          /\ \E t \in BOOLEAN :
                spine' = [spine EXCEPT !.turns = durable.turns, !.tail = t]
    /\ durable' = spine'
    /\ UNCHANGED <<sources, records, spineLock, proc, receipts>>

-----------------------------------------------------------------------------

ClientStep(p) == OpenWriter(p) \/ Confirm(p) \/ SaveAndIdentify(p)

ApplyStep(p) ==
    \/ BeginApply(p) \/ FindBySource(p) \/ Handshake(p) \/ Prepare(p)
    \/ Inspect(p) \/ Classify(p) \/ Recheck(p) \/ Create(p) \/ Open(p)
    \/ AppendTurn(p) \/ Verify(p) \/ Mark(p) \/ Finish(p)

FaultStep(p) ==
    \/ GiveUp(p) \/ InterruptIdentity(p) \/ InterruptPrepare(p) \/ InterruptMark(p)
    \/ InterruptCreate(p) \/ InterruptAppend(p)

Next ==
    \/ SaveHistory \/ Review \/ PowerLoss
    \/ \E p \in Procs : ClientStep(p) \/ ApplyStep(p) \/ FaultStep(p)

Spec == Init /\ [][Next]_vars

-----------------------------------------------------------------------------
(* Properties *)

(* The writer cannot ingest a second turn: whatever is confirmed, raced or  *)
(* recovered, the Spine holds one turn at most and every intent is of that  *)
(* turn.                                                                    *)
OneTurn ==
    /\ Len(spine.turns) <= 1
    /\ \A i, j \in intents : i.run = j.run

(* Nothing of a turn is in the Spine, not even a torn part of it, before    *)
(* its intent is prepared, although several processes read the stores       *)
(* before either writes.                                                    *)
IntentFirst ==
    /\ \A r \in Runs : Has(spine, r) => Of(r) # {}
    /\ spine.tail => intents # {}

(* Without an interrupted write, two processes that find no intent for the  *)
(* same turn prepare the same one: neither sees what the other has begun to *)
(* write in the Spine.  (Two intents of one turn block it for good.)        *)
OneIntentPerTurn == faults = 0 => \A i, j \in intents : i.run = j.run => i = j

(* A turn that an apply wrote itself and gave a receipt for survives a loss *)
(* of power, whatever was interrupted before.                               *)
OwnWriteSurvives ==
    \A r \in receipts : r.by = "added" => Has(spine, r.run) /\ Has(durable, r.run)

(* The record the writer keeps, for processes that may end at any point and *)
(* a machine that may lose its power.                                       *)
Record == INSTANCE SpineRecord WITH
    intended <- {i.run : i \in intents},
    log      <- spine.turns,
    synced   <- durable.turns,
    closed   <- {m.id.run : m \in markers},
    broken   <- spine.tail

(* The writer implements that record, whatever is raced, interrupted or     *)
(* recovered: a turn is prepared, enters once, is closed while it is there, *)
(* is not added to a torn end, and once synced it stays.                    *)
KeepsTheRecord == Record!Spec
=============================================================================
