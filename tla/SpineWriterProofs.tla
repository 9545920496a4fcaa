------------------------- MODULE SpineWriterProofs -------------------------
(***************************************************************************)
(* Proofs about SpineWriter, for any number of processes, runs, changes    *)
(* and interrupted writes, with losses of power where the constant allows  *)
(* them.                                                                   *)
(*                                                                         *)
(* The argument.  An apply holds the shared lock of the history, so all    *)
(* that run at one time are for the latest run, the one of their preview   *)
(* (OneSource).  An intent is prepared only when there is none or the one  *)
(* for the same run, from a Spine whose turns are all intended: the first  *)
(* intent fixes the turn, and the image every intent was made of has no    *)
(* turns (OneIntended).  A turn is written only under the Spine's own      *)
(* lock, by a process that saw no turn after it took the lock (Exclusive); *)
(* hence what the files hold is nothing or that turn (WellFormed), the     *)
(* disk's copy lags behind what is visible but never differs (Visible),    *)
(* and a turn once seen stays (Kept).  The applies of one time are for one *)
(* version of the sources, too (OneVersion), and without a fault none of   *)
(* them sees a header alone (Untroubled): so they make one intent.         *)
(***************************************************************************)
EXTENDS SpineWriter, TLAPS

(* An apply finds an intent or prepares one before it inspects it. *)
Prepared == {"inspect", "classify", "recheck", "open", "append", "verify", "mark", "finish"}

(* The turn of an apply at these places is in the Spine. *)
Entered == {"verify", "mark", "finish"}

(* The history is locked while an apply runs, so they all run for the latest *)
(* turn.                                                                     *)
OneSource == \A p \in Procs : pc[p] \in Running => view[p].run = latest

(* All intents are of one turn, prepared for a Spine without turns. *)
OneIntended ==
    /\ \A i, j \in intents : i.run = j.run
    /\ \A i \in intents : i.run \in Runs /\ i.pre.turns = <<>>
    /\ \A p \in Procs :
          /\ pc[p] \in {"handshake", "prepare"} => \A i \in intents : i.run = view[p].run
          /\ pc[p] = "prepare" => plan[p].run = view[p].run /\ plan[p].pre.turns = <<>>
          /\ pc[p] \in Prepared => plan[p] \in intents /\ plan[p].run = view[p].run

(* Turns stand after a whole header and are intended. *)
WellFormed(f) ==
    /\ f.turns # <<>> => f.head = "ok" /\ ~f.tail /\ \E i \in intents : f.turns = <<i.run>>
    /\ f.tail => f.head = "ok" /\ intents # {}

(* What is durable is visible. *)
Visible ==
    /\ durable.turns # <<>> => durable.turns = spine.turns
    /\ durable.tail => spine.tail

(* The lock of the Spine keeps the others away from what its holder saw. *)
Exclusive ==
    \A p \in Procs : pc[p] = "append" =>
        spineLock = p /\ spine.head = "ok" /\ spine.turns = <<>> /\ ~spine.tail

(* What the files hold, and who may change it. *)
FilesHold == WellFormed(spine) /\ WellFormed(durable) /\ Visible /\ Exclusive

(* A turn that was seen stays, and so does the disk's copy of a turn that    *)
(* was synced.                                                               *)
Kept ==
    /\ \A p \in Procs : pc[p] \in Entered =>
          /\ spine.turns = <<view[p].run>> /\ by[p] \in Results
          /\ by[p] = "added" => durable.turns = <<view[p].run>>
    /\ \A r \in receipts :
          r.by = "added" => spine.turns = <<r.run>> /\ durable.turns = <<r.run>>

(* A marker is of an intent, and of the turn that is there unless the power  *)
(* was lost.                                                                 *)
MarkersHold ==
    \A m \in markers : m.id \in intents /\ (PowerFails \/ spine.turns = <<m.id.run>>)

IInv ==
    /\ TypeOK /\ OneSource /\ OneIntended
    /\ FilesHold /\ Kept /\ MarkersHold

(* Nobody identifies a writer while an apply runs, so the others that may    *)
(* still begin hold no later preview: all applies at one time are for the    *)
(* same version.                                                             *)
OneVersion ==
    \A p \in Procs :
        /\ view[p].ver <= ver
        /\ pc[p] \in Running => \A q \in Procs :
              pc[q] \in Running \cup {"identified"} => view[q].ver <= view[p].ver

(* Without an interrupted write a header stands alone only under the lock,   *)
(* and so every handshake is for a Spine that is absent.                     *)
FromScratch(p) == Intent(view[p].run, view[p].ver, Absent)
Untroubled ==
    faults = 0 =>
        /\ spine.head = "ok" /\ spineLock = NoProc => spine.turns # <<>>
        /\ \A i, j \in intents : i = j
        /\ \A p \in Procs :
              /\ pc[p] \in {"handshake", "prepare"} => intents \subseteq {FromScratch(p)}
              /\ pc[p] = "prepare" => plan[p] = FromScratch(p)
-----------------------------------------------------------------------------
(* Operators *)

(* The count of the faults. *)
LEMMA FaultType ==
    ASSUME TypeOK, Fault
    PROVE  faults' \in 0..MaxFaults /\ faults' # 0
BY SpineWriterAssumption DEF TypeOK, Fault

(* What a file of one turn has. *)
LEMMA HasOne ==
    ASSUME NEW f, NEW r, NEW s
    PROVE  /\ f.turns = <<>> => ~Has(f, s)
           /\ f.turns = <<r>> => (Has(f, s) <=> s = r)
BY DEF Has

(* The candidate of an intent for a Spine without turns. *)
LEMMA CandidateTurns ==
    ASSUME NEW i, i.pre.turns = <<>>
    PROVE  Candidate(i) = [exists |-> TRUE, turns |-> <<i.run>>]
BY DEF Candidate

(* The image of the Spine's files. *)
LEMMA ImageOf ==
    ASSUME spine \in Files
    PROVE  /\ Image(spine) \in Images
           /\ spine.turns = <<>> => Image(spine).turns = <<>>
           /\ \A s : Image(spine) = [exists |-> TRUE, turns |-> s] =>
                 spine.turns = s /\ spine.head = "ok"
BY DEF Files, Image, Images, Absent

(* What a handshake state says of the Spine. *)
LEMMA StateMeans ==
    ASSUME NEW i, NEW v
    PROVE  /\ HandshakeState(i, v) \in HandshakeStates
           /\ HandshakeState(i, v) = "COMMITTED" => Has(spine, i.run)
           /\ HandshakeState(i, v) = "READY" => Image(spine) = i.pre
BY DEF HandshakeState, HandshakeStates

(* A turn that is committed is the only one. *)
LEMMA CommittedTurn ==
    ASSUME OneIntended, WellFormed(spine), NEW i \in intents, NEW v,
           HandshakeState(i, v) = "COMMITTED"
    PROVE  spine.turns = <<i.run>>
<1>1. Has(spine, i.run)
    BY StateMeans
<1>2. spine.turns # <<>>
    BY <1>1, HasOne
<1> QED
    BY <1>2 DEF WellFormed, OneIntended

(* The file with the turn of a writer that holds the lock. *)
LEMMA ExtendedBy ==
    ASSUME TypeOK, OneIntended, Exclusive, NEW p \in Procs, pc[p] = "append"
    PROVE  /\ Extended(p) \in Files
           /\ Extended(p).head = "ok" /\ ~Extended(p).tail
           /\ Extended(p).turns = <<view[p].run>>
           /\ plan[p] \in intents /\ plan[p].run = view[p].run
<1>1. /\ spine.turns = <<>> /\ spine.head = "ok" /\ ~spine.tail
      /\ plan[p] \in intents /\ plan[p].run = view[p].run /\ view[p].run \in Runs
    BY DEF Exclusive, OneIntended, Prepared
<1>2. Append(spine.turns, plan[p].run) = <<view[p].run>>
    BY <1>1
<1>3. <<view[p].run>> \in Seq(Runs)
    BY <1>1
<1>4. spine \in Files
    BY DEF TypeOK
<1> QED
    BY <1>1, <1>2, <1>3, <1>4 DEF Extended, Files

-----------------------------------------------------------------------------
(* The invariant is kept, part by part *)

(* Types: a result is set before a marker or a receipt is made of it. *)
LEMMA TypeStep ==
    ASSUME IInv, TypeOK, [Next]_vars
    PROVE  TypeOK'
<1> USE SpineWriterAssumption DEF TypeOK, Runs, Images, Absent, Files, Intents, NoIntent,
          Results, Markers, HandshakeStates, Views, Running, Places
<1>1. CASE SaveHistory
    BY <1>1 DEF SaveHistory, records, files, proc
<1>2. CASE Review
    BY <1>2 DEF Review, records, files, proc
<1>3. CASE PowerLoss
    <2>1. spine \in Files /\ durable \in Files
        BY DEF TypeOK
    <2>2. spine' \in Files
        BY <2>1, <1>3 DEF PowerLoss, Files
    <2>3. faults' \in 0..MaxFaults
        BY <1>3, FaultType DEF PowerLoss
    <2> HIDE DEF Files, Intents, Views, Markers, Images, Places, Runs
    <2> QED
        BY <1>3, <2>2, <2>3 DEF PowerLoss, sources, records, proc
<1>4. ASSUME NEW p \in Procs, OpenWriter(p) PROVE TypeOK'
    <2>1. spine \in Files /\ latest \in Runs
        BY DEF TypeOK
    <2>2. FreshView \in Views
        BY <2>1 DEF FreshView, Intent
    <2>3. \A i \in intents : RecoveryView(i) \in Views
        BY StateMeans DEF RecoveryView
    <2> HIDE DEF Views
    <2>4. \A v \in Offers : v = FreshView \/ \E i \in intents : v = RecoveryView(i)
        BY Zenon DEF Offers
    <2>5. \A v \in Offers : v \in Views
        BY <2>2, <2>3, <2>4
    <2> QED
        BY <1>4, <2>5 DEF OpenWriter, Go, sources, records, files
<1>5. ASSUME NEW p \in Procs, Confirm(p) PROVE TypeOK'
    BY <1>5 DEF Confirm, Go, sources, records, files
<1>6. ASSUME NEW p \in Procs, SaveAndIdentify(p) PROVE TypeOK'
    BY <1>6 DEF SaveAndIdentify, Go, sources, files
<1>7. ASSUME NEW p \in Procs, BeginApply(p) PROVE TypeOK'
    BY <1>7 DEF BeginApply, Go, sources, records, files
<1>8. ASSUME NEW p \in Procs, FindBySource(p) PROVE TypeOK'
    <2> HIDE DEF Intents, Views
    <2>1. plan' \in [Procs -> Intents]
        BY <1>8 DEF FindBySource
    <2>2. pc' \in [Procs -> Places]
        BY <1>8 DEF FindBySource, Go
    <2> HIDE DEF Files, Places, Markers
    <2> QED
        BY <1>8, <2>1, <2>2 DEF FindBySource, sources, records, files
<1>9. ASSUME NEW p \in Procs, Handshake(p) PROVE TypeOK'
    <2>1. Image(spine) \in Images
        BY ImageOf
    <2>2. Intent(view[p].run, view[p].ver, Image(spine)) \in Intents
        BY <2>1 DEF Intent
    <2> HIDE DEF Intents
    <2> QED
        BY <1>9, <2>2 DEF Handshake, Go, sources, records, files
<1>10. ASSUME NEW p \in Procs, Prepare(p) PROVE TypeOK'
    BY <1>10 DEF Prepare, Go, sources, files
<1>11. ASSUME NEW p \in Procs, Inspect(p) PROVE TypeOK'
    <2>1. by' \in [Procs -> {"none"} \cup Results]
        BY <1>11 DEF Inspect
    <2>2. pc' \in [Procs -> Places]
        BY <1>11 DEF Inspect, Go
    <2> HIDE DEF Files, Places, Markers, Results
    <2> QED
        BY <1>11, <2>1, <2>2 DEF Inspect, sources, records, files
<1>12. ASSUME NEW p \in Procs, Classify(p) PROVE TypeOK'
    <2>1. by' \in [Procs -> {"none"} \cup Results]
        BY <1>12 DEF Classify
    <2>2. pc' \in [Procs -> Places]
        BY <1>12 DEF Classify, Go
    <2> HIDE DEF Files, Intents, Views, Markers, Places, Results
    <2> QED
        BY <1>12, <2>1, <2>2 DEF Classify, sources, records, files
<1>13. ASSUME NEW p \in Procs, Recheck(p) PROVE TypeOK'
    <2>1. by' \in [Procs -> {"none"} \cup Results]
        BY <1>13 DEF Recheck
    <2>2. pc' \in [Procs -> Places]
        BY <1>13 DEF Recheck, Go
    <2> HIDE DEF Files, Intents, Views, Markers, Places, Results
    <2> QED
        BY <1>13, <2>1, <2>2 DEF Recheck, sources, records, files
<1>14. ASSUME NEW p \in Procs, Create(p) PROVE TypeOK'
    BY <1>14 DEF Create, Acquire, Go, sources, records
<1>15. ASSUME NEW p \in Procs, Open(p) PROVE TypeOK'
    BY <1>15 DEF Open, Acquire, Go, sources, records
<1>16. ASSUME NEW p \in Procs, AppendTurn(p) PROVE TypeOK'
    <2>1. Extended(p) \in Files
        BY <1>16, ExtendedBy DEF AppendTurn, IInv, FilesHold
    <2> HIDE DEF Files
    <2> QED
        BY <1>16, <2>1 DEF AppendTurn, Go, sources, records
<1>17. ASSUME NEW p \in Procs, Verify(p) PROVE TypeOK'
    BY <1>17 DEF Verify, Go, sources, records, files
<1>18. ASSUME NEW p \in Procs, Mark(p) PROVE TypeOK'
    <2>1. by[p] \in Results
        BY <1>18 DEF Mark, IInv, Kept, Entered
    <2>2. Marker(p) \in Markers
        BY <2>1 DEF Marker
    <2> HIDE DEF Markers
    <2> QED
        BY <1>18, <2>2 DEF Mark, Go, sources, files
<1>19. ASSUME NEW p \in Procs, Finish(p) PROVE TypeOK'
    <2>1. by[p] \in Results
        BY <1>19 DEF Finish, IInv, Kept, Entered
    <2> QED
        BY <1>19, <2>1 DEF Finish, Go, sources, records, files
<1>20. ASSUME NEW p \in Procs, GiveUp(p) PROVE TypeOK'
    <2>1. pc' \in [Procs -> Places]
        BY <1>20 DEF GiveUp, Go
    <2> HIDE DEF Files, Intents, Views, Markers, Places
    <2> QED
        BY <1>20, <2>1 DEF GiveUp, sources, records, files
<1>21. ASSUME NEW p \in Procs, InterruptIdentity(p) PROVE TypeOK'
    <2>1. faults' \in 0..MaxFaults
        BY <1>21, FaultType DEF InterruptIdentity
    <2> HIDE DEF Files, Intents, Views, Markers
    <2> QED
        BY <1>21, <2>1 DEF InterruptIdentity, Go, sources, files
<1>22. ASSUME NEW p \in Procs, InterruptPrepare(p) PROVE TypeOK'
    <2>1. idir' \in {"none", "bare", "ready", "littered"}
        BY <1>22 DEF InterruptPrepare, Leaves
    <2> HIDE DEF Intents
    <2>2. plan[p] \in Intents /\ intents \subseteq Intents
        OBVIOUS
    <2>4. intents' \subseteq Intents
        BY <1>22, <2>2, Zenon DEF InterruptPrepare
    <2>3. faults' \in 0..MaxFaults
        BY <1>22, FaultType DEF InterruptPrepare
    <2> HIDE DEF Files, Views, Markers
    <2> QED
        BY <1>22, <2>1, <2>3, <2>4 DEF InterruptPrepare, Go, sources, files
<1>23. ASSUME NEW p \in Procs, InterruptMark(p) PROVE TypeOK'
    <2>1. by[p] \in Results
        BY <1>23 DEF InterruptMark, IInv, Kept, Entered
    <2>2. Marker(p) \in Markers
        BY <2>1 DEF Marker
    <2>3. faults' \in 0..MaxFaults
        BY <1>23, FaultType DEF InterruptMark
    <2>4. pc' \in [Procs -> Places]
        BY <1>23 DEF InterruptMark, Go
    <2> HIDE DEF Markers, Files, Intents, Views, Places
    <2> QED
        BY <1>23, <2>2, <2>3, <2>4 DEF InterruptMark, sources, files
<1>24. ASSUME NEW p \in Procs, InterruptCreate(p) PROVE TypeOK'
    <2>1. spine' \in Files
        BY <1>24 DEF InterruptCreate
    <2> HIDE DEF Files
    <2>2. durable' \in Files
        BY <1>24, <2>1 DEF InterruptCreate
    <2>3. faults' \in 0..MaxFaults
        BY <1>24, FaultType DEF InterruptCreate
    <2> HIDE DEF Intents, Views, Markers
    <2> QED
        BY <1>24, <2>1, <2>2, <2>3 DEF InterruptCreate, Go, sources, records
<1>25. ASSUME NEW p \in Procs, InterruptAppend(p) PROVE TypeOK'
    <2>1. Extended(p) \in Files
        BY <1>25, ExtendedBy DEF InterruptAppend, IInv, FilesHold
    <2>2. [spine EXCEPT !.tail = TRUE] \in Files
        OBVIOUS
    <2> HIDE DEF Files
    <2>3. spine' \in Files /\ durable' \in Files
        BY <1>25, <2>1, <2>2 DEF InterruptAppend
    <2>4. faults' \in 0..MaxFaults
        BY <1>25, FaultType DEF InterruptAppend
    <2> HIDE DEF Intents, Views, Markers
    <2> QED
        BY <1>25, <2>3, <2>4 DEF InterruptAppend, Go, sources, records
<1>26. CASE UNCHANGED vars
    BY <1>26 DEF vars, sources, records, files, proc
<1> QED
    BY <1>1, <1>2, <1>3, <1>4, <1>5, <1>6, <1>7, <1>8, <1>9, <1>10, <1>11,
       <1>12, <1>13, <1>14, <1>15, <1>16, <1>17, <1>18, <1>19, <1>20,
       <1>21, <1>22, <1>23, <1>24, <1>25, <1>26
       DEF Next, ClientStep, ApplyStep, FaultStep

(* OneSource: the history is saved only when no apply runs. *)
LEMMA SourceStep ==
    ASSUME TypeOK, OneSource, [Next]_vars
    PROVE  OneSource'
<1> USE DEF TypeOK, OneSource, Running, Busy
<1>1. CASE SaveHistory
    BY <1>1 DEF SaveHistory, records, files, proc
<1>2. CASE Review
    BY <1>2 DEF Review, records, files, proc
<1>3. CASE PowerLoss
    BY <1>3 DEF PowerLoss, Fault, sources, records, proc
<1>4. ASSUME NEW p \in Procs, OpenWriter(p) PROVE OneSource'
    BY <1>4 DEF OpenWriter, Go, sources, records, files
<1>5. ASSUME NEW p \in Procs, Confirm(p) PROVE OneSource'
    BY <1>5 DEF Confirm, Go, sources, records, files
<1>6. ASSUME NEW p \in Procs, SaveAndIdentify(p) PROVE OneSource'
    BY <1>6 DEF SaveAndIdentify, Go, sources, files
<1>7. ASSUME NEW p \in Procs, BeginApply(p) PROVE OneSource'
    BY <1>7 DEF BeginApply, Go, sources, records, files
<1>8. ASSUME NEW p \in Procs, FindBySource(p) PROVE OneSource'
    BY <1>8 DEF FindBySource, Go, sources, records, files
<1>9. ASSUME NEW p \in Procs, Handshake(p) PROVE OneSource'
    BY <1>9 DEF Handshake, Go, sources, records, files
<1>10. ASSUME NEW p \in Procs, Prepare(p) PROVE OneSource'
    BY <1>10 DEF Prepare, Go, sources, files
<1>11. ASSUME NEW p \in Procs, Inspect(p) PROVE OneSource'
    BY <1>11 DEF Inspect, Go, sources, records, files
<1>12. ASSUME NEW p \in Procs, Classify(p) PROVE OneSource'
    BY <1>12 DEF Classify, Go, sources, records, files
<1>13. ASSUME NEW p \in Procs, Recheck(p) PROVE OneSource'
    BY <1>13 DEF Recheck, Go, sources, records, files
<1>14. ASSUME NEW p \in Procs, Create(p) PROVE OneSource'
    BY <1>14 DEF Create, Acquire, Go, sources, records
<1>15. ASSUME NEW p \in Procs, Open(p) PROVE OneSource'
    BY <1>15 DEF Open, Acquire, Go, sources, records
<1>16. ASSUME NEW p \in Procs, AppendTurn(p) PROVE OneSource'
    BY <1>16 DEF AppendTurn, Extended, Go, sources, records
<1>17. ASSUME NEW p \in Procs, Verify(p) PROVE OneSource'
    BY <1>17 DEF Verify, Go, sources, records, files
<1>18. ASSUME NEW p \in Procs, Mark(p) PROVE OneSource'
    BY <1>18 DEF Mark, Marker, Go, sources, files
<1>19. ASSUME NEW p \in Procs, Finish(p) PROVE OneSource'
    BY <1>19 DEF Finish, Go, sources, records, files
<1>20. ASSUME NEW p \in Procs, GiveUp(p) PROVE OneSource'
    BY <1>20 DEF GiveUp, Go, sources, records, files
<1>21. ASSUME NEW p \in Procs, InterruptIdentity(p) PROVE OneSource'
    BY <1>21 DEF InterruptIdentity, Fault, Go, sources, files
<1>22. ASSUME NEW p \in Procs, InterruptPrepare(p) PROVE OneSource'
    BY <1>22 DEF InterruptPrepare, Fault, Leaves, Go, sources, files
<1>23. ASSUME NEW p \in Procs, InterruptMark(p) PROVE OneSource'
    BY <1>23 DEF InterruptMark, Fault, Marker, Go, sources, files
<1>24. ASSUME NEW p \in Procs, InterruptCreate(p) PROVE OneSource'
    BY <1>24 DEF InterruptCreate, Fault, Go, sources, records
<1>25. ASSUME NEW p \in Procs, InterruptAppend(p) PROVE OneSource'
    BY <1>25 DEF InterruptAppend, Fault, Extended, Go, sources, records
<1>26. CASE UNCHANGED vars
    BY <1>26 DEF vars, sources, records, files, proc
<1> QED
    BY <1>1, <1>2, <1>3, <1>4, <1>5, <1>6, <1>7, <1>8, <1>9, <1>10, <1>11,
       <1>12, <1>13, <1>14, <1>15, <1>16, <1>17, <1>18, <1>19, <1>20,
       <1>21, <1>22, <1>23, <1>24, <1>25, <1>26
       DEF Next, ClientStep, ApplyStep, FaultStep

(* OneIntended: a handshake is computed only without an intent, and only *)
(* when the turns of the Spine, all intended, do not hold the run.       *)
LEMMA IntendedStep ==
    ASSUME TypeOK, OneSource, OneIntended, WellFormed(spine), [Next]_vars
    PROVE  OneIntended'
<1> USE DEF TypeOK, OneSource, OneIntended, WellFormed, Prepared, Running
<1>1. CASE SaveHistory
    BY <1>1 DEF SaveHistory, records, files, proc
<1>2. CASE Review
    BY <1>2 DEF Review, records, files, proc
<1>3. CASE PowerLoss
    BY <1>3 DEF PowerLoss, Fault, sources, records, proc
<1>4. ASSUME NEW p \in Procs, OpenWriter(p) PROVE OneIntended'
    BY <1>4 DEF OpenWriter, Go, sources, records, files
<1>5. ASSUME NEW p \in Procs, Confirm(p) PROVE OneIntended'
    BY <1>5 DEF Confirm, Go, sources, records, files
<1>6. ASSUME NEW p \in Procs, SaveAndIdentify(p) PROVE OneIntended'
    BY <1>6 DEF SaveAndIdentify, Go, sources, files
<1>7. ASSUME NEW p \in Procs, BeginApply(p) PROVE OneIntended'
    BY <1>7 DEF BeginApply, Go, sources, records, files
<1>8. ASSUME NEW p \in Procs, FindBySource(p) PROVE OneIntended'
    <2>1. CASE intents = {} /\ Go(p, "handshake") /\ UNCHANGED plan
        BY <1>8, <2>1 DEF FindBySource, Go, sources, records, files
    <2>2. ASSUME NEW i \in intents, Of(view[p].run) = {i},
                 plan' = [plan EXCEPT ![p] = i], Go(p, "inspect")
          PROVE  OneIntended'
        <3>1. i.run = view[p].run
            BY <2>2 DEF Of
        <3> QED
            BY <1>8, <2>2, <3>1 DEF FindBySource, Go, sources, records, files
    <2> QED
        BY <1>8, <2>1, <2>2 DEF FindBySource
<1>9. ASSUME NEW p \in Procs, Handshake(p) PROVE OneIntended'
    <2>1. spine.turns = <<>>
        <3>1. \A i \in intents : spine.turns # <<i.run>>
            BY <1>9, HasOne DEF Handshake
        <3> QED
            BY <3>1
    <2>2. Image(spine).turns = <<>>
        BY <2>1, ImageOf
    <2> QED
        BY <1>9, <2>2 DEF Handshake, Intent, Go, sources, records, files
<1>10. ASSUME NEW p \in Procs, Prepare(p) PROVE OneIntended'
    BY <1>10 DEF Prepare, Go, sources, files
<1>11. ASSUME NEW p \in Procs, Inspect(p) PROVE OneIntended'
    BY <1>11 DEF Inspect, Go, sources, records, files
<1>12. ASSUME NEW p \in Procs, Classify(p) PROVE OneIntended'
    BY <1>12 DEF Classify, Go, sources, records, files
<1>13. ASSUME NEW p \in Procs, Recheck(p) PROVE OneIntended'
    BY <1>13 DEF Recheck, Go, sources, records, files
<1>14. ASSUME NEW p \in Procs, Create(p) PROVE OneIntended'
    BY <1>14 DEF Create, Acquire, Go, sources, records
<1>15. ASSUME NEW p \in Procs, Open(p) PROVE OneIntended'
    BY <1>15 DEF Open, Acquire, Go, sources, records
<1>16. ASSUME NEW p \in Procs, AppendTurn(p) PROVE OneIntended'
    BY <1>16 DEF AppendTurn, Extended, Go, sources, records
<1>17. ASSUME NEW p \in Procs, Verify(p) PROVE OneIntended'
    BY <1>17 DEF Verify, Go, sources, records, files
<1>18. ASSUME NEW p \in Procs, Mark(p) PROVE OneIntended'
    BY <1>18 DEF Mark, Marker, Go, sources, files
<1>19. ASSUME NEW p \in Procs, Finish(p) PROVE OneIntended'
    BY <1>19 DEF Finish, Go, sources, records, files
<1>20. ASSUME NEW p \in Procs, GiveUp(p) PROVE OneIntended'
    BY <1>20 DEF GiveUp, Go, sources, records, files
<1>21. ASSUME NEW p \in Procs, InterruptIdentity(p) PROVE OneIntended'
    BY <1>21 DEF InterruptIdentity, Fault, Go, sources, files
<1>22. ASSUME NEW p \in Procs, InterruptPrepare(p) PROVE OneIntended'
    BY <1>22 DEF InterruptPrepare, Fault, Leaves, Go, sources, files
<1>23. ASSUME NEW p \in Procs, InterruptMark(p) PROVE OneIntended'
    BY <1>23 DEF InterruptMark, Fault, Marker, Go, sources, files
<1>24. ASSUME NEW p \in Procs, InterruptCreate(p) PROVE OneIntended'
    BY <1>24 DEF InterruptCreate, Fault, Go, sources, records
<1>25. ASSUME NEW p \in Procs, InterruptAppend(p) PROVE OneIntended'
    BY <1>25 DEF InterruptAppend, Fault, Extended, Go, sources, records
<1>26. CASE UNCHANGED vars
    BY <1>26 DEF vars, sources, records, files, proc
<1> QED
    BY <1>1, <1>2, <1>3, <1>4, <1>5, <1>6, <1>7, <1>8, <1>9, <1>10, <1>11,
       <1>12, <1>13, <1>14, <1>15, <1>16, <1>17, <1>18, <1>19, <1>20,
       <1>21, <1>22, <1>23, <1>24, <1>25, <1>26
       DEF Next, ClientStep, ApplyStep, FaultStep

(* The files: only the holder of the lock writes, and what it saw is still *)
(* there.                                                                  *)
LEMMA FileStep ==
    ASSUME IInv, [Next]_vars
    PROVE  FilesHold'
<1> USE DEF IInv, TypeOK, OneIntended, FilesHold, WellFormed, Visible, Exclusive, Prepared
<1>1. CASE SaveHistory
    BY <1>1 DEF SaveHistory, records, files, proc
<1>2. CASE Review
    BY <1>2 DEF Review, records, files, proc
<1>3. CASE PowerLoss
    <2>1. spine \in Files /\ durable \in Files
        OBVIOUS
    <2>2. CASE spine' \in {durable, spine}
        BY <1>3, <2>2 DEF PowerLoss, records, proc
    <2>3. CASE durable.head # spine.head /\ spine' = [durable EXCEPT !.head = "torn"]
        <3>1. durable.turns = <<>> /\ ~durable.tail
            BY <2>3
        <3>2. spine'.turns = <<>> /\ ~spine'.tail
            BY <2>1, <2>3, <3>1 DEF Files
        <3> QED
            BY <1>3, <3>2 DEF PowerLoss, records, proc
    <2>4. ASSUME durable.turns # spine.turns, NEW t \in BOOLEAN,
                 spine' = [spine EXCEPT !.turns = durable.turns, !.tail = t]
          PROVE  FilesHold'
        <3>1. durable.turns = <<>> /\ spine.head = "ok" /\ intents # {}
            BY <2>4
        <3>2. spine'.turns = <<>> /\ spine'.head = "ok"
            BY <2>1, <2>4, <3>1 DEF Files
        <3> QED
            BY <1>3, <3>1, <3>2 DEF PowerLoss, records, proc
    <2> QED
        BY <1>3, <2>2, <2>3, <2>4 DEF PowerLoss
<1>4. ASSUME NEW p \in Procs, OpenWriter(p) PROVE FilesHold'
    BY <1>4 DEF OpenWriter, Go, sources, records, files
<1>5. ASSUME NEW p \in Procs, Confirm(p) PROVE FilesHold'
    BY <1>5 DEF Confirm, Go, sources, records, files
<1>6. ASSUME NEW p \in Procs, SaveAndIdentify(p) PROVE FilesHold'
    BY <1>6 DEF SaveAndIdentify, Go, sources, files
<1>7. ASSUME NEW p \in Procs, BeginApply(p) PROVE FilesHold'
    BY <1>7 DEF BeginApply, Go, sources, records, files
<1>8. ASSUME NEW p \in Procs, FindBySource(p) PROVE FilesHold'
    BY <1>8 DEF FindBySource, Go, sources, records, files
<1>9. ASSUME NEW p \in Procs, Handshake(p) PROVE FilesHold'
    BY <1>9 DEF Handshake, Go, sources, records, files
<1>10. ASSUME NEW p \in Procs, Prepare(p) PROVE FilesHold'
    BY <1>10 DEF Prepare, Go, sources, files
<1>11. ASSUME NEW p \in Procs, Inspect(p) PROVE FilesHold'
    BY <1>11 DEF Inspect, Go, sources, records, files
<1>12. ASSUME NEW p \in Procs, Classify(p) PROVE FilesHold'
    BY <1>12 DEF Classify, Go, sources, records, files
<1>13. ASSUME NEW p \in Procs, Recheck(p) PROVE FilesHold'
    BY <1>13 DEF Recheck, Go, sources, records, files
<1>14. ASSUME NEW p \in Procs, Create(p) PROVE FilesHold'
    <2>1. spine \in Files /\ spine.turns = <<>> /\ ~spine.tail
        BY <1>14 DEF Create, Creatable
    <2>2. spine'.turns = <<>> /\ ~spine'.tail /\ spine'.head = "ok"
        BY <1>14, <2>1 DEF Create, Files
    <2>3. \A q \in Procs : pc[q] # "append"
        BY <1>14, SpineWriterAssumption DEF Create, Creatable
    <2> QED
        BY <1>14, <2>2, <2>3 DEF Create, Acquire, Go, sources, records
<1>15. ASSUME NEW p \in Procs, Open(p) PROVE FilesHold'
    <2>1. plan[p] \in intents /\ plan[p].pre.turns = <<>>
        BY <1>15 DEF Open
    <2>2. spine.turns = <<>> /\ spine.head = "ok" /\ ~spine.tail
        BY <1>15, <2>1 DEF Open, Readable, AtBoundary, Image, Absent
    <2>3. \A q \in Procs : pc[q] # "append"
        BY <1>15, SpineWriterAssumption DEF Open, Readable
    <2> QED
        BY <1>15, <2>2, <2>3 DEF Open, Acquire, Go, sources, records
<1>16. ASSUME NEW p \in Procs, AppendTurn(p) PROVE FilesHold'
    <2>1. /\ Extended(p).head = "ok" /\ ~Extended(p).tail
          /\ Extended(p).turns = <<view[p].run>>
          /\ plan[p] \in intents /\ plan[p].run = view[p].run
        BY <1>16, ExtendedBy DEF AppendTurn
    <2>2. \A q \in Procs : pc[q] = "append" => q = p
        BY <1>16 DEF AppendTurn
    <2> QED
        BY <1>16, <2>1, <2>2 DEF AppendTurn, Go, sources, records
<1>17. ASSUME NEW p \in Procs, Verify(p) PROVE FilesHold'
    BY <1>17 DEF Verify, Go, sources, records, files
<1>18. ASSUME NEW p \in Procs, Mark(p) PROVE FilesHold'
    BY <1>18 DEF Mark, Marker, Go, sources, files
<1>19. ASSUME NEW p \in Procs, Finish(p) PROVE FilesHold'
    BY <1>19 DEF Finish, Go, sources, records, files
<1>20. ASSUME NEW p \in Procs, GiveUp(p) PROVE FilesHold'
    BY <1>20 DEF GiveUp, Go, sources, records, files
<1>21. ASSUME NEW p \in Procs, InterruptIdentity(p) PROVE FilesHold'
    BY <1>21 DEF InterruptIdentity, Fault, Go, sources, files
<1>22. ASSUME NEW p \in Procs, InterruptPrepare(p) PROVE FilesHold'
    BY <1>22 DEF InterruptPrepare, Fault, Leaves, Go, sources, files
<1>23. ASSUME NEW p \in Procs, InterruptMark(p) PROVE FilesHold'
    BY <1>23 DEF InterruptMark, Fault, Marker, Go, sources, files
<1>24. ASSUME NEW p \in Procs, InterruptCreate(p) PROVE FilesHold'
    <2>1. spine \in Files /\ spine.turns = <<>> /\ ~spine.tail
        BY <1>24 DEF InterruptCreate, Creatable
    <2>2. durable.turns = <<>> /\ ~durable.tail
        BY <2>1
    <2>3. spine'.turns = <<>> /\ ~spine'.tail
        BY <1>24, <2>1 DEF InterruptCreate, Files
    <2>4. \A q \in Procs : pc[q] # "append"
        BY <1>24, SpineWriterAssumption DEF InterruptCreate, Creatable
    <2>5. durable'.turns = <<>> /\ ~durable'.tail
        BY <1>24, <2>2, <2>3 DEF InterruptCreate
    <2> QED
        BY <1>24, <2>3, <2>4, <2>5 DEF InterruptCreate, Go, sources, records
<1>25. ASSUME NEW p \in Procs, InterruptAppend(p) PROVE FilesHold'
    <2>1. /\ Extended(p).head = "ok" /\ ~Extended(p).tail
          /\ Extended(p).turns = <<view[p].run>>
          /\ plan[p] \in intents /\ plan[p].run = view[p].run
        BY <1>25, ExtendedBy DEF InterruptAppend
    <2>2. \A q \in Procs : pc[q] = "append" => q = p
        BY <1>25 DEF InterruptAppend
    <2>3. spine \in Files /\ spine.turns = <<>> /\ spine.head = "ok" /\ ~spine.tail
        BY <1>25 DEF InterruptAppend
    <2>4. durable.turns = <<>> /\ ~durable.tail
        BY <2>3
    <2>5. WellFormed(spine)'
        <3>1. CASE spine' = [spine EXCEPT !.tail = TRUE]
            <4>1. spine'.turns = <<>> /\ spine'.head = "ok"
                BY <2>3, <3>1 DEF Files
            <4> QED
                BY <1>25, <2>1, <4>1 DEF InterruptAppend, records
        <3>2. CASE spine' \in {spine, Extended(p)}
            BY <1>25, <2>1, <3>2 DEF InterruptAppend, records
        <3> QED
            BY <1>25, <3>1, <3>2 DEF InterruptAppend
    <2>6. CASE durable' = durable
        BY <1>25, <2>2, <2>4, <2>5, <2>6 DEF InterruptAppend, Go, sources, records
    <2>7. CASE durable' = spine'
        BY <1>25, <2>2, <2>5, <2>7 DEF InterruptAppend, Go, sources, records
    <2> QED
        BY <1>25, <2>6, <2>7 DEF InterruptAppend
<1>26. CASE UNCHANGED vars
    BY <1>26 DEF vars, sources, records, files, proc
<1> QED
    BY <1>1, <1>2, <1>3, <1>4, <1>5, <1>6, <1>7, <1>8, <1>9, <1>10, <1>11,
       <1>12, <1>13, <1>14, <1>15, <1>16, <1>17, <1>18, <1>19, <1>20,
       <1>21, <1>22, <1>23, <1>24, <1>25, <1>26
       DEF Next, ClientStep, ApplyStep, FaultStep

(* Kept: the one turn is seen before a result says so, and synced before *)
(* "added" does.                                                         *)
LEMMA KeptStep ==
    ASSUME IInv, [Next]_vars
    PROVE  Kept'
<1> USE DEF IInv, TypeOK, OneIntended, FilesHold, WellFormed, Visible, Exclusive,
          Prepared, Kept, Entered, Results
<1>1. CASE SaveHistory
    BY <1>1 DEF SaveHistory, records, files, proc
<1>2. CASE Review
    BY <1>2 DEF Review, records, files, proc
<1>3. CASE PowerLoss
    <2>1. spine.turns # <<>> /\ durable.turns = spine.turns => spine'.turns = spine.turns
        BY <1>3 DEF PowerLoss, Files
    <2>2. \A p \in Procs : pc'[p] = "idle"
        BY <1>3 DEF PowerLoss, proc
    <2>3. \A r \in receipts : r.by = "added" =>
             spine'.turns = <<r.run>> /\ durable'.turns = <<r.run>>
        <3> SUFFICES ASSUME NEW r \in receipts, r.by = "added"
                     PROVE  spine'.turns = <<r.run>> /\ durable'.turns = <<r.run>>
            OBVIOUS
        <3>1. spine.turns = <<r.run>> /\ durable.turns = <<r.run>>
            OBVIOUS
        <3> QED
            BY <1>3, <2>1, <3>1 DEF PowerLoss
    <2>4. receipts' = receipts
        BY <1>3 DEF PowerLoss
    <2> QED
        BY <2>2, <2>3, <2>4
<1>4. ASSUME NEW p \in Procs, OpenWriter(p) PROVE Kept'
    BY <1>4 DEF OpenWriter, Go, sources, records, files
<1>5. ASSUME NEW p \in Procs, Confirm(p) PROVE Kept'
    BY <1>5 DEF Confirm, Go, sources, records, files
<1>6. ASSUME NEW p \in Procs, SaveAndIdentify(p) PROVE Kept'
    BY <1>6 DEF SaveAndIdentify, Go, sources, files
<1>7. ASSUME NEW p \in Procs, BeginApply(p) PROVE Kept'
    BY <1>7 DEF BeginApply, Go, sources, records, files
<1>8. ASSUME NEW p \in Procs, FindBySource(p) PROVE Kept'
    BY <1>8 DEF FindBySource, Go, sources, records, files
<1>9. ASSUME NEW p \in Procs, Handshake(p) PROVE Kept'
    BY <1>9 DEF Handshake, Go, sources, records, files
<1>10. ASSUME NEW p \in Procs, Prepare(p) PROVE Kept'
    BY <1>10 DEF Prepare, Go, sources, files
<1>11. ASSUME NEW p \in Procs, Inspect(p) PROVE Kept'
    <2>1. plan[p] \in intents /\ plan[p].run = view[p].run
        BY <1>11 DEF Inspect
    <2>2. HandshakeState(plan[p], view[p].ver) = "COMMITTED" => spine.turns = <<view[p].run>>
        BY <2>1, CommittedTurn
    <2> QED
        BY <1>11, <2>2 DEF Inspect, Go, files
<1>12. ASSUME NEW p \in Procs, Classify(p) PROVE Kept'
    <2>1. plan[p] \in intents /\ plan[p].run = view[p].run
        BY <1>12 DEF Classify
    <2>2. HandshakeState(plan[p], view[p].ver) = "COMMITTED" => spine.turns = <<view[p].run>>
        BY <2>1, CommittedTurn
    <2> QED
        BY <1>12, <2>2 DEF Classify, Go, files
<1>13. ASSUME NEW p \in Procs, Recheck(p) PROVE Kept'
    <2>1. plan[p] \in intents /\ plan[p].run = view[p].run /\ plan[p].pre.turns = <<>>
        BY <1>13 DEF Recheck
    <2>2. Image(spine) = Candidate(plan[p]) => spine.turns = <<view[p].run>>
        BY <2>1, CandidateTurns, ImageOf
    <2> QED
        BY <1>13, <2>2 DEF Recheck, Go, files
<1>14. ASSUME NEW p \in Procs, Create(p) PROVE Kept'
    <2>1. spine \in Files /\ spine.turns = <<>>
        BY <1>14 DEF Create, Creatable
    <2>3. \A q \in Procs : pc[q] \notin Entered
        BY <2>1
    <2>4. \A r \in receipts : r.by # "added"
        BY <2>1
    <2> QED
        BY <1>14, <2>3, <2>4 DEF Create, Acquire, Go
<1>15. ASSUME NEW p \in Procs, Open(p) PROVE Kept'
    BY <1>15 DEF Open, Acquire, Go, sources, records
<1>16. ASSUME NEW p \in Procs, AppendTurn(p) PROVE Kept'
    <2>1. Extended(p).turns = <<view[p].run>>
        BY <1>16, ExtendedBy DEF AppendTurn
    <2>2. spine.turns = <<>>
        BY <1>16 DEF AppendTurn
    <2>3. \A q \in Procs : pc[q] \notin Entered
        BY <2>2
    <2>4. \A r \in receipts : r.by # "added"
        BY <2>2
    <2> QED
        BY <1>16, <2>1, <2>3, <2>4 DEF AppendTurn, Go
<1>17. ASSUME NEW p \in Procs, Verify(p) PROVE Kept'
    BY <1>17 DEF Verify, Go, sources, records, files
<1>18. ASSUME NEW p \in Procs, Mark(p) PROVE Kept'
    BY <1>18 DEF Mark, Marker, Go, sources, files
<1>19. ASSUME NEW p \in Procs, Finish(p) PROVE Kept'
    BY <1>19 DEF Finish, Go, sources, records, files
<1>20. ASSUME NEW p \in Procs, GiveUp(p) PROVE Kept'
    BY <1>20 DEF GiveUp, Go, sources, records, files
<1>21. ASSUME NEW p \in Procs, InterruptIdentity(p) PROVE Kept'
    BY <1>21 DEF InterruptIdentity, Fault, Go, sources, files
<1>22. ASSUME NEW p \in Procs, InterruptPrepare(p) PROVE Kept'
    BY <1>22 DEF InterruptPrepare, Fault, Leaves, Go, sources, files
<1>23. ASSUME NEW p \in Procs, InterruptMark(p) PROVE Kept'
    BY <1>23 DEF InterruptMark, Fault, Marker, Go, sources, files
<1>24. ASSUME NEW p \in Procs, InterruptCreate(p) PROVE Kept'
    <2>1. spine \in Files /\ spine.turns = <<>>
        BY <1>24 DEF InterruptCreate, Creatable
    <2>3. \A q \in Procs : pc[q] \notin Entered
        BY <2>1
    <2>4. \A r \in receipts : r.by # "added"
        BY <2>1
    <2> QED
        BY <1>24, <2>3, <2>4 DEF InterruptCreate, Go
<1>25. ASSUME NEW p \in Procs, InterruptAppend(p) PROVE Kept'
    <2>1. spine.turns = <<>>
        BY <1>25 DEF InterruptAppend
    <2>3. \A q \in Procs : pc[q] \notin Entered
        BY <2>1
    <2>4. \A r \in receipts : r.by # "added"
        BY <2>1
    <2> QED
        BY <1>25, <2>3, <2>4 DEF InterruptAppend, Go
<1>26. CASE UNCHANGED vars
    BY <1>26 DEF vars, sources, records, files, proc
<1> QED
    BY <1>1, <1>2, <1>3, <1>4, <1>5, <1>6, <1>7, <1>8, <1>9, <1>10, <1>11,
       <1>12, <1>13, <1>14, <1>15, <1>16, <1>17, <1>18, <1>19, <1>20,
       <1>21, <1>22, <1>23, <1>24, <1>25, <1>26
       DEF Next, ClientStep, ApplyStep, FaultStep

(* MarkersHold: a marker is made of an intent whose turn was seen. *)
LEMMA MarkersStep ==
    ASSUME IInv, [Next]_vars
    PROVE  MarkersHold'
<1> USE DEF IInv, TypeOK, OneIntended, FilesHold, WellFormed, Visible, Exclusive,
          Prepared, Kept, Entered, MarkersHold
<1>1. CASE SaveHistory
    BY <1>1 DEF SaveHistory, records, files, proc
<1>2. CASE Review
    BY <1>2 DEF Review, records, files, proc
<1>3. CASE PowerLoss
    BY <1>3 DEF PowerLoss, records
<1>4. ASSUME NEW p \in Procs, OpenWriter(p) PROVE MarkersHold'
    BY <1>4 DEF OpenWriter, Go, sources, records, files
<1>5. ASSUME NEW p \in Procs, Confirm(p) PROVE MarkersHold'
    BY <1>5 DEF Confirm, Go, sources, records, files
<1>6. ASSUME NEW p \in Procs, SaveAndIdentify(p) PROVE MarkersHold'
    BY <1>6 DEF SaveAndIdentify, Go, sources, files
<1>7. ASSUME NEW p \in Procs, BeginApply(p) PROVE MarkersHold'
    BY <1>7 DEF BeginApply, Go, sources, records, files
<1>8. ASSUME NEW p \in Procs, FindBySource(p) PROVE MarkersHold'
    BY <1>8 DEF FindBySource, Go, sources, records, files
<1>9. ASSUME NEW p \in Procs, Handshake(p) PROVE MarkersHold'
    BY <1>9 DEF Handshake, Go, sources, records, files
<1>10. ASSUME NEW p \in Procs, Prepare(p) PROVE MarkersHold'
    BY <1>10 DEF Prepare, Go, sources, files
<1>11. ASSUME NEW p \in Procs, Inspect(p) PROVE MarkersHold'
    BY <1>11 DEF Inspect, Go, sources, records, files
<1>12. ASSUME NEW p \in Procs, Classify(p) PROVE MarkersHold'
    BY <1>12 DEF Classify, Go, sources, records, files
<1>13. ASSUME NEW p \in Procs, Recheck(p) PROVE MarkersHold'
    BY <1>13 DEF Recheck, Go, sources, records, files
<1>14. ASSUME NEW p \in Procs, Create(p) PROVE MarkersHold'
    <2>1. spine \in Files /\ spine.turns = <<>>
        BY <1>14 DEF Create, Creatable
    <2> QED
        BY <1>14, <2>1 DEF Create, records
<1>15. ASSUME NEW p \in Procs, Open(p) PROVE MarkersHold'
    BY <1>15 DEF Open, Acquire, Go, sources, records
<1>16. ASSUME NEW p \in Procs, AppendTurn(p) PROVE MarkersHold'
    <2>1. spine.turns = <<>>
        BY <1>16 DEF AppendTurn
    <2> QED
        BY <1>16, <2>1 DEF AppendTurn, records
<1>17. ASSUME NEW p \in Procs, Verify(p) PROVE MarkersHold'
    BY <1>17 DEF Verify, Go, sources, records, files
<1>18. ASSUME NEW p \in Procs, Mark(p) PROVE MarkersHold'
    <2>1. spine.turns = <<plan[p].run>> /\ plan[p] \in intents
        BY <1>18 DEF Mark
    <2>2. Marker(p).id = plan[p]
        BY DEF Marker
    <2> QED
        BY <1>18, <2>1, <2>2 DEF Mark, files
<1>19. ASSUME NEW p \in Procs, Finish(p) PROVE MarkersHold'
    BY <1>19 DEF Finish, Go, sources, records, files
<1>20. ASSUME NEW p \in Procs, GiveUp(p) PROVE MarkersHold'
    BY <1>20 DEF GiveUp, Go, sources, records, files
<1>21. ASSUME NEW p \in Procs, InterruptIdentity(p) PROVE MarkersHold'
    BY <1>21 DEF InterruptIdentity, Fault, Go, sources, files
<1>22. ASSUME NEW p \in Procs, InterruptPrepare(p) PROVE MarkersHold'
    BY <1>22 DEF InterruptPrepare, Fault, Leaves, Go, sources, files
<1>23. ASSUME NEW p \in Procs, InterruptMark(p) PROVE MarkersHold'
    <2>1. spine.turns = <<plan[p].run>> /\ plan[p] \in intents
        BY <1>23 DEF InterruptMark
    <2>2. Marker(p).id = plan[p]
        BY DEF Marker
    <2> QED
        BY <1>23, <2>1, <2>2 DEF InterruptMark, files
<1>24. ASSUME NEW p \in Procs, InterruptCreate(p) PROVE MarkersHold'
    <2>1. spine \in Files /\ spine.turns = <<>>
        BY <1>24 DEF InterruptCreate, Creatable
    <2> QED
        BY <1>24, <2>1 DEF InterruptCreate, records
<1>25. ASSUME NEW p \in Procs, InterruptAppend(p) PROVE MarkersHold'
    <2>1. spine.turns = <<>>
        BY <1>25 DEF InterruptAppend
    <2> QED
        BY <1>25, <2>1 DEF InterruptAppend, records
<1>26. CASE UNCHANGED vars
    BY <1>26 DEF vars, sources, records, files, proc
<1> QED
    BY <1>1, <1>2, <1>3, <1>4, <1>5, <1>6, <1>7, <1>8, <1>9, <1>10, <1>11,
       <1>12, <1>13, <1>14, <1>15, <1>16, <1>17, <1>18, <1>19, <1>20,
       <1>21, <1>22, <1>23, <1>24, <1>25, <1>26
       DEF Next, ClientStep, ApplyStep, FaultStep

(* OneVersion: an apply begins with the current version. *)
LEMMA VersionStep ==
    ASSUME TypeOK, OneVersion, [Next]_vars
    PROVE  OneVersion'
<1> USE SpineWriterAssumption DEF TypeOK, OneVersion, Running, Busy, Views
<1>1. CASE SaveHistory
    BY <1>1 DEF SaveHistory, records, files, proc
<1>2. CASE Review
    BY <1>2 DEF Review, records, files, proc
<1>3. CASE PowerLoss
    BY <1>3 DEF PowerLoss, Fault, sources, records, proc
<1>4. ASSUME NEW p \in Procs, OpenWriter(p) PROVE OneVersion'
    <2>1. \A v \in Offers : v.ver = ver
        BY DEF Offers, FreshView, RecoveryView
    <2>2. \A q \in Procs : q # p => view'[q] = view[q] /\ pc'[q] = pc[q]
        BY <1>4 DEF OpenWriter, Go
    <2>3. view'[p].ver = ver /\ pc'[p] = "shown"
        BY <1>4, <2>1 DEF OpenWriter, Go
    <2> QED
        BY <1>4, <2>2, <2>3 DEF OpenWriter, sources
<1>5. ASSUME NEW p \in Procs, Confirm(p) PROVE OneVersion'
    BY <1>5 DEF Confirm, Go, sources, records, files
<1>6. ASSUME NEW p \in Procs, SaveAndIdentify(p) PROVE OneVersion'
    BY <1>6 DEF SaveAndIdentify, Go, sources, files
<1>7. ASSUME NEW p \in Procs, BeginApply(p) PROVE OneVersion'
    BY <1>7 DEF BeginApply, Go, sources, records, files
<1>8. ASSUME NEW p \in Procs, FindBySource(p) PROVE OneVersion'
    BY <1>8 DEF FindBySource, Go, sources, records, files
<1>9. ASSUME NEW p \in Procs, Handshake(p) PROVE OneVersion'
    BY <1>9 DEF Handshake, Go, sources, records, files
<1>10. ASSUME NEW p \in Procs, Prepare(p) PROVE OneVersion'
    BY <1>10 DEF Prepare, Go, sources, files
<1>11. ASSUME NEW p \in Procs, Inspect(p) PROVE OneVersion'
    BY <1>11 DEF Inspect, Go, sources, records, files
<1>12. ASSUME NEW p \in Procs, Classify(p) PROVE OneVersion'
    BY <1>12 DEF Classify, Go, sources, records, files
<1>13. ASSUME NEW p \in Procs, Recheck(p) PROVE OneVersion'
    BY <1>13 DEF Recheck, Go, sources, records, files
<1>14. ASSUME NEW p \in Procs, Create(p) PROVE OneVersion'
    BY <1>14 DEF Create, Acquire, Go, sources, records
<1>15. ASSUME NEW p \in Procs, Open(p) PROVE OneVersion'
    BY <1>15 DEF Open, Acquire, Go, sources, records
<1>16. ASSUME NEW p \in Procs, AppendTurn(p) PROVE OneVersion'
    BY <1>16 DEF AppendTurn, Extended, Go, sources, records
<1>17. ASSUME NEW p \in Procs, Verify(p) PROVE OneVersion'
    BY <1>17 DEF Verify, Go, sources, records, files
<1>18. ASSUME NEW p \in Procs, Mark(p) PROVE OneVersion'
    BY <1>18 DEF Mark, Marker, Go, sources, files
<1>19. ASSUME NEW p \in Procs, Finish(p) PROVE OneVersion'
    BY <1>19 DEF Finish, Go, sources, records, files
<1>20. ASSUME NEW p \in Procs, GiveUp(p) PROVE OneVersion'
    BY <1>20 DEF GiveUp, Go, sources, records, files
<1>21. ASSUME NEW p \in Procs, InterruptIdentity(p) PROVE OneVersion'
    BY <1>21 DEF InterruptIdentity, Fault, Go, sources, files
<1>22. ASSUME NEW p \in Procs, InterruptPrepare(p) PROVE OneVersion'
    BY <1>22 DEF InterruptPrepare, Fault, Leaves, Go, sources, files
<1>23. ASSUME NEW p \in Procs, InterruptMark(p) PROVE OneVersion'
    BY <1>23 DEF InterruptMark, Fault, Marker, Go, sources, files
<1>24. ASSUME NEW p \in Procs, InterruptCreate(p) PROVE OneVersion'
    BY <1>24 DEF InterruptCreate, Fault, Go, sources, records
<1>25. ASSUME NEW p \in Procs, InterruptAppend(p) PROVE OneVersion'
    BY <1>25 DEF InterruptAppend, Fault, Extended, Go, sources, records
<1>26. CASE UNCHANGED vars
    BY <1>26 DEF vars, sources, records, files, proc
<1> QED
    BY <1>1, <1>2, <1>3, <1>4, <1>5, <1>6, <1>7, <1>8, <1>9, <1>10, <1>11,
       <1>12, <1>13, <1>14, <1>15, <1>16, <1>17, <1>18, <1>19, <1>20,
       <1>21, <1>22, <1>23, <1>24, <1>25, <1>26
       DEF Next, ClientStep, ApplyStep, FaultStep

(* Untroubled: a header without its turn is seen by nobody, and a turn that *)
(* is seen ends a handshake.                                                *)
LEMMA UntroubledStep ==
    ASSUME TypeOK, OneSource, OneIntended, FilesHold, OneVersion, Untroubled, [Next]_vars
    PROVE  Untroubled'
<1> USE DEF TypeOK, Untroubled, FromScratch, Intent
<1>1. CASE SaveHistory
    BY <1>1 DEF SaveHistory, records, files, proc
<1>2. CASE Review
    BY <1>2 DEF Review, records, files, proc
<1>3. CASE PowerLoss
    <2>1. faults' # 0
        BY <1>3, FaultType DEF PowerLoss
    <2> QED
        BY <2>1
<1>4. ASSUME NEW p \in Procs, OpenWriter(p) PROVE Untroubled'
    BY <1>4 DEF OpenWriter, Go, sources, records, files
<1>5. ASSUME NEW p \in Procs, Confirm(p) PROVE Untroubled'
    BY <1>5 DEF Confirm, Go, sources, records, files
<1>6. ASSUME NEW p \in Procs, SaveAndIdentify(p) PROVE Untroubled'
    BY <1>6 DEF SaveAndIdentify, Go, sources, files
<1>7. ASSUME NEW p \in Procs, BeginApply(p) PROVE Untroubled'
    BY <1>7 DEF BeginApply, Go, sources, records, files
<1>8. ASSUME NEW p \in Procs, FindBySource(p) PROVE Untroubled'
    BY <1>8 DEF FindBySource, Go, sources, records, files
<1>9. ASSUME NEW p \in Procs, Handshake(p) PROVE Untroubled'
    <2>1. ASSUME faults = 0 PROVE Image(spine) = Absent
        <3>1. CASE spine.head = "ok"
            <4>1. PICK i \in intents : spine.turns = <<i.run>>
                BY <1>9, <2>1, <3>1 DEF Handshake, Readable, FilesHold, WellFormed
            <4>2. Has(spine, view[p].run)
                BY <1>9, <4>1, HasOne DEF Handshake, OneIntended
            <4> QED
                BY <1>9, <4>2 DEF Handshake
        <3> QED
            BY <3>1 DEF Image
    <2> QED
        BY <1>9, <2>1 DEF Handshake, Go, sources, records, files
<1>10. ASSUME NEW p \in Procs, Prepare(p) PROVE Untroubled'
    <2>1. ASSUME faults = 0, NEW q \in Procs, pc[q] \in {"handshake", "prepare"}
          PROVE  FromScratch(q) = FromScratch(p)
        <3>1. view[q].run = view[p].run
            BY <1>10, <2>1 DEF Prepare, OneSource, Running
        <3>2. view[q].ver <= view[p].ver /\ view[p].ver <= view[q].ver
            BY <1>10, <2>1 DEF Prepare, OneVersion, Running
        <3>3. view[q].ver \in Nat /\ view[p].ver \in Nat
            BY <2>1, SpineWriterAssumption DEF TypeOK, Views
        <3> QED
            BY <3>1, <3>2, <3>3
    <2>2. ASSUME faults = 0 PROVE plan[p] = FromScratch(p) /\ intents \subseteq {FromScratch(p)}
        BY <1>10, <2>2 DEF Prepare
    <2>3. pc' = [pc EXCEPT ![p] = "inspect"] /\ intents' = intents \cup {plan[p]}
        BY <1>10 DEF Prepare, Go
    <2>4. UNCHANGED <<files, view, plan, faults>>
        BY <1>10 DEF Prepare
    <2> QED
        BY <2>1, <2>2, <2>3, <2>4 DEF files
<1>11. ASSUME NEW p \in Procs, Inspect(p) PROVE Untroubled'
    BY <1>11 DEF Inspect, Go, sources, records, files
<1>12. ASSUME NEW p \in Procs, Classify(p) PROVE Untroubled'
    BY <1>12 DEF Classify, Go, sources, records, files
<1>13. ASSUME NEW p \in Procs, Recheck(p) PROVE Untroubled'
    BY <1>13 DEF Recheck, Go, sources, records, files
<1>14. ASSUME NEW p \in Procs, Create(p) PROVE Untroubled'
    <2>1. spineLock' # NoProc
        BY <1>14, SpineWriterAssumption DEF Create, Acquire
    <2> QED
        BY <1>14, <2>1 DEF Create, Acquire, Go, sources, records
<1>15. ASSUME NEW p \in Procs, Open(p) PROVE Untroubled'
    <2>1. spineLock' # NoProc
        BY <1>15, SpineWriterAssumption DEF Open, Acquire
    <2> QED
        BY <1>15, <2>1 DEF Open, Acquire, Go, sources, records
<1>16. ASSUME NEW p \in Procs, AppendTurn(p) PROVE Untroubled'
    <2>1. Extended(p).turns = <<view[p].run>>
        BY <1>16, ExtendedBy DEF AppendTurn, FilesHold
    <2> QED
        BY <1>16, <2>1 DEF AppendTurn, Go, sources, records
<1>17. ASSUME NEW p \in Procs, Verify(p) PROVE Untroubled'
    BY <1>17 DEF Verify, Go, sources, records, files
<1>18. ASSUME NEW p \in Procs, Mark(p) PROVE Untroubled'
    BY <1>18 DEF Mark, Marker, Go, sources, files
<1>19. ASSUME NEW p \in Procs, Finish(p) PROVE Untroubled'
    BY <1>19 DEF Finish, Go, sources, records, files
<1>20. ASSUME NEW p \in Procs, GiveUp(p) PROVE Untroubled'
    BY <1>20 DEF GiveUp, Go, sources, records, files
<1>21. ASSUME NEW p \in Procs, InterruptIdentity(p) PROVE Untroubled'
    <2>1. faults' # 0
        BY <1>21, FaultType DEF InterruptIdentity
    <2> QED
        BY <2>1
<1>22. ASSUME NEW p \in Procs, InterruptPrepare(p) PROVE Untroubled'
    <2>1. faults' # 0
        BY <1>22, FaultType DEF InterruptPrepare
    <2> QED
        BY <2>1
<1>23. ASSUME NEW p \in Procs, InterruptMark(p) PROVE Untroubled'
    <2>1. faults' # 0
        BY <1>23, FaultType DEF InterruptMark
    <2> QED
        BY <2>1
<1>24. ASSUME NEW p \in Procs, InterruptCreate(p) PROVE Untroubled'
    <2>1. faults' # 0
        BY <1>24, FaultType DEF InterruptCreate
    <2> QED
        BY <2>1
<1>25. ASSUME NEW p \in Procs, InterruptAppend(p) PROVE Untroubled'
    <2>1. faults' # 0
        BY <1>25, FaultType DEF InterruptAppend
    <2> QED
        BY <2>1
<1>26. CASE UNCHANGED vars
    BY <1>26 DEF vars, sources, records, files, proc
<1> QED
    BY <1>1, <1>2, <1>3, <1>4, <1>5, <1>6, <1>7, <1>8, <1>9, <1>10, <1>11,
       <1>12, <1>13, <1>14, <1>15, <1>16, <1>17, <1>18, <1>19, <1>20,
       <1>21, <1>22, <1>23, <1>24, <1>25, <1>26
       DEF Next, ClientStep, ApplyStep, FaultStep

-----------------------------------------------------------------------------
(* The theorems *)

(* The initial states. *)
LEMMA InitInv == Init => IInv
<1> SUFFICES ASSUME Init PROVE IInv
    OBVIOUS
<1> USE SpineWriterAssumption DEF Init
<1>1. NoFile \in Files /\ NoFile.turns = <<>> /\ ~NoFile.tail
    BY DEF NoFile, Files
<1>2. Absent \in Images /\ NoIntent \in Intents
    BY DEF Absent, Images, NoIntent, Intents
<1>3. 1 \in Runs /\ 0 \in 0..MaxChanges /\ 0 \in 0..MaxFaults
    BY DEF Runs
<1>4. [run |-> 1, ver |-> 0, fresh |-> TRUE, known |-> FALSE,
       id |-> NoIntent, state |-> "none"] \in Views
    BY <1>2, <1>3 DEF Views
<1>5. TypeOK
    <2> HIDE DEF Init
    <2>1. spine \in Files /\ durable \in Files
        BY <1>1 DEF Init
    <2>2. view \in [Procs -> Views] /\ plan \in [Procs -> Intents]
        BY <1>2, <1>4, Zenon DEF Init
    <2> QED
        BY <1>3, <2>1, <2>2 DEF Init, TypeOK, Places
<1>6. \A p \in Procs : pc[p] = "idle"
    OBVIOUS
<1> QED
    BY <1>1, <1>5, <1>6 DEF IInv, OneSource, OneIntended, FilesHold, WellFormed, Visible,
       Exclusive, Kept, Entered, Prepared, MarkersHold, Running

(* The invariant holds in every reachable state. *)
THEOREM Invariance == Spec => []IInv
<1>1. IInv /\ [Next]_vars => IInv'
    <2> SUFFICES ASSUME IInv, [Next]_vars PROVE IInv'
        OBVIOUS
    <2> QED
        BY TypeStep, SourceStep, IntendedStep, FileStep, KeptStep, MarkersStep
        DEF IInv, FilesHold
<1> QED
    BY InitInv, <1>1, PTL DEF Spec

(* Types of the writer's state. *)
THEOREM TypesHold == Spec => []TypeOK
<1>1. IInv => TypeOK
    BY DEF IInv
<1> QED
    BY Invariance, <1>1, PTL

(* No second turn is ever ingested: the Spine holds at most one turn, and   *)
(* the intents are all for one run, for any race of any number of windows,  *)
(* interrupted writes and losses of power                                   *)
(* (native_session_spine_writer.py, session_spine_handshake.py).            *)
THEOREM NeverTwoTurns == Spec => []OneTurn
<1>1. IInv => OneTurn
    <2> SUFFICES ASSUME IInv PROVE OneTurn
        OBVIOUS
    <2>1. spine.turns = <<>> \/ \E i \in intents : spine.turns = <<i.run>>
        BY DEF IInv, FilesHold, WellFormed
    <2>2. CASE spine.turns = <<>>
        BY <2>2 DEF IInv, OneTurn, OneIntended
    <2>3. ASSUME NEW i \in intents, spine.turns = <<i.run>> PROVE OneTurn
        <3>1. Len(<<i.run>>) = 1
            OBVIOUS
        <3> QED
            BY <2>3, <3>1 DEF IInv, OneTurn, OneIntended
    <2> QED
        BY <2>1, <2>2, <2>3
<1> QED
    BY Invariance, <1>1, PTL

(* Bytes of a turn are in the Spine only after its intent is on record      *)
(* (SessionSpineIntentStore.prepare, before apply_native_turn_handshake).   *)
THEOREM IntentGoesFirst == Spec => []IntentFirst
<1>1. IInv => IntentFirst
    <2> SUFFICES ASSUME IInv PROVE IntentFirst
        OBVIOUS
    <2>1. ASSUME NEW r \in Runs, Has(spine, r) PROVE Of(r) # {}
        <3>1. spine.turns # <<>>
            BY <2>1, HasOne
        <3>2. PICK i \in intents : spine.turns = <<i.run>>
            BY <3>1 DEF IInv, FilesHold, WellFormed
        <3>3. i.run = r
            BY <2>1, <3>2, HasOne
        <3> QED
            BY <3>3 DEF Of
    <2> QED
        BY <2>1 DEF IInv, FilesHold, WellFormed, IntentFirst
<1> QED
    BY Invariance, <1>1, PTL

(* A turn that an apply added, and gave its receipt for, is on the disk     *)
(* from then on: append_turn syncs before anything later is written         *)
(* (session_spine_store.py).                                                *)
THEOREM OwnWriteStays == Spec => []OwnWriteSurvives
<1>1. IInv => OwnWriteSurvives
    BY HasOne DEF IInv, Kept, OwnWriteSurvives
<1> QED
    BY Invariance, <1>1, PTL

(* While no write was interrupted, the processes that find no intent of a   *)
(* turn all prepare the same one (find_by_source, prepare_native_turn_      *)
(* handshake, under locked_history_read).                                   *)
THEOREM SameIntent == Spec => []OneIntentPerTurn
<1>1. Init => OneVersion /\ Untroubled
    <2> SUFFICES ASSUME Init PROVE OneVersion /\ Untroubled
        OBVIOUS
    <2>1. \A p \in Procs : pc[p] = "idle" /\ view[p].ver = 0
        BY DEF Init
    <2>2. spine.head = "none" /\ intents = {} /\ ver = 0
        BY DEF Init, NoFile
    <2> QED
        BY <2>1, <2>2 DEF OneVersion, Untroubled, Running
<1>2. IInv /\ OneVersion /\ Untroubled /\ [Next]_vars => (OneVersion /\ Untroubled)'
    <2> SUFFICES ASSUME IInv, OneVersion, Untroubled, [Next]_vars
                 PROVE  OneVersion' /\ Untroubled'
        OBVIOUS
    <2> QED
        BY VersionStep, UntroubledStep DEF IInv
<1>3. Untroubled => OneIntentPerTurn
    BY DEF Untroubled, OneIntentPerTurn
<1> QED
    BY <1>1, <1>2, <1>3, Invariance, PTL DEF Spec

(* Every step of the writer is a step of the record, or leaves it as it is. *)
LEMMA StepRecorded ==
    ASSUME IInv, [Next]_vars
    PROVE  [Record!Next]_(Record!vars)
<1> USE DEF Record!vars
<1>0. TypeOK /\ spine \in Files /\ durable \in Files /\ intents \subseteq Intents
    BY DEF IInv, TypeOK
<1>1. ASSUME NEW p \in Procs, pc[p] = "prepare", intents' = intents \cup {plan[p]},
             UNCHANGED <<markers, files>>
      PROVE  Record!Next
    <2>1. plan[p].run = view[p].run /\ \A i \in intents : i.run = view[p].run
        BY <1>1 DEF IInv, OneIntended
    <2>2. view[p].run \in 1..NRuns
        BY <1>0 DEF TypeOK, Views, Runs
    <2>3. {i.run : i \in intents'} = {view[p].run}
        BY <1>1, <2>1
    <2>4. {i.run : i \in intents} \subseteq {view[p].run}
        BY <2>1
    <2> QED
        <3>1. \E r \in 1..NRuns : Record!Intend(r)
            BY <1>1, <2>2, <2>3, <2>4 DEF Record!Intend, files
        <3> QED
            BY <3>1 DEF Record!Next
<1>2. ASSUME NEW p \in Procs, pc[p] = "append", spine' = Extended(p),
             durable' \in {durable, spine'}, UNCHANGED <<intents, markers>>
      PROVE  Record!Next
    <2>1. /\ ~Extended(p).tail /\ Extended(p).turns = <<view[p].run>>
          /\ plan[p] \in intents /\ plan[p].run = view[p].run
        BY <1>0, <1>2, ExtendedBy DEF IInv, FilesHold
    <2>2. view[p].run \in 1..NRuns
        BY <1>0 DEF TypeOK, Views, Runs
    <2>3. spine.turns = <<>> /\ ~spine.tail
        BY <1>2 DEF IInv, FilesHold, Exclusive
    <2>4. spine.tail \in BOOLEAN /\ Extended(p).tail \in BOOLEAN
        BY <1>0, <1>2, ExtendedBy DEF IInv, FilesHold, Files
    <2>5. durable.turns = <<>>
        BY <2>3 DEF IInv, FilesHold, Visible
    <2>6. durable'.turns \in {<<>>, <<view[p].run>>}
        BY <1>2, <2>1, <2>5
    <2>7. Record!Enter(view[p].run)
        BY <1>2, <2>1, <2>3, <2>4, <2>6 DEF Record!Enter
    <2> QED
        <3>1. \E r \in 1..NRuns : Record!Enter(r)
            BY <2>2, <2>7
        <3> QED
            BY <3>1 DEF Record!Next
<1>3. ASSUME NEW p \in Procs, pc[p] = "append", spine' = [spine EXCEPT !.tail = TRUE],
             durable' \in {durable, spine'}, UNCHANGED <<intents, markers>>
      PROVE  Record!Next
    <2>1. plan[p] \in intents /\ spine.turns = <<>> /\ ~spine.tail
        BY <1>3 DEF IInv, FilesHold, Exclusive, OneIntended, Prepared
    <2>2. spine'.turns = spine.turns /\ spine'.tail = TRUE
        BY <1>0, <1>3 DEF Files
    <2>3. durable.turns = <<>>
        BY <2>1 DEF IInv, FilesHold, Visible
    <2>4. durable'.turns = durable.turns
        BY <1>3, <2>1, <2>2, <2>3
    <2>5. Record!Break
        BY <1>3, <2>1, <2>2, <2>4 DEF Record!Break
    <2> QED
        BY <2>5 DEF Record!Next
<1>4. ASSUME NEW p \in Procs, pc[p] = "mark", plan[p] \in intents,
             markers' = markers \cup {Marker(p)}, UNCHANGED <<intents, files>>
      PROVE  Record!Next
    <2>1. plan[p].run = view[p].run /\ \A i \in intents : i.run = view[p].run
        BY <1>4 DEF IInv, OneIntended, Prepared
    <2>2. spine.turns = <<view[p].run>> /\ ~spine.tail
        BY <1>4 DEF IInv, FilesHold, Kept, Entered, WellFormed
    <2>3. Marker(p).id = plan[p]
        BY DEF Marker
    <2>4. \A m \in markers : m.id.run = view[p].run
        BY <2>1 DEF IInv, MarkersHold
    <2>5. {m.id.run : m \in markers'} = {view[p].run}
        BY <1>4, <2>1, <2>3, <2>4
    <2>6. view[p].run \in 1..NRuns
        BY <1>0 DEF TypeOK, Views, Runs
    <2>7. Record!Close(view[p].run)
        BY <1>4, <2>1, <2>2, <2>5 DEF Record!Close, files
    <2> QED
        <3>1. \E r \in 1..NRuns : Record!Close(r)
            BY <2>6, <2>7
        <3> QED
            BY <3>1 DEF Record!Next
<1>5. ASSUME spine'.turns = spine.turns, durable'.turns = durable.turns,
             spine'.tail = spine.tail, UNCHANGED <<intents, markers>>
      PROVE  UNCHANGED Record!vars
    BY <1>5
<1>6. CASE SaveHistory \/ Review
    BY <1>5, <1>6 DEF SaveHistory, Review, records, files
<1>7. CASE PowerLoss
    <2>1. PowerFails /\ durable' = spine' /\ UNCHANGED <<intents, markers>>
        BY <1>7 DEF PowerLoss, records
    <2>2. /\ durable.turns # <<>> =>
                durable.turns = spine.turns /\ ~spine.tail /\ ~durable.tail
          /\ durable.tail => spine.tail
          /\ spine.tail => spine.turns = <<>>
        BY DEF IInv, FilesHold, Visible, WellFormed
    <2>3. /\ spine'.turns \in {durable.turns, spine.turns}
          /\ spine'.tail \in BOOLEAN
          /\ spine'.tail => spine.tail \/ spine.turns # durable.turns
          /\ spine'.tail => spine'.turns = <<>>
        <3>1. CASE spine' \in {durable, spine}
            BY <1>0, <2>2, <3>1 DEF Files
        <3>2. CASE spine' = [durable EXCEPT !.head = "torn"]
            BY <1>0, <2>2, <3>2 DEF Files
        <3>3. CASE /\ durable.turns # spine.turns
                   /\ \E b \in BOOLEAN :
                         spine' = [spine EXCEPT !.turns = durable.turns, !.tail = b]
            <4>1. durable.turns = <<>>
                BY <2>2, <3>3
            <4> QED
                BY <1>0, <3>3, <4>1 DEF Files
        <3> QED
            BY <1>7, <3>1, <3>2, <3>3 DEF PowerLoss
    <2>4. CASE durable.turns # <<>>
        <3>1. spine'.turns = spine.turns /\ spine'.tail = spine.tail
            BY <1>0, <2>2, <2>3, <2>4 DEF Files
        <3>2. durable'.turns = durable.turns
            BY <2>1, <2>2, <2>4, <3>1
        <3> QED
            BY <1>5, <2>1, <3>1, <3>2
    <2>5. CASE durable.turns = <<>>
        <3>1. Record!Lose
            BY <2>1, <2>3, <2>5 DEF Record!Lose
        <3> QED
            BY <3>1 DEF Record!Next
    <2> QED
        BY <2>4, <2>5
<1>8. ASSUME NEW p \in Procs, ClientStep(p) PROVE UNCHANGED Record!vars
    BY <1>5, <1>8 DEF ClientStep, OpenWriter, Confirm, SaveAndIdentify, records, files
<1>9. ASSUME NEW p \in Procs, ApplyStep(p) PROVE [Record!Next]_(Record!vars)
    <2>1. CASE Prepare(p)
        BY <1>1, <2>1 DEF Prepare
    <2>2. CASE Create(p)
        <3>1. spine'.turns = spine.turns /\ spine'.tail = spine.tail
            BY <1>0, <2>2 DEF Create, Files
        <3>2. spine.turns = <<>> /\ durable.turns = <<>>
            BY <1>0, <2>2 DEF Create, Creatable, Files, IInv, FilesHold, WellFormed, Visible
        <3>3. durable'.turns = durable.turns
            BY <2>2, <3>1, <3>2 DEF Create
        <3> QED
            BY <1>5, <2>2, <3>1, <3>3 DEF Create, records
    <2>3. CASE AppendTurn(p)
        BY <1>2, <2>3 DEF AppendTurn, records
    <2>4. CASE Mark(p)
        BY <1>4, <2>4 DEF Mark
    <2>5. CASE BeginApply(p) \/ FindBySource(p) \/ Handshake(p) \/ Inspect(p)
        BY <1>5, <2>5 DEF BeginApply, FindBySource, Handshake, Inspect, records, files
    <2>6. CASE Classify(p) \/ Recheck(p) \/ Open(p) \/ Verify(p) \/ Finish(p)
        BY <1>5, <2>6 DEF Classify, Recheck, Open, Verify, Finish, records, files
    <2> QED
        BY <1>9, <2>1, <2>2, <2>3, <2>4, <2>5, <2>6 DEF ApplyStep
<1>10. ASSUME NEW p \in Procs, FaultStep(p) PROVE [Record!Next]_(Record!vars)
    <2>1. CASE GiveUp(p) \/ InterruptIdentity(p)
        BY <1>5, <2>1 DEF GiveUp, InterruptIdentity, records, files
    <2>2. CASE InterruptPrepare(p)
        BY <1>1, <1>5, <2>2 DEF InterruptPrepare, files
    <2>3. CASE InterruptMark(p)
        BY <1>4, <1>5, <2>3 DEF InterruptMark, files
    <2>4. CASE InterruptCreate(p)
        <3>1. spine'.turns = spine.turns /\ spine'.tail = spine.tail
            BY <1>0, <2>4 DEF InterruptCreate, Files
        <3>2. spine.turns = <<>> /\ durable.turns = <<>>
            BY <1>0, <2>4 DEF InterruptCreate, Creatable, Files, IInv, FilesHold, WellFormed,
                   Visible
        <3>3. durable'.turns = durable.turns
            BY <2>4, <3>1, <3>2 DEF InterruptCreate
        <3> QED
            BY <1>5, <2>4, <3>1, <3>3 DEF InterruptCreate, records
    <2>5. CASE InterruptAppend(p)
        <3>1. CASE spine' = spine
            <4>1. spine.turns = <<>> /\ durable.turns = <<>>
                BY <2>5 DEF InterruptAppend, IInv, FilesHold, Exclusive, Visible
            <4>2. durable'.turns = durable.turns
                BY <2>5, <3>1, <4>1 DEF InterruptAppend
            <4> QED
                BY <1>5, <2>5, <3>1, <4>2 DEF InterruptAppend, records
        <3> QED
            BY <1>2, <1>3, <2>5, <3>1 DEF InterruptAppend, records
    <2> QED
        BY <1>10, <2>1, <2>2, <2>3, <2>4, <2>5 DEF FaultStep
<1>11. CASE UNCHANGED vars
    BY <1>5, <1>11 DEF vars, records, files
<1> QED
    BY <1>6, <1>7, <1>8, <1>9, <1>10, <1>11 DEF Next

(* The writer implements SpineRecord, whichever processes end in the middle *)
(* of a write and whether or not the power may fail: a turn is intended,    *)
(* enters the Spine once, is closed only while it is there, a torn end is   *)
(* never written over, and what was synced stays (apply_native_turn_intent, *)
(* append_turn).                                                            *)
THEOREM WriterKeepsTheRecord == Spec => KeepsTheRecord
<1>1. Init => Record!Init
    BY DEF Init, Record!Init, NoFile
<1>2. IInv /\ [Next]_vars => [Record!Next]_(Record!vars)
    BY StepRecorded
<1> QED
    BY <1>1, <1>2, Invariance, PTL DEF Spec, KeepsTheRecord, Record!Spec
=============================================================================
