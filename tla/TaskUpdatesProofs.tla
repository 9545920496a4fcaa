------------------------- MODULE TaskUpdatesProofs -------------------------
(***************************************************************************)
(* Proofs about TaskUpdates, for any number of updates, tasks and faults:  *)
(* the queue keeps the promise of UpdateDelivery.                          *)
(*                                                                         *)
(* The invariant relates, update by update, the row in memory, the row in  *)
(* the file, the request and what became of the update.  The file is       *)
(* behind the memory by what a failed save can leave (Saved); an update    *)
(* that still waits, in memory or in the file, has never left (Unsent);    *)
(* one on its way is shown as such (OnWay); the flush holds a verdict only *)
(* when the provider gave it (Awaited); and the updates of a task leave in *)
(* the order in which they were written (Ordered).                         *)
(***************************************************************************)
EXTENDS TaskUpdates, TLAPS

(* What the file may say of an update whose row in memory is s. *)
Behind(s) ==
    CASE s = "none"     -> {"none", "queued"}
      [] s = "queued"   -> {"queued", "sending"}
      [] s = "sending"  -> {"sending"}
      [] s = "accepted" -> {"sending", "accepted"}
      [] s = "rejected" -> {"queued", "sending", "rejected"}
      [] s = "unknown"  -> {"sending", "unknown"}

Saved == \A u \in Updates : disk[u] \in Behind(rows[u])

Numbered ==
    /\ running => turn # NoTurn
    /\ \A u \in Updates :
          /\ home[u] <= turn
          /\ rows[u] # "none" \/ disk[u] # "none" => home[u] # NoTurn /\ u <= written

Unsent ==
    \A u \in Updates :
        rows[u] = "queued" \/ disk[u] \in {"none", "queued"} =>
            wire[u] = "none" /\ fate[u] = "here"

OnWay ==
    \A u \in Updates :
        /\ wire[u] \in {"written", "orphan"} => fate[u] = "here" /\ rows[u] \in {"sending", "unknown"}
        /\ wire[u] = "accepted" => fate[u] = "taken"
        /\ wire[u] = "rejected" => fate[u] \in {"here", "refused"}

Awaited ==
    call # NoCall =>
        /\ rows[call] = "sending"
        /\ outcome = "accepted" => wire[call] = "done" /\ fate[call] = "taken"
        /\ outcome = "rejected" => wire[call] = "done" /\ fate[call] \in {"here", "refused"}

(* No update is requested while an earlier one of its task waits, and none is *)
(* handed over while the request of an earlier one is still to be taken.      *)
Ordered ==
    /\ \A u \in Updates :
          /\ fate[u] # "here" => wire[u] # "none"
          /\ wire[u] = "orphan" => ~(running /\ home[u] = turn)
    /\ \A u, v \in Updates :
          /\ v < u /\ home[v] = home[u] =>
                /\ wire[u] # "none" /\ running /\ home[u] = turn => rows[v] # "queued"
                /\ fate[u] # "here" => wire[v] \notin {"written", "orphan"}
          /\ home[v] = home[u] /\ wire[v] = "orphan" => wire[u] # "written"

(* The types, the flags apart. *)
Data ==
    /\ rows \in Rows /\ disk \in Rows
    /\ written \in 0..MaxUpdates /\ home \in [Updates -> Turns]
    /\ turn \in Turns /\ seen \in Phases /\ phase \in Phases
    /\ call \in 0..MaxUpdates /\ outcome \in Verdict \cup {"none"}
    /\ wire \in [Updates -> Wires] /\ fate \in [Updates -> Fates]
    /\ faults \in 0..MaxFaults

Flags ==
    /\ trouble \in BOOLEAN /\ conflict \in BOOLEAN
    /\ running \in BOOLEAN /\ stopped \in BOOLEAN /\ target \in BOOLEAN
    /\ wake \in BOOLEAN

IInv == TypeOK /\ Saved /\ Numbered /\ Unsent /\ OnWay /\ Awaited /\ Ordered

(* The type invariant, in two halves: the provers treat flags apart. *)
LEMMA TypeParts == TypeOK <=> Data /\ Flags
BY DEF TypeOK, Data, Flags

(* A conversation without updates. *)
LEMMA InitInv == Init => IInv
<1> SUFFICES ASSUME Init PROVE IInv
    OBVIOUS
<1>1. Flags
    BY DEF Init, Flags
<1>2. Data
    BY TaskUpdatesAssumption
       DEF Init, Data, Rows, States, Turns, Phases, Wires, Fates, Verdict, NoTurn, NoCall
<1>3. Saved /\ Numbered /\ Unsent /\ OnWay /\ Awaited /\ Ordered
    BY TaskUpdatesAssumption
       DEF Init, Saved, Behind, Numbered, Unsent, OnWay, Awaited, Ordered, NoTurn, NoCall, Updates
<1> QED
    BY <1>1, <1>2, <1>3, TypeParts DEF IInv

-----------------------------------------------------------------------------
(* What saving, sending and closing do *)

(* A save leaves its rows in the file, or what was there before. *)
LEMMA SaveEffect ==
    ASSUME faults \in 0..MaxFaults, NEW r \in Rows, NEW d \in Rows, Saves(r) \/ FailsToSave(r, d)
    PROVE  disk' \in {r, d} /\ faults' \in 0..MaxFaults
<1>1. disk' \in {r, d}
    BY DEF Saves, FailsToSave
<1>2. faults' = faults \/ (faults < MaxFaults /\ faults' = faults + 1)
    BY DEF Saves, FailsToSave
<1> QED
    BY <1>1, <1>2, TaskUpdatesAssumption

(* Changing the row of one update. *)
LEMMA ChangedRows ==
    ASSUME NEW r \in Rows, NEW u \in Updates, NEW s \in States
    PROVE  [r EXCEPT ![u] = s] \in Rows
BY DEF Rows

(* The request of one update is written. *)
LEMMA ChangedWire ==
    ASSUME wire \in [Updates -> Wires], NEW u \in Updates
    PROVE  [wire EXCEPT ![u] = "written"] \in [Updates -> Wires]
BY DEF Wires

(* The flush requests one update that waits, after saving it, or none. *)
SendsOne(r, d) ==
    \E u \in Updates :
       /\ r[u] = "queued" /\ home[u] = turn
       /\ \A v \in Updates : v < u /\ home[v] = turn => r[v] # "queued"
       /\ \/ /\ rows' = [r EXCEPT ![u] = "sending"] /\ disk' = rows'
             /\ call' = u /\ wire' = [wire EXCEPT ![u] = "written"]
          \/ /\ rows' = r /\ disk' \in {d, [r EXCEPT ![u] = "sending"]}
             /\ call' = NoCall /\ wire' = wire

LEMMA SendEffect ==
    ASSUME faults \in 0..MaxFaults, NEW r \in Rows, NEW d \in Rows, SendFirst(r, d)
    PROVE  SendsOne(r, d) /\ outcome' = "none" /\ faults' \in 0..MaxFaults
<1> PICK u \in Updates : SendFirst(r, d)!(u)
    BY DEF SendFirst
<1>1. /\ r[u] = "queued" /\ home[u] = turn
      /\ \A v \in Updates : v < u /\ home[v] = turn => r[v] # "queued"
    BY DEF First, Queued, Updates
<1>2. Saves(Sending(r, u)) \/ FailsToSave(Sending(r, u), d)
    OBVIOUS
<1>3. faults' \in 0..MaxFaults /\ disk' \in {Sending(r, u), d}
    <2>1. Sending(r, u) \in Rows
        BY ChangedRows DEF Sending, States
    <2> QED
        BY <1>2, <2>1, SaveEffect
<1> QED
    BY <1>1, <1>3 DEF Saves, SendsOne, Sending

(* What the flush leaves is of the right type. *)
LEMMA SendsTyped ==
    ASSUME wire \in [Updates -> Wires], NEW r \in Rows, NEW d \in Rows, SendsOne(r, d)
    PROVE  /\ rows' \in Rows /\ disk' \in Rows
           /\ call' \in 0..MaxUpdates /\ wire' \in [Updates -> Wires]
<1> PICK u \in Updates : SendsOne(r, d)!(u)
    BY DEF SendsOne
<1>1. [r EXCEPT ![u] = "sending"] \in Rows
    BY ChangedRows DEF States
<1>2. [wire EXCEPT ![u] = "written"] \in [Updates -> Wires]
    BY ChangedWire
<1>3. rows' \in Rows /\ disk' \in Rows /\ wire' \in [Updates -> Wires]
    BY <1>1, <1>2
<1>4. call' \in {u, NoCall}
    OBVIOUS
<1>5. call' \in 0..MaxUpdates
    BY <1>4, TaskUpdatesAssumption DEF Updates, NoCall
<1> QED
    BY <1>3, <1>5

(* Row by row: the update that was marked, and the others. *)
LEMMA SendsRow ==
    ASSUME NEW r \in Rows, NEW d \in Rows, SendsOne(r, d), NEW v \in Updates
    PROVE  \/ rows'[v] = r[v] /\ disk'[v] \in {r[v], d[v]}
           \/ r[v] = "queued" /\ rows'[v] = "queued" /\ disk'[v] \in {d[v], "sending"}
           \/ r[v] = "queued" /\ rows'[v] = "sending" /\ disk'[v] = "sending"
<1> PICK u \in Updates : SendsOne(r, d)!(u)
    BY DEF SendsOne
<1> DEFINE t == [r EXCEPT ![u] = "sending"]
<1>1. CASE v = u
    <2>1. t[v] = "sending" /\ r[v] = "queued"
        BY <1>1 DEF Rows
    <2> QED
        BY <2>1
<1>2. CASE v # u
    <2>1. t[v] = r[v]
        BY <1>2 DEF Rows
    <2> QED
        BY <2>1
<1> QED
    BY <1>1, <1>2

(* So a file that was behind the memory stays behind it. *)
LEMMA SendsSaved ==
    ASSUME NEW r \in Rows, NEW d \in Rows, SendsOne(r, d), \A v \in Updates : d[v] \in Behind(r[v])
    PROVE  \A v \in Updates : disk'[v] \in Behind(rows'[v])
<1> SUFFICES ASSUME NEW v \in Updates PROVE disk'[v] \in Behind(rows'[v])
    OBVIOUS
<1>1. \/ rows'[v] = r[v] /\ disk'[v] \in {r[v], d[v]}
      \/ r[v] = "queued" /\ rows'[v] = "queued" /\ disk'[v] \in {d[v], "sending"}
      \/ r[v] = "queued" /\ rows'[v] = "sending" /\ disk'[v] = "sending"
    BY SendsRow
<1>2. r[v] \in Behind(r[v]) /\ d[v] \in Behind(r[v])
    BY DEF Behind, Rows, States
<1>3. "sending" \in Behind("queued") /\ "sending" \in Behind("sending")
    BY DEF Behind
<1> QED
    BY <1>1, <1>2, <1>3

(* And no row appears. *)
LEMMA SendsNone ==
    ASSUME NEW r \in Rows, NEW d \in Rows, SendsOne(r, d)
    PROVE  \A v \in Updates : (rows'[v] # "none" \/ disk'[v] # "none") => (r[v] # "none" \/ d[v] # "none")
BY SendsRow

(* The queue is closed: what waits will not be sent. *)
Closes ==
    /\ rows' \in Rows /\ disk' \in {rows', disk}
    /\ \A u \in Updates : rows'[u] = rows[u] \/ (rows[u] = "queued" /\ rows'[u] = "rejected")
    /\ running' => running
    /\ UNCHANGED <<queue, turn, seen, call, outcome, bridge, fate>>
    /\ faults' \in 0..MaxFaults

LEMMA CloseEffect ==
    ASSUME Data, Stop \/ FinishTurn
    PROVE  Closes
<1>1. Persist(Closed(rows))
    BY DEF Stop, FinishTurn
<1>2. Closed(rows) \in Rows /\ \A u \in Updates :
         Closed(rows)[u] = rows[u] \/ (rows[u] = "queued" /\ Closed(rows)[u] = "rejected")
    BY DEF Closed, Queued, Rows, States, Data
<1>3. disk' \in {rows', disk} /\ faults' \in 0..MaxFaults /\ rows' = Closed(rows)
    BY <1>1, <1>2, SaveEffect DEF Persist, Data
<1> QED
    BY <1>2, <1>3 DEF Stop, FinishTurn, Closes, flush

(* An update is written, or its text stays in the draft. *)
Writes(u) ==
    /\ running /\ u = written + 1 /\ written' = u
    /\ home' = [home EXCEPT ![u] = turn]
    /\ \/ rows' = [rows EXCEPT ![u] = "queued"] /\ disk' = rows'
       \/ rows' = rows /\ disk' \in {disk, [rows EXCEPT ![u] = "queued"]}
    /\ UNCHANGED <<task, call, outcome, bridge, fate>>
    /\ faults' \in 0..MaxFaults

LEMMA EnqueueEffect ==
    ASSUME Data, NEW u \in Updates, Enqueue(u)
    PROVE  Writes(u) /\ rows' \in Rows /\ disk' \in Rows
<1> DEFINE r == [rows EXCEPT ![u] = "queued"]
<1>1. r \in Rows
    BY ChangedRows DEF Data, States
<1>2. Saves(r) \/ FailsToSave(r, disk)
    BY DEF Enqueue
<1>3. disk' \in {r, disk} /\ faults' \in 0..MaxFaults
    BY <1>1, <1>2, SaveEffect DEF Data
<1>4. Writes(u)
    BY <1>3 DEF Enqueue, CanUpdate, Saves, Writes
<1>5. rows' \in {rows, r}
    BY DEF Enqueue
<1> QED
    BY <1>1, <1>3, <1>4, <1>5 DEF Data

(* Writing an update leaves the others alone, but may save them. *)
LEMMA WritesOne ==
    ASSUME Data, NEW u \in Updates, Writes(u)
    PROVE  /\ home'[u] = turn
           /\ \A v \in Updates : v # u =>
                 home'[v] = home[v] /\ rows'[v] = rows[v] /\ disk'[v] \in {disk[v], rows[v]}
<1> DEFINE r == [rows EXCEPT ![u] = "queued"]
<1>1. ASSUME NEW v \in Updates, v # u
     PROVE  home'[v] = home[v] /\ rows'[v] = rows[v] /\ disk'[v] \in {disk[v], rows[v]}
    <2>1. r[v] = rows[v]
        BY <1>1 DEF Data, Rows
    <2>2. home'[v] = home[v]
        BY <1>1 DEF Writes, Data
    <2>3. \/ rows' = r /\ disk' = r
          \/ rows' = rows /\ (disk' = disk \/ disk' = r)
        BY DEF Writes
    <2> QED
        BY <2>1, <2>2, <2>3
<1>2. home'[u] = turn
    BY DEF Writes, Data
<1> QED
    BY <1>1, <1>2

(* The flush, at its start. *)
LEMMA FlushEffect ==
    ASSUME Data, Flush
    PROVE  /\ \/ SendsOne(rows, disk) /\ running /\ outcome' = "none"
              \/ UNCHANGED <<rows, disk, call, outcome, wire>>
           /\ UNCHANGED <<queue, task, phase, fate>>
           /\ faults' \in 0..MaxFaults
BY SendEffect DEF Data, Flush, Ready, store

(* The flush, after an answer: its verdict is kept and another update may   *)
(* follow.                                                                  *)
LEMMA SettleEffect ==
    ASSUME Data, Settle
    PROVE  LET r == [rows EXCEPT ![call] = outcome]
           IN /\ call \in Updates /\ outcome \in Verdict /\ r \in Rows
              /\ \/ SendsOne(r, r) /\ running
                 \/ rows' = r /\ disk' \in {disk, r} /\ call' = NoCall /\ wire' = wire
              /\ outcome' = "none"
              /\ UNCHANGED <<queue, task, phase, fate>>
              /\ faults' \in 0..MaxFaults
<1> DEFINE r == [rows EXCEPT ![call] = outcome]
<1>1. call \in Updates /\ outcome \in Verdict
    BY TaskUpdatesAssumption DEF Settle, Data, NoCall, Updates, Verdict
<1>2. r \in Rows
    BY <1>1 DEF Data, Rows, States, Verdict
<1>3. CASE SendFirst(r, r) /\ running
    BY <1>1, <1>2, <1>3, SendEffect DEF Settle, Data
<1>4. CASE /\ Saves(r) \/ FailsToSave(r, disk)
          /\ rows' = r /\ call' = NoCall /\ outcome' = "none" /\ UNCHANGED wire
    <2>1. disk' \in {disk, r} /\ faults' \in 0..MaxFaults
        BY <1>2, <1>4, SaveEffect DEF Data
    <2> QED
        BY <1>1, <1>2, <1>4, <2>1 DEF Settle
<1> QED
    BY <1>3, <1>4 DEF Settle, GoesOn, Ready

-----------------------------------------------------------------------------
(* Each part is preserved, action by action. *)

(* Writing an update keeps the types. *)
LEMMA EnqueueData ==
    ASSUME Data, NEW u \in Updates, Enqueue(u)
    PROVE  Data'
<1>1. Writes(u) /\ rows' \in Rows /\ disk' \in Rows
    BY EnqueueEffect
<1>2. home' \in [Updates -> Turns]
    BY <1>1 DEF Writes, Data
<1>3. written' \in 0..MaxUpdates /\ faults' \in 0..MaxFaults
    BY <1>1, TaskUpdatesAssumption DEF Writes, Updates
<1> QED
    BY <1>1, <1>2, <1>3 DEF Writes, Data, task, bridge

(* The start of a flush keeps the types. *)
LEMMA FlushData ==
    ASSUME Data, Flush
    PROVE  Data'
<1>1. /\ \/ SendsOne(rows, disk) /\ outcome' = "none"
         \/ UNCHANGED <<rows, disk, call, outcome, wire>>
      /\ UNCHANGED <<queue, task, phase, fate>> /\ faults' \in 0..MaxFaults
    BY FlushEffect
<1>2. /\ rows' \in Rows /\ disk' \in Rows
      /\ call' \in 0..MaxUpdates /\ wire' \in [Updates -> Wires]
    BY <1>1, SendsTyped DEF Data
<1> QED
    BY <1>1, <1>2 DEF Data, queue, task

(* So does its continuation after a verdict. *)
LEMMA SettleData ==
    ASSUME Data, Settle
    PROVE  Data'
<1> DEFINE s == [rows EXCEPT ![call] = outcome]
<1>1. /\ s \in Rows
      /\ SendsOne(s, s) \/ (rows' = s /\ disk' \in {disk, s} /\ call' = NoCall /\ wire' = wire)
      /\ outcome' = "none" /\ faults' \in 0..MaxFaults
      /\ UNCHANGED <<queue, task, phase, fate>>
    BY SettleEffect
<1>2. NoCall \in 0..MaxUpdates
    BY TaskUpdatesAssumption DEF NoCall
<1> HIDE DEF s
<1>3. /\ rows' \in Rows /\ disk' \in Rows
      /\ call' \in 0..MaxUpdates /\ wire' \in [Updates -> Wires]
    BY <1>1, <1>2, SendsTyped DEF Data
<1> QED
    BY <1>1, <1>3 DEF Data, queue, task

(* The types, the flags apart. *)
LEMMA DataStep ==
    ASSUME Data, [Next]_vars
    PROVE  Data'
<1> USE TaskUpdatesAssumption DEF Data, Rows, States, Turns, Phases, Wires,
                                  Fates, Verdict, NoTurn, NoCall, Updates,
                                  store, queue, task, flush, bridge
<1>1. CASE SaveOther
    BY <1>1 DEF SaveOther, Saves
<1>2. CASE StartTurn
    <2>1. disk' \in {disk, rows} /\ faults' \in 0..MaxFaults
        BY <1>2, SaveEffect DEF StartTurn
    <2>2. turn' \in Turns /\ seen' \in Phases /\ phase' \in Phases
        BY <1>2 DEF StartTurn
    <2>3. UNCHANGED <<rows, written, home, call, outcome, wire, fate>>
        BY <1>2 DEF StartTurn
    <2> QED
        BY <2>1, <2>2, <2>3
<1>3. CASE Stop
    BY <1>3, CloseEffect DEF Closes
<1>4. CASE FinishTurn
    BY <1>4, CloseEffect DEF Closes
<1>5. ASSUME NEW p \in Phases, ReceiveEvent(p) PROVE Data'
    BY <1>5 DEF ReceiveEvent
<1>6. ASSUME NEW u \in Updates, Enqueue(u) PROVE Data'
    BY <1>6, EnqueueData
<1>7. CASE Flush
    BY <1>7, FlushData
<1>8. ASSUME NEW u \in Updates, ReceiveReply(u) PROVE Data'
    BY <1>8 DEF ReceiveReply
<1>9. CASE TimeOut
    BY <1>9 DEF TimeOut
<1>10. CASE Settle
    BY <1>10, SettleData
<1>11. CASE OpenChannel
    BY <1>11 DEF OpenChannel
<1>12. CASE CloseChannel
    BY <1>12 DEF CloseChannel
<1>13. CASE EndTurn
    BY <1>13 DEF EndTurn
<1>14. ASSUME NEW u \in Updates, TakeRequest(u) PROVE Data'
    BY <1>14 DEF TakeRequest
<1>15. ASSUME NEW u \in Updates, Provider(u) PROVE Data'
    BY <1>15 DEF Provider
<1>16. ASSUME NEW u \in Updates, Reply(u) PROVE Data'
    BY <1>16 DEF Reply, Answered
<1>17. CASE BridgeDies
    BY <1>17 DEF BridgeDies, FailCalls
<1>18. CASE LineLost
    BY <1>18 DEF LineLost, FailCalls
<1>19. CASE Relaunch
    BY <1>19 DEF Relaunch
<1>20. ASSUME NEW u \in Updates, OrphanHanded(u) PROVE Data'
    BY <1>20 DEF OrphanHanded
<1>21. CASE UNCHANGED vars
    BY <1>21 DEF vars
<1> QED
    BY <1>1, <1>2, <1>3, <1>4, <1>5, <1>6, <1>7, <1>8, <1>9, <1>10, <1>11, <1>12,
       <1>13, <1>14, <1>15, <1>16, <1>17, <1>18, <1>19, <1>20, <1>21
       DEF Next, Operator, Client, Bridge, Outside

(* The file is behind the memory by at most a failed save. *)
LEMMA SavedStep ==
    ASSUME Data, Saved, Numbered, Unsent, Awaited, [Next]_vars
    PROVE  Saved'
<1> USE TaskUpdatesAssumption DEF Data, Saved, Behind, Rows, States, NoCall,
                                  Updates, Verdict, store, queue, task, flush,
                                  bridge
<1>1. CASE SaveOther
    BY <1>1 DEF SaveOther, Saves
<1>2. CASE StartTurn
    <2>1. disk' \in {disk, rows} /\ faults' \in 0..MaxFaults
        BY <1>2, SaveEffect DEF StartTurn
    <2> QED
        BY <1>2, <2>1 DEF StartTurn
<1>3. CASE Stop
    BY <1>3, CloseEffect DEF Closes
<1>4. CASE FinishTurn
    BY <1>4, CloseEffect DEF Closes
<1>5. ASSUME NEW p \in Phases, ReceiveEvent(p) PROVE Saved'
    BY <1>5 DEF ReceiveEvent
<1>6. ASSUME NEW u \in Updates, Enqueue(u) PROVE Saved'
    <2>1. Writes(u)
        BY <1>6, EnqueueEffect
    <2>2. rows[u] = "none" /\ disk[u] = "none"
        <3>1. ~(u <= written)
            BY <2>1 DEF Writes
        <3> QED
            BY <3>1 DEF Numbered
    <2>3. disk'[u] \in Behind(rows'[u])
        BY <2>1, <2>2 DEF Writes
    <2>4. \A v \in Updates : v # u => rows'[v] = rows[v] /\ disk'[v] \in {disk[v], rows[v]}
        BY <2>1, WritesOne
    <2>5. \A v \in Updates : disk[v] \in Behind(rows[v]) /\ rows[v] \in Behind(rows[v])
        OBVIOUS
    <2> HIDE DEF Saved, Behind
    <2> QED
        BY <2>3, <2>4, <2>5 DEF Saved
<1>7. CASE Flush
    <2>1. SendsOne(rows, disk) \/ UNCHANGED <<rows, disk>>
        BY <1>7, FlushEffect
    <2>2. CASE SendsOne(rows, disk)
        <3> HIDE DEF Rows, Behind
        <3> QED
            BY <2>2, SendsSaved
    <2> QED
        BY <2>1, <2>2
<1>8. ASSUME NEW u \in Updates, ReceiveReply(u) PROVE Saved'
    BY <1>8 DEF ReceiveReply
<1>9. CASE TimeOut
    BY <1>9 DEF TimeOut
<1>10. CASE Settle
    <2> DEFINE s == [rows EXCEPT ![call] = outcome]
    <2>1. /\ call \in Updates /\ outcome \in Verdict /\ s \in Rows
          /\ SendsOne(s, s) \/ (rows' = s /\ disk' \in {disk, s})
        BY <1>10, SettleEffect
    <2>2. ASSUME NEW v \in Updates PROVE disk[v] \in Behind(s[v]) /\ s[v] \in Behind(s[v])
        <3>1. rows[call] = "sending" /\ disk[call] = "sending"
            BY <1>10, <2>1 DEF Awaited, Settle
        <3>2. s[v] = IF v = call THEN outcome ELSE rows[v]
            BY <2>1
        <3>3. rows[v] \in States \cup {"none"} /\ disk[v] \in Behind(rows[v])
            OBVIOUS
        <3> QED
            BY <2>1, <3>1, <3>2, <3>3
    <2> HIDE DEF s
    <2>3. CASE SendsOne(s, s)
        <3> HIDE DEF Rows, Behind
        <3> QED
            BY <2>1, <2>2, <2>3, SendsSaved
    <2> QED
        BY <2>1, <2>2, <2>3
<1>11. CASE OpenChannel
    BY <1>11 DEF OpenChannel
<1>12. CASE CloseChannel
    BY <1>12 DEF CloseChannel
<1>13. CASE EndTurn
    BY <1>13 DEF EndTurn
<1>14. ASSUME NEW u \in Updates, TakeRequest(u) PROVE Saved'
    BY <1>14 DEF TakeRequest
<1>15. ASSUME NEW u \in Updates, Provider(u) PROVE Saved'
    BY <1>15 DEF Provider
<1>16. ASSUME NEW u \in Updates, Reply(u) PROVE Saved'
    BY <1>16 DEF Reply, Answered
<1>17. CASE BridgeDies
    BY <1>17 DEF BridgeDies, FailCalls
<1>18. CASE LineLost
    BY <1>18 DEF LineLost, FailCalls
<1>19. CASE Relaunch
    BY <1>19 DEF Relaunch
<1>20. ASSUME NEW u \in Updates, OrphanHanded(u) PROVE Saved'
    BY <1>20 DEF OrphanHanded
<1>21. CASE UNCHANGED vars
    BY <1>21 DEF vars
<1> QED
    BY <1>1, <1>2, <1>3, <1>4, <1>5, <1>6, <1>7, <1>8, <1>9, <1>10, <1>11, <1>12,
       <1>13, <1>14, <1>15, <1>16, <1>17, <1>18, <1>19, <1>20, <1>21
       DEF Next, Operator, Client, Bridge, Outside

(* Updates are numbered as they are written. *)
LEMMA NumberedStep ==
    ASSUME Data, Saved, Numbered, Awaited, [Next]_vars
    PROVE  Numbered'
<1> USE TaskUpdatesAssumption DEF Data, Numbered, Rows, States, Turns, NoTurn,
                                  NoCall, Updates, store, queue, task, flush,
                                  bridge
<1>1. CASE SaveOther
    BY <1>1 DEF SaveOther, Saves
<1>2. CASE StartTurn
    <2>1. disk' \in {disk, rows} /\ faults' \in 0..MaxFaults
        BY <1>2, SaveEffect DEF StartTurn
    <2> QED
        BY <1>2, <2>1 DEF StartTurn
<1>3. CASE Stop
    <2>1. Closes
        BY <1>3, CloseEffect
    <2>2. \A v \in Updates : (rows'[v] # "none" \/ disk'[v] # "none") => (rows[v] # "none" \/ disk[v] # "none")
        BY <2>1 DEF Closes
    <2> QED
        BY <2>1, <2>2 DEF Closes
<1>4. CASE FinishTurn
    <2>1. Closes
        BY <1>4, CloseEffect
    <2>2. \A v \in Updates : (rows'[v] # "none" \/ disk'[v] # "none") => (rows[v] # "none" \/ disk[v] # "none")
        BY <2>1 DEF Closes
    <2> QED
        BY <2>1, <2>2 DEF Closes
<1>5. ASSUME NEW p \in Phases, ReceiveEvent(p) PROVE Numbered'
    BY <1>5 DEF ReceiveEvent
<1>6. ASSUME NEW u \in Updates, Enqueue(u) PROVE Numbered'
    <2>1. Writes(u)
        BY <1>6, EnqueueEffect
    <2>2. turn' = turn /\ turn # NoTurn /\ running' = running
        BY <2>1 DEF Writes
    <2>3. home'[u] = turn /\ \A v \in Updates : v # u =>
             home'[v] = home[v] /\ rows'[v] = rows[v] /\ disk'[v] \in {disk[v], rows[v]}
        BY <2>1, WritesOne
    <2>4. written' = u /\ written < u
        BY <2>1 DEF Writes
    <2> QED
        <3>1. \A v \in Updates : home'[v] <= turn'
            BY <2>2, <2>3
        <3>2. \A v \in Updates : rows'[v] # "none" \/ disk'[v] # "none" => home'[v] # NoTurn /\ v <= written'
            BY <2>2, <2>3, <2>4
        <3> QED
            BY <2>2, <3>1, <3>2
<1>7. CASE Flush
    <2>1. SendsOne(rows, disk) \/ UNCHANGED <<rows, disk>>
        BY <1>7, FlushEffect
    <2>2. UNCHANGED <<home, written, turn, running>>
        BY <1>7, FlushEffect
    <2>3. \A v \in Updates : (rows'[v] # "none" \/ disk'[v] # "none") => (rows[v] # "none" \/ disk[v] # "none")
        <3> HIDE DEF Rows
        <3> QED
            BY <2>1, SendsNone
    <2> QED
        BY <2>2, <2>3
<1>8. ASSUME NEW u \in Updates, ReceiveReply(u) PROVE Numbered'
    BY <1>8 DEF ReceiveReply
<1>9. CASE TimeOut
    BY <1>9 DEF TimeOut
<1>10. CASE Settle
    <2> DEFINE s == [rows EXCEPT ![call] = outcome]
    <2>1. /\ call \in Updates /\ s \in Rows
          /\ SendsOne(s, s) \/ (rows' = s /\ disk' \in {disk, s})
          /\ UNCHANGED <<queue, task>>
        BY <1>10, SettleEffect
    <2>2. \A v \in Updates : s[v] # "none" => rows[v] # "none"
        BY <1>10, <2>1 DEF Awaited
    <2>3. \A v \in Updates : (rows'[v] # "none" \/ disk'[v] # "none") => (s[v] # "none" \/ disk[v] # "none")
        <3> HIDE DEF s, Rows
        <3>1. CASE SendsOne(s, s)
            BY <2>1, <3>1, SendsNone
        <3> QED
            BY <2>1, <3>1
    <2> QED
        BY <2>1, <2>2, <2>3
<1>11. CASE OpenChannel
    BY <1>11 DEF OpenChannel
<1>12. CASE CloseChannel
    BY <1>12 DEF CloseChannel
<1>13. CASE EndTurn
    BY <1>13 DEF EndTurn
<1>14. ASSUME NEW u \in Updates, TakeRequest(u) PROVE Numbered'
    BY <1>14 DEF TakeRequest
<1>15. ASSUME NEW u \in Updates, Provider(u) PROVE Numbered'
    BY <1>15 DEF Provider
<1>16. ASSUME NEW u \in Updates, Reply(u) PROVE Numbered'
    BY <1>16 DEF Reply, Answered
<1>17. CASE BridgeDies
    BY <1>17 DEF BridgeDies, FailCalls
<1>18. CASE LineLost
    BY <1>18 DEF LineLost, FailCalls
<1>19. CASE Relaunch
    BY <1>19 DEF Relaunch
<1>20. ASSUME NEW u \in Updates, OrphanHanded(u) PROVE Numbered'
    BY <1>20 DEF OrphanHanded
<1>21. CASE UNCHANGED vars
    BY <1>21 DEF vars
<1> QED
    BY <1>1, <1>2, <1>3, <1>4, <1>5, <1>6, <1>7, <1>8, <1>9, <1>10, <1>11, <1>12,
       <1>13, <1>14, <1>15, <1>16, <1>17, <1>18, <1>19, <1>20, <1>21
       DEF Next, Operator, Client, Bridge, Outside

(* An update that waits has not left. *)
LEMMA UnsentStep ==
    ASSUME Data, Saved, Numbered, Unsent, OnWay, Awaited, [Next]_vars
    PROVE  Unsent'
<1> USE TaskUpdatesAssumption DEF Data, Saved, Behind, Unsent, OnWay, Rows,
                                  States, NoCall, Updates, store, queue, task,
                                  flush, bridge
<1>1. CASE SaveOther
    BY <1>1 DEF SaveOther, Saves
<1>2. CASE StartTurn
    <2>1. disk' \in {disk, rows} /\ faults' \in 0..MaxFaults
        BY <1>2, SaveEffect DEF StartTurn
    <2> QED
        BY <1>2, <2>1 DEF StartTurn
<1>3. CASE Stop
    <2>1. Closes
        BY <1>3, CloseEffect
    <2>2. \A v \in Updates : rows'[v] = rows[v] \/ (rows[v] = "queued" /\ rows'[v] = "rejected")
        BY <2>1 DEF Closes
    <2>3. UNCHANGED <<wire, fate>> /\ disk' \in {rows', disk}
        BY <2>1 DEF Closes
    <2> QED
        BY <2>2, <2>3
<1>4. CASE FinishTurn
    <2>1. Closes
        BY <1>4, CloseEffect
    <2>2. \A v \in Updates : rows'[v] = rows[v] \/ (rows[v] = "queued" /\ rows'[v] = "rejected")
        BY <2>1 DEF Closes
    <2>3. UNCHANGED <<wire, fate>> /\ disk' \in {rows', disk}
        BY <2>1 DEF Closes
    <2> QED
        BY <2>2, <2>3
<1>5. ASSUME NEW p \in Phases, ReceiveEvent(p) PROVE Unsent'
    BY <1>5 DEF ReceiveEvent
<1>6. ASSUME NEW u \in Updates, Enqueue(u) PROVE Unsent'
    <2>1. Writes(u)
        BY <1>6, EnqueueEffect
    <2>2. rows[u] = "none" /\ disk[u] = "none"
        <3>1. ~(u <= written)
            BY <2>1 DEF Writes
        <3> QED
            BY <3>1 DEF Numbered
    <2>3. \A v \in Updates : v # u => rows'[v] = rows[v] /\ disk'[v] \in {disk[v], rows[v]}
        BY <2>1, WritesOne
    <2> QED
        BY <2>1, <2>2, <2>3 DEF Writes
<1>7. CASE Flush
    <2>1. CASE UNCHANGED <<rows, disk, wire>>
        BY <1>7, <2>1, FlushEffect
    <2>2. CASE SendsOne(rows, disk)
        <3>1. PICK u \in Updates : SendsOne(rows, disk)!(u)
            BY <2>2 DEF SendsOne
        <3>2. \A v \in Updates : v # u =>
                 rows'[v] = rows[v] /\ disk'[v] \in {disk[v], rows[v]} /\ wire'[v] = wire[v]
            BY <3>1
        <3>3. \/ rows'[u] = "sending" /\ disk'[u] = "sending"
              \/ rows'[u] = "queued" /\ wire'[u] = wire[u]
            BY <3>1
        <3>4. \A v \in Updates : disk[v] \in {"none", "queued"} \/ rows[v] \in {"none", "queued"} =>
                 wire[v] = "none" /\ fate[v] = "here"
            OBVIOUS
        <3>5. fate' = fate /\ rows[u] = "queued"
            BY <1>7, <3>1, FlushEffect
        <3> QED
            BY <3>2, <3>3, <3>4, <3>5
    <2> QED
        BY <1>7, <2>1, <2>2, FlushEffect
<1>8. ASSUME NEW u \in Updates, ReceiveReply(u) PROVE Unsent'
    <2>1. wire[u] # "none"
        BY <1>8 DEF ReceiveReply, Verdict
    <2> QED
        BY <1>8, <2>1 DEF ReceiveReply
<1>9. CASE TimeOut
    BY <1>9 DEF TimeOut
<1>10. CASE Settle
    <2> DEFINE s == [rows EXCEPT ![call] = outcome]
    <2>1. /\ call \in Updates /\ outcome \in Verdict /\ s \in Rows
          /\ SendsOne(s, s) \/ (rows' = s /\ disk' \in {disk, s} /\ wire' = wire)
          /\ fate' = fate
        BY <1>10, SettleEffect
    <2>2. \A v \in Updates : disk[v] \in {"none", "queued"} \/ s[v] \in {"none", "queued"} =>
             wire[v] = "none" /\ fate[v] = "here"
        BY <2>1 DEF Verdict
    <2>3. CASE SendsOne(s, s)
        <3>1. PICK u \in Updates : SendsOne(s, s)!(u)
            BY <2>3 DEF SendsOne
        <3>2. \A v \in Updates : v # u => rows'[v] = s[v] /\ disk'[v] = s[v] /\ wire'[v] = wire[v]
            BY <2>1, <3>1
        <3>3. \/ rows'[u] = "sending" /\ disk'[u] = "sending"
              \/ s[u] = "queued" /\ wire'[u] = wire[u]
            BY <2>1, <3>1
        <3> QED
            BY <2>1, <2>2, <3>2, <3>3
    <2>4. CASE rows' = s /\ disk' \in {disk, s} /\ wire' = wire
        BY <2>1, <2>2, <2>4
    <2> QED
        BY <2>1, <2>3, <2>4
<1>11. CASE OpenChannel
    BY <1>11 DEF OpenChannel
<1>12. CASE CloseChannel
    BY <1>12 DEF CloseChannel
<1>13. CASE EndTurn
    BY <1>13 DEF EndTurn
<1>14. ASSUME NEW u \in Updates, TakeRequest(u) PROVE Unsent'
    <2>1. wire[u] = "written"
        BY <1>14 DEF TakeRequest, First, Unread
    <2> QED
        BY <1>14, <2>1 DEF TakeRequest
<1>15. ASSUME NEW u \in Updates, Provider(u) PROVE Unsent'
    BY <1>15 DEF Provider
<1>16. ASSUME NEW u \in Updates, Reply(u) PROVE Unsent'
    BY <1>16 DEF Reply, Answered
<1>17. CASE BridgeDies
    BY <1>17 DEF BridgeDies, FailCalls
<1>18. CASE LineLost
    BY <1>18 DEF LineLost, FailCalls
<1>19. CASE Relaunch
    BY <1>19 DEF Relaunch
<1>20. ASSUME NEW u \in Updates, OrphanHanded(u) PROVE Unsent'
    BY <1>20 DEF OrphanHanded
<1>21. CASE UNCHANGED vars
    BY <1>21 DEF vars
<1> QED
    BY <1>1, <1>2, <1>3, <1>4, <1>5, <1>6, <1>7, <1>8, <1>9, <1>10, <1>11, <1>12,
       <1>13, <1>14, <1>15, <1>16, <1>17, <1>18, <1>19, <1>20, <1>21
       DEF Next, Operator, Client, Bridge, Outside

(* An update on its way is shown as such. *)
LEMMA OnWayStep ==
    ASSUME Data, Saved, Numbered, Unsent, OnWay, Awaited, [Next]_vars
    PROVE  OnWay'
<1> USE TaskUpdatesAssumption DEF Data, OnWay, Unsent, Rows, States, NoCall,
                                  Updates, store, queue, task, flush, bridge
<1>1. CASE SaveOther
    BY <1>1 DEF SaveOther, Saves
<1>2. CASE StartTurn
    <2>1. disk' \in {disk, rows} /\ faults' \in 0..MaxFaults
        BY <1>2, SaveEffect DEF StartTurn
    <2> QED
        BY <1>2, <2>1 DEF StartTurn
<1>3. CASE Stop
    BY <1>3, CloseEffect DEF Closes
<1>4. CASE FinishTurn
    BY <1>4, CloseEffect DEF Closes
<1>5. ASSUME NEW p \in Phases, ReceiveEvent(p) PROVE OnWay'
    BY <1>5 DEF ReceiveEvent
<1>6. ASSUME NEW u \in Updates, Enqueue(u) PROVE OnWay'
    BY <1>6, EnqueueEffect DEF Numbered, Writes
<1>7. CASE Flush
    BY <1>7, FlushEffect DEF SendsOne
<1>8. ASSUME NEW u \in Updates, ReceiveReply(u) PROVE OnWay'
    BY <1>8 DEF ReceiveReply
<1>9. CASE TimeOut
    BY <1>9 DEF TimeOut
<1>10. CASE Settle
    <2> DEFINE s == [rows EXCEPT ![call] = outcome]
    <2>1. /\ call \in Updates /\ outcome \in Verdict /\ s \in Rows
          /\ SendsOne(s, s) \/ (rows' = s /\ wire' = wire)
          /\ fate' = fate
        BY <1>10, SettleEffect
    <2>2. \A v \in Updates : wire[v] \in {"written", "orphan"} => s[v] \in {"sending", "unknown"}
        BY <2>1 DEF Verdict, Awaited
    <2>3. CASE SendsOne(s, s)
        <3>1. PICK u \in Updates : SendsOne(s, s)!(u)
            BY <2>3 DEF SendsOne
        <3>2. \A v \in Updates : v # u => rows'[v] = s[v] /\ wire'[v] = wire[v]
            BY <2>1, <3>1
        <3>3. rows[u] = "queued" /\ fate[u] = "here"
            BY <2>1, <3>1 DEF Verdict, Unsent
        <3>4. \/ rows'[u] = "sending" /\ wire'[u] = "written"
              \/ rows'[u] = s[u] /\ wire'[u] = wire[u]
            BY <2>1, <3>1
        <3> QED
            BY <2>1, <2>2, <3>2, <3>3, <3>4
    <2>4. CASE rows' = s /\ wire' = wire
        BY <2>1, <2>2, <2>4
    <2> QED
        BY <2>1, <2>3, <2>4
<1>11. CASE OpenChannel
    BY <1>11 DEF OpenChannel
<1>12. CASE CloseChannel
    BY <1>12 DEF CloseChannel
<1>13. CASE EndTurn
    BY <1>13 DEF EndTurn
<1>14. ASSUME NEW u \in Updates, TakeRequest(u) PROVE OnWay'
    <2>1. wire[u] = "written"
        BY <1>14 DEF TakeRequest, First, Unread
    <2>2. \A v \in Updates : v # u => wire'[v] = wire[v] /\ fate'[v] = fate[v]
        BY <1>14 DEF TakeRequest
    <2>3. \/ wire'[u] \in {"rejected", "unknown"} /\ fate'[u] = fate[u]
          \/ wire'[u] = "handing"
        BY <1>14 DEF TakeRequest
    <2> QED
        BY <1>14, <2>1, <2>2, <2>3 DEF TakeRequest
<1>15. ASSUME NEW u \in Updates, Provider(u) PROVE OnWay'
    BY <1>15 DEF Provider
<1>16. ASSUME NEW u \in Updates, Reply(u) PROVE OnWay'
    BY <1>16 DEF Reply, Answered
<1>17. CASE BridgeDies
    BY <1>17 DEF BridgeDies, FailCalls
<1>18. CASE LineLost
    BY <1>18 DEF LineLost, FailCalls
<1>19. CASE Relaunch
    BY <1>19 DEF Relaunch, Saved, Behind
<1>20. ASSUME NEW u \in Updates, OrphanHanded(u) PROVE OnWay'
    BY <1>20 DEF OrphanHanded
<1>21. CASE UNCHANGED vars
    BY <1>21 DEF vars
<1> QED
    BY <1>1, <1>2, <1>3, <1>4, <1>5, <1>6, <1>7, <1>8, <1>9, <1>10, <1>11, <1>12,
       <1>13, <1>14, <1>15, <1>16, <1>17, <1>18, <1>19, <1>20, <1>21
       DEF Next, Operator, Client, Bridge, Outside

(* A verdict is the provider's. *)
LEMMA AwaitedStep ==
    ASSUME Data, Numbered, Unsent, OnWay, Awaited, [Next]_vars
    PROVE  Awaited'
<1> USE TaskUpdatesAssumption DEF Data, Awaited, OnWay, Rows, States, NoCall,
                                  Updates, store, queue, task, flush, bridge
<1>1. CASE SaveOther
    BY <1>1 DEF SaveOther, Saves
<1>2. CASE StartTurn
    <2>1. disk' \in {disk, rows} /\ faults' \in 0..MaxFaults
        BY <1>2, SaveEffect DEF StartTurn
    <2> QED
        BY <1>2, <2>1 DEF StartTurn
<1>3. CASE Stop
    BY <1>3, CloseEffect DEF Closes
<1>4. CASE FinishTurn
    BY <1>4, CloseEffect DEF Closes
<1>5. ASSUME NEW p \in Phases, ReceiveEvent(p) PROVE Awaited'
    BY <1>5 DEF ReceiveEvent
<1>6. ASSUME NEW u \in Updates, Enqueue(u) PROVE Awaited'
    <2>1. Writes(u)
        BY <1>6, EnqueueEffect
    <2>2. rows[u] = "none"
        BY <2>1 DEF Writes, Numbered
    <2> QED
        BY <2>1, <2>2 DEF Writes
<1>7. CASE Flush
    BY <1>7, FlushEffect DEF SendsOne
<1>8. ASSUME NEW u \in Updates, ReceiveReply(u) PROVE Awaited'
    BY <1>8 DEF ReceiveReply
<1>9. CASE TimeOut
    BY <1>9 DEF TimeOut
<1>10. CASE Settle
    BY <1>10, SettleEffect DEF SendsOne
<1>11. CASE OpenChannel
    BY <1>11 DEF OpenChannel
<1>12. CASE CloseChannel
    BY <1>12 DEF CloseChannel
<1>13. CASE EndTurn
    BY <1>13 DEF EndTurn
<1>14. ASSUME NEW u \in Updates, TakeRequest(u) PROVE Awaited'
    <2>1. wire[u] = "written"
        BY <1>14 DEF TakeRequest, First, Unread
    <2>2. \A v \in Updates : v # u => wire'[v] = wire[v] /\ fate'[v] = fate[v]
        BY <1>14 DEF TakeRequest
    <2>3. \/ wire'[u] \in {"rejected", "unknown"} /\ fate'[u] = fate[u]
          \/ wire'[u] = "handing"
        BY <1>14 DEF TakeRequest
    <2> QED
        BY <1>14, <2>1, <2>2, <2>3 DEF TakeRequest
<1>15. ASSUME NEW u \in Updates, Provider(u) PROVE Awaited'
    BY <1>15 DEF Provider
<1>16. ASSUME NEW u \in Updates, Reply(u) PROVE Awaited'
    BY <1>16 DEF Reply, Answered
<1>17. CASE BridgeDies
    BY <1>17 DEF BridgeDies, FailCalls
<1>18. CASE LineLost
    BY <1>18 DEF LineLost, FailCalls
<1>19. CASE Relaunch
    BY <1>19 DEF Relaunch
<1>20. ASSUME NEW u \in Updates, OrphanHanded(u) PROVE Awaited'
    BY <1>20 DEF OrphanHanded
<1>21. CASE UNCHANGED vars
    BY <1>21 DEF vars
<1> QED
    BY <1>1, <1>2, <1>3, <1>4, <1>5, <1>6, <1>7, <1>8, <1>9, <1>10, <1>11, <1>12,
       <1>13, <1>14, <1>15, <1>16, <1>17, <1>18, <1>19, <1>20, <1>21
       DEF Next, Operator, Client, Bridge, Outside

(* The flags stay flags. *)
LEMMA FlagStep ==
    ASSUME Flags, [Next]_vars
    PROVE  Flags'
<1> USE DEF Flags, store, queue, task, flush, bridge
<1>1. CASE SaveOther
    BY <1>1 DEF SaveOther, Saves
<1>2. CASE StartTurn
    BY <1>2 DEF StartTurn, Saves, FailsToSave
<1>3. CASE Stop
    BY <1>3 DEF Stop, Persist, Saves, FailsToSave
<1>4. CASE FinishTurn
    BY <1>4 DEF FinishTurn, Persist, Saves, FailsToSave
<1>5. ASSUME NEW p \in Phases, ReceiveEvent(p) PROVE Flags'
    BY <1>5 DEF ReceiveEvent
<1>6. ASSUME NEW u \in Updates, Enqueue(u) PROVE Flags'
    BY <1>6 DEF Enqueue, Saves, FailsToSave
<1>7. CASE Flush
    <2>1. trouble' \in BOOLEAN /\ conflict' \in BOOLEAN
        BY <1>7 DEF Flush, SendFirst, Saves, FailsToSave
    <2> QED
        BY <1>7, <2>1 DEF Flush
<1>8. ASSUME NEW u \in Updates, ReceiveReply(u) PROVE Flags'
    BY <1>8 DEF ReceiveReply
<1>9. CASE TimeOut
    BY <1>9 DEF TimeOut
<1>10. CASE Settle
    <2>1. trouble' \in BOOLEAN /\ conflict' \in BOOLEAN
        BY <1>10 DEF Settle, SendFirst, Saves, FailsToSave
    <2>2. wake' \in BOOLEAN
        BY <1>10 DEF Settle
    <2> QED
        BY <1>10, <2>1, <2>2 DEF Settle
<1>11. CASE OpenChannel
    BY <1>11 DEF OpenChannel
<1>12. CASE CloseChannel
    BY <1>12 DEF CloseChannel
<1>13. CASE EndTurn
    BY <1>13 DEF EndTurn
<1>14. ASSUME NEW u \in Updates, TakeRequest(u) PROVE Flags'
    BY <1>14 DEF TakeRequest
<1>15. ASSUME NEW u \in Updates, Provider(u) PROVE Flags'
    BY <1>15 DEF Provider
<1>16. ASSUME NEW u \in Updates, Reply(u) PROVE Flags'
    BY <1>16 DEF Reply
<1>17. CASE BridgeDies
    BY <1>17 DEF BridgeDies, FailCalls
<1>18. CASE LineLost
    BY <1>18 DEF LineLost, FailCalls
<1>19. CASE Relaunch
    BY <1>19 DEF Relaunch
<1>20. ASSUME NEW u \in Updates, OrphanHanded(u) PROVE Flags'
    BY <1>20 DEF OrphanHanded
<1>21. CASE UNCHANGED vars
    BY <1>21 DEF vars
<1> QED
    BY <1>1, <1>2, <1>3, <1>4, <1>5, <1>6, <1>7, <1>8, <1>9, <1>10, <1>11, <1>12,
       <1>13, <1>14, <1>15, <1>16, <1>17, <1>18, <1>19, <1>20, <1>21
       DEF Next, Operator, Client, Bridge, Outside

(* Most steps send nothing, hand nothing over and make nothing wait. *)
Calm ==
    /\ UNCHANGED <<home, turn>> /\ (running' => running)
    /\ \A u \in Updates :
          /\ rows'[u] = "queued" => rows[u] = "queued"
          /\ fate'[u] # "here" <=> fate[u] # "here"
          /\ wire'[u] # "none" <=> wire[u] # "none"
          /\ wire'[u] \in {"written", "orphan"} => wire'[u] = wire[u]

(* Such a step keeps the order. *)
LEMMA CalmKeepsOrder ==
    ASSUME Ordered, Calm
    PROVE  Ordered'
<1>1. ASSUME NEW u \in Updates
      PROVE  /\ fate'[u] # "here" => wire'[u] # "none"
             /\ wire'[u] = "orphan" => ~(running' /\ home'[u] = turn')
    BY DEF Ordered, Calm
<1>2. ASSUME NEW u \in Updates, NEW v \in Updates
      PROVE  /\ v < u /\ home'[v] = home'[u] =>
                   /\ wire'[u] # "none" /\ running' /\ home'[u] = turn' => rows'[v] # "queued"
                   /\ fate'[u] # "here" => wire'[v] \notin {"written", "orphan"}
             /\ home'[v] = home'[u] /\ wire'[v] = "orphan" => wire'[u] # "written"
    BY DEF Ordered, Calm
<1> QED
    BY <1>1, <1>2 DEF Ordered

(* When the next update is requested, no earlier one of the task waits. *)
LEMMA SendKeepsOrder ==
    ASSUME Data, Ordered, Unsent, NEW r \in Rows, NEW d \in Rows, SendsOne(r, d), running,
           UNCHANGED <<queue, task, fate>>,
           \A v \in Updates : r[v] = "queued" => rows[v] = "queued"
    PROVE  Ordered'
<1> PICK u \in Updates : SendsOne(r, d)!(u)
    BY DEF SendsOne
<1>1. UNCHANGED <<home, turn, running, fate>>
    BY DEF queue, task
<1>2. \A v \in Updates : rows'[v] = "queued" => r[v] = "queued"
    BY DEF Rows
<1>3. CASE wire' = wire
    BY <1>1, <1>2, <1>3, CalmKeepsOrder DEF Calm
<1>4. CASE wire' = [wire EXCEPT ![u] = "written"]
    <2>1. wire'[u] = "written" /\ \A v \in Updates : v # u => wire'[v] = wire[v]
        BY <1>4 DEF Data
    <2>2. fate[u] = "here" /\ wire[u] = "none"
        BY DEF Unsent
    <2>3. \A v \in Updates : v < u /\ home[v] = turn => rows'[v] # "queued"
        BY <1>2
    <2>4. \A v \in Updates : home[v] = turn => wire[v] # "orphan"
        BY DEF Ordered
    <2>5. ASSUME NEW x \in Updates, NEW v \in Updates
          PROVE  /\ v < x /\ home[v] = home[x] =>
                       /\ wire'[x] # "none" /\ home[x] = turn => rows'[v] # "queued"
                       /\ fate[x] # "here" => wire'[v] \notin {"written", "orphan"}
                 /\ home[v] = home[x] /\ wire'[v] = "orphan" => wire'[x] # "written"
        <3>1. CASE x = u
            BY <2>1, <2>2, <2>3, <2>4, <3>1 DEF Updates
        <3>2. CASE x # u /\ v = u
            <4>1. rows[u] = "queued"
                OBVIOUS
            <4>2. u < x /\ home[u] = home[x] => wire[x] = "none"
                BY <1>1, <4>1 DEF Ordered
            <4>3. fate[x] # "here" => wire[x] # "none"
                BY DEF Ordered
            <4> QED
                BY <2>1, <3>2, <4>2, <4>3
        <3>3. CASE x # u /\ v # u
            BY <1>2, <2>1, <3>3 DEF Ordered
        <3> QED
            BY <3>1, <3>2, <3>3
    <2>6. \A x \in Updates : /\ fate[x] # "here" => wire'[x] # "none"
                             /\ wire'[x] = "orphan" => ~(running /\ home[x] = turn)
        BY <2>1 DEF Ordered
    <2> QED
        BY <1>1, <2>5, <2>6 DEF Ordered
<1> QED
    BY <1>3, <1>4

(* Updates leave in the order in which they were written. *)
LEMMA OrderedStep ==
    ASSUME Data, Numbered, Saved, Unsent, OnWay, Awaited, Ordered, [Next]_vars
    PROVE  Ordered'
<1>1. CASE SaveOther
    BY <1>1, CalmKeepsOrder DEF SaveOther, Calm, queue, task, bridge
<1>2. CASE StartTurn
    <2>1. CASE UNCHANGED <<task, phase>>
        BY <1>2, <2>1, CalmKeepsOrder DEF StartTurn, Calm, queue, task
    <2>2. CASE turn' = turn + 1
        <3>1. UNCHANGED <<rows, home, wire, fate>>
            BY <1>2 DEF StartTurn, queue
        <3>2. \A u \in Updates : home[u] # turn'
            BY <2>2 DEF Numbered, Data, Turns
        <3> QED
            BY <3>1, <3>2 DEF Ordered
    <2> QED
        BY <1>2, <2>1, <2>2 DEF StartTurn
<1>3. CASE Stop \/ FinishTurn
    BY <1>3, CloseEffect, CalmKeepsOrder DEF Closes, Calm, queue, bridge
<1>4. ASSUME NEW p \in Phases, ReceiveEvent(p) PROVE Ordered'
    BY <1>4, CalmKeepsOrder DEF ReceiveEvent, Calm, store, queue, bridge
<1>5. ASSUME NEW u \in Updates, Enqueue(u) PROVE Ordered'
    <2>1. Writes(u)
        BY <1>5, EnqueueEffect
    <2>2. UNCHANGED <<turn, running, wire, fate>>
        BY <2>1 DEF Writes, task, bridge
    <2>3. /\ home'[u] = turn
          /\ \A v \in Updates : v # u => home'[v] = home[v] /\ rows'[v] = rows[v]
        BY <2>1, WritesOne
    <2>4. \A v \in Updates : u <= v => wire[v] = "none" /\ fate[v] = "here"
        <3>1. \A v \in Updates : u <= v => ~(v <= written)
            BY <2>1 DEF Writes, Data, Updates
        <3> QED
            BY <3>1 DEF Numbered, Unsent
    <2>5. ASSUME NEW x \in Updates, NEW v \in Updates
          PROVE  /\ v < x /\ home'[v] = home'[x] =>
                       /\ wire[x] # "none" /\ running /\ home'[x] = turn => rows'[v] # "queued"
                       /\ fate[x] # "here" => wire[v] \notin {"written", "orphan"}
                 /\ home'[v] = home'[x] /\ wire[v] = "orphan" => wire[x] # "written"
        <3>1. CASE x = u
            BY <2>4, <3>1 DEF Updates
        <3>2. CASE x # u /\ v = u
            BY <2>4, <3>2 DEF Updates
        <3>3. CASE x # u /\ v # u
            BY <2>3, <3>3 DEF Ordered
        <3> QED
            BY <3>1, <3>2, <3>3
    <2>6. \A x \in Updates : /\ fate[x] # "here" => wire[x] # "none"
                             /\ wire[x] = "orphan" => ~(running /\ home'[x] = turn)
        BY <2>3, <2>4 DEF Ordered, Updates
    <2> QED
        BY <2>2, <2>5, <2>6 DEF Ordered
<1>6. CASE Flush
    <2>1. CASE SendsOne(rows, disk) /\ running
        BY <1>6, <2>1, FlushEffect, SendKeepsOrder DEF Data
    <2>2. CASE UNCHANGED <<rows, disk, call, outcome, wire>>
        BY <1>6, <2>2, FlushEffect, CalmKeepsOrder DEF Calm, queue, task
    <2> QED
        BY <1>6, <2>1, <2>2, FlushEffect
<1>7. ASSUME NEW u \in Updates, ReceiveReply(u) PROVE Ordered'
    <2>1. /\ UNCHANGED <<rows, home, turn, running, fate>>
          /\ wire[u] \in Verdict /\ wire' = [wire EXCEPT ![u] = "done"]
        BY <1>7 DEF ReceiveReply, store, queue, task
    <2> QED
        BY <2>1, CalmKeepsOrder DEF Calm, Data, Verdict
<1>8. CASE TimeOut
    BY <1>8, CalmKeepsOrder DEF TimeOut, Calm, store, queue, task, bridge
<1>9. CASE Settle
    <2> DEFINE s == [rows EXCEPT ![call] = outcome]
    <2>1. /\ call \in Updates /\ outcome \in Verdict /\ s \in Rows
          /\ (SendsOne(s, s) /\ running) \/ (rows' = s /\ wire' = wire)
          /\ UNCHANGED <<queue, task, fate>>
        BY <1>9, SettleEffect
    <2>2. \A v \in Updates : s[v] = "queued" => rows[v] = "queued"
        BY <2>1 DEF Data, Rows, Verdict
    <2> HIDE DEF s
    <2>3. CASE SendsOne(s, s) /\ running
        BY <2>1, <2>2, <2>3, SendKeepsOrder
    <2>4. CASE rows' = s /\ wire' = wire
        BY <2>1, <2>2, <2>4, CalmKeepsOrder DEF Calm, queue, task
    <2> QED
        BY <2>1, <2>3, <2>4
<1>10. CASE OpenChannel \/ CloseChannel \/ EndTurn
    BY <1>10, CalmKeepsOrder DEF OpenChannel, CloseChannel, EndTurn, Calm, store, queue, task
<1>11. ASSUME NEW u \in Updates, TakeRequest(u) PROVE Ordered'
    <2>1. /\ UNCHANGED <<rows, home, turn, running>>
          /\ wire[u] = "written"
          /\ \A v \in Updates : v < u => wire[v] # "written"
        BY <1>11 DEF TakeRequest, First, Unread, store, queue, task, Updates
    <2>2. CASE fate' = fate /\ \E x \in {"unknown", "rejected"} : wire' = [wire EXCEPT ![u] = x]
        BY <2>1, <2>2, CalmKeepsOrder DEF Calm, Data
    <2>3. CASE wire' = [wire EXCEPT ![u] = "handing"] /\ fate' = [fate EXCEPT ![u] = "handed"]
        <3>1. /\ wire'[u] = "handing" /\ fate'[u] = "handed"
              /\ \A v \in Updates : v # u => wire'[v] = wire[v] /\ fate'[v] = fate[v]
            BY <2>3 DEF Data
        <3>2. \A v \in Updates : v < u /\ home[v] = home[u] => wire[v] \notin {"written", "orphan"}
            BY <2>1 DEF Ordered
        <3>3. ASSUME NEW x \in Updates, NEW v \in Updates
              PROVE  /\ v < x /\ home[v] = home[x] =>
                           /\ wire'[x] # "none" /\ running /\ home[x] = turn => rows[v] # "queued"
                           /\ fate'[x] # "here" => wire'[v] \notin {"written", "orphan"}
                     /\ home[v] = home[x] /\ wire'[v] = "orphan" => wire'[x] # "written"
            <4>1. /\ wire'[x] # "none" => wire[x] # "none"
                  /\ wire'[v] \in {"written", "orphan"} => wire'[v] = wire[v]
                  /\ wire'[x] = "written" => wire[x] = "written"
                BY <2>1, <3>1
            <4>2. fate'[x] # "here" => fate[x] # "here" \/ x = u
                BY <3>1
            <4> QED
                BY <3>2, <4>1, <4>2 DEF Ordered
        <3>4. \A x \in Updates : /\ fate'[x] # "here" => wire'[x] # "none"
                                 /\ wire'[x] = "orphan" => ~(running /\ home[x] = turn)
            BY <3>1 DEF Ordered
        <3> QED
            BY <2>1, <3>3, <3>4 DEF Ordered
    <2> QED
        BY <1>11, <2>2, <2>3 DEF TakeRequest
<1>12. ASSUME NEW u \in Updates, Provider(u) PROVE Ordered'
    <2>1. /\ UNCHANGED <<rows, home, turn, running, wire>> /\ fate[u] = "handed"
          /\ \E f \in {"taken", "refused"} : fate' = [fate EXCEPT ![u] = f]
        BY <1>12 DEF Provider, store, queue, task, bridge
    <2> QED
        BY <2>1, CalmKeepsOrder DEF Calm, Data
<1>13. ASSUME NEW u \in Updates, Reply(u) PROVE Ordered'
    <2>1. /\ UNCHANGED <<rows, home, turn, running, fate>> /\ wire[u] = "handing"
          /\ \E v \in {"accepted", "rejected", "unknown"} : wire' = [wire EXCEPT ![u] = v]
        BY <1>13 DEF Reply, Answered, store, queue, task
    <2> QED
        BY <2>1, CalmKeepsOrder DEF Calm, Data
<1>14. CASE BridgeDies
    <2>1. /\ UNCHANGED <<rows, home, turn, running, fate>>
          /\ \A u \in Updates : wire'[u] = IF wire[u] \in {"none", "orphan"} THEN wire[u] ELSE "done"
        BY <1>14 DEF BridgeDies, store, queue
    <2> QED
        BY <2>1, CalmKeepsOrder DEF Calm
<1>15. CASE LineLost
    BY <1>15, CalmKeepsOrder DEF LineLost, Calm, store, queue, bridge
<1>16. CASE Relaunch
    <2>1. /\ UNCHANGED <<home, turn, fate>> /\ ~running'
          /\ \A u \in Updates : wire'[u] \in {"none", "orphan", "done"}
          /\ \A u \in Updates : /\ wire'[u] = "orphan" => wire[u] \in {"written", "orphan"}
                                /\ wire'[u] = "none" => wire[u] = "none"
        BY <1>16 DEF Relaunch, queue
    <2> QED
        BY <2>1 DEF Ordered
<1>17. ASSUME NEW u \in Updates, OrphanHanded(u) PROVE Ordered'
    <2>1. /\ UNCHANGED <<rows, home, turn, running>> /\ wire[u] = "orphan"
          /\ \A v \in Updates : wire'[v] = IF wire[v] = "orphan" /\ v <= u /\ home[v] = home[u]
                                           THEN "done" ELSE wire[v]
          /\ fate'[u] = "handed"
          /\ \A v \in Updates : v # u => fate'[v] = fate[v]
        BY <1>17 DEF OrphanHanded, store, queue, task, Data
    <2>2. \A v \in Updates : v < u /\ home[v] = home[u] => wire'[v] \notin {"written", "orphan"}
        BY <2>1 DEF Ordered, Updates
    <2>3. wire'[u] = "done"
        BY <2>1 DEF Updates
    <2>4. \A v \in Updates : /\ wire'[v] \in {"written", "orphan"} => wire'[v] = wire[v]
                             /\ wire'[v] # "none" <=> wire[v] # "none"
        BY <2>1
    <2>5. ASSUME NEW x \in Updates, NEW v \in Updates
          PROVE  /\ v < x /\ home[v] = home[x] =>
                       /\ wire'[x] # "none" /\ running /\ home[x] = turn => rows[v] # "queued"
                       /\ fate'[x] # "here" => wire'[v] \notin {"written", "orphan"}
                 /\ home[v] = home[x] /\ wire'[v] = "orphan" => wire'[x] # "written"
        BY <2>1, <2>2, <2>4 DEF Ordered
    <2>6. \A x \in Updates : /\ fate'[x] # "here" => wire'[x] # "none"
                             /\ wire'[x] = "orphan" => ~(running /\ home[x] = turn)
        BY <2>1, <2>3, <2>4 DEF Ordered
    <2> QED
        BY <2>1, <2>5, <2>6 DEF Ordered
<1>18. CASE UNCHANGED vars
    BY <1>18, CalmKeepsOrder DEF vars, Calm, store, queue, task, bridge
<1> QED
    BY <1>1, <1>2, <1>3, <1>4, <1>5, <1>6, <1>7, <1>8, <1>9, <1>10, <1>11, <1>12,
       <1>13, <1>14, <1>15, <1>16, <1>17, <1>18
       DEF Next, Operator, Client, Bridge, Outside

(* An update is handed over from its request, and answered after that. *)
LEMMA FateMoves ==
    ASSUME Data, [Next]_vars, NEW v \in Updates
    PROVE  fate'[v] = fate[v] \/ wire[v] \in {"written", "orphan"} \/ fate[v] = "handed"
<1>1. ASSUME NEW u \in Updates, TakeRequest(u)
      PROVE  fate'[v] = fate[v] \/ wire[v] \in {"written", "orphan"}
    BY <1>1 DEF TakeRequest, First, Unread, Data
<1>2. ASSUME NEW u \in Updates, OrphanHanded(u)
      PROVE  fate'[v] = fate[v] \/ wire[v] \in {"written", "orphan"}
    BY <1>2 DEF OrphanHanded, Data
<1>3. ASSUME NEW u \in Updates, Provider(u)
      PROVE  fate'[v] = fate[v] \/ fate[v] = "handed"
    BY <1>3 DEF Provider, Data
<1>4. ASSUME NEW u \in Updates, Enqueue(u) \/ ReceiveReply(u) \/ Reply(u) PROVE fate' = fate
    BY <1>4 DEF Enqueue, ReceiveReply, Reply
<1>5. ASSUME NEW p \in Phases, ReceiveEvent(p) PROVE fate' = fate
    BY <1>5 DEF ReceiveEvent
<1>6. CASE \/ SaveOther \/ StartTurn \/ Stop \/ FinishTurn \/ Flush \/ TimeOut \/ Settle
           \/ OpenChannel \/ CloseChannel \/ EndTurn \/ BridgeDies \/ LineLost \/ Relaunch
    <2>1. fate' = fate
        BY <1>6 DEF SaveOther, StartTurn, Stop, FinishTurn, Flush, TimeOut, Settle,
               OpenChannel, CloseChannel, EndTurn, BridgeDies, LineLost, Relaunch
    <2> QED
        BY <2>1
<1>7. CASE UNCHANGED vars
    BY <1>7 DEF vars
<1> QED
    BY <1>1, <1>2, <1>3, <1>4, <1>5, <1>6, <1>7 DEF Next, Operator, Client, Bridge, Outside

-----------------------------------------------------------------------------

(* The invariant, for any number of updates, tasks and faults. *)
THEOREM Invariance == Spec => []IInv
<1>1. IInv /\ [Next]_vars => IInv'
    <2> SUFFICES ASSUME IInv, [Next]_vars PROVE IInv'
        OBVIOUS
    <2>1. Data /\ Flags /\ Saved /\ Numbered /\ Unsent /\ OnWay /\ Awaited /\ Ordered
        BY TypeParts DEF IInv
    <2>2. Data' /\ Flags'
        BY <2>1, DataStep, FlagStep
    <2>3. TypeOK'
        BY <2>2, TypeParts DEF TypeOK, Data, Flags
    <2>4. Saved'
        BY <2>1, SavedStep
    <2>5. Numbered'
        BY <2>1, NumberedStep
    <2>6. Unsent'
        BY <2>1, UnsentStep
    <2>7. OnWay'
        BY <2>1, OnWayStep
    <2>8. Awaited'
        BY <2>1, AwaitedStep
    <2>9. Ordered'
        BY <2>1, OrderedStep
    <2> QED
        BY <2>3, <2>4, <2>5, <2>6, <2>7, <2>8, <2>9 DEF IInv
<1> QED
    BY <1>1, InitInv, PTL DEF Spec

(* Every state of the queue is of its type. *)
THEOREM TypeCorrect == Spec => []TypeOK
<1>1. IInv => TypeOK
    BY DEF IInv
<1> QED
    BY <1>1, Invariance, PTL

(* An update leaves only after the history says it may have left            *)
(* (TaskUpdates.swift:167-170), whichever saves fail.                       *)
THEOREM HistoryKnowsFirst == Spec => []SavedBeforeSent
<1>1. IInv => SavedBeforeSent
    BY DEF IInv, Unsent, SavedBeforeSent
<1> QED
    BY <1>1, Invariance, PTL

(* An update that left the draft is in the history file                     *)
(* (TaskUpdates.swift:106-115), whichever saves fail.                       *)
THEOREM UpdatesAreKept == Spec => []NoUpdateDropped
<1>1. IInv => NoUpdateDropped
    <2> SUFFICES ASSUME IInv, NEW u \in Updates, rows[u] # "none" PROVE disk[u] # "none"
        BY DEF NoUpdateDropped
    <2>1. rows[u] \in States /\ disk[u] \in Behind(rows[u])
        BY DEF IInv, TypeOK, Rows, Saved
    <2> QED
        BY <2>1 DEF Behind, States
<1> QED
    BY <1>1, Invariance, PTL

(* The updates of a task are handed over in the order in which they were    *)
(* written (TaskUpdates.swift:162-166), whatever is lost and restarted.     *)
THEOREM HandedInOrder == Spec => InOrder
<1>1. ASSUME IInv, [Next]_vars, NEW u \in Updates, NEW v \in Updates,
             v < u, home[v] = home[u], fate[v] = "here", fate[u] # "here"
      PROVE  fate'[v] = "here"
    <2>1. wire[v] \notin {"written", "orphan"}
        BY <1>1 DEF IInv, Ordered
    <2>2. Data
        BY <1>1, TypeParts DEF IInv
    <2>3. fate'[v] = fate[v] \/ wire[v] \in {"written", "orphan"} \/ fate[v] = "handed"
        BY <1>1, <2>2, FateMoves
    <2> QED
        BY <1>1, <2>1, <2>3
<1>2. IInv /\ [Next]_vars
      => \A u, v \in Updates :
            v < u /\ home[v] = home[u] /\ fate[v] = "here" /\ fate[u] # "here" => fate'[v] = "here"
    BY <1>1
<1> QED
    BY <1>2, Invariance, PTL DEF Spec, InOrder

-----------------------------------------------------------------------------
(* The queue implements UpdateDelivery *)

(* A line that is shown is one of the lines. *)
LEMMA LinesShown ==
    ASSUME rows \in Rows, NEW u \in Updates
    PROVE  Shown(u) \in Delivery!Lines
BY DEF Shown, Rows, States, Delivery!Lines

(* What the row of an update may become within one run of the application. *)
Moves(v) ==
    \/ /\ rows'[v] = rows[v]
       /\ rows[v] \in {"queued", "sending"} => (home'[v] = Source' <=> home[v] = Source)
    \/ rows[v] = "none" /\ rows'[v] = "queued" /\ home'[v] = Source'
    \/ rows[v] = "queued" /\ home[v] = Source /\ rows'[v] = "sending" /\ home'[v] = Source'
    \/ rows[v] = "queued" /\ rows'[v] = "rejected"
    \/ rows[v] = "sending" /\ rows'[v] = "sending" /\ home'[v] # Source'
    \/ rows[v] = "sending" /\ rows'[v] = "unknown"
    \/ rows[v] = "sending" /\ rows'[v] = "accepted" /\ fate[v] = "taken"
    \/ rows[v] = "sending" /\ rows'[v] = "rejected" /\ fate[v] \in {"here", "refused"}

(* What the promise allows to be shown next. *)
LEMMA LinesAllowed ==
    ASSUME NEW u \in Updates
    PROVE  /\ Shown(u) = "none" => "waiting" \in Delivery!NextLines(u)
           /\ Shown(u) = "waiting" => {"sending", "not sent"} \subseteq Delivery!NextLines(u)
           /\ Shown(u) \in {"sending", "unconfirmed"} =>
                 /\ "unconfirmed" \in Delivery!NextLines(u)
                 /\ fate[u] = "taken" => "added" \in Delivery!NextLines(u)
                 /\ fate[u] \in {"here", "refused"} => "not sent" \in Delivery!NextLines(u)
BY DEF Delivery!NextLines, Delivery!Verdicts

(* A move of a row is one of the promise. *)
LEMMA MoveTells ==
    ASSUME rows \in Rows, NEW u \in Updates, Moves(u)
    PROVE  Shown(u)' \in {Shown(u)} \cup Delivery!NextLines(u)
<1> DEFINE L == Delivery!NextLines(u)
<1>1. /\ Shown(u) = "none" => "waiting" \in L
      /\ Shown(u) = "waiting" => "sending" \in L /\ "not sent" \in L
      /\ Shown(u) \in {"sending", "unconfirmed"} =>
            /\ "unconfirmed" \in L
            /\ fate[u] = "taken" => "added" \in L
            /\ fate[u] \in {"here", "refused"} => "not sent" \in L
    BY LinesAllowed
<1> SUFFICES Shown(u)' \in {Shown(u)} \cup L
    OBVIOUS
<1> HIDE DEF L
<1>2. rows[u] \in States \cup {"none"}
    BY DEF Rows
<1>3. CASE /\ rows'[u] = rows[u]
           /\ rows[u] \in {"queued", "sending"} => (home'[u] = Source' <=> home[u] = Source)
    BY <1>2, <1>3 DEF Shown, States
<1>4. CASE rows[u] = "none" /\ rows'[u] = "queued" /\ home'[u] = Source'
    BY <1>1, <1>4 DEF Shown
<1>5. CASE rows[u] = "queued" /\ home[u] = Source /\ rows'[u] = "sending" /\ home'[u] = Source'
    BY <1>1, <1>5 DEF Shown
<1>6. CASE rows[u] = "queued" /\ rows'[u] = "rejected"
    BY <1>1, <1>6 DEF Shown
<1>7. CASE rows[u] = "sending" /\ rows'[u] = "sending" /\ home'[u] # Source'
    BY <1>1, <1>7 DEF Shown
<1>8. CASE rows[u] = "sending" /\ rows'[u] = "unknown"
    BY <1>1, <1>8 DEF Shown
<1>9. CASE rows[u] = "sending" /\ rows'[u] = "accepted" /\ fate[u] = "taken"
    BY <1>1, <1>9 DEF Shown
<1>10. CASE rows[u] = "sending" /\ rows'[u] = "rejected" /\ fate[u] \in {"here", "refused"}
    BY <1>1, <1>10 DEF Shown
<1> QED
    BY <1>3, <1>4, <1>5, <1>6, <1>7, <1>8, <1>9, <1>10 DEF Moves

(* So the lines change as the promise allows. *)
LEMMA MovesTell ==
    ASSUME rows \in Rows, rows' \in Rows, fate' = fate, \A v \in Updates : Moves(v)
    PROVE  Delivery!Tell
<1>1. \A u \in Updates : Shown(u)' \in {Shown(u)} \cup Delivery!NextLines(u)
    BY MoveTells
<1>2. \A u \in Updates : Shown(u)' \in Delivery!Lines
    BY DEF Shown, Rows, States, Delivery!Lines
<1> HIDE DEF Shown
<1> QED
    BY <1>1, <1>2 DEF Delivery!Tell

(* An action that changes neither rows, tasks nor what became of an update  *)
(* shows nothing new.                                                       *)
LEMMA SameLines ==
    ASSUME UNCHANGED <<rows, home, turn, running, fate>>
    PROVE  UNCHANGED Delivery!vars
BY DEF Delivery!vars, Shown, Source

(* A new task makes no old update active again. *)
LEMMA StartSame ==
    ASSUME IInv, StartTurn
    PROVE  UNCHANGED Delivery!vars
<1>1. UNCHANGED <<rows, home, fate>> /\ ~running
    BY DEF StartTurn, queue
<1>2. ASSUME NEW u \in Updates, rows[u] # "none"
     PROVE  home[u] # Source /\ home[u] # Source'
    <2>1. home[u] # NoTurn /\ home[u] <= turn /\ home[u] \in Nat /\ turn \in Nat
        BY <1>2, TaskUpdatesAssumption DEF IInv, TypeOK, Numbered, Turns
    <2>2. CASE UNCHANGED task
        BY <1>1, <2>1, <2>2 DEF Source, task
    <2>3. CASE turn' = turn + 1 /\ running' = TRUE
        BY <1>1, <2>1, <2>3 DEF Source
    <2> QED
        BY <2>2, <2>3 DEF StartTurn
<1>3. \A u \in Updates : Shown(u)' = Shown(u)
    BY <1>1, <1>2 DEF Shown
<1> HIDE DEF Shown
<1> QED
    BY <1>1, <1>3 DEF Delivery!vars

(* Closing the queue gives up what waits; the end of the task leaves what   *)
(* is on its way unconfirmed.                                               *)
LEMMA CloseTells ==
    ASSUME IInv, Stop \/ FinishTurn
    PROVE  Delivery!Tell
<1>1. Closes /\ rows \in Rows
    BY CloseEffect, TypeParts DEF IInv, Data
<1>2. running /\ running' \in {TRUE, FALSE}
    BY DEF Stop, FinishTurn, IInv, TypeOK
<1>3. ASSUME NEW v \in Updates PROVE Moves(v)
    <2>1. rows'[v] = rows[v] \/ (rows[v] = "queued" /\ rows'[v] = "rejected")
        BY <1>1 DEF Closes
    <2>2. home'[v] = home[v] /\ turn' = turn
        BY <1>1 DEF Closes, queue
    <2>3. CASE UNCHANGED running
        BY <2>1, <2>2, <2>3 DEF Moves, Source
    <2>4. CASE FinishTurn
        <3>1. rows'[v] = rows[v] /\ rows[v] = "queued" => home[v] # turn
            BY <2>4 DEF FinishTurn, Persist, Closed, Queued
        <3>2. Source = turn /\ Source' = NoTurn
            BY <2>4, <2>2 DEF FinishTurn, Source
        <3>3. rows[v] # "none" => home[v] # NoTurn
            BY DEF IInv, Numbered
        <3> QED
            BY <2>1, <2>2, <3>1, <3>2, <3>3 DEF Moves
    <2> QED
        BY <2>3, <2>4 DEF Stop
<1> QED
    BY <1>1, <1>3, MovesTell DEF Closes

(* Writing an update shows it as waiting. *)
LEMMA EnqueueTells ==
    ASSUME IInv, NEW u \in Updates, Enqueue(u)
    PROVE  Delivery!Tell
<1>1. Data /\ Numbered
    BY TypeParts DEF IInv
<1>2. Writes(u) /\ rows \in Rows /\ rows' \in Rows
    BY <1>1, EnqueueEffect DEF Data
<1>3. /\ home'[u] = turn
      /\ \A v \in Updates : v # u => home'[v] = home[v] /\ rows'[v] = rows[v]
    BY <1>1, <1>2, WritesOne
<1>4. running /\ UNCHANGED <<turn, running>> /\ fate' = fate
    BY <1>2 DEF Writes, task
<1>5. Source = turn /\ Source' = turn
    BY <1>4 DEF Source
<1>6. rows[u] = "none"
    <2>1. ~(u <= written)
        BY <1>1, <1>2, TaskUpdatesAssumption DEF Writes, Data
    <2> QED
        BY <1>1, <2>1 DEF Numbered
<1>7. rows'[u] \in {"none", "queued"}
    BY <1>2, <1>6 DEF Writes, Rows
<1>8. \A v \in Updates : Moves(v)
    BY <1>3, <1>5, <1>6, <1>7 DEF Moves
<1> QED
    BY <1>2, <1>4, <1>8, MovesTell

(* Marking the next update, from the rows r. *)
LEMMA SendMoves ==
    ASSUME NEW r \in Rows, NEW d, SendsOne(r, d)
    PROVE  \A v \in Updates :
              \/ rows'[v] = r[v]
              \/ r[v] = "queued" /\ home[v] = turn /\ rows'[v] = "sending"
BY DEF SendsOne, Rows

(* The start of a flush shows the update as being sent. *)
LEMMA FlushTells ==
    ASSUME IInv, Flush
    PROVE  Delivery!Tell \/ UNCHANGED Delivery!vars
<1>1. Data
    BY TypeParts DEF IInv
<1>2. UNCHANGED <<home, turn, running, fate>>
    BY <1>1, FlushEffect DEF queue, task
<1>3. CASE UNCHANGED rows
    BY <1>2, <1>3, SameLines
<1>4. CASE SendsOne(rows, disk) /\ running
    <2>1. rows \in Rows /\ rows' \in Rows
        BY <1>1, FlushData DEF Data
    <2>2. Source = turn /\ Source' = turn
        BY <1>2, <1>4 DEF Source
    <2>3. \A v \in Updates : Moves(v)
        BY <1>2, <1>4, <2>1, <2>2, SendMoves DEF Moves
    <2> QED
        BY <1>2, <2>1, <2>3, MovesTell
<1> QED
    BY <1>1, <1>3, <1>4, FlushEffect

(* Its continuation shows the verdict of one and the sending of the next. *)
LEMMA SettleTells ==
    ASSUME IInv, Settle
    PROVE  Delivery!Tell
<1> DEFINE s == [rows EXCEPT ![call] = outcome]
<1>1. Data /\ OnWay /\ Awaited
    BY TypeParts DEF IInv
<1>2. call \in Updates /\ outcome \in Verdict /\ s \in Rows /\ rows \in Rows
    BY <1>1, SettleEffect DEF Data
<1>3. UNCHANGED <<home, turn, running, fate>>
    BY <1>1, SettleEffect DEF queue, task
<1>4. rows' \in Rows
    BY <1>1, SettleData DEF Data
<1>5. /\ s[call] = outcome /\ rows[call] = "sending"
      /\ \A v \in Updates : v # call => s[v] = rows[v]
    BY <1>1, <1>2 DEF Awaited, Settle, Rows
<1>6. /\ outcome = "accepted" => fate[call] = "taken"
      /\ outcome = "rejected" => fate[call] \in {"here", "refused"}
    BY <1>1 DEF Awaited, Settle
<1>7. \A v \in Updates :
         \/ rows'[v] = s[v]
         \/ s[v] = "queued" /\ home[v] = turn /\ running /\ rows'[v] = "sending"
    <2>1. CASE rows' = s
        BY <2>1
    <2>2. CASE SendsOne(s, s) /\ running
        BY <1>2, <2>2, SendMoves
    <2> QED
        BY <1>1, <2>1, <2>2, SettleEffect
<1> HIDE DEF s
<1>8. Source' = Source /\ (running => Source = turn)
    BY <1>3 DEF Source
<1>9. ASSUME NEW v \in Updates PROVE Moves(v)
    <2>1. CASE v = call
        BY <1>2, <1>5, <1>6, <1>7, <2>1 DEF Moves, Verdict
    <2>2. CASE v # call
        BY <1>3, <1>5, <1>7, <1>8, <2>2 DEF Moves
    <2> QED
        BY <2>1, <2>2
<1> QED
    BY <1>2, <1>3, <1>4, <1>9, MovesTell

(* A request is taken: when it is handed over, it was still here and said   *)
(* to be on its way.                                                        *)
LEMMA TakeHands ==
    ASSUME IInv, NEW u \in Updates, TakeRequest(u)
    PROVE  Delivery!Hand(u) \/ UNCHANGED Delivery!vars
<1>1. UNCHANGED <<rows, home, turn, running>>
    BY DEF TakeRequest, store, queue, task
<1>2. CASE UNCHANGED fate
    BY <1>1, <1>2, SameLines
<1>3. CASE fate' = [fate EXCEPT ![u] = "handed"]
    <2>1. fate[u] = "here" /\ rows[u] \in {"sending", "unknown"}
        BY DEF TakeRequest, First, Unread, IInv, OnWay
    <2>2. Shown(u) \in {"sending", "unconfirmed"}
        BY <2>1 DEF Shown
    <2>3. \A v \in Updates : Shown(v)' = Shown(v)
        BY <1>1 DEF Shown, Source
    <2> HIDE DEF Shown
    <2> QED
        BY <1>3, <2>1, <2>2, <2>3 DEF Delivery!Hand
<1> QED
    BY <1>2, <1>3 DEF TakeRequest

(* The old bridge hands an update over: it is unconfirmed and still here.   *)
LEMMA OrphanHands ==
    ASSUME IInv, NEW u \in Updates, OrphanHanded(u)
    PROVE  Delivery!Hand(u)
<1>1. UNCHANGED <<rows, home, turn, running>> /\ fate' = [fate EXCEPT ![u] = "handed"]
    BY DEF OrphanHanded, store, queue, task
<1>2. fate[u] = "here" /\ rows[u] \in {"sending", "unknown"}
    BY DEF OrphanHanded, IInv, OnWay
<1>3. Shown(u) \in {"sending", "unconfirmed"}
    BY <1>2 DEF Shown
<1>4. \A v \in Updates : Shown(v)' = Shown(v)
    BY <1>1 DEF Shown, Source
<1> HIDE DEF Shown
<1> QED
    BY <1>1, <1>2, <1>3, <1>4 DEF Delivery!Hand

(* The provider takes or refuses it. *)
LEMMA ProviderAnswers ==
    ASSUME NEW u \in Updates, Provider(u)
    PROVE  Delivery!Answer(u)
<1>1. UNCHANGED <<rows, home, turn, running>>
    BY DEF Provider, store, queue, task
<1>2. \A v \in Updates : Shown(v)' = Shown(v)
    BY <1>1 DEF Shown, Source
<1> HIDE DEF Shown
<1> QED
    BY <1>2 DEF Provider, Delivery!Answer

(* After a restart the lines say what the file allows. *)
LEMMA RelaunchRestarts ==
    ASSUME IInv, Relaunch
    PROVE  Delivery!Restart
<1>1. rows \in Rows /\ disk \in Rows /\ rows' = disk /\ home' = home /\ fate' = fate /\ ~running'
    BY DEF Relaunch, IInv, TypeOK, queue
<1>2. Source' = NoTurn
    BY <1>1 DEF Source
<1>3. ASSUME NEW u \in Updates
     PROVE  Shown(u)' \in Delivery!Remembered(u) /\ Shown(u)' \in Delivery!Lines
    <2> DEFINE R == Delivery!Remembered(u)
    <2>1. disk[u] \in Behind(rows[u]) /\ rows[u] \in States \cup {"none"}
        BY <1>1 DEF IInv, Saved, Rows
    <2>2. disk[u] # "none" => home[u] # NoTurn
        BY DEF IInv, Numbered
    <2>3. Shown(u)' = CASE disk[u] = "none" -> "none"
                        [] disk[u] \in {"queued", "rejected"} -> "not sent"
                        [] disk[u] = "accepted" -> "added"
                        [] OTHER -> "unconfirmed"
        BY <1>1, <1>2, <2>1, <2>2 DEF Shown, Rows, States
    <2>4. /\ Shown(u) = "none" => R = {"none", "not sent"}
          /\ Shown(u) = "added" => R = {"added", "unconfirmed"}
          /\ Shown(u) \in {"waiting", "not sent"} => R = {"not sent", "unconfirmed"}
          /\ Shown(u) \in {"sending", "unconfirmed"} => R = {"unconfirmed"}
        <3> HIDE DEF Shown
        <3> QED
            BY DEF Delivery!Remembered
    <2>5. /\ rows[u] = "none" => Shown(u) = "none"
          /\ rows[u] = "accepted" => Shown(u) = "added"
          /\ rows[u] = "queued" => Shown(u) \in {"waiting", "not sent"}
          /\ rows[u] = "rejected" => Shown(u) = "not sent"
          /\ rows[u] \in {"sending", "unknown"} => Shown(u) \in {"sending", "unconfirmed"}
        BY DEF Shown
    <2>6. Shown(u)' \in R
        <3> HIDE DEF R, Shown
        <3> QED
            BY <2>1, <2>3, <2>4, <2>5 DEF Behind, States
    <2> QED
        BY <2>1, <2>3, <2>6 DEF Delivery!Lines
<1> HIDE DEF Shown
<1> QED
    BY <1>1, <1>3 DEF Delivery!Restart

(* Every step of the queue is a step of the promise, or shows nothing new.  *)
LEMMA StepKept ==
    ASSUME IInv, [Next]_vars
    PROVE  [Delivery!Next]_(Delivery!vars)
<1> DEFINE Kept == [Delivery!Next]_(Delivery!vars)
<1>1. CASE SaveOther
    BY <1>1, SameLines DEF SaveOther, store, queue, task, flush, bridge
<1>2. CASE StartTurn
    BY <1>2, StartSame DEF Delivery!Next
<1>3. CASE Stop
    BY <1>3, CloseTells DEF Delivery!Next
<1>4. CASE FinishTurn
    BY <1>4, CloseTells DEF Delivery!Next
<1>5. ASSUME NEW p \in Phases, ReceiveEvent(p) PROVE Kept
    BY <1>5, SameLines DEF ReceiveEvent, store, queue, task, flush, bridge
<1>6. ASSUME NEW u \in Updates, Enqueue(u) PROVE Kept
    BY <1>6, EnqueueTells DEF Delivery!Next
<1>7. CASE Flush
    BY <1>7, FlushTells DEF Delivery!Next
<1>8. ASSUME NEW u \in Updates, ReceiveReply(u) PROVE Kept
    BY <1>8, SameLines DEF ReceiveReply, store, queue, task, flush, bridge
<1>9. CASE TimeOut
    BY <1>9, SameLines DEF TimeOut, store, queue, task, flush, bridge
<1>10. CASE Settle
    BY <1>10, SettleTells DEF Delivery!Next
<1>11. CASE OpenChannel
    BY <1>11, SameLines DEF OpenChannel, store, queue, task, flush, bridge
<1>12. CASE CloseChannel
    BY <1>12, SameLines DEF CloseChannel, store, queue, task, flush, bridge
<1>13. CASE EndTurn
    BY <1>13, SameLines DEF EndTurn, store, queue, task, flush, bridge
<1>14. ASSUME NEW u \in Updates, TakeRequest(u) PROVE Kept
    BY <1>14, TakeHands DEF Delivery!Next
<1>15. ASSUME NEW u \in Updates, Provider(u) PROVE Kept
    BY <1>15, ProviderAnswers DEF Delivery!Next
<1>16. ASSUME NEW u \in Updates, Reply(u) PROVE Kept
    BY <1>16, SameLines DEF Reply, store, queue, task, flush, bridge
<1>17. CASE BridgeDies
    BY <1>17, SameLines DEF BridgeDies, store, queue, task, flush, bridge
<1>18. CASE LineLost
    BY <1>18, SameLines DEF LineLost, store, queue, task, flush, bridge
<1>19. CASE Relaunch
    BY <1>19, RelaunchRestarts DEF Delivery!Next
<1>20. ASSUME NEW u \in Updates, OrphanHanded(u) PROVE Kept
    BY <1>20, OrphanHands DEF Delivery!Next
<1>21. CASE UNCHANGED vars
    BY <1>21, SameLines DEF vars, store, queue, task
<1> QED
    BY <1>1, <1>2, <1>3, <1>4, <1>5, <1>6, <1>7, <1>8, <1>9, <1>10, <1>11, <1>12,
       <1>13, <1>14, <1>15, <1>16, <1>17, <1>18, <1>19, <1>20, <1>21
       DEF Next, Operator, Client, Bridge, Outside

(* The queue implements UpdateDelivery, for any number of updates, tasks    *)
(* and faults: each update is handed over at most once, and the line below  *)
(* it says no more than is known (TaskUpdates.swift:151-195).               *)
THEOREM QueueDelivers == Spec => DeliveryKept
<1>1. Init => Delivery!Init
    BY DEF Init, Delivery!Init, Shown
<1>2. IInv /\ [Next]_vars => [Delivery!Next]_(Delivery!vars)
    BY StepKept
<1> QED
    BY <1>1, <1>2, Invariance, PTL DEF Spec, DeliveryKept, Delivery!Spec

(* So the lines are right whatever is lost or restarted: "added" only after *)
(* the provider took the update, "not sent" never when it may have          *)
(* (TaskUpdate.label).                                                      *)
THEOREM LinesAreRight == Spec => []Delivery!Honest
BY QueueDelivers, Delivery!LinesAreHonest, PTL DEF DeliveryKept
=============================================================================
