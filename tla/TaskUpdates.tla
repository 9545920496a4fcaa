---------------------------- MODULE TaskUpdates ----------------------------
(***************************************************************************)
(* The queue of updates an operator writes for a running task              *)
(* (TaskUpdates.swift, with BridgeClient.swift, TurnExecutionModel.swift,  *)
(* ConversationExecution.swift and ChatStore.swift), for one conversation, *)
(* and the bridge it talks to as far as the queue can tell it              *)
(* (native_steering.py; LiveTurn has its threads).                         *)
(*                                                                         *)
(* The application is one thread (the main actor); a step of it runs to    *)
(* the next await.  Its rows live in memory and, as far as saves succeed,  *)
(* in the history file.  Requests and replies cross a pipe, replies may    *)
(* come after the request was given up, saves may fail, and both processes *)
(* may die.  Updates are numbered in the order they are written.           *)
(***************************************************************************)
EXTENDS Naturals

CONSTANTS
    MaxUpdates,   \* bound: updates of the conversation
    MaxTurns,     \* bound: its tasks
    MaxFaults     \* bound: failed saves, lost connections, ends of the application

ASSUME TaskUpdatesAssumption ==
    /\ MaxUpdates \in Nat /\ MaxTurns \in Nat /\ MaxFaults \in Nat

Updates == 1..MaxUpdates
Turns == 0..MaxTurns
NoTurn == 0
NoCall == 0

States == {"queued", "sending", "accepted", "rejected", "unknown"}
Rows == [Updates -> States \cup {"none"}]
Verdict == {"accepted", "rejected", "unknown"}

VARIABLES
    rows, disk,      \* the updates in memory and in the history file
    written, home,   \* how many were written, and for which task
    trouble,         \* historyPersistence.blocksSubmission: the last save failed
    conflict,        \* the file is not the one this window saved last
    turn, running,   \* the last task and whether the client runs it
    stopped, target, \* updatesStopped; whether updateTarget is set
    seen,            \* how far the client has read the events of its task
    call, outcome,   \* the update whose request is awaited; what ended the request
    wake,            \* a flush has been scheduled
    phase, wire,     \* the bridge's task; the request of an update
    fate,            \* what became of an update at the provider
    faults

store  == <<rows, disk, trouble, conflict>>
queue  == <<written, home>>
task   == <<turn, running, stopped, target, seen>>
flush  == <<call, outcome, wake>>
bridge == <<phase, wire>>
vars   == <<store, queue, task, flush, bridge, fate, faults>>

(* The events of a task, in the order the bridge writes them: its token, no *)
(* token, the reply.  A task that fails early writes the reply alone.       *)
Phases == {"starting", "open", "closing", "failed", "over"}
Over == {"failed", "over"}

(* A reply on its way is the verdict it carries; an error is "unknown". *)
Wires == {"none", "written", "handing", "orphan", "done"} \cup Verdict
Fates == {"here", "handed", "taken", "refused"}

TypeOK ==
    /\ rows \in Rows /\ disk \in Rows
    /\ written \in 0..MaxUpdates /\ home \in [Updates -> Turns]
    /\ trouble \in BOOLEAN /\ conflict \in BOOLEAN
    /\ turn \in Turns /\ running \in BOOLEAN /\ stopped \in BOOLEAN /\ target \in BOOLEAN
    /\ seen \in Phases /\ phase \in Phases
    /\ call \in 0..MaxUpdates /\ outcome \in Verdict \cup {"none"} /\ wake \in BOOLEAN
    /\ wire \in [Updates -> Wires] /\ fate \in [Updates -> Fates]
    /\ faults \in 0..MaxFaults

Init ==
    /\ rows = [u \in Updates |-> "none"] /\ disk = rows
    /\ written = 0 /\ home = [u \in Updates |-> NoTurn]
    /\ trouble = FALSE /\ conflict = FALSE
    /\ turn = NoTurn /\ running = FALSE /\ stopped = FALSE /\ target = FALSE
    /\ seen = "over" /\ phase = "over"
    /\ call = NoCall /\ outcome = "none" /\ wake = FALSE
    /\ wire = [u \in Updates |-> "none"]
    /\ fate = [u \in Updates |-> "here"]
    /\ faults = 0

-----------------------------------------------------------------------------
(* Saving the history.  A save replaces the file by the rows r.  It may     *)
(* fail before the file is replaced or after: then the file is not the one  *)
(* this window knows, and every later save of the window is refused.        *)

Saves(r) ==
    /\ ~conflict
    /\ disk' = r /\ trouble' = FALSE
    /\ UNCHANGED <<conflict, faults>>

(* d: what the file holds before. *)
FailsToSave(r, d) ==
    /\ trouble' = TRUE
    /\ \/ /\ conflict
          /\ disk' = d /\ UNCHANGED <<conflict, faults>>
       \/ /\ ~conflict /\ faults < MaxFaults
          /\ faults' = faults + 1
          /\ \/ disk' = d /\ UNCHANGED conflict
             \/ disk' = r /\ conflict' = TRUE

(* The rows change to r in memory whether or not they are saved. *)
Persist(r) == rows' = r /\ (Saves(r) \/ FailsToSave(r, disk))

(* A draft, or another conversation, is saved with everything else. *)
SaveOther ==
    /\ trouble
    /\ Saves(rows)
    /\ UNCHANGED <<rows, queue, task, flush, bridge, fate>>

-----------------------------------------------------------------------------
(* The life of a task *)

(* submit, perform: the message is saved before the provider is called. *)
StartTurn ==
    /\ ~running /\ phase \in Over
    /\ ~trouble
    /\ turn < MaxTurns
    /\ \/ /\ Saves(rows)
          /\ turn' = turn + 1 /\ running' = TRUE
          /\ stopped' = FALSE /\ target' = FALSE /\ seen' = "starting"
          /\ phase' = "starting"
       \/ FailsToSave(rows, disk) /\ UNCHANGED <<task, phase>>
    /\ UNCHANGED <<rows, queue, flush, wire, fate>>

(* The message whose updates the client may send now. *)
Source == IF running THEN turn ELSE NoTurn

Queued(r) == {u \in Updates : r[u] = "queued" /\ home[u] = turn}

(* Mutant: closing the queue also gives up the update that is on its way. *)
BugClosed(r) ==
    [u \in Updates |-> IF r[u] \in {"queued", "sending"} /\ home[u] = turn THEN "rejected" ELSE r[u]]

(* closeTaskUpdateQueue: what was not sent will not be. *)
Closed(r) == [u \in Updates |-> IF u \in Queued(r) THEN "rejected" ELSE r[u]]

(* Stop, from the window, from the voice session or from a remote control. *)
Stop ==
    /\ running
    /\ ~stopped
    /\ stopped' = TRUE /\ target' = FALSE
    /\ Persist(Closed(rows))
    /\ UNCHANGED <<queue, turn, running, seen, flush, bridge, fate>>

(* Mutant: the end of a task waits until its queue is empty. *)
BugFinishTurn ==
    /\ running /\ seen \in Over
    /\ Queued(rows) = {} /\ call = NoCall
    /\ running' = FALSE /\ stopped' = TRUE /\ target' = FALSE
    /\ Persist(Closed(rows))
    /\ UNCHANGED <<queue, turn, seen, flush, bridge, fate>>

(* The task's own request has been answered, or has failed. *)
FinishTurn ==
    /\ running /\ seen \in Over
    /\ running' = FALSE /\ stopped' = TRUE /\ target' = FALSE
    /\ Persist(Closed(rows))
    /\ UNCHANGED <<queue, turn, seen, flush, bridge, fate>>

CanUpdate == running /\ ~stopped /\ ~trouble

(* The client reads the next event of its task. *)
Follows(p) ==
    \/ seen = "starting" /\ p = "open" /\ phase \in {"open", "closing", "over"}
    \/ seen = "starting" /\ p = "failed" /\ phase = "failed"
    \/ seen = "open" /\ p = "closing" /\ phase \in {"closing", "over"}
    \/ seen = "closing" /\ p = "over" /\ phase = "over"

(* receiveTaskUpdateTarget, and the reply to the task's request. *)
ReceiveEvent(p) ==
    /\ Follows(p)
    /\ seen' = p
    /\ target' = (IF running THEN p = "open" ELSE target)
    /\ wake' = (wake \/ (running /\ p = "open"))
    /\ UNCHANGED <<store, queue, turn, running, stopped, call, outcome, bridge, fate, faults>>

-----------------------------------------------------------------------------
(* The queue *)

(* enqueueTaskUpdate: an update that cannot be saved goes back to the draft. *)
Enqueue(u) ==
    /\ CanUpdate
    /\ written < MaxUpdates /\ u = written + 1
    /\ written' = u /\ home' = [home EXCEPT ![u] = turn]
    /\ LET r == [rows EXCEPT ![u] = "queued"]
       IN \/ Saves(r) /\ rows' = r /\ wake' = TRUE
          \/ FailsToSave(r, disk) /\ UNCHANGED <<rows, wake>>
    /\ UNCHANGED <<task, call, outcome, bridge, fate>>

(* Mutant: the newest first. *)
BugFirst(u, S) == u \in S /\ \A v \in S : v <= u

First(u, S) == u \in S /\ \A v \in S : u <= v

Sending(r, u) == [r EXCEPT ![u] = "sending"]

(* The loop of flushTaskUpdates up to its next await, when memory holds the *)
(* rows r and the file d: the first update that waits is marked, saved and  *)
(* only then requested.                                                     *)
Ready(r) == running /\ ~stopped /\ target /\ Queued(r) # {}

(* Mutant: the update is requested although its row was not saved. *)
BugSendFirst(r, d) ==
    \E u \in Updates :
       /\ First(u, Queued(r))
       /\ Saves(Sending(r, u)) \/ FailsToSave(Sending(r, u), d)
       /\ rows' = Sending(r, u)
       /\ call' = u /\ outcome' = "none"
       /\ wire' = [wire EXCEPT ![u] = "written"]

SendFirst(r, d) ==
    \E u \in Updates :
       /\ First(u, Queued(r))
       /\ \/ /\ Saves(Sending(r, u)) /\ rows' = Sending(r, u)
             /\ call' = u /\ outcome' = "none"
             /\ wire' = [wire EXCEPT ![u] = "written"]
          \/ /\ FailsToSave(Sending(r, u), d) /\ rows' = r
             /\ call' = NoCall /\ outcome' = "none" /\ UNCHANGED wire

Flush ==
    /\ wake
    /\ wake' = FALSE
    /\ \/ /\ call = NoCall /\ CanUpdate /\ Ready(rows)
          /\ SendFirst(rows, disk)
       \/ /\ ~(call = NoCall /\ CanUpdate /\ Ready(rows))
          /\ UNCHANGED <<store, call, outcome, wire, faults>>
    /\ UNCHANGED <<queue, task, phase, fate>>

(* BridgeClient: the reply to an update's request, or 120 s without one. *)
ReceiveReply(u) ==
    /\ wire[u] \in Verdict
    /\ wire' = [wire EXCEPT ![u] = "done"]
    /\ outcome' = (IF call = u /\ outcome = "none" THEN wire[u] ELSE outcome)
    /\ UNCHANGED <<store, queue, task, call, wake, phase, fate, faults>>

TimeOut ==
    /\ call # NoCall /\ outcome = "none"
    /\ outcome' = "unknown"
    /\ UNCHANGED <<store, queue, task, call, wake, bridge, fate, faults>>

(* The flush goes on after its await.  When the save of the verdict fails,  *)
(* or the task is another one, it ends.                                     *)
GoesOn(r) == home[call] = Source /\ Ready(r)

Settle ==
    /\ call # NoCall /\ outcome # "none"
    /\ LET r == [rows EXCEPT ![call] = outcome]
       IN \/ /\ ~conflict /\ GoesOn(r)
             /\ SendFirst(r, r)
             /\ UNCHANGED wake
          \/ /\ \/ ~GoesOn(r) /\ Saves(r)
                \/ FailsToSave(r, disk)
             /\ rows' = r
             /\ call' = NoCall /\ outcome' = "none" /\ UNCHANGED wire
             /\ wake' = (wake \/ (running /\ home[call] # turn))
    /\ UNCHANGED <<queue, task, phase, fate>>

-----------------------------------------------------------------------------
(* The bridge (LiveSteering) and the provider *)

(* set_active: the token of the model turn is announced. *)
OpenChannel ==
    /\ phase = "starting"
    /\ phase' = "open"
    /\ UNCHANGED <<store, queue, task, flush, wire, fate, faults>>

Handing == {u \in Updates : wire[u] = "handing"}

(* The token is withdrawn, not while an update is being handed over. *)
CloseChannel ==
    /\ phase = "open" /\ Handing = {}
    /\ phase' = "closing"
    /\ UNCHANGED <<store, queue, task, flush, wire, fate, faults>>

EndTurn ==
    /\ \/ phase = "starting" /\ phase' = "failed"
       \/ phase = "closing" /\ phase' = "over"
    /\ UNCHANGED <<store, queue, task, flush, wire, fate, faults>>

Unread == {u \in Updates : wire[u] = "written"}

(* The token names the model turn that is open now. *)
Addressed(u) == phase = "open" /\ home[u] = turn

(* send: requests are taken one by one.  Without a token, after Stop, or    *)
(* when attachments have changed, an update is rejected.  That a request    *)
(* which comes again gets its old receipt is in LiveTurn; none does here.   *)
TakeRequest(u) ==
    /\ First(u, Unread) /\ Handing = {}
    /\ \/ /\ phase \in Over \/ home[u] # turn
          /\ wire' = [wire EXCEPT ![u] = "unknown"]
          /\ UNCHANGED fate
       \/ /\ phase \notin Over /\ home[u] = turn
          /\ wire' = [wire EXCEPT ![u] = "rejected"]
          /\ UNCHANGED fate
       \/ /\ Addressed(u)
          /\ wire' = [wire EXCEPT ![u] = "handing"]
          /\ fate' = [fate EXCEPT ![u] = "handed"]
    /\ UNCHANGED <<store, queue, task, flush, phase, faults>>

(* The provider takes or refuses an update while the bridge waits.  One     *)
(* that stays "handed" may have been taken without anybody knowing.         *)
Provider(u) ==
    /\ fate[u] = "handed" /\ wire[u] = "handing"
    /\ \E f \in {"taken", "refused"} : fate' = [fate EXCEPT ![u] = f]
    /\ UNCHANGED <<store, queue, task, flush, bridge, faults>>

(* What the bridge may report: "accepted" and "rejected" only when told so. *)
Answered(f) ==
    CASE f = "taken"   -> {"accepted", "unknown"}
      [] f = "refused" -> {"rejected", "unknown"}
      [] OTHER         -> {"unknown"}

(* The provider's answer, or none in 10 s. *)
Reply(u) ==
    /\ wire[u] = "handing"
    /\ \E v \in Answered(fate[u]) : wire' = [wire EXCEPT ![u] = v]
    /\ UNCHANGED <<store, queue, task, flush, phase, fate, faults>>

-----------------------------------------------------------------------------
(* Failures *)

(* failAll: every awaited request of the connection fails. *)
FailCalls ==
    /\ seen' = "over"
    /\ outcome' = (IF call # NoCall /\ outcome = "none" THEN "unknown" ELSE outcome)

(* The bridge dies, with the requests it has not taken; what it has handed  *)
(* over is with the provider.                                               *)
BridgeDies ==
    /\ phase \notin Over
    /\ faults < MaxFaults /\ faults' = faults + 1
    /\ FailCalls
    /\ phase' = "over"
    /\ wire' = [u \in Updates |-> IF wire[u] \in {"none", "orphan"} THEN wire[u] ELSE "done"]
    /\ UNCHANGED <<store, queue, turn, running, stopped, target, call, wake, fate>>

(* A line of the bridge that cannot be read fails the calls, and the bridge *)
(* goes on.                                                                 *)
LineLost ==
    /\ running /\ seen \notin Over
    /\ faults < MaxFaults /\ faults' = faults + 1
    /\ FailCalls
    /\ UNCHANGED <<store, queue, turn, running, stopped, target, call, wake, bridge, fate>>

(* The application ends and starts again: it knows what the file holds, and *)
(* has a new bridge.  The old one may still carry out a request it has.     *)
Relaunch ==
    /\ faults < MaxFaults /\ faults' = faults + 1
    /\ rows' = disk /\ trouble' = FALSE /\ conflict' = FALSE
    /\ running' = FALSE /\ stopped' = FALSE /\ target' = FALSE /\ seen' = "over"
    /\ call' = NoCall /\ outcome' = "none" /\ wake' = FALSE
    /\ phase' = "over"
    /\ wire' = [u \in Updates |->
                   CASE wire[u] = "written" /\ Addressed(u) -> "orphan"
                     [] wire[u] \in {"none", "orphan"} -> wire[u]
                     [] OTHER -> "done"]
    /\ UNCHANGED <<disk, queue, turn, fate>>

(* The old bridge takes what it had read in order, and may skip one. *)
OrphanHanded(u) ==
    /\ wire[u] = "orphan"
    /\ wire' = [v \in Updates |-> IF wire[v] = "orphan" /\ v <= u /\ home[v] = home[u]
                                   THEN "done" ELSE wire[v]]
    /\ fate' = [fate EXCEPT ![u] = "handed"]
    /\ UNCHANGED <<store, queue, task, flush, phase, faults>>

-----------------------------------------------------------------------------

Operator == StartTurn \/ Stop \/ \E u \in Updates : Enqueue(u)

Client ==
    \/ SaveOther \/ FinishTurn \/ Flush \/ TimeOut \/ Settle
    \/ \E p \in Phases : ReceiveEvent(p)
    \/ \E u \in Updates : ReceiveReply(u)

Bridge ==
    \/ OpenChannel \/ CloseChannel \/ EndTurn
    \/ \E u \in Updates : TakeRequest(u) \/ Reply(u)

Outside ==
    \/ BridgeDies \/ LineLost \/ Relaunch
    \/ \E u \in Updates : Provider(u) \/ OrphanHanded(u)

Next == Operator \/ Client \/ Bridge \/ Outside

Spec == Init /\ [][Next]_vars

(* The main actor runs what is scheduled on it, timers fire, the bridge     *)
(* takes its requests and its provider turn is bounded.                     *)
Fairness ==
    /\ WF_vars(FinishTurn) /\ WF_vars(TimeOut) /\ WF_vars(Settle)
    /\ WF_vars(\E p \in Phases : ReceiveEvent(p))
    /\ WF_vars(CloseChannel) /\ WF_vars(EndTurn)
    /\ WF_vars(\E u \in Updates : Reply(u))

FairSpec == Spec /\ Fairness

-----------------------------------------------------------------------------
(* What the operator reads (TaskUpdate.label): an update of a task that     *)
(* does not run any more is not said to be on its way.                      *)

Shown(u) ==
    LET active == home[u] = Source
    IN CASE rows[u] = "none"     -> "none"
         [] rows[u] = "queued"   -> IF active THEN "waiting" ELSE "not sent"
         [] rows[u] = "sending"  -> IF active THEN "sending" ELSE "unconfirmed"
         [] rows[u] = "accepted" -> "added"
         [] rows[u] = "rejected" -> "not sent"
         [] rows[u] = "unknown"  -> "unconfirmed"

Delivery == INSTANCE UpdateDelivery WITH
                told <- [u \in Updates |-> Shown(u)]

-----------------------------------------------------------------------------
(* Properties *)

(* Through queue, saves, pipe, timeouts and restarts the program keeps the  *)
(* promise of UpdateDelivery: an update is handed over at most once and the *)
(* line below it claims no more than is known (TaskUpdates.swift:151-195).  *)
DeliveryKept == Delivery!Spec

(* No update is said to be waiting or on its way forever: the reply, the    *)
(* timeout, the end of its task or a restart settles it.                    *)
DeliverySettled == Delivery!Settled

(* An update leaves only after the history says it may have left, so that   *)
(* no restart forgets it was sent (TaskUpdates.swift:167-170).              *)
SavedBeforeSent ==
    \A u \in Updates :
        (fate[u] # "here" \/ wire[u] # "none") => disk[u] \notin {"none", "queued"}

(* The text of an update is in the history file from the moment it leaves   *)
(* the draft, whatever saves fail later (TaskUpdates.swift:106-115).        *)
NoUpdateDropped == \A u \in Updates : rows[u] # "none" => disk[u] # "none"

(* The updates of a task are handed over in the order they were written:    *)
(* none follows a later one (TaskUpdates.swift:162-166, one flush at a time *)
(* and one request at a time in native_bridge.py:1626).                     *)
InOrder ==
    [][\A u, v \in Updates :
          (v < u /\ home[v] = home[u] /\ fate[v] = "here" /\ fate[u] # "here")
              => fate'[v] = "here"]_vars
=============================================================================
