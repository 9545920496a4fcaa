------------------------------ MODULE LiveTurn ------------------------------
(***************************************************************************)
(* One bridge process of Proto-Mind Native while turns run                 *)
(* (proto_mind/native_bridge.py: process, cancel, disconnect, serve; with  *)
(* native_codex.py, native_agent.py, native_claude.py, native_steering.py).*)
(*                                                                         *)
(* Three threads share the attributes of NativeBackend, without a lock:    *)
(*   - the turn thread runs process(), one request at a time;              *)
(*   - the reader (serve) reads the client's messages; it handles Stop and *)
(*     end of file itself and hands everything else to the other threads;  *)
(*   - the steering thread adds the operator's updates to a running turn.  *)
(* A step of the model is a read or a write of one shared attribute, or a  *)
(* call of another process (a provider connection, a worker).  Between two *)
(* steps every other thread may run.                                       *)
(*                                                                         *)
(* Turns are numbered in the order in which they start; a number stands    *)
(* for the request ID, for its LiveSteering object and for the token of    *)
(* its model turn.  Kinds: "chat" and "agent" (Full Mac) are Codex turns,  *)
(* "claude" runs a worker process, "api" a network stream.                 *)
(***************************************************************************)
EXTENDS Naturals, FiniteSets

CONSTANTS
    Jobs,        \* the turns a client submits: their kind, and skill selection
    Messages,    \* message IDs of updates within one request
    None,
    MaxTurns,    \* bound: turns of one bridge process
    MaxFaults    \* bound: provider connections that die by themselves

Turns == 1..MaxTurns
NoTurn == 0

(* A connection (CodexRPC) is named after the call that opened it; a Claude *)
(* worker is the connection of its own turn.                                *)
Connection == [turn : Turns, use : {"select", "chat", "agent", "worker"}]

(* A model turn executing at a provider; an API stream has no connection. *)
ModelTurn == [turn : Turns, phase : {"select", "main"}, conn : Connection \cup {None}]

(* The identity of a model turn: thread and turn ID, as turn/start returns  *)
(* them, or the request of a worker.                                        *)
IdOf(p) == [turn |-> p.turn, phase |-> p.phase]

(* LiveSteering.target: a token, the model turn it was announced for, and   *)
(* the connection.  A task opens one target, and its token is named after it.*)
Target == [token : Turns, id : [turn : Turns, phase : {"select", "main"}],
           rpc : Connection \cup {None}]

Kinds == {"chat", "agent", "claude", "api"}

Codex(kind) == kind \in {"chat", "agent"}

(* Automatic skill selection is a Codex turn before the main turn. *)
Job == {j \in [kind : Kinds, selector : BOOLEAN] : j.selector => Codex(j.kind)}

ASSUME LiveTurnAssumption ==
    /\ Jobs \subseteq Job
    /\ MaxTurns \in Nat
    /\ MaxFaults \in Nat
    /\ None \notin Connection \cup Job \cup Target \cup {"rejected", "unknown", "accepted"}

VARIABLES
    pc, turn, job, raising,     \* turn thread: place, current turn, its request, exception
    queued,                     \* process request read but not yet taken by the executor
    active,                     \* active_request and active_provider
    steering, transport,        \* active_steering; active_claude or active_api
    closing,                    \* the bridge's closing Event
    cancelled,                  \* the Codex subscription's cancelled Event
    activeTurn, rpc,            \* CodexSubscription.active_turn and .rpc
    open,                       \* connections that are alive
    stoppedTransports,          \* transports whose cancelled Event is set
    running,                    \* model turns executing at their providers
    stopped, target, receipts,  \* LiveSteering: closed Event, target, receipts
    tokens,                     \* turns whose token the client has been told
    reader, steer,              \* the two other threads
    submitted, taken,           \* history: updates sent to and taken by a provider
    stops,                      \* history: turns whose Stop was confirmed to the client
    faults                      \* connections that have died

task    == <<pc, turn, job, raising>>
bridge  == <<queued, active, steering, transport, closing>>
codex   == <<cancelled, activeTurn, rpc, open>>
work    == <<stoppedTransports, running>>
updates == <<stopped, target, receipts, tokens>>
history == <<submitted, taken, stops, faults>>
vars == <<task, bridge, codex, work, updates, reader, steer, history>>

Places == {"idle", "prepare", "attach", "announce", "check", "select", "selecting",
           "selectEnd", "selectClose", "connect", "reconnect", "launch", "transport",
           "start", "bind", "register", "stream", "abort", "unbind", "unregister",
           "close", "stop", "detach", "forget", "release"}
ReaderPlaces == {"read", "useTransport", "useSteering", "interrupt", "test", "unpack",
                 "use", "eofClaude", "eofClosing", "eofApi", "eofSteering",
                 "eofProvider", "drain", "dead", "closed", "crashed"}

NoUpdate == [at |-> "idle", turn |-> NoTurn, message |-> None, token |-> NoTurn,
             to |-> None, late |-> FALSE]

TypeOK ==
    /\ pc \in Places /\ turn \in 0..MaxTurns /\ raising \in BOOLEAN
    /\ job \in Job \cup {None} /\ queued \in Job \cup {None}
    /\ active \in {NoTurn, turn} /\ steering \in {NoTurn, turn} /\ transport \in {NoTurn, turn}
    /\ closing \in BOOLEAN /\ cancelled \in BOOLEAN
    /\ activeTurn \in {None, "select", "main"}
    /\ rpc \in Connection \cup {None} /\ open \subseteq Connection
    /\ stoppedTransports \subseteq Turns /\ running \subseteq ModelTurn
    /\ stopped \subseteq Turns /\ tokens \subseteq Turns
    /\ target \in [Turns -> Target \cup {None}]
    /\ receipts \in [Turns -> [Messages -> {None, "rejected", "unknown", "accepted"}]]
    /\ reader \in [at : ReaderPlaces, of : 0..MaxTurns, eof : BOOLEAN,
                   phase : {None, "select", "main"}]
    /\ steer \in [at : {"idle", "lookup", "enter", "reading", "submit"}, turn : 0..MaxTurns,
                  message : Messages \cup {None}, token : 0..MaxTurns,
                  to : Target \cup {None}, late : BOOLEAN]
    /\ submitted \in [Turns -> [Messages -> Nat]]
    /\ taken \subseteq [turn : Turns, message : Messages, token : Turns, by : ModelTurn]
    /\ stops \subseteq Turns
    /\ faults \in 0..MaxFaults

Init ==
    /\ pc = "idle" /\ turn = 0 /\ job = None /\ raising = FALSE
    /\ queued = None /\ active = NoTurn /\ steering = NoTurn /\ transport = NoTurn
    /\ closing = FALSE
    /\ cancelled = FALSE /\ activeTurn = None /\ rpc = None /\ open = {}
    /\ stoppedTransports = {} /\ running = {}
    /\ stopped = {} /\ tokens = {}
    /\ target = [t \in Turns |-> None]
    /\ receipts = [t \in Turns |-> [m \in Messages |-> None]]
    /\ reader = [at |-> "read", of |-> NoTurn, eof |-> FALSE, phase |-> None]
    /\ steer = NoUpdate
    /\ submitted = [t \in Turns |-> [m \in Messages |-> 0]]
    /\ taken = {} /\ stops = {} /\ faults = 0

Goto(place) == pc' = place /\ UNCHANGED <<turn, job>>
Continue(place) == Goto(place) /\ UNCHANGED raising
Raise(place) == Goto(place) /\ raising' = TRUE

-----------------------------------------------------------------------------
(* process(): admission of a turn *)

(* The client has at most one turn outstanding per bridge. *)
BugAlwaysSubmits == queued = None
MaySubmit == queued = None /\ pc = "idle"

ReadProcess(j) ==
    /\ reader.at = "read"
    /\ MaySubmit
    /\ turn < MaxTurns
    /\ queued' = j
    /\ UNCHANGED <<task, active, steering, transport, closing, codex, work, updates,
                   reader, steer, history>>

(* The first check of closing refuses the request before anything changes. *)
TakeProcess ==
    /\ pc = "idle" /\ queued # None
    /\ queued' = None
    /\ \/ closing /\ UNCHANGED task
       \/ /\ ~closing
          /\ pc' = "prepare" /\ turn' = turn + 1 /\ job' = queued /\ raising' = FALSE
    /\ UNCHANGED <<active, steering, transport, closing, codex, work, updates,
                   reader, steer, history>>

(* prepare_turn() clears the Stop of an earlier turn. *)
Prepare ==
    /\ pc = "prepare"
    /\ cancelled' = (cancelled /\ ~Codex(job.kind))
    /\ Continue("attach")
    /\ UNCHANGED <<bridge, activeTurn, rpc, open, work, updates, reader, steer, history>>

Attach ==
    /\ pc = "attach"
    /\ steering' = IF job.kind = "api" THEN NoTurn ELSE turn
    /\ Continue("announce")
    /\ UNCHANGED <<queued, active, transport, closing, codex, work, updates,
                   reader, steer, history>>

Announce ==
    /\ pc = "announce"
    /\ active' = turn
    /\ Continue("check")
    /\ UNCHANGED <<queued, steering, transport, closing, codex, work, updates,
                   reader, steer, history>>

(* The second check, after the turn can be found by Stop and disconnect. *)
BugNoSecondCheck == FALSE
Disconnected == closing

CheckClosing ==
    /\ pc = "check"
    /\ \/ Disconnected /\ Raise("stop")
       \/ /\ ~Disconnected
          /\ Continue(IF job.selector THEN "select"
                      ELSE IF Codex(job.kind) THEN "connect" ELSE "transport")
    /\ UNCHANGED <<bridge, codex, work, updates, reader, steer, history>>

-----------------------------------------------------------------------------
(* Codex connections *)

(* connect(): the open connection, or a new one. *)
Connected(use) == IF rpc \in open THEN rpc ELSE [turn |-> turn, use |-> use]

Connect(use) == rpc' = Connected(use) /\ open' = open \cup {Connected(use)}

On(conn) == {p \in running : p.conn = conn}

(* close(): the process of the connection ends, and with it its turns. *)
CloseConnection ==
    /\ rpc' = None
    /\ open' = open \ {rpc}
    /\ running' = running \ On(rpc)

Worker == [turn |-> turn, use |-> "worker"]

MainTurn == [turn |-> turn, phase |-> "main",
             conn |-> CASE Codex(job.kind)     -> rpc
                        [] job.kind = "claude" -> Worker
                        [] job.kind = "api"    -> None]

-----------------------------------------------------------------------------
(* select_skills(): a tool-free turn on the chat connection before the main *)
(* one.  It sets active_turn, for Stop, and never opens the update channel. *)

Select ==
    /\ pc = "select"
    /\ \/ /\ ~cancelled
          /\ Connect("select")
          /\ \/ /\ running' = running \cup {[turn |-> turn, phase |-> "select", conn |-> rpc']}
                /\ activeTurn' = "select"
                /\ Continue("selecting")
                /\ UNCHANGED cancelled
             \/ /\ running' \in {running, running \cup
                                  {[turn |-> turn, phase |-> "select", conn |-> rpc']}}
                /\ cancelled' = TRUE
                /\ Raise("selectClose")
                /\ UNCHANGED activeTurn
       \/ /\ cancelled' = TRUE
          /\ Raise("selectClose")
          /\ UNCHANGED <<activeTurn, rpc, open, running>>
    /\ UNCHANGED <<bridge, stoppedTransports, updates, reader, steer, history>>

(* The selection is answered, or it is stopped, fails or times out after a  *)
(* minute and interrupts its own turn.                                      *)
Selecting ==
    LET own == {p \in running : p.turn = turn /\ p.phase = "select"} IN
    /\ pc = "selecting"
    /\ \/ ~cancelled /\ running' = running \ own /\ Continue("selectEnd") /\ UNCHANGED cancelled
       \/ running' \in {running, running \ own} /\ Raise("selectEnd") /\ cancelled' = TRUE
    /\ UNCHANGED <<bridge, activeTurn, rpc, open, stoppedTransports, updates, reader, steer, history>>

SelectEnd ==
    /\ pc = "selectEnd"
    /\ activeTurn' = None
    /\ Continue("selectClose")
    /\ UNCHANGED <<bridge, cancelled, rpc, open, work, updates, reader, steer, history>>

SelectClose ==
    /\ pc = "selectClose"
    /\ CloseConnection
    /\ Continue(IF raising THEN "stop" ELSE "connect")
    /\ UNCHANGED <<bridge, cancelled, activeTurn, stoppedTransports, updates, reader, steer, history>>

-----------------------------------------------------------------------------
(* _chat_answer() and agent_answer(): up to the start of the main turn *)

(* Where an exception of the main turn goes: agent_answer closes its        *)
(* connection whatever happens; a chat keeps it for the next turn.          *)
BugKeepsConnection == "stop"
CleanupOf == IF job.kind = "agent" THEN "close" ELSE "stop"

(* Account, model and thread requests; each may fail. *)
ConnectMain ==
    /\ pc = "connect"
    /\ \/ /\ ~cancelled
          /\ Connect("chat")
          /\ \/ Continue(IF job.kind = "agent" THEN "reconnect" ELSE "start")
             \/ Raise(CleanupOf)
       \/ Raise(CleanupOf) /\ UNCHANGED <<rpc, open>>
    /\ UNCHANGED <<bridge, cancelled, activeTurn, work, updates, reader, steer, history>>

(* A Full Mac turn gets a process of its own. *)
Reconnect ==
    /\ pc = "reconnect"
    /\ CloseConnection
    /\ Continue("launch")
    /\ UNCHANGED <<bridge, cancelled, activeTurn, stoppedTransports, updates, reader, steer, history>>

Launch ==
    /\ pc = "launch"
    /\ \/ /\ ~cancelled
          /\ Connect("agent")
          /\ Continue("start")
       \/ Raise(CleanupOf) /\ UNCHANGED <<rpc, open>>
    /\ UNCHANGED <<bridge, cancelled, activeTurn, work, updates, reader, steer, history>>

(* turn/start.  A lost reply does not prove that nothing runs; the agent's  *)
(* exception handler calls interrupt(), which finds no active turn yet.     *)
Start ==
    /\ pc = "start" /\ Codex(job.kind)
    /\ \/ /\ ~cancelled /\ rpc \in open
          /\ running' = running \cup {MainTurn}
          /\ Continue("bind")
          /\ UNCHANGED cancelled
       \/ /\ running' \in {running} \cup
               (IF ~cancelled /\ rpc \in open THEN {running \cup {MainTurn}} ELSE {})
          /\ cancelled' = (cancelled \/ job.kind = "agent")
          /\ Raise(CleanupOf)
    /\ UNCHANGED <<bridge, activeTurn, rpc, open, stoppedTransports, updates, reader, steer, history>>

-----------------------------------------------------------------------------
(* The update channel and the event loop *)

(* LiveSteering.lock: held by send() from its checks to the final receipt. *)
LockFree(t) == ~(steer.at \in {"reading", "submit"} /\ steer.turn = t)

(* set_active(turn, rpc): a stopped task gets no target and no token. *)
OpenChannel(id, conn) ==
    /\ LockFree(turn)
    /\ IF turn \in stopped
       THEN UNCHANGED <<target, tokens>>
       ELSE /\ target' = [target EXCEPT ![turn] = [token |-> turn, id |-> id, rpc |-> conn]]
            /\ tokens' = tokens \cup {turn}
    /\ UNCHANGED <<stopped, receipts>>

CloseChannel ==
    /\ LockFree(turn)
    /\ target' = [target EXCEPT ![turn] = None]
    /\ UNCHANGED <<stopped, receipts, tokens>>

(* _set_main_turn(): the callback first, then active_turn.  The callback is  *)
(* set_active of the request's own LiveSteering, set and cleared with it.   *)
Bind ==
    /\ pc = "bind"
    /\ OpenChannel(IdOf(MainTurn), rpc)
    /\ Continue("register")
    /\ UNCHANGED <<bridge, codex, work, reader, steer, history>>

Register ==
    /\ pc = "register"
    /\ activeTurn' = "main"
    /\ Continue("stream")
    /\ UNCHANGED <<bridge, cancelled, rpc, open, work, updates, reader, steer, history>>

(* "turn/completed", or the result of the worker or the stream *)
Answer ==
    /\ pc = "stream"
    /\ MainTurn \in running
    /\ running' = running \ {MainTurn}
    /\ \/ Continue("unbind")
       \/ Raise(IF Codex(job.kind) THEN "abort" ELSE "unbind")
    /\ UNCHANGED <<bridge, codex, stoppedTransports, updates, reader, steer, history>>

(* The loop polls the Event of its turn five times a second. *)
BugNeverPolled == FALSE
StopRequested == IF Codex(job.kind) THEN cancelled ELSE turn \in stoppedTransports

LeaveLoop ==
    /\ pc = "stream"
    /\ StopRequested \/ MainTurn \notin running
    /\ Raise(IF Codex(job.kind) THEN "abort" ELSE "unbind")
    /\ UNCHANGED <<bridge, codex, work, updates, reader, steer, history>>

(* interrupt() by the turn itself; a failure of the request is swallowed. *)
Abort ==
    /\ pc = "abort"
    /\ cancelled' = TRUE
    /\ running' \in {running, running \ {MainTurn}}
    /\ Continue("unbind")
    /\ UNCHANGED <<bridge, activeTurn, rpc, open, stoppedTransports, updates, reader, steer, history>>

(* The worker is terminated after its channel was closed. *)
Unbind ==
    /\ pc = "unbind"
    /\ IF job.kind = "api" THEN UNCHANGED updates ELSE CloseChannel
    /\ running' = IF Codex(job.kind) THEN running ELSE running \ {MainTurn}
    /\ Continue(IF Codex(job.kind) THEN "unregister" ELSE "stop")
    /\ UNCHANGED <<bridge, codex, stoppedTransports, reader, steer, history>>

Unregister ==
    /\ pc = "unregister"
    /\ activeTurn' = None
    /\ Continue(CleanupOf)
    /\ UNCHANGED <<bridge, cancelled, rpc, open, work, updates, reader, steer, history>>

Close ==
    /\ pc = "close"
    /\ CloseConnection
    /\ Continue("stop")
    /\ UNCHANGED <<bridge, cancelled, activeTurn, stoppedTransports, updates, reader, steer, history>>

-----------------------------------------------------------------------------
(* Claude worker and API stream *)

CreateTransport ==
    /\ pc = "transport"
    /\ transport' = turn
    /\ Continue("start")
    /\ UNCHANGED <<queued, active, steering, closing, codex, work, updates, reader, steer, history>>

(* The test of the Event and the start of the worker are one step (the     *)
(* transport's lock); for a stream, so are the test and the request.        *)
Spawn ==
    /\ pc = "start" /\ ~Codex(job.kind)
    /\ \/ /\ turn \notin stoppedTransports
          /\ running' = running \cup {MainTurn}
          /\ Continue("stream")
       \/ Raise("stop") /\ UNCHANGED running
    /\ UNCHANGED <<bridge, codex, stoppedTransports, updates, reader, steer, history>>

(* The worker's "steering_ready"; a line already read is handled even when  *)
(* the worker has been told to stop meanwhile.                              *)
WorkerReady ==
    /\ pc = "stream" /\ job.kind = "claude"
    /\ turn \notin tokens
    /\ OpenChannel(IdOf(MainTurn), Worker)
    /\ UNCHANGED <<task, bridge, codex, work, reader, steer, history>>

-----------------------------------------------------------------------------
(* process(): the finally block *)

StopSteering ==
    /\ pc = "stop"
    /\ stopped' = stopped \cup ({steering} \ {NoTurn})
    /\ Continue(IF steering = NoTurn THEN "release" ELSE "detach")
    /\ UNCHANGED <<bridge, codex, work, target, receipts, tokens, reader, steer, history>>

Detach ==
    /\ pc = "detach"
    /\ CloseChannel
    /\ Continue("forget")
    /\ UNCHANGED <<bridge, codex, work, reader, steer, history>>

Forget ==
    /\ pc = "forget"
    /\ steering' = NoTurn
    /\ Continue("release")
    /\ UNCHANGED <<queued, active, transport, closing, codex, work, updates, reader, steer, history>>

Release ==
    /\ pc = "release"
    /\ active' = NoTurn
    /\ transport' = NoTurn
    /\ Continue("idle")
    /\ UNCHANGED <<queued, steering, closing, codex, work, updates, reader, steer, history>>

-----------------------------------------------------------------------------
(* The reader: cancel() and disconnect() *)

At(place) == reader' = [reader EXCEPT !.at = place]

(* A method of an attribute that another thread has set to None meanwhile:  *)
(* the exception leaves serve(), which then waits for its executors.        *)
Die == At("dead") /\ UNCHANGED stops

(* End of the handler.  A Stop confirms itself; disconnect goes on. *)
Done(next) ==
    IF reader.eof
    THEN At(next) /\ UNCHANGED stops
    ELSE /\ reader' = [reader EXCEPT !.at = "read", !.of = NoTurn]
         /\ stops' = stops \cup {reader.of}

(* Stop of the active request; any other request ID changes nothing, nor    *)
(* does a transport that does not exist yet ("must finish safely").         *)
ReadCancel ==
    /\ reader.at = "read"
    /\ active # NoTurn
    /\ Codex(job.kind) \/ transport # NoTurn
    /\ reader' = [reader EXCEPT !.of = active,
                    !.at = IF ~Codex(job.kind) THEN "useTransport"
                           ELSE IF steering # NoTurn THEN "useSteering" ELSE "interrupt"]
    /\ UNCHANGED <<task, bridge, codex, work, updates, steer, history>>

(* transport.cancel(): its Event, then the worker or the socket. *)
UseTransport ==
    /\ reader.at = "useTransport"
    /\ \/ transport = NoTurn /\ Die /\ UNCHANGED work
       \/ /\ transport # NoTurn
          /\ stoppedTransports' = stoppedTransports \cup {transport}
          /\ running' = {p \in running : p.turn # transport}
          /\ Done(IF job.kind = "claude" THEN "eofClosing" ELSE "eofSteering")
    /\ UNCHANGED <<task, bridge, codex, updates, steer, submitted, taken, faults>>

(* active_steering.stop() sets an Event and does not take the lock. *)
BugStopLocks(t) == LockFree(t) /\ stopped' = stopped \cup {t}
StopUpdates(t) == stopped' = stopped \cup {t}

UseSteering ==
    /\ reader.at = "useSteering"
    /\ \/ steering = NoTurn /\ Die /\ UNCHANGED stopped
       \/ /\ steering # NoTurn
          /\ StopUpdates(steering)
          /\ At(IF reader.eof THEN "eofProvider" ELSE "interrupt")
          /\ UNCHANGED stops
    /\ UNCHANGED <<task, bridge, codex, work, target, receipts, tokens, steer,
                   submitted, taken, faults>>

(* interrupt(): set the Event, test active_turn and rpc, unpack active_turn,*)
(* use rpc.  Unpacking None is a TypeError, which a Stop reports and        *)
(* disconnect does not catch.                                               *)
Interrupt ==
    /\ reader.at = "interrupt"
    /\ cancelled' = TRUE
    /\ At("test")
    /\ UNCHANGED <<task, bridge, activeTurn, rpc, open, work, updates, steer, history>>

Test ==
    /\ reader.at = "test"
    /\ \/ activeTurn # None /\ rpc # None /\ At("unpack") /\ UNCHANGED stops
       \/ (activeTurn = None \/ rpc = None) /\ Done("drain")
    /\ UNCHANGED <<task, bridge, codex, work, updates, steer, submitted, taken, faults>>

Unpack ==
    /\ reader.at = "unpack"
    /\ \/ activeTurn # None /\ reader' = [reader EXCEPT !.at = "use", !.phase = activeTurn]
       \/ /\ activeTurn = None
          /\ reader' = IF reader.eof THEN [reader EXCEPT !.at = "dead"]
                       ELSE [reader EXCEPT !.at = "read", !.of = NoTurn]
    /\ UNCHANGED <<task, bridge, codex, work, updates, steer, history>>

Use ==
    /\ reader.at = "use"
    /\ \/ rpc = None /\ Die /\ UNCHANGED running
       \/ /\ rpc # None
          /\ running' \in {running, {p \in running : ~(/\ p.turn = turn
                                                       /\ p.phase = reader.phase
                                                       /\ p.conn = rpc)}}
          /\ Done("drain")
    /\ UNCHANGED <<task, bridge, codex, stoppedTransports, updates, steer, submitted, taken, faults>>

(* End of file: the client has closed its end of the pipe. *)
Eof ==
    /\ reader.at = "read"
    /\ reader' = [reader EXCEPT !.at = "eofClaude", !.eof = TRUE]
    /\ UNCHANGED <<task, bridge, codex, work, updates, steer, history>>

EofClaude ==
    /\ reader.at = "eofClaude"
    /\ At(IF transport # NoTurn /\ job.kind = "claude" THEN "useTransport" ELSE "eofClosing")
    /\ UNCHANGED <<task, bridge, codex, work, updates, steer, history>>

EofClosing ==
    /\ reader.at = "eofClosing"
    /\ closing' = TRUE
    /\ At("eofApi")
    /\ UNCHANGED <<task, queued, active, steering, transport, codex, work, updates, steer, history>>

EofApi ==
    /\ reader.at = "eofApi"
    /\ At(IF transport # NoTurn /\ job.kind = "api" THEN "useTransport" ELSE "eofSteering")
    /\ UNCHANGED <<task, bridge, codex, work, updates, steer, history>>

EofSteering ==
    /\ reader.at = "eofSteering"
    /\ At(IF steering # NoTurn THEN "useSteering" ELSE "eofProvider")
    /\ UNCHANGED <<task, bridge, codex, work, updates, steer, history>>

EofProvider ==
    /\ reader.at = "eofProvider"
    /\ At(IF active # NoTurn /\ Codex(job.kind) THEN "interrupt" ELSE "drain")
    /\ UNCHANGED <<task, bridge, codex, work, updates, steer, history>>

(* serve() leaves its executors when they have finished, then calls         *)
(* backend.close() unless an exception is on its way out.                   *)
Finish ==
    /\ reader.at \in {"drain", "dead"}
    /\ pc = "idle" /\ queued = None /\ steer.at = "idle"
    /\ IF reader.at = "drain"
       THEN CloseConnection /\ At("closed")
       ELSE At("crashed") /\ UNCHANGED <<rpc, open, running>>
    /\ UNCHANGED <<task, bridge, cancelled, activeTurn, stoppedTransports, updates, steer, history>>

-----------------------------------------------------------------------------
(* The steering thread: LiveSteering.send() *)

(* An update names its request, its own ID and the token the client was told.*)
ReadUpdate(t, m, token) ==
    /\ reader.at = "read"
    /\ steer.at = "idle"
    /\ t <= turn
    /\ token \in tokens
    /\ steer' = [NoUpdate EXCEPT !.at = "lookup", !.turn = t, !.message = m, !.token = token]
    /\ UNCHANGED <<task, bridge, codex, work, updates, reader, history>>

(* dispatch("steer") reads active_steering; another request is refused. *)
Lookup ==
    /\ steer.at = "lookup"
    /\ steer' = IF steering = steer.turn /\ ~closing
                THEN [steer EXCEPT !.at = "enter"] ELSE NoUpdate
    /\ UNCHANGED <<task, bridge, codex, work, updates, reader, history>>

Settle(status) ==
    /\ receipts' = [receipts EXCEPT ![steer.turn][steer.message] = status]
    /\ steer' = NoUpdate

BoundToTarget == target[steer.turn] # None /\ steer.token = target[steer.turn].token

(* Under the lock: a known message ID returns its receipt; a closed task or *)
(* a token of another model turn rejects.  Otherwise the target is kept for *)
(* the send.                                                                *)
Enter ==
    /\ steer.at = "enter"
    /\ \/ receipts[steer.turn][steer.message] # None
          /\ steer' = NoUpdate /\ UNCHANGED receipts
       \/ /\ receipts[steer.turn][steer.message] = None
          /\ IF steer.turn \notin stopped /\ BoundToTarget
             THEN /\ steer' = [steer EXCEPT !.at = "reading", !.to = target[steer.turn]]
                  /\ UNCHANGED receipts
             ELSE Settle("rejected")
    /\ UNCHANGED <<task, bridge, codex, work, stopped, target, tokens, reader, history>>

(* Files and vision support have been checked: is the task still open? *)
BugNotRechecked == TRUE
StillOpen == steer.turn \notin stopped

(* The receipt is frozen as unknown before anything is sent.  (late is      *)
(* history: a Stop was confirmed before this last look at the Event.)       *)
BugNotFrozen == None
FrozenReceipt == "unknown"

ReadAttachments ==
    /\ steer.at = "reading"
    /\ \/ Settle("rejected")
       \/ /\ StillOpen
          /\ receipts' = [receipts EXCEPT ![steer.turn][steer.message] = FrozenReceipt]
          /\ steer' = [steer EXCEPT !.at = "submit", !.late = steer.turn \in stops]
    /\ UNCHANGED <<task, bridge, codex, work, stopped, target, tokens, reader, history>>

ToWorker == steer.to.rpc.use = "worker"

(* turn/steer names the turn it expects; a connection may carry others.     *)
BugAnyTurn(p) == TRUE
Expected(p) == IdOf(p) = steer.to.id

(* The model turns that may take an update sent over its connection: of a   *)
(* Codex process the expected one, of a worker whatever it runs.            *)
Addressee == {p \in running : p.conn = steer.to.rpc /\ (ToWorker \/ Expected(p))}

Reachable == IF ToWorker
             THEN Addressee # {} /\ steer.to.rpc.turn \notin stoppedTransports
             ELSE steer.to.rpc \in open

(* What a lost reply leaves in the receipt *)
BugLostIsRejected == "rejected"
LostReply == receipts[steer.turn][steer.message]

(* Nothing can be sent: a worker may say so, a closed pipe leaves it unknown.*)
(* Otherwise the provider takes the update or refuses it, and its reply     *)
(* arrives or is lost.                                                      *)
Submit ==
    LET t == steer.turn  m == steer.message IN
    /\ steer.at = "submit"
    /\ \/ /\ ~Reachable
          /\ (ToWorker /\ Settle("rejected")) \/ Settle(LostReply)
          /\ UNCHANGED <<submitted, taken>>
       \/ /\ Reachable
          /\ submitted' = [submitted EXCEPT ![t][m] = @ + 1]
          /\ \/ /\ \E p \in Addressee :
                     taken' = taken \cup {[turn |-> t, message |-> m, token |-> steer.token, by |-> p]}
                /\ Settle("accepted") \/ Settle(LostReply)
             \/ (Settle("rejected") \/ Settle(LostReply)) /\ UNCHANGED taken
    /\ UNCHANGED <<task, bridge, codex, work, stopped, target, tokens, reader, stops, faults>>

-----------------------------------------------------------------------------
(* A provider process or its pipe ends by itself. *)
ConnectionDies ==
    /\ faults < MaxFaults
    /\ \E c \in open : open' = open \ {c} /\ running' = running \ On(c)
    /\ faults' = faults + 1
    /\ UNCHANGED <<task, bridge, cancelled, activeTurn, rpc, stoppedTransports, updates,
                   reader, steer, submitted, taken, stops>>

Terminated == reader.at \in {"closed", "crashed"} /\ UNCHANGED vars

TurnStep ==
    \/ TakeProcess \/ Prepare \/ Attach \/ Announce \/ CheckClosing
    \/ Select \/ Selecting \/ SelectEnd \/ SelectClose
    \/ ConnectMain \/ Reconnect \/ Launch \/ Start
    \/ Bind \/ Register \/ LeaveLoop \/ Abort \/ Unbind \/ Unregister \/ Close
    \/ CreateTransport \/ Spawn
    \/ StopSteering \/ Detach \/ Forget \/ Release

ReaderStep ==
    \/ UseTransport \/ UseSteering \/ Interrupt \/ Test \/ Unpack \/ Use
    \/ EofClaude \/ EofClosing \/ EofApi \/ EofSteering \/ EofProvider \/ Finish

SteerStep == Lookup \/ Enter \/ ReadAttachments \/ Submit

ClientStep ==
    \/ \E j \in Jobs : ReadProcess(j)
    \/ \E t \in Turns, m \in Messages, token \in Turns : ReadUpdate(t, m, token)
    \/ ReadCancel \/ Eof

ProviderStep == Answer \/ WorkerReady \/ ConnectionDies

Next == TurnStep \/ ReaderStep \/ SteerStep \/ ClientStep \/ ProviderStep \/ Terminated

Spec == Init /\ [][Next]_vars

(* Every thread of the bridge runs on, and each of its requests is bounded  *)
(* by a timeout.  Nothing is assumed of the client or of the provider.      *)
FairSpec == Spec /\ WF_vars(TurnStep) /\ WF_vars(ReaderStep) /\ WF_vars(SteerStep)

-----------------------------------------------------------------------------
(* Properties *)

(* An update is sent to a provider at most once, however often the client   *)
(* sends it and whatever reply is lost (receipt frozen before sending).     *)
OneSubmission == \A t \in Turns, m \in Messages : submitted[t][m] <= 1

(* A receipt tells the truth: "rejected" was never taken by a model turn,   *)
(* "accepted" was (receipts of LiveSteering.send).                          *)
ReceiptsAreTrue ==
    \A t \in Turns, m \in Messages :
        LET was == {d \in taken : d.turn = t /\ d.message = m} IN
        /\ receipts[t][m] = "rejected" => was = {}
        /\ receipts[t][m] = "accepted" => was # {}

(* Where the turn thread has announced its model turn and not withdrawn it. *)
Bound == {"register", "stream", "abort", "unbind"}

(* "Updates bound to one foreground model turn, never to a selector turn":  *)
(* an update is taken by the main model turn its token was announced for,   *)
(* never by one that an earlier request left running on the same            *)
(* connection, and while the turn thread still answers that request: it     *)
(* cannot withdraw the turn, or start the next, under an update on its way. *)
UpdateReachesItsTurn ==
    [][\A d \in taken' \ taken :
          /\ d.by.turn = d.token /\ d.by.phase = "main"
          /\ d.turn = d.token /\ turn = d.token /\ pc \in Bound]_vars

(* "Stop remains immediate while local files or vision support are          *)
(* checked": once a Stop was confirmed no update passes its last check and  *)
(* is sent, wherever its handling was; one already frozen may be.           *)
NoUpdateAfterStop ==
    [][\A t \in Turns, m \in Messages :
          submitted'[t][m] # submitted[t][m] => ~steer.late]_vars

(* A Stop acts on the request it names: no other turn starts while it is    *)
(* being carried out (one outstanding turn, one reader).                    *)
StopHitsItsTurn ==
    reader.of # NoTurn /\ ~reader.eof => active \in {NoTurn, reader.of} /\ turn = reader.of

(* A full-access process never outlives its turn (agent_answer's finally).  *)
FullMacEndsWithTurn ==
    pc = "idle" => \A c \in open : c.use # "agent"

CancelRequested == IF Codex(job.kind) THEN cancelled ELSE turn \in stoppedTransports

(* "EOF requests cancellation for model work": once disconnect() is done,   *)
(* a model turn that still runs has been told to stop.                      *)
EofCancelsModelWork ==
    reader.at = "drain" /\ (\E p \in running : p.turn = turn /\ p.phase = "main") /\ pc = "stream"
    => CancelRequested

(* The same for Codex turns, on either side of the closing flag.            *)
EofCancelsCodex == pc # "idle" /\ Codex(job.kind) => EofCancelsModelWork

(* "EOF interrupts model turns, lets core writes finish, and closes Codex": *)
(* when the bridge has ended, it has closed its provider connection.        *)
EofClosesCodex == reader.at \in {"closed", "crashed"} => open = {}

(* "Stop uses an Event and does not wait for this bounded turn RPC lock":   *)
(* wherever the turn, an update being sent and the provider are, the reader *)
(* can take its next step in a Stop or an end of file, and waits for nobody.*)
Handling == reader.at \notin {"read", "drain", "dead", "closed", "crashed"}

StopIsImmediate == Handling => ENABLED ReaderStep

(* A confirmed Stop ends the turn, whatever the provider does.              *)
StopEndsTurn == \A t \in Turns : t \in stops /\ active = t ~> active # t

(* After end of file a bridge with a Codex turn ends, whatever the provider *)
(* does.                                                                    *)
EofEndsBridge ==
    reader.eof /\ active # NoTurn /\ Codex(job.kind) ~> reader.at \in {"closed", "crashed"}
=============================================================================
