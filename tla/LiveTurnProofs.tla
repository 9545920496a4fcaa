--------------------------- MODULE LiveTurnProofs ---------------------------
(***************************************************************************)
(* Proofs about LiveTurn, for any jobs and messages and any number of      *)
(* turns and faults.                                                       *)
(*                                                                         *)
(* The argument: each thread writes its own attributes, and what one       *)
(* thread reads of another is bounded by where that one is.  The turn      *)
(* thread publishes its attributes between two places (Registered).  The   *)
(* reader is at one message only, so no turn starts while it carries out a *)
(* Stop (OneMessage).  The receipt of an update is frozen before anything  *)
(* is sent (Frozen).  A target stands only while its own turn is bound, and *)
(* does not change under an update on its way (Channel).  A stopped turn is *)
(* closed for updates, or its worker is told to stop (Deaf).  A turn that is announced after the end of file *)
(* sees closing, one announced before is interrupted (Ended).              *)
(***************************************************************************)
EXTENDS LiveTurn, TLAPS

(* The types, in parts. *)
TypeTask ==
    /\ pc \in Places /\ turn \in 0..MaxTurns /\ raising \in BOOLEAN
    /\ job \in Job \cup {None} /\ queued \in Job \cup {None}

TypeCodex ==
    /\ closing \in BOOLEAN /\ cancelled \in BOOLEAN
    /\ activeTurn \in {None, "select", "main"}
    /\ rpc \in Connection \cup {None} /\ open \subseteq Connection
    /\ running \subseteq ModelTurn

TypeUpdates ==
    /\ stoppedTransports \subseteq Turns /\ stopped \subseteq Turns /\ tokens \subseteq Turns
    /\ target \in [Turns -> Target \cup {None}]

TypeReader ==
    /\ reader \in [at : ReaderPlaces, of : 0..MaxTurns, eof : BOOLEAN,
                   phase : {None, "select", "main"}]
    /\ stops \subseteq Turns

TypeSteer ==
    /\ receipts \in [Turns -> [Messages -> {None, "rejected", "unknown", "accepted"}]]
    /\ steer \in [at : {"idle", "lookup", "enter", "reading", "submit"}, turn : 0..MaxTurns,
                  message : Messages \cup {None}, token : 0..MaxTurns,
                  to : Target \cup {None}, late : BOOLEAN]
    /\ submitted \in [Turns -> [Messages -> Nat]]
    /\ taken \subseteq [turn : Turns, message : Messages, token : Turns, by : ModelTurn]
    /\ faults \in 0..MaxFaults

(* What the turn thread has published at each of its places. *)
Registered ==
    /\ active = IF pc \in {"idle", "prepare", "attach", "announce"} THEN NoTurn ELSE turn
    /\ steering = IF pc \in {"idle", "prepare", "attach", "release"} \/ job.kind = "api"
                  THEN NoTurn ELSE turn
    /\ transport \in {NoTurn, turn}
    /\ pc \in {"idle", "prepare", "attach", "announce", "check"} => transport = NoTurn
    /\ transport # NoTurn => ~Codex(job.kind)
    /\ turn # 0 => job \in Job
    /\ pc # "idle" => turn \in Turns /\ queued = None
    /\ queued # None => turn < MaxTurns
    /\ pc = "transport" => ~Codex(job.kind)
    /\ pc = "bind" => Codex(job.kind)

(* An update that is being handled names a turn, a message and a token. *)
Named == steer.at # "idle" => steer.turn \in Turns /\ steer.message \in Messages /\ steer.token \in Turns

(* While a Stop is carried out, nothing else is read. *)
EofPlaces == {"eofClaude", "eofClosing", "eofApi", "eofSteering", "eofProvider", "drain"}

OneMessage ==
    /\ reader.at \in EofPlaces => reader.eof
    /\ reader.at = "read" => reader.of = NoTurn /\ ~reader.eof
    /\ reader.at # "read" /\ ~reader.eof => reader.of # NoTurn
    /\ reader.of # NoTurn => ~reader.eof /\ queued = None /\ turn = reader.of

Safe == TypeOK /\ Registered /\ Named /\ OneMessage

(* What is known of an update, and what was sent and taken of it. *)
Takings(t, m) == {d \in taken : d.turn = t /\ d.message = m}

Ledger(t, m) ==
    /\ submitted[t][m] \in {0, 1}
    /\ receipts[t][m] = None => submitted[t][m] = 0
    /\ receipts[t][m] = "rejected" \/ submitted[t][m] = 0 => Takings(t, m) = {}
    /\ receipts[t][m] = "accepted" => Takings(t, m) # {}

Frozen ==
    /\ \A t \in Turns, m \in Messages : Ledger(t, m)
    /\ steer.at = "reading" => receipts[steer.turn][steer.message] = None
    /\ steer.at = "submit" => /\ receipts[steer.turn][steer.message] = "unknown"
                              /\ submitted[steer.turn][steer.message] = 0

(* The process of a Full Mac turn is the connection of that turn. *)
AgentPlaces == {"start", "bind", "register", "stream", "abort", "unbind", "unregister", "close"}

OwnProcess ==
    /\ \A c \in open : c.use = "agent" => c = rpc /\ job.kind = "agent" /\ pc \in AgentPlaces
    /\ pc \in {"reconnect", "launch"} => job.kind = "agent"
    /\ pc = "launch" => rpc = None

(* After end of file. *)
Working == {"select", "selecting", "selectEnd", "selectClose", "connect", "reconnect", "launch",
            "start", "bind", "register", "stream", "abort", "unbind", "unregister", "close"}

Ended ==
    /\ reader.at \in {"eofApi", "eofSteering", "eofProvider", "drain"} => closing
    /\ reader.eof /\ reader.at \in {"useSteering", "interrupt", "test", "unpack", "use"} => closing
    /\ reader.eof /\ reader.at = "useTransport" => closing \/ (turn # 0 /\ job.kind = "claude" /\ queued = None)
    /\ reader.at = "drain" \/ (reader.eof /\ reader.at \in {"test", "unpack", "use"})
          => (pc \in Working /\ Codex(job.kind) => cancelled)

(* The target of a task: its main model turn, on the connection it uses. *)
Announced(t) ==
    /\ t = turn /\ pc \in Bound /\ job.kind # "api"
    /\ target[t].token = t /\ target[t].id = [turn |-> t, phase |-> "main"]
    /\ IF Codex(job.kind) THEN target[t].rpc.use # "worker" ELSE target[t].rpc = Worker

(* A worker runs the turn it was started for; other turns are told by ID. *)
Lines ==
    /\ rpc # None => rpc.use # "worker"
    /\ pc = "bind" => rpc # None
    /\ \A p \in running : p.conn # None /\ p.conn.use = "worker"
                          => p.turn = p.conn.turn /\ p.phase = "main"

Channel ==
    /\ Lines
    /\ \A t \in Turns : target[t] # None => Announced(t)
    /\ steer.at \in {"reading", "submit"} =>
          /\ steer.to # None /\ steer.to = target[steer.turn]
          /\ steer.token = steer.to.token

(* A stopped turn takes no further updates; only a worker may still be asked. *)
Deaf ==
    /\ \A t \in stoppedTransports : t <= turn /\ (t = turn => ~Codex(job.kind))
    /\ stops \subseteq stopped \cup stoppedTransports
    /\ pc \in {"detach", "forget"} => turn \in stopped
    /\ pc = "release" => turn \in stopped \/ job.kind = "api"
    /\ ~reader.eof /\ reader.at \in {"interrupt", "test", "unpack", "use"} => reader.of \in stopped
    /\ ~reader.eof /\ reader.at = "useTransport" => ~Codex(job.kind)
    /\ steer.at = "submit" /\ steer.late => steer.turn \in stoppedTransports

(* They are the type invariant. *)
LEMMA TypeParts ==
    Registered => (TypeOK <=> TypeTask /\ TypeCodex /\ TypeUpdates /\ TypeReader /\ TypeSteer)
BY DEF Registered, TypeOK, TypeTask, TypeCodex, TypeUpdates, TypeReader, TypeSteer

(* Nothing has happened yet. *)
LEMMA InitInv == Init => Safe /\ Frozen /\ OwnProcess /\ Ended /\ Channel /\ Deaf
<1> SUFFICES ASSUME Init PROVE Safe /\ Frozen /\ OwnProcess /\ Ended /\ Channel /\ Deaf
    OBVIOUS
<1>1. TypeTask
    <2>1. pc = "idle" /\ turn = 0 /\ job = None /\ raising = FALSE /\ queued = None
        BY DEF Init
    <2>2. raising \in BOOLEAN
        BY <2>1
    <2>3. pc \in Places /\ turn \in 0..MaxTurns /\ job \in Job \cup {None} /\ queued \in Job \cup {None}
        BY <2>1, LiveTurnAssumption DEF Places
    <2> QED
        BY <2>2, <2>3 DEF TypeTask
<1>2. TypeCodex /\ TypeUpdates
    BY DEF Init, TypeCodex, TypeUpdates
<1>3. TypeReader
    BY LiveTurnAssumption DEF Init, TypeReader, ReaderPlaces, NoTurn
<1>4. TypeSteer
    BY LiveTurnAssumption DEF Init, TypeSteer, NoUpdate, NoTurn
<1>5. Registered /\ Named /\ OneMessage
    BY DEF Init, Registered, Named, OneMessage, EofPlaces, NoUpdate, NoTurn
<1>6. Frozen
    <2>1. ASSUME NEW t \in Turns, NEW m \in Messages PROVE Ledger(t, m)
        BY LiveTurnAssumption DEF Init, Ledger, Takings
    <2> QED
        BY <2>1 DEF Init, Frozen, NoUpdate
<1>8. OwnProcess /\ Ended
    BY DEF Init, OwnProcess, Ended
<1>7. Channel /\ Deaf
    BY DEF Init, Channel, Lines, Deaf, NoUpdate
<1> QED
    BY <1>1, <1>2, <1>3, <1>4, <1>5, <1>6, <1>7, <1>8, TypeParts DEF Safe

-----------------------------------------------------------------------------
(* What each thread leaves alone *)

(* The turn thread: the receipts and the other two threads. *)
LEMMA TurnFrame ==
    ASSUME TurnStep
    PROVE  UNCHANGED <<receipts, reader, steer, submitted, taken, stops, faults, closing, stoppedTransports>>
BY DEF TurnStep, TakeProcess, Prepare, Attach, Announce, CheckClosing, Select,
    Selecting, SelectEnd, SelectClose, ConnectMain, Reconnect, Launch, Start,
    Bind, Register, LeaveLoop, Abort, Unbind, Unregister, Close,
    CreateTransport, Spawn, StopSteering, Detach, Forget, Release,
    OpenChannel, CloseChannel, task, bridge, codex, work, updates, history

(* The reader: the turn, its attributes and the updates, but for Stop. *)
LEMMA ReaderFrame ==
    ASSUME ReaderStep
    PROVE  UNCHANGED <<task, queued, active, steering, transport, activeTurn, target, receipts,
                       tokens, steer, submitted, taken, faults>>
BY DEF ReaderStep, UseTransport, UseSteering, Interrupt, Test, Unpack, Use,
    EofClaude, EofClosing, EofApi, EofSteering, EofProvider, Finish, task,
    bridge, codex, work, updates, history

(* The steering thread: everything but its own receipts. *)
LEMMA SteerFrame ==
    ASSUME SteerStep
    PROVE  UNCHANGED <<task, bridge, codex, work, stopped, target, tokens, reader, stops, faults>>
BY DEF SteerStep, Lookup, Enter, ReadAttachments, Submit, task, bridge, codex,
    work, updates, history

(* The client: everything but its messages. *)
LEMMA ClientFrame ==
    ASSUME ClientStep
    PROVE  UNCHANGED <<task, active, steering, transport, closing, codex, work, updates, history>>
BY DEF ClientStep, ReadProcess, ReadUpdate, ReadCancel, Eof, bridge

(* The providers: everything but their turns, and the news of them. *)
LEMMA ProviderFrame ==
    ASSUME ProviderStep
    PROVE  UNCHANGED <<turn, job, bridge, cancelled, activeTurn, rpc, stoppedTransports, stopped,
                       receipts, reader, steer, submitted, taken, stops>>
BY DEF ProviderStep, Answer, WorkerReady, ConnectionDies, OpenChannel,
    Continue, Raise, Goto, task, bridge, codex, work, updates, history

-----------------------------------------------------------------------------
(* Types *)

(* The turn thread is at a place, with a job. *)
LEMMA TaskStep ==
    ASSUME TypeOK, Registered, [Next]_vars
    PROVE  TypeTask'
<1>1. CASE TakeProcess
    <2>1. queued \in Job /\ turn < MaxTurns /\ turn \in 0..MaxTurns /\ queued' = None
        BY <1>1 DEF TakeProcess, Registered, TypeOK
    <2>2. CASE closing /\ UNCHANGED task
        BY <1>1, <2>2 DEF TakeProcess, task, TypeOK, TypeTask
    <2>3. CASE pc' = "prepare" /\ turn' = turn + 1 /\ job' = queued /\ raising' = FALSE
        <3>1. raising' \in BOOLEAN
            BY <2>3
        <3>2. /\ pc' \in Places /\ turn' \in 0..MaxTurns
              /\ job' \in Job \cup {None} /\ queued' \in Job \cup {None}
            BY <2>1, <2>3, LiveTurnAssumption DEF Places
        <3> QED
            BY <3>1, <3>2 DEF TypeTask
    <2> QED
        BY <1>1, <2>2, <2>3 DEF TakeProcess
<1>2. CASE Prepare \/ Attach \/ Announce \/ CheckClosing \/ Select \/ Selecting
         \/ SelectEnd \/ SelectClose \/ ConnectMain \/ Reconnect \/ Launch
         \/ Start \/ Bind \/ Register \/ LeaveLoop \/ Abort \/ Unbind
         \/ Unregister \/ Close \/ CreateTransport \/ Spawn \/ StopSteering
         \/ Detach \/ Forget \/ Release \/ Answer
    BY <1>2 DEF Prepare, Attach, Announce, CheckClosing, Select, Selecting,
            SelectEnd, SelectClose, ConnectMain, Reconnect, Launch, Start,
            Bind, Register, LeaveLoop, Abort, Unbind, Unregister, Close,
            CreateTransport, Spawn, StopSteering, Detach, Forget, Release,
            Answer, CleanupOf, Goto, Continue, Raise, bridge, TypeOK,
            TypeTask, Places
<1>3. CASE ReaderStep \/ SteerStep
    BY <1>3, ReaderFrame, SteerFrame DEF task, bridge, TypeOK, TypeTask
<1>4. ASSUME NEW j \in Jobs, ReadProcess(j) PROVE TypeTask'
    BY <1>4, LiveTurnAssumption DEF ReadProcess, task, TypeOK, TypeTask
<1>5. CASE 
         (\E t \in Turns, m \in Messages, token \in Turns : ReadUpdate(t, m, token))
         \/ ReadCancel \/ Eof \/ WorkerReady \/ ConnectionDies
    BY <1>5 DEF ReadUpdate, ReadCancel, Eof, WorkerReady, ConnectionDies, task,
        bridge, TypeOK, TypeTask
<1>6. CASE UNCHANGED vars
    BY <1>6 DEF vars, task, bridge, TypeOK, TypeTask
<1> QED
    BY <1>1, <1>2, <1>3, <1>4, <1>5, <1>6 DEF Next, Terminated, TurnStep, ClientStep, ProviderStep

(* The attributes are published and withdrawn with the place. *)
LEMMA RegisteredStep ==
    ASSUME TypeOK, Registered, [Next]_vars
    PROVE  Registered'
<1>1. CASE TakeProcess
    BY <1>1, LiveTurnAssumption DEF TakeProcess, task, TypeOK, Registered,
        NoTurn, Turns
<1>2. CASE Prepare
    BY <1>2 DEF Prepare, Goto, Continue, Raise, bridge, task, TypeOK, Registered,
        Turns, NoTurn, Places
<1>3. CASE Attach
    BY <1>3 DEF Attach, Goto, Continue, Raise, bridge, task, TypeOK, Registered,
        Turns, NoTurn, Places
<1>4. CASE Announce
    BY <1>4 DEF Announce, Goto, Continue, Raise, bridge, task, TypeOK,
        Registered, Turns, NoTurn, Places
<1>5. CASE CheckClosing
    BY <1>5 DEF CheckClosing, Goto, Continue, Raise, bridge, task, TypeOK,
        Registered, Turns, NoTurn, Places, Job
<1>6. CASE Select
    BY <1>6 DEF Select, Goto, Continue, Raise, bridge, task, TypeOK, Registered,
        Turns, NoTurn, Places, CleanupOf
<1>7. CASE Selecting
    BY <1>7 DEF Selecting, Goto, Continue, Raise, bridge, task, TypeOK,
        Registered, Turns, NoTurn, Places
<1>8. CASE SelectEnd
    BY <1>8 DEF SelectEnd, Goto, Continue, Raise, bridge, task, TypeOK,
        Registered, Turns, NoTurn, Places
<1>9. CASE SelectClose
    BY <1>9 DEF SelectClose, Goto, Continue, Raise, bridge, task, TypeOK,
        Registered, Turns, NoTurn, Places
<1>10. CASE ConnectMain
    BY <1>10 DEF ConnectMain, Goto, Continue, Raise, bridge, task, TypeOK,
        Registered, Turns, NoTurn, Places, CleanupOf
<1>11. CASE Reconnect
    BY <1>11 DEF Reconnect, Goto, Continue, Raise, bridge, task, TypeOK,
        Registered, Turns, NoTurn, Places
<1>12. CASE Launch
    BY <1>12 DEF Launch, Goto, Continue, Raise, bridge, task, TypeOK, Registered,
        Turns, NoTurn, Places, CleanupOf
<1>13. CASE Start
    BY <1>13 DEF Start, Goto, Continue, Raise, bridge, task, TypeOK, Registered,
        Turns, NoTurn, Places, CleanupOf
<1>14. CASE Bind
    BY <1>14 DEF Bind, Goto, Continue, Raise, bridge, task, TypeOK, Registered,
        Turns, NoTurn, Places
<1>15. CASE Register
    BY <1>15 DEF Register, Goto, Continue, Raise, bridge, task, TypeOK,
        Registered, Turns, NoTurn, Places
<1>16. CASE LeaveLoop
    BY <1>16 DEF LeaveLoop, Goto, Continue, Raise, bridge, task, TypeOK,
        Registered, Turns, NoTurn, Places
<1>17. CASE Abort
    BY <1>17 DEF Abort, Goto, Continue, Raise, bridge, task, TypeOK, Registered,
        Turns, NoTurn, Places
<1>18. CASE Unbind
    BY <1>18 DEF Unbind, Goto, Continue, Raise, bridge, task, TypeOK, Registered,
        Turns, NoTurn, Places
<1>19. CASE Unregister
    BY <1>19 DEF Unregister, Goto, Continue, Raise, bridge, task, TypeOK,
        Registered, Turns, NoTurn, Places, CleanupOf
<1>20. CASE Close
    BY <1>20 DEF Close, Goto, Continue, Raise, bridge, task, TypeOK, Registered,
        Turns, NoTurn, Places
<1>21. CASE CreateTransport
    BY <1>21 DEF CreateTransport, Goto, Continue, Raise, bridge, task, TypeOK,
        Registered, Turns, NoTurn, Places
<1>22. CASE Spawn
    BY <1>22 DEF Spawn, Goto, Continue, Raise, bridge, task, TypeOK, Registered,
        Turns, NoTurn, Places
<1>23. CASE StopSteering
    BY <1>23 DEF StopSteering, Goto, Continue, Raise, bridge, task, TypeOK,
        Registered, Turns, NoTurn, Places
<1>24. CASE Detach
    BY <1>24 DEF Detach, Goto, Continue, Raise, bridge, task, TypeOK, Registered,
        Turns, NoTurn, Places
<1>25. CASE Forget
    BY <1>25 DEF Forget, Goto, Continue, Raise, bridge, task, TypeOK, Registered,
        Turns, NoTurn, Places
<1>26. CASE Release
    BY <1>26 DEF Release, Goto, Continue, Raise, bridge, task, TypeOK, Registered,
        Turns, NoTurn, Places
<1>27. CASE Answer
    BY <1>27 DEF Answer, Goto, Continue, Raise, bridge, task, TypeOK, Registered,
        Turns, NoTurn, Places
<1>28. CASE ReaderStep \/ SteerStep
    BY <1>28, ReaderFrame, SteerFrame DEF task, bridge, Registered
<1>29. ASSUME NEW j \in Jobs, ReadProcess(j) PROVE Registered'
    BY <1>29, LiveTurnAssumption DEF ReadProcess, MaySubmit, task, TypeOK, Registered
<1>30. CASE 
         (\E t \in Turns, m \in Messages, token \in Turns : ReadUpdate(t, m, token))
         \/ ReadCancel \/ Eof \/ WorkerReady \/ ConnectionDies
    BY <1>30 DEF ReadUpdate, ReadCancel, Eof, WorkerReady, ConnectionDies, task,
        bridge, Registered
<1>31. CASE UNCHANGED vars
    BY <1>31 DEF vars, task, bridge, Registered
<1> QED
    BY <1>1, <1>2, <1>3, <1>4, <1>5, <1>6, <1>7, <1>8, <1>9, <1>10, <1>11,
        <1>12, <1>13, <1>14, <1>15, <1>16, <1>17, <1>18, <1>19, <1>20, <1>21,
        <1>22, <1>23, <1>24, <1>25, <1>26, <1>27, <1>28, <1>29, <1>30, <1>31 DEF Next, Terminated, TurnStep, ClientStep, ProviderStep

(* The main turn is a model turn, on its connection. *)
LEMMA MainTurnType ==
    ASSUME Registered, turn \in Turns, Codex(job.kind) => rpc \in Connection
    PROVE  MainTurn \in ModelTurn
<1>1. job.kind \in Kinds
    BY DEF Registered, Job, Turns
<1>2. Worker \in Connection
    BY DEF Worker, Connection
<1>3. MainTurn.conn \in Connection \cup {None}
    BY <1>1, <1>2 DEF MainTurn, Kinds, Codex
<1> QED
    BY <1>3 DEF MainTurn, ModelTurn

(* A connection that is opened is one. *)
LEMMA ConnectedType ==
    ASSUME TypeOK, turn \in Turns, NEW use \in {"select", "chat", "agent", "worker"}
    PROVE  Connected(use) \in Connection
BY DEF TypeOK, Connected, Connection

(* The two Events are set or not. *)
LEMMA FlagStep ==
    ASSUME TypeOK, [Next]_vars
    PROVE  closing' \in BOOLEAN /\ cancelled' \in BOOLEAN
<1>1. CASE TakeProcess \/ Attach \/ Announce \/ CheckClosing \/ SelectEnd
         \/ SelectClose \/ ConnectMain \/ Reconnect \/ Launch \/ Bind
         \/ Register \/ LeaveLoop \/ Unbind \/ Unregister \/ Close
         \/ CreateTransport \/ Spawn \/ StopSteering \/ Detach \/ Forget
         \/ Release \/ WorkerReady \/ Answer \/ ConnectionDies
    BY <1>1 DEF TakeProcess, Attach, Announce, CheckClosing, SelectEnd,
        SelectClose, ConnectMain, Reconnect, Launch, Bind, Register,
        LeaveLoop, Unbind, Unregister, Close, CreateTransport, Spawn,
        StopSteering, Detach, Forget, Release, WorkerReady, Answer,
        ConnectionDies, bridge, codex, TypeOK
<1>2. CASE Prepare \/ Select \/ Selecting \/ Start \/ Abort
    BY <1>2 DEF Prepare, Select, Selecting, Start, Abort, bridge, TypeOK
<1>3. CASE ReaderStep
    BY <1>3 DEF ReaderStep, UseTransport, UseSteering, Interrupt, Test, Unpack,
        Use, EofClaude, EofClosing, EofApi, EofSteering, EofProvider, Finish,
        bridge, codex, TypeOK
<1>4. CASE SteerStep \/ ClientStep
    BY <1>4, SteerFrame, ClientFrame DEF bridge, codex, TypeOK
<1>5. CASE UNCHANGED vars
    BY <1>5 DEF vars, bridge, codex, TypeOK
<1> QED
    BY <1>1, <1>2, <1>3, <1>4, <1>5 DEF Next, Terminated, TurnStep, ProviderStep

(* The connections and the model turns on them. *)
TypeWork ==
    /\ activeTurn \in {None, "select", "main"}
    /\ rpc \in Connection \cup {None} /\ open \subseteq Connection /\ running \subseteq ModelTurn

(* Model turns run on connections. *)
LEMMA WorkStep ==
    ASSUME TypeOK, TypeWork, Registered, [Next]_vars
    PROVE  TypeWork'
<1>1. CASE SelectClose \/ Reconnect \/ Close
    <2>1. rpc' = None /\ open' \subseteq open /\ running' \subseteq running /\ activeTurn' = activeTurn
        BY <1>1 DEF SelectClose, Reconnect, Close, CloseConnection
    <2> QED
        BY <2>1 DEF TypeWork
<1>2. CASE Selecting \/ SelectEnd \/ Abort \/ Unbind \/ Unregister
    <2>1. rpc' = rpc /\ open' = open /\ running' \subseteq running /\ activeTurn' \in {activeTurn, None}
        BY <1>2 DEF Selecting, SelectEnd, Abort, Unbind, Unregister, codex,
                work
    <2> QED
        BY <2>1 DEF TypeWork
<1>3. CASE TakeProcess \/ Prepare \/ Attach \/ Announce \/ CheckClosing \/ Bind
         \/ LeaveLoop \/ CreateTransport \/ StopSteering \/ Detach \/ Forget
         \/ Release
    <2>1. UNCHANGED <<activeTurn, rpc, open, running>>
        BY <1>3 DEF TakeProcess, Prepare, Attach, Announce, CheckClosing,
                Bind, LeaveLoop, CreateTransport, StopSteering, Detach,
                Forget, Release, codex, work
    <2> QED
        BY <2>1 DEF TypeWork
<1>4. CASE Register
    BY <1>4 DEF Register, work, TypeWork
<1>5. CASE Select
    <2>1. turn \in Turns
        BY <1>5 DEF Select, Registered
    <2>2. Connected("select") \in Connection
        BY <2>1, ConnectedType
    <2>3. [turn |-> turn, phase |-> "select", conn |-> Connected("select")] \in ModelTurn
        BY <2>1, <2>2 DEF ModelTurn
    <2> QED
        BY <1>5, <2>2, <2>3 DEF Select, Connect, TypeWork
<1>6. CASE ConnectMain \/ Launch
    <2>1. Connected("chat") \in Connection /\ Connected("agent") \in Connection
        BY <1>6, ConnectedType DEF ConnectMain, Launch, Registered
    <2> QED
        BY <1>6, <2>1 DEF ConnectMain, Launch, Connect, work, TypeWork
<1>7. CASE Start \/ Spawn
    <2>1. turn \in Turns
        BY <1>7 DEF Start, Spawn, Registered
    <2>2. rpc \in open \/ ~Codex(job.kind) => MainTurn \in ModelTurn
        BY <2>1, MainTurnType DEF TypeOK
    <2>3. Start => Codex(job.kind)
        BY DEF Start
    <2>4. Spawn => ~Codex(job.kind)
        BY DEF Spawn
    <2>5. running' = running \/ (running' = running \cup {MainTurn} /\ (rpc \in open \/ ~Codex(job.kind)))
        BY <1>7, <2>4 DEF Start, Spawn
    <2>6. UNCHANGED <<activeTurn, rpc, open>>
        BY <1>7 DEF Start, Spawn, codex
    <2> QED
        BY <2>2, <2>5, <2>6 DEF TypeWork
<1>8. CASE ReaderStep
    BY <1>8 DEF ReaderStep, UseTransport, UseSteering, Interrupt, Test, Unpack,
        Use, EofClaude, EofClosing, EofApi, EofSteering, EofProvider, Finish,
        CloseConnection, codex, work, TypeWork
<1>9. CASE SteerStep \/ ClientStep
    BY <1>9, SteerFrame, ClientFrame DEF codex, work, TypeWork
<1>10. CASE ProviderStep
    BY <1>10 DEF ProviderStep, Answer, WorkerReady, ConnectionDies, codex, work,
        TypeWork
<1>11. CASE UNCHANGED vars
    BY <1>11 DEF vars, codex, work, TypeWork
<1> QED
    BY <1>1, <1>2, <1>3, <1>4, <1>5, <1>6, <1>7, <1>8, <1>9, <1>10, <1>11 DEF Next, Terminated, TurnStep

(* What turn/start returned, and what is announced with it. *)
LEMMA MainId == IdOf(MainTurn) = [turn |-> turn, phase |-> "main"]
BY DEF IdOf, MainTurn

LEMMA TargetType ==
    ASSUME NEW t \in Turns, NEW conn \in Connection \cup {None}
    PROVE  [token |-> t, id |-> [turn |-> t, phase |-> "main"], rpc |-> conn] \in Target
BY DEF Target

(* Targets and tokens. *)
LEMMA UpdatesStep ==
    ASSUME TypeOK, Registered, [Next]_vars
    PROVE  TypeUpdates'
<1>1. CASE TakeProcess \/ Prepare \/ Attach \/ Announce \/ CheckClosing \/ Select
         \/ Selecting \/ SelectEnd \/ SelectClose \/ ConnectMain \/ Reconnect
         \/ Launch \/ Start \/ Register \/ LeaveLoop \/ Abort \/ Unregister
         \/ Close \/ CreateTransport \/ Spawn \/ Forget \/ Release
    BY <1>1 DEF TakeProcess, Prepare, Attach, Announce, CheckClosing, Select,
        Selecting, SelectEnd, SelectClose, ConnectMain, Reconnect, Launch,
        Start, Register, LeaveLoop, Abort, Unregister, Close, CreateTransport,
        Spawn, Forget, Release, updates, work, TypeOK, TypeUpdates
<1>2. CASE Unbind \/ Detach \/ StopSteering
    BY <1>2 DEF Unbind, Detach, StopSteering, CloseChannel,
        updates, work, Registered, NoTurn, TypeOK, TypeUpdates
<1>8. CASE Bind
    <2>1. turn \in Turns /\ rpc \in Connection \cup {None}
        BY <1>8 DEF Bind, Registered, TypeOK
    <2>2. /\ \/ UNCHANGED <<target, tokens>>
             \/ /\ target' = [target EXCEPT ![turn] = [token |-> turn, id |-> IdOf(MainTurn), rpc |-> rpc]]
                /\ tokens' = tokens \cup {turn}
          /\ stopped' = stopped /\ stoppedTransports' = stoppedTransports
        BY <1>8 DEF Bind, OpenChannel, work
    <2>3. [token |-> turn, id |-> IdOf(MainTurn), rpc |-> rpc] \in Target
        BY <2>1, MainId, TargetType
    <2>4. target' \in [Turns -> Target \cup {None}]
        BY <2>2, <2>3 DEF TypeOK
    <2> QED
        BY <2>1, <2>2, <2>4 DEF TypeOK, TypeUpdates
<1>3. CASE ReaderStep
    <2>1. /\ steering \in {NoTurn} \cup Turns /\ transport \in {NoTurn} \cup Turns
          /\ UNCHANGED <<target, tokens>>
        BY <1>3, ReaderFrame DEF TypeOK, Turns, NoTurn
    <2>2. stopped' \in {stopped, stopped \cup {steering}} /\ (stopped' # stopped => steering # NoTurn)
        BY <1>3 DEF ReaderStep, UseTransport, UseSteering, Interrupt, Test,
                Unpack, Use, EofClaude, EofClosing, EofApi, EofSteering,
                EofProvider, Finish, StopUpdates, updates
    <2>3. /\ stoppedTransports' \in {stoppedTransports, stoppedTransports \cup {transport}}
          /\ stoppedTransports' # stoppedTransports => transport # NoTurn
        BY <1>3 DEF ReaderStep, UseTransport, UseSteering, Interrupt, Test,
                Unpack, Use, EofClaude, EofClosing, EofApi, EofSteering,
                EofProvider, Finish, work
    <2> QED
        BY <2>1, <2>2, <2>3 DEF TypeOK, TypeUpdates
<1>4. CASE SteerStep \/ ClientStep
    BY <1>4, SteerFrame, ClientFrame DEF updates, work, TypeOK, TypeUpdates
<1>5. CASE WorkerReady
    <2>1. turn \in Turns /\ Worker \in Connection
        BY <1>5 DEF WorkerReady, Registered, Worker, Connection
    <2>2. /\ \/ UNCHANGED <<target, tokens>>
             \/ /\ target' = [target EXCEPT ![turn] = [token |-> turn, id |-> IdOf(MainTurn), rpc |-> Worker]]
                /\ tokens' = tokens \cup {turn}
          /\ stopped' = stopped /\ stoppedTransports' = stoppedTransports
        BY <1>5 DEF WorkerReady, OpenChannel, work
    <2>3. [token |-> turn, id |-> IdOf(MainTurn), rpc |-> Worker] \in Target
        BY <2>1, MainId, TargetType
    <2>4. target' \in [Turns -> Target \cup {None}]
        BY <2>2, <2>3 DEF TypeOK
    <2> QED
        BY <2>1, <2>2, <2>4 DEF TypeOK, TypeUpdates
<1>6. CASE Answer \/ ConnectionDies
    BY <1>6 DEF Answer, ConnectionDies, updates, TypeOK, TypeUpdates
<1>7. CASE UNCHANGED vars
    BY <1>7 DEF vars, updates, work, TypeOK, TypeUpdates
<1> QED
    BY <1>1, <1>2, <1>3, <1>4, <1>5, <1>6, <1>7, <1>8 DEF Next, Terminated, TurnStep, ProviderStep

(* The reader moves, forgets the request it was at, or notes a phase. *)
LEMMA ReaderMoves ==
    ASSUME ReaderStep
    PROVE  \/ \E x \in ReaderPlaces : reader' = [reader EXCEPT !.at = x]
           \/ reader' = [reader EXCEPT !.at = "read", !.of = NoTurn]
           \/ reader' = [reader EXCEPT !.at = "use", !.phase = activeTurn]
BY DEF ReaderStep, UseTransport, UseSteering, Interrupt, Test, Unpack, Use,
    EofClaude, EofClosing, EofApi, EofSteering, EofProvider, Finish, At, Die,
    Done, ReaderPlaces

(* The steering thread goes on with its update, or is done with it. *)
LEMMA SteerMoves ==
    ASSUME TypeOK, SteerStep
    PROVE  /\ steer.at # "idle"
           /\ \/ steer' = NoUpdate
              \/ /\ steer'.turn = steer.turn /\ steer'.message = steer.message
                 /\ steer'.token = steer.token
                 /\ \/ steer' = [steer EXCEPT !.at = "enter"]
                    \/ steer' = [steer EXCEPT !.at = "reading", !.to = target[steer.turn]]
                    \/ steer' = [steer EXCEPT !.at = "submit", !.late = steer.turn \in stops]
<1>1. /\ steer.at # "idle"
      /\ \/ steer' = NoUpdate
         \/ steer' = [steer EXCEPT !.at = "enter"]
         \/ steer' = [steer EXCEPT !.at = "reading", !.to = target[steer.turn]]
         \/ steer' = [steer EXCEPT !.at = "submit", !.late = steer.turn \in stops]
    BY DEF SteerStep, Lookup, Enter, ReadAttachments, Submit, Settle
<1> QED
    BY <1>1 DEF TypeOK

(* Where each of its actions leaves it. *)
LEMMA SteerPlaces ==
    ASSUME TypeOK
    PROVE  /\ Lookup => steer'.at \in {"enter", "idle"}
           /\ Enter => \/ steer'.at = "idle"
                       \/ BoundToTarget /\ steer'.at = "reading"
           /\ ReadAttachments => steer.at = "reading" /\ steer'.at \in {"submit", "idle"}
           /\ Submit => steer'.at = "idle"
<1>1. NoUpdate.at = "idle"
    BY DEF NoUpdate
<1>2. Lookup => steer'.at \in {"enter", "idle"}
    BY <1>1 DEF Lookup, TypeOK
<1>3. Enter => steer'.at = "idle" \/ (BoundToTarget /\ steer'.at = "reading")
    BY <1>1 DEF Enter, Settle, TypeOK
<1>4. ASSUME ReadAttachments PROVE steer.at = "reading" /\ steer'.at \in {"submit", "idle"}
    <2>1. /\ steer.at = "reading"
          /\ \/ steer' = NoUpdate
             \/ steer' = [steer EXCEPT !.at = "submit", !.late = steer.turn \in stops]
        BY <1>4 DEF ReadAttachments, Settle
    <2> QED
        BY <1>1, <2>1 DEF TypeOK
<1>5. Submit => steer'.at = "idle"
    BY <1>1 DEF Submit, Settle
<1> QED
    BY <1>2, <1>3, <1>4, <1>5

(* It writes the receipt of its own update only. *)
LEMMA ReceiptMoves ==
    ASSUME TypeOK, Named, SteerStep
    PROVE  \/ receipts' = receipts
           \/ \E status \in {None, "rejected", "unknown", "accepted"} :
                  receipts' = [receipts EXCEPT ![steer.turn][steer.message] = status]
<1>1. steer.at # "idle" => LostReply \in {None, "rejected", "unknown", "accepted"}
    BY DEF TypeOK, Named, LostReply
<1>2. CASE Lookup \/ Enter
    BY <1>2 DEF Lookup, Enter, Settle, updates
<1>3. CASE ReadAttachments
    BY <1>3 DEF ReadAttachments, Settle, FrozenReceipt
<1>4. CASE Submit
    BY <1>1, <1>4 DEF Submit, Settle
<1> QED
    BY <1>2, <1>3, <1>4 DEF SteerStep

(* It sends its own update only, to a model turn its target reaches. *)
LEMMA SendMoves ==
    ASSUME SteerStep, submitted' # submitted \/ taken' # taken
    PROVE  /\ steer.at = "submit" /\ Reachable
           /\ submitted' = [submitted EXCEPT ![steer.turn][steer.message] = @ + 1]
           /\ \/ taken' = taken
              \/ \E p \in Addressee :
                    taken' = taken \cup {[turn |-> steer.turn, message |-> steer.message,
                                         token |-> steer.token, by |-> p]}
BY DEF SteerStep, Lookup, Enter, ReadAttachments, Submit, history

(* Nobody else sends updates. *)
LEMMA OnlySteeringSends ==
    ASSUME [Next]_vars, submitted' # submitted \/ taken' # taken
    PROVE  SteerStep
<1>1. ~TurnStep /\ ~ReaderStep /\ ~ClientStep /\ ~ProviderStep
    BY TurnFrame, ReaderFrame, ClientFrame, ProviderFrame DEF history
<1>2. ~Terminated /\ ~(UNCHANGED vars)
    BY DEF Terminated, vars, history
<1> QED
    BY <1>1, <1>2 DEF Next

(* The reader is at one message. *)
LEMMA OneMessageStep ==
    ASSUME TypeOK, Registered, OneMessage, [Next]_vars
    PROVE  OneMessage'
<1>1. CASE TakeProcess
    BY <1>1, TurnFrame DEF TurnStep, TakeProcess, OneMessage
<1>2. CASE Prepare \/ Attach \/ Announce \/ CheckClosing \/ Select \/ Selecting
         \/ SelectEnd \/ SelectClose \/ ConnectMain \/ Reconnect \/ Launch
         \/ Start \/ Bind \/ Register \/ LeaveLoop \/ Abort \/ Unbind
         \/ Unregister \/ Close \/ CreateTransport \/ Spawn \/ StopSteering
         \/ Detach \/ Forget \/ Release
    <2>1. UNCHANGED <<turn, queued, reader>>
        BY <1>2 DEF Prepare, Attach, Announce, CheckClosing, Select,
                Selecting, SelectEnd, SelectClose, ConnectMain, Reconnect,
                Launch, Start, Bind, Register, LeaveLoop, Abort, Unbind,
                Unregister, Close, CreateTransport, Spawn, StopSteering,
                Detach, Forget, Release, Goto, Continue, Raise, bridge
    <2> QED
        BY <2>1 DEF OneMessage
<1>3. CASE SteerStep
    BY <1>3, SteerFrame DEF task, bridge, OneMessage
<1>4. CASE ProviderStep
    BY <1>4, ProviderFrame DEF bridge, OneMessage
<1>5. CASE (\E j \in Jobs : ReadProcess(j))
         \/ (\E t \in Turns, m \in Messages, token \in Turns : ReadUpdate(t, m, token))
         \/ Eof
    BY <1>5 DEF ReadProcess, ReadUpdate, Eof, task, bridge, OneMessage, NoTurn,
        EofPlaces, TypeOK
<1>6. CASE ReadCancel
    <2>1. active = turn /\ turn # NoTurn /\ queued = None
        BY <1>6 DEF ReadCancel, Registered, NoTurn, Turns
    <2>2. /\ reader'.of = active /\ reader'.at # "read" /\ reader'.eof = reader.eof
          /\ reader'.at \notin EofPlaces
        BY <1>6 DEF ReadCancel, EofPlaces, TypeOK
    <2>3. ~reader.eof /\ UNCHANGED <<turn, queued>>
        BY <1>6 DEF ReadCancel, OneMessage, task, bridge
    <2> QED
        BY <2>1, <2>2, <2>3 DEF OneMessage
<1>7. CASE ReaderStep
    <2>1. UNCHANGED <<turn, queued>> /\ reader.at # "read"
        BY <1>7, ReaderFrame DEF ReaderStep, UseTransport, UseSteering,
                Interrupt, Test, Unpack, Use, EofClaude, EofClosing, EofApi,
                EofSteering, EofProvider, Finish, task
    <2>2. /\ reader'.eof = reader.eof
          /\ \/ reader'.at # "read" /\ reader'.of = reader.of
             \/ reader'.at = "read" /\ reader'.of = NoTurn /\ ~reader.eof
        BY <1>7 DEF ReaderStep, UseTransport, UseSteering, Interrupt, Test,
                Unpack, Use, EofClaude, EofClosing, EofApi, EofSteering,
                EofProvider, Finish, At, Die, Done, TypeOK
    <2>3. CASE UseTransport \/ UseSteering \/ Test \/ Use
        <3>1. reader'.at \in EofPlaces => reader.eof
            BY <2>3 DEF UseTransport, UseSteering, Test, Use, At, Die, Done, EofPlaces, TypeOK
        <3> QED
            BY <2>1, <2>2, <3>1 DEF OneMessage, NoTurn
    <2>4. CASE Interrupt \/ Unpack \/ Finish
        <3>1. reader'.at \notin EofPlaces
            BY <2>4 DEF Interrupt, Unpack, Finish, At, EofPlaces, TypeOK
        <3> QED
            BY <2>1, <2>2, <3>1 DEF OneMessage, NoTurn
    <2>5. CASE EofClaude \/ EofClosing \/ EofApi \/ EofSteering \/ EofProvider
        <3>1. reader.at \in EofPlaces
            BY <2>5 DEF EofClaude, EofClosing, EofApi, EofSteering, EofProvider, EofPlaces
        <3> QED
            BY <2>1, <2>2, <3>1 DEF OneMessage, NoTurn
    <2> QED
        BY <1>7, <2>3, <2>4, <2>5 DEF ReaderStep
<1>8. CASE UNCHANGED vars
    BY <1>8 DEF vars, task, bridge, OneMessage
<1> QED
    BY <1>1, <1>2, <1>3, <1>4, <1>5, <1>6, <1>7, <1>8 DEF Next, Terminated, TurnStep, ClientStep

(* The reader is at a place, and confirms Stops of turns. *)
LEMMA ReaderTypeStep ==
    ASSUME TypeOK, Registered, OneMessage, [Next]_vars
    PROVE  TypeReader'
<1>1. CASE TurnStep \/ SteerStep \/ ProviderStep
    BY <1>1, TurnFrame, SteerFrame, ProviderFrame DEF TypeOK, TypeReader
<1>2. CASE (\E j \in Jobs : ReadProcess(j))
         \/ (\E t \in Turns, m \in Messages, token \in Turns : ReadUpdate(t, m, token))
         \/ Eof \/ ReadCancel
    BY <1>2 DEF ReadProcess, ReadUpdate, Eof, ReadCancel, history, Registered,
        NoTurn, ReaderPlaces, TypeOK, TypeReader
<1>3. CASE ReaderStep
    <2>1. reader.of \in 0..MaxTurns /\ (~reader.eof /\ reader.at # "read" => reader.of \in Turns)
        BY DEF TypeOK, OneMessage, NoTurn, Turns
    <2>2. reader' \in [at : ReaderPlaces, of : 0..MaxTurns, eof : BOOLEAN, phase : {None, "select", "main"}]
        <3> DEFINE Type == [at : ReaderPlaces, of : 0..MaxTurns, eof : BOOLEAN,
                            phase : {None, "select", "main"}]
        <3>0. /\ reader \in Type /\ activeTurn \in {None, "select", "main"} /\ NoTurn \in 0..MaxTurns
              /\ {"read", "use"} \subseteq ReaderPlaces
            BY LiveTurnAssumption DEF TypeOK, NoTurn, ReaderPlaces
        <3>1. CASE \E x \in ReaderPlaces : reader' = [reader EXCEPT !.at = x]
            BY <3>0, <3>1
        <3>2. CASE reader' = [reader EXCEPT !.at = "read", !.of = NoTurn]
            BY <3>0, <3>2
        <3>3. CASE reader' = [reader EXCEPT !.at = "use", !.phase = activeTurn]
            BY <3>0, <3>3
        <3> QED
            BY <1>3, <3>1, <3>2, <3>3, ReaderMoves
    <2>3. stops' = stops \/ (stops' = stops \cup {reader.of} /\ ~reader.eof /\ reader.at # "read")
        BY <1>3 DEF ReaderStep, UseTransport, UseSteering, Interrupt, Test,
                Unpack, Use, EofClaude, EofClosing, EofApi, EofSteering,
                EofProvider, Finish, At, Die, Done, history
    <2> QED
        BY <2>1, <2>2, <2>3 DEF TypeOK, TypeReader
<1>4. CASE UNCHANGED vars
    BY <1>4 DEF vars, history, TypeOK, TypeReader
<1> QED
    BY <1>1, <1>2, <1>3, <1>4 DEF Next, Terminated, ClientStep

(* An update that is handled has its parts. *)
LEMMA NamedStep ==
    ASSUME TypeOK, Named, [Next]_vars
    PROVE  Named'
<1>1. CASE TurnStep \/ ReaderStep \/ ProviderStep
    BY <1>1, TurnFrame, ReaderFrame, ProviderFrame DEF Named
<1>2. CASE SteerStep
    BY <1>2, SteerMoves DEF NoUpdate, Named
<1>3. CASE (\E j \in Jobs : ReadProcess(j)) \/ ReadCancel \/ Eof
    BY <1>3 DEF ReadProcess, ReadCancel, Eof, Named
<1>4. ASSUME NEW t \in Turns, NEW m \in Messages, NEW token \in Turns, ReadUpdate(t, m, token) PROVE Named'
    BY <1>4 DEF ReadUpdate, Named
<1>5. CASE UNCHANGED vars
    BY <1>5 DEF vars, Named
<1> QED
    BY <1>1, <1>2, <1>3, <1>4, <1>5 DEF Next, Terminated, ClientStep

(* Receipts and history. *)
LEMMA SteerTypeStep ==
    ASSUME TypeOK, Named, [Next]_vars
    PROVE  TypeSteer'
<1>1. CASE TurnStep \/ ReaderStep
    BY <1>1, TurnFrame, ReaderFrame DEF TypeOK, TypeSteer
<1>2. CASE Answer \/ WorkerReady
    BY <1>2 DEF Answer, WorkerReady, OpenChannel, updates, history, TypeOK,
        TypeSteer
<1>3. CASE ConnectionDies
    BY <1>3, LiveTurnAssumption DEF ConnectionDies, updates, TypeOK, TypeSteer
<1>4. CASE (\E j \in Jobs : ReadProcess(j)) \/ ReadCancel \/ Eof
    BY <1>4 DEF ReadProcess, ReadCancel, Eof, updates, history, TypeOK, TypeSteer
<1>5. ASSUME NEW t \in Turns, NEW m \in Messages, NEW token \in Turns, ReadUpdate(t, m, token) PROVE TypeSteer'
    <2>1. /\ steer' = [at |-> "lookup", turn |-> t, message |-> m, token |-> token,
                       to |-> None, late |-> FALSE]
          /\ UNCHANGED <<receipts, submitted, taken, faults>>
        BY <1>5 DEF ReadUpdate, NoUpdate, updates, history
    <2>2. t \in 0..MaxTurns /\ token \in 0..MaxTurns
        BY <1>5, LiveTurnAssumption DEF Turns
    <2> QED
        BY <2>1, <2>2 DEF TypeOK, TypeSteer
<1>6. CASE SteerStep
    <2>1. steer.turn \in Turns /\ steer.message \in Messages /\ steer.token \in Turns
        BY <1>6, SteerMoves DEF Named
    <2>2. receipts' \in [Turns -> [Messages -> {None, "rejected", "unknown", "accepted"}]]
        <3>1. receipts \in [Turns -> [Messages -> {None, "rejected", "unknown", "accepted"}]]
            BY DEF TypeOK
        <3>2. ASSUME NEW status \in {None, "rejected", "unknown", "accepted"},
                     receipts' = [receipts EXCEPT ![steer.turn][steer.message] = status]
              PROVE  receipts' \in [Turns -> [Messages -> {None, "rejected", "unknown", "accepted"}]]
            BY <2>1, <3>1, <3>2
        <3> QED
            BY <1>6, <3>1, <3>2, ReceiptMoves
    <2>3. steer' \in [at : {"idle", "lookup", "enter", "reading", "submit"}, turn : 0..MaxTurns,
                      message : Messages \cup {None}, token : 0..MaxTurns,
                      to : Target \cup {None}, late : BOOLEAN]
        <3>1. CASE steer' = NoUpdate
            BY <3>1, LiveTurnAssumption DEF NoUpdate, NoTurn
        <3>2. target[steer.turn] \in Target \cup {None} /\ (steer.turn \in stops) \in BOOLEAN
            BY <2>1 DEF TypeOK
        <3>3. CASE steer' = [steer EXCEPT !.at = "enter"]
            BY <3>3 DEF TypeOK
        <3>4. CASE steer' = [steer EXCEPT !.at = "reading", !.to = target[steer.turn]]
            BY <3>2, <3>4 DEF TypeOK
        <3>5. CASE steer' = [steer EXCEPT !.at = "submit", !.late = steer.turn \in stops]
            BY <3>2, <3>5 DEF TypeOK
        <3> QED
            BY <1>6, <3>1, <3>3, <3>4, <3>5, SteerMoves
    <2>4. submitted' \in [Turns -> [Messages -> Nat]]
        <3>1. CASE submitted' = submitted
            BY <3>1 DEF TypeOK
        <3>2. CASE submitted' = [submitted EXCEPT ![steer.turn][steer.message] = @ + 1]
            BY <2>1, <3>2 DEF TypeOK
        <3> QED
            BY <1>6, <3>1, <3>2, SendMoves
    <2>5. taken' \subseteq [turn : Turns, message : Messages, token : Turns, by : ModelTurn]
        <3>1. Addressee \subseteq ModelTurn
            BY DEF Addressee, TypeOK
        <3> QED
            BY <1>6, <2>1, <3>1, SendMoves DEF TypeOK
    <2>6. faults' \in 0..MaxFaults
        BY <1>6, SteerFrame DEF TypeOK
    <2> QED
        BY <2>2, <2>3, <2>4, <2>5, <2>6 DEF TypeSteer
<1>7. CASE UNCHANGED vars
    BY <1>7 DEF vars, updates, history, TypeOK, TypeSteer
<1> QED
    BY <1>1, <1>2, <1>3, <1>4, <1>5, <1>6, <1>7 DEF Next, Terminated, ClientStep, ProviderStep

(* Together: the types, and what the attributes say of each other. *)
LEMMA SafeStep ==
    ASSUME Safe, [Next]_vars
    PROVE  Safe'
<1>1. TypeOK /\ Registered /\ Named /\ OneMessage
    BY DEF Safe
<1>2. TypeWork
    BY <1>1 DEF TypeOK, TypeWork
<1>3. TypeTask' /\ TypeUpdates' /\ TypeReader' /\ TypeSteer'
    BY <1>1, TaskStep, UpdatesStep, ReaderTypeStep, SteerTypeStep
<1>4. TypeWork' /\ closing' \in BOOLEAN /\ cancelled' \in BOOLEAN
    BY <1>1, <1>2, WorkStep, FlagStep
<1>5. TypeCodex'
    BY <1>4 DEF TypeWork, TypeCodex
<1>6. Registered' /\ Named' /\ OneMessage'
    BY <1>1, RegisteredStep, NamedStep, OneMessageStep
<1>7. (Registered => (TypeOK <=> TypeTask /\ TypeCodex /\ TypeUpdates /\ TypeReader /\ TypeSteer))'
    BY TypeParts, PTL
<1> QED
    BY <1>3, <1>5, <1>6, <1>7 DEF Safe

-----------------------------------------------------------------------------
(* Updates *)

(* A receipt is frozen before its update is sent, and settled by the reply. *)
LEMMA FrozenStep ==
    ASSUME Safe, Frozen, [Next]_vars
    PROVE  Frozen'
<1>1. CASE TurnStep \/ ReaderStep \/ ProviderStep
    BY <1>1, TurnFrame, ReaderFrame, ProviderFrame DEF Frozen, Ledger, Takings
<1>2. CASE (\E j \in Jobs : ReadProcess(j)) \/ ReadCancel \/ Eof
         \/ (\E t \in Turns, m \in Messages, token \in Turns : ReadUpdate(t, m, token))
    <2>1. /\ UNCHANGED <<receipts, submitted, taken>>
          /\ steer' = steer \/ steer'.at = "lookup"
        BY <1>2 DEF ReadProcess, ReadCancel, Eof, ReadUpdate, NoUpdate, updates, history
    <2> QED
        BY <2>1 DEF Frozen, Ledger, Takings
<1>3. CASE Lookup
    BY <1>3 DEF Lookup, NoUpdate, updates, history, Safe, TypeOK, Frozen, Ledger, Takings
<1>4. CASE Enter
    <2>1. steer.turn \in Turns /\ steer.message \in Messages /\ UNCHANGED <<submitted, taken>>
        BY <1>4 DEF Enter, Safe, Named, history
    <2>2. CASE steer' = [steer EXCEPT !.at = "reading", !.to = target[steer.turn]] /\ UNCHANGED receipts
        <3>1. receipts[steer.turn][steer.message] = None
            BY <1>4, <2>2 DEF Enter, Settle, NoUpdate, Safe, TypeOK
        <3> QED
            BY <2>1, <2>2, <3>1 DEF Safe, TypeOK, Frozen, Ledger, Takings
    <2>3. CASE steer' = NoUpdate /\ UNCHANGED receipts
        BY <2>1, <2>3 DEF NoUpdate, Frozen, Ledger, Takings
    <2>4. CASE Settle("rejected") /\ receipts[steer.turn][steer.message] = None
        <3>1. /\ steer'.at = "idle"
              /\ receipts' = [receipts EXCEPT ![steer.turn][steer.message] = "rejected"]
            BY <2>4 DEF Settle, NoUpdate
        <3>2. ASSUME NEW t \in Turns, NEW m \in Messages PROVE Ledger(t, m)'
            BY <2>1, <2>4, <3>1 DEF Safe, TypeOK, Frozen, Ledger, Takings
        <3> QED
            BY <2>1, <3>1, <3>2 DEF Frozen
    <2> QED
        BY <1>4, <2>2, <2>3, <2>4 DEF Enter
<1>5. CASE ReadAttachments
    <2>1. /\ steer.turn \in Turns /\ steer.message \in Messages /\ UNCHANGED <<submitted, taken>>
          /\ receipts[steer.turn][steer.message] = None
        BY <1>5 DEF ReadAttachments, Safe, Named, history, Frozen
    <2>2. \/ /\ steer'.at = "idle"
             /\ receipts' = [receipts EXCEPT ![steer.turn][steer.message] = "rejected"]
          \/ /\ steer' = [steer EXCEPT !.at = "submit", !.late = steer.turn \in stops]
             /\ receipts' = [receipts EXCEPT ![steer.turn][steer.message] = "unknown"]
        BY <1>5 DEF ReadAttachments, Settle, NoUpdate, FrozenReceipt
    <2>3. ASSUME NEW t \in Turns, NEW m \in Messages PROVE Ledger(t, m)'
        BY <2>1, <2>2 DEF Safe, TypeOK, Frozen, Ledger, Takings
    <2>4. steer'.at = "submit" => /\ receipts'[steer'.turn][steer'.message] = "unknown"
                                  /\ submitted'[steer'.turn][steer'.message] = 0
        <3>1. SUFFICES ASSUME steer'.at = "submit"
                       PROVE  /\ receipts'[steer'.turn][steer'.message] = "unknown"
                              /\ submitted'[steer'.turn][steer'.message] = 0
            OBVIOUS
        <3>2. /\ steer'.turn = steer.turn /\ steer'.message = steer.message
              /\ receipts' = [receipts EXCEPT ![steer.turn][steer.message] = "unknown"]
            BY <2>2, <3>1 DEF Safe, TypeOK
        <3>3. submitted[steer.turn][steer.message] = 0
            BY <2>1 DEF Frozen, Ledger
        <3> QED
            BY <2>1, <3>2, <3>3 DEF Safe, TypeOK
    <2>5. steer'.at # "reading"
        BY <2>2 DEF Safe, TypeOK
    <2> QED
        BY <2>3, <2>4, <2>5 DEF Frozen
<1>6. CASE Submit
    <2>1. /\ steer.turn \in Turns /\ steer.message \in Messages
          /\ receipts[steer.turn][steer.message] = "unknown"
          /\ submitted[steer.turn][steer.message] = 0
          /\ Takings(steer.turn, steer.message) = {}
        BY <1>6 DEF Submit, Safe, Named, Frozen, Ledger
    <2>2. steer'.at = "idle"
        BY <1>6 DEF Submit, Settle, NoUpdate
    <2>3. CASE /\ UNCHANGED <<submitted, taken>>
               /\ \E status \in {"rejected", "unknown"} :
                     receipts' = [receipts EXCEPT ![steer.turn][steer.message] = status]
        <3>1. ASSUME NEW t \in Turns, NEW m \in Messages PROVE Ledger(t, m)'
            BY <2>1, <2>3 DEF Safe, TypeOK, Frozen, Ledger, Takings
        <3> QED
            BY <2>2, <2>3, <3>1 DEF Frozen
    <2>4. CASE /\ submitted' = [submitted EXCEPT ![steer.turn][steer.message] = @ + 1]
               /\ taken' = taken
               /\ \E status \in {"rejected", "unknown"} :
                     receipts' = [receipts EXCEPT ![steer.turn][steer.message] = status]
        <3>1. ASSUME NEW t \in Turns, NEW m \in Messages, t # steer.turn \/ m # steer.message
              PROVE  Ledger(t, m)'
            <4>1. submitted'[t][m] = submitted[t][m] /\ receipts'[t][m] = receipts[t][m]
                BY <2>1, <2>4, <3>1 DEF Safe, TypeOK
            <4> QED
                BY <2>4, <4>1 DEF Frozen, Ledger, Takings
        <3>2. ASSUME NEW t \in Turns, NEW m \in Messages, t = steer.turn, m = steer.message
              PROVE  Ledger(t, m)'
            <4>1. /\ submitted'[t][m] = 1
                  /\ receipts'[t][m] \in {"rejected", "unknown"}
                BY <2>1, <2>4, <3>2 DEF Safe, TypeOK
            <4>2. Takings(t, m)' = {}
                BY <2>1, <2>4, <3>2 DEF Takings
            <4> QED
                BY <4>1, <4>2, LiveTurnAssumption DEF Ledger
        <3> QED
            BY <2>2, <2>4, <3>1, <3>2 DEF Frozen
    <2>5. ASSUME NEW p \in Addressee,
                 submitted' = [submitted EXCEPT ![steer.turn][steer.message] = @ + 1],
                 taken' = taken \cup {[turn |-> steer.turn, message |-> steer.message,
                                       token |-> steer.token, by |-> p]},
                 \E status \in {"accepted", "unknown"} :
                     receipts' = [receipts EXCEPT ![steer.turn][steer.message] = status]
          PROVE  Frozen'
        <3>1. ASSUME NEW t \in Turns, NEW m \in Messages, t # steer.turn \/ m # steer.message
              PROVE  Ledger(t, m)'
            <4> DEFINE new == [turn |-> steer.turn, message |-> steer.message,
                               token |-> steer.token, by |-> p]
            <4>2. ~(new.turn = t /\ new.message = m) /\ taken' = taken \cup {new}
                BY <2>5, <3>1
            <4>3. Takings(t, m)' = Takings(t, m)
                BY <4>2 DEF Takings
            <4>4. submitted'[t][m] = submitted[t][m] /\ receipts'[t][m] = receipts[t][m]
                BY <2>1, <2>5, <3>1 DEF Safe, TypeOK
            <4> QED
                BY <4>3, <4>4 DEF Frozen, Ledger
        <3>2. ASSUME NEW t \in Turns, NEW m \in Messages, t = steer.turn, m = steer.message
              PROVE  Ledger(t, m)'
            <4> DEFINE new == [turn |-> steer.turn, message |-> steer.message,
                               token |-> steer.token, by |-> p]
            <4>3. new \in taken' /\ new.turn = t /\ new.message = m
                BY <2>5, <3>2
            <4>1. Takings(t, m)' # {}
                BY <4>3 DEF Takings
            <4>2. /\ submitted'[t][m] = 1
                  /\ receipts'[t][m] \in {"accepted", "unknown"}
                BY <2>1, <2>5, <3>2 DEF Safe, TypeOK
            <4> QED
                BY <4>1, <4>2, LiveTurnAssumption DEF Ledger
        <3> QED
            BY <2>2, <3>1, <3>2 DEF Frozen
    <2> QED
        BY <1>6, <2>1, <2>3, <2>4, <2>5 DEF Submit, Settle, LostReply
<1>7. CASE UNCHANGED vars
    BY <1>7 DEF vars, updates, history, Frozen, Ledger, Takings
<1> QED
    BY <1>1, <1>2, <1>3, <1>4, <1>5, <1>6, <1>7 DEF Next, Terminated, SteerStep, ClientStep

-----------------------------------------------------------------------------
(* Connections *)

(* A Full Mac process is opened by its turn, and closed before it ends. *)
LEMMA OwnProcessStep ==
    ASSUME Safe, OwnProcess, [Next]_vars
    PROVE  OwnProcess'
<1>1. CASE Start \/ Bind \/ Register \/ LeaveLoop \/ Abort \/ Unbind
         \/ Unregister
    <2>1. UNCHANGED <<rpc, open, job>> /\ pc \in AgentPlaces
        BY <1>1 DEF Start, Bind, Register, LeaveLoop, Abort, Unbind,
                Unregister, Goto, Continue, Raise, codex, AgentPlaces
    <2>2. job.kind = "agent" => pc' \in AgentPlaces
        BY <1>1 DEF Start, Bind, Register, LeaveLoop, Abort, Unbind,
                Unregister, Goto, Continue, Raise, CleanupOf, Codex,
                AgentPlaces
    <2>3. pc' \notin {"reconnect", "launch"}
        BY <1>1 DEF Start, Bind, Register, LeaveLoop, Abort, Unbind,
                Unregister, Goto, Continue, Raise, CleanupOf
    <2> QED
        BY <2>1, <2>2, <2>3 DEF OwnProcess
<1>2. CASE TakeProcess \/ Prepare \/ Attach \/ Announce \/ CheckClosing
         \/ Selecting \/ SelectEnd \/ CreateTransport \/ Spawn \/ StopSteering
         \/ Detach \/ Forget \/ Release
    <2>1. UNCHANGED <<rpc, open>> /\ pc' \notin {"reconnect", "launch"}
        BY <1>2 DEF TakeProcess, Prepare, Attach, Announce, CheckClosing,
                Selecting, SelectEnd, CreateTransport, Spawn, StopSteering,
                Detach, Forget, Release, Goto, Continue, Raise, task, codex
    <2>2. Spawn => ~(job.kind = "agent")
        BY DEF Spawn, Codex
    <2>3. pc \in AgentPlaces => Spawn
        BY <1>2 DEF TakeProcess, Prepare, Attach, Announce, CheckClosing,
                Selecting, SelectEnd, CreateTransport, Spawn, StopSteering,
                Detach, Forget, Release, AgentPlaces
    <2> QED
        BY <1>2, <2>1, <2>2, <2>3 DEF OwnProcess, AgentPlaces
<1>3. CASE SelectClose \/ Reconnect \/ Close
    <2>1. rpc' = None /\ open' = open \ {rpc} /\ job' = job
        BY <1>3 DEF SelectClose, Reconnect, Close, CloseConnection, Goto, Continue
    <2>2. /\ pc' = "reconnect" => FALSE
          /\ pc' = "launch" => job.kind = "agent"
        BY <1>3 DEF SelectClose, Reconnect, Close, Goto, Continue, OwnProcess
    <2> QED
        BY <2>1, <2>2 DEF OwnProcess
<1>4. CASE Select
    <2>1. pc \notin AgentPlaces /\ pc' \notin {"reconnect", "launch"}
        BY <1>4 DEF Select, Continue, Raise, Goto, AgentPlaces
    <2>2. open' \subseteq open \cup {[turn |-> turn, use |-> "select"]}
        BY <1>4 DEF Select, Connect, Connected
    <2> QED
        BY <2>1, <2>2 DEF OwnProcess
<1>5. CASE ConnectMain
    <2>1. pc \notin AgentPlaces /\ pc' # "launch" /\ job' = job
        BY <1>5 DEF ConnectMain, Continue, Raise, Goto, CleanupOf, AgentPlaces
    <2>2. pc' = "reconnect" => job.kind = "agent"
        BY <1>5 DEF ConnectMain, Continue, Raise, Goto, CleanupOf
    <2>3. open' \subseteq open \cup {[turn |-> turn, use |-> "chat"]}
        BY <1>5 DEF ConnectMain, Connect, Connected
    <2> QED
        BY <2>1, <2>2, <2>3 DEF OwnProcess
<1>6. CASE Launch
    <2>1. /\ pc \notin AgentPlaces /\ job.kind = "agent" /\ job' = job /\ rpc = None
          /\ pc' \in {"start", "close"}
        BY <1>6 DEF Launch, Continue, Raise, Goto, CleanupOf, AgentPlaces, OwnProcess
    <2>2. rpc \notin open
        BY <2>1, LiveTurnAssumption DEF Safe, TypeOK
    <2>3. \/ UNCHANGED <<rpc, open>>
          \/ rpc' = [turn |-> turn, use |-> "agent"] /\ open' = open \cup {rpc'}
        BY <1>6, <2>2 DEF Launch, Connect, Connected
    <2> QED
        BY <2>1, <2>3 DEF OwnProcess, AgentPlaces
<1>7. CASE ReaderStep
    <2>1. UNCHANGED <<pc, job>>
        BY <1>7, ReaderFrame DEF task
    <2>2. UNCHANGED <<rpc, open>> \/ (rpc' = None /\ open' = open \ {rpc} /\ pc = "idle")
        BY <1>7 DEF ReaderStep, UseTransport, UseSteering, Interrupt, Test,
                Unpack, Use, EofClaude, EofClosing, EofApi, EofSteering,
                EofProvider, Finish, CloseConnection, codex
    <2> QED
        BY <2>1, <2>2 DEF OwnProcess
<1>8. CASE SteerStep \/ ClientStep
    BY <1>8, SteerFrame, ClientFrame DEF codex, task, OwnProcess
<1>9. CASE Answer
    BY <1>9 DEF Answer, Goto, Continue, Raise, codex, OwnProcess, AgentPlaces
<1>10. CASE WorkerReady \/ ConnectionDies
    BY <1>10 DEF WorkerReady, ConnectionDies, task, codex, OwnProcess
<1>11. CASE UNCHANGED vars
    BY <1>11 DEF vars, task, codex, OwnProcess, AgentPlaces
<1> QED
    BY <1>1, <1>2, <1>3, <1>4, <1>5, <1>6, <1>7, <1>8, <1>9, <1>10, <1>11 DEF Next, Terminated, TurnStep, ProviderStep

-----------------------------------------------------------------------------
(* End of file *)

(* A turn announced before the flag is interrupted, a later one sees it. *)
LEMMA EndedStep ==
    ASSUME Safe, Ended, [Next]_vars
    PROVE  Ended'
<1>1. CASE TakeProcess
    <2>1. /\ UNCHANGED <<closing, cancelled, reader>> /\ queued # None /\ pc = "idle"
          /\ \/ UNCHANGED <<turn, job, pc>> /\ closing
             \/ pc' = "prepare"
        BY <1>1, TurnFrame DEF TakeProcess, TurnStep, task, codex
    <2> QED
        BY <2>1 DEF Ended, Working
<1>2. CASE Prepare \/ Attach \/ Announce \/ CheckClosing \/ Select \/ Selecting
         \/ SelectEnd \/ SelectClose \/ ConnectMain \/ Reconnect \/ Launch
         \/ Start \/ Bind \/ Register \/ LeaveLoop \/ Abort \/ Unbind
         \/ Unregister \/ Close \/ CreateTransport \/ Spawn \/ StopSteering
         \/ Detach \/ Forget \/ Release
    <2>1. UNCHANGED <<turn, job, queued, closing, reader>>
        BY <1>2, TurnFrame DEF TurnStep, Prepare, Attach, Announce,
                CheckClosing, Select, Selecting, SelectEnd, SelectClose,
                ConnectMain, Reconnect, Launch, Start, Bind, Register,
                LeaveLoop, Abort, Unbind, Unregister, Close, CreateTransport,
                Spawn, StopSteering, Detach, Forget, Release, Goto, Continue,
                Raise, bridge
    <2>2. pc' \in Working /\ Codex(job.kind) /\ (pc \in Working => cancelled) /\ closing => cancelled'
        <3>1. CASE CheckClosing
            BY <3>1 DEF CheckClosing, Disconnected, Continue, Raise, Goto, Working, codex
        <3>2. CASE Prepare \/ Attach \/ Announce \/ CreateTransport \/ Spawn
            BY <3>2 DEF Safe, Registered, Prepare, Attach, Announce, CreateTransport, Spawn, Continue,
                        Raise, Goto, Working
        <3>3. CASE ~(CheckClosing \/ Prepare \/ Attach \/ Announce \/ CreateTransport \/ Spawn)
            <4>1. pc' \in Working => pc \in Working
                BY <1>2, <3>3 DEF Select, Selecting, SelectEnd, SelectClose,
                        ConnectMain, Reconnect, Launch, Start, Bind, Register,
                        LeaveLoop, Abort, Unbind, Unregister, Close,
                        StopSteering, Detach, Forget, Release, Goto, Continue,
                        Raise, CleanupOf, Working
            <4>2. cancelled => cancelled'
                BY <1>2, <3>3 DEF Select, Selecting, SelectEnd, SelectClose,
                        ConnectMain, Reconnect, Launch, Start, Bind, Register,
                        LeaveLoop, Abort, Unbind, Unregister, Close,
                        StopSteering, Detach, Forget, Release, codex
            <4> QED
                BY <4>1, <4>2
        <3> QED
            BY <3>1, <3>2, <3>3
    <2> QED
        BY <2>1, <2>2 DEF Ended
<1>3. CASE SteerStep
    BY <1>3, SteerFrame DEF task, bridge, codex, Ended
<1>4. CASE Answer \/ WorkerReady \/ ConnectionDies
    <2>1. /\ UNCHANGED <<turn, job, queued, closing, cancelled, reader>>
          /\ pc' \in Working => pc \in Working
        BY <1>4, ProviderFrame DEF ProviderStep, Answer, WorkerReady,
                ConnectionDies, Goto, Continue, Raise, task, bridge, Working
    <2> QED
        BY <2>1 DEF Ended
<1>5. CASE (\E j \in Jobs : ReadProcess(j))
         \/ (\E t \in Turns, m \in Messages, token \in Turns : ReadUpdate(t, m, token))
         \/ ReadCancel \/ Eof
    <2>1. reader.at = "read" /\ ~reader.eof
        BY <1>5 DEF ReadProcess, ReadUpdate, ReadCancel, Eof, Safe, OneMessage
    <2>2. reader' = reader \/ reader'.at = "eofClaude" \/ (reader'.at # "drain" /\ ~reader'.eof /\ reader'.at # "read")
        BY <1>5, <2>1 DEF ReadProcess, ReadUpdate, ReadCancel, Eof, Safe, TypeOK
    <2>3. reader'.at \notin {"eofApi", "eofSteering", "eofProvider", "drain"}
        BY <1>5, <2>1 DEF ReadProcess, ReadUpdate, ReadCancel, Eof, Safe, TypeOK
    <2> QED
        BY <2>1, <2>2, <2>3 DEF Ended
<1>6. CASE UseSteering
    <2>1. UNCHANGED <<turn, job, queued, pc>> /\ (closing => closing') /\ (cancelled => cancelled')
        BY <1>6, ReaderFrame DEF ReaderStep, UseSteering, task, bridge, codex
    <2> QED
        BY <1>6, <2>1 DEF UseSteering, At, Die, Done, Safe, TypeOK,
                OneMessage, Ended, Working, NoTurn
<1>7. CASE Interrupt
    <2>1. UNCHANGED <<turn, job, queued, pc>> /\ (closing => closing') /\ (cancelled => cancelled')
        BY <1>7, ReaderFrame DEF ReaderStep, Interrupt, task, bridge, codex
    <2> QED
        BY <1>7, <2>1 DEF Interrupt, At, Safe, TypeOK, OneMessage, Ended,
                Working, NoTurn
<1>8. CASE Test
    <2>1. UNCHANGED <<turn, job, queued, pc>> /\ (closing => closing') /\ (cancelled => cancelled')
        BY <1>8, ReaderFrame DEF ReaderStep, Test, task, bridge, codex
    <2> QED
        BY <1>8, <2>1 DEF Test, At, Die, Done, Safe, TypeOK, Registered,
                OneMessage, Ended, Working, NoTurn
<1>9. CASE Unpack
    <2>1. UNCHANGED <<turn, job, queued, pc>> /\ (closing => closing') /\ (cancelled => cancelled')
        BY <1>9, ReaderFrame DEF ReaderStep, Unpack, task, bridge, codex
    <2> QED
        BY <1>9, <2>1 DEF Unpack, At, Safe, TypeOK, Registered, OneMessage,
                Ended, Working, NoTurn
<1>10. CASE Use
    <2>1. UNCHANGED <<turn, job, queued, pc>> /\ (closing => closing') /\ (cancelled => cancelled')
        BY <1>10, ReaderFrame DEF ReaderStep, Use, task, bridge, codex
    <2> QED
        BY <1>10, <2>1 DEF Use, At, Die, Done, Safe, TypeOK, Registered,
                OneMessage, Ended, Working, NoTurn
<1>11. CASE EofClaude
    <2>1. UNCHANGED <<turn, job, queued, pc>> /\ (closing => closing') /\ (cancelled => cancelled')
        BY <1>11, ReaderFrame DEF ReaderStep, EofClaude, task, bridge, codex
    <2> QED
        BY <1>11, <2>1 DEF EofClaude, At, Safe, TypeOK, Registered,
                OneMessage, Ended, Working, NoTurn
<1>12. CASE EofClosing
    <2>1. UNCHANGED <<turn, job, queued, pc>> /\ (closing => closing') /\ (cancelled => cancelled')
        BY <1>12, ReaderFrame DEF ReaderStep, EofClosing, task, bridge, codex
    <2> QED
        BY <1>12, <2>1 DEF EofClosing, At, Safe, TypeOK, OneMessage, Ended,
                Working, NoTurn
<1>13. CASE EofApi
    <2>1. UNCHANGED <<turn, job, queued, pc>> /\ (closing => closing') /\ (cancelled => cancelled')
        BY <1>13, ReaderFrame DEF ReaderStep, EofApi, task, bridge, codex
    <2> QED
        BY <1>13, <2>1 DEF EofApi, At, Safe, TypeOK, OneMessage, Ended,
                Working, NoTurn
<1>14. CASE EofSteering
    <2>1. UNCHANGED <<turn, job, queued, pc>> /\ (closing => closing') /\ (cancelled => cancelled')
        BY <1>14, ReaderFrame DEF ReaderStep, EofSteering, task, bridge, codex
    <2> QED
        BY <1>14, <2>1 DEF EofSteering, At, Safe, TypeOK, Registered,
                OneMessage, Ended, Working, NoTurn
<1>15. CASE UseTransport
    <2>1. UNCHANGED <<turn, job, queued, pc, closing, cancelled>>
        BY <1>15, ReaderFrame DEF ReaderStep, UseTransport, task, bridge, codex
    <2>2. /\ reader'.at \in {"dead", "eofClosing", "eofSteering", "read"}
          /\ reader'.at = "eofSteering" => reader.eof /\ job.kind # "claude"
        BY <1>15 DEF UseTransport, At, Die, Done, Safe, TypeOK
    <2>3. reader.eof /\ job.kind # "claude" => closing
        BY <1>15 DEF UseTransport, Ended
    <2> QED
        BY <2>1, <2>2, <2>3 DEF Ended
<1>16. CASE EofProvider
    <2>1. UNCHANGED <<turn, job, queued, pc, closing, cancelled>>
        BY <1>16 DEF EofProvider, task, bridge, codex
    <2>2. pc \in Working => active # NoTurn
        BY DEF Working, Safe, Registered, NoTurn, Turns
    <2>3. /\ closing /\ reader'.eof = reader.eof
          /\ reader'.at \in {"interrupt", "drain"}
          /\ reader'.at = "drain" => active = NoTurn \/ ~Codex(job.kind)
        BY <1>16 DEF EofProvider, At, Safe, TypeOK, Ended
    <2> QED
        BY <2>1, <2>2, <2>3 DEF Ended
<1>17. CASE Finish
    <2>1. reader'.at \in {"closed", "crashed"}
        BY <1>17 DEF Finish, At, Safe, TypeOK
    <2> QED
        BY <2>1 DEF Ended
<1>18. CASE UNCHANGED vars
    BY <1>18 DEF vars, task, bridge, codex, Ended, Working
<1> QED
    BY <1>1, <1>2, <1>3, <1>4, <1>5, <1>6, <1>7, <1>8, <1>9, <1>10, <1>11,
        <1>12, <1>13, <1>14, <1>15, <1>16, <1>17, <1>18 DEF Next, Terminated, TurnStep, ReaderStep, ClientStep, ProviderStep

-----------------------------------------------------------------------------
(* Targets *)

(* Turns on a connection of a process are not those of a worker. *)
LEMMA LinesStep ==
    ASSUME Safe, Lines, [Next]_vars
    PROVE  Lines'
<1>1. CASE SelectClose \/ Reconnect \/ Close
    <2>1. rpc' = None /\ running' \subseteq running /\ pc' # "bind"
        BY <1>1 DEF SelectClose, Reconnect, Close, CloseConnection, Continue, Goto
    <2> QED
        BY <2>1 DEF Lines
<1>2. CASE TakeProcess \/ Prepare \/ Attach \/ Announce \/ CheckClosing \/ Bind \/ Register
         \/ LeaveLoop \/ CreateTransport \/ StopSteering \/ Detach \/ Forget \/ Release
    BY <1>2 DEF TakeProcess, Prepare, Attach, Announce, CheckClosing, Bind, Register, LeaveLoop,
        CreateTransport, StopSteering, Detach, Forget, Release, Continue, Raise, Goto, task, codex,
        work, Lines
<1>3. CASE Selecting \/ SelectEnd \/ Abort \/ Unbind \/ Unregister
    <2>1. rpc' = rpc /\ running' \subseteq running /\ pc' # "bind"
        BY <1>3 DEF Selecting, SelectEnd, Abort, Unbind, Unregister, CleanupOf, Continue, Raise, Goto,
                codex, work
    <2> QED
        BY <2>1 DEF Lines
<1>4. CASE Select
    <2>1. /\ \/ running' = running
             \/ running' = running \cup {[turn |-> turn, phase |-> "select", conn |-> rpc']}
          /\ running' # running => rpc' = Connected("select")
          /\ rpc' \in {rpc, Connected("select")} /\ pc' # "bind"
        BY <1>4 DEF Select, Connect, Continue, Raise, Goto
    <2>2. Connected("select").use # "worker"
        BY LiveTurnAssumption DEF Connected, Lines, Safe, TypeOK
    <2> QED
        BY <2>1, <2>2 DEF Lines
<1>5. CASE ConnectMain \/ Launch
    <2>1. rpc' \in {rpc, Connected("chat"), Connected("agent")} /\ running' = running /\ pc' # "bind"
        BY <1>5 DEF ConnectMain, Launch, Connect, CleanupOf, Continue, Raise, Goto, work
    <2>2. Connected("chat").use # "worker" /\ Connected("agent").use # "worker"
        BY LiveTurnAssumption DEF Connected, Lines, Safe, TypeOK
    <2> QED
        BY <2>1, <2>2 DEF Lines
<1>6. CASE Start
    <2>1. Codex(job.kind) /\ rpc' = rpc
        BY <1>6 DEF Start
    <2>2. MainTurn.conn = rpc
        BY <2>1 DEF MainTurn, Codex
    <2>3. /\ running' \subseteq running \cup {MainTurn}
          /\ pc' = "bind" => rpc \in open
        BY <1>6 DEF Start, CleanupOf, Continue, Raise, Goto
    <2>4. rpc \in open => rpc # None
        BY LiveTurnAssumption DEF Safe, TypeOK
    <2> QED
        BY <2>1, <2>2, <2>3, <2>4 DEF Lines
<1>7. CASE Spawn
    <2>1. rpc' = rpc /\ running' \subseteq running \cup {MainTurn} /\ pc' # "bind" /\ ~Codex(job.kind)
        BY <1>7 DEF Spawn, Continue, Raise, Goto, codex
    <2>2. MainTurn.turn = turn /\ MainTurn.phase = "main" /\ Worker.turn = turn
        BY DEF MainTurn, Worker
    <2>3. job.kind \in {"claude", "api"}
        BY <1>7, <2>1 DEF Spawn, Safe, Registered, Turns, Job, Kinds, Codex
    <2>4. MainTurn.conn \in {Worker, None}
        BY <2>1, <2>3 DEF MainTurn
    <2> QED
        BY <2>1, <2>2, <2>4 DEF Lines
<1>8. CASE ReaderStep
    <2>1. running' \subseteq running /\ rpc' \in {rpc, None} /\ pc' = pc /\ (pc = "bind" => rpc' = rpc)
        BY <1>8, ReaderFrame DEF ReaderStep, UseTransport, UseSteering, Interrupt, Test, Unpack, Use,
                EofClaude, EofClosing, EofApi, EofSteering, EofProvider, Finish, CloseConnection,
                task, codex, work
    <2> QED
        BY <2>1 DEF Lines
<1>9. CASE SteerStep \/ ClientStep
    BY <1>9, SteerFrame, ClientFrame DEF task, codex, work, Lines
<1>10. CASE ProviderStep
    <2>1. running' \subseteq running /\ rpc' = rpc /\ (pc' = pc \/ pc' # "bind")
        BY <1>10, ProviderFrame DEF ProviderStep, Answer, WorkerReady, ConnectionDies, Continue, Raise,
                Goto, task, work
    <2> QED
        BY <2>1 DEF Lines
<1>11. CASE UNCHANGED vars
    BY <1>11 DEF vars, task, codex, work, Lines
<1> QED
    BY <1>1, <1>2, <1>3, <1>4, <1>5, <1>6, <1>7, <1>8, <1>9, <1>10, <1>11 DEF Next, Terminated, TurnStep

(* A target is bound and withdrawn by its own turn, which waits for an     *)
(* update on its way: set_active takes the lock of send().                 *)
LEMMA ChannelStep ==
    ASSUME Safe, Channel, [Next]_vars
    PROVE  Channel'
<1>1. Lines /\ Lines'
    BY LinesStep DEF Channel
<1>2. ASSUME UNCHANGED <<target, steer, turn, job>>, pc \in Bound => pc' \in Bound
      PROVE  Channel'
    BY <1>1, <1>2 DEF Channel, Announced, Worker
<1>3. ASSUME pc \notin Bound, UNCHANGED <<target, steer>>
      PROVE  Channel'
    <2>1. \A t \in Turns : target[t] = None
        BY <1>3 DEF Channel, Announced
    <2>2. steer.at \notin {"reading", "submit"}
        BY <2>1 DEF Channel, Safe, Named
    <2> QED
        BY <1>1, <1>3, <2>1, <2>2 DEF Channel
<1>4. CASE TakeProcess \/ Prepare \/ Attach \/ Announce \/ CheckClosing \/ Select \/ Selecting
         \/ SelectEnd \/ SelectClose \/ ConnectMain \/ Reconnect \/ Launch \/ Start \/ Unregister
         \/ Close \/ CreateTransport \/ Spawn \/ StopSteering \/ Forget \/ Release
    <2>1. UNCHANGED <<target, steer>> /\ pc \notin Bound
        BY <1>4, TurnFrame DEF TurnStep, TakeProcess, Prepare, Attach, Announce, CheckClosing, Select,
                Selecting, SelectEnd, SelectClose, ConnectMain, Reconnect, Launch, Start, Unregister,
                Close, CreateTransport, Spawn, StopSteering, Forget, Release, updates, Bound
    <2> QED
        BY <1>3, <2>1
<1>5. CASE Register \/ LeaveLoop \/ Abort
    <2>1. UNCHANGED <<target, steer, turn, job>> /\ pc' \in Bound
        BY <1>5, TurnFrame DEF TurnStep, Register, LeaveLoop, Abort, Continue, Raise, Goto, updates, Bound
    <2> QED
        BY <1>2, <2>1
<1>6. ASSUME LockFree(turn)
      PROVE  steer.at \notin {"reading", "submit"}
    <2>1. SUFFICES ASSUME steer.at \in {"reading", "submit"} PROVE FALSE
        OBVIOUS
    <2>2. steer.turn \in Turns /\ target[steer.turn] # None
        BY <2>1 DEF Channel, Safe, Named
    <2>3. steer.turn = turn
        BY <2>2 DEF Channel, Announced
    <2> QED
        BY <1>6, <2>1, <2>3 DEF LockFree
<1>7. CASE Bind
    <2>1. /\ UNCHANGED <<steer, turn, job>> /\ LockFree(turn) /\ pc' \in Bound /\ Codex(job.kind)
          /\ turn \in Turns /\ rpc # None /\ pc \notin Bound
        BY <1>7, TurnFrame DEF TurnStep, Bind, OpenChannel, Continue, Goto, Bound, Safe, Registered, Channel,
                Lines
    <2>2. \/ target' = target
          \/ target' = [target EXCEPT ![turn] = [token |-> turn, id |-> [turn |-> turn, phase |-> "main"],
                                                 rpc |-> rpc]]
        BY <1>7, MainId DEF Bind, OpenChannel
    <2>3. \A t \in Turns : target[t] = None
        BY <2>1 DEF Channel, Announced
    <2>4. ASSUME NEW t \in Turns, target'[t] # None PROVE Announced(t)'
        <3>1. /\ t = turn
              /\ target'[t] = [token |-> turn, id |-> [turn |-> turn, phase |-> "main"], rpc |-> rpc]
            BY <2>1, <2>2, <2>3, <2>4 DEF Safe, TypeOK
        <3>2. rpc.use # "worker"
            BY <2>1 DEF Channel, Lines
        <3>3. job'.kind # "api" /\ Codex(job'.kind)
            BY <2>1 DEF Codex
        <3> QED
            BY <2>1, <3>1, <3>2, <3>3 DEF Announced
    <2> QED
        BY <1>1, <1>6, <2>1, <2>4 DEF Channel
<1>8. CASE Unbind \/ Detach
    <2>1. UNCHANGED <<steer, turn, job>>
        BY <1>8, TurnFrame DEF TurnStep, Unbind, Detach, Continue, Goto
    <2>2. CASE target' = [target EXCEPT ![turn] = None] /\ LockFree(turn)
        <3>1. \A t \in Turns : target'[t] = None
            BY <2>2 DEF Channel, Announced, Safe, TypeOK
        <3> QED
            BY <1>1, <1>6, <2>1, <2>2, <3>1 DEF Channel
    <2>3. CASE target' = target /\ job.kind = "api"
        <3>1. \A t \in Turns : target[t] = None
            BY <2>3 DEF Channel, Announced
        <3>2. steer.at \notin {"reading", "submit"}
            BY <3>1 DEF Channel, Safe, Named
        <3> QED
            BY <1>1, <2>1, <2>3, <3>1, <3>2 DEF Channel
    <2> QED
        BY <1>8, <2>2, <2>3 DEF Unbind, Detach, CloseChannel, updates
<1>9. CASE WorkerReady
    <2>1. /\ UNCHANGED <<pc, steer, turn, job>> /\ LockFree(turn) /\ pc \in Bound
          /\ job.kind = "claude"
        BY <1>9 DEF WorkerReady, OpenChannel, task, Bound
    <2>2. \/ target' = target
          \/ target' = [target EXCEPT ![turn] = [token |-> turn, id |-> [turn |-> turn, phase |-> "main"],
                                                 rpc |-> Worker]]
        BY <1>9, MainId DEF WorkerReady, OpenChannel
    <2>3. ASSUME NEW t \in Turns, target'[t] # None PROVE Announced(t)'
        <3>1. CASE target'[t] = target[t]
            BY <2>1, <2>3, <3>1 DEF Channel, Announced, Worker
        <3>2. CASE /\ t = turn
                   /\ target'[t] = [token |-> turn, id |-> [turn |-> turn, phase |-> "main"], rpc |-> Worker]
            <4>1. ~Codex(job'.kind) /\ job'.kind # "api" /\ Worker' = Worker
                BY <2>1 DEF Codex, Worker
            <4> QED
                BY <2>1, <3>2, <4>1 DEF Announced
        <3> QED
            BY <2>2, <3>1, <3>2 DEF Safe, TypeOK
    <2> QED
        BY <1>1, <1>6, <2>1, <2>3 DEF Channel
<1>10. CASE Answer \/ ConnectionDies
    <2>1. UNCHANGED <<target, steer, turn, job>> /\ (pc \in Bound => pc' \in Bound)
        BY <1>10 DEF Answer, ConnectionDies, Continue, Raise, Goto, task, updates, Bound
    <2> QED
        BY <1>2, <2>1
<1>11. CASE ReaderStep \/ UNCHANGED vars
    <2>1. UNCHANGED <<target, steer, turn, job, pc>>
        BY <1>11, ReaderFrame DEF vars, task, updates
    <2> QED
        BY <1>2, <2>1
<1>12. CASE SteerStep
    <2>1. UNCHANGED <<target, turn, job, pc>>
        BY <1>12, SteerFrame DEF task
    <2>2. \A t \in Turns : target'[t] # None => Announced(t)'
        BY <2>1 DEF Channel, Announced, Worker
    <2>3. steer'.at \in {"reading", "submit"} =>
            /\ steer'.to # None /\ steer'.to = target[steer'.turn]
            /\ steer'.token = steer'.to.token
        <3>1. CASE steer' = NoUpdate \/ steer' = [steer EXCEPT !.at = "enter"]
            BY <3>1 DEF NoUpdate, Safe, TypeOK
        <3>2. CASE steer' = [steer EXCEPT !.at = "reading", !.to = target[steer.turn]]
            <4>1. Enter /\ BoundToTarget
                <5>1. steer'.at = "reading"
                    BY <3>2 DEF Safe, TypeOK
                <5> QED
                    BY <1>12, <5>1, SteerPlaces DEF SteerStep, Safe
            <4> QED
                BY <3>2, <4>1 DEF BoundToTarget, Safe, TypeOK
        <3>3. CASE steer' = [steer EXCEPT !.at = "submit", !.late = steer.turn \in stops]
            <4>1. steer.at = "reading"
                <5>1. steer'.at = "submit"
                    BY <3>3 DEF Safe, TypeOK
                <5> QED
                    BY <1>12, <5>1, SteerPlaces DEF SteerStep, Safe
            <4> QED
                BY <3>3, <4>1 DEF Channel, Safe, TypeOK
        <3> QED
            BY <1>12, <3>1, <3>2, <3>3, SteerMoves DEF Safe
    <2> QED
        BY <1>1, <2>1, <2>2, <2>3 DEF Channel
<1>13. CASE ClientStep
    <2>1. UNCHANGED <<target, turn, job, pc>>
        BY <1>13, ClientFrame DEF task, updates
    <2>2. steer' = steer \/ steer'.at = "lookup"
        BY <1>13 DEF ClientStep, ReadProcess, ReadUpdate, ReadCancel, Eof, NoUpdate
    <2>3. \A t \in Turns : target'[t] # None => Announced(t)'
        BY <2>1 DEF Channel, Announced, Worker
    <2> QED
        BY <1>1, <2>1, <2>2, <2>3 DEF Channel
<1> QED
    BY <1>4, <1>5, <1>7, <1>8, <1>9, <1>10, <1>11, <1>12, <1>13
    DEF Next, Terminated, TurnStep, ProviderStep

-----------------------------------------------------------------------------
(* Stop *)

(* A stopped turn takes no updates, and a Stop is confirmed once it is stopped. *)
LEMMA DeafStep ==
    ASSUME Safe, Deaf, [Next]_vars
    PROVE  Deaf'
<1>1. CASE Prepare \/ Attach \/ Announce \/ CheckClosing \/ Select \/ Selecting
         \/ SelectEnd \/ SelectClose \/ ConnectMain \/ Reconnect \/ Launch
         \/ Start \/ Bind \/ Register \/ LeaveLoop \/ Abort \/ Unregister \/ Close
         \/ CreateTransport \/ Spawn \/ Forget \/ Release
    <2>1. UNCHANGED <<stopped, stops, stoppedTransports, reader, steer>>
        BY <1>1, TurnFrame DEF TurnStep, Prepare, Attach, Announce,
                CheckClosing, Select, Selecting, SelectEnd, SelectClose,
                ConnectMain, Reconnect, Launch, Start, Bind, OpenChannel,
                Register, LeaveLoop, Abort, Unregister, Close,
                CreateTransport, Spawn, Forget, Release, updates
    <2>2. UNCHANGED <<turn, job>>
        BY <1>1 DEF Prepare, Attach, Announce, CheckClosing, Select,
                Selecting, SelectEnd, SelectClose, ConnectMain, Reconnect,
                Launch, Start, Bind, Register, LeaveLoop, Abort, Unregister, Close,
                CreateTransport, Spawn, Forget, Release, Goto, Continue, Raise
    <2>3. /\ pc' \in {"detach", "forget"} => pc \in {"detach", "forget"}
          /\ pc' = "release" => pc \in {"forget", "release"}
        BY <1>1 DEF Prepare, Attach, Announce, CheckClosing, Select,
                Selecting, SelectEnd, SelectClose, ConnectMain, Reconnect,
                Launch, Start, Bind, Register, LeaveLoop, Abort, Unregister, Close,
                CreateTransport, Spawn, Forget, Release, Goto, Continue,
                Raise, CleanupOf
    <2> QED
        BY <2>1, <2>2, <2>3 DEF Deaf
<1>2. CASE TakeProcess
    <2>1. /\ UNCHANGED <<stopped, stops, stoppedTransports, reader, steer>>
          /\ queued # None
        BY <1>2, TurnFrame DEF TurnStep, TakeProcess, updates
    <2>2. CASE UNCHANGED <<turn, job, pc>>
        BY <2>1, <2>2 DEF Deaf
    <2>3. CASE pc' = "prepare" /\ turn' = turn + 1
        <3>1. reader.of = NoTurn
            BY <2>1 DEF Safe, OneMessage
        <3> QED
            BY <2>1, <2>3, <3>1 DEF Deaf, Safe, OneMessage, TypeOK, Turns, NoTurn
    <2> QED
        BY <1>2, <2>2, <2>3 DEF TakeProcess, task
<1>3. CASE Unbind \/ Detach
    <2>1. UNCHANGED <<stopped, stops, stoppedTransports, reader, steer, turn, job>>
        BY <1>3, TurnFrame DEF TurnStep, Unbind, Detach, CloseChannel, updates, Continue, Goto
    <2>2. /\ pc' \in {"detach", "forget"} => pc \in {"detach", "forget"}
          /\ pc' # "release"
        BY <1>3 DEF Unbind, Detach, Continue, Goto
    <2> QED
        BY <2>1, <2>2 DEF Deaf
<1>4. CASE StopSteering
    <2>1. /\ UNCHANGED <<stops, stoppedTransports, reader, steer, turn, job>>
          /\ turn \in Turns /\ steering \in {NoTurn, turn}
          /\ steering = NoTurn => job.kind = "api"
          /\ stopped' = stopped \cup ({steering} \ {NoTurn})
        BY <1>4, TurnFrame DEF TurnStep, StopSteering, Continue, Goto, Safe, Registered, NoTurn, Turns
    <2>2. pc' = IF steering = NoTurn THEN "release" ELSE "detach"
        BY <1>4 DEF StopSteering, Continue, Goto
    <2> QED
        BY <2>1, <2>2 DEF Deaf, NoTurn, Turns
<1>5. CASE UseTransport
    <2>1. /\ UNCHANGED <<pc, turn, job, stopped, steer>>
        BY <1>5, ReaderFrame DEF ReaderStep, UseTransport, task, updates
    <2>2. CASE Die /\ UNCHANGED work
        <3>1. stops' = stops /\ stoppedTransports' = stoppedTransports /\ reader'.at = "dead"
            BY <2>2 DEF Die, At, work, Safe, TypeOK
        <3> QED
            BY <2>1, <3>1 DEF Deaf
    <2>3. CASE /\ transport # NoTurn
               /\ stoppedTransports' = stoppedTransports \cup {transport}
               /\ Done(IF job.kind = "claude" THEN "eofClosing" ELSE "eofSteering")
        <3>1. transport = turn /\ turn \in Turns /\ ~Codex(job.kind)
            BY <2>3 DEF Safe, TypeOK, Registered, Turns, NoTurn
        <3>2. \/ reader.eof /\ stops' = stops
              \/ stops' = stops \cup {turn}
            BY <1>5, <2>3 DEF Done, UseTransport, Safe, OneMessage
        <3>3. reader'.at \in {"eofClosing", "eofSteering", "read"}
            BY <2>3 DEF Done, At, Safe, TypeOK
        <3> QED
            BY <2>1, <2>3, <3>1, <3>2, <3>3 DEF Deaf, Turns
    <2> QED
        BY <1>5, <2>2, <2>3 DEF UseTransport
<1>6. CASE UseSteering
    <2>1. UNCHANGED <<pc, turn, job, steer, stops, stoppedTransports>>
        BY <1>6, ReaderFrame DEF ReaderStep, UseSteering, Die, task, work
    <2>2. /\ reader'.of = reader.of /\ reader'.eof = reader.eof
          /\ \/ reader'.at = "dead" /\ stopped' = stopped
             \/ /\ reader'.at = IF reader.eof THEN "eofProvider" ELSE "interrupt"
                /\ steering # NoTurn /\ stopped' = stopped \cup {steering}
        BY <1>6 DEF UseSteering, Die, At, StopUpdates, Safe, TypeOK
    <2>3. steering # NoTurn => steering = turn /\ turn \in Turns
        BY DEF Safe, TypeOK, Turns, NoTurn
    <2>4. ~reader.eof => reader.of = turn
        BY <1>6 DEF UseSteering, Safe, OneMessage
    <2> QED
        BY <2>1, <2>2, <2>3, <2>4 DEF Deaf, Turns
<1>7. CASE Interrupt \/ Unpack \/ EofClaude \/ EofClosing \/ EofApi
         \/ EofSteering \/ EofProvider
    <2>1. UNCHANGED <<pc, turn, job, stopped, steer, stops, stoppedTransports>>
        BY <1>7, ReaderFrame DEF ReaderStep, Interrupt, Unpack, EofClaude,
                EofClosing, EofApi, EofSteering, EofProvider, task, work,
                updates, history
    <2>2. /\ reader'.eof <=> reader.eof
          /\ ~reader'.eof /\ reader'.at \in {"interrupt", "test", "unpack", "use"}
                => reader.at \in {"interrupt", "unpack"} /\ reader'.of = reader.of
          /\ reader'.at = "useTransport" => reader.eof
        BY <1>7 DEF Interrupt, Unpack, EofClaude, EofClosing, EofApi,
                EofSteering, EofProvider, At, Safe, TypeOK, OneMessage,
                EofPlaces
    <2>3. ~reader.eof /\ reader.at \in {"interrupt", "unpack"} => reader.of \in stopped
        BY DEF Deaf
    <2>4. /\ ~reader'.eof /\ reader'.at \in {"interrupt", "test", "unpack", "use"} => reader'.of \in stopped'
          /\ ~reader'.eof /\ reader'.at = "useTransport" => ~Codex(job.kind)'
        BY <2>1, <2>2, <2>3
    <2> QED
        BY <2>1, <2>4 DEF Deaf
<1>8. CASE Test \/ Use
    <2>1. UNCHANGED <<pc, turn, job, stopped, steer, stoppedTransports>>
        BY <1>8, ReaderFrame DEF ReaderStep, Test, Use, task, work, updates
    <2>2. \/ reader'.at \in {"dead", "drain"} /\ stops' = stops
          \/ reader'.at = "read" /\ ~reader.eof /\ stops' = stops \cup {reader.of}
          \/ /\ reader'.at = "unpack" /\ reader'.of = reader.of /\ reader'.eof = reader.eof
             /\ stops' = stops
        BY <1>8 DEF Test, Use, Die, Done, At, Safe, TypeOK
    <2>3. ~reader.eof => reader.of \in stopped
        BY <1>8 DEF Test, Use, Deaf
    <2> QED
        BY <2>1, <2>2, <2>3 DEF Deaf
<1>9. CASE Finish
    <2>1. /\ UNCHANGED <<pc, turn, job, stopped, steer, stops, stoppedTransports>>
          /\ reader'.at \in {"closed", "crashed"}
        BY <1>9, ReaderFrame DEF ReaderStep, Finish, At, task, work, updates, history, Safe, TypeOK
    <2> QED
        BY <2>1 DEF Deaf
<1>10. CASE Lookup \/ Enter \/ ReadAttachments \/ Submit
    <2>1. UNCHANGED <<pc, turn, job, stopped, stops, stoppedTransports, reader>>
        BY <1>10, SteerFrame DEF SteerStep, task, work
    <2>2. CASE steer'.at # "submit"
        BY <2>1, <2>2 DEF Deaf
    <2>3. CASE steer'.at = "submit"
        <3>1. ReadAttachments
            BY <1>10, <2>3, SteerPlaces DEF Safe
        <3>2. /\ steer.turn \notin stopped
              /\ steer' = [steer EXCEPT !.at = "submit", !.late = steer.turn \in stops]
            BY <2>3, <3>1 DEF ReadAttachments, StillOpen, Settle, NoUpdate
        <3>3. steer'.turn = steer.turn /\ (steer'.late => steer.turn \in stops)
            BY <3>2 DEF Safe, TypeOK
        <3> QED
            BY <2>1, <3>2, <3>3 DEF Deaf
    <2> QED
        BY <2>2, <2>3
<1>11. CASE (\E j \in Jobs : ReadProcess(j)) \/ Eof
    <2>1. /\ UNCHANGED <<pc, turn, job, stopped, steer, stops, stoppedTransports>>
          /\ reader' = reader \/ reader'.at = "eofClaude"
        BY <1>11 DEF ReadProcess, Eof, task, work, updates, history, Safe, TypeOK
    <2> QED
        BY <2>1 DEF Deaf
<1>12. CASE ReadCancel
    <2>1. UNCHANGED <<pc, turn, job, stopped, steer, stops, stoppedTransports>>
        BY <1>12 DEF ReadCancel, task, work, updates, history
    <2>2. /\ reader'.of = active /\ active # NoTurn
          /\ reader'.at = IF ~Codex(job.kind) THEN "useTransport"
                          ELSE IF steering # NoTurn THEN "useSteering" ELSE "interrupt"
        BY <1>12 DEF ReadCancel, Safe, TypeOK
    <2>3. steering = NoTurn /\ Codex(job.kind) => pc = "release" /\ active = turn /\ job.kind # "api"
        BY <2>2 DEF Safe, Registered, NoTurn, Turns, Codex
    <2> QED
        BY <2>1, <2>2, <2>3 DEF Deaf
<1>13. ASSUME NEW t \in Turns, NEW m \in Messages, NEW token \in Turns, ReadUpdate(t, m, token) PROVE Deaf'
    <2>1. /\ UNCHANGED <<pc, turn, job, stopped, reader, stops, stoppedTransports>>
          /\ steer'.at = "lookup"
        BY <1>13 DEF ReadUpdate, NoUpdate, task, work, updates, history
    <2> QED
        BY <2>1 DEF Deaf
<1>14. CASE ProviderStep
    <2>1. /\ UNCHANGED <<turn, job, stopped, steer, stops, stoppedTransports, reader>>
          /\ pc' = pc \/ pc' \in {"unbind", "abort"}
        BY <1>14, ProviderFrame DEF ProviderStep, Answer, WorkerReady, ConnectionDies, Continue, Raise, Goto, task
    <2> QED
        BY <2>1 DEF Deaf
<1>15. CASE UNCHANGED vars
    BY <1>15 DEF vars, task, work, updates, history, Deaf
<1> QED
    BY <1>1, <1>2, <1>3, <1>4, <1>5, <1>6, <1>7, <1>8, <1>9, <1>10,
        <1>11, <1>12, <1>13, <1>14, <1>15 DEF Next, Terminated, TurnStep, ReaderStep, SteerStep, ClientStep, ProviderStep

-----------------------------------------------------------------------------
(* Theorems *)

IInv == Safe /\ Frozen /\ OwnProcess /\ Ended /\ Channel /\ Deaf

(* The inductive invariant holds in every state of the bridge. *)
THEOREM Invariance == Spec => []IInv
<1>1. Init => IInv
    BY InitInv DEF IInv
<1>2. IInv /\ [Next]_vars => IInv'
    BY SafeStep, FrozenStep, OwnProcessStep, EndedStep, ChannelStep, DeafStep DEF IInv
<1> QED
    BY <1>1, <1>2, PTL DEF Spec

(* Every variable of NativeBackend and of its threads has its type. *)
THEOREM TypeCorrect == Spec => []TypeOK
<1>1. IInv => TypeOK
    BY DEF IInv, Safe
<1> QED
    BY <1>1, Invariance, PTL

(* LiveSteering.send(): an update is sent to a provider at most once. *)
THEOREM SentOnce == Spec => []OneSubmission
<1>1. IInv => OneSubmission
    BY DEF IInv, Frozen, Ledger, OneSubmission
<1> QED
    BY <1>1, Invariance, PTL

(* LiveSteering.receipts: "rejected" was not taken, "accepted" was. *)
THEOREM ReceiptsTrue == Spec => []ReceiptsAreTrue
<1>1. IInv => ReceiptsAreTrue
    BY DEF IInv, Frozen, Ledger, Takings, ReceiptsAreTrue
<1> QED
    BY <1>1, Invariance, PTL

(* LiveSteering: an update is taken by the model turn it was announced for, *)
(* while its turn thread still waits for the answer.                        *)
THEOREM UpdatesReachTheirTurn == Spec => UpdateReachesItsTurn
<1>1. ASSUME IInv, [Next]_vars, NEW d \in taken' \ taken
      PROVE  /\ d.by.turn = d.token /\ d.by.phase = "main"
             /\ d.turn = d.token /\ turn = d.token /\ pc \in Bound
    <2>1. SteerStep
        BY <1>1, OnlySteeringSends
    <2>2. /\ steer.at = "submit" /\ Reachable
          /\ \E p \in Addressee : d = [turn |-> steer.turn, message |-> steer.message,
                                       token |-> steer.token, by |-> p]
        BY <1>1, <2>1, SendMoves
    <2>3. PICK p \in Addressee : d = [turn |-> steer.turn, message |-> steer.message,
                                      token |-> steer.token, by |-> p]
        BY <2>2
    <2>4. /\ steer.turn \in Turns /\ steer.to = target[steer.turn] /\ steer.token = steer.to.token
          /\ Announced(steer.turn)
        BY <1>1, <2>2 DEF IInv, Safe, Named, Channel
    <2>5. steer.turn = turn /\ pc \in Bound /\ steer.token = turn
        BY <2>4 DEF Announced
    <2>6. p.turn = turn /\ p.phase = "main"
        <3>1. CASE Codex(job.kind)
            <4>1. Expected(p)
                BY <2>3, <2>4, <3>1 DEF Addressee, ToWorker, Announced
            <4> QED
                BY <2>4, <2>5, <4>1 DEF Expected, IdOf, Announced
        <3>2. CASE ~Codex(job.kind)
            <4>1. p \in running /\ p.conn = Worker
                BY <2>3, <2>4, <3>2 DEF Addressee, Announced
            <4>2. Worker \in Connection /\ Worker.use = "worker" /\ Worker.turn = turn
                BY <2>4, <2>5 DEF Worker, Connection
            <4> QED
                BY <1>1, <4>1, <4>2, LiveTurnAssumption DEF IInv, Channel, Lines
        <3> QED
            BY <3>1, <3>2
    <2> QED
        BY <2>3, <2>5, <2>6
<1>2. IInv /\ [Next]_vars
      => \A d \in taken' \ taken : /\ d.by.turn = d.token /\ d.by.phase = "main"
                                   /\ d.turn = d.token /\ turn = d.token /\ pc \in Bound
    BY <1>1
<1> QED
    BY <1>2, Invariance, PTL DEF Spec, UpdateReachesItsTurn

(* cancel(): while a Stop is carried out, its request is the active one. *)
THEOREM StopsHitTheirTurn == Spec => []StopHitsItsTurn
<1>1. IInv => StopHitsItsTurn
    <2> SUFFICES ASSUME IInv, reader.of # NoTurn, ~reader.eof
                 PROVE  active \in {NoTurn, reader.of} /\ turn = reader.of
        BY DEF StopHitsItsTurn
    <2>1. turn = reader.of
        BY DEF IInv, Safe, OneMessage
    <2>2. active \in {NoTurn, turn}
        BY DEF IInv, Safe, TypeOK
    <2> QED
        BY <2>1, <2>2
<1> QED
    BY <1>1, Invariance, PTL

(* agent_answer(): the Full Mac process is gone when its turn is over. *)
THEOREM FullMacEnds == Spec => []FullMacEndsWithTurn
<1>1. IInv => FullMacEndsWithTurn
    BY DEF IInv, OwnProcess, AgentPlaces, FullMacEndsWithTurn
<1> QED
    BY <1>1, Invariance, PTL

(* disconnect(): once it is done, a Codex turn has been told to stop. *)
THEOREM EofCancels == Spec => []EofCancelsCodex
<1>1. IInv => EofCancelsCodex
    BY DEF IInv, Ended, Working, EofCancelsCodex, EofCancelsModelWork, CancelRequested
<1> QED
    BY <1>1, Invariance, PTL

(* LiveSteering.send(): no update passes its last check after a confirmed   *)
(* Stop and is sent.                                                        *)
THEOREM NothingSentAfterStop == Spec => NoUpdateAfterStop
<1>1. ASSUME IInv, [Next]_vars, NEW t \in Turns, NEW m \in Messages, submitted'[t][m] # submitted[t][m]
      PROVE  ~steer.late
    <2>1. SteerStep
        BY <1>1, OnlySteeringSends
    <2>2. steer.at = "submit" /\ Reachable
        BY <1>1, <2>1, SendMoves
    <2>3. ASSUME steer.late PROVE FALSE
        <3>1. steer.turn \in stoppedTransports /\ steer.turn \in Turns
            BY <1>1, <2>2, <2>3 DEF IInv, Deaf, Safe, Named
        <3>2. steer.to = target[steer.turn] /\ Announced(steer.turn)
            BY <1>1, <2>2, <3>1 DEF IInv, Channel
        <3>3. ~Codex(job.kind) /\ steer.turn = turn
            BY <1>1, <3>1, <3>2 DEF IInv, Deaf, Announced
        <3>4. steer.to.rpc = [turn |-> steer.turn, use |-> "worker"]
            BY <3>2, <3>3 DEF Announced, Worker
        <3> QED
            BY <2>2, <3>1, <3>4 DEF Reachable, ToWorker
    <2> QED
        BY <2>3
<1>2. IInv /\ [Next]_vars
      => \A t \in Turns, m \in Messages : submitted'[t][m] # submitted[t][m] => ~steer.late
    BY <1>1
<1> QED
    BY <1>2, Invariance, PTL DEF Spec, NoUpdateAfterStop
=============================================================================
