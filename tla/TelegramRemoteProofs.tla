------------------------ MODULE TelegramRemoteProofs ------------------------
(***************************************************************************)
(* Proofs about TelegramRemote, for any number of accounts, chats,         *)
(* messages, connections, pairing links, turns and faults.                 *)
(*                                                                         *)
(* The argument, in three parts.  (1) A message that was carried out is    *)
(* behind the cursor, or the cursor was reset together with the account,   *)
(* and then whoever pairs does it with a link that was made later, so with *)
(* a later message (Behind, from Posted and Offered).  (2) Connections are *)
(* numbered: a route or a reply of one that has passed never counts again  *)
(* (Numbered), and within a connection the account does not change, so     *)
(* questions and replies stay with the account that asked (Asking, Owing,  *)
(* from what one step can do: Stable and Flow).  (3) Each chat that was    *)
(* asked something has the live route of one of its questions (Expects),   *)
(* and, as long as no save has failed, a live route has a question and its *)
(* turn under way (Tidy).                                                  *)
(***************************************************************************)
EXTENDS TelegramRemote, TLAPS

(* The types at the start. *)
LEMMA InitType == Init => TypeOK
BY TelegramAssumption
   DEF Init, TypeOK, State, FirstState, Poller, NoPoller, Exec, Idle, Updates, Connects,
          Turns

(* Only messages that were sent are delivered. *)
Delivered == \A u \in Updates :
    u \in inbox \/ (\E g \in Connects : u \in poller[g].batch) => mail[u] # None

(* What a poller and the state are after a message was taken. *)
LEMMA TakeType ==
    ASSUME TypeOK, NEW g \in Connects, NEW u \in Updates,
           NEW at \in {"none", "poll", "reply", "prepare"},
           Take(g, u, at)
    PROVE  poller' \in [Connects -> Poller] /\ Received(u) \in State
<1>1. poller[g] \in Poller /\ poller \in [Connects -> Poller]
    BY DEF TypeOK
<1>3. [at |-> at, batch |-> poller[g].batch \ {u}] \in Poller
    BY <1>1 DEF Poller
<1>4. poller' \in [Connects -> Poller]
    BY <1>1, <1>3 DEF Take
<1>2. u + 1 \in Nat
    BY TelegramAssumption DEF Updates
<1> QED
    BY <1>2, <1>4 DEF TypeOK, State, Received

(* What a route turns into. *)
LEMMA OwedType ==
    ASSUME TypeOK, NEW t \in Tasks, route[t] # None
    PROVE  Owed(t) \in Job
BY DEF TypeOK, Owed, Job, Route

(* A save, whether it succeeds or not. *)
LEMMA SaveType ==
    ASSUME TypeOK, NEW new \in State, NEW mem \in State, NEW disk \in State,
           Keep(new) \/ Lose(mem, disk, new)
    PROVE  saved' \in State /\ state' \in State /\ faults' \in 0..MaxFaults
BY TelegramAssumption DEF TypeOK, Keep, Lose, Fault

(* The settings after sharing or unsharing. *)
LEMMA SharingType ==
    ASSUME TypeOK, NEW T \in SUBSET Tasks
    PROVE  Sharing(T) \subseteq State
<1>1. ASSUME NEW s \in T \cup {None}
      PROVE  [saved EXCEPT !.allowed = T, !.selected = s] \in State
    BY DEF TypeOK, State
<1> QED
    BY <1>1 DEF Sharing

(* The next turn of a chat is a turn. *)
LEMMA RunningType ==
    ASSUME TypeOK, NEW e \in Exec, turns < MaxTurns
    PROVE  /\ turns + 1 \in 0..MaxTurns
           /\ [e EXCEPT !.at = "running", !.turn = turns + 1, !.open = TRUE] \in Exec
<1>1. turns + 1 \in Turns /\ turns + 1 \in 0..MaxTurns
    BY TelegramAssumption DEF TypeOK, Turns
<1> QED
    BY <1>1 DEF Exec

(* The execution of a chat that has no turn. *)
LEMMA IdleType == Idle \in Exec
BY DEF Idle, Exec

(* Each action keeps the types. *)
LEMMA TypeStep ==
    ASSUME TypeOK, Delivered, [Next]_vars
    PROVE  TypeOK'
<1> USE TelegramAssumption
    DEF TypeOK, telegram, file, connection, pairing, work, replies, app, history
<1>1. ASSUME NEW p \in Peers, NEW k \in 0..MaxCodes, Send(p, k) PROVE TypeOK'
    BY <1>1 DEF Send, Mail
<1>2. ASSUME Connect PROVE TypeOK'
    BY <1>2 DEF Connect, Forget
<1>3. ASSUME Connected PROVE TypeOK'
    <2> DEFINE new == IF saved.bot THEN saved
                      ELSE [saved EXCEPT !.bot = TRUE, !.peer = None, !.offset = 0]
    <2>1. new \in State
        BY DEF State
    <2>2. poller' \in [Connects -> Poller]
        BY <1>3 DEF Connected, Poller, NoPoller
    <2>3. new.peer = None \/ new.peer # None
        OBVIOUS
    <2> HIDE DEF new
    <2> QED
        BY <1>3, <2>1, <2>2 DEF Connected, Keep, Lose, Fault, Down, Forget, NewCode, new
<1>4. ASSUME Disconnect PROVE TypeOK'
    BY <1>4 DEF Disconnect, Down, Forget
<1>5. ASSUME BeginPairing PROVE TypeOK'
    BY <1>5 DEF BeginPairing, NewCode
<1>6. ASSUME ApprovePeer PROVE TypeOK'
    BY <1>6 DEF ApprovePeer, Keep, Lose, Fault, State
<1>7. ASSUME Reset PROVE TypeOK'
    <2>1. FirstState \in State /\ [saved EXCEPT !.peer = None] \in State
          /\ [saved EXCEPT !.bot = FALSE, !.peer = None, !.offset = 0] \in State
        BY DEF State, FirstState
    <2> QED
        BY <1>7, <2>1 DEF Reset, Keep, Lose, Fault, Down, Forget
<1>8. ASSUME NEW t \in Tasks, Share(t) PROVE TypeOK'
    <2>1. saved.allowed \cup {t} \in SUBSET Tasks
        BY DEF State
    <2>2. Sharing(saved.allowed \cup {t}) \subseteq State
        BY <2>1, SharingType
    <2>3. saved' \in State /\ state' \in State /\ faults' \in 0..MaxFaults
        BY <1>8, <2>2, SaveType DEF Share
    <2> QED
        BY <1>8, <2>3 DEF Share
<1>9. ASSUME NEW t \in Tasks, Unshare(t) PROVE TypeOK'
    <2>1. saved.allowed \ {t} \in SUBSET Tasks
        BY DEF State
    <2>2. Sharing(saved.allowed \ {t}) \subseteq State
        BY <2>1, SharingType
    <2>3. saved' \in State /\ state' \in State /\ faults' \in 0..MaxFaults
        BY <1>9, <2>2, SaveType DEF Unshare
    <2> QED
        BY <1>9, <2>3 DEF Unshare
<1>10. ASSUME NEW t \in Tasks, Select(t) PROVE TypeOK'
    BY <1>10 DEF Select, Keep, Lose, Fault, State
<1>11. ASSUME NEW t \in Tasks, MacTurn(t) PROVE TypeOK'
    <2>1. exec' \in [Tasks -> Exec]
        BY <1>11, IdleType, RunningType DEF MacTurn
    <2> QED
        BY <1>11, <2>1, IdleType, RunningType DEF MacTurn
<1>12. ASSUME NEW g \in Connects, Fetch(g) PROVE TypeOK'
    BY <1>12 DEF Fetch, Current, Poller, Updates
<1>13. ASSUME NEW g \in Connects, Leave(g) PROVE TypeOK'
    BY <1>13 DEF Leave, NoPoller, Poller
<1>14. ASSUME NEW g \in Connects, Resume(g) PROVE TypeOK'
    BY <1>14 DEF Resume, Poller
<1>15. ASSUME NEW g \in Connects, NEW u \in Updates, LoseReceipt(g, u) PROVE TypeOK'
    <2>1. poller' \in [Connects -> Poller] /\ Received(u) \in State
        BY <1>15, TakeType DEF LoseReceipt, Command
    <2> QED
        BY <1>15, <2>1 DEF LoseReceipt, Lose, Fault, Down, Forget
<1>16. ASSUME NEW g \in Connects, NEW u \in Updates, Ignore(g, u) PROVE TypeOK'
    <2>1. poller' \in [Connects -> Poller] /\ Received(u) \in State
        BY <1>16, TakeType DEF Ignore, Command
    <2> QED
        BY <1>16, <2>1 DEF Ignore, Keep
<1>17. ASSUME NEW g \in Connects, NEW u \in Updates, RequestPairing(g, u) PROVE TypeOK'
    <2>1. poller' \in [Connects -> Poller] /\ Received(u) \in State
        BY <1>17, TakeType DEF RequestPairing, Command
    <2>2. mail[u] \in Mail
        BY <1>17 DEF RequestPairing, Take, Delivered
    <2>3. candidate' \in Peers \cup {None}
        BY <1>17, <2>2 DEF RequestPairing, Mail
    <2> QED
        BY <1>17, <2>1, <2>3 DEF RequestPairing, Keep
<1>18. ASSUME NEW g \in Connects, NEW u \in Updates, Answer(g, u) PROVE TypeOK'
    <2>1. poller' \in [Connects -> Poller] /\ Received(u) \in State
        BY <1>18, TakeType DEF Answer, Command
    <2> QED
        BY <1>18, <2>1 DEF Answer, Keep
<1>19. ASSUME NEW g \in Connects, NEW u \in Updates, NEW t \in Tasks, UseTask(g, u, t)
       PROVE  TypeOK'
    <2>1. poller' \in [Connects -> Poller] /\ Received(u) \in State
        BY <1>19, TakeType DEF UseTask, Command
    <2>2. [Received(u) EXCEPT !.selected = t] \in State
        BY <2>1 DEF State
    <2> QED
        BY <1>19, <2>1, <2>2 DEF UseTask, Keep, Lose, Fault, Ran
<1>20. ASSUME NEW g \in Connects, NEW u \in Updates, NEW t \in Tasks, NewTask(g, u, t)
       PROVE  TypeOK'
    <2>1. poller' \in [Connects -> Poller] /\ Received(u) \in State
        BY <1>20, TakeType DEF NewTask, Command
    <2>2. [Received(u) EXCEPT !.allowed = @ \cup {t}] \in State
        BY <2>1 DEF State
    <2>3. [[Received(u) EXCEPT !.allowed = @ \cup {t}] EXCEPT !.selected = t] \in State
        BY <2>2 DEF State
    <2>4. saved' \in State /\ state' \in State /\ faults' \in 0..MaxFaults
        BY <1>20, <2>1, <2>2, <2>3, SaveType DEF NewTask
    <2> QED
        BY <1>20, <2>1, <2>4 DEF NewTask, Ran
<1>21. ASSUME NEW g \in Connects, NEW u \in Updates, NEW t \in Tasks, StopTurn(g, u, t)
       PROVE  TypeOK'
    <2>1. poller' \in [Connects -> Poller] /\ Received(u) \in State
        BY <1>21, TakeType DEF StopTurn, Command
    <2>4. exec[t] \in Exec
        OBVIOUS
    <2>2. [exec[t] EXCEPT !.open = FALSE] \in Exec
        BY <2>4 DEF Exec
    <2>3. exec' \in [Tasks -> Exec]
        BY <1>21, <2>2 DEF StopTurn
    <2> QED
        BY <1>21, <2>1, <2>3 DEF StopTurn, Keep, Ran
<1>22. ASSUME NEW g \in Connects, NEW u \in Updates, NEW t \in Tasks, QueueText(g, u, t)
       PROVE  TypeOK'
    <2>1. poller' \in [Connects -> Poller] /\ Received(u) \in State
        BY <1>22, TakeType DEF QueueText, Command
    <2>4. exec[t].turn \in Turns \cup {None}
        BY DEF Exec
    <2>5. route' \in [Tasks -> Route \cup {None}] /\ asked' \in [Tasks -> SUBSET Updates]
        BY <1>22, <2>4 DEF QueueText, RouteTo, Route
    <2> QED
        BY <1>22, <2>1, <2>5 DEF QueueText, Keep, Ran
<1>23. ASSUME NEW g \in Connects, NEW u \in Updates, NEW t \in Tasks, StartText(g, u, t)
       PROVE  TypeOK'
    <2>1. poller' \in [Connects -> Poller] /\ Received(u) \in State
        BY <1>23, TakeType DEF StartText, Command
    <2>2. exec' \in [Tasks -> Exec]
        BY <1>23 DEF StartText, Exec, Idle
    <2>4. exec[t].turn \in Turns \cup {None}
        BY DEF Exec
    <2>5. route' \in [Tasks -> Route \cup {None}] /\ asked' \in [Tasks -> SUBSET Updates]
        BY <1>23, <2>4 DEF StartText, RouteTo, Route
    <2> QED
        BY <1>23, <2>1, <2>2, <2>5 DEF StartText, Keep, Ran
<1>24. ASSUME NEW g \in Connects, NEW t \in Tasks, Prepared(g, t) PROVE TypeOK'
    <2>1. poller' \in [Connects -> Poller]
        BY <1>24 DEF Prepared, Poller
    <2>4. exec[t] \in Exec
        OBVIOUS
    <2>2. [exec[t] EXCEPT !.at = "ready", !.prior = None] \in Exec
          /\ exec[t].prior \in Route \cup {None}
        BY <2>4 DEF Exec
    <2>3. exec' \in [Tasks -> Exec]
        BY <1>24, <2>2, IdleType DEF Prepared
    <2>5. route' \in [Tasks -> Route \cup {None}] /\ asked' \in [Tasks -> SUBSET Updates]
        BY <1>24, <2>2 DEF Prepared
    <2> QED
        BY <1>24, <2>1, <2>3, <2>5 DEF Prepared
<1>25. ASSUME NEW t \in Tasks, StartTurn(t) PROVE TypeOK'
    <2>0. exec[t] \in Exec
        OBVIOUS
    <2>1. exec' \in [Tasks -> Exec]
      <3>1. CASE exec' = [exec EXCEPT ![t] = Idle]
        BY <3>1, IdleType
      <3>2. CASE turns < MaxTurns
            /\ exec' = [exec EXCEPT ![t] = [@ EXCEPT !.at = "running",
                                             !.turn = turns + 1, !.open = TRUE]]
        BY <3>2, <2>0, RunningType
      <3> QED
        BY <1>25, <3>1, <3>2 DEF StartTurn
    <2>2. route' \in [Tasks -> Route \cup {None}] /\ jobs' \subseteq Job
        BY <1>25, OwedType DEF StartTurn, CallBack
    <2> QED
        BY <1>25, <2>1, <2>2 DEF StartTurn
<1>26. ASSUME NEW t \in Tasks, EndTurn(t) PROVE TypeOK'
    <2>1. exec' \in [Tasks -> Exec]
        BY <1>26 DEF EndTurn, Exec, Idle
    <2>2. finishing' \in [Tasks -> SUBSET Updates]
        BY <1>26 DEF EndTurn, Callbacks, Exec
    <2>3. route' \in [Tasks -> Route \cup {None}] /\ jobs' \subseteq Job
        BY <1>26, OwedType DEF EndTurn, Serves
    <2> QED
        BY <1>26, <2>1, <2>2, <2>3 DEF EndTurn
<1>27. ASSUME NEW t \in Tasks, NEW u \in Updates, Finish(t, u) PROVE TypeOK'
    <2>1. route' \in [Tasks -> Route \cup {None}] /\ jobs' \subseteq Job
        BY <1>27, OwedType DEF Finish, CallBack
    <2> QED
        BY <1>27, <2>1 DEF Finish
<1>28. ASSUME NEW j \in jobs, SendPart(j) PROVE TypeOK'
    <2>1. state.peer \in Peers \cup {None} /\ j \in Job
        BY DEF State
    <2>2. [j EXCEPT !.to = state.peer] \in Job
        BY <2>1 DEF Job
    <2>3. told' \in [Updates -> SUBSET Peers]
        BY <1>28, <2>1 DEF SendPart, Sendable
    <2> QED
        BY <1>28, <2>2, <2>3 DEF SendPart
<1>29. ASSUME NEW j \in jobs, EndReply(j) PROVE TypeOK'
    BY <1>29 DEF EndReply
<1>30. ASSUME Crash PROVE TypeOK'
    BY <1>30 DEF Crash, Fault, Down, Forget, NoPoller, Idle, Poller, Exec
<1>31. CASE UNCHANGED vars
    BY <1>31 DEF vars
<1> QED
    BY <1>1, <1>2, <1>3, <1>4, <1>5, <1>6, <1>7, <1>8, <1>9, <1>10, <1>11, <1>12, <1>13,
       <1>14, <1>15, <1>16, <1>17, <1>18, <1>19, <1>20, <1>21, <1>22, <1>23, <1>24, <1>25,
       <1>26, <1>27, <1>28, <1>29, <1>30, <1>31 DEF Next, Operator, Polling, Consume, Work

-----------------------------------------------------------------------------
(* Messages, pairing and the cursor *)

(* Messages are numbered in the order in which they were sent; none carries *)
(* a pairing code that was not made.                                        *)
Posted ==
    /\ Delivered
    /\ \A u, v \in Updates : v < u /\ mail[u] # None => mail[v] # None
    /\ \A u \in Updates : mail[u] # None => mail[u].code <= codes
    /\ \A u \in Updates : ran[u] > 0 => mail[u] # None

(* A code and a candidate exist only while the link is up.  Memory and file *)
(* agree about the cursor then, and about the account as soon as there is   *)
(* one in memory; a candidate is the account if one was saved meanwhile.    *)
Offered ==
    /\ code <= codes
    /\ link # "on" => code = 0 /\ candidate = None
    /\ link = "on" => state.offset = saved.offset /\ state.peer \in {None, saved.peer}
    /\ candidate # None /\ saved.peer # None => saved.peer = candidate

(* A message that was carried out is behind the cursor.  If the cursor was  *)
(* reset, the account was too, and whoever pairs now sends a later message. *)
Unreachable(u) ==
    /\ saved.peer = None /\ candidate = None
    /\ \A v \in Updates : mail[v] # None /\ code # 0 /\ mail[v].code = code => u < v

Behind ==
    /\ CommandsRunOnce
    /\ \A u \in Updates : ran[u] > 0 => u < saved.offset \/ Unreachable(u)

(* A command is new, and its account is the one that is paired. *)
LEMMA FreshCommand ==
    ASSUME TypeOK, Posted, Offered, Behind,
           NEW g \in Connects, NEW u \in Updates,
                  NEW at, Take(g, u, at), saved.peer = mail[u].from
    PROVE  ran[u] = 0 /\ mail[u] \in Mail /\ saved.peer \in Peers
<1>1. mail[u] # None
    BY DEF Take, Posted, Delivered
<1>2. mail[u] \in Mail /\ saved.peer \in Peers /\ saved.peer # None
    BY <1>1, TelegramAssumption DEF TypeOK, Mail
<1>3. u >= saved.offset /\ u \in Nat /\ saved.offset \in Nat
    BY DEF Take, Current, Offered, TypeOK, State, Updates
<1>4. ran[u] \in Nat /\ ~ ran[u] > 0
    BY <1>2, <1>3 DEF Behind, Unreachable, TypeOK
<1> QED
    BY <1>2, <1>4

(* The parts of the state that saves leave alone. *)
LEMMA StateFacts ==
    ASSUME NEW s \in State, NEW n, NEW T, NEW t
    PROVE  /\ [s EXCEPT !.selected = t].offset = s.offset
              /\ [s EXCEPT !.selected = t].peer = s.peer
           /\ [s EXCEPT !.allowed = T].offset = s.offset
                 /\ [s EXCEPT !.allowed = T].peer = s.peer
           /\ [s EXCEPT !.allowed = T, !.selected = t].offset = s.offset
           /\ [s EXCEPT !.allowed = T, !.selected = t].peer = s.peer
           /\ [s EXCEPT !.peer = n].offset = s.offset /\ [s EXCEPT !.peer = n].peer = n
           /\ [s EXCEPT !.offset = n].offset = n /\ [s EXCEPT !.offset = n].peer = s.peer
BY DEF State

(* Sharing is about nothing else. *)
LEMMA SharingSame ==
    ASSUME TypeOK, NEW T, NEW n \in Sharing(T)
    PROVE  n.offset = saved.offset /\ n.peer = saved.peer
<1>1. saved \in State
    BY DEF TypeOK
<1>2. PICK s : n = [saved EXCEPT !.allowed = T, !.selected = s]
    BY DEF Sharing
<1>4. [saved EXCEPT !.allowed = T, !.selected = s].offset = saved.offset
    BY <1>1, StateFacts
<1>5. [saved EXCEPT !.allowed = T, !.selected = s].peer = saved.peer
    BY <1>1, StateFacts
<1> QED
    BY <1>2, <1>4, <1>5

(* Each action keeps Posted. *)
LEMMA PostedStep ==
    ASSUME TypeOK, Posted, Offered, Behind, [Next]_vars
    PROVE  Posted'
<1> USE TelegramAssumption
       DEF Posted, Delivered, TypeOK, Updates, telegram, file, connection, pairing, work,
              replies, app, history
<1>1. ASSUME NEW p \in Peers, NEW k \in 0..MaxCodes, Send(p, k) PROVE Posted'
    BY <1>1 DEF Send, Mail
<1>2. ASSUME Connect PROVE Posted'
    BY <1>2 DEF Connect, Forget
<1>3. ASSUME Connected PROVE Posted'
    <2>1. codes \in Nat /\ \A v \in Updates : mail[v] # None => mail[v].code \in Nat
        BY DEF Mail
    <2>4. UNCHANGED <<mail, inbox, ran>>
        BY <1>3 DEF Connected
    <2>2. NewCode \/ UNCHANGED codes
        BY <1>3 DEF Connected, Down, Forget
    <2>5. codes' = codes \/ codes' = codes + 1
        BY <2>2 DEF NewCode
    <2>6. poller' = poller
          \/ poller' = [poller EXCEPT ![gen] = [NoPoller EXCEPT !.at = "poll"]]
        BY <1>3 DEF Connected
    <2>7. [NoPoller EXCEPT !.at = "poll"].batch = {}
        BY DEF NoPoller
    <2>3. \A h \in Connects : poller'[h].batch \in {poller[h].batch, {}}
        BY <2>6, <2>7
    <2>8. Delivered'
      <3> SUFFICES ASSUME NEW v \in Updates,
                          v \in inbox' \/ (\E h \in Connects : v \in poller'[h].batch)
                   PROVE  mail'[v] # None
        OBVIOUS
      <3> QED
        BY <2>3, <2>4
    <2>9. \A v \in Updates : mail'[v] # None => mail'[v].code <= codes'
        BY <2>1, <2>4, <2>5
    <2> QED
        BY <2>4, <2>8, <2>9
<1>4. ASSUME Disconnect PROVE Posted'
    BY <1>4 DEF Disconnect, Down, Forget
<1>5. ASSUME BeginPairing PROVE Posted'
    <2>1. codes \in Nat /\ \A v \in Updates : mail[v] # None => mail[v].code \in Nat
        BY DEF Mail
    <2>2. codes' = codes + 1
        BY <1>5 DEF BeginPairing, NewCode
    <2>3. UNCHANGED <<mail, inbox, poller, ran>>
        BY <1>5 DEF BeginPairing
    <2> QED
        BY <2>1, <2>2, <2>3
<1>6. ASSUME ApprovePeer PROVE Posted'
    BY <1>6 DEF ApprovePeer, Keep, Lose, Fault
<1>7. ASSUME Reset PROVE Posted'
    BY <1>7 DEF Reset, FirstState, Keep, Lose, Fault, Down, Forget
<1>8. ASSUME NEW t \in Tasks, Share(t) PROVE Posted'
    BY <1>8 DEF Share, Sharing, Keep, Lose, Fault
<1>9. ASSUME NEW t \in Tasks, Unshare(t) PROVE Posted'
    BY <1>9 DEF Unshare, Sharing, Keep, Lose, Fault
<1>10. ASSUME NEW t \in Tasks, Select(t) PROVE Posted'
    BY <1>10 DEF Select, Keep, Lose, Fault
<1>11. ASSUME NEW t \in Tasks, MacTurn(t) PROVE Posted'
    BY <1>11 DEF MacTurn, Idle
<1>12. ASSUME NEW g \in Connects, Fetch(g) PROVE Posted'
    BY <1>12 DEF Fetch, Current, Poller
<1>13. ASSUME NEW g \in Connects, Leave(g) PROVE Posted'
    BY <1>13 DEF Leave, NoPoller, Poller
<1>14. ASSUME NEW g \in Connects, Resume(g) PROVE Posted'
    BY <1>14 DEF Resume, Poller
<1>15. ASSUME NEW g \in Connects, NEW u \in Updates, LoseReceipt(g, u) PROVE Posted'
    BY <1>15 DEF LoseReceipt, Take, Received, Lose, Fault, Down, Forget, Poller
<1>16. ASSUME NEW g \in Connects, NEW u \in Updates, Ignore(g, u) PROVE Posted'
    BY <1>16 DEF Ignore, Take, Received, Keep, Poller
<1>17. ASSUME NEW g \in Connects, NEW u \in Updates, RequestPairing(g, u) PROVE Posted'
    BY <1>17 DEF RequestPairing, Take, Received, Keep, Poller
<1>18. ASSUME NEW g \in Connects, NEW u \in Updates, Answer(g, u) PROVE Posted'
    BY <1>18 DEF Answer, Command, Take, Received, Keep, Poller
<1>19. ASSUME NEW g \in Connects, NEW u \in Updates, NEW t \in Tasks, UseTask(g, u, t)
       PROVE  Posted'
    <2>1. mail[u] # None
        BY <1>19, FreshCommand, TelegramAssumption DEF UseTask, Command, TypeOK
    <2> QED
        BY <1>19, <2>1 DEF UseTask, Command, Take, Received, Keep, Ran, Poller
<1>20. ASSUME NEW g \in Connects, NEW u \in Updates, NEW t \in Tasks, NewTask(g, u, t)
       PROVE  Posted'
    <2>1. mail[u] # None
        BY <1>20, FreshCommand, TelegramAssumption DEF NewTask, Command, TypeOK
    <2> QED
        BY <1>20, <2>1 DEF NewTask, Command, Take, Received, Keep, Ran, Poller
<1>21. ASSUME NEW g \in Connects, NEW u \in Updates, NEW t \in Tasks, StopTurn(g, u, t)
       PROVE  Posted'
    <2>1. mail[u] # None
        BY <1>21, FreshCommand, TelegramAssumption DEF StopTurn, Command, TypeOK
    <2> QED
        BY <1>21, <2>1 DEF StopTurn, Command, Take, Received, Keep, Ran, Poller
<1>22. ASSUME NEW g \in Connects, NEW u \in Updates, NEW t \in Tasks, QueueText(g, u, t)
       PROVE  Posted'
    <2>1. mail[u] # None
        BY <1>22, FreshCommand, TelegramAssumption DEF QueueText, Command, TypeOK
    <2> QED
        BY <1>22, <2>1 DEF QueueText, Command, Take, Received, Keep, Ran, Poller
<1>23. ASSUME NEW g \in Connects, NEW u \in Updates, NEW t \in Tasks, StartText(g, u, t)
       PROVE  Posted'
    <2>1. mail[u] # None
        BY <1>23, FreshCommand, TelegramAssumption DEF StartText, Command, TypeOK
    <2> QED
        BY <1>23, <2>1 DEF StartText, Command, Take, Received, Keep, Ran, Poller
<1>24. ASSUME NEW g \in Connects, NEW t \in Tasks, Prepared(g, t) PROVE Posted'
    BY <1>24 DEF Prepared, Idle, Poller
<1>25. ASSUME NEW t \in Tasks, StartTurn(t) PROVE Posted'
    BY <1>25 DEF StartTurn, Idle, CallBack, Owed
<1>26. ASSUME NEW t \in Tasks, EndTurn(t) PROVE Posted'
    BY <1>26 DEF EndTurn, Idle, Callbacks, Serves, Live, Owed
<1>27. ASSUME NEW t \in Tasks, NEW u \in Updates, Finish(t, u) PROVE Posted'
    BY <1>27 DEF Finish, CallBack, Owed
<1>28. ASSUME NEW j \in jobs, SendPart(j) PROVE Posted'
    BY <1>28 DEF SendPart
<1>29. ASSUME NEW j \in jobs, EndReply(j) PROVE Posted'
    BY <1>29 DEF EndReply
<1>30. ASSUME Crash PROVE Posted'
    BY <1>30 DEF Crash, Fault, Down, Forget, NoPoller, Idle, Poller
<1>31. CASE UNCHANGED vars
    BY <1>31 DEF vars, Offered
<1> QED
    BY <1>1, <1>2, <1>3, <1>4, <1>5, <1>6, <1>7, <1>8, <1>9, <1>10, <1>11, <1>12, <1>13,
       <1>14, <1>15, <1>16, <1>17, <1>18, <1>19, <1>20, <1>21, <1>22, <1>23, <1>24, <1>25,
       <1>26, <1>27, <1>28, <1>29, <1>30, <1>31 DEF Next, Operator, Polling, Consume, Work

(* Each action keeps Offered. *)
LEMMA OfferedStep ==
    ASSUME TypeOK, Posted, Offered, [Next]_vars
    PROVE  Offered'
<1> USE TelegramAssumption
       DEF TypeOK, telegram, file, connection, pairing, work, replies, app, history
<1>1. ASSUME NEW p \in Peers, NEW k \in 0..MaxCodes, Send(p, k) PROVE Offered'
    BY <1>1 DEF Send, Offered
<1>2. ASSUME Connect PROVE Offered'
    BY <1>2 DEF Connect, Forget, Offered
<1>3. ASSUME Connected PROVE Offered'
    BY <1>3 DEF Connected, Keep, Lose, Fault, Down, Forget, NewCode, Offered, State
<1>4. ASSUME Disconnect PROVE Offered'
    BY <1>4 DEF Disconnect, Down, Forget, Offered
<1>5. ASSUME BeginPairing PROVE Offered'
    BY <1>5 DEF BeginPairing, NewCode, Offered
<1>6. ASSUME ApprovePeer PROVE Offered'
    BY <1>6 DEF ApprovePeer, Keep, Lose, Fault, Offered, State
<1>7. ASSUME Reset PROVE Offered'
    BY <1>7 DEF Reset, FirstState, Keep, Lose, Fault, Down, Forget, Offered, State,
           FirstState
<1>8. ASSUME NEW t \in Tasks, Share(t) PROVE Offered'
    <2>1. \A n \in Sharing(saved.allowed \cup {t}) : n.offset = saved.offset
          /\ n.peer = saved.peer
        BY SharingSame
    <2> QED
        BY <1>8, <2>1 DEF Share, Keep, Lose, Fault, Offered
<1>9. ASSUME NEW t \in Tasks, Unshare(t) PROVE Offered'
    <2>1. \A n \in Sharing(saved.allowed \ {t}) : n.offset = saved.offset
          /\ n.peer = saved.peer
        BY SharingSame
    <2> QED
        BY <1>9, <2>1 DEF Unshare, Keep, Lose, Fault, Offered
<1>10. ASSUME NEW t \in Tasks, Select(t) PROVE Offered'
    <2> DEFINE new == [saved EXCEPT !.selected = t]
    <2>1. new.offset = saved.offset /\ new.peer = saved.peer
        BY StateFacts
    <2>2. Keep(new) \/ Lose(state, saved, new)
        BY <1>10 DEF Select
    <2> HIDE DEF new
    <2> QED
        BY <1>10, <2>1, <2>2 DEF Select, Keep, Lose, Fault, Offered
<1>11. ASSUME NEW t \in Tasks, MacTurn(t) PROVE Offered'
    BY <1>11 DEF MacTurn, Idle, Offered
<1>12. ASSUME NEW g \in Connects, Fetch(g) PROVE Offered'
    BY <1>12 DEF Fetch, Current, Offered
<1>13. ASSUME NEW g \in Connects, Leave(g) PROVE Offered'
    BY <1>13 DEF Leave, NoPoller, Offered
<1>14. ASSUME NEW g \in Connects, Resume(g) PROVE Offered'
    BY <1>14 DEF Resume, Offered
<1>15. ASSUME NEW g \in Connects, NEW u \in Updates, LoseReceipt(g, u) PROVE Offered'
    <2>1. Received(u).offset = u + 1 /\ Received(u).peer = saved.peer
          /\ Received(u) \in State
        BY <1>15, TakeType, StateFacts DEF LoseReceipt, Command, Received
    <2> QED
        BY <1>15, <2>1, StateFacts DEF LoseReceipt, Command, Take, Keep, Lose, Fault, Down,
           Forget, Current, Offered, Ran
<1>16. ASSUME NEW g \in Connects, NEW u \in Updates, Ignore(g, u) PROVE Offered'
    <2>1. Received(u).offset = u + 1 /\ Received(u).peer = saved.peer
          /\ Received(u) \in State
        BY <1>16, TakeType, StateFacts DEF Ignore, Command, Received
    <2> QED
        BY <1>16, <2>1, StateFacts DEF Ignore, Command, Take, Keep, Lose, Fault, Down,
           Forget, Current, Offered, Ran
<1>17. ASSUME NEW g \in Connects, NEW u \in Updates, RequestPairing(g, u) PROVE Offered'
    <2>1. Received(u).offset = u + 1 /\ Received(u).peer = saved.peer
          /\ Received(u) \in State
        BY <1>17, TakeType, StateFacts DEF RequestPairing, Command, Received
    <2> QED
        BY <1>17, <2>1, StateFacts DEF RequestPairing, Command, Take, Keep, Lose, Fault,
           Down, Forget, Current, Offered, Ran
<1>18. ASSUME NEW g \in Connects, NEW u \in Updates, Answer(g, u) PROVE Offered'
    <2>1. Received(u).offset = u + 1 /\ Received(u).peer = saved.peer
          /\ Received(u) \in State
        BY <1>18, TakeType, StateFacts DEF Answer, Command, Received
    <2> QED
        BY <1>18, <2>1, StateFacts DEF Answer, Command, Take, Keep, Lose, Fault, Down,
           Forget, Current, Offered, Ran
<1>19. ASSUME NEW g \in Connects, NEW u \in Updates, NEW t \in Tasks, UseTask(g, u, t)
       PROVE  Offered'
    <2> DEFINE new == [Received(u) EXCEPT !.selected = t]
    <2>1. Received(u).offset = u + 1 /\ Received(u).peer = saved.peer
          /\ Received(u) \in State
        BY <1>19, TakeType, StateFacts DEF UseTask, Command, Received
    <2>2. new.offset = u + 1 /\ new.peer = saved.peer
        BY <2>1, StateFacts
    <2>3. Keep(new) \/ Lose(Received(u), Received(u), new)
        BY <1>19 DEF UseTask
    <2> HIDE DEF new
    <2> QED
        BY <1>19, <2>1, <2>2, <2>3 DEF UseTask, Command, Take, Keep, Lose, Fault, Current,
           Offered
<1>20. ASSUME NEW g \in Connects, NEW u \in Updates, NEW t \in Tasks, NewTask(g, u, t)
       PROVE  Offered'
    <2> DEFINE shared == [Received(u) EXCEPT !.allowed = @ \cup {t}]
    <2> DEFINE new == [shared EXCEPT !.selected = t]
    <2>1. Received(u).offset = u + 1 /\ Received(u).peer = saved.peer
          /\ Received(u) \in State
        BY <1>20, TakeType, StateFacts DEF NewTask, Command, Received
    <2>2. shared.offset = u + 1 /\ shared.peer = saved.peer /\ shared \in State
        BY <2>1, StateFacts DEF State
    <2>4. new.offset = u + 1 /\ new.peer = saved.peer
        BY <2>2, StateFacts
    <2>3. \/ Keep(new)
          \/ Lose(Received(u), Received(u), shared)
          \/ Lose(shared, shared, new)
        BY <1>20 DEF NewTask
    <2> HIDE DEF new, shared
    <2> QED
        BY <1>20, <2>1, <2>2, <2>3, <2>4 DEF NewTask, Command, Take, Keep, Lose, Fault,
           Current, Offered
<1>21. ASSUME NEW g \in Connects, NEW u \in Updates, NEW t \in Tasks, StopTurn(g, u, t)
       PROVE  Offered'
    <2>1. Received(u).offset = u + 1 /\ Received(u).peer = saved.peer
          /\ Received(u) \in State
        BY <1>21, TakeType, StateFacts DEF StopTurn, Command, Received
    <2> QED
        BY <1>21, <2>1, StateFacts DEF StopTurn, Command, Take, Keep, Lose, Fault, Down,
           Forget, Current, Offered, Ran
<1>22. ASSUME NEW g \in Connects, NEW u \in Updates, NEW t \in Tasks, QueueText(g, u, t)
       PROVE  Offered'
    <2>1. Received(u).offset = u + 1 /\ Received(u).peer = saved.peer
          /\ Received(u) \in State
        BY <1>22, TakeType, StateFacts DEF QueueText, Command, Received
    <2> QED
        BY <1>22, <2>1, StateFacts DEF QueueText, Command, Take, Keep, Lose, Fault, Down,
           Forget, Current, Offered, Ran
<1>23. ASSUME NEW g \in Connects, NEW u \in Updates, NEW t \in Tasks, StartText(g, u, t)
       PROVE  Offered'
    <2>1. Received(u).offset = u + 1 /\ Received(u).peer = saved.peer
          /\ Received(u) \in State
        BY <1>23, TakeType, StateFacts DEF StartText, Command, Received
    <2> QED
        BY <1>23, <2>1, StateFacts DEF StartText, Command, Take, Keep, Lose, Fault, Down,
           Forget, Current, Offered, Ran
<1>24. ASSUME NEW g \in Connects, NEW t \in Tasks, Prepared(g, t) PROVE Offered'
    BY <1>24 DEF Prepared, Idle, Offered
<1>25. ASSUME NEW t \in Tasks, StartTurn(t) PROVE Offered'
    BY <1>25 DEF StartTurn, Idle, CallBack, Owed, Offered
<1>26. ASSUME NEW t \in Tasks, EndTurn(t) PROVE Offered'
    BY <1>26 DEF EndTurn, Idle, Callbacks, Serves, Live, Owed, Offered
<1>27. ASSUME NEW t \in Tasks, NEW u \in Updates, Finish(t, u) PROVE Offered'
    BY <1>27 DEF Finish, CallBack, Owed, Offered
<1>28. ASSUME NEW j \in jobs, SendPart(j) PROVE Offered'
    BY <1>28 DEF SendPart, Offered
<1>29. ASSUME NEW j \in jobs, EndReply(j) PROVE Offered'
    BY <1>29 DEF EndReply, Offered
<1>30. ASSUME Crash PROVE Offered'
    BY <1>30 DEF Crash, Fault, Down, Forget, NoPoller, Idle, Offered
<1>31. CASE UNCHANGED vars
    BY <1>31 DEF vars, Offered
<1> QED
    BY <1>1, <1>2, <1>3, <1>4, <1>5, <1>6, <1>7, <1>8, <1>9, <1>10, <1>11, <1>12, <1>13,
       <1>14, <1>15, <1>16, <1>17, <1>18, <1>19, <1>20, <1>21, <1>22, <1>23, <1>24, <1>25,
       <1>26, <1>27, <1>28, <1>29, <1>30, <1>31 DEF Next, Operator, Polling, Consume, Work

(* Nothing that keeps the cursor and the account brings a message back. *)
LEMMA BehindKept ==
    ASSUME TypeOK, Behind, saved'.offset = saved.offset, saved'.peer = saved.peer,
           candidate' \in {candidate, None}, code' \in {code, 0}, UNCHANGED <<mail, ran>>
    PROVE  Behind'
BY DEF Behind, Unreachable, CommandsRunOnce

(* A command that runs is behind the cursor. *)
LEMMA BehindRun ==
    ASSUME TypeOK, Behind, NEW u \in Updates, ran[u] = 0, saved.peer # None,
           u \in Nat, u >= saved.offset, saved'.offset = u + 1,
                  ran' = [ran EXCEPT ![u] = @ + 1]
    PROVE  Behind'
<1>1. ASSUME NEW v \in Updates PROVE ran'[v] <= 1 /\ (ran'[v] > 0 => v < u + 1)
  <2>1. CASE v = u
    BY <2>1 DEF TypeOK
  <2>2. CASE v # u
    <3>1. ran'[v] = ran[v] /\ (ran[v] > 0 => v < saved.offset) /\ ran[v] <= 1
        BY <2>2 DEF TypeOK, Behind, Unreachable, CommandsRunOnce
    <3> QED
        BY <3>1 DEF TypeOK, State, Updates
  <2> QED
    BY <2>1, <2>2
<1> QED
    BY <1>1 DEF Behind, CommandsRunOnce

(* A new code is carried by no message yet. *)
LEMMA NewIsLater ==
    ASSUME TypeOK, Posted, NEW v \in Updates, mail[v] # None
    PROVE  mail[v].code # codes + 1
BY DEF Posted, TypeOK, Mail

(* Each action keeps Behind. *)
LEMMA BehindStep ==
    ASSUME TypeOK, Posted, Offered, Behind, [Next]_vars
    PROVE  Behind'
<1> USE TelegramAssumption
       DEF TypeOK, telegram, file, connection, pairing, work, replies, app, history
<1>1. ASSUME NEW p \in Peers, NEW k \in 0..MaxCodes, Send(p, k) PROVE Behind'
    <2>1. PICK u \in Updates :
              /\ mail[u] = None /\ \A v \in Updates : v < u => mail[v] # None
              /\ mail' = [mail EXCEPT ![u] = [from |-> p, code |-> k]]
        BY <1>1 DEF Send
    <2>2. UNCHANGED <<saved, candidate, code, ran>>
        BY <1>1 DEF Send
    <2>3. \A v \in Updates : ran[v] > 0 => v < u
        BY <2>1 DEF Posted, Updates
    <2> QED
        BY <2>1, <2>2, <2>3 DEF Behind, Unreachable, CommandsRunOnce
<1>2. ASSUME Connect PROVE Behind'
    <2>2. saved'.offset = saved.offset /\ saved'.peer = saved.peer
        BY <1>2 DEF Connect
    <2>3. candidate' \in {candidate, None} /\ code' \in {code, 0} /\ UNCHANGED <<mail, ran>>
        BY <1>2 DEF Connect, Down, Forget
    <2> QED
        BY <2>2, <2>3, BehindKept
<1>3. ASSUME Connected PROVE Behind'
    <2>1. candidate = None /\ code = 0
        BY <1>3 DEF Connected, Offered
    <2>2. saved' = saved \/ saved'.peer = None
          \/ saved' = [saved EXCEPT !.bot = TRUE, !.peer = None, !.offset = 0]
        BY <1>3 DEF Connected, Keep, Lose, Fault
    <2>3. (saved'.offset = saved.offset /\ saved'.peer = saved.peer) \/ saved'.peer = None
        BY <2>2 DEF State
    <2>4. NewCode \/ UNCHANGED pairing \/ Down
        BY <1>3 DEF Connected
    <2>5. candidate' = None /\ (code' = 0 \/ code' = codes + 1)
        BY <2>1, <2>4 DEF NewCode, Down, Forget
    <2>6. UNCHANGED <<mail, ran>>
        BY <1>3 DEF Connected
    <2> QED
        BY <2>3, <2>5, <2>6, NewIsLater DEF Behind, Unreachable, CommandsRunOnce
<1>4. ASSUME Disconnect PROVE Behind'
    <2>2. saved'.offset = saved.offset /\ saved'.peer = saved.peer
        BY <1>4 DEF Disconnect
    <2>3. candidate' \in {candidate, None} /\ code' \in {code, 0} /\ UNCHANGED <<mail, ran>>
        BY <1>4 DEF Disconnect, Down, Forget
    <2> QED
        BY <2>2, <2>3, BehindKept
<1>5. ASSUME BeginPairing PROVE Behind'
    <2>1. candidate' = None /\ code' = codes + 1
        BY <1>5 DEF BeginPairing, NewCode
    <2>2. UNCHANGED <<saved, mail, ran>>
        BY <1>5 DEF BeginPairing
    <2> QED
        BY <2>1, <2>2, NewIsLater DEF Behind, Unreachable, CommandsRunOnce
<1>6. ASSUME ApprovePeer PROVE Behind'
    <2>1. saved' \in {saved, [saved EXCEPT !.peer = candidate]} /\ candidate # None
        BY <1>6 DEF ApprovePeer, Keep, Lose, Fault
    <2>4. [saved EXCEPT !.peer = candidate].offset = saved.offset
        BY DEF State
    <2>2. saved'.offset = saved.offset
        BY <2>1, <2>4
    <2>3. UNCHANGED <<mail, ran>>
        BY <1>6 DEF ApprovePeer
    <2> QED
        BY <2>1, <2>2, <2>3 DEF Behind, Unreachable, CommandsRunOnce
<1>7. ASSUME Reset PROVE Behind'
    <2>1. saved' \in {saved, [saved EXCEPT !.peer = None],
                     [saved EXCEPT !.bot = FALSE, !.peer = None, !.offset = 0], FirstState}
        BY <1>7 DEF Reset, Keep, Lose, Fault
    <2>5. /\ [saved EXCEPT !.peer = None].peer = None
          /\ [saved EXCEPT !.bot = FALSE, !.peer = None, !.offset = 0].peer = None
          /\ FirstState.peer = None
        BY DEF State, FirstState
    <2>2. saved' = saved \/ saved'.peer = None
        BY <2>1, <2>5
    <2>3. (saved'.offset = saved.offset /\ saved'.peer = saved.peer) \/ saved'.peer = None
        BY <2>2
    <2>4. candidate' = None /\ code' = 0 /\ UNCHANGED <<mail, ran>>
        BY <1>7 DEF Reset, Down, Forget
    <2> QED
        BY <2>3, <2>4 DEF Behind, Unreachable, CommandsRunOnce
<1>8. ASSUME NEW t \in Tasks, Share(t) PROVE Behind'
    <2>1. \A n \in Sharing(saved.allowed \cup {t}) : n.offset = saved.offset
          /\ n.peer = saved.peer
        BY SharingSame
    <2>2. saved'.offset = saved.offset /\ saved'.peer = saved.peer
        BY <1>8, <2>1 DEF Share, Keep, Lose, Fault
    <2>3. candidate' \in {candidate, None} /\ code' \in {code, 0} /\ UNCHANGED <<mail, ran>>
        BY <1>8 DEF Share
    <2> QED
        BY <2>2, <2>3, BehindKept
<1>9. ASSUME NEW t \in Tasks, Unshare(t) PROVE Behind'
    <2>1. \A n \in Sharing(saved.allowed \ {t}) : n.offset = saved.offset
          /\ n.peer = saved.peer
        BY SharingSame
    <2>2. saved'.offset = saved.offset /\ saved'.peer = saved.peer
        BY <1>9, <2>1 DEF Unshare, Keep, Lose, Fault
    <2>3. candidate' \in {candidate, None} /\ code' \in {code, 0} /\ UNCHANGED <<mail, ran>>
        BY <1>9 DEF Unshare
    <2> QED
        BY <2>2, <2>3, BehindKept
<1>10. ASSUME NEW t \in Tasks, Select(t) PROVE Behind'
    <2>1. [saved EXCEPT !.selected = t].offset = saved.offset
          /\ [saved EXCEPT !.selected = t].peer = saved.peer
        BY StateFacts
    <2>2. saved'.offset = saved.offset /\ saved'.peer = saved.peer
        BY <1>10, <2>1 DEF Select, Keep, Lose, Fault
    <2>3. candidate' \in {candidate, None} /\ code' \in {code, 0} /\ UNCHANGED <<mail, ran>>
        BY <1>10 DEF Select, Down, Forget
    <2> QED
        BY <2>2, <2>3, BehindKept
<1>11. ASSUME NEW t \in Tasks, MacTurn(t) PROVE Behind'
    <2>2. saved'.offset = saved.offset /\ saved'.peer = saved.peer
        BY <1>11 DEF MacTurn
    <2>3. candidate' \in {candidate, None} /\ code' \in {code, 0} /\ UNCHANGED <<mail, ran>>
        BY <1>11 DEF MacTurn, Down, Forget
    <2> QED
        BY <2>2, <2>3, BehindKept
<1>12. ASSUME NEW g \in Connects, Fetch(g) PROVE Behind'
    <2>2. saved'.offset = saved.offset /\ saved'.peer = saved.peer
        BY <1>12 DEF Fetch
    <2>3. candidate' \in {candidate, None} /\ code' \in {code, 0} /\ UNCHANGED <<mail, ran>>
        BY <1>12 DEF Fetch, Down, Forget
    <2> QED
        BY <2>2, <2>3, BehindKept
<1>13. ASSUME NEW g \in Connects, Leave(g) PROVE Behind'
    <2>2. saved'.offset = saved.offset /\ saved'.peer = saved.peer
        BY <1>13 DEF Leave
    <2>3. candidate' \in {candidate, None} /\ code' \in {code, 0} /\ UNCHANGED <<mail, ran>>
        BY <1>13 DEF Leave, Down, Forget
    <2> QED
        BY <2>2, <2>3, BehindKept
<1>14. ASSUME NEW g \in Connects, Resume(g) PROVE Behind'
    <2>2. saved'.offset = saved.offset /\ saved'.peer = saved.peer
        BY <1>14 DEF Resume
    <2>3. candidate' \in {candidate, None} /\ code' \in {code, 0} /\ UNCHANGED <<mail, ran>>
        BY <1>14 DEF Resume, Down, Forget
    <2> QED
        BY <2>2, <2>3, BehindKept
<1>15. ASSUME NEW g \in Connects, NEW u \in Updates, LoseReceipt(g, u) PROVE Behind'
    <2>1. Received(u).offset = u + 1 /\ Received(u).peer = saved.peer
          /\ Received(u) \in State
        BY <1>15, TakeType, StateFacts DEF LoseReceipt, Command, Received
    <2>2. u \in Nat /\ u >= saved.offset /\ saved.offset \in Nat
        BY <1>15 DEF LoseReceipt, Command, Take, Current, Offered, State, Updates
    <2>3. saved' \in {saved, Received(u)}
        BY <1>15 DEF LoseReceipt, Keep, Lose
    <2>4. candidate' \in {candidate, None} /\ code' \in {code, 0} /\ UNCHANGED <<mail, ran>>
        BY <1>15 DEF LoseReceipt, Command, Down, Forget
    <2> QED
        BY <2>1, <2>2, <2>3, <2>4 DEF Behind, Unreachable, CommandsRunOnce, Updates
<1>16. ASSUME NEW g \in Connects, NEW u \in Updates, Ignore(g, u) PROVE Behind'
    <2>1. Received(u).offset = u + 1 /\ Received(u).peer = saved.peer
          /\ Received(u) \in State
        BY <1>16, TakeType, StateFacts DEF Ignore, Command, Received
    <2>2. u \in Nat /\ u >= saved.offset /\ saved.offset \in Nat
        BY <1>16 DEF Ignore, Command, Take, Current, Offered, State, Updates
    <2>3. saved' \in {saved, Received(u)}
        BY <1>16 DEF Ignore, Keep, Lose
    <2>4. candidate' \in {candidate, None} /\ code' \in {code, 0} /\ UNCHANGED <<mail, ran>>
        BY <1>16 DEF Ignore, Command, Down, Forget
    <2> QED
        BY <2>1, <2>2, <2>3, <2>4 DEF Behind, Unreachable, CommandsRunOnce, Updates
<1>17. ASSUME NEW g \in Connects, NEW u \in Updates, RequestPairing(g, u) PROVE Behind'
    <2>1. Received(u).offset = u + 1 /\ Received(u).peer = saved.peer
          /\ Received(u) \in State
        BY <1>17, TakeType, StateFacts DEF RequestPairing, Command, Received
    <2>2. u \in Nat /\ u >= saved.offset /\ saved.offset \in Nat
        BY <1>17 DEF RequestPairing, Command, Take, Current, Offered, State, Updates
    <2>3. saved' \in {saved, Received(u)}
        BY <1>17 DEF RequestPairing, Keep, Lose
    <2>4. UNCHANGED <<mail, ran, code>> /\ code # 0 /\ mail[u].code = code /\ mail[u] # None
        BY <1>17 DEF RequestPairing, Take, Posted, Delivered
    <2>5. saved' = Received(u)
        BY <1>17 DEF RequestPairing, Keep
    <2>6. ASSUME NEW v \in Updates, ran[v] > 0 PROVE v < u + 1
      <3>1. v < saved.offset \/ v < u
        BY <2>4, <2>6 DEF Behind, Unreachable
      <3>2. v \in Nat
        BY DEF Updates
      <3> QED
        BY <2>2, <3>1, <3>2
    <2> QED
        BY <2>1, <2>4, <2>5, <2>6 DEF Behind, CommandsRunOnce
<1>18. ASSUME NEW g \in Connects, NEW u \in Updates, Answer(g, u) PROVE Behind'
    <2>1. Received(u).offset = u + 1 /\ Received(u).peer = saved.peer
          /\ Received(u) \in State
        BY <1>18, TakeType, StateFacts DEF Answer, Command, Received
    <2>2. u \in Nat /\ u >= saved.offset /\ saved.offset \in Nat
        BY <1>18 DEF Answer, Command, Take, Current, Offered, State, Updates
    <2>3. saved' \in {saved, Received(u)}
        BY <1>18 DEF Answer, Keep, Lose
    <2>4. candidate' \in {candidate, None} /\ code' \in {code, 0} /\ UNCHANGED <<mail, ran>>
        BY <1>18 DEF Answer, Command, Down, Forget
    <2> QED
        BY <2>1, <2>2, <2>3, <2>4 DEF Behind, Unreachable, CommandsRunOnce, Updates
<1>19. ASSUME NEW g \in Connects, NEW u \in Updates, NEW t \in Tasks, UseTask(g, u, t)
       PROVE  Behind'
    <2>1. Received(u).offset = u + 1 /\ Received(u).peer = saved.peer
          /\ Received(u) \in State
        BY <1>19, TakeType, StateFacts DEF UseTask, Command, Received
    <2>2. u \in Nat /\ u >= saved.offset /\ saved.offset \in Nat
        BY <1>19 DEF UseTask, Command, Take, Current, Offered, State, Updates
    <2>3. ran[u] = 0 /\ saved.peer # None
        BY <1>19, FreshCommand DEF UseTask, Command
    <2>4. saved'.offset = u + 1
      <3>1. [Received(u) EXCEPT !.selected = t].offset = u + 1
        BY <2>1, StateFacts
      <3> QED
        BY <1>19, <2>1, <3>1 DEF UseTask, Keep, Lose
    <2>7. ran' = [ran EXCEPT ![u] = @ + 1]
        BY <1>19 DEF UseTask, Ran
    <2> QED
        BY <2>2, <2>3, <2>4, <2>7, BehindRun
<1>20. ASSUME NEW g \in Connects, NEW u \in Updates, NEW t \in Tasks, NewTask(g, u, t)
       PROVE  Behind'
    <2>1. Received(u).offset = u + 1 /\ Received(u).peer = saved.peer
          /\ Received(u) \in State
        BY <1>20, TakeType, StateFacts DEF NewTask, Command, Received
    <2>2. u \in Nat /\ u >= saved.offset /\ saved.offset \in Nat
        BY <1>20 DEF NewTask, Command, Take, Current, Offered, State, Updates
    <2>3. ran[u] = 0 /\ saved.peer # None
        BY <1>20, FreshCommand DEF NewTask, Command
    <2> DEFINE shared == [Received(u) EXCEPT !.allowed = @ \cup {t}]
    <2>5. shared.offset = u + 1 /\ shared \in State
        BY <2>1, StateFacts DEF State
    <2>6. [shared EXCEPT !.selected = t].offset = u + 1
        BY <2>5, StateFacts
    <2>4. saved'.offset = u + 1
        BY <1>20, <2>1, <2>5, <2>6 DEF NewTask, Keep, Lose
    <2>7. ran' = [ran EXCEPT ![u] = @ + 1]
        BY <1>20 DEF NewTask, Ran
    <2> QED
        BY <2>2, <2>3, <2>4, <2>7, BehindRun
<1>21. ASSUME NEW g \in Connects, NEW u \in Updates, NEW t \in Tasks, StopTurn(g, u, t)
       PROVE  Behind'
    <2>1. Received(u).offset = u + 1 /\ Received(u).peer = saved.peer
          /\ Received(u) \in State
        BY <1>21, TakeType, StateFacts DEF StopTurn, Command, Received
    <2>2. u \in Nat /\ u >= saved.offset /\ saved.offset \in Nat
        BY <1>21 DEF StopTurn, Command, Take, Current, Offered, State, Updates
    <2>3. ran[u] = 0 /\ saved.peer # None
        BY <1>21, FreshCommand DEF StopTurn, Command
    <2>4. saved'.offset = u + 1
        BY <1>21, <2>1 DEF StopTurn, Keep
    <2>7. ran' = [ran EXCEPT ![u] = @ + 1]
        BY <1>21 DEF StopTurn, Ran
    <2> QED
        BY <2>2, <2>3, <2>4, <2>7, BehindRun
<1>22. ASSUME NEW g \in Connects, NEW u \in Updates, NEW t \in Tasks, QueueText(g, u, t)
       PROVE  Behind'
    <2>1. Received(u).offset = u + 1 /\ Received(u).peer = saved.peer
          /\ Received(u) \in State
        BY <1>22, TakeType, StateFacts DEF QueueText, Command, Received
    <2>2. u \in Nat /\ u >= saved.offset /\ saved.offset \in Nat
        BY <1>22 DEF QueueText, Command, Take, Current, Offered, State, Updates
    <2>3. ran[u] = 0 /\ saved.peer # None
        BY <1>22, FreshCommand DEF QueueText, Command
    <2>4. saved'.offset = u + 1
        BY <1>22, <2>1 DEF QueueText, Keep
    <2>7. ran' = [ran EXCEPT ![u] = @ + 1]
        BY <1>22 DEF QueueText, Ran
    <2> QED
        BY <2>2, <2>3, <2>4, <2>7, BehindRun
<1>23. ASSUME NEW g \in Connects, NEW u \in Updates, NEW t \in Tasks, StartText(g, u, t)
       PROVE  Behind'
    <2>1. Received(u).offset = u + 1 /\ Received(u).peer = saved.peer
          /\ Received(u) \in State
        BY <1>23, TakeType, StateFacts DEF StartText, Command, Received
    <2>2. u \in Nat /\ u >= saved.offset /\ saved.offset \in Nat
        BY <1>23 DEF StartText, Command, Take, Current, Offered, State, Updates
    <2>3. ran[u] = 0 /\ saved.peer # None
        BY <1>23, FreshCommand DEF StartText, Command
    <2>4. saved'.offset = u + 1
        BY <1>23, <2>1 DEF StartText, Keep
    <2>7. ran' = [ran EXCEPT ![u] = @ + 1]
        BY <1>23 DEF StartText, Ran
    <2> QED
        BY <2>2, <2>3, <2>4, <2>7, BehindRun
<1>24. ASSUME NEW g \in Connects, NEW t \in Tasks, Prepared(g, t) PROVE Behind'
    <2>2. saved'.offset = saved.offset /\ saved'.peer = saved.peer
        BY <1>24 DEF Prepared
    <2>3. candidate' \in {candidate, None} /\ code' \in {code, 0} /\ UNCHANGED <<mail, ran>>
        BY <1>24 DEF Prepared, Down, Forget
    <2> QED
        BY <2>2, <2>3, BehindKept
<1>25. ASSUME NEW t \in Tasks, StartTurn(t) PROVE Behind'
    <2>2. saved'.offset = saved.offset /\ saved'.peer = saved.peer
        BY <1>25 DEF StartTurn
    <2>3. candidate' \in {candidate, None} /\ code' \in {code, 0} /\ UNCHANGED <<mail, ran>>
        BY <1>25 DEF StartTurn, Down, Forget
    <2> QED
        BY <2>2, <2>3, BehindKept
<1>26. ASSUME NEW t \in Tasks, EndTurn(t) PROVE Behind'
    <2>2. saved'.offset = saved.offset /\ saved'.peer = saved.peer
        BY <1>26 DEF EndTurn
    <2>3. candidate' \in {candidate, None} /\ code' \in {code, 0} /\ UNCHANGED <<mail, ran>>
        BY <1>26 DEF EndTurn, Down, Forget
    <2> QED
        BY <2>2, <2>3, BehindKept
<1>27. ASSUME NEW t \in Tasks, NEW u \in Updates, Finish(t, u) PROVE Behind'
    <2>2. saved'.offset = saved.offset /\ saved'.peer = saved.peer
        BY <1>27 DEF Finish
    <2>3. candidate' \in {candidate, None} /\ code' \in {code, 0} /\ UNCHANGED <<mail, ran>>
        BY <1>27 DEF Finish, Down, Forget
    <2> QED
        BY <2>2, <2>3, BehindKept
<1>28. ASSUME NEW j \in jobs, SendPart(j) PROVE Behind'
    <2>2. saved'.offset = saved.offset /\ saved'.peer = saved.peer
        BY <1>28 DEF SendPart
    <2>3. candidate' \in {candidate, None} /\ code' \in {code, 0} /\ UNCHANGED <<mail, ran>>
        BY <1>28 DEF SendPart, Down, Forget
    <2> QED
        BY <2>2, <2>3, BehindKept
<1>29. ASSUME NEW j \in jobs, EndReply(j) PROVE Behind'
    <2>2. saved'.offset = saved.offset /\ saved'.peer = saved.peer
        BY <1>29 DEF EndReply
    <2>3. candidate' \in {candidate, None} /\ code' \in {code, 0} /\ UNCHANGED <<mail, ran>>
        BY <1>29 DEF EndReply, Down, Forget
    <2> QED
        BY <2>2, <2>3, BehindKept
<1>30. ASSUME Crash PROVE Behind'
    <2>2. saved'.offset = saved.offset /\ saved'.peer = saved.peer
        BY <1>30 DEF Crash
    <2>3. candidate' \in {candidate, None} /\ code' \in {code, 0} /\ UNCHANGED <<mail, ran>>
        BY <1>30 DEF Crash, Down, Forget
    <2> QED
        BY <2>2, <2>3, BehindKept
<1>31. CASE UNCHANGED vars
    BY <1>31 DEF vars, Behind, Unreachable, CommandsRunOnce
<1> QED
    BY <1>1, <1>2, <1>3, <1>4, <1>5, <1>6, <1>7, <1>8, <1>9, <1>10, <1>11, <1>12, <1>13,
       <1>14, <1>15, <1>16, <1>17, <1>18, <1>19, <1>20, <1>21, <1>22, <1>23, <1>24, <1>25,
       <1>26, <1>27, <1>28, <1>29, <1>30, <1>31 DEF Next, Operator, Polling, Consume, Work

-----------------------------------------------------------------------------
(* Routes and answers *)

(* What every step leaves alone: what was carried out and by whose message, *)
(* the account while the link is up, the numbers of connections.            *)
Stable ==
    /\ \A u \in Updates : ran[u] > 0 => ran'[u] > 0 /\ mail'[u] = mail[u]
    /\ link = "on" /\ link' = "on" /\ saved.peer # None => saved'.peer = saved.peer
    /\ gen' = gen \/ (gen' = gen + 1 /\ link' = "connecting" /\ link = "off")
    /\ link # "on" /\ link' = "on" => link = "connecting" /\ gen' = gen
    /\ link # "connecting" /\ link' = "connecting" => gen' = gen + 1

(* Every step is stable. *)
LEMMA StableStep ==
    ASSUME TypeOK, Posted, Offered, [Next]_vars
    PROVE  Stable
<1> USE TelegramAssumption
       DEF TypeOK, Stable, telegram, file, connection, pairing, work, replies, app, history
<1>1. ASSUME NEW p \in Peers, NEW k \in 0..MaxCodes, Send(p, k) PROVE Stable
    <2>1. PICK u \in Updates : mail[u] = None
          /\ mail' = [mail EXCEPT ![u] = [from |-> p, code |-> k]]
        BY <1>1 DEF Send
    <2> QED
        BY <1>1, <2>1 DEF Send, Posted
<1>2. ASSUME Connect PROVE Stable
    BY <1>2 DEF Connect, Forget
<1>3. ASSUME Connected PROVE Stable
    BY <1>3 DEF Connected, Keep, Lose, Fault, Down, Forget, NewCode
<1>4. ASSUME Disconnect PROVE Stable
    BY <1>4 DEF Disconnect, Down, Forget
<1>5. ASSUME BeginPairing PROVE Stable
    BY <1>5 DEF BeginPairing, NewCode
<1>6. ASSUME ApprovePeer PROVE Stable
    <2>1. [saved EXCEPT !.peer = candidate].peer = candidate
        BY StateFacts
    <2> QED
        BY <1>6, <2>1 DEF ApprovePeer, Keep, Lose, Offered
<1>7. ASSUME Reset PROVE Stable
    BY <1>7 DEF Reset, FirstState, Keep, Lose, Fault, Down, Forget
<1>8. ASSUME NEW t \in Tasks, Share(t) PROVE Stable
    <2>1. \A n \in Sharing(saved.allowed \cup {t}) : n.peer = saved.peer
        BY SharingSame
    <2> QED
        BY <1>8, <2>1 DEF Share, Keep, Lose
<1>9. ASSUME NEW t \in Tasks, Unshare(t) PROVE Stable
    <2>1. \A n \in Sharing(saved.allowed \ {t}) : n.peer = saved.peer
        BY SharingSame
    <2> QED
        BY <1>9, <2>1 DEF Unshare, Keep, Lose
<1>10. ASSUME NEW t \in Tasks, Select(t) PROVE Stable
    <2>1. [saved EXCEPT !.selected = t].peer = saved.peer
        BY StateFacts
    <2> QED
        BY <1>10, <2>1 DEF Select, Keep, Lose
<1>11. ASSUME NEW t \in Tasks, MacTurn(t) PROVE Stable
    BY <1>11 DEF MacTurn, Idle
<1>12. ASSUME NEW g \in Connects, Fetch(g) PROVE Stable
    BY <1>12 DEF Fetch, Current
<1>13. ASSUME NEW g \in Connects, Leave(g) PROVE Stable
    BY <1>13 DEF Leave, NoPoller
<1>14. ASSUME NEW g \in Connects, Resume(g) PROVE Stable
    BY <1>14 DEF Resume
<1>15. ASSUME NEW g \in Connects, NEW u \in Updates, LoseReceipt(g, u) PROVE Stable
    <2>1. Received(u).peer = saved.peer
        BY <1>15, StateFacts DEF Received
    <2> QED
        BY <1>15, <2>1 DEF LoseReceipt, Command, Take, Keep, Lose, Fault, Current, Down,
               Forget
<1>16. ASSUME NEW g \in Connects, NEW u \in Updates, Ignore(g, u) PROVE Stable
    <2>1. Received(u).peer = saved.peer
        BY <1>16, StateFacts DEF Received
    <2> QED
        BY <1>16, <2>1 DEF Ignore, Command, Take, Keep, Lose, Fault, Current, Down, Forget
<1>17. ASSUME NEW g \in Connects, NEW u \in Updates, RequestPairing(g, u) PROVE Stable
    <2>1. Received(u).peer = saved.peer
        BY <1>17, StateFacts DEF Received
    <2> QED
        BY <1>17, <2>1 DEF RequestPairing, Command, Take, Keep, Lose, Fault, Current, Down,
           Forget
<1>18. ASSUME NEW g \in Connects, NEW u \in Updates, Answer(g, u) PROVE Stable
    <2>1. Received(u).peer = saved.peer
        BY <1>18, StateFacts DEF Received
    <2> QED
        BY <1>18, <2>1 DEF Answer, Command, Take, Keep, Lose, Fault, Current, Down, Forget
<1>19. ASSUME NEW g \in Connects, NEW u \in Updates, NEW t \in Tasks, UseTask(g, u, t)
       PROVE  Stable
    <2>1. Received(u).peer = saved.peer
        BY <1>19, StateFacts DEF Received
    <2>2. ran' = [ran EXCEPT ![u] = @ + 1]
        BY <1>19 DEF UseTask, Ran
    <2>3. Received(u) \in State
        BY <1>19, TakeType DEF UseTask, Command
    <2>4. [Received(u) EXCEPT !.selected = t].peer = saved.peer
        BY <2>1, <2>3, StateFacts
    <2>6. saved'.peer = saved.peer /\ UNCHANGED <<mail, link, gen>>
        BY <1>19, <2>1, <2>2, <2>4 DEF UseTask, Keep, Lose
    <2> QED
        BY <2>2, <2>6
<1>20. ASSUME NEW g \in Connects, NEW u \in Updates, NEW t \in Tasks, NewTask(g, u, t)
       PROVE  Stable
    <2>1. Received(u).peer = saved.peer
        BY <1>20, StateFacts DEF Received
    <2>2. ran' = [ran EXCEPT ![u] = @ + 1]
        BY <1>20 DEF NewTask, Ran
    <2>3. Received(u) \in State
        BY <1>20, TakeType DEF NewTask, Command
    <2> DEFINE shared == [Received(u) EXCEPT !.allowed = @ \cup {t}]
    <2>4. shared.peer = saved.peer /\ shared \in State
        BY <2>1, <2>3, StateFacts DEF State
    <2>5. [shared EXCEPT !.selected = t].peer = saved.peer
        BY <2>4, StateFacts
    <2>6. saved'.peer = saved.peer /\ UNCHANGED <<mail, link, gen>>
        BY <1>20, <2>1, <2>2, <2>4, <2>5 DEF NewTask, Keep, Lose
    <2> QED
        BY <2>2, <2>6
<1>21. ASSUME NEW g \in Connects, NEW u \in Updates, NEW t \in Tasks, StopTurn(g, u, t)
       PROVE  Stable
    <2>1. Received(u).peer = saved.peer
        BY <1>21, StateFacts DEF Received
    <2>2. ran' = [ran EXCEPT ![u] = @ + 1]
        BY <1>21 DEF StopTurn, Ran
    <2>6. saved'.peer = saved.peer /\ UNCHANGED <<mail, link, gen>>
        BY <1>21, <2>1, <2>2 DEF StopTurn, Keep, Lose
    <2> QED
        BY <2>2, <2>6
<1>22. ASSUME NEW g \in Connects, NEW u \in Updates, NEW t \in Tasks, QueueText(g, u, t)
       PROVE  Stable
    <2>1. Received(u).peer = saved.peer
        BY <1>22, StateFacts DEF Received
    <2>2. ran' = [ran EXCEPT ![u] = @ + 1]
        BY <1>22 DEF QueueText, Ran
    <2>6. saved'.peer = saved.peer /\ UNCHANGED <<mail, link, gen>>
        BY <1>22, <2>1, <2>2 DEF QueueText, Keep, Lose
    <2> QED
        BY <2>2, <2>6
<1>23. ASSUME NEW g \in Connects, NEW u \in Updates, NEW t \in Tasks, StartText(g, u, t)
       PROVE  Stable
    <2>1. Received(u).peer = saved.peer
        BY <1>23, StateFacts DEF Received
    <2>2. ran' = [ran EXCEPT ![u] = @ + 1]
        BY <1>23 DEF StartText, Ran
    <2>6. saved'.peer = saved.peer /\ UNCHANGED <<mail, link, gen>>
        BY <1>23, <2>1, <2>2 DEF StartText, Keep, Lose
    <2> QED
        BY <2>2, <2>6
<1>24. ASSUME NEW g \in Connects, NEW t \in Tasks, Prepared(g, t) PROVE Stable
    BY <1>24 DEF Prepared, Idle
<1>25. ASSUME NEW t \in Tasks, StartTurn(t) PROVE Stable
    BY <1>25 DEF StartTurn, Idle, CallBack, Owed
<1>26. ASSUME NEW t \in Tasks, EndTurn(t) PROVE Stable
    BY <1>26 DEF EndTurn, Idle, Callbacks, Serves, Live, Owed
<1>27. ASSUME NEW t \in Tasks, NEW u \in Updates, Finish(t, u) PROVE Stable
    BY <1>27 DEF Finish, CallBack, Owed
<1>28. ASSUME NEW j \in jobs, SendPart(j) PROVE Stable
    BY <1>28 DEF SendPart
<1>29. ASSUME NEW j \in jobs, EndReply(j) PROVE Stable
    BY <1>29 DEF EndReply
<1>30. ASSUME Crash PROVE Stable
    BY <1>30 DEF Crash, Fault, Down, Forget, NoPoller, Idle
<1>31. CASE UNCHANGED vars
    BY <1>31 DEF vars
<1> QED
    BY <1>1, <1>2, <1>3, <1>4, <1>5, <1>6, <1>7, <1>8, <1>9, <1>10, <1>11, <1>12, <1>13,
       <1>14, <1>15, <1>16, <1>17, <1>18, <1>19, <1>20, <1>21, <1>22, <1>23, <1>24, <1>25,
       <1>26, <1>27, <1>28, <1>29, <1>30, <1>31 DEF Next, Operator, Polling, Consume, Work

(* The connections of routes and replies were numbered before, and the one  *)
(* that is being made has none yet.                                         *)
Passed(e) == e <= gen /\ (e = gen => link # "connecting")

Numbered ==
    /\ \A t \in Tasks : route[t] # None => Passed(route[t].epoch)
    /\ \A t \in Tasks : exec[t].prior # None => Passed(exec[t].prior.epoch)
    /\ \A j \in jobs : Passed(j.epoch)

(* Who asked for a turn is the account that is paired. *)
Asking == \A t \in Tasks : \A u \in asked[t] :
    link = "on" /\ ran[u] > 0 /\ saved.peer = mail[u].from

(* A reply that can still be sent is for the account that is paired. *)
Owing ==
    /\ \A j \in jobs : \A u \in j.about :
          ran[u] > 0 /\ (Current(j.epoch) => saved.peer = mail[u].from)
    /\ \A u \in Updates : told[u] # {} => ran[u] > 0
    /\ AnswersReachTheirAsker

(* How questions, routes, replies and answers come about: a question with a *)
(* command of the paired account, a route with a command or from the chat's *)
(* own past, a reply from a route and an answer from a reply.               *)
Flow ==
    /\ \A t \in Tasks : \A u \in asked'[t] :
          link' = "on" /\ (u \in asked[t] \/ (ran'[u] > 0 /\ saved'.peer = mail'[u].from))
    /\ \A t \in Tasks : \/ route'[t] \in {None, route[t], exec[t].prior}
                        \/ route'[t] # None /\ Current(route'[t].epoch)
    /\ \A t \in Tasks : exec'[t].prior \in {None, exec[t].prior, route[t]}
    /\ \A j \in jobs' : \/ \E i \in jobs : j.epoch = i.epoch /\ j.about = i.about
                       \/ \E t \in Tasks : route[t] # None /\ j = Owed(t)
    /\ \A u \in Updates : \/ told'[u] = told[u]
                          \/ /\ \E j \in jobs : u \in j.about /\ Current(j.epoch)
                             /\ state.peer # None
                             /\ told'[u] = told[u] \cup {state.peer}

(* A passed number stays passed. *)
LEMMA PassedStays ==
    ASSUME TypeOK, Stable, NEW e \in Nat, Passed(e)
    PROVE  e <= gen' /\ (e = gen' => link' # "connecting")
BY DEF TypeOK, Stable, Passed

(* Routes and replies keep passed numbers. *)
LEMMA NumberedStep ==
    ASSUME TypeOK, TypeOK', Stable, Flow, Numbered
    PROVE  Numbered'
<1>1. ASSUME NEW t \in Tasks, route'[t] # None PROVE Passed(route[t].epoch)'
  <2>1. route'[t] \in Route /\ route'[t].epoch \in Nat
    BY <1>1 DEF TypeOK, Route, Connects
  <2>2. Passed(route'[t].epoch)
    BY <1>1 DEF Flow, Numbered, Current, Passed, TypeOK
  <2> QED
    BY <2>1, <2>2, PassedStays DEF Passed
<1>2. ASSUME NEW t \in Tasks, exec'[t].prior # None PROVE Passed(exec[t].prior.epoch)'
  <2>1. exec'[t] \in Exec
    BY DEF TypeOK
  <2>2. exec'[t].prior \in Route /\ exec'[t].prior.epoch \in Nat
    BY <1>2, <2>1 DEF Exec, Route, Connects
  <2>3. Passed(exec'[t].prior.epoch)
    BY <1>2 DEF Flow, Numbered
  <2> QED
    BY <2>2, <2>3, PassedStays DEF Passed
<1>3. ASSUME NEW j \in jobs' PROVE Passed(j.epoch)'
  <2>1. j \in Job /\ j.epoch \in Nat
    BY <1>3 DEF TypeOK, Job, Connects
  <2>2. Passed(j.epoch)
    BY <1>3 DEF Flow, Numbered, Owed
  <2> QED
    BY <2>1, <2>2, PassedStays DEF Passed
<1> QED
    BY <1>1, <1>2, <1>3 DEF Numbered

(* The account does not change under a question. *)
LEMMA AskingStep ==
    ASSUME TypeOK, TypeOK', Offered, Posted, Stable, Flow, Asking
    PROVE  Asking'
<1> SUFFICES ASSUME NEW t \in Tasks, NEW u \in asked'[t]
             PROVE  link' = "on" /\ ran'[u] > 0 /\ saved'.peer = mail'[u].from
    BY DEF Asking
<1>1. u \in Updates /\ link' = "on"
    BY DEF TypeOK, Flow
<1>2. CASE u \in asked[t]
  <2>1. link = "on" /\ ran[u] > 0 /\ saved.peer = mail[u].from
    BY <1>2 DEF Asking
  <2>2. mail[u] \in Mail
    BY <1>1, <2>1 DEF Posted, TypeOK
  <2>3. saved.peer # None
    BY <2>1, <2>2, TelegramAssumption DEF Mail
  <2> QED
    BY <1>1, <2>1, <2>3 DEF Stable
<1> QED
    BY <1>1, <1>2 DEF Flow

(* Replies and answers stay with the account that asked. *)
LEMMA OwingStep ==
    ASSUME TypeOK, TypeOK', Posted, Offered, Stable, Flow, Asking, Numbered, Owing
    PROVE  Owing'
<1>0. ASSUME NEW u \in Updates, ran[u] > 0
      PROVE  mail[u] \in Mail /\ mail[u].from # None /\ ran'[u] > 0 /\ mail'[u] = mail[u]
  <2>1. mail[u] \in Mail
    BY <1>0 DEF Posted, TypeOK
  <2> QED
    BY <1>0, <2>1, TelegramAssumption DEF Stable, Mail
<1>1. ASSUME NEW j \in jobs', NEW u \in j.about
      PROVE  ran'[u] > 0 /\ (Current(j.epoch)' => saved'.peer = mail'[u].from)
  <2>1. u \in Updates /\ j.epoch \in Nat
    BY DEF TypeOK, Job, Connects
  <2>2. /\ ran[u] > 0 /\ Passed(j.epoch)
        /\ Current(j.epoch) => saved.peer = mail[u].from
    BY DEF Flow, Owing, Owed, Asking, Numbered
  <2>3. ASSUME link' = "on", gen' = j.epoch PROVE saved'.peer = mail'[u].from
    <3>1. link = "on" /\ gen = j.epoch
      BY <2>1, <2>2, <2>3 DEF Stable, Passed, TypeOK
    <3>2. saved.peer = mail[u].from /\ saved.peer # None
      BY <1>0, <2>1, <2>2, <3>1 DEF Current
    <3> QED
      BY <1>0, <2>1, <2>2, <2>3, <3>1, <3>2 DEF Stable
  <2> QED
    BY <1>0, <2>1, <2>2, <2>3 DEF Current
<1>2. ASSUME NEW u \in Updates, told'[u] # {}
      PROVE  ran'[u] > 0 /\ told'[u] = {mail'[u].from}
  <2>1. CASE told'[u] = told[u]
    BY <1>0, <1>2, <2>1 DEF Owing, AnswersReachTheirAsker
  <2>2. CASE told'[u] # told[u]
    <3>1. PICK j \in jobs : u \in j.about /\ Current(j.epoch)
      BY <2>2 DEF Flow
    <3>2. ran[u] > 0 /\ saved.peer = mail[u].from
      BY <3>1 DEF Owing
    <3>3. state.peer = saved.peer /\ told'[u] = told[u] \cup {state.peer}
      BY <2>2, <3>1 DEF Flow, Offered, Current
    <3>4. told[u] = {} \/ told[u] = {mail[u].from}
      BY DEF Owing, AnswersReachTheirAsker
    <3> QED
      BY <1>0, <3>2, <3>3, <3>4
  <2> QED
    BY <2>1, <2>2
<1> QED
    BY <1>1, <1>2 DEF Owing, AnswersReachTheirAsker

(* What a part of a reply adds to what was told. *)
LEMMA Tells ==
    ASSUME NEW j, SendPart(j), NEW u \in Updates
    PROVE  told'[u] = told[u] \/ (u \in j.about /\ told'[u] = told[u] \cup {state.peer})
<1>1. told'[u] = IF u \in j.about THEN told[u] \cup {state.peer} ELSE told[u]
    BY DEF SendPart
<1> QED
    BY <1>1

(* Every step is a part of the flow. *)
LEMMA FlowStep ==
    ASSUME TypeOK, Posted, Offered, Behind, Asking, [Next]_vars
    PROVE  Flow
<1> USE TelegramAssumption
       DEF TypeOK, telegram, file, connection, pairing, work, replies, app, history
<1>1. ASSUME NEW p \in Peers, NEW k \in 0..MaxCodes, Send(p, k) PROVE Flow
    BY <1>1 DEF Send, Flow, Asking
<1>2. ASSUME Connect PROVE Flow
    BY <1>2 DEF Connect, Forget, Flow, Asking
<1>3. ASSUME Connected PROVE Flow
    BY <1>3 DEF Connected, Keep, Lose, Fault, Down, Forget, NewCode, Flow, Asking
<1>4. ASSUME Disconnect PROVE Flow
    BY <1>4 DEF Disconnect, Down, Forget, Flow, Asking
<1>5. ASSUME BeginPairing PROVE Flow
    BY <1>5 DEF BeginPairing, NewCode, Flow, Asking
<1>6. ASSUME ApprovePeer PROVE Flow
    BY <1>6 DEF ApprovePeer, Keep, Lose, Fault, Flow, Asking
<1>7. ASSUME Reset PROVE Flow
    BY <1>7 DEF Reset, FirstState, Keep, Lose, Fault, Down, Forget, Flow, Asking
<1>8. ASSUME NEW t \in Tasks, Share(t) PROVE Flow
    BY <1>8 DEF Share, Sharing, Keep, Lose, Fault, Flow, Asking
<1>9. ASSUME NEW t \in Tasks, Unshare(t) PROVE Flow
    BY <1>9 DEF Unshare, Sharing, Keep, Lose, Fault, Flow, Asking
<1>10. ASSUME NEW t \in Tasks, Select(t) PROVE Flow
    BY <1>10 DEF Select, Keep, Lose, Fault, Flow, Asking
<1>11. ASSUME NEW t \in Tasks, MacTurn(t) PROVE Flow
    BY <1>11 DEF MacTurn, Idle, Flow, Asking
<1>12. ASSUME NEW g \in Connects, Fetch(g) PROVE Flow
    BY <1>12 DEF Fetch, Current, Flow, Asking
<1>13. ASSUME NEW g \in Connects, Leave(g) PROVE Flow
    BY <1>13 DEF Leave, NoPoller, Flow, Asking
<1>14. ASSUME NEW g \in Connects, Resume(g) PROVE Flow
    BY <1>14 DEF Resume, Flow, Asking
<1>15. ASSUME NEW g \in Connects, NEW u \in Updates, LoseReceipt(g, u) PROVE Flow
    BY <1>15 DEF LoseReceipt, Take, Received, Lose, Fault, Down, Forget, Flow, Asking
<1>16. ASSUME NEW g \in Connects, NEW u \in Updates, Ignore(g, u) PROVE Flow
    BY <1>16 DEF Ignore, Take, Received, Keep, Flow, Asking
<1>17. ASSUME NEW g \in Connects, NEW u \in Updates, RequestPairing(g, u) PROVE Flow
    BY <1>17 DEF RequestPairing, Take, Received, Keep, Flow, Asking
<1>18. ASSUME NEW g \in Connects, NEW u \in Updates, Answer(g, u) PROVE Flow
    BY <1>18 DEF Answer, Command, Take, Received, Keep, Flow, Asking
<1>19. ASSUME NEW g \in Connects, NEW u \in Updates, NEW t \in Tasks, UseTask(g, u, t)
       PROVE  Flow
    BY <1>19 DEF UseTask, Command, Take, Received, Keep, Lose, Fault, Ran, Flow, Asking
<1>20. ASSUME NEW g \in Connects, NEW u \in Updates, NEW t \in Tasks, NewTask(g, u, t)
       PROVE  Flow
    BY <1>20 DEF NewTask, Command, Take, Received, Keep, Lose, Fault, Ran, Flow, Asking
<1>21. ASSUME NEW g \in Connects, NEW u \in Updates, NEW t \in Tasks, StopTurn(g, u, t)
       PROVE  Flow
    BY <1>21 DEF StopTurn, Command, Take, Received, Keep, Ran, Flow, Asking, Exec
<1>22. ASSUME NEW g \in Connects, NEW u \in Updates, NEW t \in Tasks, QueueText(g, u, t)
       PROVE  Flow
    <2>1. ran[u] = 0 /\ mail[u] \in Mail /\ saved.peer \in Peers
        BY <1>22, FreshCommand DEF QueueText, Command
    <2>2. Received(u).peer = saved.peer /\ link = "on" /\ gen = g
        BY <1>22, StateFacts DEF QueueText, Command, Take, Current, Received
    <2>3. ran'[u] > 0 /\ saved'.peer = mail'[u].from /\ UNCHANGED <<link, gen, jobs, told>>
        BY <1>22, <2>1, <2>2 DEF QueueText, Command, Keep, Ran
    <2>4. asked'[t] = asked[t] \cup {u} /\ \A x \in Tasks : x # t => asked'[x] = asked[x]
        BY <1>22 DEF QueueText, RouteTo
    <2>5. route'[t].epoch = g /\ \A x \in Tasks : x # t => route'[x] = route[x]
        BY <1>22 DEF QueueText, RouteTo
    <2>6. route'[t] # None
      <3>1. route'[t] \in Route
        <4>1. exec[t].turn \in Turns \cup {None}
          BY DEF Exec
        <4> QED
          BY <1>22, <4>1 DEF QueueText, RouteTo, Route
      <3> QED
        BY <3>1
    <2>7. \A x \in Tasks : exec'[x].prior \in {None, exec[x].prior, route[x]}
        BY <1>22 DEF QueueText, Idle
    <2> QED
        BY <2>2, <2>3, <2>4, <2>5, <2>6, <2>7 DEF Flow, Current, Asking
<1>23. ASSUME NEW g \in Connects, NEW u \in Updates, NEW t \in Tasks, StartText(g, u, t)
       PROVE  Flow
    <2>1. ran[u] = 0 /\ mail[u] \in Mail /\ saved.peer \in Peers
        BY <1>23, FreshCommand DEF StartText, Command
    <2>2. Received(u).peer = saved.peer /\ link = "on" /\ gen = g
        BY <1>23, StateFacts DEF StartText, Command, Take, Current, Received
    <2>3. ran'[u] > 0 /\ saved'.peer = mail'[u].from /\ UNCHANGED <<link, gen, jobs, told>>
        BY <1>23, <2>1, <2>2 DEF StartText, Command, Keep, Ran
    <2>4. asked'[t] = asked[t] \cup {u} /\ \A x \in Tasks : x # t => asked'[x] = asked[x]
        BY <1>23 DEF StartText, RouteTo
    <2>5. route'[t].epoch = g /\ \A x \in Tasks : x # t => route'[x] = route[x]
        BY <1>23 DEF StartText, RouteTo
    <2>6. route'[t] # None
      <3>1. route'[t] \in Route
        <4>1. exec[t].turn \in Turns \cup {None}
          BY DEF Exec
        <4> QED
          BY <1>23, <4>1 DEF StartText, RouteTo, Route
      <3> QED
        BY <3>1
    <2>7. \A x \in Tasks : exec'[x].prior \in {None, exec[x].prior, route[x]}
        BY <1>23 DEF StartText, Idle
    <2> QED
        BY <2>2, <2>3, <2>4, <2>5, <2>6, <2>7 DEF Flow, Current, Asking
<1>24. ASSUME NEW g \in Connects, NEW t \in Tasks, Prepared(g, t) PROVE Flow
    <2>1. UNCHANGED <<link, gen, jobs, saved, mail, ran, told>>
        BY <1>24 DEF Prepared
    <2>2. \A x \in Tasks : asked'[x] \subseteq asked[x]
          /\ route'[x] \in {route[x], exec[x].prior}
        BY <1>24 DEF Prepared
    <2>3. \A x \in Tasks : exec'[x].prior \in {None, exec[x].prior}
      <3>1. exec[t] \in Exec
        OBVIOUS
      <3>2. [exec[t] EXCEPT !.at = "ready", !.prior = None].prior = None
            /\ Idle.prior = None
        BY <3>1 DEF Exec, Idle
      <3> QED
        BY <1>24, <3>2 DEF Prepared
    <2> QED
        BY <2>1, <2>2, <2>3 DEF Flow, Asking
<1>25. ASSUME NEW t \in Tasks, StartTurn(t) PROVE Flow
    <2>1. UNCHANGED <<link, gen, saved, mail, ran, told>>
        BY <1>25 DEF StartTurn
    <2>2. \A x \in Tasks : asked'[x] \subseteq asked[x] /\ route'[x] \in {None, route[x]}
        BY <1>25 DEF StartTurn, CallBack
    <2>3. \A x \in Tasks : exec'[x].prior \in {None, exec[x].prior}
      <3>1. exec[t] \in Exec
        OBVIOUS
      <3>2. [exec[t] EXCEPT !.at = "running", !.turn = turns + 1,
                   !.open = TRUE].prior = exec[t].prior
            /\ Idle.prior = None
        BY <3>1 DEF Exec, Idle
      <3> QED
        BY <1>25, <3>2 DEF StartTurn
    <2>4. jobs' = jobs \/ (route[t] # None /\ jobs' = jobs \cup {Owed(t)})
        BY <1>25 DEF StartTurn, CallBack
    <2> QED
        BY <2>1, <2>2, <2>3, <2>4 DEF Flow, Asking
<1>26. ASSUME NEW t \in Tasks, EndTurn(t) PROVE Flow
    BY <1>26 DEF EndTurn, Idle, Callbacks, Serves, Live, Owed, Flow, Asking, Exec
<1>27. ASSUME NEW t \in Tasks, NEW u \in Updates, Finish(t, u) PROVE Flow
    BY <1>27 DEF Finish, CallBack, Owed, Flow, Asking, Exec
<1>28. ASSUME NEW j \in jobs, SendPart(j) PROVE Flow
    <2>1. \A u \in Updates : \/ told'[u] = told[u]
                           \/ (u \in j.about /\ told'[u] = told[u] \cup {state.peer})
        BY <1>28, Tells, Zenon
    <2>2. Current(j.epoch) /\ state.peer # None
        BY <1>28 DEF SendPart, Sendable
    <2>3. j \in Job
        OBVIOUS
    <2>4. [j EXCEPT !.to = state.peer].epoch = j.epoch
          /\ [j EXCEPT !.to = state.peer].about = j.about
        BY <2>3 DEF Job
    <2>5. \A i \in jobs' : \E h \in jobs : i.epoch = h.epoch /\ i.about = h.about
        BY <1>28, <2>4 DEF SendPart
    <2> QED
        BY <1>28, <2>1, <2>2, <2>5 DEF SendPart, Flow, Asking
<1>29. ASSUME NEW j \in jobs, EndReply(j) PROVE Flow
    BY <1>29 DEF EndReply, Flow, Asking
<1>30. ASSUME Crash PROVE Flow
    BY <1>30 DEF Crash, Fault, Down, Forget, NoPoller, Idle, Flow, Asking
<1>31. CASE UNCHANGED vars
    BY <1>31 DEF vars, Flow, Asking
<1> QED
    BY <1>1, <1>2, <1>3, <1>4, <1>5, <1>6, <1>7, <1>8, <1>9, <1>10, <1>11, <1>12, <1>13,
       <1>14, <1>15, <1>16, <1>17, <1>18, <1>19, <1>20, <1>21, <1>22, <1>23, <1>24, <1>25,
       <1>26, <1>27, <1>28, <1>29, <1>30, <1>31 DEF Next, Operator, Polling, Consume, Work

(* A chat that was asked something has the live route of one of the         *)
(* questions.  The callbacks still to come are of other messages, and so is *)
(* the route that a turn in preparation would give way to.                  *)
Rest(t) == asked[t] \ {exec[t].by}

Expects(t) ==
    /\ asked[t] # {} => Live(t) /\ route[t].id \in asked[t]
    /\ \A u \in finishing[t] : ran[u] > 0 /\ u \notin asked[t]
    /\ exec[t].by # None => ran[exec[t].by] > 0
    /\ exec[t].at = "prepare" /\ Rest(t) # {} =>
          exec[t].prior # None /\ Current(exec[t].prior.epoch)
                /\ exec[t].prior.id \in Rest(t)

(* What most steps do to a chat: nothing to its questions and its route, or *)
(* they take both away.                                                     *)
SameQuestions(t) ==
    /\ asked'[t] = asked[t] /\ route'[t] = route[t]
    /\ finishing'[t] \subseteq finishing[t]
    /\ exec'[t].by \in {exec[t].by, None}
    /\ exec'[t].at = "prepare" => exec'[t] = exec[t]

NoQuestions(t) ==
    /\ asked'[t] = {}
    /\ \A u \in finishing'[t] : u \in finishing[t] \/ (u = exec[t].by /\ u # None)
    /\ exec'[t].by \in {exec[t].by, None}

(* Both keep what a chat expects. *)
LEMMA ExpectsSame ==
    ASSUME TypeOK, TypeOK', Stable, Asking, Asking',
           NEW t \in Tasks, Expects(t), SameQuestions(t)
    PROVE  Expects(t)'
<1>1. asked'[t] # {} => link = "on" /\ link' = "on" /\ gen' = gen
    BY DEF Asking, SameQuestions, Stable
<1>2. exec[t].by # None => exec[t].by \in Updates
    BY DEF TypeOK, Exec
<1>3. \A u \in finishing[t] : u \in Updates
    BY DEF TypeOK
<1>4. (asked[t] # {} => Live(t) /\ route[t].id \in asked[t])'
    BY <1>1 DEF Expects, SameQuestions, Live, Current
<1>5. (\A u \in finishing[t] : ran[u] > 0 /\ u \notin asked[t])'
    BY <1>3 DEF Expects, SameQuestions, Stable
<1>6. (exec[t].by # None => ran[exec[t].by] > 0)'
    BY <1>2 DEF Expects, SameQuestions, Stable
<1>7. ASSUME exec'[t].at = "prepare", Rest(t)' # {}
      PROVE  /\ exec'[t].prior # None /\ Current(exec[t].prior.epoch)'
             /\ exec'[t].prior.id \in Rest(t)'
  <2>1. exec'[t] = exec[t] /\ Rest(t)' = Rest(t) /\ asked'[t] # {}
    BY <1>7 DEF SameQuestions, Rest
  <2> QED
    BY <1>1, <1>7, <2>1 DEF Expects, Current
<1> QED
    BY <1>4, <1>5, <1>6, <1>7 DEF Expects

(* Nothing is expected without questions. *)
LEMMA ExpectsNothing ==
    ASSUME TypeOK, Stable, NEW t \in Tasks, Expects(t), NoQuestions(t)
    PROVE  Expects(t)'
<1>1. Rest(t)' = {}
    BY DEF Rest, NoQuestions
<1>2. exec[t].by # None => exec[t].by \in Updates /\ ran'[exec[t].by] > 0
    BY DEF TypeOK, Exec, Expects, Stable
<1>3. \A u \in finishing[t] : u \in Updates /\ ran'[u] > 0
    BY DEF TypeOK, Expects, Stable
<1> QED
    BY <1>1, <1>2, <1>3 DEF Expects, NoQuestions


(* Every step leaves the questions of a chat, takes them away, or keeps     *)
(* what it expects.                                                         *)
LEMMA QuestionsStep ==
    ASSUME TypeOK, TypeOK', Posted, Offered, Behind, Stable, Asking,
           \A x \in Tasks : Expects(x), [Next]_vars
    PROVE  \A x \in Tasks : SameQuestions(x) \/ NoQuestions(x) \/ Expects(x)'
<1> USE TelegramAssumption
       DEF TypeOK, telegram, file, connection, pairing, work, replies, app, history
<1> DEFINE Kept == \A x \in Tasks : SameQuestions(x) \/ NoQuestions(x) \/ Expects(x)'
<1> SUFFICES Kept
    OBVIOUS
<1>1. ASSUME NEW p \in Peers, NEW k \in 0..MaxCodes, Send(p, k) PROVE Kept
    BY <1>1 DEF Send, SameQuestions
<1>2. ASSUME Connect PROVE Kept
    BY <1>2 DEF Connect, Forget, SameQuestions, NoQuestions
<1>3. ASSUME Connected PROVE Kept
    BY <1>3 DEF Connected, Keep, Lose, Fault, Down, Forget, NewCode, SameQuestions,
           NoQuestions
<1>4. ASSUME Disconnect PROVE Kept
    BY <1>4 DEF Disconnect, Down, Forget, SameQuestions, NoQuestions
<1>5. ASSUME BeginPairing PROVE Kept
    BY <1>5 DEF BeginPairing, NewCode, SameQuestions
<1>6. ASSUME ApprovePeer PROVE Kept
    BY <1>6 DEF ApprovePeer, Keep, Lose, Fault, SameQuestions
<1>7. ASSUME Reset PROVE Kept
    BY <1>7 DEF Reset, FirstState, Keep, Lose, Fault, Down, Forget, SameQuestions,
           NoQuestions
<1>8. ASSUME NEW t \in Tasks, Share(t) PROVE Kept
    BY <1>8 DEF Share, Sharing, Keep, Lose, Fault, SameQuestions
<1>9. ASSUME NEW t \in Tasks, Unshare(t) PROVE Kept
    BY <1>9 DEF Unshare, Sharing, Keep, Lose, Fault, SameQuestions, NoQuestions
<1>10. ASSUME NEW t \in Tasks, Select(t) PROVE Kept
    BY <1>10 DEF Select, Keep, Lose, Fault, SameQuestions
<1>11. ASSUME NEW t \in Tasks, MacTurn(t) PROVE Kept
    BY <1>11 DEF MacTurn, Idle, SameQuestions
<1>12. ASSUME NEW g \in Connects, Fetch(g) PROVE Kept
    BY <1>12 DEF Fetch, Current, SameQuestions
<1>13. ASSUME NEW g \in Connects, Leave(g) PROVE Kept
    BY <1>13 DEF Leave, NoPoller, SameQuestions
<1>14. ASSUME NEW g \in Connects, Resume(g) PROVE Kept
    BY <1>14 DEF Resume, SameQuestions
<1>15. ASSUME NEW g \in Connects, NEW u \in Updates, LoseReceipt(g, u) PROVE Kept
    BY <1>15 DEF LoseReceipt, Take, Received, Lose, Fault, Down, Forget, SameQuestions,
       NoQuestions
<1>16. ASSUME NEW g \in Connects, NEW u \in Updates, Ignore(g, u) PROVE Kept
    BY <1>16 DEF Ignore, Take, Received, Keep, SameQuestions
<1>17. ASSUME NEW g \in Connects, NEW u \in Updates, RequestPairing(g, u) PROVE Kept
    BY <1>17 DEF RequestPairing, Take, Received, Keep, SameQuestions
<1>18. ASSUME NEW g \in Connects, NEW u \in Updates, Answer(g, u) PROVE Kept
    BY <1>18 DEF Answer, Command, Take, Received, Keep, SameQuestions
<1>19. ASSUME NEW g \in Connects, NEW u \in Updates, NEW t \in Tasks, UseTask(g, u, t)
       PROVE  Kept
    BY <1>19 DEF UseTask, Command, Take, Received, Keep, Lose, Fault, Ran, SameQuestions
<1>20. ASSUME NEW g \in Connects, NEW u \in Updates, NEW t \in Tasks, NewTask(g, u, t)
       PROVE  Kept
    BY <1>20 DEF NewTask, Command, Take, Received, Keep, Lose, Fault, Ran, SameQuestions
<1>21. ASSUME NEW g \in Connects, NEW u \in Updates, NEW t \in Tasks, StopTurn(g, u, t)
       PROVE  Kept
    BY <1>21 DEF StopTurn, Command, Take, Received, Keep, Ran, SameQuestions, Exec
<1>22. ASSUME NEW g \in Connects, NEW u \in Updates, NEW t \in Tasks, QueueText(g, u, t)
       PROVE  Kept
    <2>1. ran[u] = 0 /\ u \notin asked[t] /\ u \notin finishing[t] /\ ran'[u] > 0
        BY <1>22, FreshCommand DEF QueueText, Command, Ran, Asking, Expects
    <2>2. link = "on" /\ gen = g /\ UNCHANGED <<link, gen, finishing>>
        BY <1>22 DEF QueueText, Command, Take, Current
    <2>4. asked'[t] = asked[t] \cup {u}
        BY <1>22 DEF QueueText, RouteTo
    <2>5. route'[t] = [id |-> u, epoch |-> g, source |-> exec[t].turn]
        BY <1>22 DEF QueueText, RouteTo
    <2>6. route'[t].epoch = g /\ route'[t].id = u /\ route'[t] # None
      <3>1. route'[t] \in Route
        <4>1. exec[t].turn \in Turns \cup {None}
          BY DEF Exec
        <4> QED
          BY <2>5, <4>1 DEF Route
      <3> QED
        BY <2>5, <3>1
    <2>7. Live(t)' /\ route'[t].id \in asked'[t]
        BY <2>2, <2>4, <2>6 DEF Live, Current
    <2>8. (\A v \in finishing[t] : ran[v] > 0 /\ v \notin asked[t])'
        BY <2>1, <2>2, <2>4 DEF Expects, Stable
    <2>9. exec' = exec /\ exec[t].at = "running"
        BY <1>22 DEF QueueText
    <2>10. exec[t].by # None => exec[t].by \in Updates
        BY DEF Exec
    <2>11. (exec[t].by # None => ran[exec[t].by] > 0)'
        BY <2>9, <2>10 DEF Expects, Stable
    <2>12. Expects(t)'
        BY <2>7, <2>8, <2>9, <2>11 DEF Expects
    <2>13. \A x \in Tasks : x # t => SameQuestions(x)
        BY <1>22 DEF QueueText, RouteTo, SameQuestions
    <2> QED
        BY <2>12, <2>13
<1>23. ASSUME NEW g \in Connects, NEW u \in Updates, NEW t \in Tasks, StartText(g, u, t)
       PROVE  Kept
    <2>1. ran[u] = 0 /\ u \notin asked[t] /\ u \notin finishing[t] /\ ran'[u] > 0
        BY <1>23, FreshCommand DEF StartText, Command, Ran, Asking, Expects
    <2>2. link = "on" /\ gen = g /\ UNCHANGED <<link, gen, finishing>>
        BY <1>23 DEF StartText, Command, Take, Current
    <2>4. asked'[t] = asked[t] \cup {u}
        BY <1>23 DEF StartText, RouteTo
    <2>5. route'[t] = [id |-> u, epoch |-> g, source |-> exec[t].turn]
        BY <1>23 DEF StartText, RouteTo
    <2>6. route'[t].epoch = g /\ route'[t].id = u /\ route'[t] # None
      <3>1. route'[t] \in Route
        <4>1. exec[t].turn \in Turns \cup {None}
          BY DEF Exec
        <4> QED
          BY <2>5, <4>1 DEF Route
      <3> QED
        BY <2>5, <3>1
    <2>7. Live(t)' /\ route'[t].id \in asked'[t]
        BY <2>2, <2>4, <2>6 DEF Live, Current
    <2>8. (\A v \in finishing[t] : ran[v] > 0 /\ v \notin asked[t])'
        BY <2>1, <2>2, <2>4 DEF Expects, Stable
    <2>9. exec'[t].by = u /\ exec'[t].prior = route[t]
        BY <1>23 DEF StartText, Idle
    <2>10. Rest(t)' = asked[t]
        BY <2>1, <2>4, <2>9 DEF Rest
    <2>11. asked[t] # {} => route[t] # None /\ link' = "on" /\ gen' = route[t].epoch
          /\ route[t].id \in asked[t]
        BY <2>2 DEF Expects, Live, Current
    <2>12. Expects(t)'
        BY <2>1, <2>7, <2>8, <2>9, <2>10, <2>11 DEF Expects, Current
    <2>13. \A x \in Tasks : x # t => SameQuestions(x)
        BY <1>23 DEF StartText, RouteTo, SameQuestions
    <2> QED
        BY <2>12, <2>13
<1>24. ASSUME NEW g \in Connects, NEW t \in Tasks, Prepared(g, t) PROVE Kept
    <2>1. UNCHANGED <<link, gen, finishing, ran>> /\ exec[t] \in Exec
        BY <1>24 DEF Prepared
    <2>2. CASE exec' = [exec EXCEPT ![t] = [@ EXCEPT !.at = "ready", !.prior = None]]
          /\ UNCHANGED <<route, asked>>
      <3>1. [exec[t] EXCEPT !.at = "ready", !.prior = None].by = exec[t].by
            /\ [exec[t] EXCEPT !.at = "ready", !.prior = None].at = "ready"
        BY <2>1 DEF Exec
      <3> QED
        BY <2>1, <2>2, <3>1 DEF SameQuestions
    <2>3. CASE /\ exec' = [exec EXCEPT ![t] = Idle]
               /\ route' = [route EXCEPT ![t] = exec[t].prior]
               /\ asked' = [asked EXCEPT ![t] = @ \ {exec[t].by}]
      <3>1. \A x \in Tasks : x # t => SameQuestions(x)
        BY <2>1, <2>3 DEF SameQuestions
      <3>2. asked'[t] = Rest(t) /\ route'[t] = exec[t].prior /\ exec'[t] = Idle
        BY <2>3 DEF Rest
      <3>3. exec[t].at = "prepare" /\ Idle.by = None /\ Idle.at = "idle"
        BY <1>24 DEF Prepared, Idle
      <3>4. CASE Rest(t) = {}
        BY <2>1, <3>1, <3>2, <3>3, <3>4 DEF NoQuestions
      <3>5. CASE Rest(t) # {}
        <4>1. Live(t)' /\ route'[t].id \in asked'[t]
          BY <2>1, <3>2, <3>3, <3>5 DEF Expects, Live, Current
        <4>2. (\A u \in finishing[t] : ran[u] > 0 /\ u \notin asked[t])'
          BY <2>1, <3>2 DEF Expects, Rest
        <4>3. Expects(t)'
          BY <3>2, <3>3, <4>1, <4>2 DEF Expects
        <4> QED
          BY <3>1, <4>3
      <3> QED
        BY <3>4, <3>5
    <2> QED
        BY <1>24, <2>2, <2>3 DEF Prepared
<1>25. ASSUME NEW t \in Tasks, StartTurn(t) PROVE Kept
    <2>1. UNCHANGED finishing /\ exec[t] \in Exec /\ Idle.by = None /\ Idle.at = "idle"
        BY <1>25 DEF StartTurn, Idle
    <2>2. [exec[t] EXCEPT !.at = "running", !.turn = turns + 1,
                 !.open = TRUE].by = exec[t].by
          /\ [exec[t] EXCEPT !.at = "running", !.turn = turns + 1,
                    !.open = TRUE].at = "running"
        BY <2>1 DEF Exec
    <2>3. exec'[t].by \in {exec[t].by, None} /\ exec'[t].at # "prepare"
        BY <1>25, <2>1, <2>2 DEF StartTurn
    <2>4. \A x \in Tasks : x # t => SameQuestions(x)
        BY <1>25 DEF StartTurn, CallBack, SameQuestions
    <2>5. (asked'[t] = asked[t] /\ route'[t] = route[t]) \/ asked'[t] = {}
        BY <1>25 DEF StartTurn
    <2>6. SameQuestions(t) \/ NoQuestions(t)
        BY <2>1, <2>3, <2>5 DEF SameQuestions, NoQuestions
    <2> QED
        BY <2>4, <2>6
<1>26. ASSUME NEW t \in Tasks, EndTurn(t) PROVE Kept
    <2>1. \A x \in Tasks : x # t => SameQuestions(x)
        BY <1>26 DEF EndTurn, SameQuestions
    <2>2. exec'[t] = Idle /\ Idle.by = None
        BY <1>26 DEF EndTurn, Idle
    <2>3. asked'[t] = {} /\ finishing'[t] = finishing[t] \cup Callbacks(exec[t])
        BY <1>26 DEF EndTurn
    <2>4. NoQuestions(t)
        BY <2>2, <2>3 DEF NoQuestions, Callbacks
    <2> QED
        BY <2>1, <2>4
<1>27. ASSUME NEW t \in Tasks, NEW u \in Updates, Finish(t, u) PROVE Kept
    <2>1. UNCHANGED <<exec, asked>> /\ finishing'[t] \subseteq finishing[t]
        BY <1>27 DEF Finish
    <2>2. \A x \in Tasks : x # t => SameQuestions(x)
        BY <1>27 DEF Finish, CallBack, SameQuestions
    <2>3. route'[t] = route[t] \/ asked[t] = {}
        BY <1>27 DEF Finish, CallBack, Expects
    <2>6. SameQuestions(t) \/ NoQuestions(t)
        BY <2>1, <2>3 DEF SameQuestions, NoQuestions
    <2> QED
        BY <2>2, <2>6
<1>28. ASSUME NEW j \in jobs, SendPart(j) PROVE Kept
    BY <1>28 DEF SendPart, SameQuestions
<1>29. ASSUME NEW j \in jobs, EndReply(j) PROVE Kept
    BY <1>29 DEF EndReply, SameQuestions
<1>30. ASSUME Crash PROVE Kept
    BY <1>30 DEF Crash, Fault, Down, Forget, NoPoller, Idle, SameQuestions, NoQuestions
<1>31. CASE UNCHANGED vars
    BY <1>31 DEF vars, SameQuestions
<1> QED
    BY <1>1, <1>2, <1>3, <1>4, <1>5, <1>6, <1>7, <1>8, <1>9, <1>10, <1>11, <1>12, <1>13,
       <1>14, <1>15, <1>16, <1>17, <1>18, <1>19, <1>20, <1>21, <1>22, <1>23, <1>24, <1>25,
       <1>26, <1>27, <1>28, <1>29, <1>30, <1>31 DEF Next, Operator, Polling, Consume, Work

(* As long as no save has failed: memory and file agree, a live route was   *)
(* asked for and is the one of the turn that is under way, and the route    *)
(* that a message replaced is not live.                                     *)
Tidy(t) ==
    /\ exec[t].at # "running" => exec[t].turn = None
    /\ faults = 0 /\ exec[t].at = "prepare"
          /\ exec[t].prior # None => ~ Current(exec[t].prior.epoch)
    /\ faults = 0 /\ Live(t) =>
          /\ asked[t] # {} /\ t \in saved.allowed /\ exec[t].at # "idle"
          /\ exec[t].at \in {"prepare", "ready"} =>
                 route[t].id = exec[t].by /\ route[t].epoch = exec[t].epoch
                       /\ route[t].source = None
          /\ exec[t].at = "running" => Serves(route[t], exec[t].turn)

Agree == faults = 0 => state = saved

(* What most steps do to a chat: nothing, or they leave it no live route.   *)
SameRoute(t) ==
    /\ asked'[t] = asked[t] /\ route'[t] = route[t] /\ exec'[t] = exec[t]
    /\ faults' = 0 /\ t \in saved.allowed => t \in saved'.allowed

NoRoute(t) ==
    /\ faults' = 0 => ~ Live(t)'
    /\ exec'[t].at # "running" => exec'[t].turn = None
    /\ exec'[t].at = "prepare" => exec'[t] = exec[t]

(* No route comes alive by itself. *)
LEMMA DeadStays ==
    ASSUME TypeOK, Stable, NEW e \in Nat, Passed(e), link' = "on", gen' = e
    PROVE  Current(e) /\ link = "on"
BY DEF TypeOK, Stable, Passed, Current

(* A save that fails is counted. *)
LEMMA SavedWell ==
    ASSUME NEW n, NEW m, NEW d, Keep(n) \/ Lose(m, d, n), TypeOK
    PROVE  faults' = 0 => Keep(n)
BY DEF TypeOK, Lose, Fault

(* Sharing sets what is shared. *)
LEMMA SharingAllows ==
    ASSUME TypeOK, NEW T, NEW n \in Sharing(T)
    PROVE  n.allowed = T
<1>1. PICK s : n = [saved EXCEPT !.allowed = T, !.selected = s]
    BY DEF Sharing
<1>2. [saved EXCEPT !.allowed = T, !.selected = s].allowed = T
    BY DEF TypeOK, State
<1> QED
    BY <1>1, <1>2

(* Both keep a chat tidy. *)
LEMMA TidySame ==
    ASSUME TypeOK, TypeOK', Stable, Numbered, faults' = 0 => faults = 0,
           NEW t \in Tasks, Tidy(t), SameRoute(t)
    PROVE  Tidy(t)'
<1>1. exec[t].prior # None => exec[t].prior.epoch \in Nat
    BY DEF TypeOK, Exec, Route, Connects
<1>2. route[t] # None => route[t].epoch \in Nat
    BY DEF TypeOK, Route, Connects
<1>3. ASSUME exec'[t].prior # None, Current(exec[t].prior.epoch)'
      PROVE  Current(exec[t].prior.epoch)
    BY <1>1, <1>3, DeadStays DEF SameRoute, Numbered, Current
<1>4. ASSUME Live(t)' PROVE Live(t)
    BY <1>2, <1>4, DeadStays DEF SameRoute, Numbered, Current, Live
<1>5. (exec[t].at # "running" => exec[t].turn = None)'
    BY DEF Tidy, SameRoute
<1>6. (faults = 0 /\ exec[t].at = "prepare"
      /\ exec[t].prior # None => ~ Current(exec[t].prior.epoch))'
    BY <1>3 DEF Tidy, SameRoute
<1>7. ASSUME faults' = 0, Live(t)'
      PROVE  /\ asked'[t] # {} /\ t \in saved'.allowed /\ exec'[t].at # "idle"
             /\ exec'[t].at \in {"prepare", "ready"} =>
                    /\ route'[t].id = exec'[t].by /\ route'[t].epoch = exec'[t].epoch
                    /\ route'[t].source = None
             /\ exec'[t].at = "running" => Serves(route[t], exec[t].turn)'
    BY <1>4, <1>7 DEF Tidy, SameRoute, Serves
<1> QED
    BY <1>5, <1>6, <1>7 DEF Tidy

(* A chat without a live route is tidy. *)
LEMMA TidyNone ==
    ASSUME TypeOK, TypeOK', Stable, Numbered, faults' = 0 => faults = 0,
           NEW t \in Tasks, Tidy(t), NoRoute(t)
    PROVE  Tidy(t)'
<1>1. exec[t].prior # None => exec[t].prior.epoch \in Nat
    BY DEF TypeOK, Exec, Route, Connects
<1>3. ASSUME exec'[t].at = "prepare", exec'[t].prior # None, Current(exec[t].prior.epoch)'
      PROVE  exec[t].prior # None /\ exec[t].at = "prepare" /\ Current(exec[t].prior.epoch)
    BY <1>1, <1>3, DeadStays DEF NoRoute, Numbered, Current
<1>6. (faults = 0 /\ exec[t].at = "prepare"
      /\ exec[t].prior # None => ~ Current(exec[t].prior.epoch))'
    BY <1>3 DEF Tidy, NoRoute
<1> QED
    BY <1>6 DEF Tidy, NoRoute

(* As long as no save fails, every step leaves memory and file in agreement *)
(* and each chat as it was, without a live route, or tidy.                  *)
LEMMA TidyStep ==
    ASSUME TypeOK, TypeOK', Posted, Offered, Behind, Stable, Asking, Numbered, Agree,
           \A x \in Tasks : Expects(x) /\ Tidy(x), [Next]_vars
    PROVE  faults' = 0 => faults = 0 /\ state' = saved'
          /\ \A x \in Tasks : SameRoute(x) \/ NoRoute(x) \/ Tidy(x)'
<1> USE TelegramAssumption
       DEF TypeOK, telegram, file, connection, pairing, work, replies, app, history
<1> DEFINE Kept == faults' = 0 => faults = 0 /\ state' = saved'
      /\ \A x \in Tasks : SameRoute(x) \/ NoRoute(x) \/ Tidy(x)'
<1> SUFFICES Kept
    OBVIOUS
<1>1. ASSUME NEW p \in Peers, NEW k \in 0..MaxCodes, Send(p, k) PROVE Kept
    BY <1>1 DEF Send, SameRoute, Agree
<1>2. ASSUME Connect PROVE Kept
    <2>1. faults' = 0 => faults = 0 /\ state' = saved'
        BY <1>2 DEF Connect, Agree
    <2>2. \A x \in Tasks : NoRoute(x)
        BY <1>2 DEF Connect, NoRoute, Tidy, Live, Down, Forget
    <2> QED
        BY <2>1, <2>2
<1>3. ASSUME Connected PROVE Kept
    <2>1. faults' = 0 => faults = 0 /\ state' = saved'
        BY <1>3 DEF Connected, Keep, Lose, Fault, Agree
    <2>2. link = "connecting" /\ gen' = gen /\ exec' = exec
        BY <1>3 DEF Connected
    <2>3. \A x \in Tasks : route'[x] = route[x] \/ route'[x] = None
        BY <1>3 DEF Connected, Down, Forget
    <2>4. \A x \in Tasks : ~ Live(x)'
        BY <2>2, <2>3 DEF Numbered, Passed, Live, Current
    <2>5. \A x \in Tasks : NoRoute(x)
        BY <2>2, <2>4 DEF NoRoute, Tidy
    <2> QED
        BY <2>1, <2>5
<1>4. ASSUME Disconnect PROVE Kept
    <2>1. faults' = 0 => faults = 0 /\ state' = saved'
        BY <1>4 DEF Disconnect, Agree
    <2>2. \A x \in Tasks : NoRoute(x)
        BY <1>4 DEF Disconnect, NoRoute, Tidy, Live, Down, Forget
    <2> QED
        BY <2>1, <2>2
<1>5. ASSUME BeginPairing PROVE Kept
    BY <1>5 DEF BeginPairing, NewCode, SameRoute, Agree
<1>6. ASSUME ApprovePeer PROVE Kept
    <2> DEFINE new == [saved EXCEPT !.peer = candidate]
    <2>1. new.allowed = saved.allowed
        BY DEF State
    <2>2. Keep(new) \/ Lose(state, saved, new)
        BY <1>6 DEF ApprovePeer
    <2> HIDE DEF new
    <2>3. faults' = 0 => faults = 0 /\ saved' = new /\ state' = saved'
        BY <2>2, SavedWell DEF Keep
    <2>4. \A x \in Tasks : SameRoute(x)
        BY <1>6, <2>1, <2>3 DEF ApprovePeer, SameRoute
    <2> QED
        BY <2>3, <2>4
<1>7. ASSUME Reset PROVE Kept
    <2>1. faults' = 0 => faults = 0 /\ state' = saved'
        BY <1>7 DEF Reset, Keep, Lose, Fault, Agree
    <2>2. \A x \in Tasks : NoRoute(x)
        BY <1>7 DEF Reset, NoRoute, Tidy, Live, Down, Forget
    <2> QED
        BY <2>1, <2>2
<1>8. ASSUME NEW t \in Tasks, Share(t) PROVE Kept
    <2>1. faults' = 0 => faults = 0 /\ state' = saved'
        BY <1>8 DEF Share, Keep, Lose, Fault, Agree
    <2>2. \A n \in Sharing(saved.allowed \cup {t}) : n.allowed = saved.allowed \cup {t}
        BY SharingAllows
    <2>3. \A x \in Tasks : SameRoute(x)
        BY <1>8, <2>2 DEF Share, Keep, Lose, Fault, SameRoute
    <2> QED
        BY <2>1, <2>3
<1>9. ASSUME NEW t \in Tasks, Unshare(t) PROVE Kept
    <2>2. \A n \in Sharing(saved.allowed \ {t}) : n.allowed = saved.allowed \ {t}
        BY SharingAllows
    <2>4. CASE faults' # 0
        BY <2>4
    <2>5. CASE faults' = 0
      <3>1. PICK n \in Sharing(saved.allowed \ {t}) : Keep(n)
            /\ route' = [route EXCEPT ![t] = None]
                                              /\ asked' = [asked EXCEPT ![t] = {}]
        BY <1>9, <2>5 DEF Unshare, Lose, Fault
      <3>2. state' = saved' /\ faults = 0 /\ saved'.allowed = saved.allowed \ {t}
        BY <2>2, <2>5, <3>1 DEF Keep
      <3>3. NoRoute(t)
        BY <1>9, <3>1 DEF Unshare, NoRoute, Tidy, Live
      <3>4. \A x \in Tasks : x # t => SameRoute(x)
        BY <1>9, <3>1, <3>2 DEF Unshare, SameRoute
      <3> QED
        BY <3>2, <3>3, <3>4
    <2> QED
        BY <2>4, <2>5
<1>10. ASSUME NEW t \in Tasks, Select(t) PROVE Kept
    <2> DEFINE new == [saved EXCEPT !.selected = t]
    <2>1. new.allowed = saved.allowed
        BY DEF State
    <2>2. Keep(new) \/ Lose(state, saved, new)
        BY <1>10 DEF Select
    <2> HIDE DEF new
    <2>3. faults' = 0 => faults = 0 /\ saved' = new /\ state' = saved'
        BY <2>2, SavedWell DEF Keep
    <2>4. \A x \in Tasks : SameRoute(x)
        BY <1>10, <2>1, <2>3 DEF Select, SameRoute
    <2> QED
        BY <2>3, <2>4
<1>11. ASSUME NEW t \in Tasks, MacTurn(t) PROVE Kept
    <2>1. UNCHANGED <<faults, state, saved, route, link, gen>>
        BY <1>11 DEF MacTurn
    <2>2. exec'[t].at = "running" /\ exec[t].at = "idle"
        BY <1>11 DEF MacTurn, Idle
    <2>3. NoRoute(t)
        BY <2>1, <2>2 DEF NoRoute, Tidy, Live, Current
    <2>4. \A x \in Tasks : x # t => SameRoute(x)
        BY <1>11 DEF MacTurn, SameRoute
    <2> QED
        BY <2>1, <2>3, <2>4 DEF Agree
<1>12. ASSUME NEW g \in Connects, Fetch(g) PROVE Kept
    BY <1>12 DEF Fetch, Current, SameRoute, Agree
<1>13. ASSUME NEW g \in Connects, Leave(g) PROVE Kept
    BY <1>13 DEF Leave, NoPoller, SameRoute, Agree
<1>14. ASSUME NEW g \in Connects, Resume(g) PROVE Kept
    BY <1>14 DEF Resume, SameRoute, Agree
<1>15. ASSUME NEW g \in Connects, NEW u \in Updates, LoseReceipt(g, u) PROVE Kept
    <2>1. faults' = 0 => faults = 0 /\ state' = saved'
        BY <1>15 DEF LoseReceipt, Lose, Fault, Agree
    <2>2. \A x \in Tasks : NoRoute(x)
        BY <1>15 DEF LoseReceipt, NoRoute, Tidy, Live, Down, Forget
    <2> QED
        BY <2>1, <2>2
<1>16. ASSUME NEW g \in Connects, NEW u \in Updates, Ignore(g, u) PROVE Kept
    <2>1. Received(u).allowed = saved.allowed
        BY DEF Received, State
    <2> QED
        BY <1>16, <2>1 DEF Ignore, Command, Keep, Agree, SameRoute
<1>17. ASSUME NEW g \in Connects, NEW u \in Updates, RequestPairing(g, u) PROVE Kept
    <2>1. Received(u).allowed = saved.allowed
        BY DEF Received, State
    <2> QED
        BY <1>17, <2>1 DEF RequestPairing, Command, Keep, Agree, SameRoute
<1>18. ASSUME NEW g \in Connects, NEW u \in Updates, Answer(g, u) PROVE Kept
    <2>1. Received(u).allowed = saved.allowed
        BY DEF Received, State
    <2> QED
        BY <1>18, <2>1 DEF Answer, Command, Keep, Agree, SameRoute
<1>19. ASSUME NEW g \in Connects, NEW u \in Updates, NEW t \in Tasks, UseTask(g, u, t)
       PROVE  Kept
    <2>1. Received(u) \in State /\ Received(u).allowed = saved.allowed
        BY <1>19, TakeType DEF UseTask, Command, Received, State
    <2>2. [Received(u) EXCEPT !.selected = t].allowed = saved.allowed
        BY <2>1 DEF State
    <2> DEFINE new == [Received(u) EXCEPT !.selected = t]
    <2>3. Keep(new) \/ Lose(Received(u), Received(u), new)
        BY <1>19 DEF UseTask
    <2>5. new.allowed = saved.allowed
        BY <2>2
    <2> HIDE DEF new
    <2>4. faults' = 0 => faults = 0 /\ saved' = new /\ state' = saved'
        BY <2>3, SavedWell DEF Keep
    <2>6. \A x \in Tasks : SameRoute(x)
        BY <1>19, <2>4, <2>5 DEF UseTask, SameRoute
    <2> QED
        BY <2>4, <2>6
<1>20. ASSUME NEW g \in Connects, NEW u \in Updates, NEW t \in Tasks, NewTask(g, u, t)
       PROVE  Kept
    <2> DEFINE shared == [Received(u) EXCEPT !.allowed = @ \cup {t}]
    <2>1. Received(u) \in State /\ Received(u).allowed = saved.allowed
        BY <1>20, TakeType DEF NewTask, Command, Received, State
    <2>2. shared \in State /\ shared.allowed = saved.allowed \cup {t}
        BY <2>1 DEF State
    <2>3. [shared EXCEPT !.selected = t].allowed = saved.allowed \cup {t}
        BY <2>2 DEF State
    <2> DEFINE new == [shared EXCEPT !.selected = t]
    <2>4. \/ Keep(new)
          \/ Lose(Received(u), Received(u), shared)
          \/ Lose(shared, shared, new)
        BY <1>20 DEF NewTask
    <2>7. new.allowed = saved.allowed \cup {t}
        BY <2>3
    <2> HIDE DEF new, shared
    <2>5. faults' = 0 => Keep(new)
        BY <2>4 DEF Lose, Fault
    <2>6. faults' = 0 => faults = 0 /\ saved' = new /\ state' = saved'
        BY <2>5 DEF Keep
    <2>8. \A x \in Tasks : SameRoute(x)
        BY <1>20, <2>6, <2>7 DEF NewTask, SameRoute
    <2> QED
        BY <2>6, <2>8
<1>21. ASSUME NEW g \in Connects, NEW u \in Updates, NEW t \in Tasks, StopTurn(g, u, t)
       PROVE  Kept
    <2>1. Received(u).allowed = saved.allowed
        BY DEF Received, State
    <2>2. UNCHANGED <<faults, route, asked, link, gen>> /\ saved' = Received(u)
          /\ state' = saved'
        BY <1>21 DEF StopTurn, Command, Keep
    <2>3. \A x \in Tasks : x # t => SameRoute(x)
        BY <1>21, <2>1, <2>2 DEF StopTurn, SameRoute
    <2>4. exec[t] \in Exec /\ exec'[t] = [exec[t] EXCEPT !.open = FALSE]
          /\ exec[t].at = "running"
        BY <1>21 DEF StopTurn
    <2>5. exec'[t].at = "running" /\ exec'[t].turn = exec[t].turn
        BY <2>4 DEF Exec
    <2>7. Live(t)' <=> Live(t)
        BY <2>2 DEF Live, Current
    <2>8. Serves(route[t], exec[t].turn)' <=> Serves(route[t], exec[t].turn)
        BY <2>2, <2>5 DEF Serves
    <2>6. Tidy(t)'
        BY <2>1, <2>2, <2>4, <2>5, <2>7, <2>8 DEF Tidy
    <2> QED
        BY <2>2, <2>3, <2>6 DEF Agree
<1>22. ASSUME NEW g \in Connects, NEW u \in Updates, NEW t \in Tasks, QueueText(g, u, t)
       PROVE  Kept
    <2>1. Received(u).allowed = saved.allowed
        BY DEF Received, State
    <2>2. UNCHANGED <<faults, link, gen>> /\ saved' = Received(u) /\ state' = saved'
          /\ link = "on" /\ gen = g
        BY <1>22 DEF QueueText, Command, Take, Current, Keep
    <2>3. \A x \in Tasks : x # t => SameRoute(x)
        BY <1>22, <2>1, <2>2 DEF QueueText, RouteTo, SameRoute
    <2>4. asked'[t] # {} /\ t \in saved.allowed
        BY <1>22 DEF QueueText, RouteTo, Destination
    <2>5. route'[t] = [id |-> u, epoch |-> g, source |-> exec[t].turn]
        BY <1>22 DEF QueueText, RouteTo
    <2>6. exec' = exec /\ exec[t].at = "running" /\ route'[t].source = exec[t].turn
        BY <1>22, <2>5 DEF QueueText
    <2>7. ASSUME route'[t] # None PROVE Serves(route[t], exec[t].turn)'
        BY <2>6, <2>7 DEF Serves
    <2>8. Tidy(t)'
        BY <2>1, <2>2, <2>4, <2>6, <2>7 DEF Tidy, Live
    <2> QED
        BY <2>2, <2>3, <2>8 DEF Agree
<1>23. ASSUME NEW g \in Connects, NEW u \in Updates, NEW t \in Tasks, StartText(g, u, t)
       PROVE  Kept
    <2>1. Received(u).allowed = saved.allowed
        BY DEF Received, State
    <2>2. UNCHANGED <<faults, link, gen>> /\ saved' = Received(u) /\ state' = saved'
          /\ link = "on" /\ gen = g
        BY <1>23 DEF StartText, Command, Take, Current, Keep
    <2>3. \A x \in Tasks : x # t => SameRoute(x)
        BY <1>23, <2>1, <2>2 DEF StartText, RouteTo, SameRoute
    <2>4. asked'[t] # {} /\ t \in saved.allowed
        BY <1>23 DEF StartText, RouteTo, Destination
    <2>5. route'[t] = [id |-> u, epoch |-> g, source |-> exec[t].turn]
        BY <1>23 DEF StartText, RouteTo
    <2>6. /\ exec'[t].at = "prepare" /\ exec'[t].by = u /\ exec'[t].epoch = g
          /\ exec'[t].prior = route[t] /\ exec'[t].turn = None /\ exec[t].at = "idle"
        BY <1>23 DEF StartText, Idle
    <2>7. ASSUME faults = 0, route[t] # None PROVE ~ (link = "on" /\ gen = route[t].epoch)
        BY <2>6, <2>7 DEF Tidy, Live, Current
    <2>8. Tidy(t)'
        BY <2>1, <2>2, <2>4, <2>5, <2>6, <2>7 DEF Tidy, Live, Current
    <2> QED
        BY <2>2, <2>3, <2>8 DEF Agree
<1>24. ASSUME NEW g \in Connects, NEW t \in Tasks, Prepared(g, t) PROVE Kept
    <2>1. UNCHANGED <<faults, state, saved, link, gen>> /\ exec[t] \in Exec
          /\ exec[t].at = "prepare"
        BY <1>24 DEF Prepared
    <2>2. \A x \in Tasks : x # t => SameRoute(x)
        BY <1>24 DEF Prepared, SameRoute
    <2>3. CASE exec' = [exec EXCEPT ![t] = [@ EXCEPT !.at = "ready", !.prior = None]]
          /\ UNCHANGED <<route, asked>>
      <3>1. /\ exec'[t].at = "ready" /\ exec'[t].by = exec[t].by
            /\ exec'[t].epoch = exec[t].epoch /\ exec'[t].turn = exec[t].turn
        BY <2>1, <2>3 DEF Exec
      <3>2. Tidy(t)'
        BY <2>1, <2>3, <3>1 DEF Tidy, Live, Current
      <3> QED
        BY <2>1, <2>2, <3>2 DEF Agree
    <2>4. CASE exec'[t] = Idle /\ route'[t] = exec[t].prior
      <3>1. Idle.at = "idle" /\ Idle.turn = None
        BY DEF Idle
      <3>2. faults = 0 => ~ Live(t)'
        BY <2>1, <2>4 DEF Tidy, Live, Current
      <3>3. NoRoute(t)
        BY <2>1, <2>4, <3>1, <3>2 DEF NoRoute
      <3> QED
        BY <2>1, <2>2, <3>3 DEF Agree
    <2> QED
        BY <1>24, <2>3, <2>4 DEF Prepared
<1>25. ASSUME NEW t \in Tasks, StartTurn(t) PROVE Kept
    <2>1. UNCHANGED <<faults, state, saved, link, gen, mail>> /\ exec[t] \in Exec
          /\ exec[t].at = "ready"
        BY <1>25 DEF StartTurn
    <2>2. \A x \in Tasks : x # t => SameRoute(x)
        BY <1>25 DEF StartTurn, CallBack, SameRoute
    <2>0. Idle.at = "idle" /\ Idle.turn = None
        BY DEF Idle
    <2>3. CASE exec'[t] = Idle /\ route'[t] = route[t] /\ ~ Authorized(t)
      <3>1. ASSUME faults = 0, Live(t) PROVE FALSE
        <4>1. route[t].id = exec[t].by /\ route[t].epoch = exec[t].epoch
              /\ t \in state.allowed
          BY <2>1, <3>1 DEF Tidy, Agree
        <4>2. exec[t].by \in asked[t]
          BY <3>1, <4>1 DEF Tidy, Expects
        <4>3. saved.peer = mail[exec[t].by].from
          BY <4>2 DEF Asking
        <4> QED
          BY <2>3, <3>1, <4>1, <4>3 DEF Authorized, Live, Current, Agree
      <3>2. faults = 0 => ~ Live(t)'
        BY <2>1, <2>3, <3>1 DEF Live, Current
      <3> QED
        BY <2>0, <2>1, <2>2, <2>3, <3>2 DEF Agree, NoRoute
    <2>4. CASE /\ exec'[t] = [exec[t] EXCEPT !.at = "running", !.turn = turns + 1,
                                    !.open = TRUE]
               /\ UNCHANGED <<route, asked>>
      <3>1. exec'[t].at = "running" /\ exec'[t].turn = turns + 1
        BY <2>1, <2>4 DEF Exec
      <3>2. ASSUME faults = 0, Live(t)'
            PROVE  route[t].source = None /\ t \in saved.allowed /\ asked[t] # {}
        BY <2>1, <2>4, <3>2 DEF Tidy, Live, Current
      <3>3. ASSUME faults = 0, Live(t)' PROVE Tidy(t)'
        <4>1. Serves(route[t], exec[t].turn)'
          BY <2>4, <3>2, <3>3 DEF Serves, Live
        <4> QED
          BY <2>1, <2>4, <3>1, <3>2, <3>3, <4>1 DEF Tidy
      <3>4. ASSUME ~ (faults = 0 /\ Live(t)') PROVE NoRoute(t)
        BY <2>1, <2>4, <3>1, <3>4 DEF NoRoute
      <3> QED
        BY <2>1, <2>2, <3>3, <3>4 DEF Agree
    <2>5. CASE exec'[t] = Idle /\ CallBack(t, exec[t].by)
      <3>1. ASSUME faults = 0, Live(t)' PROVE FALSE
        BY <2>1, <2>5, <3>1 DEF CallBack, Tidy, Live, Current
      <3> QED
        BY <2>0, <2>1, <2>2, <2>5, <3>1 DEF Agree, NoRoute
    <2> QED
        BY <1>25, <2>3, <2>4, <2>5 DEF StartTurn
<1>26. ASSUME NEW t \in Tasks, EndTurn(t) PROVE Kept
    <2>1. UNCHANGED <<faults, state, saved, link, gen>> /\ exec'[t] = Idle
          /\ exec[t].at = "running"
        BY <1>26 DEF EndTurn
    <2>2. \A x \in Tasks : x # t => SameRoute(x)
        BY <1>26 DEF EndTurn, SameRoute
    <2>3. Idle.at = "idle" /\ Idle.turn = None
        BY DEF Idle
    <2>4. route'[t] = None \/ (route'[t] = route[t] /\ ~ Serves(route[t], exec[t].turn))
        BY <1>26 DEF EndTurn
    <2>5. faults = 0 => ~ Live(t)'
        BY <2>1, <2>4 DEF Tidy, Live, Current
    <2>6. NoRoute(t)
        BY <2>1, <2>3, <2>5 DEF NoRoute
    <2> QED
        BY <2>1, <2>2, <2>6 DEF Agree
<1>27. ASSUME NEW t \in Tasks, NEW u \in Updates, Finish(t, u) PROVE Kept
    <2>1. UNCHANGED <<faults, state, saved, exec, asked>>
        BY <1>27 DEF Finish
    <2>2. \A x \in Tasks : route'[x] = route[x] \/ route'[x] = None
        BY <1>27 DEF Finish, CallBack
    <2>3. \A x \in Tasks : route'[x] = route[x] => SameRoute(x)
        BY <2>1 DEF SameRoute
    <2>4. \A x \in Tasks : route'[x] = None => NoRoute(x)
        BY <2>1 DEF NoRoute, Tidy, Live
    <2> QED
        BY <2>1, <2>2, <2>3, <2>4 DEF Agree
<1>28. ASSUME NEW j \in jobs, SendPart(j) PROVE Kept
    BY <1>28 DEF SendPart, SameRoute, Agree
<1>29. ASSUME NEW j \in jobs, EndReply(j) PROVE Kept
    BY <1>29 DEF EndReply, SameRoute, Agree
<1>30. ASSUME Crash PROVE Kept
    <2>1. faults' = 0 => faults = 0 /\ state' = saved'
        BY <1>30 DEF Crash, Fault, Agree
    <2>2. \A x \in Tasks : NoRoute(x)
        BY <1>30 DEF Crash, NoRoute, Tidy, Live, Down, Forget, Idle
    <2> QED
        BY <2>1, <2>2
<1>31. CASE UNCHANGED vars
    BY <1>31 DEF vars, SameRoute, Agree
<1> QED
    BY <1>1, <1>2, <1>3, <1>4, <1>5, <1>6, <1>7, <1>8, <1>9, <1>10, <1>11, <1>12, <1>13,
       <1>14, <1>15, <1>16, <1>17, <1>18, <1>19, <1>20, <1>21, <1>22, <1>23, <1>24, <1>25,
       <1>26, <1>27, <1>28, <1>29, <1>30, <1>31 DEF Next, Operator, Polling, Consume, Work

(* Only a running chat has a turn. *)
LEMMA TurnsStep ==
    ASSUME TypeOK, \A x \in Tasks : Tidy(x), [Next]_vars
    PROVE  \A x \in Tasks : (exec[x].at # "running" => exec[x].turn = None)'
<1> USE DEF TypeOK, telegram, file, connection, pairing, work, replies, app, history
<1> DEFINE Stopped == \A x \in Tasks : (exec[x].at # "running" => exec[x].turn = None)'
<1> SUFFICES Stopped
    OBVIOUS
<1>1. ASSUME NEW p \in Peers, NEW k \in 0..MaxCodes, Send(p, k) PROVE Stopped
    BY <1>1 DEF Send, Tidy
<1>2. ASSUME Connect PROVE Stopped
    BY <1>2 DEF Connect, Forget, Tidy
<1>3. ASSUME Connected PROVE Stopped
    BY <1>3 DEF Connected, Keep, Lose, Fault, Down, Forget, NewCode, Tidy
<1>4. ASSUME Disconnect PROVE Stopped
    BY <1>4 DEF Disconnect, Down, Forget, Tidy
<1>5. ASSUME BeginPairing PROVE Stopped
    BY <1>5 DEF BeginPairing, NewCode, Tidy
<1>6. ASSUME ApprovePeer PROVE Stopped
    BY <1>6 DEF ApprovePeer, Keep, Lose, Fault, Tidy
<1>7. ASSUME Reset PROVE Stopped
    BY <1>7 DEF Reset, FirstState, Keep, Lose, Fault, Down, Forget, Tidy
<1>8. ASSUME NEW t \in Tasks, Share(t) PROVE Stopped
    BY <1>8 DEF Share, Sharing, Keep, Lose, Fault, Tidy
<1>9. ASSUME NEW t \in Tasks, Unshare(t) PROVE Stopped
    BY <1>9 DEF Unshare, Sharing, Keep, Lose, Fault, Tidy
<1>10. ASSUME NEW t \in Tasks, Select(t) PROVE Stopped
    BY <1>10 DEF Select, Keep, Lose, Fault, Tidy
<1>11. ASSUME NEW t \in Tasks, MacTurn(t) PROVE Stopped
    BY <1>11 DEF MacTurn, Idle, Tidy
<1>12. ASSUME NEW g \in Connects, Fetch(g) PROVE Stopped
    BY <1>12 DEF Fetch, Current, Tidy
<1>13. ASSUME NEW g \in Connects, Leave(g) PROVE Stopped
    BY <1>13 DEF Leave, NoPoller, Tidy
<1>14. ASSUME NEW g \in Connects, Resume(g) PROVE Stopped
    BY <1>14 DEF Resume, Tidy
<1>15. ASSUME NEW g \in Connects, NEW u \in Updates, LoseReceipt(g, u) PROVE Stopped
    BY <1>15 DEF LoseReceipt, Take, Received, Lose, Fault, Down, Forget, Tidy
<1>16. ASSUME NEW g \in Connects, NEW u \in Updates, Ignore(g, u) PROVE Stopped
    BY <1>16 DEF Ignore, Take, Received, Keep, Tidy
<1>17. ASSUME NEW g \in Connects, NEW u \in Updates, RequestPairing(g, u) PROVE Stopped
    BY <1>17 DEF RequestPairing, Take, Received, Keep, Tidy
<1>18. ASSUME NEW g \in Connects, NEW u \in Updates, Answer(g, u) PROVE Stopped
    BY <1>18 DEF Answer, Command, Take, Received, Keep, Tidy
<1>19. ASSUME NEW g \in Connects, NEW u \in Updates, NEW t \in Tasks, UseTask(g, u, t)
       PROVE  Stopped
    BY <1>19 DEF UseTask, Command, Take, Received, Keep, Lose, Fault, Ran, Tidy
<1>20. ASSUME NEW g \in Connects, NEW u \in Updates, NEW t \in Tasks, NewTask(g, u, t)
       PROVE  Stopped
    BY <1>20 DEF NewTask, Command, Take, Received, Keep, Lose, Fault, Ran, Tidy
<1>21. ASSUME NEW g \in Connects, NEW u \in Updates, NEW t \in Tasks, StopTurn(g, u, t)
       PROVE  Stopped
    <2>1. exec[t] \in Exec /\ exec[t].at = "running"
        BY <1>21 DEF StopTurn
    <2>2. [exec[t] EXCEPT !.open = FALSE].at = "running"
        BY <2>1 DEF Exec
    <2> QED
        BY <1>21, <2>2 DEF StopTurn, Tidy
<1>22. ASSUME NEW g \in Connects, NEW u \in Updates, NEW t \in Tasks, QueueText(g, u, t)
       PROVE  Stopped
    BY <1>22 DEF QueueText, Command, Take, Received, Keep, Ran, RouteTo, Tidy
<1>23. ASSUME NEW g \in Connects, NEW u \in Updates, NEW t \in Tasks, StartText(g, u, t)
       PROVE  Stopped
    BY <1>23 DEF StartText, Take, Received, Keep, Ran, RouteTo, Idle, Tidy
<1>24. ASSUME NEW g \in Connects, NEW t \in Tasks, Prepared(g, t) PROVE Stopped
    <2>1. exec[t] \in Exec /\ exec[t].at = "prepare"
        BY <1>24 DEF Prepared
    <2>2. [exec[t] EXCEPT !.at = "ready", !.prior = None].turn = exec[t].turn
          /\ Idle.turn = None
        BY <2>1 DEF Exec, Idle
    <2> QED
        BY <1>24, <2>1, <2>2 DEF Prepared, Tidy
<1>25. ASSUME NEW t \in Tasks, StartTurn(t) PROVE Stopped
    <2>1. exec[t] \in Exec
        OBVIOUS
    <2>2. [exec[t] EXCEPT !.at = "running", !.turn = turns + 1,
                 !.open = TRUE].at = "running" /\ Idle.turn = None
        BY <2>1 DEF Exec, Idle
    <2> QED
        BY <1>25, <2>2 DEF StartTurn, Tidy
<1>26. ASSUME NEW t \in Tasks, EndTurn(t) PROVE Stopped
    BY <1>26 DEF EndTurn, Idle, Callbacks, Serves, Live, Owed, Tidy
<1>27. ASSUME NEW t \in Tasks, NEW u \in Updates, Finish(t, u) PROVE Stopped
    BY <1>27 DEF Finish, CallBack, Owed, Tidy
<1>28. ASSUME NEW j \in jobs, SendPart(j) PROVE Stopped
    BY <1>28 DEF SendPart, Tidy
<1>29. ASSUME NEW j \in jobs, EndReply(j) PROVE Stopped
    BY <1>29 DEF EndReply, Tidy
<1>30. ASSUME Crash PROVE Stopped
    BY <1>30 DEF Crash, Fault, Down, Forget, NoPoller, Idle, Tidy
<1>31. CASE UNCHANGED vars
    BY <1>31 DEF vars, Tidy
<1> QED
    BY <1>1, <1>2, <1>3, <1>4, <1>5, <1>6, <1>7, <1>8, <1>9, <1>10, <1>11, <1>12, <1>13,
       <1>14, <1>15, <1>16, <1>17, <1>18, <1>19, <1>20, <1>21, <1>22, <1>23, <1>24, <1>25,
       <1>26, <1>27, <1>28, <1>29, <1>30, <1>31 DEF Next, Operator, Polling, Consume, Work

-----------------------------------------------------------------------------
(* The theorems *)

(* The inductive invariant. *)
IInv ==
    /\ TypeOK /\ Posted /\ Offered /\ Behind
    /\ Numbered /\ Asking /\ Owing /\ Agree
    /\ \A t \in Tasks : Expects(t) /\ Tidy(t)

(* It holds at the start. *)
LEMMA InitIInv == Init => IInv
<1> SUFFICES ASSUME Init PROVE IInv
    OBVIOUS
<1>1. TypeOK
    BY InitType
<1>2. Posted
    BY DEF Init, Posted, Delivered, NoPoller
<1>3. Offered /\ Agree
    BY DEF Init, Offered, FirstState, Agree
<1>4. Behind
    BY DEF Init, Behind, CommandsRunOnce
<1>5. Numbered /\ Asking /\ Owing
    BY DEF Init, Numbered, Asking, Owing, AnswersReachTheirAsker, Idle
<1>6. ASSUME NEW t \in Tasks PROVE Expects(t) /\ Tidy(t)
    BY <1>6 DEF Init, Expects, Tidy, Live, Idle, Rest
<1> QED
    BY <1>1, <1>2, <1>3, <1>4, <1>5, <1>6 DEF IInv

(* Every step keeps it. *)
LEMMA StepIInv == IInv /\ [Next]_vars => IInv'
<1> SUFFICES ASSUME IInv, [Next]_vars PROVE IInv'
    OBVIOUS
<1> USE DEF IInv
<1>1. Delivered
    BY DEF Posted
<1>2. TypeOK'
    BY <1>1, TypeStep
<1>3. Posted'
    BY PostedStep
<1>4. Offered'
    BY OfferedStep
<1>5. Behind'
    BY BehindStep
<1>6. Stable
    BY StableStep
<1>7. Flow
    BY FlowStep
<1>8. Numbered'
    BY <1>2, <1>6, <1>7, NumberedStep
<1>9. Asking'
    BY <1>2, <1>6, <1>7, AskingStep
<1>10. Owing'
    BY <1>2, <1>6, <1>7, OwingStep
<1>11. ASSUME NEW t \in Tasks PROVE Expects(t)'
  <2>1. SameQuestions(t) \/ NoQuestions(t) \/ Expects(t)'
    BY <1>2, <1>6, QuestionsStep
  <2> QED
    BY <1>2, <1>6, <1>9, <2>1, ExpectsSame, ExpectsNothing
<1>12. faults' = 0 => /\ faults = 0 /\ state' = saved'
                      /\ \A x \in Tasks : SameRoute(x) \/ NoRoute(x) \/ Tidy(x)'
    BY <1>2, <1>6, TidyStep
<1>13. Agree'
    BY <1>12 DEF Agree
<1>14. \A x \in Tasks : (exec[x].at # "running" => exec[x].turn = None)'
    BY TurnsStep
<1>15. ASSUME NEW t \in Tasks PROVE Tidy(t)'
  <2>1. CASE faults' = 0
    BY <1>2, <1>6, <1>12, <2>1, TidySame, TidyNone
  <2>2. CASE faults' # 0
    BY <1>14, <2>2 DEF Tidy
  <2> QED
    BY <2>1, <2>2
<1> QED
    BY <1>2, <1>3, <1>4, <1>5, <1>8, <1>9, <1>10, <1>11, <1>13, <1>15

(* The invariant holds in every state that can be reached. *)
THEOREM Invariance == Spec => []IInv
BY InitIInv, StepIInv, PTL DEF Spec

(* Every variable keeps its type. *)
THEOREM TypeCorrect == Spec => []TypeOK
<1>1. IInv => TypeOK
    BY DEF IInv
<1> QED
    BY <1>1, Invariance, PTL

(* No message is carried out twice (consume and the cursor of               *)
(* TelegramRemoteModel.swift), for any number of messages, connections,     *)
(* links, crashes and failed saves.                                         *)
THEOREM CommandsAreRunOnce == Spec => []CommandsRunOnce
<1>1. IInv => CommandsRunOnce
    BY DEF IInv, Behind
<1> QED
    BY <1>1, Invariance, PTL

(* A chat keeps a live route for its questions, and without a failed save   *)
(* it has one only for them.                                                *)
THEOREM RoutesAreKept == Spec => []RoutesMatch
<1>1. IInv => RoutesMatch
    BY DEF IInv, Expects, Tidy, RoutesMatch
<1> QED
    BY <1>1, Invariance, PTL

(* An answer is sent only to the account that asked (reply's checks).       *)
THEOREM AnswersGoToTheirAsker == Spec => []AnswersReachTheirAsker
<1>1. IInv => AnswersReachTheirAsker
    BY DEF IInv, Owing
<1> QED
    BY <1>1, Invariance, PTL
=============================================================================
