--------------------------- MODULE TelegramRemote ---------------------------
(***************************************************************************)
(* The remote control over a Telegram bot (TelegramRemoteModel.swift):      *)
(* one instance of PM polls the bot, takes each message once, carries out   *)
(* what the paired account asks for in the shared chats, and sends the      *)
(* answers of the turns that were asked for back to that account.           *)
(*                                                                         *)
(* All of it runs on the main actor: an action is the code between two     *)
(* suspension points.  Everything in between may change at an await, so    *)
(* each connection carries its number (generation, epoch) and old polling   *)
(* tasks, requests and replies have to notice that it has passed.           *)
(*                                                                         *)
(* Time is left out: whether a message is fresh enough (notBefore) and      *)
(* whether a pairing link has expired is arbitrary.  So are the refusals    *)
(* that come from the rest of PM: a turn that cannot be prepared, a queue   *)
(* that is full.                                                            *)
(***************************************************************************)
EXTENDS Naturals

CONSTANTS
    Peers,          \* Telegram accounts
    Tasks,          \* chats of PM
    FirstTasks,     \* those that exist at the start
    None,           \* no account, chat, turn or route
    MaxUpdates,     \* bound: messages to the bot
    MaxConnects,    \* bound: connections
    MaxCodes,       \* bound: pairing links
    MaxTurns,       \* bound: turns
    MaxFaults       \* bound: failed saves and crashes

Updates == 1..MaxUpdates
Connects == 1..MaxConnects
Turns == 1..MaxTurns

(* TelegramRemoteState; bot says whether the bot of the token is known. *)
State == [bot : BOOLEAN, peer : Peers \cup {None}, offset : Nat,
          allowed : SUBSET Tasks, selected : Tasks \cup {None}]

FirstState == [bot |-> FALSE, peer |-> None, offset |-> 0, allowed |-> {}, selected |-> None]

(* CompletionRoute: which message made it (id), in which connection, and    *)
(* the turn that was running then.                                          *)
Route == [id : Updates, epoch : Connects, source : Turns \cup {None}]

(* A message carries the pairing code it was sent with, 0 for none. *)
Mail == [from : Peers, code : 0..MaxCodes]

ASSUME TelegramAssumption ==
    /\ None \notin Peers \cup Tasks \cup Updates \cup Connects \cup Turns \cup Route \cup Mail
    /\ FirstTasks \subseteq Tasks
    /\ {MaxUpdates, MaxConnects, MaxCodes, MaxTurns, MaxFaults} \subseteq Nat

(* A polling task: waiting for Telegram ("poll" with no batch), going       *)
(* through a batch, or suspended in one of its messages.                    *)
Poller == [at : {"none", "poll", "reply", "prepare"}, batch : SUBSET Updates]
NoPoller == [at |-> "none", batch |-> {}]

(* A chat's execution; by and epoch are those of the message that started   *)
(* it, prior the route that message replaced, open says whether the turn    *)
(* takes updates.                                                           *)
Exec == [at : {"idle", "prepare", "ready", "running"}, by : Updates \cup {None},
         epoch : Connects \cup {None}, turn : Turns \cup {None}, open : BOOLEAN,
         prior : Route \cup {None}]
Idle == [at |-> "idle", by |-> None, epoch |-> None, turn |-> None, open |-> FALSE,
         prior |-> None]

(* A reply to the end of a turn, the messages it answers and, once it has   *)
(* begun, the account it goes to.                                           *)
Job == [task : Tasks, epoch : Connects, about : SUBSET Updates, to : Peers \cup {None}]

VARIABLES
    mail, inbox,              \* Telegram: what was sent, what is not confirmed yet
    saved, state,             \* state.json, and the copy in memory
    link, gen,                \* connecting or running, and the generation
    code, codes, candidate,   \* pairingCode, how many were made, pendingPeer
    poller, exec, route, jobs,
    finishing,                \* turns whose finished callback is still to come
    chats, turns, faults,
    ran, asked, told          \* history

vars == <<mail, inbox, saved, state, link, gen, code, codes, candidate, poller, exec,
          route, jobs, finishing, chats, turns, faults, ran, asked, told>>
telegram == <<mail, inbox>>
file == <<saved, state, faults>>
pairing == <<code, codes, candidate>>
connection == <<link, gen, pairing>>
replies == <<jobs, finishing>>
app == <<chats, turns>>
work == <<exec, route, replies, app>>
history == <<ran, asked, told>>

(* Types. *)
TypeOK ==
    /\ mail \in [Updates -> Mail \cup {None}]
    /\ inbox \subseteq Updates
    /\ saved \in State /\ state \in State
    /\ link \in {"off", "connecting", "on"} /\ gen \in Nat
    /\ code \in 0..MaxCodes /\ codes \in 0..MaxCodes /\ candidate \in Peers \cup {None}
    /\ poller \in [Connects -> Poller]
    /\ exec \in [Tasks -> Exec]
    /\ route \in [Tasks -> Route \cup {None}]
    /\ jobs \subseteq Job
    /\ finishing \in [Tasks -> SUBSET Updates]
    /\ chats \subseteq Tasks /\ turns \in 0..MaxTurns /\ faults \in 0..MaxFaults
    /\ ran \in [Updates -> Nat]
    /\ asked \in [Tasks -> SUBSET Updates]
    /\ told \in [Updates -> SUBSET Peers]

Init ==
    /\ mail = [u \in Updates |-> None] /\ inbox = {}
    /\ saved = FirstState /\ state = FirstState
    /\ link = "off" /\ gen = 0
    /\ code = 0 /\ codes = 0 /\ candidate = None
    /\ poller = [g \in Connects |-> NoPoller]
    /\ exec = [t \in Tasks |-> Idle]
    /\ route = [t \in Tasks |-> None]
    /\ jobs = {}
    /\ finishing = [t \in Tasks |-> {}]
    /\ chats = FirstTasks /\ turns = 0 /\ faults = 0
    /\ ran = [u \in Updates |-> 0]
    /\ asked = [t \in Tasks |-> {}]
    /\ told = [u \in Updates |-> {}]

-----------------------------------------------------------------------------
(* The state file and the connection *)

(* change: load, update, save durably, and only then keep it in memory.     *)
(* A save that fails may have replaced the file: mem is what memory holds    *)
(* then, disk what was on disk before.                                      *)
Fault == faults < MaxFaults /\ faults' = faults + 1
Keep(new) == saved' = new /\ state' = new /\ UNCHANGED faults
Lose(mem, disk, new) == Fault /\ saved' \in {disk, new} /\ state' = mem

(* generation == epoch and running *)
Current(g) == link = "on" /\ gen = g

(* stop: the generation passes, routes and the pairing offer are dropped.   *)
(* gen itself is counted when the next connection is made.                  *)
Forget ==
    /\ code' = 0 /\ candidate' = None
    /\ route' = [t \in Tasks |-> None]
    /\ asked' = [t \in Tasks |-> {}]
    /\ UNCHANGED codes

Down == Forget /\ link' = "off"

(* beginPairing: another link, a new request. *)
NewCode ==
    /\ codes < MaxCodes
    /\ codes' = codes + 1
    /\ code' = codes + 1
    /\ candidate' = None

(* Also a request to Telegram that fails, or an error of connect. *)
Disconnect ==
    /\ link # "off"
    /\ Down
    /\ UNCHANGED <<telegram, file, gen, poller, exec, replies, app, ran, told>>

Connect ==
    /\ link = "off" /\ gen < MaxConnects
    /\ gen' = gen + 1
    /\ Forget
    /\ link' = "connecting"
    /\ state' = saved
    /\ UNCHANGED <<telegram, saved, faults, poller, exec, replies, app, ran, told>>

(* getMe and getWebhookInfo were answered.  The bot of a new token starts   *)
(* without an account and from its first message.                           *)
Connected ==
    LET new == IF saved.bot THEN saved
               ELSE [saved EXCEPT !.bot = TRUE, !.peer = None, !.offset = 0] IN
    /\ link = "connecting"
    /\ \/ /\ Keep(new)
          /\ link' = "on"
          /\ poller' = [poller EXCEPT ![gen] = [NoPoller EXCEPT !.at = "poll"]]
          /\ IF new.peer = None THEN NewCode ELSE UNCHANGED pairing
          /\ UNCHANGED <<route, asked>>
       \/ /\ Lose(state, saved, new)
          /\ Down
          /\ UNCHANGED poller
    /\ UNCHANGED <<telegram, gen, exec, replies, app, ran, told>>

-----------------------------------------------------------------------------
(* The operator at the Mac *)

BeginPairing ==
    /\ link = "on" /\ state.peer = None
    /\ NewCode
    /\ UNCHANGED <<telegram, file, link, gen, poller, work, history>>

ApprovePeer ==
    LET new == [saved EXCEPT !.peer = candidate] IN
    /\ link = "on" /\ candidate # None /\ code # 0
    /\ \/ Keep(new) /\ code' = 0 /\ candidate' = None /\ UNCHANGED codes
       \/ Lose(state, saved, new) /\ UNCHANGED pairing
    /\ UNCHANGED <<telegram, link, gen, poller, work, history>>

(* unpair, saveToken, removeToken: stop, then change. *)
Reset ==
    /\ \E new \in {[saved EXCEPT !.peer = None],
                   [saved EXCEPT !.bot = FALSE, !.peer = None, !.offset = 0],
                   FirstState} :
          Keep(new) \/ Lose(state, saved, new)
    /\ Down
    /\ UNCHANGED <<telegram, gen, poller, exec, replies, app, ran, told>>

(* allow: a selection that is not shared moves to a chat that is. *)
Sharing(T) ==
    {[saved EXCEPT !.allowed = T, !.selected = s] :
        s \in IF saved.selected \in T THEN {saved.selected} ELSE IF T = {} THEN {None} ELSE T}

Share(t) ==
    /\ t \in chats
    /\ \E new \in Sharing(saved.allowed \cup {t}) : Keep(new) \/ Lose(state, saved, new)
    /\ UNCHANGED <<telegram, connection, poller, work, history>>

Unshare(t) ==
    /\ t \in chats
    /\ \E new \in Sharing(saved.allowed \ {t}) :
          \/ /\ Keep(new)
             /\ route' = [route EXCEPT ![t] = None]
             /\ asked' = [asked EXCEPT ![t] = {}]
          \/ Lose(state, saved, new) /\ UNCHANGED <<route, asked>>
    /\ UNCHANGED <<telegram, connection, poller, exec, replies, app, ran, told>>

Select(t) ==
    LET new == [saved EXCEPT !.selected = t] IN
    /\ t \in state.allowed
    /\ Keep(new) \/ Lose(state, saved, new)
    /\ UNCHANGED <<telegram, connection, poller, work, history>>

(* A turn that the operator starts (submit); perform is reached at once. *)
MacTurn(t) ==
    /\ t \in chats /\ exec[t].at = "idle" /\ turns < MaxTurns
    /\ turns' = turns + 1
    /\ exec' = [exec EXCEPT ![t] = [Idle EXCEPT !.at = "running", !.turn = turns + 1, !.open = TRUE]]
    /\ UNCHANGED <<telegram, file, connection, poller, route, replies, chats, history>>

-----------------------------------------------------------------------------
(* Polling *)

(* A message to the bot; a pairing link can be used once it was shown. *)
Send(p, k) ==
    /\ k <= codes
    /\ \E u \in Updates :
          /\ mail[u] = None /\ \A v \in Updates : v < u => mail[v] # None
          /\ mail' = [mail EXCEPT ![u] = [from |-> p, code |-> k]]
          /\ inbox' = inbox \cup {u}
    /\ UNCHANGED <<file, connection, poller, work, history>>

(* getUpdates: the offset confirms what is before it; the rest is delivered *)
(* again and again until it is confirmed.                                   *)
Fetch(g) ==
    /\ poller[g].at = "poll" /\ poller[g].batch = {} /\ Current(g)
    /\ inbox' = {u \in inbox : u >= state.offset}
    /\ poller' = [poller EXCEPT ![g].batch = inbox']
    /\ UNCHANGED <<mail, file, connection, work, history>>

(* The polling task of a connection that has passed ends. *)
Leave(g) ==
    /\ poller[g].at = "poll" /\ ~ Current(g)
    /\ poller' = [poller EXCEPT ![g] = NoPoller]
    /\ UNCHANGED <<telegram, file, connection, work, history>>

(* sendMessage for a reply to a command returns or fails. *)
Resume(g) ==
    /\ poller[g].at = "reply"
    /\ poller' = [poller EXCEPT ![g].at = "poll"]
    /\ UNCHANGED <<telegram, file, connection, work, history>>

(* consume up to the receipt: u is next, and the cursor moves past it       *)
(* before anything is done.                                                 *)
Take(g, u, at) ==
    /\ poller[g].at = "poll" /\ Current(g)
    /\ u \in poller[g].batch /\ \A v \in poller[g].batch : u <= v
    /\ u >= state.offset
    /\ poller' = [poller EXCEPT ![g] = [at |-> at, batch |-> @.batch \ {u}]]

BugReceived(u) == [saved EXCEPT !.offset = u]
Received(u) == [saved EXCEPT !.offset = u + 1]

LoseReceipt(g, u) ==
    /\ Take(g, u, "none")
    /\ Lose(state, saved, Received(u))
    /\ Down
    /\ UNCHANGED <<telegram, gen, exec, replies, app, ran, told>>

(* Not a fresh private message, not from the paired account, no valid link. *)
Ignore(g, u) ==
    /\ Take(g, u, "poll")
    /\ Keep(Received(u))
    /\ UNCHANGED <<telegram, connection, work, history>>

RequestPairing(g, u) ==
    /\ Take(g, u, "poll")
    /\ Keep(Received(u))
    /\ saved.peer = None /\ candidate = None
    /\ code # 0 /\ mail[u].code = code
    /\ candidate' = mail[u].from
    /\ UNCHANGED <<telegram, link, gen, code, codes, work, history>>

-----------------------------------------------------------------------------
(* Commands of the paired account *)

Command(g, u, at) == Take(g, u, at) /\ saved.peer = mail[u].from
Ran(u) == ran' = [ran EXCEPT ![u] = @ + 1]

(* destination: the selected chat, as long as it is shared. *)
Destination(t) == t = saved.selected /\ t \in saved.allowed \cap chats

(* /help, /tasks, /status, and any command that is refused. *)
Answer(g, u) ==
    /\ Command(g, u, "reply")
    /\ Keep(Received(u))
    /\ UNCHANGED <<telegram, connection, work, history>>

(* /use *)
UseTask(g, u, t) ==
    LET new == [Received(u) EXCEPT !.selected = t] IN
    /\ Command(g, u, "reply")
    /\ t \in saved.allowed \cap chats
    /\ Keep(new) \/ Lose(Received(u), Received(u), new)
    /\ Ran(u)
    /\ UNCHANGED <<telegram, connection, work, asked, told>>

(* /new: the chat is created, shared and selected, in three saves. *)
NewTask(g, u, t) ==
    LET shared   == [Received(u) EXCEPT !.allowed = @ \cup {t}]
        selected == [shared EXCEPT !.selected = t] IN
    /\ Command(g, u, "reply")
    /\ \E s \in Tasks : Destination(s)
    /\ t \notin chats /\ chats' = chats \cup {t}
    /\ \/ Keep(selected)
       \/ Lose(Received(u), Received(u), shared)
       \/ Lose(shared, shared, selected)
    /\ Ran(u)
    /\ UNCHANGED <<telegram, connection, exec, route, replies, turns, asked, told>>

(* /stop: the turn takes no more updates and is cancelled; it ends later. *)
StopTurn(g, u, t) ==
    /\ Command(g, u, "reply")
    /\ Keep(Received(u))
    /\ Destination(t) /\ exec[t].at = "running"
    /\ exec' = [exec EXCEPT ![t].open = FALSE]
    /\ Ran(u)
    /\ UNCHANGED <<telegram, connection, route, replies, app, asked, told>>

RouteTo(t, u, g) ==
    /\ route' = [route EXCEPT ![t] = [id |-> u, epoch |-> g, source |-> exec[t].turn]]
    /\ asked' = [asked EXCEPT ![t] = @ \cup {u}]

(* Text for a running turn is queued as an update (enqueueVoiceTaskUpdate). *)
QueueText(g, u, t) ==
    /\ Command(g, u, "reply")
    /\ Keep(Received(u))
    /\ Destination(t) /\ exec[t].at = "running" /\ exec[t].open
    /\ RouteTo(t, u, g)
    /\ Ran(u)
    /\ UNCHANGED <<telegram, connection, exec, replies, app, told>>

(* Text for an idle chat: a turn is prepared (sendExternalTaskMessage). *)
StartText(g, u, t) ==
    /\ Take(g, u, "prepare") /\ saved.peer = mail[u].from
    /\ Keep(Received(u))
    /\ Destination(t) /\ exec[t].at = "idle"
    /\ exec' = [exec EXCEPT ![t] = [Idle EXCEPT !.at = "prepare", !.by = u, !.epoch = g,
                                                   !.prior = route[t]]]
    /\ RouteTo(t, u, g)
    /\ Ran(u)
    /\ UNCHANGED <<telegram, connection, replies, app, told>>

-----------------------------------------------------------------------------
(* Turns of PM *)

(* authorized: asked again after every await, with the values of now. *)
Authorized(t) ==
    LET e == exec[t] IN
    /\ Current(e.epoch)
    /\ t \in state.allowed
    /\ state.peer = mail[e.by].from

(* The account, the description and the access were prepared, or not: then  *)
(* the route of the message gives way to the one before it.                 *)
Prepared(g, t) ==
    /\ poller[g].at = "prepare" /\ exec[t].at = "prepare" /\ exec[t].epoch = g
    /\ poller' = [poller EXCEPT ![g].at = "reply"]
    /\ \/ /\ Authorized(t)
          /\ exec' = [exec EXCEPT ![t] = [@ EXCEPT !.at = "ready", !.prior = None]]
          /\ UNCHANGED <<route, asked>>
       \/ /\ exec' = [exec EXCEPT ![t] = Idle]
          /\ route' = [route EXCEPT ![t] = exec[t].prior]
          /\ asked' = [asked EXCEPT ![t] = @ \ {exec[t].by}]
    /\ UNCHANGED <<telegram, file, connection, replies, app, ran, told>>

(* A route that is taken turns into a reply. *)
Owed(t) == [task |-> t, epoch |-> route[t].epoch, about |-> asked[t], to |-> None]

(* The finished callback of the message u: only its own route. *)
BugCallBack(t, u) ==
    IF route[t] # None
    THEN route' = [route EXCEPT ![t] = None] /\ jobs' = jobs \cup {Owed(t)}
    ELSE UNCHANGED <<route, jobs>>

CallBack(t, u) ==
    IF route[t] # None /\ route[t].id = u
    THEN route' = [route EXCEPT ![t] = None] /\ jobs' = jobs \cup {Owed(t)}
    ELSE UNCHANGED <<route, jobs>>

(* perform: the first save of the history starts the turn; when it fails    *)
(* the callback follows at once.                                            *)
StartTurn(t) ==
    /\ exec[t].at = "ready"
    /\ \/ /\ ~ Authorized(t)
          /\ exec' = [exec EXCEPT ![t] = Idle]
          /\ UNCHANGED <<route, jobs, turns, asked>>
       \/ /\ Authorized(t) /\ turns < MaxTurns
          /\ turns' = turns + 1
          /\ exec' = [exec EXCEPT ![t] = [@ EXCEPT !.at = "running", !.turn = turns + 1, !.open = TRUE]]
          /\ UNCHANGED <<route, jobs, asked>>
       \/ /\ Authorized(t)
          /\ exec' = [exec EXCEPT ![t] = Idle]
          /\ CallBack(t, exec[t].by)
          /\ asked' = [asked EXCEPT ![t] = {}]
          /\ UNCHANGED turns
    /\ UNCHANGED <<telegram, file, connection, poller, finishing, chats, ran, told>>

(* The turn ends and is saved; taskEnded takes the route that is for it and *)
(* replies if the route's connection is still there and the chat shared.    *)
(* The callback of a message that started the turn is yet to come.          *)
Serves(rt, turn) == rt # None /\ (rt.source = None \/ rt.source = turn)
Live(t) == route[t] # None /\ Current(route[t].epoch)

Callbacks(e) == IF e.by = None THEN {} ELSE {e.by}

EndTurn(t) ==
    LET e == exec[t] IN
    /\ e.at = "running"
    /\ exec' = [exec EXCEPT ![t] = Idle]
    /\ finishing' = [finishing EXCEPT ![t] = @ \cup Callbacks(e)]
    /\ IF Serves(route[t], e.turn)
       THEN /\ route' = [route EXCEPT ![t] = None]
            /\ IF Live(t) /\ t \in state.allowed
               THEN jobs' = jobs \cup {Owed(t)}
               ELSE UNCHANGED jobs
       ELSE UNCHANGED <<route, jobs>>
    /\ asked' = [asked EXCEPT ![t] = {}]
    /\ UNCHANGED <<telegram, file, connection, poller, app, ran, told>>

Finish(t, u) ==
    /\ u \in finishing[t]
    /\ finishing' = [finishing EXCEPT ![t] = @ \ {u}]
    /\ CallBack(t, u)
    /\ UNCHANGED <<telegram, file, connection, poller, exec, app, history>>

(* reply: before each part, the connection, the account it began with and   *)
(* the sharing are checked.                                                 *)
BugSendable(j) ==
    /\ link = "on"
    /\ state.peer # None /\ j.to \in {None, state.peer}
    /\ j.task \in state.allowed

Sendable(j) ==
    /\ Current(j.epoch)
    /\ state.peer # None /\ j.to \in {None, state.peer}
    /\ j.task \in state.allowed

SendPart(j) ==
    /\ Sendable(j)
    /\ told' = [u \in Updates |-> IF u \in j.about THEN told[u] \cup {state.peer} ELSE told[u]]
    /\ jobs' = (jobs \ {j}) \cup {[j EXCEPT !.to = state.peer]}
    /\ UNCHANGED <<telegram, file, connection, poller, exec, route, finishing, app, ran, asked>>

(* The last part was sent, a check failed, or Telegram did. *)
EndReply(j) ==
    /\ jobs' = jobs \ {j}
    /\ UNCHANGED <<telegram, file, connection, poller, exec, route, finishing, app, history>>

(* PM dies and is started again; the connection stays off.  Connecting is   *)
(* up to the operator.                                                      *)
Crash ==
    /\ Fault
    /\ Down
    /\ state' = saved
    /\ poller' = [g \in Connects |-> NoPoller]
    /\ exec' = [t \in Tasks |-> Idle]
    /\ jobs' = {}
    /\ finishing' = [t \in Tasks |-> {}]
    /\ UNCHANGED <<telegram, saved, gen, app, ran, told>>

Operator ==
    \/ Connect \/ Connected \/ Disconnect \/ BeginPairing \/ ApprovePeer \/ Reset
    \/ \E t \in Tasks : Share(t) \/ Unshare(t) \/ Select(t) \/ MacTurn(t)

Consume(g) == \E u \in Updates :
    \/ LoseReceipt(g, u) \/ Ignore(g, u) \/ RequestPairing(g, u) \/ Answer(g, u)
    \/ \E t \in Tasks : UseTask(g, u, t) \/ NewTask(g, u, t) \/ StopTurn(g, u, t)
                      \/ QueueText(g, u, t) \/ StartText(g, u, t)

Polling == \E g \in Connects :
    \/ Fetch(g) \/ Leave(g) \/ Resume(g) \/ Consume(g)
    \/ \E t \in Tasks : Prepared(g, t)

Work ==
    \/ \E t \in Tasks : StartTurn(t) \/ EndTurn(t) \/ \E u \in Updates : Finish(t, u)
    \/ \E j \in jobs : SendPart(j) \/ EndReply(j)

Next ==
    \/ \E p \in Peers, k \in 0..MaxCodes : Send(p, k)
    \/ Operator \/ Polling \/ Work \/ Crash

Spec == Init /\ [][Next]_vars

-----------------------------------------------------------------------------
(* Properties *)

(* "A crash/uncertain send can never execute an update twice"               *)
(* (TelegramRemoteModel.swift:156): neither redelivery, nor a crash, nor a  *)
(* failed save, nor a reset of the cursor with a new token.                 *)
CommandsRunOnce == \A u \in Updates : ran[u] <= 1

(* A message that was taken keeps a route to the end of its turn, whatever  *)
(* late callbacks, restored routes, stops and new connections do.  And a    *)
(* turn nobody asked for from the phone has none, as long as no save has    *)
(* failed: if the file was replaced when a chat could not be unshared, a    *)
(* turn that does not start leaves its route.                               *)
RoutesMatch == \A t \in Tasks :
    /\ asked[t] # {} => Live(t) /\ route[t].id \in asked[t]
    /\ Live(t) /\ faults = 0 => asked[t] # {}

(* An answer goes to the account that asked, whatever is unpaired, stopped  *)
(* or paired while the turn runs and the reply waits.                       *)
AnswersReachTheirAsker == \A u \in Updates :
    told[u] # {} => told[u] = {mail[u].from}
=============================================================================
