----------------------------- MODULE CodexReset -----------------------------
(***************************************************************************)
(* Spending an earned reset of the Codex limits (native_codex_reset.py,    *)
(* with native_codex_usage.py, native_bridge.py and CodexUsageModel.swift) *)
(* from several windows that share one profile.                            *)
(*                                                                         *)
(* A window is a client and its bridge.  Windows share the journal of      *)
(* attempts, one row for the account, under a lock that nobody waits for.  *)
(* The service is external: it may carry out a request long after it was   *)
(* given up, and it answers the same key the same way.  An attempt is      *)
(* known by its key; keys are numbered as the operator's dialogs make      *)
(* them.  The four outcomes of the service are two here: "spent" (reset,   *)
(* alreadyRedeemed) and "unspent" (nothingToReset, noCredit).              *)
(***************************************************************************)
EXTENDS Naturals

CONSTANTS
    Windows,
    None,
    Credits,      \* resets the account has earned
    MaxKeys,      \* bound: new attempts
    MaxFaults     \* bound: lost answers, failed saves and reads, windows that die

ASSUME CodexResetAssumption ==
    /\ Credits \in Nat /\ MaxKeys \in Nat /\ MaxFaults \in Nat
    /\ None \notin Windows

Keys == 1..MaxKeys
NoKey == 0
Outcomes == {"spent", "unspent"}

(* A row of the journal, also what a window shows of it. *)
Row == [key : {NoKey} \cup Keys, outcome : Outcomes \cup {"none", "pending"}]
NoRow == [key |-> NoKey, outcome |-> "none"]
Pending(k) == [key |-> k, outcome |-> "pending"]

(* account_reset: the key to use and the key the operator saw before. *)
Attempt == [key : {NoKey} \cup Keys, expected : {NoKey} \cup Keys]
NoAttempt == [key |-> NoKey, expected |-> NoKey]

Places == {"idle", "asked", "locked", "saved", "waiting", "leaving"}
Holding == {"locked", "saved", "waiting"}

VARIABLES
    row,          \* the journal
    lock,         \* the window that holds its lock
    view,         \* what a window shows; None before it has read anything
    awaits,       \* whether the client still waits for its bridge
    message,      \* what the window says of the last attempt
    pc, attempt,  \* what a bridge does, and for which attempt
    result,       \* the outcome it will report
    keys,         \* keys made so far
    sent,         \* keys of requests the service has or will have
    decided,      \* what the service did with a key
    credits,      \* resets left at the service
    from,         \* history: the key that was shown when a key was made
    faults

window  == <<view, awaits, message>>
bridge  == <<pc, attempt, result>>
service == <<sent, decided, credits>>
vars    == <<row, lock, window, bridge, keys, service, from, faults>>

Messages == [key : {NoKey} \cup Keys, says : Outcomes \cup {"none", "unknown"}]
NoMessage == [key |-> NoKey, says |-> "none"]

TypeOK ==
    /\ row \in Row
    /\ lock \in {None} \cup Windows
    /\ view \in [Windows -> {None} \cup Row]
    /\ awaits \in [Windows -> BOOLEAN]
    /\ message \in [Windows -> Messages]
    /\ pc \in [Windows -> Places] /\ attempt \in [Windows -> Attempt]
    /\ result \in [Windows -> Outcomes \cup {"pending", "error"}]
    /\ keys \in 0..MaxKeys /\ sent \subseteq Keys
    /\ decided \in [Keys -> Outcomes \cup {"none"}]
    /\ credits \in 0..Credits
    /\ from \in [Keys -> {NoKey} \cup Keys]
    /\ faults \in 0..MaxFaults

Init ==
    /\ row = NoRow /\ lock = None
    /\ view = [w \in Windows |-> None] /\ awaits = [w \in Windows |-> FALSE]
    /\ message = [w \in Windows |-> NoMessage]
    /\ pc = [w \in Windows |-> "idle"] /\ attempt = [w \in Windows |-> NoAttempt]
    /\ result = [w \in Windows |-> "error"]
    /\ keys = 0 /\ sent = {} /\ decided = [k \in Keys |-> "none"]
    /\ credits = Credits
    /\ from = [k \in Keys |-> NoKey]
    /\ faults = 0

Fault == faults < MaxFaults /\ faults' = faults + 1

-----------------------------------------------------------------------------
(* The client (CodexUsageModel) *)

(* Mutant: a pending attempt is said to have spent nothing. *)
BugSays(r) == IF r = "spent" THEN "spent" ELSE "unspent"

Says(r) == IF r \in Outcomes THEN r ELSE "unknown"

Message(k, r) == IF r \in {"none", "error"} THEN NoMessage ELSE [key |-> k, says |-> Says(r)]

(* refresh: reads the limits and the journal, without its lock and beside   *)
(* whatever the bridge does.                                                *)
Refresh(w) ==
    /\ ~awaits[w]
    /\ view' = [view EXCEPT ![w] = row]
    /\ message' = [message EXCEPT ![w] = Message(row.key, row.outcome)]
    /\ UNCHANGED <<row, lock, awaits, bridge, keys, service, from, faults>>

(* consume: an attempt that is pending is checked with its own key, another *)
(* one gets a new key.  A bridge that is still busy would refuse it.        *)
Confirm(w) ==
    /\ ~awaits[w] /\ pc[w] = "idle"
    /\ view[w] # None
    /\ awaits' = [awaits EXCEPT ![w] = TRUE]
    /\ message' = [message EXCEPT ![w] = NoMessage]
    /\ pc' = [pc EXCEPT ![w] = "asked"]
    /\ \/ /\ view[w].outcome = "pending"
          /\ attempt' = [attempt EXCEPT ![w] = [key |-> view[w].key, expected |-> view[w].key]]
          /\ UNCHANGED <<keys, from>>
       \/ /\ view[w].outcome # "pending"
          /\ keys < MaxKeys /\ keys' = keys + 1
          /\ attempt' = [attempt EXCEPT ![w] = [key |-> keys', expected |-> view[w].key]]
          /\ from' = [from EXCEPT ![keys'] = view[w].key]
    /\ UNCHANGED <<row, lock, view, result, service, faults>>

(* The client gives up after 120 s; its bridge does not.                    *)
GiveUp(w) ==
    /\ awaits[w] /\ Fault
    /\ awaits' = [awaits EXCEPT ![w] = FALSE]
    /\ view' = [view EXCEPT ![w] = None]
    /\ UNCHANGED <<row, lock, message, bridge, keys, service, from>>

-----------------------------------------------------------------------------
(* The bridge (consume_reset) *)

Leave(w, r) ==
    /\ pc' = [pc EXCEPT ![w] = "leaving"]
    /\ result' = [result EXCEPT ![w] = r]

(* The lock is refused when another window has it. *)
Lock(w) ==
    /\ pc[w] = "asked"
    /\ \/ /\ lock = None
          /\ lock' = w /\ pc' = [pc EXCEPT ![w] = "locked"] /\ UNCHANGED result
       \/ lock # None /\ Leave(w, "error") /\ UNCHANGED lock
    /\ UNCHANGED <<row, window, attempt, keys, service, from, faults>>

(* Mutant: a new attempt starts whatever the window had seen before. *)
BugStartable(w) == row.outcome # "pending" /\ credits > 0

(* Whether the attempt may start, by the journal and the fresh limits. *)
Startable(w) ==
    /\ row.outcome # "pending"
    /\ row.key = attempt[w].expected
    /\ credits > 0

(* The service answers no limits, or the journal or account do not fit. *)
Refuse(w) ==
    /\ pc[w] = "locked"
    /\ \/ row.key # attempt[w].key /\ ~Startable(w) /\ UNCHANGED faults
       \/ Fault
    /\ Leave(w, "error") /\ lock' = None
    /\ UNCHANGED <<row, window, attempt, keys, service, from>>

(* A new attempt is in the journal before anything is requested.  A save    *)
(* that fails may have reached the file.                                    *)
Begin(w) ==
    /\ pc[w] = "locked"
    /\ row.key # attempt[w].key /\ Startable(w)
    /\ \/ /\ row' = Pending(attempt[w].key)
          /\ pc' = [pc EXCEPT ![w] = "saved"] /\ UNCHANGED <<result, lock, faults>>
       \/ /\ Fault /\ row' \in {row, Pending(attempt[w].key)}
          /\ Leave(w, "error") /\ lock' = None
    /\ UNCHANGED <<window, attempt, keys, service, from>>

(* Mutant: an attempt left pending is reported, never checked again. *)
BugAgain(w) ==
    /\ pc[w] = "locked" /\ row.key = attempt[w].key
    /\ Leave(w, row.outcome) /\ lock' = None
    /\ UNCHANGED <<row, window, attempt, keys, service, from, faults>>

(* An attempt the journal knows goes on, or has its outcome already. *)
Again(w) ==
    /\ pc[w] = "locked" /\ row.key = attempt[w].key
    /\ \/ /\ row.outcome = "pending"
          /\ pc' = [pc EXCEPT ![w] = "saved"] /\ UNCHANGED <<result, lock>>
       \/ /\ row.outcome # "pending"
          /\ Leave(w, row.outcome) /\ lock' = None
    /\ UNCHANGED <<row, window, attempt, keys, service, from, faults>>

Request(w) ==
    /\ pc[w] = "saved"
    /\ sent' = sent \cup {attempt[w].key}
    /\ pc' = [pc EXCEPT ![w] = "waiting"]
    /\ UNCHANGED <<row, lock, window, attempt, result, keys, decided, credits, from, faults>>

(* The outcome is saved and reported; when the save fails, the attempt is   *)
(* reported as pending, whatever reached the file.                          *)
Answer(w) ==
    LET k == attempt[w].key
        settled == [key |-> k, outcome |-> decided[k]]
    IN /\ pc[w] = "waiting" /\ decided[k] # "none"
       /\ lock' = None
       /\ \/ row' = settled /\ Leave(w, decided[k]) /\ UNCHANGED faults
          \/ Fault /\ row' \in {row, settled} /\ Leave(w, "pending")
       /\ UNCHANGED <<window, attempt, keys, service, from>>

(* Mutant: an attempt without an answer is taken out of the journal. *)
BugNoAnswer(w) ==
    /\ pc[w] = "waiting" /\ Fault
    /\ Leave(w, "error") /\ lock' = None /\ row' = NoRow
    /\ UNCHANGED <<window, attempt, keys, service, from>>

(* No answer in 30 s, an error, or an answer nobody knows. *)
NoAnswer(w) ==
    /\ pc[w] = "waiting" /\ Fault
    /\ Leave(w, "pending") /\ lock' = None
    /\ UNCHANGED <<row, window, attempt, keys, service, from>>

(* The usage is read again, with the lock released, and reported; after an  *)
(* error, or when it cannot be read, the window shows nothing.              *)
Report(w) ==
    /\ pc[w] = "leaving"
    /\ pc' = [pc EXCEPT ![w] = "idle"]
    /\ \/ /\ awaits[w]
          /\ awaits' = [awaits EXCEPT ![w] = FALSE]
          /\ message' = [message EXCEPT ![w] = Message(attempt[w].key, result[w])]
          /\ \/ result[w] # "error" /\ view' = [view EXCEPT ![w] = row]
             \/ view' = [view EXCEPT ![w] = None]
       \/ ~awaits[w] /\ UNCHANGED window
    /\ attempt' = [attempt EXCEPT ![w] = NoAttempt]
    /\ result' = [result EXCEPT ![w] = "error"]
    /\ UNCHANGED <<row, lock, keys, service, from, faults>>

-----------------------------------------------------------------------------
(* Outside *)

(* The service decides on a key once: later requests with it get the same.  *)
Decide(k) ==
    /\ k \in sent /\ decided[k] = "none"
    /\ \/ credits > 0 /\ decided' = [decided EXCEPT ![k] = "spent"] /\ credits' = credits - 1
       \/ decided' = [decided EXCEPT ![k] = "unspent"] /\ UNCHANGED credits
    /\ UNCHANGED <<row, lock, window, bridge, keys, sent, from, faults>>

(* A window dies with its bridge; what it requested stays requested. *)
Die(w) ==
    /\ Fault
    /\ view' = [view EXCEPT ![w] = None] /\ awaits' = [awaits EXCEPT ![w] = FALSE]
    /\ message' = [message EXCEPT ![w] = NoMessage]
    /\ pc' = [pc EXCEPT ![w] = "idle"] /\ attempt' = [attempt EXCEPT ![w] = NoAttempt]
    /\ result' = [result EXCEPT ![w] = "error"]
    /\ lock' = (IF lock = w THEN None ELSE lock)
    /\ UNCHANGED <<row, keys, service, from>>

-----------------------------------------------------------------------------

Client(w) == Refresh(w) \/ Confirm(w) \/ GiveUp(w)

Bridge(w) ==
    Lock(w) \/ Refuse(w) \/ Begin(w) \/ Again(w) \/ Request(w)
        \/ Answer(w) \/ NoAnswer(w) \/ Report(w)

Next ==
    \/ \E w \in Windows : Client(w) \/ Bridge(w) \/ Die(w)
    \/ \E k \in Keys : Decide(k)

Spec == Init /\ [][Next]_vars

(* The operator looks at an attempt that is not settled and checks it, the  *)
(* bridge runs and the service answers.                                     *)
Check(w) == view[w] # None /\ view[w].outcome = "pending" /\ Confirm(w)

Fairness ==
    /\ \A w \in Windows : WF_vars(Refresh(w) \/ Check(w) \/ Bridge(w))
    /\ WF_vars(\E k \in Keys : Decide(k))

FairSpec == Spec /\ Fairness

-----------------------------------------------------------------------------
(* Properties *)

(* Two confirmations of the same displayed state never spend two resets:    *)
(* a stale window, or one that was quicker, cannot start a second attempt   *)
(* (native_codex_reset.py:113-115).                                         *)
OnePerConfirmation ==
    \A k, l \in Keys :
        (k # l /\ {k, l} \subseteq sent) => from[k] # from[l]

(* An attempt that may have reached the service stays in the journal until  *)
(* the service has decided on it: no crash, failed save or other window     *)
(* makes a possibly spent reset look unused (lines 121-135).                *)
NoAttemptForgotten ==
    \A k \in sent : row.key = k \/ decided[k] # "none"

(* What a window and the journal say of an attempt is so, also when another *)
(* answer or a later request with the same key comes after it (lines        *)
(* 124-135, CodexUsageModel.message).                                       *)
NothingClaimed ==
    /\ row.outcome \in Outcomes => decided[row.key] = row.outcome
    /\ \A w \in Windows :
          message[w].says \in Outcomes => decided[message[w].key] = message[w].says

(* While a request is out, its key is the one in the journal, still pending *)
(* there: another process that looks sees that a reset may be being spent.  *)
PendingWhileAsked ==
    \A w \in Windows : pc[w] \in {"saved", "waiting"} => row = Pending(attempt[w].key)

(* An attempt left pending is settled when the operator keeps checking it.  *)
PendingEnds == (row.outcome = "pending") ~> (row.outcome # "pending")
=============================================================================
