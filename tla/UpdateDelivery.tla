--------------------------- MODULE UpdateDelivery ---------------------------
(***************************************************************************)
(* What the operator is promised about an update of a running task         *)
(* (TaskUpdates.swift, TaskUpdate.label): it is handed to the provider at  *)
(* most once, whatever is lost or restarted, and the line below it never   *)
(* says more than is known:                                                *)
(*   "waiting", "sending"   the task can still receive it;                 *)
(*   "added"                the provider took it;                          *)
(*   "not sent"             the provider did not take it;                  *)
(*   "unconfirmed"          nobody knows, and nothing is sent again.       *)
(***************************************************************************)
EXTENDS Naturals, TLAPS

CONSTANT Updates

VARIABLES
    told,    \* what the operator reads below an update
    fate     \* what became of it: still "here", "handed" over, "taken" or "refused"

vars == <<told, fate>>

Lines == {"none", "waiting", "sending", "added", "not sent", "unconfirmed"}
Live == {"waiting", "sending"}
Fates == {"here", "handed", "taken", "refused"}

Init ==
    /\ told = [u \in Updates |-> "none"]
    /\ fate = [u \in Updates |-> "here"]

(* What may be said of an update once it may have left. *)
Verdicts(u) ==
    {"unconfirmed"} \cup (CASE fate[u] = "taken"  -> {"added"}
                            [] fate[u] = "handed" -> {}
                            [] OTHER              -> {"not sent"})

NextLines(u) ==
    CASE told[u] = "none"    -> {"waiting"}
      [] told[u] = "waiting" -> {"sending", "not sent"}
      [] told[u] \in {"sending", "unconfirmed"} -> Verdicts(u)
      [] OTHER -> {}

(* The program shows something new, of one update or of several. *)
Tell ==
    /\ told' \in [Updates -> Lines]
    /\ \A u \in Updates : told'[u] \in {told[u]} \cup NextLines(u)
    /\ UNCHANGED fate

(* What is left to say after a restart: nothing is in progress any more,    *)
(* and what was not saved is not claimed.                                   *)
Remembered(u) ==
    CASE told[u] = "none"  -> {"none", "not sent"}
      [] told[u] = "added" -> {"added", "unconfirmed"}
      [] told[u] \in {"waiting", "not sent"} -> {"not sent", "unconfirmed"}
      [] OTHER -> {"unconfirmed"}

Restart ==
    /\ told' \in [Updates -> Lines]
    /\ \A u \in Updates : told'[u] \in Remembered(u)
    /\ UNCHANGED fate

(* An update leaves for the provider once, while it is said to be on its    *)
(* way, or after nobody knew any more.                                      *)
Hand(u) ==
    /\ told[u] \in {"sending", "unconfirmed"}
    /\ fate[u] = "here"
    /\ fate' = [fate EXCEPT ![u] = "handed"]
    /\ UNCHANGED told

Answer(u) ==
    /\ fate[u] = "handed"
    /\ \E f \in {"taken", "refused"} : fate' = [fate EXCEPT ![u] = f]
    /\ UNCHANGED told

Next == Tell \/ Restart \/ \E u \in Updates : Hand(u) \/ Answer(u)

Spec == Init /\ [][Next]_vars

-----------------------------------------------------------------------------

(* The line below an update is never wrong: what is said to be added was    *)
(* taken, and what is said not to be sent was not (TaskUpdate.label).       *)
Honest ==
    \A u \in Updates :
        /\ told[u] = "added" => fate[u] = "taken"
        /\ told[u] \in {"none", "waiting", "not sent"} => fate[u] \in {"here", "refused"}

(* The program may show any of the lines, and nothing else. *)
Typed ==
    /\ told \in [Updates -> Lines]
    /\ fate \in [Updates -> Fates]

(* The lines are right for any set of updates, in any order of steps and    *)
(* restarts: "added" only after the provider took it, "not sent" never      *)
(* after it may have (TaskUpdate.label).                                    *)
THEOREM LinesAreHonest == Spec => []Honest
<1> DEFINE Inv == Typed /\ Honest
<1> USE DEF Typed, Honest, Lines, Fates
<1>1. Init => Inv
    BY DEF Init
<1>2. Inv /\ [Next]_vars => Inv'
    <2> SUFFICES ASSUME Inv, [Next]_vars PROVE Inv'
        OBVIOUS
    <2>1. CASE Tell
        BY <2>1 DEF Tell, NextLines, Verdicts
    <2>2. CASE Restart
        BY <2>2 DEF Restart, Remembered
    <2>3. ASSUME NEW u \in Updates, Hand(u) PROVE Inv'
        BY <2>3 DEF Hand
    <2>4. ASSUME NEW u \in Updates, Answer(u) PROVE Inv'
        BY <2>4 DEF Answer
    <2>5. CASE UNCHANGED vars
        BY <2>5 DEF vars
    <2> QED
        BY <2>1, <2>2, <2>3, <2>4, <2>5 DEF Next
<1> QED
    BY <1>1, <1>2, PTL DEF Spec

(* Nobody is left waiting: what is said to be in progress is settled.       *)
Settled == \A u \in Updates : told[u] \in Live ~> told[u] \notin Live
=============================================================================
