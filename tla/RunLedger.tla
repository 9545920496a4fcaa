----------------------------- MODULE RunLedger -----------------------------
(***************************************************************************)
(* What the work journal promises about its runs, without files, locks or  *)
(* windows.  A run is opened once, as the only continuation of its parent; *)
(* its record only gains evidence; the turn handler gets it at most once,  *)
(* after the dispatch was saved and before any outcome; and it is recorded *)
(* as completed only when the handler has had it.  A step that loses       *)
(* memory, a process or power is no step here.                             *)
(***************************************************************************)
EXTENDS Naturals

CONSTANTS Runs, Records, None, Absent

VARIABLES
    saved,   \* the record of each run whose save was acknowledged last
    calls    \* how often the turn handler got the run

vars == <<saved, calls>>

Init == saved = [r \in Runs |-> Absent] /\ calls = [r \in Runs |-> 0]

(* Only the record of r is saved, with any new content. *)
SaveOf(r) ==
    /\ saved'[r] \in Records
    /\ saved' = [saved EXCEPT ![r] = saved'[r]]
    /\ UNCHANGED calls

OnlyContinuation(p) == \A r \in Runs : saved[r] # Absent => saved[r].parent # p

Open(r) ==
    /\ saved[r] = Absent
    /\ SaveOf(r)
    /\ saved'[r].status = "prepared" /\ ~ saved'[r].sent /\ saved'[r].reviews = 0
    /\ saved'[r].parent # None => OnlyContinuation(saved'[r].parent)

(* The statuses a record may have later. *)
Later(status) ==
    CASE status = "prepared"    -> {"prepared", "dispatching", "completed", "error"}
      [] status = "dispatching" -> {"dispatching", "completed", "error"}
      [] OTHER                  -> {status}

Amend(r) ==
    LET old == saved[r]  new == saved'[r] IN
    /\ old # Absent
    /\ SaveOf(r)
    /\ new.conv = old.conv /\ new.parent = old.parent
    /\ new.status \in Later(old.status)
    /\ new.status = "completed" => calls[r] = 1
    /\ old.sent => new.sent
    /\ old.log <= new.log /\ old.reviews <= new.reviews

Call(r) ==
    /\ calls[r] = 0
    /\ saved[r] # Absent /\ saved[r].status = "dispatching" /\ saved[r].sent
    /\ calls' = [calls EXCEPT ![r] = 1]
    /\ UNCHANGED saved

Next == \E r \in Runs : Open(r) \/ Amend(r) \/ Call(r)

Spec == Init /\ [][Next]_vars
=============================================================================
