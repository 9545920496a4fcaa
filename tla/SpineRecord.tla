---------------------------- MODULE SpineRecord ----------------------------
(***************************************************************************)
(* What the single-turn Session Spine writer promises about one turn: it   *)
(* is intended first, enters the Spine once, is closed only when it is     *)
(* there, and a Spine with a torn end is left as it is.  The machine may   *)
(* lose its power: then a turn that was not synced may be gone, all of it  *)
(* or a part, but one that was synced stays.                               *)
(***************************************************************************)
EXTENDS Naturals, Sequences

CONSTANTS NRuns, PowerFails

VARIABLES
    intended,   \* runs whose turn somebody prepared
    log,        \* the turns of the Spine
    synced,     \* those of them that survive a loss of power
    closed,     \* runs whose intent has its commit marker
    broken      \* the Spine ends in a part of a turn

vars == <<intended, log, synced, closed, broken>>

Init == intended = {} /\ log = <<>> /\ synced = <<>> /\ closed = {} /\ broken = FALSE

Intend(r) ==
    /\ intended \subseteq {r} /\ intended' = {r}
    /\ UNCHANGED <<log, synced, closed, broken>>

Enter(r) ==
    /\ r \in intended /\ log = <<>> /\ ~broken
    /\ log' = <<r>> /\ synced' \in {<<>>, <<r>>}
    /\ UNCHANGED <<intended, closed, broken>>

Break ==
    /\ intended # {} /\ log = <<>> /\ ~broken
    /\ broken' = TRUE
    /\ UNCHANGED <<intended, log, synced, closed>>

Close(r) ==
    /\ r \in intended /\ log = <<r>> /\ ~broken
    /\ closed' = {r}
    /\ UNCHANGED <<intended, log, synced, broken>>

(* Only what was not synced is lost, and what is left is synced then; a torn *)
(* end is of a turn that was there, or it was torn before.                   *)
Lose ==
    /\ PowerFails /\ synced = <<>>
    /\ log' \in {<<>>, log} /\ synced' = log'
    /\ broken' \in BOOLEAN
    /\ broken' => log' = <<>> /\ (broken \/ log # <<>>)
    /\ UNCHANGED <<intended, closed>>

Next == Break \/ Lose \/ \E r \in 1..NRuns : Intend(r) \/ Enter(r) \/ Close(r)

Spec == Init /\ [][Next]_vars
=============================================================================
