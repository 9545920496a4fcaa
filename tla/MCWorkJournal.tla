--------------------------- MODULE MCWorkJournal ---------------------------
(* Model-checking instances of WorkJournal. *)
EXTENDS WorkJournal, TLC

Symmetry == Permutations(Windows) \cup Permutations(Runs)

(* Bounds of the safety run.  At most one window reads the journal at a     *)
(* time.                                                                    *)
OneReader == Cardinality({w \in Windows : pc[w] \in ReadStates}) <= 1

(* A third run occurs only where it is needed, as the other child of one    *)
(* parent, with no fault, no review and no reader about.                    *)
InUse == {r \in Runs : r \in lockFiles \/ \E w \in Windows : turn[w].run = r}

Child(r, p) ==
    /\ disk[r] # Absent => disk[r].parent = p
    /\ \A w \in Windows : turn[w].run = r => Parent(w) = p

Siblings == \E p \in Runs : disk[p] # Absent /\ \A r \in Runs \ {p} : Child(r, p)

Plain ==
    /\ faults = 0
    /\ \A r \in Runs : disk[r] # Absent => disk[r].reviews = 0
    /\ \A w \in Windows : pc[w] \notin ReadStates \cup {"review", "reviewing"}

ThirdIsSibling == OneReader /\ (InUse = Runs => Siblings /\ Plain)
=============================================================================
