-------------------------- MODULE MCPrivateRestore --------------------------
(* Model-checking instances of PrivateRestore. *)
EXTENDS PrivateRestore, TLC

(* Item 0 is in the files and not in the copy; the copy has a connection    *)
(* and no private records.                                                  *)
OriginalFiles == [s \in Stores |-> IF s = "integrations" THEN {} ELSE {0}]
OlderCopy == [s \in Stores |-> CASE s = "integrations" -> {Grant}
                                 [] s = "records" -> None
                                 [] OTHER -> {}]

Everything == Stores
CoreOnly == {"core"}
Symmetry == Permutations(Agents)
=============================================================================
