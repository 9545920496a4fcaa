------------------------- MODULE MCTelegramRemote -------------------------
(* The model-checking instance of TelegramRemote. *)
EXTENDS TelegramRemote, TLC

Symmetry == Permutations(Peers)

Sent == {u \in Updates : mail[u] # None}

(* Bounds of the run.  Pairing links are used in the order in which they    *)
(* were made, and each once.                                                *)
LinksInOrder == \A u, v \in Sent : u < v /\ mail[v].code # 0 => mail[u].code < mail[v].code

(* Two accounts write in the same behaviour only to pair one after the      *)
(* other, and then one turn is enough.                                      *)
SecondAccountPairs ==
    \A u, v \in Sent : mail[u].from # mail[v].from =>
        turns < 2 /\ (mail[u].code # 0 \/ mail[v].code # 0)

(* A third message or a second turn comes without a fault, a second chat    *)
(* and a second link in one connection.                                     *)
LargeIsPlain ==
    3 \in Sent \/ turns = 2 =>
        faults = 0 /\ state.allowed = FirstTasks /\ chats = FirstTasks /\ codes <= gen

Usual == LinksInOrder /\ SecondAccountPairs /\ LargeIsPlain
=============================================================================
