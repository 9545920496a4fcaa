----------------------------- MODULE MCLiveTurn -----------------------------
(* Model-checking instances of LiveTurn. *)
EXTENDS LiveTurn, TLC

Plain(kind) == [kind |-> kind, selector |-> FALSE]
Selected(kind) == [kind |-> kind, selector |-> TRUE]

(* One job of every kind; the skill selector before one of them. *)
OneOfEach == {Selected("chat"), Plain("agent"), Plain("claude"), Plain("api")}

OnlyChat == {Plain("chat")}
=============================================================================
