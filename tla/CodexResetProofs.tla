------------------------- MODULE CodexResetProofs --------------------------
(***************************************************************************)
(* Proofs about CodexReset, for any number of windows, attempts, resets    *)
(* and faults.                                                             *)
(*                                                                         *)
(* The argument: a window writes the journal only while it holds the lock, *)
(* so the row of an attempt that is out cannot change (Held).  A row is    *)
(* replaced by an attempt with a larger key that was confirmed when the    *)
(* old row was shown, so the keys of the journal form a chain and no two   *)
(* attempts of it were confirmed for the same row (Chain).  Whatever is    *)
(* said of an attempt was decided by the service before (Truth).           *)
(***************************************************************************)
EXTENDS CodexReset, TLAPS

(* A row is of an attempt or empty. *)
Filled(r) == r.outcome = "none" <=> r.key = NoKey

(* What a window holds at each place of a request. *)
Shape ==
    /\ Filled(row) /\ row.key <= keys
    /\ \A k \in sent : k <= keys
    /\ \A w \in Windows :
          /\ view[w] # None => Filled(view[w]) /\ view[w].key <= keys
          /\ message[w].says \in Outcomes => message[w].key # NoKey
          /\ pc[w] # "idle" => attempt[w].key # NoKey /\ attempt[w].key <= keys

(* The lock has one owner, and the attempt that is out is in the journal. *)
Held ==
    /\ \A w \in Windows : pc[w] \in Holding => lock = w
    /\ PendingWhileAsked

(* Attempts that the service may know. *)
Used == {k \in Keys : k \in sent \/ row.key = k}

(* A later attempt was confirmed when an earlier one, or a later one than   *)
(* that, was shown.                                                         *)
Chain ==
    /\ \A k \in Keys : k <= keys => from[k] < k
    /\ \A w \in Windows :
          pc[w] # "idle" => attempt[w].expected \in {attempt[w].key, from[attempt[w].key]}
    /\ \A k \in sent : k <= row.key
    /\ \A k, l \in Used : k < l => k <= from[l]

(* Nothing is claimed that the service has not decided. *)
Truth ==
    /\ NoAttemptForgotten
    /\ NothingClaimed
    /\ \A w \in Windows :
          (pc[w] = "leaving" /\ result[w] \in Outcomes) => decided[attempt[w].key] = result[w]

IInv == TypeOK /\ Shape /\ Held /\ Chain /\ Truth

(* No attempt has been made. *)
LEMMA InitInv == Init => IInv
BY CodexResetAssumption
   DEF Init, IInv, TypeOK, Shape, Filled, Held, PendingWhileAsked, Holding, Chain, Used,
       Truth, NoAttemptForgotten, NothingClaimed, Row, NoRow, Attempt, NoAttempt, Places,
       Messages, NoMessage, Outcomes, NoKey, Keys

-----------------------------------------------------------------------------
(* Each part is preserved, action by action. *)

(* The types. *)
LEMMA TypeStep ==
    ASSUME TypeOK, Shape, [Next]_vars
    PROVE  TypeOK'
<1> USE CodexResetAssumption DEF TypeOK, Row, Attempt, Places, Messages,
                                 Outcomes, NoKey, window, bridge, service
<1>1. ASSUME NEW w \in Windows, Refresh(w) PROVE TypeOK'
    BY <1>1 DEF Refresh, Message, Says, NoMessage
<1>2. ASSUME NEW w \in Windows, Confirm(w) PROVE TypeOK'
    <2>1. keys' \in 0..MaxKeys /\ keys <= keys'
        BY <1>2 DEF Confirm
    <2>2. view[w].key \in {NoKey} \cup Keys
        BY <1>2 DEF Confirm
    <2>3. \E a \in Attempt : attempt' = [attempt EXCEPT ![w] = a]
        <3>1. CASE view[w].outcome = "pending"
            BY <1>2, <2>2, <3>1 DEF Confirm
        <3>2. CASE view[w].outcome # "pending"
            <4>1. [key |-> keys', expected |-> view[w].key] \in Attempt
                BY <1>2, <2>2, <3>2 DEF Confirm, Keys
            <4> QED
                BY <1>2, <3>2, <4>1 DEF Confirm
        <3> QED
            BY <3>1, <3>2
    <2>4. attempt' \in [Windows -> Attempt]
        BY <2>3
    <2>5. from' \in [Keys -> {NoKey} \cup Keys]
        BY <1>2, <2>2 DEF Confirm
    <2>6. message' \in [Windows -> Messages]
        BY <1>2 DEF Confirm, NoMessage
    <2> QED
        BY <1>2, <2>1, <2>4, <2>5, <2>6 DEF Confirm
<1>3. ASSUME NEW w \in Windows, GiveUp(w) PROVE TypeOK'
    BY <1>3 DEF GiveUp, Fault
<1>4. ASSUME NEW w \in Windows, Lock(w) PROVE TypeOK'
    BY <1>4 DEF Lock, Leave
<1>5. ASSUME NEW w \in Windows, Refuse(w) PROVE TypeOK'
    BY <1>5 DEF Refuse, Leave, Fault
<1>6. ASSUME NEW w \in Windows, Begin(w) PROVE TypeOK'
    <2>1. attempt[w].key \in Keys
        BY <1>6 DEF Begin, Shape
    <2>2. row' \in Row
        BY <1>6, <2>1 DEF Begin, Pending
    <2>3. faults' \in 0..MaxFaults
        BY <1>6 DEF Begin, Fault
    <2>4. pc' \in [Windows -> Places] /\ result' \in [Windows -> Outcomes \cup {"pending", "error"}]
        BY <1>6 DEF Begin, Leave
    <2>5. lock' \in {None} \cup Windows
        BY <1>6 DEF Begin
    <2> QED
        BY <1>6, <2>2, <2>3, <2>4, <2>5 DEF Begin
<1>7. ASSUME NEW w \in Windows, Again(w) PROVE TypeOK'
    <2>1. row.outcome # "none"
        BY <1>7 DEF Again, Shape, Filled
    <2> QED
        BY <1>7, <2>1 DEF Again, Leave
<1>8. ASSUME NEW w \in Windows, Request(w) PROVE TypeOK'
    <2>1. attempt[w].key \in Keys
        BY <1>8 DEF Request, Shape
    <2> QED
        BY <1>8, <2>1 DEF Request
<1>9. ASSUME NEW w \in Windows, Answer(w) PROVE TypeOK'
    <2>1. attempt[w].key \in Keys
        BY <1>9 DEF Answer, Shape
    <2>2. row' \in Row /\ decided[attempt[w].key] \in Outcomes
        BY <1>9, <2>1 DEF Answer
    <2>3. result' \in [Windows -> Outcomes \cup {"pending", "error"}]
        BY <1>9, <2>2 DEF Answer, Leave
    <2>4. pc' \in [Windows -> Places] /\ lock' = None
        BY <1>9 DEF Answer, Leave
    <2>5. faults' \in 0..MaxFaults
        BY <1>9 DEF Answer, Fault
    <2> QED
        BY <1>9, <2>2, <2>3, <2>4, <2>5 DEF Answer
<1>10. ASSUME NEW w \in Windows, NoAnswer(w) PROVE TypeOK'
    BY <1>10 DEF NoAnswer, Leave, Fault
<1>11. ASSUME NEW w \in Windows, Report(w) PROVE TypeOK'
    <2>1. Message(attempt[w].key, result[w]) \in Messages
        BY <1>11 DEF Report, Message, Says, NoMessage
    <2>2. view' \in [Windows -> {None} \cup Row]
        BY <1>11 DEF Report
    <2>3. message' \in [Windows -> Messages]
        BY <1>11, <2>1 DEF Report
    <2>4. awaits' \in [Windows -> BOOLEAN]
        BY <1>11 DEF Report
    <2>5. attempt' \in [Windows -> Attempt]
        BY <1>11 DEF Report, NoAttempt
    <2>6. pc' \in [Windows -> Places] /\ result' \in [Windows -> Outcomes \cup {"pending", "error"}]
        BY <1>11 DEF Report
    <2> QED
        BY <1>11, <2>2, <2>3, <2>4, <2>5, <2>6 DEF Report
<1>12. ASSUME NEW w \in Windows, Die(w) PROVE TypeOK'
    BY <1>12 DEF Die, NoMessage, NoAttempt, Fault
<1>13. ASSUME NEW k \in Keys, Decide(k) PROVE TypeOK'
    <2>1. credits' \in 0..Credits
        BY <1>13 DEF Decide
    <2> QED
        BY <1>13, <2>1 DEF Decide
<1>14. CASE UNCHANGED vars
    BY <1>14 DEF vars, window, bridge, service
<1> QED
    BY <1>1, <1>2, <1>3, <1>4, <1>5, <1>6, <1>7, <1>8, <1>9, <1>10, <1>11, <1>12,
       <1>13, <1>14 DEF Next, Client, Bridge

(* A window at work has an attempt whose key was made. *)
LEMMA ShapeStep ==
    ASSUME TypeOK, Shape, [Next]_vars
    PROVE  Shape'
<1> USE CodexResetAssumption DEF TypeOK, Shape, Filled, Row, Attempt, Places,
                                 Messages, Outcomes, NoKey, window, bridge,
                                 service
<1>1. ASSUME NEW w \in Windows, Refresh(w) PROVE Shape'
    BY <1>1 DEF Refresh, Message, NoMessage
<1>2. ASSUME NEW w \in Windows, Confirm(w) PROVE Shape'
    <2>1. keys <= keys' /\ keys' \in Nat /\ view[w].key \in Nat
        BY <1>2 DEF Confirm, Keys
    <2>2. attempt'[w].key # NoKey /\ attempt'[w].key <= keys'
        BY <1>2, <2>1 DEF Confirm
    <2>3. \A v \in Windows : v # w => attempt'[v] = attempt[v] /\ pc'[v] = pc[v]
        BY <1>2 DEF Confirm
    <2>4. \A v \in Windows : pc'[v] # "idle" => attempt'[v].key # NoKey /\ attempt'[v].key <= keys'
        <3> TAKE v \in Windows
        <3>1. CASE v = w
            BY <2>2, <3>1
        <3>2. CASE v # w
            BY <2>1, <2>3, <3>2 DEF Keys
        <3> QED
            BY <3>1, <3>2
    <2>5. \A v \in Windows : message'[v].says \in Outcomes => message'[v].key # NoKey
        BY <1>2 DEF Confirm, NoMessage
    <2> QED
        BY <1>2, <2>1, <2>4, <2>5 DEF Confirm, Keys
<1>3. ASSUME NEW w \in Windows, GiveUp(w) PROVE Shape'
    BY <1>3 DEF GiveUp
<1>4. ASSUME NEW w \in Windows, Lock(w) PROVE Shape'
    BY <1>4 DEF Lock, Leave
<1>5. ASSUME NEW w \in Windows, Refuse(w) PROVE Shape'
    BY <1>5 DEF Refuse, Leave
<1>6. ASSUME NEW w \in Windows, Begin(w) PROVE Shape'
    BY <1>6 DEF Begin, Pending, Leave
<1>7. ASSUME NEW w \in Windows, Again(w) PROVE Shape'
    BY <1>7 DEF Again, Leave
<1>8. ASSUME NEW w \in Windows, Request(w) PROVE Shape'
    BY <1>8 DEF Request
<1>9. ASSUME NEW w \in Windows, Answer(w) PROVE Shape'
    BY <1>9 DEF Answer, Leave
<1>10. ASSUME NEW w \in Windows, NoAnswer(w) PROVE Shape'
    BY <1>10 DEF NoAnswer, Leave
<1>11. ASSUME NEW w \in Windows, Report(w) PROVE Shape'
    BY <1>11 DEF Report, Message, NoMessage
<1>12. ASSUME NEW w \in Windows, Die(w) PROVE Shape'
    BY <1>12 DEF Die, NoMessage
<1>13. ASSUME NEW k \in Keys, Decide(k) PROVE Shape'
    BY <1>13 DEF Decide
<1>14. CASE UNCHANGED vars
    BY <1>14 DEF vars, window, bridge, service
<1> QED
    BY <1>1, <1>2, <1>3, <1>4, <1>5, <1>6, <1>7, <1>8, <1>9, <1>10, <1>11, <1>12,
       <1>13, <1>14 DEF Next, Client, Bridge

(* Only the owner of the lock works on the journal. *)
LEMMA HeldStep ==
    ASSUME TypeOK, Shape, Held, [Next]_vars
    PROVE  Held'
<1> USE CodexResetAssumption DEF TypeOK, Held, PendingWhileAsked, Holding,
                                 Row, Pending, window, bridge, service
<1>1. ASSUME NEW w \in Windows, Refresh(w) PROVE Held'
    BY <1>1 DEF Refresh
<1>2. ASSUME NEW w \in Windows, Confirm(w) PROVE Held'
    BY <1>2 DEF Confirm
<1>3. ASSUME NEW w \in Windows, GiveUp(w) PROVE Held'
    BY <1>3 DEF GiveUp
<1>4. ASSUME NEW w \in Windows, Lock(w) PROVE Held'
    BY <1>4 DEF Lock, Leave
<1>5. ASSUME NEW w \in Windows, Refuse(w) PROVE Held'
    BY <1>5 DEF Refuse, Leave
<1>6. ASSUME NEW w \in Windows, Begin(w) PROVE Held'
    BY <1>6 DEF Begin, Leave
<1>7. ASSUME NEW w \in Windows, Again(w) PROVE Held'
    BY <1>7 DEF Again, Leave
<1>8. ASSUME NEW w \in Windows, Request(w) PROVE Held'
    BY <1>8 DEF Request
<1>9. ASSUME NEW w \in Windows, Answer(w) PROVE Held'
    BY <1>9 DEF Answer, Leave
<1>10. ASSUME NEW w \in Windows, NoAnswer(w) PROVE Held'
    BY <1>10 DEF NoAnswer, Leave
<1>11. ASSUME NEW w \in Windows, Report(w) PROVE Held'
    BY <1>11 DEF Report
<1>12. ASSUME NEW w \in Windows, Die(w) PROVE Held'
    BY <1>12 DEF Die
<1>13. ASSUME NEW k \in Keys, Decide(k) PROVE Held'
    BY <1>13 DEF Decide
<1>14. CASE UNCHANGED vars
    BY <1>14 DEF vars, window, bridge, service
<1> QED
    BY <1>1, <1>2, <1>3, <1>4, <1>5, <1>6, <1>7, <1>8, <1>9, <1>10, <1>11, <1>12,
       <1>13, <1>14 DEF Next, Client, Bridge

(* The journal goes on to an attempt that was confirmed for its row. *)
LEMMA ChainStep ==
    ASSUME TypeOK, Shape, Held, Chain, [Next]_vars
    PROVE  Chain'
<1> USE CodexResetAssumption DEF TypeOK, Shape, Held, PendingWhileAsked,
                                 Chain, Used, Row, Attempt, NoKey, Keys,
                                 Pending, window, bridge, service
<1>1. ASSUME NEW w \in Windows, Refresh(w) PROVE Chain'
    BY <1>1 DEF Refresh
<1>2. ASSUME NEW w \in Windows, Confirm(w) PROVE Chain'
    <2>1. CASE view[w].outcome = "pending"
        BY <1>2, <2>1 DEF Confirm
    <2>2. CASE view[w].outcome # "pending"
        <3>1. /\ keys' = keys + 1 /\ keys' \in Keys
              /\ from' = [from EXCEPT ![keys'] = view[w].key]
              /\ attempt'[w] = [key |-> keys', expected |-> view[w].key]
            BY <1>2, <2>2 DEF Confirm, Keys
        <3>2. view[w].key <= keys /\ view[w].key \in {NoKey} \cup Keys
            BY <1>2 DEF Confirm
        <3>3. \A k \in Keys : k # keys' => from'[k] = from[k]
            BY <3>1
        <3>4. \A k \in Keys : k <= keys' => from'[k] < k
            BY <3>1, <3>2, <3>3 DEF Keys
        <3>5. \A v \in Windows : pc'[v] # "idle" =>
                 attempt'[v].expected \in {attempt'[v].key, from'[attempt'[v].key]}
            BY <1>2, <2>2, <3>1, <3>3 DEF Confirm, Keys
        <3> QED
            BY <1>2, <3>1, <3>3, <3>4, <3>5 DEF Confirm, Keys
    <2> QED
        BY <2>1, <2>2
<1>3. ASSUME NEW w \in Windows, GiveUp(w) PROVE Chain'
    BY <1>3 DEF GiveUp
<1>4. ASSUME NEW w \in Windows, Lock(w) PROVE Chain'
    BY <1>4 DEF Lock, Leave
<1>5. ASSUME NEW w \in Windows, Refuse(w) PROVE Chain'
    BY <1>5 DEF Refuse, Leave
<1>6. ASSUME NEW w \in Windows, Begin(w) PROVE Chain'
    BY <1>6 DEF Begin, Leave, Startable
<1>7. ASSUME NEW w \in Windows, Again(w) PROVE Chain'
    BY <1>7 DEF Again, Leave
<1>8. ASSUME NEW w \in Windows, Request(w) PROVE Chain'
    BY <1>8 DEF Request, Holding
<1>9. ASSUME NEW w \in Windows, Answer(w) PROVE Chain'
    BY <1>9 DEF Answer, Leave
<1>10. ASSUME NEW w \in Windows, NoAnswer(w) PROVE Chain'
    BY <1>10 DEF NoAnswer, Leave
<1>11. ASSUME NEW w \in Windows, Report(w) PROVE Chain'
    BY <1>11 DEF Report
<1>12. ASSUME NEW w \in Windows, Die(w) PROVE Chain'
    BY <1>12 DEF Die
<1>13. ASSUME NEW k \in Keys, Decide(k) PROVE Chain'
    BY <1>13 DEF Decide
<1>14. CASE UNCHANGED vars
    BY <1>14 DEF vars, window, bridge, service
<1> QED
    BY <1>1, <1>2, <1>3, <1>4, <1>5, <1>6, <1>7, <1>8, <1>9, <1>10, <1>11, <1>12,
       <1>13, <1>14 DEF Next, Client, Bridge

(* What the service decided stays decided. *)
LEMMA TruthStep ==
    ASSUME TypeOK, Shape, Held, Truth, [Next]_vars
    PROVE  Truth'
<1> USE CodexResetAssumption DEF TypeOK, Shape, Filled, Held,
                                 PendingWhileAsked, Truth, NoAttemptForgotten,
                                 NothingClaimed, Row, Attempt, Places,
                                 Messages, Outcomes, NoKey, Keys, Pending,
                                 window, bridge, service
<1>1. ASSUME NEW w \in Windows, Refresh(w) PROVE Truth'
    BY <1>1 DEF Refresh, Message, Says, NoMessage
<1>2. ASSUME NEW w \in Windows, Confirm(w) PROVE Truth'
    BY <1>2 DEF Confirm, NoMessage
<1>3. ASSUME NEW w \in Windows, GiveUp(w) PROVE Truth'
    BY <1>3 DEF GiveUp
<1>4. ASSUME NEW w \in Windows, Lock(w) PROVE Truth'
    BY <1>4 DEF Lock, Leave
<1>5. ASSUME NEW w \in Windows, Refuse(w) PROVE Truth'
    BY <1>5 DEF Refuse, Leave
<1>6. ASSUME NEW w \in Windows, Begin(w) PROVE Truth'
    BY <1>6 DEF Begin, Leave, Startable
<1>7. ASSUME NEW w \in Windows, Again(w) PROVE Truth'
    BY <1>7 DEF Again, Leave
<1>8. ASSUME NEW w \in Windows, Request(w) PROVE Truth'
    BY <1>8 DEF Request
<1>9. ASSUME NEW w \in Windows, Answer(w) PROVE Truth'
    <2> DEFINE k == attempt[w].key
    <2>1. k \in Keys /\ decided[k] \in Outcomes /\ row = Pending(k)
        BY <1>9 DEF Answer, Holding
    <2>2. row'.key = k /\ (row'.outcome = decided[k] \/ row'.outcome = "pending")
        BY <1>9, <2>1 DEF Answer
    <2>3. result' = [result EXCEPT ![w] = result'[w]] /\ result'[w] \in {decided[k], "pending"}
        BY <1>9 DEF Answer, Leave
    <2>4. pc' = [pc EXCEPT ![w] = "leaving"] /\ attempt' = attempt /\ decided' = decided
        BY <1>9 DEF Answer, Leave
    <2>5. NoAttemptForgotten' /\ NothingClaimed'
        BY <1>9, <2>1, <2>2 DEF Answer
    <2>6. \A v \in Windows : (pc'[v] = "leaving" /\ result'[v] \in Outcomes)
                               => decided'[attempt'[v].key] = result'[v]
        BY <2>1, <2>3, <2>4
    <2> QED
        BY <2>5, <2>6
<1>10. ASSUME NEW w \in Windows, NoAnswer(w) PROVE Truth'
    BY <1>10 DEF NoAnswer, Leave
<1>11. ASSUME NEW w \in Windows, Report(w) PROVE Truth'
    <2>1. attempt[w].key \in Keys /\ decided' = decided /\ row' = row /\ sent' = sent
        BY <1>11 DEF Report
    <2>2. \A v \in Windows : v # w => message'[v] = message[v] /\ result'[v] = result[v]
                                      /\ attempt'[v] = attempt[v] /\ pc'[v] = pc[v]
        BY <1>11 DEF Report
    <2>3. pc'[w] = "idle" /\ message'[w] \in {message[w], Message(attempt[w].key, result[w])}
        BY <1>11 DEF Report
    <2>4. message'[w].says \in Outcomes => decided[message'[w].key] = message'[w].says
        BY <1>11, <2>1, <2>3 DEF Report, Message, Says, NoMessage
    <2>5. NoAttemptForgotten' /\ NothingClaimed'
        BY <2>1, <2>2, <2>4
    <2>6. \A v \in Windows : (pc'[v] = "leaving" /\ result'[v] \in Outcomes)
                               => decided'[attempt'[v].key] = result'[v]
        BY <2>1, <2>2, <2>3
    <2> QED
        BY <2>5, <2>6
<1>12. ASSUME NEW w \in Windows, Die(w) PROVE Truth'
    BY <1>12 DEF Die, NoMessage
<1>13. ASSUME NEW k \in Keys, Decide(k) PROVE Truth'
    BY <1>13 DEF Decide
<1>14. CASE UNCHANGED vars
    BY <1>14 DEF vars, window, bridge, service
<1> QED
    BY <1>1, <1>2, <1>3, <1>4, <1>5, <1>6, <1>7, <1>8, <1>9, <1>10, <1>11, <1>12,
       <1>13, <1>14 DEF Next, Client, Bridge

-----------------------------------------------------------------------------
(* The theorems *)

(* The invariant, for any number of windows, attempts, resets and faults.   *)
THEOREM Invariance == Spec => []IInv
<1>1. IInv /\ [Next]_vars => IInv'
    BY TypeStep, ShapeStep, HeldStep, ChainStep, TruthStep DEF IInv
<1> QED
    BY InitInv, <1>1, PTL DEF Spec

(* The types hold for any number of windows, attempts, resets and faults    *)
(* (CodexResetStore, CodexUsageModel).                                      *)
THEOREM TypeCorrect == Spec => []TypeOK
BY Invariance, PTL DEF IInv

(* No two resets are spent for one displayed state, whatever windows race,  *)
(* die or repeat (native_codex_reset.py:113-123).                           *)
THEOREM ConfirmationsSpendOnce == Spec => []OnePerConfirmation
<1>1. IInv => OnePerConfirmation
    <2> SUFFICES ASSUME IInv, NEW k \in Keys, NEW l \in Keys, k < l, {k, l} \subseteq sent
                 PROVE  from[k] # from[l]
        BY DEF OnePerConfirmation, Keys
    <2>1. from[k] < k /\ k <= from[l]
        BY DEF IInv, Chain, Used, Shape
    <2> QED
        BY <2>1 DEF IInv, TypeOK, Keys, NoKey
<1> QED
    BY Invariance, <1>1, PTL

(* An attempt that the service may know is in the journal until it is       *)
(* decided (lines 121-135).                                                 *)
THEOREM AttemptsAreKept == Spec => []NoAttemptForgotten
BY Invariance, PTL DEF IInv, Truth

(* The journal and the windows claim only what the service has decided.     *)
THEOREM ClaimsAreTrue == Spec => []NothingClaimed
BY Invariance, PTL DEF IInv, Truth

(* The attempt that is out is the one in the journal, pending.              *)
THEOREM RequestsAreRecorded == Spec => []PendingWhileAsked
BY Invariance, PTL DEF IInv, Held
=============================================================================
