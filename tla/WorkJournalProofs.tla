------------------------- MODULE WorkJournalProofs -------------------------
(***************************************************************************)
(* Proofs about WorkJournal, for any number of windows, runs and           *)
(* conversations and any number of failures.                               *)
(*                                                                         *)
(* The inductive invariant is built in five layers, each proved with the   *)
(* help of the ones before it: what a window's variables hold at each      *)
(* place of a request (TypeInv), which locks it owns there (LockInv), how  *)
(* the files relate to its copy of the record (FileInv), how the records   *)
(* of a lineage relate (LineageInv), and that no record is ahead of its    *)
(* run (OutcomeInv).  With them every step is one of RunLedger, or none.   *)
(***************************************************************************)
EXTENDS WorkJournal, TLAPS

(* The turn is prepared and no save is under way. *)
Working == {"prepared", "dispatched", "running"}

(* What the variables of window w hold at each place of a request. *)
Shape(w) ==
    /\ pc[w] \in {"idle", "review", "reviewing"} \cup ReadStates => turn[w].conv = None
    /\ pc[w] \in {"review", "reviewing"} \cup ReadStates => view[w] \in View
    /\ pc[w] \in ReadStates => turn[w].after \in {"idle", "review"}
    /\ pc[w] \in TurnStates => turn[w].conv \in Conversations
    /\ pc[w] \in TurnStates \cup SaveStates => turn[w].run \in Runs
    /\ pc[w] \in {"opened", "naming", "owning"} =>
         turn[w].rec = Absent /\ turn[w].expected = Absent
    /\ pc[w] \in Working \cup SaveStates => turn[w].rec \in Record
    /\ pc[w] \in Working => turn[w].expected \in Record
    /\ pc[w] \in SaveStates =>
         /\ turn[w].after \in Working \cup {"closing"}
         /\ turn[w].after \in Working => turn[w].conv # None
         /\ turn[w].expected = Absent => turn[w].conv # None /\ turn[w].after = "prepared"
         /\ turn[w].conv = None => view[w] \in View /\ view[w].rec = turn[w].expected
    /\ turn[w].rec # Absent => turn[w].run \in Runs

TypeInv == TypeOK /\ \A w \in Windows : Shape(w)

(* w has written, or is about to write, the record of its own turn; it      *)
(* still does after a failed save, until it closes.                         *)
OwnsRecord(w) == turn[w].conv # None /\ turn[w].rec # Absent

Locks(w) ==
    /\ pc[w] \in TurnStates \/ OwnsRecord(w) => w \in barrierShared
    /\ pc[w] \in {"naming", "owning"} \/ OwnsRecord(w) => convLock[turn[w].conv] = w
    /\ OwnsRecord(w) => runLock[turn[w].run] = w
    /\ pc[w] = "reviewing" \/ (pc[w] \in SaveStates /\ turn[w].conv = None)
         => barrierOwner = w

LockInv ==
    /\ barrierOwner # None => barrierShared = {}
    /\ \A w \in Windows : Locks(w)

(* The copy of the record that w holds, against the file. *)
Copy(w) ==
    LET t == turn[w] IN
    /\ pc[w] \in {"write"} \cup Working => disk[t.run] = t.expected
    /\ pc[w] = "sync" => disk[t.run] = t.rec
    /\ pc[w] \in SaveStates \cup Working /\ t.expected # Absent =>
         Follows(t.expected, t.rec) /\ promised[t.run] # Absent
    /\ OwnsRecord(w) =>
         /\ t.rec.conv = t.conv /\ t.rec.parent = Parent(w) /\ t.rec.reviews = 0
         /\ disk[t.run] # Absent => disk[t.run].conv = t.conv

(* What the record says when the turn is at, or returns to, place. *)
Phase(w, place) ==
    LET t == turn[w] IN
    /\ place = "prepared" => t.rec.status = "prepared"
    /\ place \in {"dispatched", "running"} => t.rec.status = "dispatching"
    /\ place \in {"prepared", "dispatched"} => calls[t.run] = 0
    /\ place = "dispatched" => t.rec.sent

Phases(w) ==
    /\ pc[w] \in Working => Phase(w, pc[w])
    /\ pc[w] \in SaveStates => Phase(w, turn[w].after)
    /\ pc[w] = "dispatched" => promised[turn[w].run].sent

(* The files of run r, whatever a power failure would leave. *)
Evidence(r) ==
    /\ disk[r] \in media[r]
    /\ calls[r] <= 1
    /\ calls[r] > 0 => promised[r] # Absent /\ promised[r].sent
    /\ \A v \in media[r] :
         /\ promised[r] # Absent => v # Absent /\ Follows(promised[r], v)
         /\ v # Absent =>
              /\ disk[r] # Absent /\ disk[r].conv = v.conv /\ disk[r].parent = v.parent
              /\ v.status # "prepared" => promised[r] # Absent

FileInv ==
    /\ \A w \in Windows : Copy(w) /\ Phases(w)
    /\ \A r \in Runs : Evidence(r)

(* w has passed the lineage scan and its record is not yet saved. *)
Claiming(w) ==
    /\ turn[w].from # None
    /\ \/ pc[w] \in {"naming", "owning"}
       \/ pc[w] \in SaveStates /\ turn[w].expected = Absent

(* The scan stays true: the parent is unchanged, has no other child, and    *)
(* nobody owns it.                                                          *)
Claim(w) ==
    LET p == turn[w].from.run IN
    /\ disk[p] = turn[w].from.rec
    /\ disk[p].conv = turn[w].conv
    /\ \A r \in Runs : disk[r] # Absent /\ disk[r].parent = p =>
         pc[w] = "sync" /\ r = turn[w].run
    /\ \A v \in Windows : turn[v].run = p => ~ OwnsRecord(v)

ParentKept ==
    \A r \in Runs : promised[r] # Absent /\ promised[r].parent # None =>
        \A v \in media[promised[r].parent] : v # Absent

LineageInv ==
    /\ \A w \in Windows : Claiming(w) => Claim(w)
    /\ ParentKept
    /\ OneContinuation
    /\ ContinuedIsSettled

-----------------------------------------------------------------------------
(* What a save request, a failed save and a review write into the turn of   *)
(* their window: every other field, and every other window, is untouched.   *)
LEMMA SaveTurn ==
  ASSUME TypeOK, NEW w \in Windows, NEW rec \in Record, NEW after \in Places,
         Save(w, rec, after)
  PROVE  /\ pc' = [pc EXCEPT ![w] = "write"]
         /\ turn' \in [Windows -> Turn]
         /\ \A v \in Windows : v # w => turn'[v] = turn[v]
         /\ turn'[w].rec = rec /\ turn'[w].after = after
         /\ turn'[w].run = turn[w].run /\ turn'[w].conv = turn[w].conv
         /\ turn'[w].from = turn[w].from /\ turn'[w].expected = turn[w].expected
  <1>1. turn' = [turn EXCEPT ![w] = [turn[w] EXCEPT !.rec = rec, !.after = after]]
    BY DEF Save
  <1>2. turn \in [Windows -> Turn] /\ turn[w] \in Turn
    BY DEF TypeOK
  <1>3. [turn[w] EXCEPT !.rec = rec, !.after = after] \in Turn
    BY <1>2 DEF Turn
  <1>4. turn'[w] = [turn[w] EXCEPT !.rec = rec, !.after = after]
    BY <1>1, <1>2
  <1>5. /\ turn'[w].rec = rec /\ turn'[w].after = after
        /\ turn'[w].run = turn[w].run /\ turn'[w].conv = turn[w].conv
        /\ turn'[w].from = turn[w].from /\ turn'[w].expected = turn[w].expected
    BY <1>2, <1>4 DEF Turn
  <1> QED
    BY <1>1, <1>2, <1>3, <1>5 DEF Save, Goto

LEMMA FailSaveTurn ==
  ASSUME TypeOK, NEW w \in Windows, FailSave(w)
  PROVE  /\ pc' = [pc EXCEPT ![w] = "closing"]
         /\ turn' \in [Windows -> Turn]
         /\ \A v \in Windows : v # w => turn'[v] = turn[v]
         /\ turn'[w].rec = turn[w].rec
         /\ turn'[w].run = turn[w].run /\ turn'[w].conv = turn[w].conv
         /\ turn'[w].from = turn[w].from /\ turn'[w].expected = turn[w].expected
  <1>1. turn' = [turn EXCEPT ![w] = [turn[w] EXCEPT !.failed = TRUE]]
    BY DEF FailSave
  <1>2. turn \in [Windows -> Turn] /\ turn[w] \in Turn
    BY DEF TypeOK
  <1>3. [turn[w] EXCEPT !.failed = TRUE] \in Turn
    BY <1>2 DEF Turn
  <1>4. turn'[w] = [turn[w] EXCEPT !.failed = TRUE]
    BY <1>1, <1>2
  <1>5. /\ turn'[w].rec = turn[w].rec
        /\ turn'[w].run = turn[w].run /\ turn'[w].conv = turn[w].conv
        /\ turn'[w].from = turn[w].from /\ turn'[w].expected = turn[w].expected
    BY <1>2, <1>4 DEF Turn
  <1> QED
    BY <1>1, <1>2, <1>3, <1>5 DEF FailSave, Goto

(* Requesting a save keeps the shape when the caller and the place it       *)
(* resumes at belong together.                                              *)
LEMMA SaveShape ==
  ASSUME TypeInv, NEW w \in Windows, NEW rec \in Record, NEW after \in Working \cup {"closing"},
         Save(w, rec, after), view' = view,
         turn[w].run \in Runs, turn[w].conv # None,
         turn[w].expected = Absent => after = "prepared"
  PROVE  /\ pc' \in [Windows -> Places]
         /\ turn' \in [Windows -> Turn]
         /\ \A v \in Windows : Shape(v)'
  <1>1. after \in Places /\ "write" \in Places
    BY DEF Places, TurnStates, SaveStates, Working
  <1>2. /\ pc' = [pc EXCEPT ![w] = "write"]
        /\ turn' \in [Windows -> Turn]
        /\ \A v \in Windows : v # w => turn'[v] = turn[v]
        /\ turn'[w].rec = rec /\ turn'[w].after = after
        /\ turn'[w].run = turn[w].run /\ turn'[w].conv = turn[w].conv
        /\ turn'[w].from = turn[w].from /\ turn'[w].expected = turn[w].expected
    BY <1>1, SaveTurn DEF TypeInv
  <1>3. pc \in [Windows -> Places]
    BY DEF TypeInv, TypeOK
  <1>4. ASSUME NEW v \in Windows PROVE Shape(v)'
    <2>1. CASE v = w
      BY <1>2, <1>3, <2>1 DEF Shape, TurnStates, ReadStates, SaveStates, Working
    <2>2. CASE v # w
      BY <1>2, <1>3, <2>2 DEF TypeInv, Shape
    <2> QED
      BY <2>1, <2>2
  <1> QED
    BY <1>1, <1>2, <1>3, <1>4

(* Giving up keeps the shape.                                               *)
LEMMA FailShape ==
  ASSUME TypeInv, NEW w \in Windows, FailSave(w), view' = view
  PROVE  /\ pc' \in [Windows -> Places]
         /\ turn' \in [Windows -> Turn]
         /\ \A v \in Windows : Shape(v)'
  <1>1. /\ pc' = [pc EXCEPT ![w] = "closing"]
        /\ turn' \in [Windows -> Turn]
        /\ \A v \in Windows : v # w => turn'[v] = turn[v]
        /\ turn'[w].rec = turn[w].rec
        /\ turn'[w].run = turn[w].run /\ turn'[w].conv = turn[w].conv
        /\ turn'[w].from = turn[w].from /\ turn'[w].expected = turn[w].expected
    BY FailSaveTurn DEF TypeInv
  <1>2. pc \in [Windows -> Places] /\ "closing" \in Places
    BY DEF TypeInv, TypeOK, Places
  <1>3. ASSUME NEW v \in Windows PROVE Shape(v)'
    <2>1. CASE v = w
      BY <1>1, <1>2, <2>1 DEF TypeInv, Shape, TurnStates, ReadStates, SaveStates, Working
    <2>2. CASE v # w
      BY <1>1, <1>2, <2>2 DEF TypeInv, Shape
    <2> QED
      BY <2>1, <2>2
  <1> QED
    BY <1>1, <1>2, <1>3

(* New content of a record is a record. *)
LEMMA RecordUpdates ==
  ASSUME NEW rec \in Record
  PROVE  /\ [rec EXCEPT !.status = "dispatching", !.sent = TRUE] \in Record
         /\ [rec EXCEPT !.status = "completed"] \in Record
         /\ [rec EXCEPT !.status = "error"] \in Record
         /\ rec.log < MaxLog => [rec EXCEPT !.log = @ + 1] \in Record
         /\ rec.reviews < MaxReviews => [rec EXCEPT !.reviews = @ + 1] \in Record
  <1>1. [rec EXCEPT !.status = "dispatching", !.sent = TRUE] \in Record
    BY DEF Record
  <1>2. [rec EXCEPT !.status = "completed"] \in Record
    BY DEF Record
  <1>3. [rec EXCEPT !.status = "error"] \in Record
    BY DEF Record
  <1>4. rec.log < MaxLog => [rec EXCEPT !.log = @ + 1] \in Record
    BY ConstantsAssumption DEF Record
  <1>5. rec.reviews < MaxReviews => [rec EXCEPT !.reviews = @ + 1] \in Record
    BY ConstantsAssumption DEF Record
  <1> QED
    BY <1>1, <1>2, <1>3, <1>4, <1>5

LEMMA FirstRecord ==
  ASSUME NEW c \in Conversations, NEW p \in Runs \cup {None}
  PROVE  [status |-> "prepared", sent |-> FALSE, conv |-> c, parent |-> p,
          log |-> 0, reviews |-> 0] \in Record
  BY ConstantsAssumption DEF Record

(* The initial state and every step keep the shape of a request. *)
LEMMA InitTypes == Init => TypeInv
  <1> SUFFICES ASSUME Init PROVE TypeInv
    OBVIOUS
  <1>1. NoTurn \in Turn /\ "idle" \in Places
    BY DEF NoTurn, Turn, Places
  <1>2. TypeOK
    BY <1>1, ConstantsAssumption DEF Init, TypeOK
  <1>3. ASSUME NEW w \in Windows PROVE Shape(w)
    BY DEF Init, Shape, NoTurn, TurnStates, ReadStates, SaveStates, Working
  <1> QED
    BY <1>2, <1>3 DEF TypeInv

LEMMA NextTypes == TypeInv /\ [Next]_vars => TypeInv'
  <1> SUFFICES ASSUME TypeInv, [Next]_vars PROVE TypeInv'
    OBVIOUS
  <1>A. TypeOK /\ \A w \in Windows : Shape(w)
    BY DEF TypeInv
  <1>B. Absent \notin Record /\ None \notin Windows /\ None \notin Runs /\ None \notin Conversations
        /\ MaxLog \in Nat /\ MaxReviews \in Nat /\ MaxFaults \in Nat
    BY ConstantsAssumption
  <1> USE DEF locks, files, Goto
  <1>1. ASSUME NEW w \in Windows, NEW r \in Runs, NEW c \in Conversations,
               NEW from \in {None, view[w]}, Begin(w, r, c, from)
        PROVE  TypeInv'
    <2>0. [NoTurn EXCEPT !.run = r, !.conv = c, !.from = from] \in Turn
      BY <1>A, <1>1 DEF NoTurn, Turn, TypeOK, Places
    <2>1. TypeOK'
      BY <1>A, <1>B, <1>1, <2>0 DEF Begin, TypeOK, Places, TurnStates, ReadStates, SaveStates
    <2>2. Shape(w)'
      BY <1>A, <1>B, <1>1 DEF Begin, NoTurn, Shape, TypeOK, Turn, TurnStates, ReadStates, SaveStates, Working
    <2>3. \A v \in Windows : v # w => Shape(v)'
      BY <1>A, <1>1 DEF Begin, TypeOK, Shape
    <2> QED
      BY <2>1, <2>2, <2>3 DEF TypeInv
  <1>2. ASSUME NEW w \in Windows, ClaimConversation(w)
        PROVE  TypeInv'
    <2>1. TypeOK'
      BY <1>A, <1>B, <1>2 DEF ClaimConversation, TypeOK, ConversationFree, Places, TurnStates, ReadStates, SaveStates
    <2>2. Shape(w)'
      BY <1>A, <1>B, <1>2 DEF ClaimConversation, Shape, TypeOK, Turn, TurnStates, ReadStates, SaveStates, Working
    <2>3. \A v \in Windows : v # w => Shape(v)'
      BY <1>A, <1>2 DEF ClaimConversation, TypeOK, Shape
    <2> QED
      BY <2>1, <2>2, <2>3 DEF TypeInv
  <1>3. ASSUME NEW w \in Windows, OpenRunLock(w)
        PROVE  TypeInv'
    <2>1. TypeOK'
      BY <1>A, <1>B, <1>3 DEF OpenRunLock, TypeOK, Shape, Places, TurnStates, ReadStates, SaveStates
    <2>2. Shape(w)'
      BY <1>A, <1>B, <1>3 DEF OpenRunLock, Shape, TypeOK, Turn, TurnStates, ReadStates, SaveStates, Working
    <2>3. \A v \in Windows : v # w => Shape(v)'
      BY <1>A, <1>3 DEF OpenRunLock, TypeOK, Shape
    <2> QED
      BY <2>1, <2>2, <2>3 DEF TypeInv
  <1>4. ASSUME NEW w \in Windows, ClaimRun(w)
        PROVE  TypeInv'
    <2> DEFINE rec == [status |-> "prepared", sent |-> FALSE, conv |-> turn[w].conv,
                       parent |-> Parent(w), log |-> 0, reviews |-> 0]
    <2>1. /\ turn[w].run \in Runs /\ turn[w].conv \in Conversations
          /\ turn[w].rec = Absent /\ turn[w].expected = Absent
      BY <1>A, <1>4 DEF ClaimRun, Shape, TurnStates
    <2>2. Parent(w) \in Runs \cup {None}
      BY <1>A DEF Parent, TypeOK, Turn, View
    <2>3. rec \in Record
      BY <2>1, <2>2, FirstRecord
    <2>4. CASE Save(w, rec, "prepared")
      <3>1. view' = view /\ turn[w].conv # None /\ "prepared" \in Working \cup {"closing"}
        BY <1>4, <1>A, <1>B, <2>1 DEF ClaimRun, Working
      <3>2. /\ pc' \in [Windows -> Places] /\ turn' \in [Windows -> Turn]
            /\ \A v \in Windows : Shape(v)'
        BY <2>1, <2>3, <2>4, <3>1, SaveShape
      <3> QED
        BY <1>4, <1>A, <2>1, <3>2 DEF ClaimRun, TypeOK, TypeInv
    <2>5. CASE Goto(w, "closing") /\ UNCHANGED turn
      <3>1. TypeOK'
        BY <1>4, <1>A, <2>1, <2>5 DEF ClaimRun, TypeOK, Places
      <3>2. \A v \in Windows : Shape(v)'
        BY <1>4, <1>A, <2>1, <2>5
           DEF ClaimRun, TypeOK, Shape, TurnStates, ReadStates, SaveStates, Working
      <3> QED
        BY <3>1, <3>2 DEF TypeInv
    <2> QED
      BY <1>4, <2>4, <2>5 DEF ClaimRun
  <1>5. ASSUME NEW w \in Windows, ReplaceRecord(w)
        PROVE  TypeInv'
    <2>1. turn[w].run \in Runs /\ turn[w].rec \in Record
      BY <1>A, <1>5 DEF ReplaceRecord, Shape, SaveStates
    <2>2. CASE FailSave(w)
      <3>1. /\ pc' \in [Windows -> Places] /\ turn' \in [Windows -> Turn]
            /\ \A v \in Windows : Shape(v)'
        BY <1>5, <2>2, FailShape DEF ReplaceRecord
      <3> QED
        BY <1>5, <1>A, <1>B, <2>1, <3>1 DEF ReplaceRecord, Fault, TypeOK, TypeInv
    <2>3. CASE Goto(w, "sync") /\ UNCHANGED <<turn, faults>>
      <3>1. TypeOK'
        BY <1>5, <1>A, <1>B, <2>1, <2>3 DEF ReplaceRecord, TypeOK, Fault, Places, SaveStates
      <3>2. \A v \in Windows : Shape(v)'
        BY <1>5, <1>A, <2>1, <2>3
           DEF ReplaceRecord, TypeOK, Shape, TurnStates, ReadStates, SaveStates, Working
      <3> QED
        BY <3>1, <3>2 DEF TypeInv
    <2> QED
      BY <1>5, <2>2, <2>3 DEF ReplaceRecord
  <1>6. ASSUME NEW w \in Windows, SyncDirectory(w)
        PROVE  TypeInv'
    <2>1. turn[w].run \in Runs /\ turn[w].rec \in Record
      BY <1>A, <1>6 DEF SyncDirectory, Shape, SaveStates
    <2>2. CASE FailSave(w)
      <3>1. /\ pc' \in [Windows -> Places] /\ turn' \in [Windows -> Turn]
            /\ \A v \in Windows : Shape(v)'
        BY <1>6, <2>2, FailShape DEF SyncDirectory
      <3> QED
        BY <1>6, <1>A, <1>B, <2>1, <3>1 DEF SyncDirectory, Settled, Fault, TypeOK, TypeInv
    <2>3. CASE /\ media' = Settled
               /\ promised' = [promised EXCEPT ![turn[w].run] = turn[w].rec]
               /\ turn' = [turn EXCEPT ![w].expected = turn[w].rec]
               /\ Goto(w, turn[w].after)
               /\ UNCHANGED faults
      <3>1. [turn[w] EXCEPT !.expected = turn[w].rec] \in Turn
        <4>1. turn[w] \in Turn
          BY <1>A DEF TypeOK
        <4> QED
          BY <2>1, <4>1 DEF Turn
      <3>2. TypeOK'
        BY <1>6, <1>A, <1>B, <2>1, <2>3, <3>1 DEF SyncDirectory, Settled, TypeOK, Turn
      <3>3. Shape(w)'
        BY <1>6, <1>A, <1>B, <2>1, <2>3
           DEF SyncDirectory, TypeOK, Turn, Shape, TurnStates, ReadStates, SaveStates, Working
      <3>4. \A v \in Windows : v # w => Shape(v)'
        BY <1>6, <1>A, <2>3 DEF SyncDirectory, TypeOK, Shape
      <3> QED
        BY <3>2, <3>3, <3>4 DEF TypeInv
    <2> QED
      BY <1>6, <2>2, <2>3 DEF SyncDirectory
  <1>7. ASSUME NEW w \in Windows, Dispatch(w)
        PROVE  TypeInv'
    <2>1. /\ turn[w].rec \in Record /\ turn[w].expected \in Record
          /\ turn[w].run \in Runs /\ turn[w].conv \in Conversations
      BY <1>A, <1>7 DEF Dispatch, Shape, TurnStates, Working
    <2>2. turn[w].conv # None /\ turn[w].expected # Absent /\ view' = view
      BY <1>7, <1>A, <1>B, <2>1 DEF Dispatch, Shape, Working, ReadStates, TurnStates
    <2>3. /\ pc' \in [Windows -> Places] /\ turn' \in [Windows -> Turn]
          /\ \A v \in Windows : Shape(v)'
      BY <1>7, <2>1, <2>2, RecordUpdates, SaveShape DEF Dispatch, Working
    <2> QED
      BY <1>7, <1>A, <2>3 DEF Dispatch, TypeOK, TypeInv
  <1>8. ASSUME NEW w \in Windows, CallHandler(w)
        PROVE  TypeInv'
    <2>1. TypeOK'
      BY <1>A, <1>8 DEF CallHandler, TypeOK, Shape, Places, TurnStates
    <2>2. \A v \in Windows : Shape(v)'
      BY <1>A, <1>8 DEF CallHandler, TypeOK, Shape, TurnStates, ReadStates, SaveStates, Working
    <2> QED
      BY <2>1, <2>2 DEF TypeInv
  <1>9. ASSUME NEW w \in Windows, Observe(w)
        PROVE  TypeInv'
    <2> DEFINE rec == [turn[w].rec EXCEPT !.log = @ + 1]
    <2>1. /\ turn[w].rec \in Record /\ turn[w].expected \in Record
          /\ turn[w].run \in Runs /\ turn[w].conv \in Conversations
      BY <1>A, <1>9 DEF Observe, Shape, TurnStates, Working
    <2>2. /\ turn[w].conv # None /\ turn[w].expected # Absent /\ view' = view
          /\ pc[w] \in Working /\ rec \in Record
      BY <1>9, <1>A, <1>B, <2>1, RecordUpdates DEF Observe, Working
    <2>3. CASE Save(w, rec, pc[w])
      <3>1. /\ pc' \in [Windows -> Places] /\ turn' \in [Windows -> Turn]
            /\ \A v \in Windows : Shape(v)'
        BY <2>1, <2>2, <2>3, SaveShape
      <3> QED
        BY <1>9, <1>A, <3>1 DEF Observe, TypeOK, TypeInv
    <2>4. CASE turn' = [turn EXCEPT ![w].rec = rec] /\ UNCHANGED pc
      <3>1. turn[w] \in Turn
        BY <1>A DEF TypeOK
      <3>2. [turn[w] EXCEPT !.rec = rec] \in Turn
        BY <2>2, <3>1 DEF Turn
      <3>3. TypeOK'
        BY <1>9, <1>A, <2>4, <3>2 DEF Observe, TypeOK
      <3>4. turn'[w] = [turn[w] EXCEPT !.rec = rec]
        BY <1>A, <2>4 DEF TypeOK
      <3>5. Shape(w)'
        BY <1>9, <1>A, <1>B, <2>1, <2>2, <2>4, <3>1, <3>4
           DEF Observe, Turn, Shape, TurnStates, ReadStates, SaveStates, Working
      <3>6. \A v \in Windows : v # w => Shape(v)'
        BY <1>9, <1>A, <2>4 DEF Observe, TypeOK, Shape
      <3> QED
        BY <3>3, <3>5, <3>6 DEF TypeInv
    <2> QED
      BY <1>9, <2>3, <2>4 DEF Observe
  <1>10. ASSUME NEW w \in Windows, Complete(w)
         PROVE  TypeInv'
    <2>1. /\ turn[w].rec \in Record /\ turn[w].expected \in Record
          /\ turn[w].run \in Runs /\ turn[w].conv \in Conversations
      BY <1>A, <1>10 DEF Complete, Shape, TurnStates, Working
    <2>2. turn[w].conv # None /\ turn[w].expected # Absent /\ view' = view
      BY <1>10, <1>B, <2>1 DEF Complete
    <2>3. /\ pc' \in [Windows -> Places] /\ turn' \in [Windows -> Turn]
          /\ \A v \in Windows : Shape(v)'
      BY <1>10, <2>1, <2>2, RecordUpdates, SaveShape DEF Complete, AfterAnswer, Working
    <2> QED
      BY <1>10, <1>A, <2>3 DEF Complete, TypeOK, TypeInv
  <1>11. ASSUME NEW w \in Windows, Fail(w)
         PROVE  TypeInv'
    <2>1. /\ turn[w].rec \in Record /\ turn[w].expected \in Record
          /\ turn[w].run \in Runs /\ turn[w].conv \in Conversations
      BY <1>A, <1>11 DEF Fail, Shape, TurnStates, Working
    <2>2. turn[w].conv # None /\ turn[w].expected # Absent /\ view' = view
      BY <1>11, <1>B, <2>1 DEF Fail
    <2>3. /\ pc' \in [Windows -> Places] /\ turn' \in [Windows -> Turn]
          /\ \A v \in Windows : Shape(v)'
      BY <1>11, <2>1, <2>2, RecordUpdates, SaveShape DEF Fail, Working
    <2> QED
      BY <1>11, <1>A, <2>3 DEF Fail, TypeOK, TypeInv
  <1>12. ASSUME NEW w \in Windows, Close(w)
         PROVE  TypeInv'
    <2>1. NoTurn \in Turn /\ "idle" \in Places
      BY DEF NoTurn, Turn, Places
    <2>2. TypeOK'
      BY <1>A, <1>12, <2>1 DEF Close, ReleaseLocks, TypeOK
    <2>3. \A v \in Windows : Shape(v)'
      BY <1>A, <1>12 DEF Close, NoTurn, TypeOK, Shape, TurnStates, ReadStates, SaveStates, Working
    <2> QED
      BY <2>2, <2>3 DEF TypeInv
  <1>13. ASSUME NEW w \in Windows, NEW r \in Runs, NEW after \in {"idle", "review"},
                pc[w] = "idle", disk[r] # Absent, Read(w, r, after)
         PROVE  TypeInv'
    <2>1. [run |-> r, rec |-> disk[r], active |-> FALSE] \in View
      BY <1>A, <1>13 DEF TypeOK, View
    <2>2. turn[w] \in Turn /\ after \in Places
      BY <1>A DEF TypeOK, Places
    <2>3. [turn[w] EXCEPT !.after = after] \in Turn
      BY <2>2 DEF Turn
    <2>4. TypeOK'
      BY <1>A, <1>13, <2>1, <2>3 DEF Read, TypeOK, Places, ReadStates
    <2>5. turn'[w] = [turn[w] EXCEPT !.after = after] /\ pc'[w] = "barrier" /\ view'[w] \in View
      BY <1>A, <1>13, <2>1 DEF Read, TypeOK
    <2>6. Shape(w)'
      BY <1>A, <1>13, <2>2, <2>5 DEF Turn, Shape, TurnStates, ReadStates, SaveStates, Working
    <2>7. \A v \in Windows : v # w => Shape(v)'
      BY <1>A, <1>13 DEF Read, TypeOK, Shape
    <2> QED
      BY <2>4, <2>6, <2>7 DEF TypeInv
  <1>14. ASSUME NEW w \in Windows, ProbeBarrier(w)
         PROVE  TypeInv'
    <2>1. NoTurn \in Turn /\ "idle" \in Places /\ "probe" \in Places
      BY DEF NoTurn, Turn, Places, ReadStates
    <2>2. TypeOK'
      BY <1>A, <1>14, <2>1 DEF ProbeBarrier, TypeOK
    <2>3. Shape(w)'
      BY <1>A, <1>14 DEF ProbeBarrier, NoTurn, TypeOK, Shape, TurnStates, ReadStates, SaveStates, Working
    <2>4. \A v \in Windows : v # w => Shape(v)'
      BY <1>A, <1>14 DEF ProbeBarrier, TypeOK, Shape
    <2> QED
      BY <2>2, <2>3, <2>4 DEF TypeInv
  <1>15. ASSUME NEW w \in Windows, NEW r \in Runs, ProbeRun(w, r)
         PROVE  TypeInv'
    <2>1. view[w] \in View /\ pc[w] = "probe"
      BY <1>A, <1>15 DEF ProbeRun, Shape, ReadStates
    <2>2. view' \in [Windows -> View \cup {None}] /\ view'[w] \in View
          /\ \A v \in Windows : v # w => view'[v] = view[v]
      <3>1. [view[w] EXCEPT !.active = TRUE] \in View
        BY <2>1 DEF View
      <3> QED
        BY <1>A, <1>15, <2>1, <3>1 DEF ProbeRun, TypeOK
    <2>3. TypeOK'
      BY <1>A, <1>15, <2>2 DEF ProbeRun, TypeOK
    <2>4. \A v \in Windows : Shape(v)'
      BY <1>A, <1>15, <2>1, <2>2 DEF ProbeRun, TypeOK, Shape, TurnStates, ReadStates, SaveStates, Working
    <2> QED
      BY <2>3, <2>4 DEF TypeInv
  <1>16. ASSUME NEW w \in Windows, FinishRead(w)
         PROVE  TypeInv'
    <2>1. NoTurn \in Turn
      BY DEF NoTurn, Turn, Places
    <2>2. turn[w].after \in {"idle", "review"} /\ view[w] \in View
      BY <1>A, <1>16 DEF FinishRead, Shape, ReadStates
    <2>3. TypeOK'
      BY <1>A, <1>16, <2>1, <2>2 DEF FinishRead, ReleaseLocks, TypeOK, Places
    <2>4. \A v \in Windows : Shape(v)'
      BY <1>A, <1>16, <2>2
         DEF FinishRead, NoTurn, TypeOK, Shape, TurnStates, ReadStates, SaveStates, Working
    <2> QED
      BY <2>3, <2>4 DEF TypeInv
  <1>17. ASSUME NEW w \in Windows, StartReview(w) \/ \E r \in Runs : OpenPage(w, r)
         PROVE  \E r \in Runs, after \in {"idle", "review"} :
                  pc[w] = "idle" /\ disk[r] # Absent /\ Read(w, r, after)
    <2>1. CASE StartReview(w)
      <3>1. view[w] \in View
        BY <1>A, <2>1 DEF StartReview, TypeOK
      <3>2. view[w].run \in Runs /\ view[w].rec \in Record
        BY <3>1 DEF View
      <3> QED
        BY <1>B, <2>1, <3>2 DEF StartReview
    <2>2. CASE \E r \in Runs : OpenPage(w, r)
      BY <2>2 DEF OpenPage
    <2> QED
      BY <1>17, <2>1, <2>2
  <1>18. ASSUME NEW w \in Windows, LockReview(w)
         PROVE  TypeInv'
    <2>1. TypeOK'
      BY <1>A, <1>18 DEF LockReview, BarrierFree, TypeOK, Places
    <2>2. \A v \in Windows : Shape(v)'
      BY <1>A, <1>18
         DEF LockReview, BarrierFree, TypeOK, Shape, TurnStates, ReadStates, SaveStates, Working
    <2> QED
      BY <2>1, <2>2 DEF TypeInv
  <1>19. ASSUME NEW w \in Windows, Review(w)
         PROVE  TypeInv'
    <2> DEFINE r == view[w].run
               rec == disk[r]
               new == [rec EXCEPT !.reviews = @ + 1]
               t == [NoTurn EXCEPT !.run = r, !.expected = rec, !.after = "closing", !.rec = new]
    <2>1. view[w] \in View /\ pc[w] = "reviewing" /\ turn[w].conv = None
      BY <1>A, <1>19 DEF Review, Shape
    <2>2. r \in Runs /\ view[w].rec \in Record
      BY <2>1 DEF View
    <2>3. CASE turn' = [turn EXCEPT ![w] = t] /\ Goto(w, "write")
               /\ SameFingerprint(rec, view[w].rec) /\ ReviewRoom(rec)
      <3>1. rec \in Record /\ rec = view[w].rec
        BY <2>2, <2>3 DEF SameFingerprint
      <3>2. new \in Record
        BY <2>3, <3>1, RecordUpdates DEF ReviewRoom
      <3>3. t \in Turn
        BY <2>2, <3>1, <3>2 DEF NoTurn, Turn, Places
      <3>4. TypeOK'
        BY <1>A, <1>19, <2>3, <3>3 DEF Review, TypeOK, Places, SaveStates
      <3>5. t.conv = None /\ t.run = r /\ t.rec = new /\ t.expected = rec /\ t.after = "closing"
        BY DEF NoTurn
      <3>6. turn'[w] = t /\ pc'[w] = "write" /\ view'[w] = view[w]
        BY <1>A, <1>19, <2>3 DEF Review, TypeOK
      <3>7. Shape(w)'
        BY <1>B, <2>1, <2>2, <3>1, <3>2, <3>5, <3>6
           DEF Shape, TurnStates, ReadStates, SaveStates, Working
      <3>8. \A v \in Windows : v # w => Shape(v)'
        BY <1>A, <1>19, <2>3 DEF Review, TypeOK, Shape
      <3> QED
        BY <3>4, <3>7, <3>8 DEF TypeInv
    <2>4. CASE Goto(w, "closing") /\ UNCHANGED turn
      <3>1. TypeOK'
        BY <1>A, <1>19, <2>4 DEF Review, TypeOK, Places
      <3>2. \A v \in Windows : Shape(v)'
        BY <1>A, <1>19, <2>1, <2>4
           DEF Review, TypeOK, Shape, TurnStates, ReadStates, SaveStates, Working
      <3> QED
        BY <3>1, <3>2 DEF TypeInv
    <2> QED
      BY <1>19, <2>3, <2>4 DEF Review
  <1>20. ASSUME NEW w \in Windows, Crash(w)
         PROVE  TypeInv'
    <2>1. NoTurn \in Turn /\ "idle" \in Places
      BY DEF NoTurn, Turn, Places
    <2>2. TypeOK'
      BY <1>A, <1>B, <1>20, <2>1 DEF Crash, Fault, ReleaseLocks, TypeOK
    <2>3. \A v \in Windows : Shape(v)'
      BY <1>A, <1>20 DEF Crash, NoTurn, TypeOK, Shape, TurnStates, ReadStates, SaveStates, Working
    <2> QED
      BY <2>2, <2>3 DEF TypeInv
  <1>21. ASSUME PowerLoss
         PROVE  TypeInv'
    <2>1. NoTurn \in Turn /\ "idle" \in Places
      BY DEF NoTurn, Turn, Places
    <2>2. PICK content \in [Runs -> UNION {media[r] : r \in Runs}] :
            /\ \A r \in Runs : content[r] \in media[r]
            /\ disk' = content
            /\ media' = [r \in Runs |-> {content[r]}]
      BY <1>21 DEF PowerLoss
    <2>3. /\ disk' \in [Runs -> Record \cup {Absent}]
          /\ media' \in [Runs -> SUBSET (Record \cup {Absent})]
      BY <1>A, <2>2 DEF TypeOK
    <2>4. TypeOK'
      BY <1>A, <1>B, <1>21, <2>1, <2>3 DEF PowerLoss, Fault, ReleaseLocks, TypeOK
    <2>5. \A v \in Windows : Shape(v)'
      BY <1>21 DEF PowerLoss, NoTurn, Shape, TurnStates, ReadStates, SaveStates, Working
    <2> QED
      BY <2>4, <2>5 DEF TypeInv
  <1>22. CASE UNCHANGED vars
    BY <1>22 DEF vars, TypeInv, TypeOK, Shape
  <1>23. ASSUME NEW w \in Windows, WindowStep(w) \/ Request(w) \/ Outcome(w) \/ Crash(w)
         PROVE  TypeInv'
    BY <1>1, <1>2, <1>3, <1>4, <1>5, <1>6, <1>7, <1>8, <1>9, <1>10, <1>11, <1>12, <1>13,
       <1>14, <1>15, <1>16, <1>17, <1>18, <1>19, <1>20, <1>23
       DEF WindowStep, Request, Outcome
  <1> QED
    BY <1>21, <1>22, <1>23 DEF Next

(* Every request keeps its shape: the variables have their types, and each  *)
(* place of a request goes with the fields that the code has set by then.   *)
THEOREM TypesHold == Spec => []TypeInv
  BY InitTypes, NextTypes, PTL DEF Spec

(* Type correctness of the journal. *)
THEOREM TypeCorrect == Spec => []TypeOK
  BY TypesHold, PTL DEF TypeInv

-----------------------------------------------------------------------------
(* Which locks a window owns at each place of a request. *)
LEMMA InitLocks == Init => LockInv
  BY ConstantsAssumption DEF Init, LockInv, Locks, OwnsRecord, NoTurn, TurnStates, SaveStates

LEMMA NextLocks == TypeInv /\ LockInv /\ [Next]_vars => LockInv'
  <1> SUFFICES ASSUME TypeInv, LockInv, [Next]_vars PROVE LockInv'
    OBVIOUS
  <1>A. TypeOK /\ \A w \in Windows : Shape(w)
    BY DEF TypeInv
  <1>B. Absent \notin Record /\ None \notin Windows /\ None \notin Runs /\ None \notin Conversations
    BY ConstantsAssumption
  <1>C. (barrierOwner # None => barrierShared = {}) /\ \A w \in Windows : Locks(w)
    BY DEF LockInv
  <1> USE DEF locks, files, Goto
  <1>1. ASSUME NEW w \in Windows, NEW r \in Runs, NEW c \in Conversations,
               NEW from \in {None, view[w]}, Begin(w, r, c, from)
        PROVE  LockInv'
    BY <1>A, <1>B, <1>C, <1>1 DEF Begin, NoTurn, TypeOK, LockInv, Locks, OwnsRecord, TurnStates, SaveStates
  <1>2. ASSUME NEW w \in Windows, ClaimConversation(w)
        PROVE  LockInv'
    <2>1. /\ pc[w] = "opened" /\ turn[w].conv \in Conversations /\ turn[w].rec = Absent
          /\ UNCHANGED <<turn, barrierShared, barrierOwner, runLock>>
      BY <1>A, <1>2 DEF ClaimConversation, Shape, TurnStates
    <2>2. /\ pc'[w] \in {"naming", "closing"}
          /\ pc'[w] = "naming" => convLock' = [convLock EXCEPT ![turn[w].conv] = w]
          /\ \A v \in Windows : v # w => pc'[v] = pc[v]
          /\ convLock' = convLock \/ (/\ convLock[turn[w].conv] = None
                                     /\ convLock' = [convLock EXCEPT ![turn[w].conv] = w])
      BY <1>A, <1>2 DEF ClaimConversation, ConversationFree, TypeOK
    <2>3. Locks(w)'
      BY <1>A, <1>C, <2>1, <2>2 DEF TypeOK, Locks, OwnsRecord, TurnStates, SaveStates
    <2>4. ASSUME NEW v \in Windows, v # w PROVE Locks(v)'
      <3>1. Locks(v) /\ Shape(v) /\ pc'[v] = pc[v] /\ v # None
        BY <1>A, <1>B, <1>C, <2>2, <2>4
      <3> QED
        <4>1. /\ \A c \in Conversations : convLock[c] = v => convLock'[c] = v
              /\ turn'[v] = turn[v]
          BY <1>A, <2>1, <2>2, <3>1 DEF TypeOK
        <4>2. pc[v] \in TurnStates \/ OwnsRecord(v) => turn[v].conv \in Conversations
          BY <1>A, <3>1 DEF OwnsRecord, Shape, TypeOK, Turn
        <4> QED
          BY <2>1, <3>1, <4>1, <4>2 DEF Locks, OwnsRecord, TurnStates
    <2> QED
      BY <1>C, <2>1, <2>3, <2>4 DEF LockInv
  <1>3. ASSUME NEW w \in Windows, OpenRunLock(w)
        PROVE  LockInv'
    BY <1>A, <1>C, <1>3 DEF OpenRunLock, TypeOK, LockInv, Locks, OwnsRecord, TurnStates, SaveStates
  <1>4. ASSUME NEW w \in Windows, ClaimRun(w)
        PROVE  LockInv'
    <2> DEFINE rec == [status |-> "prepared", sent |-> FALSE, conv |-> turn[w].conv,
                       parent |-> Parent(w), log |-> 0, reviews |-> 0]
    <2>1. /\ turn[w].run \in Runs /\ turn[w].conv \in Conversations /\ turn[w].rec = Absent
      BY <1>A, <1>4 DEF ClaimRun, Shape, TurnStates
    <2>2. CASE Save(w, rec, "prepared") /\ runLock[turn[w].run] = None
               /\ runLock' = [runLock EXCEPT ![turn[w].run] = w]
      <3>1. rec \in Record /\ "prepared" \in Places
        BY <1>A, <2>1, FirstRecord DEF Parent, TypeOK, Turn, View, Places, TurnStates
      <3>2. /\ pc' = [pc EXCEPT ![w] = "write"]
            /\ \A v \in Windows : v # w => turn'[v] = turn[v]
            /\ turn'[w].run = turn[w].run /\ turn'[w].conv = turn[w].conv
        BY <1>A, <2>2, <3>1, SaveTurn
      <3> HIDE DEF rec
      <3> QED
        BY <1>A, <1>B, <1>C, <1>4, <2>1, <2>2, <3>2
           DEF ClaimRun, TypeOK, Shape, LockInv, Locks, OwnsRecord, TurnStates, SaveStates
    <2>3. CASE Goto(w, "closing") /\ UNCHANGED turn
      BY <1>A, <1>B, <1>C, <1>4, <2>1, <2>3
         DEF ClaimRun, TypeOK, Shape, LockInv, Locks, OwnsRecord, TurnStates, SaveStates
    <2> QED
      BY <1>4, <2>2, <2>3 DEF ClaimRun
  <1>5. ASSUME NEW w \in Windows, ReplaceRecord(w) \/ SyncDirectory(w), FailSave(w)
        PROVE  LockInv'
    <2>1. /\ pc' = [pc EXCEPT ![w] = "closing"]
          /\ \A v \in Windows : v # w => turn'[v] = turn[v]
          /\ turn'[w].run = turn[w].run /\ turn'[w].conv = turn[w].conv /\ turn'[w].rec = turn[w].rec
      BY <1>A, <1>5, FailSaveTurn
    <2>2. UNCHANGED locks
      BY <1>5 DEF ReplaceRecord, SyncDirectory
    <2> QED
      BY <1>A, <1>C, <2>1, <2>2 DEF TypeOK, LockInv, Locks, OwnsRecord, TurnStates, SaveStates
  <1>6. ASSUME NEW w \in Windows, ReplaceRecord(w), Goto(w, "sync"), UNCHANGED turn
        PROVE  LockInv'
    BY <1>A, <1>C, <1>6 DEF ReplaceRecord, TypeOK, LockInv, Locks, OwnsRecord, TurnStates, SaveStates
  <1>7. ASSUME NEW w \in Windows, SyncDirectory(w), Goto(w, turn[w].after),
               turn' = [turn EXCEPT ![w].expected = turn[w].rec]
        PROVE  LockInv'
    <2>1. turn[w] \in Turn /\ turn[w].rec \in Record /\ pc[w] = "sync"
          /\ (turn[w].after \in Working => turn[w].conv # None)
          /\ turn[w].after \in Working \cup {"closing"}
      BY <1>A, <1>7 DEF SyncDirectory, TypeOK, Shape, SaveStates
    <2>2. /\ \A v \in Windows : v # w => turn'[v] = turn[v]
          /\ turn'[w].run = turn[w].run /\ turn'[w].conv = turn[w].conv /\ turn'[w].rec = turn[w].rec
      BY <1>A, <1>7, <2>1 DEF TypeOK, Turn
    <2>3. UNCHANGED locks
      BY <1>7 DEF SyncDirectory
    <2> QED
      BY <1>A, <1>B, <1>C, <1>7, <2>1, <2>2, <2>3
         DEF TypeOK, LockInv, Locks, OwnsRecord, TurnStates, SaveStates, Working
  <1>8. ASSUME NEW w \in Windows, NEW rec \in Record, NEW after \in Places,
               pc[w] \in Working, Save(w, rec, after), UNCHANGED locks
        PROVE  LockInv'
    <2>1. /\ pc' = [pc EXCEPT ![w] = "write"]
          /\ \A v \in Windows : v # w => turn'[v] = turn[v]
          /\ turn'[w].run = turn[w].run /\ turn'[w].conv = turn[w].conv
      BY <1>A, <1>8, SaveTurn
    <2>2. turn[w].conv # None /\ turn[w].rec # Absent
      BY <1>A, <1>B, <1>8 DEF Shape, Working, TurnStates
    <2> QED
      BY <1>A, <1>B, <1>C, <1>8, <2>1, <2>2
         DEF TypeOK, LockInv, Locks, OwnsRecord, TurnStates, SaveStates, Working
  <1>9. ASSUME NEW w \in Windows, CallHandler(w)
        PROVE  LockInv'
    BY <1>A, <1>C, <1>9 DEF CallHandler, TypeOK, LockInv, Locks, OwnsRecord, TurnStates, SaveStates
  <1>10. ASSUME NEW w \in Windows, NEW rec \in Record, Observe(w),
                turn' = [turn EXCEPT ![w].rec = rec], UNCHANGED pc
         PROVE  LockInv'
    <2>1. turn[w] \in Turn /\ turn[w].rec # Absent
      BY <1>A, <1>B, <1>10 DEF Observe, TypeOK, Shape, Working
    <2>2. /\ \A v \in Windows : v # w => turn'[v] = turn[v]
          /\ turn'[w].run = turn[w].run /\ turn'[w].conv = turn[w].conv
      BY <1>A, <1>10, <2>1 DEF TypeOK, Turn
    <2> QED
      BY <1>A, <1>B, <1>C, <1>10, <2>1, <2>2 DEF Observe, TypeOK, LockInv, Locks, OwnsRecord
  <1>11. ASSUME NEW w \in Windows, Close(w) \/ FinishRead(w) \/ Crash(w)
         PROVE  LockInv'
    <2>1. /\ ReleaseLocks({w}) /\ turn' = [turn EXCEPT ![w] = NoTurn]
          /\ \E place \in {"idle", "review"} : pc' = [pc EXCEPT ![w] = place]
      BY <1>A, <1>11 DEF Close, FinishRead, Crash, Shape, ReadStates
    <2>2. Locks(w)'
      BY <1>A, <2>1 DEF NoTurn, TypeOK, Locks, OwnsRecord, TurnStates, SaveStates
    <2>3. ASSUME NEW v \in Windows, v # w PROVE Locks(v)'
      <3>1. Locks(v) /\ Shape(v) /\ pc'[v] = pc[v] /\ turn'[v] = turn[v] /\ v # None
        BY <1>A, <1>B, <1>C, <2>1, <2>3 DEF TypeOK
      <3>2. /\ v \in barrierShared => v \in barrierShared'
            /\ \A c \in Conversations : convLock[c] = v => convLock'[c] = v
            /\ \A r \in Runs : runLock[r] = v => runLock'[r] = v
            /\ barrierOwner = v => barrierOwner' = v
        BY <2>1, <2>3 DEF ReleaseLocks
      <3>3. pc[v] \in TurnStates \/ OwnsRecord(v) => turn[v].conv \in Conversations
        BY <1>A, <3>1 DEF OwnsRecord, Shape, TypeOK, Turn
      <3> QED
        BY <3>1, <3>2, <3>3 DEF Shape, Locks, OwnsRecord, TurnStates
    <2>4. barrierOwner' # None => barrierShared' = {}
      BY <1>C, <2>1 DEF ReleaseLocks
    <2> QED
      BY <2>2, <2>3, <2>4 DEF LockInv
  <1>12. ASSUME NEW w \in Windows, NEW r \in Runs, NEW after \in Places,
                pc[w] = "idle", Read(w, r, after)
         PROVE  LockInv'
    <2>1. turn[w] \in Turn /\ turn[w].conv = None
      BY <1>A, <1>12 DEF TypeOK, Shape
    <2>2. turn'[w].conv = None /\ \A v \in Windows : v # w => turn'[v] = turn[v]
      BY <1>A, <1>12, <2>1 DEF Read, TypeOK, Turn
    <2> QED
      BY <1>A, <1>C, <1>12, <2>2
         DEF Read, TypeOK, LockInv, Locks, OwnsRecord, TurnStates, SaveStates
  <1>13. ASSUME NEW w \in Windows, ProbeBarrier(w)
         PROVE  LockInv'
    BY <1>A, <1>B, <1>C, <1>13
       DEF ProbeBarrier, NoTurn, TypeOK, Shape, ReadStates, LockInv, Locks, OwnsRecord, TurnStates, SaveStates
  <1>14. ASSUME NEW w \in Windows, NEW r \in Runs, ProbeRun(w, r)
         PROVE  LockInv'
    BY <1>A, <1>B, <1>C, <1>14
       DEF ProbeRun, TypeOK, Shape, ReadStates, LockInv, Locks, OwnsRecord, TurnStates, SaveStates
  <1>15. ASSUME NEW w \in Windows, LockReview(w)
         PROVE  LockInv'
    BY <1>A, <1>B, <1>C, <1>15
       DEF LockReview, BarrierFree, TypeOK, LockInv, Locks, OwnsRecord, TurnStates, SaveStates
  <1>16. ASSUME NEW w \in Windows, Review(w)
         PROVE  LockInv'
    <2>1. /\ turn[w].conv = None /\ barrierOwner = w
          /\ \A v \in Windows : v # w => turn'[v] = turn[v] /\ pc'[v] = pc[v]
          /\ turn'[w].conv = None /\ pc'[w] \in {"write", "closing"}
      <3>1. turn[w].conv = None /\ barrierOwner = w /\ pc[w] = "reviewing"
        BY <1>A, <1>C, <1>16 DEF Review, Shape, Locks
      <3>2. CASE UNCHANGED turn /\ Goto(w, "closing")
        BY <1>A, <3>1, <3>2 DEF TypeOK
      <3>3. ASSUME NEW rec, NEW old, NEW r,
                   turn' = [turn EXCEPT ![w] = [NoTurn EXCEPT !.run = r, !.expected = old,
                                                  !.after = "closing", !.rec = rec]],
                   Goto(w, "write")
            PROVE  turn'[w].conv = None /\ pc'[w] \in {"write", "closing"}
                   /\ \A v \in Windows : v # w => turn'[v] = turn[v] /\ pc'[v] = pc[v]
        BY <1>A, <3>3 DEF TypeOK, NoTurn
      <3> QED
        BY <1>16, <3>1, <3>2, <3>3 DEF Review
    <2> QED
      BY <1>A, <1>C, <1>16, <2>1 DEF Review, LockInv, Locks, OwnsRecord, TurnStates, SaveStates
  <1>17. ASSUME PowerLoss
         PROVE  LockInv'
    BY <1>A, <1>17
       DEF PowerLoss, ReleaseLocks, NoTurn, TypeOK, LockInv, Locks, OwnsRecord, TurnStates, SaveStates
  <1>18. CASE UNCHANGED vars
    BY <1>C, <1>18 DEF vars, LockInv, Locks, OwnsRecord
  <1>19. ASSUME NEW w \in Windows, Dispatch(w) \/ Observe(w) \/ Complete(w) \/ Fail(w)
         PROVE  LockInv'
    <2>1. pc[w] \in Working /\ turn[w].rec \in Record /\ "closing" \in Places /\ Working \subseteq Places
      BY <1>A, <1>19 DEF Dispatch, Observe, Complete, Fail, Shape, Working, Places, TurnStates
    <2> QED
      BY <1>8, <1>10, <1>19, <2>1, RecordUpdates
         DEF Dispatch, Observe, Complete, Fail, AfterAnswer, Working
  <1>20. ASSUME NEW w \in Windows, ReplaceRecord(w) \/ SyncDirectory(w)
         PROVE  LockInv'
    BY <1>5, <1>6, <1>7, <1>20 DEF ReplaceRecord, SyncDirectory
  <1>21. ASSUME NEW w \in Windows, NEW r \in Runs, OpenPage(w, r)
         PROVE  LockInv'
    BY <1>12, <1>21 DEF OpenPage, Places
  <1>22. ASSUME NEW w \in Windows, StartReview(w)
         PROVE  LockInv'
    BY <1>A, <1>12, <1>22 DEF StartReview, TypeOK, View, Places
  <1> QED
    BY <1>1, <1>2, <1>3, <1>4, <1>9, <1>11, <1>13, <1>14, <1>15, <1>16, <1>17, <1>18,
       <1>19, <1>20, <1>21, <1>22
       DEF Next, WindowStep, Request, Outcome

(* At each place a window owns the locks that the code has taken by then,   *)
(* and a review excludes every turn.                                        *)
THEOREM LocksHold == Spec => []LockInv
  BY InitLocks, NextLocks, TypesHold, PTL DEF Spec

-----------------------------------------------------------------------------
(* How the contents of one record may follow each other. *)
LEMMA FollowsItself ==
  ASSUME NEW rec \in Record PROVE Follows(rec, rec)
  BY ConstantsAssumption DEF Record, Follows, Rank

LEMMA FollowsTwice ==
  ASSUME NEW a \in Record, NEW b \in Record, NEW c \in Record, Follows(a, b), Follows(b, c)
  PROVE  Follows(a, c)
  <1>1. Rank(a.status) \in Nat /\ Rank(b.status) \in Nat /\ Rank(c.status) \in Nat
    BY DEF Record, Rank
  <1>2. /\ a.log \in Nat /\ b.log \in Nat /\ c.log \in Nat
        /\ a.reviews \in Nat /\ b.reviews \in Nat /\ c.reviews \in Nat
    BY ConstantsAssumption DEF Record
  <1> QED
    BY <1>1, <1>2 DEF Follows

(* Each change the code makes to a record adds evidence and keeps the rest. *)
LEMMA Progress ==
  ASSUME NEW rec \in Record, NEW new,
         \/ rec.status = "prepared"
            /\ new = [rec EXCEPT !.status = "dispatching", !.sent = TRUE]
         \/ rec.status \in {"prepared", "dispatching"}
            /\ new \in {[rec EXCEPT !.status = "completed"], [rec EXCEPT !.status = "error"]}
         \/ new = [rec EXCEPT !.log = @ + 1]
  PROVE  /\ Follows(rec, new)
         /\ new.conv = rec.conv /\ new.parent = rec.parent /\ new.reviews = rec.reviews
  <1>1. CASE rec.status = "prepared" /\ new = [rec EXCEPT !.status = "dispatching", !.sent = TRUE]
    BY <1>1, ConstantsAssumption DEF Record, Follows, Rank
  <1>2. CASE rec.status \in {"prepared", "dispatching"} /\ new = [rec EXCEPT !.status = "completed"]
    BY <1>2, ConstantsAssumption DEF Record, Follows, Rank
  <1>3. CASE rec.status \in {"prepared", "dispatching"} /\ new = [rec EXCEPT !.status = "error"]
    BY <1>3, ConstantsAssumption DEF Record, Follows, Rank
  <1>4. CASE new = [rec EXCEPT !.log = @ + 1]
    BY <1>4, ConstantsAssumption DEF Record, Follows, Rank
  <1> QED
    BY <1>1, <1>2, <1>3, <1>4

LEMMA ReviewProgress ==
  ASSUME NEW rec \in Record
  PROVE  /\ Follows(rec, [rec EXCEPT !.reviews = @ + 1])
         /\ [rec EXCEPT !.reviews = @ + 1].status = rec.status
  BY ConstantsAssumption DEF Record, Follows, Rank

(* w writes its record now, or may have failed to. *)
Writes(w) == pc[w] \in SaveStates \cup Working \/ OwnsRecord(w)

(* The locks leave each record one writer. *)
LEMMA OneWriter ==
  ASSUME TypeInv, LockInv, NEW w \in Windows, NEW v \in Windows, w # v, Writes(w), Writes(v)
  PROVE  turn[w].run # turn[v].run
  <1>1. ASSUME NEW x \in Windows, Writes(x)
        PROVE  OwnsRecord(x) \/ (barrierOwner = x /\ x # None)
    <2>1. Shape(x) /\ Locks(x) /\ x # None /\ Absent \notin Record /\ None \notin Conversations
      BY ConstantsAssumption DEF TypeInv, LockInv
    <2> QED
      BY <1>1, <2>1 DEF Writes, OwnsRecord, Shape, Locks, Working, TurnStates
  <1>2. CASE OwnsRecord(w) /\ OwnsRecord(v)
    BY <1>2 DEF LockInv, Locks
  <1>3. ASSUME NEW x \in Windows, OwnsRecord(x) PROVE barrierOwner = None
    BY <1>3 DEF LockInv, Locks
  <1> QED
    BY <1>1, <1>2, <1>3

(* A step of w that leaves the files alone has to account for w only. *)
LEMMA FilesUntouched ==
  ASSUME FileInv, NEW w \in Windows, UNCHANGED <<files, calls>>,
         \A v \in Windows : v # w => pc'[v] = pc[v] /\ turn'[v] = turn[v],
         Copy(w)', Phases(w)'
  PROVE  FileInv'
  <1>1. ASSUME NEW v \in Windows PROVE Copy(v)' /\ Phases(v)'
    BY DEF FileInv, Copy, Phases, Phase, OwnsRecord, Parent, files
  <1>2. ASSUME NEW r \in Runs PROVE Evidence(r)'
    BY DEF FileInv, Evidence, files
  <1> QED
    BY <1>1, <1>2 DEF FileInv

(* Outside a turn's saves there is nothing to account for. *)
LEMMA NothingWritten ==
  ASSUME FileInv, NEW w \in Windows, UNCHANGED <<files, calls>>,
         \A v \in Windows : v # w => pc'[v] = pc[v] /\ turn'[v] = turn[v],
         pc'[w] \notin SaveStates \cup Working,
         turn'[w].conv = None \/ turn'[w].rec = Absent
  PROVE  FileInv'
  <1>1. Copy(w)'
    BY DEF Copy, OwnsRecord, SaveStates, Working
  <1>2. Phases(w)'
    BY DEF Phases, SaveStates, Working
  <1> QED
    BY <1>1, <1>2, FilesUntouched

(* A step of w that changes the files of its own run concerns no other      *)
(* writer.                                                                  *)
LEMMA OtherWriters ==
  ASSUME TypeInv, LockInv, FileInv, NEW w \in Windows, Writes(w),
         \A x \in Runs : x # turn[w].run =>
            disk'[x] = disk[x] /\ promised'[x] = promised[x] /\ calls'[x] = calls[x],
         NEW v \in Windows, v # w, pc'[v] = pc[v], turn'[v] = turn[v]
  PROVE  Copy(v)' /\ Phases(v)'
  <1>1. CASE Writes(v)
    <2>1. turn[v].run \in Runs
      BY <1>1 DEF TypeInv, Shape, Writes, OwnsRecord, Working, TurnStates
    <2>2. turn[v].run # turn[w].run
      BY <1>1, OneWriter
    <2>3. /\ disk'[turn[v].run] = disk[turn[v].run]
          /\ promised'[turn[v].run] = promised[turn[v].run]
          /\ calls'[turn[v].run] = calls[turn[v].run]
      BY <2>1, <2>2
    <2> QED
      BY <2>3 DEF FileInv, Copy, Phases, Phase, OwnsRecord, Parent
  <1>2. CASE ~ Writes(v)
    BY <1>2 DEF Writes, Copy, Phases, OwnsRecord, SaveStates, Working
  <1> QED
    BY <1>1, <1>2

(* A run whose record does not exist has not been called. *)
LEMMA NoRecordNoCall ==
  ASSUME TypeOK, NEW r \in Runs, Evidence(r), disk[r] = Absent
  PROVE  calls[r] = 0 /\ promised[r] = Absent
  BY DEF TypeOK, Evidence

(* Requesting a save of a later state of the record. *)
LEMMA SaveFiles ==
  ASSUME TypeInv, FileInv, NEW w \in Windows, NEW rec \in Record, NEW after \in Places,
         pc[w] \in Working, Save(w, rec, after), UNCHANGED <<files, calls>>,
         Follows(turn[w].rec, rec), rec.conv = turn[w].rec.conv,
         rec.parent = turn[w].rec.parent, rec.reviews = turn[w].rec.reviews,
         after = "prepared" => pc[w] = "prepared" /\ rec.status = "prepared",
         after \in {"dispatched", "running"} => rec.status = "dispatching",
         after = "dispatched" => pc[w] = "prepared" /\ rec.sent
  PROVE  FileInv'
  <1>1. /\ pc' = [pc EXCEPT ![w] = "write"]
        /\ \A v \in Windows : v # w => turn'[v] = turn[v]
        /\ turn'[w].rec = rec /\ turn'[w].after = after
        /\ turn'[w].run = turn[w].run /\ turn'[w].conv = turn[w].conv
        /\ turn'[w].from = turn[w].from /\ turn'[w].expected = turn[w].expected
    BY SaveTurn DEF TypeInv
  <1>2. pc'[w] = "write" /\ \A v \in Windows : v # w => pc'[v] = pc[v]
    BY <1>1 DEF TypeInv, TypeOK
  <1>3. /\ turn[w].rec \in Record /\ turn[w].expected \in Record
        /\ turn[w].run \in Runs /\ turn[w].conv \in Conversations
        /\ turn[w].conv # None /\ turn[w].rec # Absent /\ turn[w].expected # Absent
    BY ConstantsAssumption DEF TypeInv, Shape, Working, TurnStates
  <1>4. Copy(w) /\ Phases(w)
    BY DEF FileInv
  <1>5. disk'[turn[w].run] = disk[turn[w].run] /\ promised'[turn[w].run] = promised[turn[w].run]
        /\ calls'[turn[w].run] = calls[turn[w].run]
    BY DEF files
  <1>6. Follows(turn[w].expected, rec)
    BY <1>3, <1>4, FollowsTwice DEF Copy
  <1>7. Copy(w)'
    BY <1>1, <1>2, <1>3, <1>4, <1>5, <1>6 DEF Copy, OwnsRecord, Parent, SaveStates, Working
  <1>8. Phases(w)'
    BY <1>1, <1>2, <1>4, <1>5 DEF Phases, Phase, SaveStates, Working
  <1> QED
    BY <1>1, <1>2, <1>7, <1>8, FilesUntouched

LEMMA InitFiles == Init => FileInv
  BY ConstantsAssumption DEF Init, FileInv, Copy, Phases, Evidence, OwnsRecord, NoTurn, SaveStates, Working

LEMMA NextFiles == TypeInv /\ LockInv /\ FileInv /\ [Next]_vars => FileInv'
  <1> SUFFICES ASSUME TypeInv, LockInv, FileInv, [Next]_vars PROVE FileInv'
    OBVIOUS
  <1>A. TypeOK /\ \A w \in Windows : Shape(w)
    BY DEF TypeInv
  <1>B. Absent \notin Record /\ None \notin Windows /\ None \notin Runs /\ None \notin Conversations
    BY ConstantsAssumption
  <1>C. /\ \A w \in Windows : Copy(w) /\ Phases(w)
        /\ \A r \in Runs : Evidence(r)
    BY DEF FileInv
  <1> USE DEF Goto
  <1>1. ASSUME NEW w \in Windows,
               \/ \E r \in Runs, c \in Conversations, from \in {None, view[w]} : Begin(w, r, c, from)
               \/ ClaimConversation(w) \/ OpenRunLock(w)
        PROVE  FileInv'
    <2>1. /\ UNCHANGED <<files, calls>>
          /\ \A v \in Windows : v # w => pc'[v] = pc[v] /\ turn'[v] = turn[v]
      <3>1. CASE \E r \in Runs, c \in Conversations, from \in {None, view[w]} : Begin(w, r, c, from)
        BY <1>A, <3>1 DEF Begin, TypeOK
      <3>2. CASE ClaimConversation(w) \/ OpenRunLock(w)
        BY <1>A, <3>2 DEF ClaimConversation, OpenRunLock, TypeOK
      <3> QED
        BY <1>1, <3>1, <3>2
    <2>2. pc'[w] \notin SaveStates \cup Working /\ turn'[w].rec = Absent
      <3>1. CASE \E r \in Runs, c \in Conversations, from \in {None, view[w]} : Begin(w, r, c, from)
        <4>1. turn'[w].rec = Absent
          BY <1>A, <3>1 DEF Begin, NoTurn, TypeOK
        <4>2. pc'[w] \in {"opened", "closing"}
          BY <1>A, <3>1 DEF Begin, TypeOK
        <4> QED
          BY <4>1, <4>2 DEF SaveStates, Working
      <3>2. CASE ClaimConversation(w)
        BY <1>A, <3>2 DEF ClaimConversation, NoTurn, TypeOK, Shape, SaveStates, Working
      <3>3. CASE OpenRunLock(w)
        BY <1>A, <3>3 DEF OpenRunLock, NoTurn, TypeOK, Shape, SaveStates, Working
      <3> QED
        BY <1>1, <3>1, <3>2, <3>3
    <2> QED
      BY <2>1, <2>2, NothingWritten
  <1>2. ASSUME NEW w \in Windows,
               Close(w) \/ ProbeBarrier(w) \/ FinishRead(w) \/ LockReview(w) \/ Crash(w)
               \/ \E r \in Runs : ProbeRun(w, r)
        PROVE  FileInv'
    <2>1. /\ UNCHANGED <<files, calls>>
          /\ \A v \in Windows : v # w => pc'[v] = pc[v] /\ turn'[v] = turn[v]
      BY <1>A, <1>2 DEF Close, ProbeBarrier, FinishRead, LockReview, Crash, ProbeRun, TypeOK
    <2>2. /\ pc'[w] \in {"idle", "probe", "review", "reviewing"}
          /\ turn'[w].conv = None
      <3>1. CASE Close(w) \/ Crash(w) \/ FinishRead(w)
        BY <1>A, <3>1 DEF Close, Crash, FinishRead, NoTurn, TypeOK, Shape, ReadStates
      <3>2. CASE ProbeBarrier(w)
        BY <1>A, <3>2 DEF ProbeBarrier, NoTurn, TypeOK, Shape, ReadStates
      <3>3. CASE \E r \in Runs : ProbeRun(w, r)
        BY <1>A, <3>3 DEF ProbeRun, TypeOK, Shape, ReadStates
      <3>4. CASE LockReview(w)
        BY <1>A, <3>4 DEF LockReview, TypeOK, Shape
      <3> QED
        BY <1>2, <3>1, <3>2, <3>3, <3>4
    <2> QED
      BY <2>1, <2>2, NothingWritten DEF SaveStates, Working
  <1>3. ASSUME NEW w \in Windows, NEW r \in Runs, NEW after \in Places,
               pc[w] = "idle", Read(w, r, after)
        PROVE  FileInv'
    <2>1. turn[w] \in Turn /\ turn[w].conv = None
      BY <1>A, <1>3 DEF TypeOK, Shape
    <2>2. /\ UNCHANGED <<files, calls>> /\ pc'[w] = "barrier" /\ turn'[w].conv = None
          /\ \A v \in Windows : v # w => pc'[v] = pc[v] /\ turn'[v] = turn[v]
      BY <1>A, <1>3, <2>1 DEF Read, TypeOK, Turn
    <2> QED
      BY <2>2, NothingWritten DEF SaveStates, Working
  <1>4. ASSUME NEW w \in Windows, ClaimRun(w)
        PROVE  FileInv'
    <2> DEFINE rec == [status |-> "prepared", sent |-> FALSE, conv |-> turn[w].conv,
                       parent |-> Parent(w), log |-> 0, reviews |-> 0]
    <2>1. /\ turn[w].run \in Runs /\ turn[w].conv \in Conversations
          /\ turn[w].rec = Absent /\ turn[w].expected = Absent
      BY <1>A, <1>4 DEF ClaimRun, Shape, TurnStates
    <2>2. UNCHANGED <<files, calls>> /\ \A v \in Windows : v # w => pc'[v] = pc[v]
      BY <1>A, <1>4 DEF ClaimRun, Save, TypeOK
    <2>3. CASE Save(w, rec, "prepared") /\ disk[turn[w].run] = Absent
      <3>1. rec \in Record /\ "prepared" \in Places
        BY <1>A, <2>1, FirstRecord DEF Parent, TypeOK, Turn, View, Places, TurnStates
      <3>2. /\ rec.conv = turn[w].conv /\ rec.parent = Parent(w) /\ rec.reviews = 0
            /\ rec.status = "prepared"
        OBVIOUS
      <3>3. calls[turn[w].run] = 0
        BY <1>A, <1>C, <2>1, <2>3, NoRecordNoCall
      <3> HIDE DEF rec
      <3>4. /\ pc' = [pc EXCEPT ![w] = "write"]
            /\ \A v \in Windows : v # w => turn'[v] = turn[v]
            /\ turn'[w].rec = rec /\ turn'[w].after = "prepared"
            /\ turn'[w].run = turn[w].run /\ turn'[w].conv = turn[w].conv
            /\ turn'[w].from = turn[w].from /\ turn'[w].expected = turn[w].expected
        BY <1>A, <2>3, <3>1, SaveTurn
      <3>5. pc'[w] = "write"
        BY <1>A, <3>4 DEF TypeOK
      <3>6. disk'[turn[w].run] = Absent /\ calls'[turn[w].run] = 0
        BY <2>2, <2>3, <3>3 DEF files
      <3>7. Copy(w)'
        BY <2>1, <3>2, <3>4, <3>5, <3>6 DEF Copy, Parent, Working
      <3>8. Phases(w)'
        BY <3>2, <3>4, <3>5, <3>6 DEF Phases, Phase, Working
      <3> QED
        BY <2>2, <3>4, <3>7, <3>8, FilesUntouched
    <2>4. CASE Goto(w, "closing") /\ UNCHANGED turn
      <3>1. pc'[w] = "closing" /\ turn'[w].rec = Absent
        BY <1>A, <2>1, <2>4 DEF TypeOK
      <3> QED
        BY <2>2, <2>4, <3>1, NothingWritten DEF SaveStates, Working
    <2> QED
      BY <1>4, <2>3, <2>4 DEF ClaimRun
  <1>5. ASSUME NEW w \in Windows, Dispatch(w) \/ Complete(w) \/ Fail(w)
        PROVE  FileInv'
    <2>1. /\ pc[w] \in Working /\ turn[w].rec \in Record /\ Phase(w, pc[w])
          /\ UNCHANGED <<files, calls>>
      BY <1>A, <1>C, <1>5 DEF Dispatch, Complete, Fail, Shape, Phases, Working
    <2>2. "closing" \in Places /\ "dispatched" \in Places
      BY DEF Places, TurnStates
    <2>3. CASE Dispatch(w)
      <3> DEFINE new == [turn[w].rec EXCEPT !.status = "dispatching", !.sent = TRUE]
      <3>1. /\ Save(w, new, "dispatched") /\ pc[w] = "prepared" /\ turn[w].rec.status = "prepared"
        BY <2>1, <2>3 DEF Dispatch, Phase
      <3>2. new \in Record /\ new.status = "dispatching" /\ new.sent
        BY <2>1, RecordUpdates DEF Record
      <3>3. Follows(turn[w].rec, new) /\ new.conv = turn[w].rec.conv
            /\ new.parent = turn[w].rec.parent /\ new.reviews = turn[w].rec.reviews
        BY <2>1, <3>1, Progress
      <3> HIDE DEF new
      <3> QED
        BY <2>1, <2>2, <3>1, <3>2, <3>3, SaveFiles
    <2>4. CASE Complete(w) \/ Fail(w)
      <3>1. PICK new \in {[turn[w].rec EXCEPT !.status = "completed"],
                          [turn[w].rec EXCEPT !.status = "error"]} : Save(w, new, "closing")
        BY <2>4 DEF Complete, Fail, AfterAnswer
      <3>2. turn[w].rec.status \in {"prepared", "dispatching"} /\ new \in Record
        BY <2>1, <3>1, RecordUpdates DEF Phase, Working
      <3>3. Follows(turn[w].rec, new) /\ new.conv = turn[w].rec.conv
            /\ new.parent = turn[w].rec.parent /\ new.reviews = turn[w].rec.reviews
        BY <2>1, <3>1, <3>2, Progress
      <3> QED
        BY <2>1, <2>2, <3>1, <3>2, <3>3, SaveFiles
    <2> QED
      BY <1>5, <2>3, <2>4
  <1>6. ASSUME NEW w \in Windows, Observe(w)
        PROVE  FileInv'
    <2> DEFINE new == [turn[w].rec EXCEPT !.log = @ + 1]
    <2>1. /\ pc[w] \in Working /\ turn[w].rec \in Record /\ turn[w].expected \in Record
          /\ Phase(w, pc[w]) /\ Copy(w) /\ UNCHANGED <<files, calls>>
          /\ pc[w] \in {"prepared", "running"} /\ pc[w] \in Places
      BY <1>A, <1>C, <1>6 DEF Observe, Shape, Phases, Working, TypeOK
    <2>2. new \in Record /\ new.status = turn[w].rec.status /\ new.sent = turn[w].rec.sent
      BY <1>6, <2>1, RecordUpdates DEF Observe, Record
    <2>3. Follows(turn[w].rec, new) /\ new.conv = turn[w].rec.conv
          /\ new.parent = turn[w].rec.parent /\ new.reviews = turn[w].rec.reviews
      BY <2>1, Progress
    <2>4. Save(w, new, pc[w]) \/ (turn' = [turn EXCEPT ![w].rec = new] /\ UNCHANGED pc)
      BY <1>6 DEF Observe
    <2> HIDE DEF new
    <2>5. CASE Save(w, new, pc[w])
      BY <2>1, <2>2, <2>3, <2>5, SaveFiles DEF Phase
    <2>6. CASE turn' = [turn EXCEPT ![w].rec = new] /\ UNCHANGED pc
      <3>1. turn[w] \in Turn
        BY <1>A DEF TypeOK
      <3>2. /\ turn'[w].rec = new /\ turn'[w].conv = turn[w].conv /\ turn'[w].run = turn[w].run
            /\ turn'[w].from = turn[w].from /\ turn'[w].expected = turn[w].expected
            /\ \A v \in Windows : v # w => turn'[v] = turn[v]
        BY <1>A, <2>6, <3>1 DEF TypeOK, Turn
      <3>3. Follows(turn[w].expected, new)
        BY <1>B, <2>1, <2>2, <2>3, FollowsTwice DEF Copy
      <3>4. turn[w].rec # Absent /\ new # Absent
        BY <1>B, <2>1, <2>2
      <3>5. Copy(w)'
        BY <2>1, <2>3, <2>6, <3>2, <3>3, <3>4 DEF Copy, OwnsRecord, Parent, files, Working, SaveStates
      <3>6. Phases(w)'
        BY <1>C, <2>1, <2>2, <2>6, <3>2 DEF Phases, Phase, files, Working, SaveStates
      <3> QED
        BY <2>1, <2>6, <3>2, <3>5, <3>6, FilesUntouched
    <2> QED
      BY <2>4, <2>5, <2>6
  <1>7. ASSUME NEW w \in Windows, CallHandler(w)
        PROVE  FileInv'
    <2> DEFINE r == turn[w].run
    <2>1. /\ r \in Runs /\ turn[w].expected \in Record /\ pc[w] = "dispatched"
          /\ Copy(w) /\ Phases(w) /\ Phase(w, "dispatched") /\ Writes(w)
      BY <1>A, <1>C, <1>7 DEF CallHandler, Shape, TurnStates, Phases, Working, Writes
    <2>2. /\ calls' = [calls EXCEPT ![r] = 1]
          /\ pc'[w] = "running" /\ turn'[w] = turn[w]
          /\ \A v \in Windows : v # w => pc'[v] = pc[v] /\ turn'[v] = turn[v]
          /\ UNCHANGED files
      <3>1. calls[r] = 0 /\ calls' = [calls EXCEPT ![r] = calls[r] + 1]
        BY <1>7, <2>1 DEF CallHandler, Phase
      <3>2. calls' = [calls EXCEPT ![r] = 1]
        BY <3>1
      <3> QED
        BY <1>A, <1>7, <3>2 DEF CallHandler, TypeOK
    <2>3. promised[r] # Absent /\ promised[r].sent
      BY <1>B, <2>1 DEF Copy, Phases, Working
    <2>4. Copy(w)'
      BY <2>1, <2>2 DEF Copy, OwnsRecord, Parent, files, Working, SaveStates
    <2>5. Phases(w)'
      BY <2>1, <2>2 DEF Phases, Phase, Working, SaveStates
    <2>6. ASSUME NEW v \in Windows, v # w PROVE Copy(v)' /\ Phases(v)'
      <3>1. \A x \in Runs : x # r => disk'[x] = disk[x] /\ promised'[x] = promised[x] /\ calls'[x] = calls[x]
        BY <1>A, <2>2 DEF files, TypeOK
      <3> QED
        BY <2>1, <2>2, <2>6, <3>1, OtherWriters
    <2>7. ASSUME NEW x \in Runs PROVE Evidence(x)'
      BY <1>A, <1>C, <2>1, <2>2, <2>3, <2>7 DEF Evidence, files, TypeOK
    <2> QED
      BY <2>4, <2>5, <2>6, <2>7 DEF FileInv
  <1>8. ASSUME NEW w \in Windows, ReplaceRecord(w) \/ SyncDirectory(w), FailSave(w),
               UNCHANGED <<files, calls>>
        PROVE  FileInv'
    <2>1. /\ pc' = [pc EXCEPT ![w] = "closing"]
          /\ \A v \in Windows : v # w => turn'[v] = turn[v]
          /\ turn'[w].rec = turn[w].rec
          /\ turn'[w].run = turn[w].run /\ turn'[w].conv = turn[w].conv
          /\ turn'[w].from = turn[w].from
      BY <1>A, <1>8, FailSaveTurn
    <2>2. pc'[w] = "closing" /\ \A v \in Windows : v # w => pc'[v] = pc[v]
      BY <1>A, <2>1 DEF TypeOK
    <2>3. Copy(w)'
      BY <1>C, <1>8, <2>1, <2>2 DEF Copy, OwnsRecord, Parent, files, Working, SaveStates
    <2>4. Phases(w)'
      BY <2>2 DEF Phases, Working, SaveStates
    <2> QED
      BY <1>8, <2>1, <2>2, <2>3, <2>4, FilesUntouched
  <1>9. ASSUME NEW w \in Windows, ReplaceRecord(w), Goto(w, "sync"), disk[turn[w].run] = turn[w].expected,
               disk' = [disk EXCEPT ![turn[w].run] = turn[w].rec],
               media' = [media EXCEPT ![turn[w].run] = @ \cup {turn[w].rec}],
               UNCHANGED turn
        PROVE  FileInv'
    <2> DEFINE r == turn[w].run
               rec == turn[w].rec
    <2>1. /\ r \in Runs /\ rec \in Record /\ turn[w].expected \in Record \cup {Absent}
          /\ pc[w] = "write" /\ Copy(w) /\ Phases(w) /\ Shape(w) /\ Writes(w)
      BY <1>A, <1>C, <1>9 DEF ReplaceRecord, Shape, SaveStates, Writes, TypeOK, Turn
    <2>2. /\ disk'[r] = rec /\ media'[r] = media[r] \cup {rec} /\ rec # Absent
          /\ pc'[w] = "sync" /\ turn'[w] = turn[w]
          /\ \A v \in Windows : v # w => pc'[v] = pc[v] /\ turn'[v] = turn[v]
          /\ \A x \in Runs : x # r => disk'[x] = disk[x] /\ media'[x] = media[x]
          /\ UNCHANGED <<promised, calls>>
      BY <1>A, <1>B, <1>9, <2>1 DEF ReplaceRecord, TypeOK
    <2>3. Copy(w)'
      BY <2>1, <2>2 DEF Copy, OwnsRecord, Parent, SaveStates, Working
    <2>4. Phases(w)'
      BY <2>1, <2>2 DEF Phases, Phase, SaveStates, Working
    <2>5. ASSUME NEW v \in Windows, v # w PROVE Copy(v)' /\ Phases(v)'
      BY <2>1, <2>2, <2>5, OtherWriters
    <2>6. Evidence(r)'
      <3>1. promised[r] # Absent => turn[w].expected \in Record /\ promised[r] \in Record
                                    /\ Follows(promised[r], turn[w].expected)
        BY <1>A, <1>C, <1>9, <2>1 DEF Evidence, TypeOK
      <3>2. promised[r] # Absent => Follows(promised[r], rec)
        BY <1>B, <2>1, <3>1, FollowsTwice DEF Copy, SaveStates
      <3>3. rec.status # "prepared" => promised[r] # Absent
        BY <2>1 DEF Copy, Phases, Phase, Shape, SaveStates
      <3>4. ASSUME NEW v \in media[r], v # Absent
            PROVE  rec.conv = v.conv /\ rec.parent = v.parent
        <4>1. /\ disk[r] # Absent /\ turn[w].expected # Absent
              /\ turn[w].expected.conv = v.conv /\ turn[w].expected.parent = v.parent
          BY <1>C, <1>9, <2>1, <3>4 DEF Evidence
        <4> QED
          BY <2>1, <4>1 DEF Copy, Follows, SaveStates
      <3> QED
        BY <1>C, <2>1, <2>2, <3>2, <3>3, <3>4 DEF Evidence
    <2>7. ASSUME NEW x \in Runs, x # r PROVE Evidence(x)'
      BY <1>C, <2>2, <2>7 DEF Evidence
    <2>8. \A x \in Runs : Evidence(x)'
      BY <2>2, <2>6, <2>7
    <2> QED
      BY <2>3, <2>4, <2>5, <2>8 DEF FileInv
  <1>10. ASSUME NEW w \in Windows, SyncDirectory(w), Goto(w, turn[w].after), media' = Settled,
                promised' = [promised EXCEPT ![turn[w].run] = turn[w].rec],
                turn' = [turn EXCEPT ![w].expected = turn[w].rec]
         PROVE  FileInv'
    <2>1. /\ turn[w].run \in Runs /\ turn[w].rec \in Record /\ turn[w] \in Turn
          /\ pc[w] = "sync" /\ Copy(w) /\ Phases(w) /\ Shape(w) /\ Writes(w)
      BY <1>A, <1>C, <1>10 DEF SyncDirectory, Shape, SaveStates, Writes, TypeOK
    <2>2. PICK r \in Runs, rec \in Record : r = turn[w].run /\ rec = turn[w].rec
      BY <2>1
    <2>3. /\ turn'[w].expected = rec /\ turn'[w].rec = rec /\ turn'[w].run = r
          /\ turn'[w].conv = turn[w].conv /\ turn'[w].from = turn[w].from
          /\ pc'[w] = turn[w].after /\ turn[w].after \in Working \cup {"closing"}
          /\ \A v \in Windows : v # w => pc'[v] = pc[v] /\ turn'[v] = turn[v]
      <3>1. turn' = [turn EXCEPT ![w] = [turn[w] EXCEPT !.expected = rec]]
        BY <1>10, <2>2
      <3>2. turn'[w] = [turn[w] EXCEPT !.expected = rec]
            /\ \A v \in Windows : v # w => turn'[v] = turn[v]
        BY <1>A, <3>1 DEF TypeOK
      <3>3. /\ pc'[w] = turn[w].after /\ turn[w].after \in Working \cup {"closing"}
            /\ \A v \in Windows : v # w => pc'[v] = pc[v]
        BY <1>A, <1>10, <2>1 DEF TypeOK, Shape, SaveStates
      <3> QED
        BY <2>1, <2>2, <3>2, <3>3 DEF Turn
    <2>4. /\ disk' = disk /\ calls' = calls /\ disk[r] = rec /\ rec # Absent
          /\ promised'[r] = rec
          /\ \A x \in Runs : x # r => promised'[x] = promised[x]
          /\ \A x \in Runs : media'[x] = {disk[x]}
      BY <1>A, <1>B, <1>10, <2>1, <2>2 DEF SyncDirectory, Settled, Copy, TypeOK
    <2>5. Copy(w)'
      BY <2>1, <2>2, <2>3, <2>4, FollowsItself DEF Copy, OwnsRecord, Parent, SaveStates, Working
    <2>6. Phases(w)'
      BY <2>1, <2>2, <2>3, <2>4 DEF Phases, Phase, SaveStates, Working
    <2>7. ASSUME NEW v \in Windows, v # w PROVE Copy(v)' /\ Phases(v)'
      BY <2>1, <2>2, <2>3, <2>4, <2>7, OtherWriters
    <2>8. ASSUME NEW x \in Runs PROVE Evidence(x)'
      <3>1. CASE x # r
        BY <1>C, <2>4, <3>1 DEF Evidence
      <3>2. CASE x = r
        <4>1. calls[r] > 0 => rec.sent
          BY <1>C, <2>4 DEF Evidence, Follows
        <4> QED
          BY <1>C, <2>2, <2>4, <3>2, <4>1, FollowsItself DEF Evidence
      <3> QED
        BY <3>1, <3>2
    <2> QED
      BY <2>5, <2>6, <2>7, <2>8 DEF FileInv
  <1>11. ASSUME NEW w \in Windows, Review(w)
         PROVE  FileInv'
    <2>1. /\ pc[w] = "reviewing" /\ turn[w].conv = None /\ view[w] \in View
          /\ view[w].run \in Runs /\ view[w].rec \in Record /\ UNCHANGED <<files, calls>>
      BY <1>A, <1>11 DEF Review, Shape, View
    <2>2. PICK r \in Runs, rec \in Record \cup {Absent} : r = view[w].run /\ rec = disk[r]
      BY <1>A, <2>1 DEF TypeOK
    <2>3. CASE UNCHANGED turn /\ Goto(w, "closing")
      <3>1. /\ \A v \in Windows : v # w => pc'[v] = pc[v] /\ turn'[v] = turn[v]
            /\ pc'[w] = "closing" /\ turn'[w].conv = None
        BY <1>A, <2>1, <2>3 DEF TypeOK
      <3> QED
        BY <2>1, <3>1, NothingWritten DEF SaveStates, Working
    <2>4. ASSUME rec = view[w].rec, rec.status = "completed", NEW new, new = [rec EXCEPT !.reviews = @ + 1],
                 turn' = [turn EXCEPT ![w] = [NoTurn EXCEPT !.run = r, !.expected = rec,
                                                !.after = "closing", !.rec = new]],
                 Goto(w, "write")
          PROVE  FileInv'
      <3>1. Follows(rec, new)
        BY <2>1, <2>4, ReviewProgress
      <3>2. promised[r] # Absent
        BY <1>B, <1>C, <2>1, <2>2, <2>4 DEF Evidence
      <3>3. /\ turn'[w].run = r /\ turn'[w].expected = rec /\ turn'[w].rec = new
            /\ turn'[w].after = "closing" /\ turn'[w].conv = None /\ pc'[w] = "write"
            /\ \A v \in Windows : v # w => pc'[v] = pc[v] /\ turn'[v] = turn[v]
        BY <1>A, <2>4 DEF NoTurn, TypeOK
      <3>4. Copy(w)'
        BY <2>1, <2>2, <3>1, <3>2, <3>3 DEF Copy, OwnsRecord, files, Working
      <3>5. Phases(w)'
        BY <3>3 DEF Phases, Phase, Working
      <3> QED
        BY <2>1, <3>3, <3>4, <3>5, FilesUntouched
    <2> QED
      BY <1>11, <2>1, <2>2, <2>3, <2>4 DEF Review, SameFingerprint
  <1>12. ASSUME PowerLoss
         PROVE  FileInv'
    <2>1. PICK content \in [Runs -> UNION {media[r] : r \in Runs}] :
            /\ \A r \in Runs : content[r] \in media[r]
            /\ disk' = content
            /\ media' = [r \in Runs |-> {content[r]}]
      BY <1>12 DEF PowerLoss
    <2>2. ASSUME NEW w \in Windows PROVE Copy(w)' /\ Phases(w)'
      <3>1. pc'[w] = "idle" /\ turn'[w].conv = None
        BY <1>12 DEF PowerLoss, NoTurn
      <3> QED
        BY <3>1 DEF Copy, Phases, OwnsRecord, SaveStates, Working
    <2>3. ASSUME NEW r \in Runs PROVE Evidence(r)'
      <3>1. /\ disk'[r] \in media[r] /\ media'[r] = {disk'[r]}
            /\ promised'[r] = promised[r] /\ calls'[r] = calls[r]
        BY <1>12, <2>1 DEF PowerLoss
      <3> QED
        BY <1>C, <3>1 DEF Evidence
    <2> QED
      BY <2>2, <2>3 DEF FileInv
  <1>13. CASE UNCHANGED vars
    BY <1>13 DEF vars, files, FileInv, Copy, Phases, Phase, Evidence, OwnsRecord, Parent
  <1>14. ASSUME NEW w \in Windows, ReplaceRecord(w) \/ SyncDirectory(w)
         PROVE  FileInv'
    BY <1>8, <1>9, <1>10, <1>14 DEF ReplaceRecord, SyncDirectory, files
  <1>15. ASSUME NEW w \in Windows, StartReview(w) \/ \E r \in Runs : OpenPage(w, r)
         PROVE  FileInv'
    <2>1. "idle" \in Places /\ "review" \in Places
      BY DEF Places
    <2>2. StartReview(w) => view[w].run \in Runs
      BY <1>A DEF StartReview, TypeOK, View
    <2> QED
      BY <1>3, <1>15, <2>1, <2>2 DEF StartReview, OpenPage
  <1> QED
    BY <1>1, <1>2, <1>4, <1>5, <1>6, <1>7, <1>11, <1>12, <1>13, <1>14, <1>15
       DEF Next, WindowStep, Request, Outcome

(* The files keep up with every window's copy.                              *)
THEOREM FilesHold == Spec => []FileInv
  BY InitFiles, NextFiles, TypesHold, LocksHold, PTL DEF Spec

(* No run reaches the turn handler twice, for any number of windows, runs,  *)
(* failures and power losses (WorkSession.__enter__ and dispatch).          *)
THEOREM RunsAreCalledOnce == Spec => []AtMostOneCall
  <1>1. FileInv => AtMostOneCall
    BY DEF FileInv, Evidence, AtMostOneCall
  <1> QED
    BY <1>1, FilesHold, PTL

(* When the handler is called, the dispatch is on stable storage            *)
(* (NativeBackend.process saves the dispatch before the call).              *)
THEOREM DispatchIsDurable == Spec => []EvidenceBeforeCall
  <1>1. FileInv => EvidenceBeforeCall
    BY DEF FileInv, Evidence, EvidenceBeforeCall, Follows
  <1> QED
    BY <1>1, FilesHold, PTL

(* What a save has promised survives every later step (WorkSession._save).  *)
THEOREM SavesAreKept == Spec => []SavedIsDurable
  <1>1. FileInv => SavedIsDurable
    BY DEF FileInv, Evidence, SavedIsDurable
  <1> QED
    BY <1>1, FilesHold, PTL

(* The locks alone keep a writer's copy equal to the file                   *)
(* (WorkSession._claim and record_review).                                  *)
THEOREM WritersAreFresh == Spec => []WriterIsFresh
  <1>1. FileInv => WriterIsFresh
    BY DEF FileInv, Copy, WriterIsFresh
  <1> QED
    BY <1>1, FilesHold, PTL

-----------------------------------------------------------------------------
(* Records that continue each other. *)

(* A step that touches no file, starts no claim and opens no new record.    *)
LEMMA LineageUntouched ==
  ASSUME LineageInv, UNCHANGED files,
         \A v \in Windows : OwnsRecord(v)' => OwnsRecord(v) /\ turn'[v].run = turn[v].run,
         \A v \in Windows : Claiming(v)' =>
            /\ Claiming(v) /\ turn'[v].from = turn[v].from /\ turn'[v].conv = turn[v].conv
            /\ turn'[v].run = turn[v].run /\ (pc[v] = "sync" => pc'[v] = "sync")
  PROVE  LineageInv'
  <1>1. disk' = disk /\ media' = media /\ promised' = promised
    BY DEF files
  <1>2. ASSUME NEW v \in Windows, Claiming(v)' PROVE Claim(v)'
    BY <1>1, <1>2 DEF LineageInv, Claim
  <1>3. ParentKept' /\ OneContinuation'
    BY <1>1 DEF LineageInv, ParentKept, OneContinuation
  <1>4. ContinuedIsSettled'
    BY <1>1 DEF LineageInv, ContinuedIsSettled, OwnsRecord
  <1> QED
    BY <1>2, <1>3, <1>4 DEF LineageInv

LEMMA InitLineage == Init => LineageInv
  BY ConstantsAssumption DEF Init, LineageInv, Claiming, ParentKept, OneContinuation, ContinuedIsSettled, NoTurn

(* Who claims a parent holds its conversation and keeps reviews out.        *)
LEMMA ClaimLocks ==
  ASSUME TypeInv, LockInv, NEW v \in Windows, Claiming(v)
  PROVE  /\ turn[v].conv \in Conversations /\ convLock[turn[v].conv] = v
         /\ v \in barrierShared /\ barrierOwner = None
         /\ turn[v].from \in View /\ turn[v].from.run \in Runs /\ turn[v].from.rec \in Record
         /\ turn[v].run \in Runs /\ turn[v].conv # None
         /\ Parent(v) = turn[v].from.run
         /\ pc[v] \in SaveStates => OwnsRecord(v)
  <1>1. /\ Shape(v) /\ Locks(v) /\ turn[v] \in Turn /\ None \notin Conversations
        /\ Absent \notin Record /\ (barrierOwner # None => barrierShared = {})
    BY ConstantsAssumption DEF TypeInv, TypeOK, LockInv
  <1>2. /\ turn[v].from \in View /\ turn[v].conv \in Conversations \cup {None}
        /\ Parent(v) = turn[v].from.run
    BY <1>1 DEF Turn, Claiming, Parent
  <1>3. turn[v].from.run \in Runs /\ turn[v].from.rec \in Record
    BY <1>2 DEF View
  <1>4. pc[v] \in SaveStates => OwnsRecord(v)
    BY <1>1 DEF Claiming, OwnsRecord, Shape, SaveStates
  <1>5. turn[v].run \in Runs /\ turn[v].conv # None
    BY <1>1, <1>4 DEF Claiming, OwnsRecord, Shape, TurnStates
  <1> QED
    BY <1>1, <1>2, <1>3, <1>4, <1>5 DEF Claiming, Locks, TurnStates

(* A record that somebody owns, or is saving, is not a claimed parent.      *)
LEMMA ParentIsQuiet ==
  ASSUME TypeInv, LockInv, LineageInv, NEW v \in Windows, Claiming(v),
         NEW w \in Windows, pc[w] \in SaveStates
  PROVE  turn[w].run # turn[v].from.run
  <1>1. CASE OwnsRecord(w)
    BY <1>1 DEF LineageInv, Claim
  <1>2. CASE ~ OwnsRecord(w)
    <2>1. barrierOwner = w /\ w # None
      BY <1>2, ConstantsAssumption DEF TypeInv, Shape, LockInv, Locks, OwnsRecord
    <2> QED
      BY <2>1, ClaimLocks
  <1> QED
    BY <1>1, <1>2

LEMMA NextLineage == TypeInv /\ LockInv /\ FileInv /\ LineageInv /\ [Next]_vars => LineageInv'
  <1> SUFFICES ASSUME TypeInv, LockInv, FileInv, LineageInv, [Next]_vars PROVE LineageInv'
    OBVIOUS
  <1>A. TypeOK /\ \A w \in Windows : Shape(w)
    BY DEF TypeInv
  <1>B. Absent \notin Record /\ None \notin Windows /\ None \notin Runs /\ None \notin Conversations
    BY ConstantsAssumption
  <1>C. /\ \A w \in Windows : Copy(w) /\ Phases(w)
        /\ \A r \in Runs : Evidence(r)
    BY DEF FileInv
  <1>D. /\ \A w \in Windows : Claiming(w) => Claim(w)
        /\ ParentKept /\ OneContinuation /\ ContinuedIsSettled
    BY DEF LineageInv
  <1> USE DEF Goto
  <1>Q. ASSUME NEW w \in Windows, UNCHANGED files,
               \A v \in Windows : v # w => pc'[v] = pc[v] /\ turn'[v] = turn[v],
               OwnsRecord(w)' => OwnsRecord(w) /\ turn'[w].run = turn[w].run,
               ~ Claiming(w)'
        PROVE  LineageInv'
    <2>1. \A v \in Windows : OwnsRecord(v)' => OwnsRecord(v) /\ turn'[v].run = turn[v].run
      BY <1>Q DEF OwnsRecord
    <2>2. \A v \in Windows : Claiming(v)' =>
            /\ Claiming(v) /\ turn'[v].from = turn[v].from /\ turn'[v].conv = turn[v].conv
            /\ turn'[v].run = turn[v].run /\ (pc[v] = "sync" => pc'[v] = "sync")
      BY <1>Q DEF Claiming
    <2> QED
      BY <1>Q, <2>1, <2>2, LineageUntouched
  <1>1. ASSUME NEW w \in Windows,
               \/ \E r \in Runs, c \in Conversations, from \in {None, view[w]} : Begin(w, r, c, from)
               \/ Close(w) \/ ProbeBarrier(w) \/ FinishRead(w) \/ LockReview(w) \/ Crash(w)
               \/ \E r \in Runs : ProbeRun(w, r)
        PROVE  LineageInv'
    <2>1. /\ UNCHANGED files
          /\ \A v \in Windows : v # w => pc'[v] = pc[v] /\ turn'[v] = turn[v]
      BY <1>A, <1>1 DEF Begin, Close, ProbeBarrier, FinishRead, LockReview, Crash, ProbeRun, TypeOK
    <2>2. /\ pc'[w] \in {"opened", "closing", "idle", "probe", "review", "reviewing"}
          /\ turn'[w].conv = None \/ turn'[w].rec = Absent
      <3>1. CASE Close(w) \/ Crash(w) \/ FinishRead(w)
        BY <1>A, <3>1 DEF Close, Crash, FinishRead, NoTurn, TypeOK, Shape, ReadStates
      <3>2. CASE ProbeBarrier(w)
        BY <1>A, <3>2 DEF ProbeBarrier, NoTurn, TypeOK, Shape, ReadStates
      <3>3. CASE \E r \in Runs : ProbeRun(w, r)
        BY <1>A, <3>3 DEF ProbeRun, TypeOK, Shape, ReadStates
      <3>4. CASE LockReview(w)
        BY <1>A, <3>4 DEF LockReview, TypeOK, Shape
      <3>5. CASE \E r \in Runs, c \in Conversations, from \in {None, view[w]} : Begin(w, r, c, from)
        BY <1>A, <3>5 DEF Begin, NoTurn, TypeOK
      <3> QED
        BY <1>1, <3>1, <3>2, <3>3, <3>4, <3>5
    <2>3. ~ OwnsRecord(w)' /\ ~ Claiming(w)'
      BY <2>2 DEF OwnsRecord, Claiming, SaveStates
    <2> QED
      BY <1>Q, <2>1, <2>3
  <1>2. ASSUME NEW w \in Windows, NEW r \in Runs, NEW after \in Places,
               pc[w] = "idle", Read(w, r, after)
        PROVE  LineageInv'
    <2>1. turn[w] \in Turn /\ turn[w].conv = None
      BY <1>A, <1>2 DEF TypeOK, Shape
    <2>2. /\ UNCHANGED files /\ pc'[w] = "barrier" /\ turn'[w].conv = None
          /\ \A v \in Windows : v # w => pc'[v] = pc[v] /\ turn'[v] = turn[v]
      BY <1>A, <1>2, <2>1 DEF Read, TypeOK, Turn
    <2> QED
      BY <1>Q, <2>2 DEF OwnsRecord, Claiming, SaveStates
  <1>3. ASSUME NEW w \in Windows, ClaimConversation(w), pc'[w] = "naming", turn[w].from # None
        PROVE  LineageInv'
    <2> DEFINE p == turn[w].from.run
    <2>1. /\ pc[w] = "opened" /\ turn[w].conv \in Conversations /\ turn[w].rec = Absent
          /\ UNCHANGED <<turn, files>> /\ ConversationFree(turn[w].conv) /\ MayContinue(w)
          /\ \A v \in Windows : v # w => pc'[v] = pc[v]
          /\ p \in Runs /\ Parent(w) = p
      BY <1>A, <1>3 DEF ClaimConversation, Shape, TurnStates, TypeOK, Turn, View, Parent
    <2>2. disk' = disk /\ promised' = promised /\ media' = media
      BY <2>1 DEF files
    <2>3. /\ disk[p] # Absent /\ disk[p].conv = turn[w].conv /\ disk[p] = turn[w].from.rec
          /\ \A r \in Runs : disk[r] # Absent => disk[r].parent # p
      BY <1>B, <2>1 DEF MayContinue
    <2>4. ASSUME NEW v \in Windows, turn[v].run = p PROVE ~ OwnsRecord(v)
      <3>1. SUFFICES ASSUME OwnsRecord(v) PROVE FALSE
        OBVIOUS
      <3>2. convLock[turn[v].conv] = v /\ disk[p].conv = turn[v].conv
        BY <1>C, <2>3, <2>4, <3>1 DEF LockInv, Locks, Copy
      <3> QED
        BY <1>B, <2>1, <2>3, <3>2 DEF ConversationFree
    <2>5. ASSUME NEW v \in Windows, Claiming(v)' PROVE Claim(v)'
      <3>1. CASE v = w
        BY <2>1, <2>2, <2>3, <2>4, <3>1 DEF Claim, OwnsRecord
      <3>2. CASE v # w
        <4>1. pc'[v] = pc[v] /\ turn' = turn
          BY <2>1, <3>2
        <4>2. Claiming(v)
          BY <2>5, <4>1 DEF Claiming
        <4> QED
          BY <1>D, <2>2, <4>1, <4>2 DEF Claim, OwnsRecord
      <3> QED
        BY <3>1, <3>2
    <2> QED
      BY <1>D, <2>1, <2>2, <2>5 DEF LineageInv, ParentKept, OneContinuation, ContinuedIsSettled
  <1>4. ASSUME NEW w \in Windows, ClaimConversation(w), pc'[w] # "naming" \/ turn[w].from = None
        PROVE  LineageInv'
    <2>1. /\ UNCHANGED files /\ turn' = turn
          /\ \A v \in Windows : v # w => pc'[v] = pc[v] /\ turn'[v] = turn[v]
          /\ pc'[w] \in {"naming", "closing"}
      BY <1>A, <1>4 DEF ClaimConversation, TypeOK
    <2> QED
      BY <1>Q, <1>4, <2>1 DEF OwnsRecord, Claiming, SaveStates
  <1>5. ASSUME NEW w \in Windows, OpenRunLock(w)
        PROVE  LineageInv'
    <2>1. /\ UNCHANGED files /\ turn' = turn /\ pc[w] = "naming" /\ pc'[w] = "owning"
          /\ \A v \in Windows : v # w => pc'[v] = pc[v]
      BY <1>A, <1>5 DEF OpenRunLock, TypeOK
    <2>2. \A v \in Windows : OwnsRecord(v)' => OwnsRecord(v) /\ turn'[v].run = turn[v].run
      BY <2>1 DEF OwnsRecord
    <2>3. \A v \in Windows : Claiming(v)' =>
            /\ Claiming(v) /\ turn'[v].from = turn[v].from /\ turn'[v].conv = turn[v].conv
            /\ turn'[v].run = turn[v].run /\ (pc[v] = "sync" => pc'[v] = "sync")
      BY <2>1 DEF Claiming, SaveStates
    <2> QED
      BY <2>1, <2>2, <2>3, LineageUntouched
  <1>6. ASSUME NEW w \in Windows, ClaimRun(w)
        PROVE  LineageInv'
    <2> DEFINE rec == [status |-> "prepared", sent |-> FALSE, conv |-> turn[w].conv,
                       parent |-> Parent(w), log |-> 0, reviews |-> 0]
    <2>1. /\ turn[w].run \in Runs /\ turn[w].conv \in Conversations /\ pc[w] = "owning"
          /\ turn[w].rec = Absent /\ turn[w].expected = Absent
          /\ UNCHANGED files /\ \A v \in Windows : v # w => pc'[v] = pc[v]
      BY <1>A, <1>6 DEF ClaimRun, Save, Shape, TurnStates, TypeOK
    <2>2. CASE Goto(w, "closing") /\ UNCHANGED turn
      <3>1. pc'[w] = "closing"
        BY <1>A, <2>2 DEF TypeOK
      <3> QED
        BY <1>Q, <2>1, <2>2, <3>1 DEF OwnsRecord, Claiming, SaveStates
    <2>3. CASE Save(w, rec, "prepared") /\ disk[turn[w].run] = Absent
      <3>1. rec \in Record /\ "prepared" \in Places
        BY <1>A, <2>1, FirstRecord DEF Parent, TypeOK, Turn, View, Places, TurnStates
      <3> HIDE DEF rec
      <3>2. /\ pc' = [pc EXCEPT ![w] = "write"]
            /\ \A v \in Windows : v # w => turn'[v] = turn[v]
            /\ turn'[w].rec = rec /\ turn'[w].expected = Absent
            /\ turn'[w].run = turn[w].run /\ turn'[w].conv = turn[w].conv
            /\ turn'[w].from = turn[w].from
        BY <1>A, <2>1, <2>3, <3>1, SaveTurn
      <3>3. disk' = disk /\ promised' = promised /\ media' = media
        BY <2>1 DEF files
      <3>4. ASSUME NEW v \in Windows, Claiming(v)' PROVE Claim(v)'
        <4>1. /\ Claiming(v) /\ turn'[v].from = turn[v].from /\ turn'[v].conv = turn[v].conv
              /\ turn'[v].run = turn[v].run /\ (pc[v] = "sync" => pc'[v] = "sync")
          BY <2>1, <3>2, <3>4 DEF Claiming
        <4>2. Claim(v) /\ turn[v].from.rec \in Record
          BY <1>D, <4>1, ClaimLocks
        <4>3. turn[w].run # turn[v].from.run
          BY <1>B, <2>3, <4>2 DEF Claim
        <4>4. \A u \in Windows : turn'[u].run = turn[v].from.run => ~ OwnsRecord(u)'
          BY <3>2, <4>2, <4>3 DEF Claim, OwnsRecord
        <4> QED
          BY <3>3, <4>1, <4>2, <4>4 DEF Claim
      <3>5. ContinuedIsSettled'
        <4>1. ASSUME NEW r \in Runs, promised[r] # Absent, promised[r].parent # None
              PROVE  turn[w].run # promised[r].parent
          <5>1. promised[r].parent \in Runs
            BY <1>A, <4>1 DEF TypeOK, Record
          <5> QED
            BY <1>C, <1>D, <2>3, <4>1, <5>1 DEF ParentKept, Evidence
        <4> QED
          BY <1>D, <3>2, <3>3, <4>1 DEF ContinuedIsSettled
      <3> QED
        BY <1>D, <3>3, <3>4, <3>5 DEF LineageInv, ParentKept, OneContinuation
    <2> QED
      BY <1>6, <2>2, <2>3 DEF ClaimRun
  <1>7. ASSUME NEW w \in Windows, NEW rec \in Record, NEW after \in Places,
               pc[w] \in Working, UNCHANGED files,
               \/ Save(w, rec, after)
               \/ turn' = [turn EXCEPT ![w].rec = rec] /\ UNCHANGED pc
        PROVE  LineageInv'
    <2>1. turn[w] \in Turn /\ OwnsRecord(w) /\ turn[w].expected # Absent
      BY <1>A, <1>B, <1>7 DEF TypeOK, Shape, OwnsRecord, Working, TurnStates
    <2>2. /\ turn'[w].run = turn[w].run /\ turn'[w].expected = turn[w].expected
          /\ \A v \in Windows : v # w => pc'[v] = pc[v] /\ turn'[v] = turn[v]
          /\ pc'[w] \in {"write"} \cup Working
      <3>1. CASE Save(w, rec, after)
        BY <1>A, <1>7, <3>1, SaveTurn DEF TypeOK
      <3>2. CASE turn' = [turn EXCEPT ![w].rec = rec] /\ UNCHANGED pc
        BY <1>A, <1>7, <2>1, <3>2 DEF TypeOK, Turn
      <3> QED
        BY <1>7, <3>1, <3>2
    <2> QED
      BY <1>Q, <1>7, <2>1, <2>2 DEF Claiming, Working
  <1>8. ASSUME NEW w \in Windows, CallHandler(w)
        PROVE  LineageInv'
    <2>1. /\ UNCHANGED files /\ turn' = turn /\ pc'[w] = "running"
          /\ \A v \in Windows : v # w => pc'[v] = pc[v]
      BY <1>A, <1>8 DEF CallHandler, TypeOK
    <2> QED
      BY <1>Q, <2>1 DEF OwnsRecord, Claiming, SaveStates
  <1>9. ASSUME NEW w \in Windows, FailSave(w), UNCHANGED files
        PROVE  LineageInv'
    <2>1. /\ turn'[w].run = turn[w].run /\ turn'[w].rec = turn[w].rec /\ turn'[w].conv = turn[w].conv
          /\ pc'[w] = "closing"
          /\ \A v \in Windows : v # w => pc'[v] = pc[v] /\ turn'[v] = turn[v]
      BY <1>A, <1>9, FailSaveTurn DEF TypeOK
    <2> QED
      BY <1>Q, <1>9, <2>1 DEF OwnsRecord, Claiming, SaveStates
  <1>10. ASSUME NEW w \in Windows, ReplaceRecord(w), Goto(w, "sync"), UNCHANGED turn,
                disk[turn[w].run] = turn[w].expected,
                disk' = [disk EXCEPT ![turn[w].run] = turn[w].rec],
                media' = [media EXCEPT ![turn[w].run] = @ \cup {turn[w].rec}]
         PROVE  LineageInv'
    <2>1. /\ turn[w].run \in Runs /\ turn[w].rec \in Record /\ pc[w] = "write" /\ pc[w] \in SaveStates
          /\ Copy(w) /\ Shape(w) /\ Writes(w) /\ turn[w].expected \in Record \cup {Absent}
      BY <1>A, <1>C, <1>10 DEF ReplaceRecord, Shape, SaveStates, Writes, TypeOK, Turn
    <2>2. PICK r \in Runs, rec \in Record, old \in Record \cup {Absent} :
            r = turn[w].run /\ rec = turn[w].rec /\ old = turn[w].expected
      BY <2>1
    <2>3. /\ disk[r] = old /\ disk'[r] = rec /\ rec # Absent /\ media'[r] = media[r] \cup {rec}
          /\ \A x \in Runs : x # r => disk'[x] = disk[x] /\ media'[x] = media[x]
          /\ pc'[w] = "sync" /\ turn' = turn /\ promised' = promised
          /\ \A v \in Windows : v # w => pc'[v] = pc[v]
      BY <1>A, <1>B, <1>10, <2>2 DEF ReplaceRecord, TypeOK
    <2>4. old # Absent => old.parent = rec.parent
      BY <2>1, <2>2 DEF Copy, Follows
    <2>5. old = Absent => OwnsRecord(w) /\ rec.parent = Parent(w)
      BY <1>B, <2>1, <2>2 DEF Shape, Copy, OwnsRecord, SaveStates
    <2>6. old = Absent /\ rec.parent # None => Claiming(w) /\ rec.parent = turn[w].from.run
      BY <2>1, <2>2, <2>5 DEF Parent, Claiming
    <2>7. ASSUME NEW v \in Windows, Claiming(v)' PROVE Claim(v)'
      <3>1. /\ Claiming(v)
            /\ turn[v].from.run \in Runs /\ turn[v].run \in Runs
            /\ turn[v].conv \in Conversations /\ convLock[turn[v].conv] = v
            /\ turn[v].from.run # None
        <4>1. Claiming(v)
          BY <2>1, <2>3, <2>7 DEF Claiming, SaveStates
        <4> QED
          BY <1>B, <4>1, ClaimLocks
      <3>2. Claim(v) /\ r # turn[v].from.run
        BY <1>D, <2>1, <2>2, <3>1, ParentIsQuiet
      <3>3. ASSUME NEW x \in Runs, disk'[x] # Absent, disk'[x].parent = turn[v].from.run
            PROVE  pc'[v] = "sync" /\ x = turn[v].run
        <4>1. CASE x # r
          <5>1. pc[v] = "sync" /\ x = turn[v].run
            BY <2>3, <3>2, <3>3, <4>1 DEF Claim
          <5> QED
            BY <2>3, <5>1
        <4>2. CASE x = r /\ v = w
          BY <2>2, <2>3, <4>2
        <4>3. CASE x = r /\ v # w /\ old # Absent
          <5>1. pc[v] = "sync" /\ r = turn[v].run
            BY <2>3, <2>4, <3>2, <3>3, <4>3 DEF Claim
          <5>2. Writes(v)
            BY <5>1 DEF Writes, SaveStates
          <5> QED
            BY <2>1, <2>2, <4>3, <5>1, <5>2, OneWriter
        <4>4. CASE x = r /\ v # w /\ old = Absent
          <5>1. Claiming(w) /\ turn[w].from.run = turn[v].from.run
            BY <2>3, <2>6, <3>1, <3>3, <4>4
          <5>2. turn[w].conv = turn[v].conv
            BY <1>D, <3>2, <5>1 DEF Claim
          <5>3. convLock[turn[w].conv] = w
            BY <5>1, ClaimLocks
          <5> QED
            BY <3>1, <4>4, <5>2, <5>3
        <4> QED
          BY <4>1, <4>2, <4>3, <4>4
      <3>4. \A u \in Windows : turn'[u].run = turn[v].from.run => ~ OwnsRecord(u)'
        BY <2>3, <3>2 DEF Claim, OwnsRecord
      <3> QED
        BY <2>3, <3>1, <3>2, <3>3, <3>4 DEF Claim
    <2>8. ParentKept'
      <3>1. \A x \in Runs : promised[x] # Absent /\ promised[x].parent # None => promised[x].parent \in Runs
        BY <1>A DEF TypeOK, Record
      <3> QED
        BY <1>D, <2>3, <3>1 DEF ParentKept
    <2>9. OneContinuation'
      <3>1. ASSUME NEW x \in Runs, x # r, disk[x] # Absent, disk[x].parent = rec.parent,
                   rec.parent # None
            PROVE  FALSE
        <4>1. CASE old # Absent
          BY <1>D, <2>3, <2>4, <3>1, <4>1 DEF OneContinuation
        <4>2. CASE old = Absent
          <5>1. Claim(w) /\ disk[x].parent = turn[w].from.run
            BY <1>D, <2>6, <3>1, <4>2
          <5> QED
            BY <2>1, <3>1, <5>1 DEF Claim
        <4> QED
          BY <4>1, <4>2
      <3> QED
        BY <1>D, <2>3, <3>1 DEF OneContinuation
    <2>10. ContinuedIsSettled'
      BY <1>D, <2>3 DEF ContinuedIsSettled
    <2> QED
      BY <2>7, <2>8, <2>9, <2>10 DEF LineageInv
  <1>11. ASSUME NEW w \in Windows, SyncDirectory(w), Goto(w, turn[w].after), media' = Settled,
                promised' = [promised EXCEPT ![turn[w].run] = turn[w].rec],
                turn' = [turn EXCEPT ![w].expected = turn[w].rec]
         PROVE  LineageInv'
    <2>1. /\ turn[w].run \in Runs /\ turn[w].rec \in Record /\ turn[w] \in Turn
          /\ pc[w] = "sync" /\ pc[w] \in SaveStates /\ Copy(w) /\ Shape(w)
          /\ turn[w].expected \in Record \cup {Absent}
      BY <1>A, <1>C, <1>11 DEF SyncDirectory, Shape, SaveStates, TypeOK, Turn
    <2>2. PICK r \in Runs, rec \in Record, old \in Record \cup {Absent} :
            r = turn[w].run /\ rec = turn[w].rec /\ old = turn[w].expected
      BY <2>1
    <2>3. /\ turn'[w].expected = rec /\ turn'[w].rec = rec /\ turn'[w].run = r
          /\ turn'[w].conv = turn[w].conv /\ turn'[w].from = turn[w].from
          /\ \A v \in Windows : v # w => pc'[v] = pc[v] /\ turn'[v] = turn[v]
          /\ pc'[w] \in Working \cup {"closing"}
      <3>1. turn' = [turn EXCEPT ![w] = [turn[w] EXCEPT !.expected = rec]]
        BY <1>11, <2>2
      <3>2. turn'[w] = [turn[w] EXCEPT !.expected = rec]
            /\ \A v \in Windows : v # w => turn'[v] = turn[v]
        BY <1>A, <3>1 DEF TypeOK
      <3>3. /\ pc'[w] \in Working \cup {"closing"}
            /\ \A v \in Windows : v # w => pc'[v] = pc[v]
        BY <1>A, <1>11, <2>1 DEF TypeOK, Shape
      <3> QED
        BY <2>1, <2>2, <3>2, <3>3 DEF Turn
    <2>4. /\ disk' = disk /\ disk[r] = rec /\ rec # Absent /\ promised'[r] = rec
          /\ \A x \in Runs : x # r => promised'[x] = promised[x]
          /\ \A x \in Runs : media'[x] = {disk[x]}
      BY <1>A, <1>B, <1>11, <2>1, <2>2 DEF SyncDirectory, Settled, Copy, TypeOK
    <2>5. \A u \in Windows : OwnsRecord(u)' <=> OwnsRecord(u)
      BY <1>B, <2>2, <2>3 DEF OwnsRecord
    <2>6. \A u \in Windows : turn'[u].run = turn[u].run
      BY <2>2, <2>3
    <2>7. ASSUME NEW v \in Windows, Claiming(v)' PROVE Claim(v)'
      <3>1. v # w
        BY <2>3, <2>7 DEF Claiming, Working, SaveStates
      <3>2. Claiming(v) /\ pc'[v] = pc[v] /\ turn'[v] = turn[v]
        BY <2>3, <2>7, <3>1 DEF Claiming
      <3> QED
        BY <1>D, <2>4, <2>5, <2>6, <3>2 DEF Claim
    <2>8. ASSUME rec.parent # None
          PROVE  /\ rec.parent \in Runs /\ disk[rec.parent] # Absent
                 /\ \A v \in Windows : turn[v].run = rec.parent => ~ OwnsRecord(v)
      <3>1. rec.parent \in Runs
        BY <2>2, <2>8 DEF Record
      <3>2. CASE old = Absent
        <4>1. OwnsRecord(w) /\ rec.parent = Parent(w)
          BY <1>B, <2>1, <2>2, <3>2 DEF Shape, Copy, OwnsRecord, SaveStates
        <4>2. Claiming(w) /\ rec.parent = turn[w].from.run
          BY <2>1, <2>2, <2>8, <3>2, <4>1 DEF Parent, Claiming
        <4>3. Claim(w) /\ turn[w].from.rec \in Record
          BY <1>D, <4>2, ClaimLocks
        <4> QED
          BY <1>B, <3>1, <4>2, <4>3 DEF Claim
      <3>3. CASE old # Absent
        <4>1. promised[r] # Absent
          BY <2>1, <2>2, <3>3 DEF Copy
        <4>2. promised[r].parent = rec.parent
          BY <1>C, <2>4, <4>1 DEF Evidence, Follows
        <4>3. disk[rec.parent] # Absent
          BY <1>C, <1>D, <2>8, <3>1, <4>1, <4>2 DEF ParentKept, Evidence
        <4>4. \A v \in Windows : turn[v].run = rec.parent => ~ OwnsRecord(v)
          BY <1>D, <2>8, <4>1, <4>2 DEF ContinuedIsSettled, OwnsRecord
        <4> QED
          BY <3>1, <4>3, <4>4
      <3> QED
        BY <3>2, <3>3
    <2>9. ParentKept'
      <3>1. ASSUME NEW x \in Runs, promised'[x] # Absent, promised'[x].parent # None
            PROVE  \A v \in media'[promised'[x].parent] : v # Absent
        <4>1. CASE x = r
          BY <2>4, <2>8, <3>1, <4>1
        <4>2. CASE x # r
          <5>1. promised'[x] = promised[x] /\ promised[x].parent \in Runs
            BY <1>A, <2>4, <3>1, <4>2 DEF TypeOK, Record
          <5>2. disk[promised[x].parent] # Absent
            BY <1>C, <1>D, <3>1, <5>1 DEF ParentKept, Evidence
          <5> QED
            BY <2>4, <5>1, <5>2
        <4> QED
          BY <4>1, <4>2
      <3> QED
        BY <3>1 DEF ParentKept
    <2>10. ContinuedIsSettled'
      <3>1. ASSUME NEW x \in Runs, promised'[x] # Absent, promised'[x].parent # None,
                   NEW v \in Windows, turn'[v].run = promised'[x].parent
            PROVE  ~ OwnsRecord(v)'
        <4>1. CASE x = r
          BY <2>4, <2>5, <2>6, <2>8, <3>1, <4>1
        <4>2. CASE x # r
          BY <1>D, <2>4, <2>5, <2>6, <3>1, <4>2 DEF ContinuedIsSettled, OwnsRecord
        <4> QED
          BY <4>1, <4>2
      <3> QED
        BY <3>1 DEF ContinuedIsSettled, OwnsRecord
    <2> QED
      BY <1>D, <2>4, <2>7, <2>9, <2>10 DEF LineageInv, OneContinuation
  <1>12. ASSUME NEW w \in Windows, Review(w)
         PROVE  LineageInv'
    <2>1. /\ pc[w] = "reviewing" /\ turn[w].conv = None /\ UNCHANGED files
      BY <1>A, <1>12 DEF Review, Shape
    <2>2. /\ \A v \in Windows : v # w => pc'[v] = pc[v] /\ turn'[v] = turn[v]
          /\ turn'[w].conv = None /\ (turn'[w].from = None \/ pc'[w] = "closing")
      <3>1. CASE UNCHANGED turn /\ Goto(w, "closing")
        BY <1>A, <2>1, <3>1 DEF TypeOK
      <3>2. ASSUME NEW rec, NEW old, NEW r,
                   turn' = [turn EXCEPT ![w] = [NoTurn EXCEPT !.run = r, !.expected = old,
                                                  !.after = "closing", !.rec = rec]],
                   Goto(w, "write")
            PROVE  /\ \A v \in Windows : v # w => pc'[v] = pc[v] /\ turn'[v] = turn[v]
                   /\ turn'[w].conv = None /\ turn'[w].from = None
        BY <1>A, <3>2 DEF TypeOK, NoTurn
      <3> QED
        BY <1>12, <3>1, <3>2 DEF Review
    <2> QED
      BY <1>Q, <2>1, <2>2 DEF OwnsRecord, Claiming, SaveStates
  <1>13. ASSUME PowerLoss
         PROVE  LineageInv'
    <2>1. PICK content \in [Runs -> UNION {media[r] : r \in Runs}] :
            /\ \A r \in Runs : content[r] \in media[r]
            /\ disk' = content
            /\ media' = [r \in Runs |-> {content[r]}]
      BY <1>13 DEF PowerLoss
    <2>2. /\ \A r \in Runs : disk'[r] \in media[r] /\ media'[r] = {disk'[r]}
          /\ promised' = promised
          /\ \A w \in Windows : pc'[w] = "idle" /\ turn'[w] = NoTurn
      BY <1>13, <2>1 DEF PowerLoss
    <2>3. \A w \in Windows : ~ Claiming(w)' /\ ~ OwnsRecord(w)'
      BY <2>2 DEF Claiming, OwnsRecord, NoTurn, SaveStates
    <2>4. ParentKept'
      <3>1. \A x \in Runs : promised[x] # Absent /\ promised[x].parent # None => promised[x].parent \in Runs
        BY <1>A DEF TypeOK, Record
      <3> QED
        BY <1>D, <2>2, <3>1 DEF ParentKept
    <2>5. OneContinuation'
      <3>1. \A r \in Runs : disk'[r] # Absent => disk[r] # Absent /\ disk[r].parent = disk'[r].parent
        BY <1>C, <2>2 DEF Evidence
      <3> QED
        BY <1>D, <3>1 DEF OneContinuation
    <2> QED
      BY <2>3, <2>4, <2>5 DEF LineageInv, ContinuedIsSettled, OwnsRecord
  <1>14. CASE UNCHANGED vars
    BY <1>14 DEF vars, files, LineageInv, Claiming, Claim, OwnsRecord, ParentKept, OneContinuation,
                 ContinuedIsSettled
  <1>15. ASSUME NEW w \in Windows, Dispatch(w) \/ Observe(w) \/ Complete(w) \/ Fail(w)
         PROVE  LineageInv'
    <2>1. pc[w] \in Working /\ turn[w].rec \in Record /\ "closing" \in Places /\ Working \subseteq Places
          /\ UNCHANGED files
      BY <1>A, <1>15 DEF Dispatch, Observe, Complete, Fail, Shape, Working, Places, TurnStates
    <2> QED
      BY <1>7, <1>15, <2>1, RecordUpdates
         DEF Dispatch, Observe, Complete, Fail, AfterAnswer, Working
  <1>16. ASSUME NEW w \in Windows, ReplaceRecord(w) \/ SyncDirectory(w)
         PROVE  LineageInv'
    BY <1>9, <1>10, <1>11, <1>16 DEF ReplaceRecord, SyncDirectory, files
  <1>17. ASSUME NEW w \in Windows, StartReview(w) \/ \E r \in Runs : OpenPage(w, r)
         PROVE  LineageInv'
    <2>1. "idle" \in Places /\ "review" \in Places
      BY DEF Places
    <2>2. StartReview(w) => view[w].run \in Runs
      BY <1>A DEF StartReview, TypeOK, View
    <2> QED
      BY <1>2, <1>17, <2>1, <2>2 DEF StartReview, OpenPage
  <1> QED
    BY <1>1, <1>3, <1>4, <1>5, <1>6, <1>8, <1>12, <1>13, <1>14, <1>15, <1>16, <1>17
       DEF Next, WindowStep, Request, Outcome

(* The lineage scan stays true until the child is saved.                    *)
THEOREM LineageHolds == Spec => []LineageInv
  BY InitLineage, NextLineage, TypesHold, LocksHold, FilesHold, PTL DEF Spec

(* A parent never has two continuations on disk, not even after a power     *)
(* failure (_parent under the conversation lock).                           *)
THEOREM ParentsHaveOneChild == Spec => []OneContinuation
  BY LineageHolds, PTL DEF LineageInv

(* The evidence a continuation was prepared from has no writer any more.    *)
THEOREM ParentsAreSettled == Spec => []ContinuedIsSettled
  BY LineageHolds, PTL DEF LineageInv

(* A continuation is published on exactly the evidence its page showed, and *)
(* a review note is added to exactly the record that was shown: the checks  *)
(* of _parent and of the fingerprint still hold when the file is replaced.  *)
THEOREM WritesActOnWhatWasShown == Spec => ActsOnWhatWasShown
<1>1. ASSUME TypeInv, FileInv, LineageInv, NEW w \in Windows, pc[w] = "write"
      PROVE  /\ Parent(w) # None /\ disk[turn[w].run] = Absent =>
                  disk[Parent(w)] = turn[w].from.rec
             /\ turn[w].rec.reviews > 0 => disk[turn[w].run] = view[w].rec
  <2>1. /\ disk[turn[w].run] = turn[w].expected
        /\ OwnsRecord(w) => turn[w].rec.reviews = 0
    BY <1>1 DEF FileInv, Copy
  <2>2. /\ turn[w].rec # Absent
        /\ turn[w].conv = None => view[w].rec = turn[w].expected
    BY <1>1, ConstantsAssumption DEF TypeInv, Shape, SaveStates, Record
  <2>3. ASSUME Parent(w) # None, disk[turn[w].run] = Absent
        PROVE  disk[Parent(w)] = turn[w].from.rec
    <3>1. Claiming(w) /\ Parent(w) = turn[w].from.run
      BY <1>1, <2>1, <2>3 DEF Claiming, Parent, SaveStates
    <3> QED
      BY <1>1, <3>1 DEF LineageInv, Claim
  <2>4. ASSUME turn[w].rec.reviews > 0
        PROVE  disk[turn[w].run] = view[w].rec
    <3>1. turn[w].conv = None
      BY <2>1, <2>2, <2>4 DEF OwnsRecord
    <3> QED
      BY <2>1, <2>2, <3>1
  <2> QED
    BY <2>3, <2>4
<1>2. TypeInv /\ FileInv /\ LineageInv /\ [Next]_vars
      => \A w \in Windows : pc[w] = "write" /\ pc'[w] = "sync" =>
            /\ Parent(w) # None /\ disk[turn[w].run] = Absent =>
                  disk[Parent(w)] = turn[w].from.rec
            /\ turn[w].rec.reviews > 0 => disk[turn[w].run] = view[w].rec
  BY <1>1
<1> QED
  BY <1>2, TypesHold, FilesHold, LineageHolds, PTL DEF Spec, ActsOnWhatWasShown
-----------------------------------------------------------------------------
(* The journal implements its ledger. *)

(* A record says what happened to its run: completed only after the handler *)
(* had it, and prepared means that no dispatch is noted.                    *)
Told(r, rec) ==
    /\ rec.status = "completed" => calls[r] > 0
    /\ rec.status = "prepared" => ~ rec.sent

WindowTells(w) ==
    /\ turn[w].rec # Absent => Told(turn[w].run, turn[w].rec)
    /\ pc[w] = "running" \/ (pc[w] \in SaveStates /\ turn[w].after = "running")
         => calls[turn[w].run] > 0

OutcomeInv ==
    /\ \A w \in Windows : WindowTells(w)
    /\ \A r \in Runs : \A v \in media[r] \cup {promised[r]} : v # Absent => Told(r, v)

(* A step that touches no file and calls no handler has to account for its  *)
(* own window only.                                                         *)
LEMMA OutcomesUntouched ==
  ASSUME OutcomeInv, NEW w \in Windows, UNCHANGED <<files, calls>>,
         \A v \in Windows : v # w => pc'[v] = pc[v] /\ turn'[v] = turn[v],
         WindowTells(w)'
  PROVE  OutcomeInv'
  <1>1. ASSUME NEW v \in Windows PROVE WindowTells(v)'
    BY DEF OutcomeInv, WindowTells, Told
  <1>2. media' = media /\ promised' = promised /\ calls' = calls
    BY DEF files
  <1> QED
    BY <1>1, <1>2 DEF OutcomeInv, Told

(* A save request for a record that tells the truth.                        *)
LEMMA SaveTells ==
  ASSUME TypeInv, OutcomeInv, NEW w \in Windows, NEW rec \in Record, NEW after \in Places,
         Save(w, rec, after), UNCHANGED <<files, calls>>, Told(turn[w].run, rec),
         after = "running" => pc[w] = "running"
  PROVE  OutcomeInv'
  <1>1. /\ pc' = [pc EXCEPT ![w] = "write"]
        /\ \A v \in Windows : v # w => turn'[v] = turn[v]
        /\ turn'[w].rec = rec /\ turn'[w].after = after /\ turn'[w].run = turn[w].run
    BY SaveTurn DEF TypeInv
  <1>2. pc'[w] = "write" /\ \A v \in Windows : v # w => pc'[v] = pc[v]
    BY <1>1 DEF TypeInv, TypeOK
  <1>3. after = "running" => calls[turn[w].run] > 0
    BY DEF OutcomeInv, WindowTells
  <1>4. WindowTells(w)'
    BY <1>1, <1>2, <1>3 DEF WindowTells, Told
  <1> QED
    BY <1>1, <1>2, <1>4, OutcomesUntouched

LEMMA InitOutcomes == Init => OutcomeInv
  BY DEF Init, OutcomeInv, WindowTells, NoTurn, SaveStates

LEMMA NextOutcomes == TypeInv /\ FileInv /\ OutcomeInv /\ [Next]_vars => OutcomeInv'
  <1> SUFFICES ASSUME TypeInv, FileInv, OutcomeInv, [Next]_vars PROVE OutcomeInv'
    OBVIOUS
  <1>A. TypeOK /\ \A w \in Windows : Shape(w)
    BY DEF TypeInv
  <1>B. Absent \notin Record
    BY ConstantsAssumption
  <1>C. /\ \A w \in Windows : Copy(w) /\ Phases(w)
        /\ \A r \in Runs : disk[r] \in media[r]
    BY DEF FileInv, Evidence
  <1>D. \A w \in Windows : WindowTells(w)
    BY DEF OutcomeInv
  <1> USE DEF Goto
  (* The record of the window is dropped or kept, and it does not run.      *)
  <1>1. ASSUME NEW w \in Windows, UNCHANGED <<files, calls>>,
               \A v \in Windows : v # w => pc'[v] = pc[v] /\ turn'[v] = turn[v],
               turn'[w].rec = Absent
                 \/ (turn'[w].rec = turn[w].rec /\ turn'[w].run = turn[w].run),
               pc'[w] \notin SaveStates \cup {"running"}
        PROVE  OutcomeInv'
    <2>1. WindowTells(w)'
      BY <1>1, <1>D DEF WindowTells, Told
    <2> QED
      BY <1>1, <2>1, OutcomesUntouched
  <1>2. ASSUME NEW w \in Windows,
               \/ \E r \in Runs, c \in Conversations, from \in {None, view[w]} : Begin(w, r, c, from)
               \/ Close(w) \/ Crash(w)
        PROVE  OutcomeInv'
    <2>1. /\ UNCHANGED <<files, calls>>
          /\ \A v \in Windows : v # w => pc'[v] = pc[v] /\ turn'[v] = turn[v]
          /\ turn'[w].rec = Absent /\ pc'[w] \in {"opened", "closing", "idle"}
      <3>1. CASE \E r \in Runs, c \in Conversations, from \in {None, view[w]} : Begin(w, r, c, from)
        BY <1>A, <3>1 DEF Begin, NoTurn, TypeOK
      <3>2. CASE Close(w) \/ Crash(w)
        BY <1>A, <3>2 DEF Close, Crash, NoTurn, TypeOK
      <3> QED
        BY <1>2, <3>1, <3>2
    <2> QED
      BY <1>1, <2>1 DEF SaveStates
  <1>3. ASSUME NEW w \in Windows, ClaimConversation(w) \/ OpenRunLock(w) \/ LockReview(w)
        PROVE  OutcomeInv'
    <2>1. /\ UNCHANGED <<files, calls, turn>>
          /\ \A v \in Windows : v # w => pc'[v] = pc[v]
          /\ pc'[w] \in {"naming", "closing", "owning", "reviewing", "idle"}
      BY <1>A, <1>3 DEF ClaimConversation, OpenRunLock, LockReview, TypeOK
    <2> QED
      BY <1>1, <2>1 DEF SaveStates
  <1>4. ASSUME NEW w \in Windows,
               ProbeBarrier(w) \/ FinishRead(w) \/ \E r \in Runs : ProbeRun(w, r)
        PROVE  OutcomeInv'
    <2>1. /\ UNCHANGED <<files, calls>>
          /\ \A v \in Windows : v # w => pc'[v] = pc[v] /\ turn'[v] = turn[v]
          /\ turn'[w] = turn[w] \/ turn'[w].rec = Absent
      BY <1>A, <1>4 DEF ProbeBarrier, FinishRead, ProbeRun, NoTurn, TypeOK
    <2>2. pc'[w] \in {"probe", "idle", "review"}
      BY <1>A, <1>4 DEF ProbeBarrier, FinishRead, ProbeRun, TypeOK, Shape, ReadStates
    <2> QED
      BY <1>1, <2>1, <2>2 DEF SaveStates
  <1>5. ASSUME NEW w \in Windows, NEW r \in Runs, NEW after \in Places, Read(w, r, after)
        PROVE  OutcomeInv'
    <2>1. turn[w] \in Turn
      BY <1>A DEF TypeOK
    <2>2. turn' = [turn EXCEPT ![w] = [turn[w] EXCEPT !.after = after]]
      BY <1>5 DEF Read
    <2>3. /\ turn'[w].rec = turn[w].rec /\ turn'[w].run = turn[w].run
          /\ \A v \in Windows : v # w => turn'[v] = turn[v]
      BY <1>A, <2>1, <2>2 DEF TypeOK, Turn
    <2>4. /\ UNCHANGED <<files, calls>> /\ pc'[w] = "barrier"
          /\ \A v \in Windows : v # w => pc'[v] = pc[v]
      BY <1>A, <1>5 DEF Read, TypeOK
    <2> QED
      BY <1>1, <2>3, <2>4 DEF SaveStates
  <1>6. ASSUME NEW w \in Windows, ClaimRun(w)
        PROVE  OutcomeInv'
    <2> DEFINE rec == [status |-> "prepared", sent |-> FALSE, conv |-> turn[w].conv,
                       parent |-> Parent(w), log |-> 0, reviews |-> 0]
    <2>1. UNCHANGED <<files, calls>> /\ turn[w].conv \in Conversations
      BY <1>A, <1>6 DEF ClaimRun, Shape, TurnStates
    <2>2. CASE Save(w, rec, "prepared")
      <3>1. rec \in Record /\ "prepared" \in Places
        BY <1>A, <2>1, FirstRecord DEF Parent, TypeOK, Turn, View, Places, TurnStates
      <3>2. Told(turn[w].run, rec)
        BY DEF Told
      <3> HIDE DEF rec
      <3> QED
        BY <2>1, <2>2, <3>1, <3>2, SaveTells
    <2>3. CASE Goto(w, "closing") /\ UNCHANGED turn
      <3>1. pc'[w] = "closing" /\ \A v \in Windows : v # w => pc'[v] = pc[v]
        BY <1>A, <2>3 DEF TypeOK
      <3> QED
        BY <1>1, <2>1, <2>3, <3>1 DEF SaveStates
    <2> QED
      BY <1>6, <2>2, <2>3 DEF ClaimRun
  <1>7. ASSUME NEW w \in Windows, Dispatch(w) \/ Complete(w) \/ Fail(w)
        PROVE  OutcomeInv'
    <2>1. /\ turn[w].rec \in Record /\ UNCHANGED <<files, calls>>
          /\ "closing" \in Places /\ "dispatched" \in Places
      BY <1>A, <1>7 DEF Dispatch, Complete, Fail, Shape, Working, Places, TurnStates
    <2>2. PICK new \in Record, after \in {"closing", "dispatched"} :
             /\ Save(w, new, after)
             /\ new.status \in {"dispatching", "completed", "error"}
             /\ new.status = "completed" => pc[w] = "running"
      <3>1. CASE Dispatch(w)
        <4> DEFINE new == [turn[w].rec EXCEPT !.status = "dispatching", !.sent = TRUE]
        <4>1. new \in Record
          BY <2>1 DEF Record
        <4>2. new.status = "dispatching"
          BY <2>1 DEF Record
        <4>3. Save(w, new, "dispatched")
          BY <3>1 DEF Dispatch
        <4> HIDE DEF new
        <4> QED
          BY <4>1, <4>2, <4>3
      <3>2. CASE Complete(w)
        <4> DEFINE new == [turn[w].rec EXCEPT !.status = "completed"]
        <4>1. new \in Record
          BY <2>1 DEF Record
        <4>2. new.status = "completed"
          BY <2>1 DEF Record
        <4>3. Save(w, new, "closing") /\ pc[w] = "running"
          BY <3>2 DEF Complete, AfterAnswer
        <4> HIDE DEF new
        <4> QED
          BY <4>1, <4>2, <4>3
      <3>3. CASE Fail(w)
        <4> DEFINE new == [turn[w].rec EXCEPT !.status = "error"]
        <4>1. new \in Record
          BY <2>1 DEF Record
        <4>2. new.status = "error"
          BY <2>1 DEF Record
        <4>3. Save(w, new, "closing")
          BY <3>3 DEF Fail
        <4> HIDE DEF new
        <4> QED
          BY <4>1, <4>2, <4>3
      <3> QED
        BY <1>7, <3>1, <3>2, <3>3
    <2>3. Told(turn[w].run, new)
      BY <1>D, <2>2 DEF WindowTells, Told
    <2> QED
      BY <2>1, <2>2, <2>3, SaveTells
  <1>8. ASSUME NEW w \in Windows, Observe(w)
        PROVE  OutcomeInv'
    <2> DEFINE new == [turn[w].rec EXCEPT !.log = @ + 1]
    <2>1. /\ turn[w].rec \in Record /\ turn[w] \in Turn /\ UNCHANGED <<files, calls>>
          /\ pc[w] \in {"prepared", "running"} /\ pc[w] \in Places
      BY <1>A, <1>8 DEF Observe, Shape, Working, TypeOK
    <2>2. new \in Record /\ new.status = turn[w].rec.status /\ new.sent = turn[w].rec.sent
      <3>1. turn[w].rec.log < MaxLog
        BY <1>8 DEF Observe
      <3>2. new \in Record
        BY <2>1, <3>1, ConstantsAssumption DEF Record
      <3>3. new.status = turn[w].rec.status /\ new.sent = turn[w].rec.sent
        BY <2>1 DEF Record
      <3> QED
        BY <3>2, <3>3
    <2>3. Told(turn[w].run, new)
      BY <1>B, <1>D, <2>1, <2>2 DEF WindowTells, Told
    <2>4. Save(w, new, pc[w]) \/ (turn' = [turn EXCEPT ![w].rec = new] /\ UNCHANGED pc)
      BY <1>8 DEF Observe
    <2> HIDE DEF new
    <2>5. CASE Save(w, new, pc[w])
      BY <2>1, <2>2, <2>3, <2>5, SaveTells
    <2>6. CASE turn' = [turn EXCEPT ![w].rec = new] /\ UNCHANGED pc
      <3>1. /\ turn'[w].rec = new /\ turn'[w].run = turn[w].run
            /\ \A v \in Windows : v # w => turn'[v] = turn[v]
        BY <1>A, <2>1, <2>6 DEF TypeOK, Turn
      <3>2. WindowTells(w)'
        BY <1>D, <2>1, <2>3, <2>6, <3>1 DEF WindowTells, Told, SaveStates
      <3> QED
        BY <2>1, <2>6, <3>1, <3>2, OutcomesUntouched
    <2> QED
      BY <2>4, <2>5, <2>6
  <1>9. ASSUME NEW w \in Windows, CallHandler(w)
        PROVE  OutcomeInv'
    <2>1. turn[w].run \in Runs /\ UNCHANGED <<files, turn>>
      BY <1>A, <1>9 DEF CallHandler, Shape, TurnStates
    <2>2. calls'[turn[w].run] > 0 /\ \A r \in Runs : calls[r] > 0 => calls'[r] > 0
      BY <1>A, <1>9, <2>1 DEF CallHandler, TypeOK
    <2>3. \A v \in Windows : v # w => pc'[v] = pc[v]
      BY <1>A, <1>9 DEF CallHandler, TypeOK
    <2>4. ASSUME NEW v \in Windows PROVE WindowTells(v)'
      <3>1. CASE v = w
        BY <1>A, <1>D, <2>1, <2>2, <3>1 DEF WindowTells, Told
      <3>2. CASE v # w
        <4>1. /\ turn[v].rec # Absent => turn[v].run \in Runs
              /\ pc[v] = "running" \/ pc[v] \in SaveStates => turn[v].run \in Runs
          BY <1>A DEF Shape, TurnStates
        <4> QED
          BY <1>D, <2>1, <2>2, <2>3, <3>2, <4>1 DEF WindowTells, Told
      <3> QED
        BY <3>1, <3>2
    <2>5. media' = media /\ promised' = promised
      BY <2>1 DEF files
    <2> QED
      BY <2>2, <2>4, <2>5 DEF OutcomeInv, Told
  <1>10. ASSUME NEW w \in Windows, ReplaceRecord(w) \/ SyncDirectory(w), FailSave(w),
                UNCHANGED <<files, calls>>
         PROVE  OutcomeInv'
    <2>1. /\ pc' = [pc EXCEPT ![w] = "closing"]
          /\ \A v \in Windows : v # w => turn'[v] = turn[v]
          /\ turn'[w].rec = turn[w].rec /\ turn'[w].run = turn[w].run
      BY <1>A, <1>10, FailSaveTurn
    <2>2. pc'[w] = "closing" /\ \A v \in Windows : v # w => pc'[v] = pc[v]
      BY <1>A, <2>1 DEF TypeOK
    <2> QED
      BY <1>1, <1>10, <2>1, <2>2 DEF SaveStates
  <1>11. ASSUME NEW w \in Windows, pc[w] = "write", Goto(w, "sync"),
                media' = [media EXCEPT ![turn[w].run] = @ \cup {turn[w].rec}],
                UNCHANGED <<turn, promised, calls>>
         PROVE  OutcomeInv'
    <2>1. /\ pc'[w] = "sync" /\ \A v \in Windows : v # w => pc'[v] = pc[v]
          /\ turn[w].rec \in Record
      BY <1>A, <1>11 DEF TypeOK, Shape, SaveStates
    <2>2. ASSUME NEW v \in Windows PROVE WindowTells(v)'
      BY <1>D, <1>11, <2>1 DEF WindowTells, Told, SaveStates
    <2>3. ASSUME NEW r \in Runs, NEW v \in media'[r] \cup {promised'[r]}, v # Absent
          PROVE  Told(r, v)
      <3>1. v \in media[r] \cup {promised[r]} \/ (r = turn[w].run /\ v = turn[w].rec)
        BY <1>A, <1>11, <2>3 DEF TypeOK
      <3> QED
        BY <1>D, <2>3, <3>1 DEF OutcomeInv, WindowTells
    <2> QED
      BY <1>11, <2>2, <2>3 DEF OutcomeInv, Told
  <1>12. ASSUME NEW w \in Windows, pc[w] = "sync", Goto(w, turn[w].after), media' = Settled,
                promised' = [promised EXCEPT ![turn[w].run] = turn[w].rec],
                turn' = [turn EXCEPT ![w].expected = turn[w].rec],
                UNCHANGED calls
         PROVE  OutcomeInv'
    <2>1. turn[w].run \in Runs /\ turn[w].rec \in Record /\ turn[w] \in Turn
      BY <1>A, <1>12 DEF Shape, SaveStates, TypeOK
    <2>2. /\ turn'[w].rec = turn[w].rec /\ turn'[w].run = turn[w].run
          /\ turn'[w].after = turn[w].after /\ pc'[w] = turn[w].after
          /\ turn[w].after \notin SaveStates
          /\ \A v \in Windows : v # w => pc'[v] = pc[v] /\ turn'[v] = turn[v]
      <3>1. turn' = [turn EXCEPT ![w] = [turn[w] EXCEPT !.expected = turn[w].rec]]
        BY <1>12
      <3>2. /\ turn'[w] = [turn[w] EXCEPT !.expected = turn[w].rec]
            /\ \A v \in Windows : v # w => turn'[v] = turn[v]
        BY <1>A, <3>1 DEF TypeOK
      <3>3. pc'[w] = turn[w].after /\ \A v \in Windows : v # w => pc'[v] = pc[v]
        BY <1>A, <1>12 DEF TypeOK
      <3>4. turn[w].after \notin SaveStates
        BY <1>A, <1>12 DEF Shape, SaveStates, Working
      <3> QED
        BY <2>1, <3>2, <3>3, <3>4 DEF Turn
    <2>3. ASSUME NEW v \in Windows PROVE WindowTells(v)'
      BY <1>D, <1>12, <2>2 DEF WindowTells, Told, SaveStates
    <2>4. ASSUME NEW r \in Runs, NEW v \in media'[r] \cup {promised'[r]}, v # Absent
          PROVE  Told(r, v)
      <3>1. \/ v \in media[r] \cup {promised[r]}
            \/ r = turn[w].run /\ v = turn[w].rec
        BY <1>A, <1>C, <1>12, <2>1, <2>4 DEF Settled, TypeOK
      <3> QED
        BY <1>D, <2>4, <3>1 DEF OutcomeInv, WindowTells
    <2> QED
      BY <1>12, <2>3, <2>4 DEF OutcomeInv, Told
  <1>13. ASSUME NEW w \in Windows, Review(w)
         PROVE  OutcomeInv'
    <2>1. /\ pc[w] = "reviewing" /\ view[w].run \in Runs /\ view[w].rec \in Record
          /\ UNCHANGED <<files, calls>>
          /\ \A v \in Windows : v # w => pc'[v] = pc[v] /\ turn'[v] = turn[v]
      BY <1>A, <1>13 DEF Review, Shape, View, TypeOK
    <2>2. PICK r \in Runs, rec \in Record \cup {Absent} : r = view[w].run /\ rec = disk[r]
      BY <1>A, <2>1 DEF TypeOK
    <2>3. CASE UNCHANGED turn /\ Goto(w, "closing")
      <3>1. pc'[w] = "closing"
        BY <1>A, <2>3 DEF TypeOK
      <3> QED
        BY <1>1, <2>1, <2>3, <3>1 DEF SaveStates
    <2> DEFINE new == [rec EXCEPT !.reviews = @ + 1]
    <2>4. ASSUME rec = view[w].rec,
                 turn' = [turn EXCEPT ![w] = [NoTurn EXCEPT !.run = r, !.expected = rec,
                                                !.after = "closing", !.rec = new]]
          PROVE  OutcomeInv'
      <3>1. turn'[w].run = r /\ turn'[w].rec = new /\ turn'[w].after = "closing" /\ pc'[w] # "running"
        BY <1>A, <1>13, <2>4 DEF NoTurn, TypeOK, Review
      <3>2. Told(r, rec)
        <4>1. rec \in media[r] /\ rec # Absent
          BY <1>B, <1>C, <2>1, <2>2, <2>4
        <4> QED
          BY <4>1 DEF OutcomeInv
      <3>3. new.status = rec.status /\ new.sent = rec.sent
        BY <2>1, <2>4 DEF Record
      <3>4. WindowTells(w)'
        BY <2>1, <3>1, <3>2, <3>3 DEF WindowTells, Told
      <3> QED
        BY <2>1, <3>4, OutcomesUntouched
    <2>5. \/ UNCHANGED turn /\ Goto(w, "closing")
          \/ /\ rec = view[w].rec
             /\ turn' = [turn EXCEPT ![w] = [NoTurn EXCEPT !.run = r, !.expected = rec,
                                                !.after = "closing", !.rec = new]]
      BY <1>13, <2>2 DEF Review, SameFingerprint
    <2> QED
      BY <2>3, <2>4, <2>5
  <1>14. CASE PowerLoss
    <2>1. UNCHANGED <<promised, calls>> /\ \A r \in Runs : media'[r] \subseteq media[r]
      BY <1>14 DEF PowerLoss
    <2>2. ASSUME NEW w \in Windows PROVE WindowTells(w)'
      BY <1>14 DEF PowerLoss, WindowTells, NoTurn, SaveStates
    <2> QED
      BY <2>1, <2>2 DEF OutcomeInv, Told
  <1>15. CASE UNCHANGED vars
    BY <1>15 DEF vars, files, OutcomeInv, WindowTells, Told
  <1>16. ASSUME NEW w \in Windows, ReplaceRecord(w) \/ SyncDirectory(w)
         PROVE  OutcomeInv'
    BY <1>10, <1>11, <1>12, <1>16 DEF ReplaceRecord, SyncDirectory, files
  <1>17. ASSUME NEW w \in Windows, StartReview(w) \/ \E r \in Runs : OpenPage(w, r)
         PROVE  OutcomeInv'
    <2>1. "idle" \in Places /\ "review" \in Places
      BY DEF Places
    <2>2. StartReview(w) => view[w].run \in Runs
      BY <1>A DEF StartReview, TypeOK, View
    <2> QED
      BY <1>5, <1>17, <2>1, <2>2 DEF StartReview, OpenPage
  <1> QED
    BY <1>2, <1>3, <1>4, <1>6, <1>7, <1>8, <1>9, <1>13, <1>14, <1>15, <1>16, <1>17
       DEF Next, WindowStep, Request, Outcome

(* No record, in memory or on the medium, is ahead of its run.              *)
THEOREM OutcomesHold == Spec => []OutcomeInv
  BY InitOutcomes, NextOutcomes, TypesHold, FilesHold, PTL DEF Spec

(* The save that returns is a step of the ledger: the run's first record,   *)
(* or a later state of the one acknowledged before.                         *)
LEMMA SaveIsLedgerStep ==
  ASSUME TypeInv, FileInv, LineageInv, OutcomeInv, NEW w \in Windows,
         pc[w] = "sync", promised' = [promised EXCEPT ![turn[w].run] = turn[w].rec],
         UNCHANGED calls
  PROVE  Ledger!Open(turn[w].run) \/ Ledger!Amend(turn[w].run)
  <1>A. TypeOK /\ Shape(w) /\ Copy(w) /\ Phases(w) /\ \A x \in Runs : Evidence(x)
    BY DEF TypeInv, FileInv
  <1>1. turn[w].run \in Runs /\ turn[w].rec \in Record
    BY <1>A DEF Shape, SaveStates
  <1>2. PICK r \in Runs, rec \in Record : r = turn[w].run /\ rec = turn[w].rec
    BY <1>1
  <1>3. rec # Absent /\ Told(r, rec) /\ disk[r] = rec
    BY <1>A, <1>2, ConstantsAssumption DEF OutcomeInv, WindowTells, Copy
  <1>4. promised' = [promised EXCEPT ![r] = rec] /\ promised'[r] = rec
    BY <1>A, <1>2 DEF TypeOK
  <1>5. Ledger!SaveOf(r)
    BY <1>4 DEF Ledger!SaveOf
  <1>6. CASE promised[r] = Absent
    <2>1. turn[w].expected = Absent
      BY <1>A, <1>2, <1>6 DEF Copy, SaveStates
    <2>2. turn[w].conv # None /\ turn[w].after = "prepared"
      BY <1>A, <2>1 DEF Shape, SaveStates
    <2>3. rec.status = "prepared" /\ ~ rec.sent
      BY <1>A, <1>2, <1>3, <2>2 DEF Phases, Phase, SaveStates, Told
    <2>4. rec.reviews = 0
      BY <1>A, <1>2, <1>3, <2>2 DEF Copy, OwnsRecord
    <2>5. ASSUME rec.parent # None, NEW s \in Runs, promised[s] # Absent
          PROVE  promised[s].parent # rec.parent
      <3>1. disk[s] # Absent /\ disk[s].parent = promised[s].parent
        BY <1>A, <2>5 DEF Evidence, Follows
      <3>2. s # r
        BY <1>6, <2>5
      <3> QED
        BY <1>3, <2>5, <3>1, <3>2 DEF LineageInv, OneContinuation
    <2>6. Ledger!Open(r)
      BY <1>4, <1>5, <1>6, <2>3, <2>4, <2>5 DEF Ledger!Open, Ledger!OnlyContinuation
    <2> QED
      BY <1>2, <2>6
  <1>7. CASE promised[r] # Absent
    <2>1. Follows(promised[r], rec)
      BY <1>A, <1>3, <1>7 DEF Evidence
    <2>2. promised[r] \in Record
      BY <1>A, <1>7 DEF TypeOK
    <2>3. rec.status \in Ledger!Later(promised[r].status)
      BY <2>1, <2>2 DEF Follows, Rank, Record, Ledger!Later
    <2>4. rec.status = "completed" => calls[r] = 1
      <3>1. calls[r] \in Nat /\ calls[r] <= 1
        BY <1>A DEF TypeOK, Evidence
      <3> QED
        BY <1>3, <3>1 DEF Told
    <2>5. Ledger!Amend(r)
      BY <1>4, <1>5, <1>7, <2>1, <2>3, <2>4 DEF Ledger!Amend, Follows
    <2> QED
      BY <1>2, <2>5
  <1> QED
    BY <1>6, <1>7

(* The handler is called once, on a run whose dispatch is acknowledged.     *)
LEMMA CallIsLedgerStep ==
  ASSUME TypeInv, FileInv, OutcomeInv, NEW w \in Windows, CallHandler(w)
  PROVE  turn[w].run \in Runs /\ Ledger!Call(turn[w].run)
  <1>A. TypeOK /\ Shape(w) /\ Copy(w) /\ Phases(w) /\ \A x \in Runs : Evidence(x)
    BY DEF TypeInv, FileInv
  <1>1. /\ pc[w] = "dispatched" /\ turn[w].run \in Runs /\ turn[w].rec \in Record
        /\ turn[w].expected \in Record /\ turn[w].expected # Absent
    BY <1>A, ConstantsAssumption DEF CallHandler, Shape, Working, TurnStates
  <1>2. PICK r \in Runs : r = turn[w].run
    BY <1>1
  <1>3. /\ calls[r] = 0 /\ turn[w].rec.status = "dispatching"
        /\ promised[r] # Absent /\ promised[r].sent
        /\ disk[r] = turn[w].expected /\ Follows(turn[w].expected, turn[w].rec)
    BY <1>A, <1>1, <1>2 DEF Copy, Phases, Phase, Working
  <1>4. promised[r] \in Record /\ Follows(promised[r], turn[w].expected) /\ Told(r, promised[r])
    BY <1>A, <1>3 DEF TypeOK, Evidence, OutcomeInv
  <1>5. Follows(promised[r], turn[w].rec)
    BY <1>1, <1>3, <1>4, FollowsTwice
  <1>6. promised[r].status = "dispatching"
    BY <1>3, <1>4, <1>5 DEF Follows, Rank, Record, Told
  <1>7. calls' = [calls EXCEPT ![r] = 1] /\ promised' = promised
    <2>1. calls' = [calls EXCEPT ![r] = calls[r] + 1]
      BY <1>2 DEF CallHandler
    <2>2. promised' = promised
      BY DEF CallHandler, files
    <2> QED
      BY <1>3, <2>1, <2>2
  <1>8. Ledger!Call(r)
    BY <1>3, <1>6, <1>7 DEF Ledger!Call
  <1> QED
    BY <1>2, <1>8

LEMMA StepLedger ==
  TypeInv /\ FileInv /\ LineageInv /\ OutcomeInv /\ [Next]_vars => [Ledger!Next]_(Ledger!vars)
  <1> SUFFICES ASSUME TypeInv, FileInv, LineageInv, OutcomeInv, [Next]_vars
               PROVE  [Ledger!Next]_(Ledger!vars)
    OBVIOUS
  <1>1. ASSUME UNCHANGED <<promised, calls>> PROVE UNCHANGED Ledger!vars
    BY <1>1 DEF Ledger!vars
  <1>2. ASSUME NEW w \in Windows, SyncDirectory(w) PROVE [Ledger!Next]_(Ledger!vars)
    <2>1. CASE promised' = [promised EXCEPT ![turn[w].run] = turn[w].rec]
      <3>1. turn[w].run \in Runs
        BY <1>2 DEF TypeInv, Shape, SyncDirectory, SaveStates
      <3> QED
        BY <1>2, <2>1, <3>1, SaveIsLedgerStep DEF SyncDirectory, Ledger!Next
    <2>2. CASE UNCHANGED promised
      BY <1>1, <1>2, <2>2 DEF SyncDirectory
    <2> QED
      BY <1>2, <2>1, <2>2 DEF SyncDirectory
  <1>3. ASSUME NEW w \in Windows, CallHandler(w) PROVE [Ledger!Next]_(Ledger!vars)
    BY <1>3, CallIsLedgerStep DEF Ledger!Next
  <1>4. ASSUME NEW w \in Windows,
               ClaimConversation(w) \/ OpenRunLock(w) \/ ClaimRun(w) \/ ReplaceRecord(w)
               \/ Dispatch(w) \/ Close(w) \/ ProbeBarrier(w) \/ FinishRead(w)
               \/ LockReview(w) \/ Review(w) \/ \E r \in Runs : ProbeRun(w, r)
        PROVE  UNCHANGED Ledger!vars
    BY <1>1, <1>4 DEF ClaimConversation, OpenRunLock, ClaimRun, ReplaceRecord, Dispatch, Close,
                      ProbeBarrier, FinishRead, LockReview, Review, ProbeRun, files
  <1>5. ASSUME NEW w \in Windows, Request(w) \/ Outcome(w) \/ Crash(w)
        PROVE  UNCHANGED Ledger!vars
    <2>1. CASE \E r \in Runs, c \in Conversations, from \in {None, view[w]} : Begin(w, r, c, from)
      BY <1>1, <2>1 DEF Begin, files
    <2>2. CASE (\E r \in Runs : OpenPage(w, r)) \/ StartReview(w)
      BY <1>1, <2>2 DEF OpenPage, StartReview, Read, files
    <2>3. CASE Outcome(w)
      BY <1>1, <2>3 DEF Outcome, Observe, Complete, Fail, files
    <2>4. CASE Crash(w)
      BY <1>1, <2>4 DEF Crash, files
    <2> QED
      BY <1>5, <2>1, <2>2, <2>3, <2>4 DEF Request
  <1>6. CASE PowerLoss \/ UNCHANGED vars
    BY <1>1, <1>6 DEF PowerLoss, vars, files
  <1> QED
    BY <1>2, <1>3, <1>4, <1>5, <1>6 DEF Next, WindowStep

(* The journal implements its ledger, whatever is killed, fails or loses    *)
(* power between two of its file-system calls: each run is opened once as   *)
(* the one continuation of its parent, is given to the handler at most once *)
(* and only after its dispatch was acknowledged, and is completed only      *)
(* after that (WorkSession, record_review).                                 *)
THEOREM JournalKeepsTheLedger == Spec => KeepsTheLedger
<1>1. Init => Ledger!Init
  BY DEF Init, Ledger!Init
<1> QED
  BY <1>1, StepLedger, TypesHold, FilesHold, LineageHolds, OutcomesHold, PTL
     DEF Spec, KeepsTheLedger, Ledger!Spec
=============================================================================
