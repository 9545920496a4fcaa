------------------------ MODULE PrivateRestoreProofs ------------------------
(***************************************************************************)
(* Proofs about PrivateRestore, for any agents, writers, files and copy,   *)
(* and any number of writes, restores and crashes.                         *)
(*                                                                         *)
(* The argument: whoever restores holds every lock, so it is alone with    *)
(* the files and the markers (Locked); the markers name its plan from the  *)
(* first step to the last, also when it dies (Marked), so that completion  *)
(* is of the plan and the direction they name (Done); a writer with a lock *)
(* has checked the gate under it, and no restore can begin before the lock *)
(* is free (Checked).                                                      *)
(***************************************************************************)
EXTENDS PrivateRestore, TLAPS, FiniteSetTheorems

(* The types, in two halves. *)
Job == [store : Stores \cup {None}, read : Content, id : {NoId} \cup Ids,
        dir : Directions \cup {None}, target : Images \cup {None}]
Base == [core : Marker \cup {None}, native : Marker \cup {None}, history : Content]

TypeAgents ==
    /\ lock \in [Stores -> Agents \cup {None}]
    /\ pc \in [Agents -> Places] /\ job \in [Agents -> Job] /\ base \in [Agents -> Base]

TypeFiles ==
    /\ file \in Images
    /\ nmark \in Marker \cup {None} /\ cmark \in {NoId} \cup Ids
    /\ ngen \in Marker \cup {None} /\ cgen \in Marker \cup {None}
    /\ plan \in [Ids -> Images \cup {None}]
    /\ receipt \in [Ids -> Directions \cup {None}]
    /\ acked \in [Stores -> SUBSET Items]
    /\ writes \in 0..MaxWrites /\ crashes \in 0..MaxCrashes

(* The agents that are at some of the places. *)
At(places) == {p \in Agents : pc[p] \in places}

(* Plans are numbered as they are made, and every call that was admitted    *)
(* has room for its plan or its write.                                      *)
Counted ==
    /\ Planned = 1..Cardinality(Planned)
    /\ Cardinality(Planned) + Cardinality(At({"prepare"})) <= MaxRestores
    /\ writes + Cardinality(At({"lock", "write"})) <= MaxWrites

(* What an agent is about at each place. *)
Shape ==
    \A p \in Agents :
        /\ pc[p] \in {"lock", "write"} => job[p].store \in Stores
        /\ pc[p] = "resume" => job[p].id # NoId
        /\ pc[p] \in Restoring => job[p].id \in Planned /\ job[p].dir \in Directions

Locked ==
    \A p \in Agents :
        /\ pc[p] \in Restoring => \A s \in Stores : lock[s] = p
        /\ pc[p] = "write" => lock[job[p].store] = p

Marked ==
    /\ cmark # NoId => nmark # None /\ nmark.id = cmark
    /\ nmark # None => nmark.id \in Planned
    /\ \A p \in Agents :
          /\ pc[p] \in Restoring => nmark = Generation(p)
          /\ pc[p] \in Restoring \ {"marked", "unlockNative"} => cmark = job[p].id
          /\ pc[p] = "unlockNative" => cmark = NoId

Complete == {"coreGen", "nativeGen", "unlockCore", "unlockNative"}

Done ==
    /\ \A p \in Agents :
          /\ pc[p] \in Complete =>
                /\ \A s \in Stores : file[s] = Desired(job[p].id, job[p].dir, s)
                /\ receipt[job[p].id] = job[p].dir
          /\ pc[p] \in Complete \ {"coreGen"} => cgen = Generation(p)
          /\ pc[p] \in {"unlockCore", "unlockNative"} => ngen = Generation(p)
    /\ nmark = None => ngen = cgen /\ (cgen # None => receipt[cgen.id] = cgen.dir)

Checked ==
    \A p \in Agents : pc[p] = "write" =>
        /\ job[p].store = "core" => CoreOpen(p) /\ file["core"] = job[p].read
        /\ job[p].store = "history" => NativeOpen(p) /\ file["history"] = job[p].read
        /\ job[p].store = "records" => file["records"] = None

(* Reported items are those of writes, and are in a file or a plan. *)
Reported ==
    /\ acked["integrations"] = {}
    /\ \A s \in Stores : acked[s] \subseteq 1..MaxWrites
    /\ NothingLost

Safe == TypeOK /\ Counted /\ Shape /\ Locked /\ Marked /\ Done /\ Checked

IInv == Safe /\ ChatsStayRestorable /\ Reported

(* They are the type invariant. *)
LEMMA TypeParts == TypeOK <=> TypeFiles /\ TypeAgents
BY DEF TypeOK, TypeFiles, TypeAgents, Job, Base

(* No file, no plan and nothing on its way. *)
LEMMA InitInv == Init => IInv
<1> SUFFICES ASSUME Init PROVE IInv
    OBVIOUS
<1> USE RestoreAssumption DEF Init
<1>1. TypeOK
    <2>1. NoJob \in Job
        BY DEF NoJob, Content, Job
    <2>2. Original["history"] \in Content
        BY DEF Images, Stores
    <2>3. /\ plan \in [Ids -> Images \cup {None}] /\ receipt \in [Ids -> Directions \cup {None}]
          /\ acked \in [Stores -> SUBSET Items]
        OBVIOUS
    <2>4. TypeFiles
        BY <2>3 DEF TypeFiles
    <2>5. TypeAgents
        BY <2>1, <2>2 DEF TypeAgents, Places, Base
    <2> QED
        BY <2>4, <2>5, TypeParts
<1>2. \A places : "idle" \notin places => At(places) = {}
    BY DEF At
<1>3. Planned = {}
    BY DEF Planned, Images
<1>4. Counted
    <2>1. Cardinality({}) = 0
        BY FS_EmptySet
    <2>2. At({"prepare"}) = {} /\ At({"lock", "write"}) = {}
        BY <1>2
    <2>3. {} = 1..0 /\ 0 + 0 <= MaxRestores /\ 0 + 0 <= MaxWrites
        OBVIOUS
    <2>4. writes = 0
        OBVIOUS
    <2> HIDE DEF Init
    <2> QED
        BY <1>3, <2>1, <2>2, <2>3, <2>4 DEF Counted
<1>5. Shape /\ Locked /\ Marked /\ Done /\ Checked
    BY DEF Shape, Locked, Marked, Done, Checked, Restoring, Places, Complete
<1>6. ChatsStayRestorable /\ Reported
    BY DEF ChatsStayRestorable, Pending, Reported, NothingLost, Stores
<1> QED
    BY <1>1, <1>4, <1>5, <1>6 DEF IInv, Safe

-----------------------------------------------------------------------------
(* Who is alone *)

(* The job of an agent is a job. *)
LEMMA JobOf ==
    ASSUME TypeOK, NEW p \in Agents
    PROVE  /\ job[p] \in Job
           /\ job[p].store \in Stores \cup {None} /\ job[p].read \in Content
           /\ job[p].id \in {NoId} \cup Ids /\ job[p].dir \in Directions \cup {None}
           /\ job[p].target \in Images \cup {None}
BY DEF TypeOK, Job

(* Whoever restores is alone with the files. *)
LEMMA Alone ==
    ASSUME Shape, Locked, NEW p \in Agents, NEW q \in Agents, p # q, pc[p] \in Restoring
    PROVE  pc[q] \notin Restoring /\ pc[q] # "write"
BY DEF Shape, Locked, Stores

(* When every lock is free, nobody restores or writes. *)
LEMMA NobodyInside ==
    ASSUME Shape, Locked, \A s \in Stores : Free(s)
    PROVE  \A q \in Agents : pc[q] \notin Restoring /\ pc[q] # "write"
BY RestoreAssumption DEF Shape, Locked, Free, Stores

(* Two writers write different stores. *)
LEMMA WritersApart ==
    ASSUME Locked, NEW p \in Agents, NEW q \in Agents, p # q, pc[p] = "write", pc[q] = "write"
    PROVE  job[p].store # job[q].store
BY DEF Locked

(* Where agents are, counted, when one of them moves. *)
LEMMA Moving ==
    ASSUME NEW p \in Agents, \A q \in Agents \ {p} : pc'[q] = pc[q], NEW P
    PROVE  /\ Cardinality(At(P)) \in Nat /\ Cardinality(At(P)') \in Nat
           /\ Cardinality(At(P)') <= Cardinality(At(P)) + 1
           /\ pc'[p] \notin P \/ pc[p] \in P => Cardinality(At(P)') <= Cardinality(At(P))
           /\ pc'[p] \notin P /\ pc[p] \in P => Cardinality(At(P)') + 1 <= Cardinality(At(P))
<1> DEFINE Others == At(P) \ {p}
<1>1. IsFiniteSet(At(P)) /\ IsFiniteSet(At(P)') /\ IsFiniteSet(Others)
    BY RestoreAssumption, FS_Subset DEF At
<1>2. Cardinality(At(P)) \in Nat /\ Cardinality(At(P)') \in Nat /\ Cardinality(Others) \in Nat
    BY <1>1, FS_CardinalityType
<1>3. Cardinality(Others \cup {p}) = Cardinality(Others) + 1
    BY <1>1, FS_AddElement
<1>4. At(P) = IF pc[p] \in P THEN Others \cup {p} ELSE Others
    BY DEF At
<1>5. At(P)' = IF pc'[p] \in P THEN Others \cup {p} ELSE Others
    BY DEF At
<1> HIDE DEF Others
<1>6. Cardinality(At(P)) = IF pc[p] \in P THEN Cardinality(Others) + 1 ELSE Cardinality(Others)
    BY <1>3, <1>4
<1>7. Cardinality(At(P)') = IF pc'[p] \in P THEN Cardinality(Others) + 1 ELSE Cardinality(Others)
    BY <1>3, <1>5
<1> QED
    BY <1>2, <1>6, <1>7

(* What a plan wants of a store is a content. *)
LEMMA DesiredContent ==
    ASSUME TypeOK, NEW i \in Planned, NEW dir \in Directions, NEW s \in Stores
    PROVE  Desired(i, dir, s) \in Content
BY RestoreAssumption DEF TypeOK, Planned, Desired, Disconnected, Images, Content

(* A plan that is made gets the next number. *)
LEMMA NewPlan ==
    ASSUME Counted, NEW p \in Agents, pc[p] = "prepare"
    PROVE  LET i == Cardinality(Planned) + 1 IN i \in Ids /\ i \notin Planned
<1>1. p \in At({"prepare"}) /\ IsFiniteSet(At({"prepare"}))
    BY RestoreAssumption, FS_Subset DEF At
<1>2. Cardinality(At({"prepare"})) \in Nat /\ Cardinality(At({"prepare"})) # 0
    BY <1>1, FS_CardinalityType, FS_EmptySet
<1>3. Planned \subseteq Ids
    BY DEF Planned
<1>4. Cardinality(Planned) \in Nat
    <2>1. IsFiniteSet(Ids)
        BY FS_Interval, RestoreAssumption DEF Ids
    <2> QED
        BY <1>3, <2>1, FS_Subset, FS_CardinalityType
<1> QED
    BY <1>2, <1>4, RestoreAssumption DEF Counted, Ids

(* A write that was admitted has its number, and what it writes is a content. *)
LEMMA NewWrite ==
    ASSUME TypeFiles, TypeAgents, Counted, Shape, NEW p \in Agents, pc[p] = "write"
    PROVE  /\ writes + 1 \in 1..MaxWrites
           /\ \A s \in Stores : \A content \in NewContent(p, s, writes + 1) :
                  content \in Content /\ content # None
<1>1. p \in At({"lock", "write"}) /\ IsFiniteSet(At({"lock", "write"}))
    BY RestoreAssumption, FS_Subset DEF At
<1>2. Cardinality(At({"lock", "write"})) \in Nat /\ Cardinality(At({"lock", "write"})) # 0
    BY <1>1, FS_CardinalityType, FS_EmptySet
<1>3. writes + 1 \in 1..MaxWrites
    BY <1>2, RestoreAssumption DEF Counted, TypeFiles
<1>4. job[p].read \in Content
    BY DEF TypeAgents, Job
<1>5. ASSUME NEW s \in Stores, NEW content \in NewContent(p, s, writes + 1)
      PROVE  content \in SUBSET Items
    BY <1>3, <1>4, <1>5 DEF NewContent, Content, Items, Stores
<1> QED
    BY <1>3, <1>5, RestoreAssumption DEF Content

(* A job stays one when its fields change. *)
LEMMA JobFields ==
    ASSUME NEW f \in [Agents -> Job], NEW p \in Agents, NEW i \in {NoId} \cup Ids,
           NEW dir \in Directions \cup {None}, NEW target \in Images \cup {None}
    PROVE  /\ [f EXCEPT ![p].id = i, ![p].dir = dir] \in [Agents -> Job]
           /\ [f EXCEPT ![p].id = i, ![p].dir = dir, ![p].target = target] \in [Agents -> Job]
<1>1. ASSUME NEW g \in [Agents -> Job] PROVE [g EXCEPT ![p].id = i] \in [Agents -> Job]
    BY <1>1 DEF Job
<1>2. ASSUME NEW g \in [Agents -> Job] PROVE [g EXCEPT ![p].dir = dir] \in [Agents -> Job]
    BY <1>2 DEF Job
<1>3. ASSUME NEW g \in [Agents -> Job] PROVE [g EXCEPT ![p].target = target] \in [Agents -> Job]
    BY <1>3 DEF Job
<1> QED
    BY <1>1, <1>2, <1>3

(* What begins is a new plan, and the native marker names it. *)
LEMMA Begins ==
    ASSUME TypeOK, Counted, NEW p \in Agents, Begin(p)
    PROVE  \E i \in Ids :
               /\ i \notin Planned /\ Planned' = Planned \cup {i}
               /\ i = Cardinality(Planned) + 1
               /\ plan' = [plan EXCEPT ![i] = file]
               /\ nmark' = [id |-> i, dir |-> "restore"] /\ nmark' \in Marker
               /\ job' = [job EXCEPT ![p].id = i, ![p].dir = "restore", ![p].target = None]
               /\ job'[p].id = i /\ job'[p].dir = "restore"
<1> DEFINE i == Cardinality(Planned) + 1
<1>1. i \in Ids /\ i \notin Planned
    BY NewPlan DEF Begin
<1>2. /\ plan' = [plan EXCEPT ![i] = file] /\ nmark' = [id |-> i, dir |-> "restore"]
      /\ job' = [job EXCEPT ![p].id = i, ![p].dir = "restore", ![p].target = None]
      /\ file # None
    BY RestoreAssumption DEF Begin, TypeOK
<1> HIDE DEF i
<1>3. Planned' = Planned \cup {i}
    BY <1>1, <1>2 DEF Planned, TypeOK
<1>4. nmark' \in Marker
    BY <1>1, <1>2 DEF Marker, Directions
<1>5. job'[p].id = i /\ job'[p].dir = "restore"
    BY <1>2, JobOf DEF TypeOK
<1>6. i = Cardinality(Planned) + 1
    BY DEF i
<1> QED
    BY <1>1, <1>2, <1>3, <1>4, <1>5, <1>6

(* What is taken over is the plan the marker names, in its direction. *)
LEMMA TakesOver ==
    ASSUME TypeOK, NEW p \in Agents, TakeOver(p)
    PROVE  /\ nmark \in Marker /\ nmark' \in Marker /\ nmark'.id = nmark.id
           /\ job[p].id = nmark.id
           /\ job'[p].id = nmark'.id /\ job'[p].dir = nmark'.dir
           /\ job' = [job EXCEPT ![p].dir = nmark'.dir]
<1>1. nmark \in Marker /\ job[p].dir \in Directions \cup {None} /\ job[p].id = nmark.id
    BY JobOf DEF TakeOver, StillPending, Pending, TypeOK
<1>2. nmark' \in Marker /\ nmark'.id = nmark.id
    <2>1. CASE job[p].dir = None
        BY <1>1, <2>1 DEF TakeOver
    <2>2. CASE job[p].dir # None
        BY <1>1, <2>2 DEF TakeOver, Marker
    <2> QED
        BY <2>1, <2>2
<1>3. job' = [job EXCEPT ![p].dir = nmark'.dir]
    BY DEF TakeOver
<1>4. job'[p].id = job[p].id /\ job'[p].dir = nmark'.dir
    BY <1>3, JobOf DEF TypeOK, Job
<1> QED
    BY <1>1, <1>2, <1>3, <1>4

-----------------------------------------------------------------------------
(* Each part is preserved, action by action. *)

(* Every agent is at a place. *)
LEMMA PcStep ==
    ASSUME TypeAgents, [Next]_vars
    PROVE  pc' \in [Agents -> Places]
<1>1. ASSUME NEW p \in Agents,
             \/ (\E s \in Stores : ReplaceFile(p, s))  \/ Restart(p)
      PROVE  pc' \in [Agents -> Places]
    BY <1>1 DEF ReplaceFile, Restart, agent, TypeAgents
<1>2. ASSUME NEW p \in Agents,
             \/ (\E s \in Stores : WriteCall(p, s))  \/ RestoreCall(p)  \/ (\E back \in BOOLEAN : ResumeCall(p, back))
             \/ WriteLock(p)  \/ Begin(p)  \/ TakeOver(p)
             \/ WriteCoreMarker(p)  \/ CheckFiles(p)  \/ WriteReceipt(p)
             \/ WriteCoreGeneration(p)  \/ WriteNativeGeneration(p)  \/ UnlockCore(p)
      PROVE  pc' \in [Agents -> Places]
    BY <1>2 DEF WriteCall, RestoreCall, ResumeCall, WriteLock, Begin, TakeOver,
             WriteCoreMarker, CheckFiles, WriteReceipt, WriteCoreGeneration,
             WriteNativeGeneration, UnlockCore, Goto, Places, TypeAgents
<1>3. ASSUME NEW p \in Agents,
             \/ RefuseWrite(p)  \/ RefuseRestore(p)  \/ RefuseResume(p)
             \/ RefuseFiles(p)  \/ WriteCommit(p)  \/ UnlockNative(p)
             \/ Crash(p)
      PROVE  pc' \in [Agents -> Places]
    BY <1>3 DEF RefuseWrite, RefuseRestore, RefuseResume, RefuseFiles,
             WriteCommit, UnlockNative, Crash, Finish, Goto, Places,
             TypeAgents
<1>4. CASE UNCHANGED vars
    BY <1>4 DEF vars, agent, TypeAgents
<1> QED
    BY <1>1, <1>2, <1>3, <1>4 DEF Next, Step

(* Every agent has a job. *)
LEMMA JobStep ==
    ASSUME TypeOK, TypeFiles, TypeAgents, Counted, Shape, [Next]_vars
    PROVE  job' \in [Agents -> Job]
<1>1. ASSUME NEW p \in Agents,
             \/ (\E s \in Stores : ReplaceFile(p, s))  \/ Restart(p)  \/ WriteCoreMarker(p)
             \/ CheckFiles(p)  \/ WriteReceipt(p)  \/ WriteCoreGeneration(p)
             \/ WriteNativeGeneration(p)  \/ UnlockCore(p)
      PROVE  job' \in [Agents -> Job]
    BY <1>1 DEF ReplaceFile, Restart, WriteCoreMarker, CheckFiles, WriteReceipt,
             WriteCoreGeneration, WriteNativeGeneration, UnlockCore, agent,
             TypeAgents
<1>2. ASSUME NEW p \in Agents,
             \/ RefuseWrite(p)  \/ RefuseRestore(p)  \/ RefuseResume(p)
             \/ RefuseFiles(p)  \/ WriteCommit(p)  \/ UnlockNative(p)
             \/ Crash(p)
      PROVE  job' \in [Agents -> Job]
    <2>1. NoJob \in Job
        BY DEF NoJob, Job, Content
    <2> QED
        BY <1>2, <2>1 DEF RefuseWrite, RefuseRestore, RefuseResume, RefuseFiles, WriteCommit, UnlockNative, Crash, Finish, TypeAgents
<1>3. ASSUME NEW p \in Agents, NEW s \in Stores, WriteCall(p, s) PROVE job' \in [Agents -> Job]
    BY <1>3 DEF WriteCall, TypeAgents, Job
<1>4. ASSUME NEW p \in Agents, RestoreCall(p) PROVE job' \in [Agents -> Job]
    <2>1. job' = [job EXCEPT ![p].target = file] /\ file \in Images
        BY <1>4 DEF RestoreCall, TypeFiles
    <2> QED
        BY <2>1 DEF TypeAgents, Job
<1>5. ASSUME NEW p \in Agents, NEW back \in BOOLEAN, ResumeCall(p, back) PROVE job' \in [Agents -> Job]
    <2>1. nmark.id \in Ids
        BY <1>5 DEF ResumeCall, TypeFiles, Pending, Marker
    <2> QED
        BY <1>5, <2>1, JobFields DEF ResumeCall, TypeAgents, Directions
<1>6. ASSUME NEW p \in Agents, WriteLock(p) PROVE job' \in [Agents -> Job]
    <2>1. (IF job[p].store = "history" THEN base[p].history ELSE file[job[p].store]) \in Content
        BY <1>6 DEF WriteLock, Shape, TypeAgents, TypeFiles, Base, Images
    <2> QED
        BY <1>6, <2>1 DEF WriteLock, TypeAgents, Job
<1>7. ASSUME NEW p \in Agents, Begin(p) PROVE job' \in [Agents -> Job]
    <2>1. PICK i \in Ids : job' = [job EXCEPT ![p].id = i, ![p].dir = "restore", ![p].target = None]
        BY <1>7, Begins
    <2> QED
        BY <2>1, JobFields, TypeParts DEF TypeAgents, Directions
<1>8. ASSUME NEW p \in Agents, TakeOver(p) PROVE job' \in [Agents -> Job]
    <2>1. nmark' \in Marker /\ job' = [job EXCEPT ![p].dir = nmark'.dir]
        BY <1>8, TakesOver
    <2>2. nmark'.dir \in Directions
        BY <2>1 DEF Marker
    <2> QED
        BY <2>1, <2>2, TypeParts DEF TypeAgents, Job
<1>9. CASE UNCHANGED vars
    BY <1>9 DEF vars, agent, TypeAgents
<1> QED
    BY <1>1, <1>2, <1>3, <1>4, <1>5, <1>6, <1>7, <1>8, <1>9 DEF Next, Step

(* Every lock is free or held. *)
LEMMA LockStep ==
    ASSUME TypeAgents, Shape, [Next]_vars
    PROVE  lock' \in [Stores -> Agents \cup {None}]
<1>1. ASSUME NEW p \in Agents,
             \/ (\E s \in Stores : WriteCall(p, s))  \/ RestoreCall(p)  \/ (\E back \in BOOLEAN : ResumeCall(p, back))
             \/ (\E s \in Stores : ReplaceFile(p, s))  \/ Restart(p)  \/ WriteCoreMarker(p)
             \/ CheckFiles(p)  \/ WriteReceipt(p)  \/ WriteCoreGeneration(p)
             \/ WriteNativeGeneration(p)  \/ UnlockCore(p)
      PROVE  lock' \in [Stores -> Agents \cup {None}]
    BY <1>1 DEF WriteCall, RestoreCall, ResumeCall, ReplaceFile, Restart,
             WriteCoreMarker, CheckFiles, WriteReceipt, WriteCoreGeneration,
             WriteNativeGeneration, UnlockCore, disk, agent, TypeAgents
<1>2. ASSUME NEW p \in Agents,
             \/ RefuseWrite(p)  \/ RefuseRestore(p)  \/ RefuseResume(p)
             \/ RefuseFiles(p)  \/ WriteCommit(p)  \/ UnlockNative(p)
             \/ Crash(p)
      PROVE  lock' \in [Stores -> Agents \cup {None}]
    BY <1>2 DEF RefuseWrite, RefuseRestore, RefuseResume, RefuseFiles,
             WriteCommit, UnlockNative, Crash, Finish, Release, TypeAgents
<1>3. ASSUME NEW p \in Agents,
             \/ Begin(p)  \/ TakeOver(p)
      PROVE  lock' \in [Stores -> Agents \cup {None}]
    BY <1>3 DEF Begin, TakeOver, TakeAll, TypeAgents
<1>4. ASSUME NEW p \in Agents, WriteLock(p) PROVE lock' \in [Stores -> Agents \cup {None}]
    BY <1>4 DEF WriteLock, Shape, TypeAgents
<1>5. CASE UNCHANGED vars
    BY <1>5 DEF vars, TypeAgents
<1> QED
    BY <1>1, <1>2, <1>3, <1>4, <1>5 DEF Next, Step

(* Every agent has read a generation and the chats. *)
LEMMA BaseStep ==
    ASSUME TypeFiles, TypeAgents, Counted, Shape, [Next]_vars
    PROVE  base' \in [Agents -> Base]
<1>1. ASSUME NEW p \in Agents,
             \/ (\E s \in Stores : WriteCall(p, s))  \/ RestoreCall(p)  \/ (\E back \in BOOLEAN : ResumeCall(p, back))
             \/ WriteLock(p)  \/ RefuseWrite(p)  \/ Begin(p)
             \/ RefuseRestore(p)  \/ TakeOver(p)  \/ RefuseResume(p)
             \/ WriteCoreMarker(p)  \/ CheckFiles(p)  \/ RefuseFiles(p)
             \/ (\E s \in Stores : ReplaceFile(p, s))  \/ WriteReceipt(p)  \/ WriteCoreGeneration(p)
             \/ WriteNativeGeneration(p)  \/ UnlockCore(p)  \/ UnlockNative(p)
      PROVE  base' \in [Agents -> Base]
    BY <1>1 DEF WriteCall, RestoreCall, ResumeCall, WriteLock, RefuseWrite,
             Begin, RefuseRestore, TakeOver, RefuseResume, WriteCoreMarker,
             CheckFiles, RefuseFiles, ReplaceFile, WriteReceipt,
             WriteCoreGeneration, WriteNativeGeneration, UnlockCore,
             UnlockNative, agent, TypeAgents
<1>2. ASSUME NEW p \in Agents,
             \/ Restart(p)  \/ Crash(p)
      PROVE  base' \in [Agents -> Base]
    <2>1. Fresh \in Base
        BY DEF Fresh, Base, TypeFiles, Images, Content, Stores
    <2> QED
        BY <1>2, <2>1 DEF Restart, Crash, TypeAgents
<1>3. ASSUME NEW p \in Agents, WriteCommit(p) PROVE base' \in [Agents -> Base]
    <2>1. \A content \in NewContent(p, "history", writes + 1) : content \in Content
        BY <1>3, NewWrite DEF WriteCommit, Stores
    <2> QED
        BY <1>3, <2>1 DEF WriteCommit, TypeAgents, Base
<1>4. CASE UNCHANGED vars
    BY <1>4 DEF vars, agent, TypeAgents
<1> QED
    BY <1>1, <1>2, <1>3, <1>4 DEF Next, Step

(* Every file has a content. *)
LEMMA ImageStep ==
    ASSUME TypeOK, Counted, Shape, [Next]_vars
    PROVE  file' \in Images
<1>1. ASSUME NEW p \in Agents,
             \/ (\E s \in Stores : WriteCall(p, s))  \/ RestoreCall(p)  \/ (\E back \in BOOLEAN : ResumeCall(p, back))
             \/ WriteLock(p)  \/ RefuseWrite(p)  \/ Begin(p)
             \/ RefuseRestore(p)  \/ TakeOver(p)  \/ RefuseResume(p)
             \/ WriteCoreMarker(p)  \/ CheckFiles(p)  \/ RefuseFiles(p)
             \/ WriteReceipt(p)  \/ WriteCoreGeneration(p)  \/ WriteNativeGeneration(p)
             \/ UnlockCore(p)  \/ UnlockNative(p)  \/ Restart(p)
             \/ Crash(p)
      PROVE  file' \in Images
    BY <1>1 DEF WriteCall, RestoreCall, ResumeCall, WriteLock, RefuseWrite,
             Begin, RefuseRestore, TakeOver, RefuseResume, WriteCoreMarker,
             CheckFiles, RefuseFiles, WriteReceipt, WriteCoreGeneration,
             WriteNativeGeneration, UnlockCore, UnlockNative, Restart, Crash,
             disk, TypeOK
<1>2. ASSUME NEW p \in Agents, WriteCommit(p) PROVE file' \in Images
    <2>1. job[p].store \in Stores
        BY <1>2 DEF WriteCommit, Shape
    <2>2. \A content \in NewContent(p, job[p].store, writes + 1) : content \in Content
        BY <1>2, <2>1, NewWrite, TypeParts DEF WriteCommit
    <2> QED
        BY <1>2, <2>1, <2>2 DEF WriteCommit, TypeOK, Images
<1>3. ASSUME NEW p \in Agents, NEW s \in Stores, ReplaceFile(p, s) PROVE file' \in Images
    <2>1. Desired(job[p].id, job[p].dir, s) \in Content
        BY <1>3, DesiredContent DEF ReplaceFile, Shape, Restoring, Places
    <2> QED
        BY <1>3, <2>1 DEF ReplaceFile, TypeOK, Images
<1>4. CASE UNCHANGED vars
    BY <1>4 DEF vars, disk, TypeOK
<1> QED
    BY <1>1, <1>2, <1>3, <1>4 DEF Next, Step

(* The markers, the generations, the plans and their receipts. *)
TypeGate ==
    /\ nmark \in Marker \cup {None} /\ cmark \in {NoId} \cup Ids
    /\ ngen \in Marker \cup {None} /\ cgen \in Marker \cup {None}
    /\ plan \in [Ids -> Images \cup {None}] /\ receipt \in [Ids -> Directions \cup {None}]

(* The markers, the generations, the plans and the receipts have their types. *)
LEMMA GateStep ==
    ASSUME TypeOK, Counted, Shape, [Next]_vars
    PROVE  TypeGate'
<1>1. ASSUME NEW p \in Agents,
             \/ (\E s \in Stores : WriteCall(p, s))  \/ RestoreCall(p)  \/ (\E back \in BOOLEAN : ResumeCall(p, back))
             \/ WriteLock(p)  \/ RefuseWrite(p)  \/ WriteCommit(p)
             \/ RefuseRestore(p)  \/ RefuseResume(p)  \/ CheckFiles(p)
             \/ RefuseFiles(p)  \/ (\E s \in Stores : ReplaceFile(p, s))  \/ Restart(p)
             \/ Crash(p)
      PROVE  TypeGate'
    BY <1>1 DEF WriteCall, RestoreCall, ResumeCall, WriteLock, RefuseWrite,
             WriteCommit, RefuseRestore, RefuseResume, CheckFiles,
             RefuseFiles, ReplaceFile, Restart, Crash, Finish, disk, gate,
             TypeGate, TypeOK
<1>2. ASSUME NEW p \in Agents,
             \/ WriteCoreMarker(p)  \/ UnlockCore(p)  \/ UnlockNative(p)
             \/ WriteReceipt(p)
      PROVE  TypeGate'
    <2>1. pc[p] \in Restoring => job[p].id \in Ids /\ job[p].dir \in Directions
        BY DEF Shape, Planned
    <2> QED
        BY <1>2, <2>1 DEF WriteCoreMarker, UnlockCore, UnlockNative, WriteReceipt, gate, Restoring, Places, TypeOK, TypeGate
<1>3. ASSUME NEW p \in Agents,
             \/ WriteCoreGeneration(p)  \/ WriteNativeGeneration(p)
      PROVE  TypeGate'
    <2>1. pc[p] \in Restoring => Generation(p) \in Marker
        BY DEF Shape, Planned, Generation, Marker
    <2> QED
        BY <1>3, <2>1 DEF WriteCoreGeneration, WriteNativeGeneration, Restoring, Places, TypeOK, TypeGate
<1>4. ASSUME NEW p \in Agents, Begin(p) PROVE TypeGate'
    <2>1. PICK i \in Ids : plan' = [plan EXCEPT ![i] = file] /\ nmark' \in Marker
        BY <1>4, Begins
    <2>2. UNCHANGED <<cmark, ngen, cgen, receipt>>
        BY <1>4 DEF Begin
    <2> QED
        BY <2>1, <2>2 DEF TypeOK, TypeGate
<1>5. ASSUME NEW p \in Agents, TakeOver(p) PROVE TypeGate'
    BY <1>5, TakesOver DEF TakeOver, TypeOK, TypeGate
<1>6. CASE UNCHANGED vars
    BY <1>6 DEF vars, disk, gate, TypeOK, TypeGate
<1> QED
    BY <1>1, <1>2, <1>3, <1>4, <1>5, <1>6 DEF Next, Step

(* What was reported, the writes and the crashes have their types. *)
LEMMA CountStep ==
    ASSUME TypeOK, Counted, Shape, [Next]_vars
    PROVE  acked' \in [Stores -> SUBSET Items] /\ writes' \in 0..MaxWrites /\ crashes' \in 0..MaxCrashes
<1>1. ASSUME NEW p \in Agents,
             \/ (\E s \in Stores : WriteCall(p, s))  \/ RestoreCall(p)  \/ (\E back \in BOOLEAN : ResumeCall(p, back))
             \/ WriteLock(p)  \/ RefuseWrite(p)  \/ Begin(p)
             \/ RefuseRestore(p)  \/ TakeOver(p)  \/ RefuseResume(p)
             \/ WriteCoreMarker(p)  \/ CheckFiles(p)  \/ RefuseFiles(p)
             \/ (\E s \in Stores : ReplaceFile(p, s))  \/ WriteReceipt(p)  \/ WriteCoreGeneration(p)
             \/ WriteNativeGeneration(p)  \/ UnlockCore(p)  \/ UnlockNative(p)
             \/ Restart(p)
      PROVE  acked' \in [Stores -> SUBSET Items] /\ writes' \in 0..MaxWrites /\ crashes' \in 0..MaxCrashes
    BY <1>1 DEF WriteCall, RestoreCall, ResumeCall, WriteLock, RefuseWrite,
             Begin, RefuseRestore, TakeOver, RefuseResume, WriteCoreMarker,
             CheckFiles, RefuseFiles, ReplaceFile, WriteReceipt,
             WriteCoreGeneration, WriteNativeGeneration, UnlockCore,
             UnlockNative, Restart, bounds, TypeOK
<1>2. ASSUME NEW p \in Agents, Crash(p) PROVE acked' \in [Stores -> SUBSET Items] /\ writes' \in 0..MaxWrites /\ crashes' \in 0..MaxCrashes
    BY <1>2, RestoreAssumption DEF Crash, TypeOK
<1>3. ASSUME NEW p \in Agents, WriteCommit(p) PROVE acked' \in [Stores -> SUBSET Items] /\ writes' \in 0..MaxWrites /\ crashes' \in 0..MaxCrashes
    <2>1. writes + 1 \in 1..MaxWrites
        BY <1>3, NewWrite, TypeParts DEF WriteCommit
    <2>2. writes + 1 \in Items
        BY <2>1, RestoreAssumption DEF Items
    <2>3. writes' \in 0..MaxWrites /\ crashes' \in 0..MaxCrashes
        BY <1>3, <2>1, RestoreAssumption DEF WriteCommit, TypeOK
    <2>4. acked' \in [Stores -> SUBSET Items]
        BY <1>3, <2>2 DEF WriteCommit, Shape, TypeOK
    <2> QED
        BY <2>3, <2>4
<1>4. CASE UNCHANGED vars
    BY <1>4 DEF vars, bounds, TypeOK
<1> QED
    BY <1>1, <1>2, <1>3, <1>4 DEF Next, Step

(* The types are preserved. *)
LEMMA TypeStep ==
    ASSUME TypeOK, Counted, Shape, [Next]_vars
    PROVE  TypeOK'
<1>1. TypeFiles /\ TypeAgents
    BY TypeParts
<1>2. TypeAgents'
    BY <1>1, PcStep, JobStep, LockStep, BaseStep DEF TypeAgents
<1>3. TypeFiles'
    BY ImageStep, GateStep, CountStep DEF TypeFiles, TypeGate
<1> QED
    BY <1>2, <1>3 DEF TypeOK, TypeFiles, TypeAgents, Job, Base

(* How many plans there are. *)
LEMMA PlannedCount == TypeOK => IsFiniteSet(Planned) /\ Cardinality(Planned) \in Nat
<1>1. IsFiniteSet(Ids) /\ Planned \subseteq Ids
    BY FS_Interval, RestoreAssumption DEF Ids, Planned
<1> QED
    BY <1>1, FS_Subset, FS_CardinalityType

(* Numbers and room. *)
LEMMA CountedStep ==
    ASSUME TypeOK, Counted, Shape, [Next]_vars
    PROVE  Counted'
<1>1. ASSUME NEW p \in Agents,
             \/ (\E s \in Stores : ReplaceFile(p, s))  \/ Restart(p)
      PROVE  Counted'
    BY <1>1 DEF ReplaceFile, Restart, agent, disk, bounds, Counted, At, Planned
<1>2. ASSUME NEW p \in Agents,
             \/ (\E back \in BOOLEAN : ResumeCall(p, back))  \/ WriteLock(p)  \/ RefuseWrite(p)
             \/ RefuseRestore(p)  \/ TakeOver(p)  \/ RefuseResume(p)
             \/ WriteCoreMarker(p)  \/ CheckFiles(p)  \/ RefuseFiles(p)
             \/ WriteReceipt(p)  \/ WriteCoreGeneration(p)  \/ WriteNativeGeneration(p)
             \/ UnlockCore(p)  \/ UnlockNative(p)  \/ Crash(p)
      PROVE  Counted'
    <2>1. /\ \A q \in Agents \ {p} : pc'[q] = pc[q]
          /\ pc'[p] # "prepare" /\ (pc'[p] \in {"lock", "write"} => pc[p] \in {"lock", "write"})
        BY <1>2 DEF TypeOK, ResumeCall, WriteLock, RefuseWrite, RefuseRestore, TakeOver,
            RefuseResume, WriteCoreMarker, CheckFiles, RefuseFiles,
            WriteReceipt, WriteCoreGeneration, WriteNativeGeneration,
            UnlockCore, UnlockNative, Crash, Finish, Goto
    <2>2. plan' = plan /\ writes' = writes
        BY <1>2 DEF ResumeCall, WriteLock, RefuseWrite, RefuseRestore, TakeOver,
            RefuseResume, WriteCoreMarker, CheckFiles, RefuseFiles,
            WriteReceipt, WriteCoreGeneration, WriteNativeGeneration,
            UnlockCore, UnlockNative, Crash, Finish, disk, bounds
    <2>3. Planned' = Planned
        BY <2>2 DEF Planned
    <2>4. /\ Cardinality(At({"prepare"})) \in Nat /\ Cardinality(At({"prepare"})') \in Nat
          /\ Cardinality(At({"prepare"})') <= Cardinality(At({"prepare"}))
        BY <2>1, Moving
    <2>5. /\ Cardinality(At({"lock", "write"})) \in Nat /\ Cardinality(At({"lock", "write"})') \in Nat
          /\ Cardinality(At({"lock", "write"})') <= Cardinality(At({"lock", "write"}))
        BY <2>1, Moving
    <2> QED
        BY <2>2, <2>3, <2>4, <2>5, PlannedCount, RestoreAssumption DEF Counted, TypeOK
<1>3. ASSUME NEW p \in Agents, NEW s \in Stores, WriteCall(p, s) PROVE Counted'
    <2>1. /\ \A q \in Agents \ {p} : pc'[q] = pc[q]
          /\ pc'[p] = "lock" /\ plan' = plan /\ writes' = writes /\ pc[p] = "idle"
        BY <1>3 DEF WriteCall, Goto, disk, bounds, TypeOK
    <2>2. Planned' = Planned
        BY <2>1 DEF Planned
    <2>3. /\ Cardinality(At({"prepare"})) \in Nat /\ Cardinality(At({"prepare"})') \in Nat
          /\ Cardinality(At({"prepare"})') <= Cardinality(At({"prepare"}))
        BY <2>1, Moving
    <2>4. /\ Cardinality(At({"lock", "write"})) \in Nat /\ Cardinality(At({"lock", "write"})') \in Nat
          /\ Cardinality(At({"lock", "write"})') <= Cardinality(At({"lock", "write"})) + 1
        BY <2>1, Moving
    <2>5. writes + Cardinality(At({"lock", "write"})) < MaxWrites
        BY <1>3 DEF WriteCall, At
    <2> QED
        BY <2>1, <2>2, <2>3, <2>4, <2>5, PlannedCount, RestoreAssumption DEF Counted, TypeOK
<1>4. ASSUME NEW p \in Agents, RestoreCall(p) PROVE Counted'
    <2>1. /\ \A q \in Agents \ {p} : pc'[q] = pc[q]
          /\ pc'[p] = "prepare" /\ plan' = plan /\ writes' = writes /\ pc[p] = "idle"
        BY <1>4 DEF RestoreCall, Goto, disk, bounds, TypeOK
    <2>2. Planned' = Planned
        BY <2>1 DEF Planned
    <2>3. /\ Cardinality(At({"prepare"})) \in Nat /\ Cardinality(At({"prepare"})') \in Nat
          /\ Cardinality(At({"prepare"})') <= Cardinality(At({"prepare"})) + 1
        BY <2>1, Moving
    <2>4. /\ Cardinality(At({"lock", "write"})) \in Nat /\ Cardinality(At({"lock", "write"})') \in Nat
          /\ Cardinality(At({"lock", "write"})') <= Cardinality(At({"lock", "write"}))
        BY <2>1, Moving
    <2>5. Cardinality(Planned) + Cardinality(At({"prepare"})) < MaxRestores
        <3>1. At({"prepare"}) = {q \in Agents : pc[q] = "prepare"}
            BY DEF At
        <3> QED
            BY <1>4, <3>1 DEF RestoreCall
    <2> QED
        BY <2>1, <2>2, <2>3, <2>4, <2>5, PlannedCount, RestoreAssumption DEF Counted, TypeOK
<1>5. ASSUME NEW p \in Agents, WriteCommit(p) PROVE Counted'
    <2>1. /\ \A q \in Agents \ {p} : pc'[q] = pc[q]
          /\ pc'[p] = "idle" /\ plan' = plan /\ writes' = writes + 1 /\ pc[p] = "write"
        BY <1>5 DEF WriteCommit, Finish, Goto, TypeOK
    <2>2. Planned' = Planned
        BY <2>1 DEF Planned
    <2>3. /\ Cardinality(At({"prepare"})) \in Nat /\ Cardinality(At({"prepare"})') \in Nat
          /\ Cardinality(At({"prepare"})') <= Cardinality(At({"prepare"}))
        BY <2>1, Moving
    <2>4. /\ Cardinality(At({"lock", "write"})) \in Nat /\ Cardinality(At({"lock", "write"})') \in Nat
          /\ Cardinality(At({"lock", "write"})') + 1 <= Cardinality(At({"lock", "write"}))
        BY <2>1, Moving
    <2> QED
        BY <2>1, <2>2, <2>3, <2>4, PlannedCount, RestoreAssumption DEF Counted, TypeOK
<1>6. ASSUME NEW p \in Agents, Begin(p) PROVE Counted'
    <2>1. /\ \A q \in Agents \ {p} : pc'[q] = pc[q]
          /\ pc'[p] = "marked" /\ writes' = writes /\ pc[p] = "prepare"
        BY <1>6 DEF Begin, Goto, bounds, TypeOK
    <2>2. PICK i \in Ids : i \notin Planned /\ Planned' = Planned \cup {i} /\ i = Cardinality(Planned) + 1
        BY <1>6, Begins
    <2>4. Cardinality(Planned') = i
        BY <2>2, PlannedCount, FS_AddElement
    <2>5. Planned' = 1..i
        BY <2>2, PlannedCount DEF Counted
    <2>6. /\ Cardinality(At({"prepare"})) \in Nat /\ Cardinality(At({"prepare"})') \in Nat
          /\ Cardinality(At({"prepare"})') + 1 <= Cardinality(At({"prepare"}))
        BY <2>1, Moving
    <2>7. /\ Cardinality(At({"lock", "write"})) \in Nat /\ Cardinality(At({"lock", "write"})') \in Nat
          /\ Cardinality(At({"lock", "write"})') <= Cardinality(At({"lock", "write"}))
        BY <2>1, Moving
    <2> QED
        <3>1. MaxRestores \in Nat /\ MaxWrites \in Nat /\ writes \in Nat /\ Cardinality(Planned) \in Nat
            BY PlannedCount, RestoreAssumption DEF TypeOK
        <3>2. Planned' = 1..Cardinality(Planned')
            BY <2>4, <2>5
        <3>3. Cardinality(Planned') + Cardinality(At({"prepare"})') <= MaxRestores
            BY <2>2, <2>4, <2>6, <3>1 DEF Counted
        <3>4. writes' + Cardinality(At({"lock", "write"})') <= MaxWrites
            BY <2>1, <2>7, <3>1 DEF Counted
        <3> QED
            BY <3>2, <3>3, <3>4 DEF Counted
<1>7. CASE UNCHANGED vars
    BY <1>7 DEF vars, agent, disk, bounds, Counted, At, Planned
<1> QED
    BY <1>1, <1>2, <1>3, <1>4, <1>5, <1>6, <1>7 DEF Next, Step

(* A plan is never changed. *)
LEMMA PlansStay ==
    ASSUME TypeOK, Counted, [Next]_vars
    PROVE  (\A i \in Planned : i \in Planned' /\ plan'[i] = plan[i])
<1>1. ASSUME NEW p \in Agents,
             \/ (\E s \in Stores : WriteCall(p, s))  \/ RestoreCall(p)  \/ (\E back \in BOOLEAN : ResumeCall(p, back))
             \/ WriteLock(p)  \/ RefuseWrite(p)  \/ WriteCommit(p)
             \/ RefuseRestore(p)  \/ TakeOver(p)  \/ RefuseResume(p)
             \/ WriteCoreMarker(p)  \/ CheckFiles(p)  \/ RefuseFiles(p)
             \/ (\E s \in Stores : ReplaceFile(p, s))  \/ WriteReceipt(p)  \/ WriteCoreGeneration(p)
             \/ WriteNativeGeneration(p)  \/ UnlockCore(p)  \/ UnlockNative(p)
             \/ Restart(p)  \/ Crash(p)
      PROVE  (\A i \in Planned : i \in Planned' /\ plan'[i] = plan[i])
    BY <1>1 DEF WriteCall, RestoreCall, ResumeCall, WriteLock, RefuseWrite,
             WriteCommit, RefuseRestore, TakeOver, RefuseResume,
             WriteCoreMarker, CheckFiles, RefuseFiles, ReplaceFile,
             WriteReceipt, WriteCoreGeneration, WriteNativeGeneration,
             UnlockCore, UnlockNative, Restart, Crash, disk, Planned
<1>2. ASSUME NEW p \in Agents, Begin(p) PROVE (\A i \in Planned : i \in Planned' /\ plan'[i] = plan[i])
    <2>1. PICK i \in Ids : i \notin Planned /\ Planned' = Planned \cup {i} /\ plan' = [plan EXCEPT ![i] = file]
        BY <1>2, Begins
    <2> QED
        BY <2>1 DEF Planned, TypeOK
<1>3. CASE UNCHANGED vars
    BY <1>3 DEF vars, disk, Planned
<1> QED
    BY <1>1, <1>2, <1>3 DEF Next, Step

(* What an agent is about fits its place. *)
LEMMA ShapeStep ==
    ASSUME TypeOK, Counted, Shape, Marked, [Next]_vars
    PROVE  Shape'
<1>1. ASSUME NEW p \in Agents,
             \/ RefuseWrite(p)  \/ RefuseRestore(p)  \/ RefuseResume(p)
             \/ RefuseFiles(p)  \/ WriteCommit(p)  \/ UnlockNative(p)
             \/ Crash(p)
      PROVE  Shape'
    BY <1>1, PlansStay DEF RefuseWrite, RefuseRestore, RefuseResume, RefuseFiles, WriteCommit,
        UnlockNative, Crash, Finish, Goto, Shape, TypeOK, Restoring, Places
<1>2. ASSUME NEW p \in Agents,
             \/ (\E s \in Stores : ReplaceFile(p, s))  \/ Restart(p)
      PROVE  Shape'
    BY <1>2, PlansStay DEF ReplaceFile, Restart, agent, Shape
<1>3. ASSUME NEW p \in Agents,
             \/ WriteCoreMarker(p)  \/ CheckFiles(p)  \/ WriteReceipt(p)
             \/ WriteCoreGeneration(p)  \/ WriteNativeGeneration(p)  \/ UnlockCore(p)
      PROVE  Shape'
    BY <1>3, PlansStay DEF WriteCoreMarker, CheckFiles, WriteReceipt, WriteCoreGeneration,
        WriteNativeGeneration, UnlockCore, Goto, Shape, TypeOK, Restoring,
        Places
<1>4. ASSUME NEW p \in Agents, NEW s \in Stores, WriteCall(p, s) PROVE Shape'
    BY <1>4 DEF WriteCall, Goto, Shape, TypeOK, Restoring, Places, disk, Planned
<1>5. ASSUME NEW p \in Agents, RestoreCall(p) PROVE Shape'
    BY <1>5 DEF RestoreCall, Goto, Shape, TypeOK, Restoring, Places, disk,
             Planned
<1>6. ASSUME NEW p \in Agents, NEW back \in BOOLEAN, ResumeCall(p, back) PROVE Shape'
    BY <1>6 DEF ResumeCall, Goto, Shape, TypeOK, Restoring, Places, disk,
             Planned, Pending, Marker, NoId, Ids
<1>7. ASSUME NEW p \in Agents, WriteLock(p) PROVE Shape'
    BY <1>7 DEF WriteLock, Goto, Shape, TypeOK, Restoring, Places, disk, Planned
<1>8. ASSUME NEW p \in Agents, Begin(p) PROVE Shape'
    <2>1. job'[p].id \in Planned' /\ job'[p].dir = "restore"
        BY <1>8, Begins
    <2> QED
        BY <1>8, <2>1, PlansStay DEF Begin, Goto, Shape, TypeOK, Restoring, Places, Directions
<1>9. ASSUME NEW p \in Agents, TakeOver(p) PROVE Shape'
    <2>1. job'[p].id \in Planned' /\ job'[p].dir \in Directions
        BY <1>9, TakesOver, PlansStay DEF Marked, TakeOver, StillPending, Pending, Marker
    <2> QED
        BY <1>9, <2>1, PlansStay DEF TakeOver, Goto, Shape, TypeOK, Restoring, Places
<1>10. CASE UNCHANGED vars
    BY <1>10 DEF vars, disk, agent, Shape, Planned
<1> QED
    BY <1>1, <1>2, <1>3, <1>4, <1>5, <1>6, <1>7, <1>8, <1>9, <1>10 DEF Next, Step

(* Who works with the files holds their locks. *)
LEMMA LockedStep ==
    ASSUME TypeOK, Shape, Locked, [Next]_vars
    PROVE  Locked'
<1>1. ASSUME NEW p \in Agents,
             \/ RefuseWrite(p)  \/ RefuseRestore(p)  \/ RefuseResume(p)
             \/ RefuseFiles(p)  \/ WriteCommit(p)  \/ UnlockNative(p)
             \/ Crash(p)
      PROVE  Locked'
    BY <1>1, RestoreAssumption DEF RefuseWrite, RefuseRestore, RefuseResume, RefuseFiles, WriteCommit,
        UnlockNative, Crash, Finish, Release, Goto, Locked, TypeOK, Shape,
        Restoring, Places
<1>2. ASSUME NEW p \in Agents,
             \/ (\E s \in Stores : ReplaceFile(p, s))  \/ Restart(p)
      PROVE  Locked'
    BY <1>2 DEF ReplaceFile, Restart, agent, Locked
<1>3. ASSUME NEW p \in Agents,
             \/ WriteCoreMarker(p)  \/ CheckFiles(p)  \/ WriteReceipt(p)
             \/ WriteCoreGeneration(p)  \/ WriteNativeGeneration(p)  \/ UnlockCore(p)
      PROVE  Locked'
    BY <1>3 DEF WriteCoreMarker, CheckFiles, WriteReceipt, WriteCoreGeneration,
        WriteNativeGeneration, UnlockCore, Goto, Locked, TypeOK, Restoring,
        Places, disk
<1>4. ASSUME NEW p \in Agents,
             \/ (\E s \in Stores : WriteCall(p, s))  \/ RestoreCall(p)  \/ (\E back \in BOOLEAN : ResumeCall(p, back))
      PROVE  Locked'
    <2>1. /\ \A q \in Agents \ {p} : pc'[q] = pc[q] /\ job'[q] = job[q]
          /\ pc'[p] \in {"lock", "prepare", "resume"} /\ lock' = lock
        BY <1>4 DEF WriteCall, RestoreCall, ResumeCall, Goto, TypeOK
    <2> QED
        BY <2>1 DEF Locked, Restoring
<1>5. ASSUME NEW p \in Agents, WriteLock(p) PROVE Locked'
    BY <1>5, RestoreAssumption DEF WriteLock, Goto, Free, Locked, Shape, TypeOK, Restoring, Places
<1>6. ASSUME NEW p \in Agents, Begin(p) PROVE Locked'
    <2>1. \A q \in Agents : pc[q] \notin Restoring /\ pc[q] # "write"
        BY <1>6, NobodyInside DEF Begin, Agreed, Native
    <2> QED
        BY <1>6, <2>1 DEF Begin, TakeAll, Goto, Locked, TypeOK
<1>7. ASSUME NEW p \in Agents, TakeOver(p) PROVE Locked'
    <2>1. \A q \in Agents : pc[q] \notin Restoring /\ pc[q] # "write"
        BY <1>7, NobodyInside DEF TakeOver, StillPending, Native
    <2> QED
        BY <1>7, <2>1 DEF TakeOver, TakeAll, Goto, Locked, TypeOK
<1>8. CASE UNCHANGED vars
    BY <1>8 DEF vars, agent, Locked
<1> QED
    BY <1>1, <1>2, <1>3, <1>4, <1>5, <1>6, <1>7, <1>8 DEF Next, Step

(* The markers name the plan of whoever restores. *)
LEMMA MarkedStep ==
    ASSUME TypeOK, Counted, Shape, Locked, Marked, [Next]_vars
    PROVE  Marked'
<1>1. ASSUME NEW p \in Agents,
             \/ WriteLock(p)  \/ RefuseWrite(p)  \/ RefuseRestore(p)
             \/ RefuseResume(p)  \/ RefuseFiles(p)  \/ WriteCommit(p)
             \/ Crash(p)  \/ (\E s \in Stores : WriteCall(p, s))  \/ RestoreCall(p)
             \/ (\E back \in BOOLEAN : ResumeCall(p, back))
      PROVE  Marked'
    <2>1. /\ \A q \in Agents \ {p} : pc'[q] = pc[q] /\ job'[q] = job[q]
          /\ pc'[p] \notin Restoring
        BY <1>1 DEF WriteLock, RefuseWrite, RefuseRestore, RefuseResume, RefuseFiles,
            WriteCommit, Crash, WriteCall, RestoreCall, ResumeCall, Finish,
            Goto, Restoring, TypeOK
    <2>2. UNCHANGED <<nmark, cmark, plan>>
        BY <1>1 DEF WriteLock, RefuseWrite, RefuseRestore, RefuseResume, RefuseFiles,
            WriteCommit, Crash, WriteCall, RestoreCall, ResumeCall, Finish,
            disk, gate
    <2> QED
        BY <2>1, <2>2 DEF Marked, Planned, Generation, Restoring, Places
<1>2. ASSUME NEW p \in Agents, CheckFiles(p) PROVE Marked'
    BY <1>2 DEF CheckFiles, Goto, disk, gate, Marked, Planned, Generation, TypeOK,
        Restoring, Places
<1>3. ASSUME NEW p \in Agents,
             \/ (\E s \in Stores : ReplaceFile(p, s))  \/ Restart(p)
      PROVE  Marked'
    BY <1>3 DEF ReplaceFile, Restart, agent, disk, gate, Marked, Planned, Generation
<1>4. ASSUME NEW p \in Agents,
             \/ WriteReceipt(p)  \/ WriteCoreGeneration(p)  \/ WriteNativeGeneration(p)
      PROVE  Marked'
    BY <1>4 DEF WriteReceipt, WriteCoreGeneration, WriteNativeGeneration, Goto, gate,
        Marked, Planned, Generation, TypeOK, Restoring, Places
<1>5. ASSUME NEW p \in Agents,
             \/ WriteCoreMarker(p)  \/ UnlockCore(p)
      PROVE  Marked'
    <2>1. \A q \in Agents \ {p} : pc[q] \notin Restoring
        BY <1>5, Alone DEF WriteCoreMarker, UnlockCore, Restoring, Places
    <2>2. nmark = Generation(p) /\ job[p].id \in Planned /\ nmark # None
        BY <1>5, RestoreAssumption
        DEF WriteCoreMarker, UnlockCore, Marked, Shape, Restoring, Places, Generation, Marker, Planned
    <2> QED
        BY <1>5, <2>1, <2>2, RestoreAssumption DEF WriteCoreMarker, UnlockCore, Goto, Marked, Planned, Generation, TypeOK, Restoring, Places
<1>6. ASSUME NEW p \in Agents, UnlockNative(p) PROVE Marked'
    <2>1. \A q \in Agents \ {p} : pc[q] \notin Restoring
        BY <1>6, Alone DEF UnlockNative, Restoring, Places
    <2>2. cmark = NoId
        BY <1>6 DEF UnlockNative, Marked
    <2> QED
        BY <1>6, <2>1, <2>2 DEF UnlockNative, Finish, Goto, Marked, TypeOK, Restoring
<1>7. ASSUME NEW p \in Agents, Begin(p) PROVE Marked'
    <2>1. \A q \in Agents : pc[q] \notin Restoring
        BY <1>7, NobodyInside DEF Begin, Agreed, Native
    <2>2. nmark'.id \in Planned' /\ nmark' = Generation(p)'
        <3>1. PICK i \in Ids : /\ Planned' = Planned \cup {i} /\ nmark' = [id |-> i, dir |-> "restore"]
                               /\ job'[p].id = i /\ job'[p].dir = "restore"
            BY <1>7, Begins
        <3> QED
            BY <3>1 DEF Generation
    <2>3. cmark' = NoId /\ pc' = [pc EXCEPT ![p] = "marked"]
        BY <1>7 DEF Begin, Agreed, Goto
    <2> QED
        BY <2>1, <2>2, <2>3 DEF Marked, TypeOK, Restoring
<1>8. ASSUME NEW p \in Agents, TakeOver(p) PROVE Marked'
    <2>1. \A q \in Agents : pc[q] \notin Restoring
        BY <1>8, NobodyInside DEF TakeOver, StillPending, Native
    <2>2. /\ nmark'.id = nmark.id /\ nmark' = Generation(p)' /\ nmark # None /\ nmark' # None
          /\ nmark.id \in Planned'
        BY <1>8, TakesOver, PlansStay, RestoreAssumption DEF Generation, Marker, Marked, TakeOver
    <2>3. cmark' = cmark /\ pc' = [pc EXCEPT ![p] = "marked"]
        BY <1>8 DEF TakeOver, Goto
    <2> QED
        BY <2>1, <2>2, <2>3 DEF Marked, TypeOK, Restoring
<1>9. CASE UNCHANGED vars
    BY <1>9 DEF vars, agent, disk, gate, Marked, Planned, Generation
<1> QED
    BY <1>1, <1>2, <1>3, <1>4, <1>5, <1>6, <1>7, <1>8, <1>9 DEF Next, Step

(* What a plan wants is fixed. *)
LEMMA WantStays ==
    ASSUME TypeOK, Counted, [Next]_vars
    PROVE  \A i \in Planned, dir \in Directions, s \in Stores : Desired(i, dir, s)' = Desired(i, dir, s)
BY PlansStay DEF Desired, Disconnected

(* A restore completes over the files, the receipt and the generations. *)
LEMMA DoneStep ==
    ASSUME TypeOK, Counted, Shape, Locked, Marked, Done, [Next]_vars
    PROVE  Done'
<1>1. ASSUME NEW p \in Agents,
             \/ WriteLock(p)  \/ RefuseWrite(p)  \/ RefuseRestore(p)
             \/ RefuseResume(p)  \/ RefuseFiles(p)  \/ Crash(p)
             \/ (\E s \in Stores : WriteCall(p, s))  \/ RestoreCall(p)  \/ (\E back \in BOOLEAN : ResumeCall(p, back))
      PROVE  Done'
    <2>1. /\ \A q \in Agents \ {p} : pc'[q] = pc[q] /\ job'[q] = job[q]
          /\ pc'[p] \notin Complete
        BY <1>1 DEF WriteLock, RefuseWrite, RefuseRestore, RefuseResume, RefuseFiles,
            Crash, WriteCall, RestoreCall, ResumeCall, Finish, Goto, Complete,
            TypeOK
    <2>2. UNCHANGED disk
        BY <1>1 DEF WriteLock, RefuseWrite, RefuseRestore, RefuseResume, RefuseFiles,
            Crash, WriteCall, RestoreCall, ResumeCall, Finish
    <2> QED
        BY <2>1, <2>2 DEF disk, gate, Done, Desired, Disconnected, Generation, Complete
<1>2. ASSUME NEW p \in Agents, Restart(p) PROVE Done'
    BY <1>2 DEF Restart, agent, disk, gate, Done, Desired, Disconnected, Generation
<1>3. ASSUME NEW p \in Agents, CheckFiles(p) PROVE Done'
    BY <1>3 DEF CheckFiles, Goto, disk, gate, Done, Desired, Disconnected, Generation,
        TypeOK, Complete
<1>4. ASSUME NEW p \in Agents, WriteCommit(p) PROVE Done'
    <2>1. \A q \in Agents \ {p} : pc[q] \notin Restoring /\ pc'[q] = pc[q]
        BY <1>4, Alone DEF WriteCommit, Finish, Goto, TypeOK
    <2> QED
        BY <1>4, <2>1 DEF WriteCommit, Finish, Goto, gate, Done, Complete, Restoring, Places, TypeOK
<1>5. ASSUME NEW p \in Agents, NEW s \in Stores, ReplaceFile(p, s) PROVE Done'
    <2>1. \A q \in Agents : pc[q] \notin Complete
        BY <1>5, Alone DEF ReplaceFile, Complete, Restoring, Places
    <2> QED
        BY <1>5, <2>1 DEF ReplaceFile, gate, agent, Done, Complete
<1>6. ASSUME NEW p \in Agents, Begin(p) PROVE Done'
    <2>1. \A q \in Agents : pc[q] \notin Restoring /\ pc'[q] \notin Complete
        BY <1>6, NobodyInside DEF Begin, Agreed, Native, Goto, TypeOK, Complete, Restoring, Places
    <2>2. nmark' # None
        BY <1>6, Begins, RestoreAssumption
    <2> QED
        BY <2>1, <2>2 DEF Done, Complete
<1>7. ASSUME NEW p \in Agents, TakeOver(p) PROVE Done'
    <2>1. \A q \in Agents : pc[q] \notin Restoring /\ pc'[q] \notin Complete
        BY <1>7, NobodyInside DEF TakeOver, StillPending, Native, Goto, TypeOK, Complete, Restoring, Places
    <2>2. nmark' # None
        BY <1>7, TakesOver, RestoreAssumption
    <2> QED
        BY <2>1, <2>2 DEF Done, Complete
<1>8. ASSUME NEW p \in Agents, WriteCoreMarker(p) PROVE Done'
    <2>1. \A q \in Agents : pc[q] \notin Complete /\ pc'[q] \notin Complete
        BY <1>8, Alone DEF WriteCoreMarker, Goto, TypeOK, Complete, Restoring, Places
    <2> QED
        BY <1>8, <2>1 DEF WriteCoreMarker, Done, Complete
<1>9. ASSUME NEW p \in Agents, WriteReceipt(p) PROVE Done'
    <2>1. \A q \in Agents \ {p} : pc[q] \notin Restoring /\ pc'[q] = pc[q]
        BY <1>9, Alone DEF WriteReceipt, Goto, TypeOK, Restoring, Places
    <2>2. job[p].id \in Planned /\ job[p].id \in Ids /\ job[p].dir \in Directions /\ nmark' # None
        <3>1. pc[p] \in Restoring /\ nmark' = nmark
            BY <1>9 DEF WriteReceipt, gate, Restoring, Places
        <3>2. nmark = Generation(p) /\ job[p].id \in Planned /\ job[p].id \in Ids /\ job[p].dir \in Directions
            BY <3>1 DEF Marked, Shape, Planned
        <3> QED
            BY <3>1, <3>2, RestoreAssumption DEF Generation, Marker
    <2>3. \A s \in Stores : file[s] = Desired(job[p].id, job[p].dir, s)
        BY <1>9 DEF WriteReceipt, Remaining
    <2>4. receipt'[job[p].id] = job[p].dir /\ pc'[p] = "coreGen"
        BY <1>9, <2>2 DEF WriteReceipt, Goto, TypeOK
    <2> QED
        BY <1>9, <2>1, <2>2, <2>3, <2>4, WantStays DEF WriteReceipt, gate, Done, Complete, Restoring, Places
<1>10. ASSUME NEW p \in Agents,
             \/ WriteCoreGeneration(p)  \/ WriteNativeGeneration(p)  \/ UnlockCore(p)
      PROVE  Done'
    <2>1. \A q \in Agents \ {p} : pc[q] \notin Restoring /\ pc'[q] = pc[q]
        BY <1>10, Alone DEF WriteCoreGeneration, WriteNativeGeneration, UnlockCore, Goto, TypeOK, Restoring, Places
    <2>2. nmark' # None
        BY <1>10, RestoreAssumption
        DEF WriteCoreGeneration, WriteNativeGeneration, UnlockCore, Shape, Marked, Restoring, Places, Generation, Marker, Planned
    <2>3. UNCHANGED <<file, plan, receipt, job>>
        BY <1>10 DEF WriteCoreGeneration, WriteNativeGeneration, UnlockCore
    <2>4. /\ pc[p] \in Complete /\ pc'[p] \in Complete
          /\ pc'[p] \in Complete \ {"coreGen"} => cgen' = Generation(p)
          /\ pc'[p] \in {"unlockCore", "unlockNative"} => ngen' = Generation(p)
        BY <1>10 DEF WriteCoreGeneration, WriteNativeGeneration, UnlockCore, Goto, TypeOK, Done, Complete
    <2> QED
        BY <2>1, <2>2, <2>3, <2>4 DEF Done, Complete, Restoring, Places, Desired, Disconnected, Generation
<1>11. ASSUME NEW p \in Agents, UnlockNative(p) PROVE Done'
    <2>1. \A q \in Agents : pc[q] \in Restoring => q = p
        BY <1>11, Alone DEF UnlockNative, Restoring, Places
    <2>2. \A q \in Agents : pc'[q] \notin Complete
        BY <1>11, <2>1 DEF UnlockNative, Finish, Goto, TypeOK, Complete, Restoring, Places
    <2>3. ngen = Generation(p) /\ cgen = Generation(p) /\ receipt[job[p].id] = job[p].dir
        BY <1>11 DEF UnlockNative, Done, Complete
    <2> QED
        BY <1>11, <2>2, <2>3 DEF UnlockNative, Done, Complete, Generation
<1>12. CASE UNCHANGED vars
    BY <1>12 DEF vars, agent, disk, gate, Done, Desired, Disconnected, Generation
<1> QED
    BY <1>1, <1>2, <1>3, <1>4, <1>5, <1>6, <1>7, <1>8, <1>9, <1>10, <1>11,
       <1>12 DEF Next, Step

(* A writer with a lock has checked the gate, and it stays as it was. *)
LEMMA CheckedStep ==
    ASSUME TypeOK, Shape, Locked, Checked, [Next]_vars
    PROVE  Checked'
<1>1. ASSUME NEW p \in Agents,
             \/ (\E s \in Stores : ReplaceFile(p, s))  \/ WriteCoreMarker(p)  \/ WriteCoreGeneration(p)
             \/ WriteNativeGeneration(p)  \/ UnlockCore(p)  \/ UnlockNative(p)
      PROVE  Checked'
    <2>1. pc[p] \in Restoring /\ pc'[p] # "write" /\ \A q \in Agents \ {p} : pc'[q] = pc[q]
        BY <1>1 DEF ReplaceFile, WriteCoreMarker, WriteCoreGeneration,
            WriteNativeGeneration, UnlockCore, UnlockNative, agent, Finish,
            Goto, Restoring, Places, TypeOK
    <2>2. \A q \in Agents \ {p} : pc[q] # "write"
        BY <2>1, Alone
    <2> QED
        BY <2>1, <2>2 DEF Checked
<1>2. ASSUME NEW p \in Agents,
             \/ WriteReceipt(p)  \/ CheckFiles(p)  \/ Restart(p)
      PROVE  Checked'
    BY <1>2 DEF WriteReceipt, CheckFiles, Restart, Goto, disk, gate, agent, Checked,
        CoreOpen, NativeOpen, TypeOK
<1>3. ASSUME NEW p \in Agents,
             \/ RefuseWrite(p)  \/ RefuseRestore(p)  \/ RefuseResume(p)
             \/ RefuseFiles(p)  \/ Crash(p)  \/ (\E s \in Stores : WriteCall(p, s))
             \/ RestoreCall(p)  \/ (\E back \in BOOLEAN : ResumeCall(p, back))
      PROVE  Checked'
    <2>1. \A q \in Agents \ {p} : pc'[q] = pc[q] /\ job'[q] = job[q] /\ base'[q] = base[q]
        BY <1>3 DEF RefuseWrite, RefuseRestore, RefuseResume, RefuseFiles, Crash,
            WriteCall, RestoreCall, ResumeCall, Finish, Goto, TypeOK
    <2>2. pc'[p] # "write" /\ UNCHANGED disk
        BY <1>3 DEF RefuseWrite, RefuseRestore, RefuseResume, RefuseFiles, Crash,
            WriteCall, RestoreCall, ResumeCall, Finish, Goto, TypeOK
    <2> QED
        BY <2>1, <2>2 DEF disk, gate, Checked, CoreOpen, NativeOpen
<1>4. ASSUME NEW p \in Agents, WriteLock(p) PROVE Checked'
    <2>1. \A q \in Agents \ {p} : pc'[q] = pc[q] /\ job'[q] = job[q]
        BY <1>4 DEF WriteLock, Goto, TypeOK
    <2>2. UNCHANGED <<file, nmark, cmark, ngen, cgen, base>>
        BY <1>4 DEF WriteLock, disk, gate
    <2>3. /\ job'[p].store = job[p].store
          /\ job'[p].read = IF job[p].store = "history" THEN base[p].history ELSE file[job[p].store]
        BY <1>4, JobOf DEF WriteLock, TypeOK
    <2>4. Confirmed(p, job[p].store)
        BY <1>4 DEF WriteLock
    <2> QED
        BY <2>1, <2>2, <2>3, <2>4 DEF Checked, Confirmed, ChatsUnchanged, CoreOpen, NativeOpen
<1>5. ASSUME NEW p \in Agents, WriteCommit(p) PROVE Checked'
    <2>1. \A q \in Agents \ {p} : /\ pc'[q] = pc[q] /\ job'[q] = job[q] /\ base'[q] = base[q]
                                  /\ pc[q] = "write" => job[q].store \in Stores /\ job[q].store # job[p].store
        BY <1>5, WritersApart DEF WriteCommit, Finish, Goto, Shape, TypeOK
    <2>2. pc'[p] # "write" /\ UNCHANGED gate /\ \A s \in Stores \ {job[p].store} : file'[s] = file[s]
        BY <1>5 DEF WriteCommit, Finish, Goto, TypeOK, Images
    <2> QED
        BY <2>1, <2>2 DEF gate, Checked, CoreOpen, NativeOpen, Stores
<1>6. ASSUME NEW p \in Agents,
             \/ Begin(p)  \/ TakeOver(p)
      PROVE  Checked'
    <2>1. \A q \in Agents : pc[q] # "write"
        BY <1>6, NobodyInside DEF Begin, TakeOver, Agreed, StillPending, Native
    <2> QED
        BY <1>6, <2>1 DEF Begin, TakeOver, Goto, Checked, TypeOK
<1>7. CASE UNCHANGED vars
    BY <1>7 DEF vars, agent, disk, gate, Checked, CoreOpen, NativeOpen
<1> QED
    BY <1>1, <1>2, <1>3, <1>4, <1>5, <1>6, <1>7 DEF Next, Step

(* The chats of a pending restore stay one of its contents. *)
LEMMA ChatsStep ==
    ASSUME Safe, ChatsStayRestorable, [Next]_vars
    PROVE  ChatsStayRestorable'
<1>1. ASSUME NEW p \in Agents,
             \/ (\E s \in Stores : WriteCall(p, s))  \/ RestoreCall(p)  \/ (\E back \in BOOLEAN : ResumeCall(p, back))
             \/ WriteLock(p)  \/ RefuseWrite(p)  \/ RefuseRestore(p)
             \/ RefuseResume(p)  \/ WriteCoreMarker(p)  \/ CheckFiles(p)
             \/ RefuseFiles(p)  \/ WriteReceipt(p)  \/ WriteCoreGeneration(p)
             \/ WriteNativeGeneration(p)  \/ UnlockCore(p)  \/ Restart(p)
             \/ Crash(p)
      PROVE  ChatsStayRestorable'
    BY <1>1 DEF WriteCall, RestoreCall, ResumeCall, WriteLock, RefuseWrite,
        RefuseRestore, RefuseResume, WriteCoreMarker, CheckFiles, RefuseFiles,
        WriteReceipt, WriteCoreGeneration, WriteNativeGeneration, UnlockCore,
        Restart, Crash, Finish, disk, gate, ChatsStayRestorable, Pending,
        Known, Desired, Disconnected
<1>2. ASSUME NEW p \in Agents, UnlockNative(p) PROVE ChatsStayRestorable'
    BY <1>2 DEF UnlockNative, ChatsStayRestorable, Pending
<1>3. ASSUME NEW p \in Agents, WriteCommit(p) PROVE ChatsStayRestorable'
    <2>1. CASE job[p].store = "history"
        BY <1>3, <2>1 DEF WriteCommit, Safe, Checked, NativeOpen, gate, ChatsStayRestorable, Pending
    <2>2. CASE job[p].store # "history"
        BY <1>3, <2>2 DEF WriteCommit, gate, Safe, TypeOK, Images, Stores, ChatsStayRestorable, Pending, Known, Desired, Disconnected
    <2> QED
        BY <2>1, <2>2
<1>4. ASSUME NEW p \in Agents, NEW s \in Stores, ReplaceFile(p, s) PROVE ChatsStayRestorable'
    <2>1. nmark = Generation(p) /\ job[p].dir \in Directions
        BY <1>4 DEF ReplaceFile, Safe, Marked, Shape, Restoring, Places
    <2>2. CASE s = "history"
        BY <1>4, <2>1, <2>2 DEF ReplaceFile, gate, Safe, TypeOK, Images, Stores, Generation, Directions, ChatsStayRestorable, Known, Desired, Disconnected
    <2>3. CASE s # "history"
        BY <1>4, <2>3 DEF ReplaceFile, gate, Safe, TypeOK, Images, Stores, ChatsStayRestorable, Pending, Known, Desired, Disconnected
    <2> QED
        BY <2>2, <2>3
<1>5. ASSUME NEW p \in Agents, Begin(p) PROVE ChatsStayRestorable'
    <2>1. PICK i \in Ids : plan' = [plan EXCEPT ![i] = file] /\ nmark' = [id |-> i, dir |-> "restore"]
        BY <1>5, Begins DEF Safe
    <2>2. plan'[nmark'.id] = file /\ file' = file
        BY <1>5, <2>1 DEF Begin, Safe, TypeOK
    <2> QED
        BY <2>2 DEF ChatsStayRestorable, Known
<1>6. ASSUME NEW p \in Agents, TakeOver(p) PROVE ChatsStayRestorable'
    <2>1. nmark'.id = nmark.id /\ nmark # None /\ UNCHANGED <<file, plan>>
        BY <1>6, TakesOver DEF TakeOver, StillPending, Pending, Safe
    <2> QED
        BY <2>1 DEF ChatsStayRestorable, Pending, Known, Desired, Disconnected
<1>7. CASE UNCHANGED vars
    BY <1>7 DEF vars, disk, gate, ChatsStayRestorable, Pending, Known, Desired, Disconnected
<1> QED
    BY <1>1, <1>2, <1>3, <1>4, <1>5, <1>6, <1>7 DEF Next, Step

(* What is kept of a store stays kept while its file stays. *)
LEMMA KeptStays ==
    ASSUME TypeOK, Counted, [Next]_vars, NEW s \in Stores, file'[s] = file[s]
    PROVE  \A x \in Kept(s) : x \in Kept(s)'
BY PlansStay DEF Kept

(* What was reported is kept. *)
LEMMA ReportedStep ==
    ASSUME Safe, Reported, [Next]_vars
    PROVE  Reported'
<1>1. ASSUME NEW p \in Agents,
             \/ (\E s \in Stores : WriteCall(p, s))  \/ RestoreCall(p)  \/ (\E back \in BOOLEAN : ResumeCall(p, back))
             \/ WriteLock(p)  \/ RefuseWrite(p)  \/ Begin(p)
             \/ RefuseRestore(p)  \/ TakeOver(p)  \/ RefuseResume(p)
             \/ WriteCoreMarker(p)  \/ CheckFiles(p)  \/ RefuseFiles(p)
             \/ WriteReceipt(p)  \/ WriteCoreGeneration(p)  \/ WriteNativeGeneration(p)
             \/ UnlockCore(p)  \/ UnlockNative(p)  \/ Restart(p)
             \/ Crash(p)
      PROVE  Reported'
    <2>1. UNCHANGED <<file, acked>>
        BY <1>1 DEF WriteCall, RestoreCall, ResumeCall, WriteLock, RefuseWrite, Begin,
            RefuseRestore, TakeOver, RefuseResume, WriteCoreMarker,
            CheckFiles, RefuseFiles, WriteReceipt, WriteCoreGeneration,
            WriteNativeGeneration, UnlockCore, UnlockNative, Restart, Crash,
            Finish, disk
    <2> QED
        BY <2>1, KeptStays DEF Reported, NothingLost, Safe
<1>2. ASSUME NEW p \in Agents, WriteCommit(p) PROVE Reported'
    <2>1. PICK store \in Stores, n \in 1..MaxWrites : store = job[p].store /\ n = writes + 1
        BY <1>2, NewWrite, TypeParts DEF WriteCommit, Shape, Safe
    <2>2. n \in Items
        BY RestoreAssumption DEF Items
    <2>3. PICK content \in NewContent(p, store, n) : file' = [file EXCEPT ![store] = content]
        BY <1>2, <2>1 DEF WriteCommit
    <2>4. acked' = IF store = "integrations" THEN acked ELSE [acked EXCEPT ![store] = acked[store] \cup {n}]
        BY <1>2, <2>1 DEF WriteCommit
    <2>5. content # None
        BY <1>2, <2>1, <2>3, NewWrite, TypeParts DEF WriteCommit, Safe
    <2>6. store # "integrations" => n \in content /\ (file[store] # None => file[store] \subseteq content)
        <3>1. pc[p] = "write"
            BY <1>2 DEF WriteCommit
        <3>2. CASE store \in {"core", "history"}
            BY <2>1, <2>3, <3>1, <3>2 DEF NewContent, Checked, Safe
        <3>3. CASE store = "records"
            BY <2>1, <2>3, <3>1, <3>3 DEF NewContent, Checked, Safe
        <3> QED
            BY <3>2, <3>3 DEF Stores
    <2>7. ASSUME NEW s \in Stores, s # store PROVE acked'[s] = acked[s] /\ acked'[s] \subseteq Kept(s)'
        <3>1. file'[s] = file[s] /\ acked'[s] = acked[s]
            BY <2>3, <2>4, <2>7 DEF Safe, TypeOK, Images
        <3> QED
            BY <3>1, KeptStays DEF Reported, NothingLost, Safe
    <2>8. ASSUME store # "integrations" PROVE acked'[store] \subseteq 1..MaxWrites /\ acked'[store] \subseteq Kept(store)'
        <3>1. acked'[store] = acked[store] \cup {n} /\ file'[store] = content
            BY <2>3, <2>4, <2>8 DEF Safe, TypeOK, Images
        <3>2. n \in Kept(store)'
            BY <2>2, <2>5, <2>6, <2>8, <3>1 DEF Kept
        <3>3. \A x \in Kept(store) : x \in Kept(store)'
            BY <2>5, <2>6, <2>8, <3>1, PlansStay DEF Kept, Safe
        <3> QED
            BY <3>1, <3>2, <3>3 DEF Reported, NothingLost
    <2>9. acked'["integrations"] = {}
        BY <2>4 DEF Reported, Safe, TypeOK, Stores
    <2> QED
        BY <2>4, <2>7, <2>8, <2>9 DEF Reported, NothingLost
<1>3. ASSUME NEW p \in Agents, NEW s \in Stores, ReplaceFile(p, s) PROVE Reported'
    <2> DEFINE i == job[p].id
    <2>1. i \in Planned /\ job[p].dir \in Directions /\ acked' = acked
        BY <1>3 DEF ReplaceFile, Safe, Shape, Restoring, Places
    <2>2. \A r \in Stores \ {s} : file'[r] = file[r]
        BY <1>3 DEF ReplaceFile, Safe, TypeOK, Images
    <2>3. file[s] \in {plan[i][s], Desired(i, "restore", s), Desired(i, "rollback", s)}
        BY <1>3 DEF ReplaceFile, Known
    <2>4. ASSUME NEW x \in acked[s], file[s] # None, x \in file[s] PROVE plan[i][s] # None /\ x \in plan[i][s]
        <3>1. x \in 1..MaxWrites /\ s # "integrations"
            BY <2>4 DEF Reported
        <3>2. file[s] # Desired(i, "restore", s)
            BY <2>4, <3>1, RestoreAssumption DEF Desired, Disconnected
        <3> QED
            BY <2>3, <2>4, <3>1, <3>2 DEF Desired, Disconnected
    <2>5. \A x \in acked[s] : x \in Kept(s)'
        BY <2>1, <2>4, PlansStay DEF Reported, NothingLost, Kept, Safe
    <2> QED
        BY <2>1, <2>2, <2>5, KeptStays DEF Reported, NothingLost, Safe
<1>4. CASE UNCHANGED vars
    BY <1>4 DEF vars, disk, Reported, NothingLost, Kept, Planned
<1> QED
    BY <1>1, <1>2, <1>3, <1>4 DEF Next, Step

-----------------------------------------------------------------------------
(* The theorems *)

(* The inductive invariant holds of every reachable state. *)
THEOREM Invariance == Spec => []IInv
<1>1. Init => IInv
    BY InitInv
<1>2. IInv /\ [Next]_vars => IInv'
    BY TypeStep, CountedStep, ShapeStep, LockedStep, MarkedStep, DoneStep, CheckedStep, ChatsStep, ReportedStep
    DEF IInv, Safe
<1> QED
    BY <1>1, <1>2, PTL DEF Spec

(* Every variable has its type, for any number of agents, writes, restores  *)
(* and crashes: no plan is numbered past its room, no write past its count. *)
THEOREM TypeCorrect == Spec => []TypeOK
BY Invariance, PTL DEF IInv, Safe

(* While a restore is pending, the chats (native_private_restore.py writes  *)
(* them last) can be continued from and returned from.                      *)
THEOREM ChatsRestorable == Spec => []ChatsStayRestorable
BY Invariance, PTL DEF IInv

(* What a writer reported as saved is in the file or in a before-image.     *)
THEOREM NothingReportedIsLost == Spec => []NothingLost
BY Invariance, PTL DEF IInv, Reported

(* With the gate open the generations and the receipt agree, so that a      *)
(* client that lost the reply decides from them (completedRestore).         *)
THEOREM CompletionProven == Spec => []CompletionIsProvable
BY Invariance, PTL DEF IInv, Safe, Done, CompletionIsProvable

(* An ordinary write lands only while its gate is open and on top of what   *)
(* it has read, however its steps and a restore's are interleaved.          *)
THEOREM GateIsHeld == Spec => GateHolds
<1>1. Safe /\ [Next]_vars =>
        [\A p \in Agents :
            /\ Commits(p) /\ job[p].store = "core" => CoreOpen(p) /\ file["core"] = job[p].read
            /\ Commits(p) /\ job[p].store = "history" => NativeOpen(p) /\ file["history"] = job[p].read]_vars
    BY DEF Safe, Checked, Commits
<1> QED
    BY <1>1, Invariance, PTL DEF Spec, IInv, GateHolds

(* The native marker goes only when every file is what the restore it names *)
(* wants, and no account is connected.                                      *)
LEMMA CompletionStep ==
    ASSUME Safe, [Next]_vars, Pending, nmark' = None
    PROVE  /\ \A s \in Stores : file'[s] = Desired(nmark.id, nmark.dir, s)
           /\ file'["integrations"] \in {None, {}}
<1> USE RestoreAssumption
<1>1. PICK p \in Agents : UnlockNative(p)
    <2>1. ASSUME NEW p \in Agents, Begin(p) \/ TakeOver(p) PROVE nmark' # None
        BY <2>1, Begins, TakesOver DEF Safe
    <2>2. ASSUME NEW p \in Agents,
                 \/ (\E s \in Stores : WriteCall(p, s))  \/ RestoreCall(p)  \/ (\E back \in BOOLEAN : ResumeCall(p, back))
                 \/ WriteLock(p)  \/ RefuseWrite(p)  \/ WriteCommit(p)
                 \/ RefuseRestore(p)  \/ RefuseResume(p)  \/ WriteCoreMarker(p)
                 \/ CheckFiles(p)  \/ RefuseFiles(p)  \/ (\E s \in Stores : ReplaceFile(p, s))
                 \/ WriteReceipt(p)  \/ WriteCoreGeneration(p)  \/ WriteNativeGeneration(p)
                 \/ UnlockCore(p)  \/ Restart(p)  \/ Crash(p)
          PROVE  nmark' = nmark
        BY <2>2 DEF WriteCall, RestoreCall, ResumeCall, WriteLock, RefuseWrite,
            WriteCommit, RefuseRestore, RefuseResume, WriteCoreMarker,
            CheckFiles, RefuseFiles, ReplaceFile, WriteReceipt,
            WriteCoreGeneration, WriteNativeGeneration, UnlockCore, Restart,
            Crash, disk, gate
    <2>3. CASE UNCHANGED vars
        BY <2>3 DEF vars, disk, gate, Pending
    <2> QED
        BY <2>1, <2>2, <2>3 DEF Next, Step, Pending
<1>2. /\ nmark = Generation(p) /\ file' = file
      /\ \A s \in Stores : file[s] = Desired(job[p].id, job[p].dir, s)
    BY <1>1 DEF UnlockNative, Safe, Marked, Done, Complete, Restoring, Places
<1> QED
    BY <1>2 DEF Generation, Desired, Disconnected, Stores

(* A restore is finished exactly, over crashes, continuations and changes   *)
(* of direction (_apply, _remove_marker).                                   *)
THEOREM RestoresCompleteExactly == Spec => CompletesExactly
<1>1. Safe /\ [Next]_vars =>
        [Pending /\ nmark' = None =>
            /\ \A s \in Stores : file'[s] = Desired(nmark.id, nmark.dir, s)
            /\ file'["integrations"] \in {None, {}}]_vars
    BY CompletionStep
<1> QED
    BY <1>1, Invariance, PTL DEF Spec, IInv, CompletesExactly
=============================================================================
