---------------------------- MODULE CopyJobProofs ----------------------------
(***************************************************************************)
(* Proofs about CopyJob, for any number of files, sources, threads, chunks *)
(* and restarts.                                                           *)
(***************************************************************************)
EXTENDS CopyJob, SequenceTheorems, TLAPS

\* The chunk sequences the model builds are contents.
LEMMA SeqIsContent ==
  ASSUME NEW n \in Nat, NEW c \in [1..n -> Chunks]
  PROVE  c \in Content /\ Len(c) = n
  BY DEF Content

LEMMA ContentIsFunction ==
  ASSUME NEW c \in Content
  PROVE  /\ Len(c) \in Nat
         /\ c \in [1..Len(c) -> Chunks]
  BY LenProperties DEF Content

LEMMA FullContent ==
  ASSUME NEW f \in Files
  PROVE  /\ Full(f) \in Content
         /\ Len(Full(f)) = Size[f]
         /\ \A k \in 1..Size[f] : Full(f)[k] = f
<1>1. Size[f] \in Nat /\ Full(f) \in [1..Size[f] -> Chunks]
  BY CopyConstants DEF Full, Chunks
<1> QED BY <1>1, SeqIsContent DEF Full

\* One write puts one chunk and, past the end, holes.
LEMMA WriteAtContent ==
  ASSUME NEW c \in Content, NEW k \in Nat \ {0}, NEW x \in Chunks
  PROVE  /\ WriteAt(c, k, x) \in Content
         /\ Len(WriteAt(c, k, x)) = IF Len(c) < k THEN k ELSE Len(c)
         /\ \A j \in 1..Len(WriteAt(c, k, x)) :
              WriteAt(c, k, x)[j] = IF j = k THEN x ELSE IF j <= Len(c) THEN c[j] ELSE Hole
<1> DEFINE n == IF Len(c) < k THEN k ELSE Len(c)
<1>1. Len(c) \in Nat /\ c \in [1..Len(c) -> Chunks]
  BY ContentIsFunction
<1>2. n \in Nat /\ Hole \in Chunks
  BY <1>1 DEF Chunks
<1>3. WriteAt(c, k, x) \in [1..n -> Chunks]
  BY <1>1, <1>2 DEF WriteAt
<1> QED BY <1>1, <1>2, <1>3, SeqIsContent DEF WriteAt

\* A full preallocation and an empty file are contents.
LEMMA NewFileContent ==
  ASSUME NEW n \in Nat
  PROVE  /\ [k \in 1..n |-> Hole] \in Content
         /\ Len([k \in 1..n |-> Hole]) = n
         /\ <<>> \in Content
         /\ Len(<<>>) = 0
<1>1. [k \in 1..n |-> Hole] \in [1..n -> Chunks]
  BY DEF Chunks
<1> QED BY <1>1, SeqIsContent, EmptySeq DEF Content

-----------------------------------------------------------------------------
(* Type correctness. The handles are typed by where the task is, and tasks *)
(* exist only in one phase: the two go together.                           *)

PoolIdle == phase # "copying" => \A f \in Files : pc[f] \in {"idle", "done"}

TInv == TypeOK /\ PoolIdle

LEMMA InitTInv == Init => TInv
<1> SUFFICES ASSUME Init PROVE TInv
  OBVIOUS
<1> USE CopyConstants
<1>1. PICK there \in SUBSET (Paths \ {SrcPath[f] : f \in Files}) :
        \E len \in [there -> OldLengths] :
          /\ dir = [p \in Paths |->
               IF p \in there \union {SrcPath[f] : f \in Files} THEN p ELSE NoInode]
          /\ data = [i \in Inodes |->
               IF \E f \in Files : SrcPath[f] = i
                 THEN Full(CHOOSE f \in Files : SrcPath[f] = i)
                 ELSE IF i \in there THEN [k \in 1..len[i] |-> Old] ELSE <<>>]
  BY DEF Init
<1>2. PICK len \in [there -> OldLengths] :
          /\ dir = [p \in Paths |->
               IF p \in there \union {SrcPath[f] : f \in Files} THEN p ELSE NoInode]
          /\ data = [i \in Inodes |->
               IF \E f \in Files : SrcPath[f] = i
                 THEN Full(CHOOSE f \in Files : SrcPath[f] = i)
                 ELSE IF i \in there THEN [k \in 1..len[i] |-> Old] ELSE <<>>]
  BY <1>1
<1>3. dir \in [Paths -> Inodes \union {NoInode}]
  BY <1>2
<1>4. data \in [Inodes -> Content]
  <2>1. \A i \in Inodes : (\E f \in Files : SrcPath[f] = i) =>
           Full(CHOOSE f \in Files : SrcPath[f] = i) \in Content
    BY FullContent
  <2>2. \A i \in there : [k \in 1..len[i] |-> Old] \in Content
    <3>1. SUFFICES ASSUME NEW i \in there PROVE [k \in 1..len[i] |-> Old] \in Content
      OBVIOUS
    <3>2. len[i] \in Nat /\ [k \in 1..len[i] |-> Old] \in [1..len[i] -> Chunks]
      BY DEF Chunks
    <3> QED BY <3>2, SeqIsContent
  <2>3. <<>> \in Content
    BY NewFileContent
  <2> QED BY <1>2, <2>1, <2>2, <2>3
<1>5. opts \in Options
  BY DEF Init
<1>6. /\ runs = 0 /\ phase = "idle" /\ plan = {} /\ size = Size /\ todo = {}
      /\ fallback = {} /\ cancel = FALSE /\ terminal = "none" /\ skipped = {} /\ unplanned = {}
      /\ pc = [f \in Files |-> "idle"] /\ outcome = [f \in Files |-> "none"]
      /\ rd = [f \in Files |-> NoInode] /\ wr = [f \in Files |-> NoInode]
      /\ pos = [f \in Files |-> 0]
  BY DEF Init
<1>7. JobType
  BY <1>5, <1>6 DEF JobType
<1>8. TaskType
  BY <1>6 DEF TaskType, TaskStates, Verdicts
<1>9. \A f \in Files : pc[f] = "idle"
  BY <1>6
<1> QED BY <1>3, <1>4, <1>6, <1>7, <1>8, <1>9 DEF TInv, TypeOK, DiskType, PoolIdle

\* A task that ends, or goes on to be verified, keeps the task state well typed.
LEMMA EndTaskType ==
  ASSUME TaskType, NEW f \in Files, NEW o \in Verdicts, EndTask(f, o)
  PROVE  TaskType'
  BY DEF TaskType, TaskStates, Verdicts, EndTask

LEMMA EndCopyType ==
  ASSUME TaskType, NEW f \in Files, EndCopy(f)
  PROVE  TaskType'
<1>1. CASE opts.verify
  BY <1>1 DEF TaskType, TaskStates, EndCopy
<1>2. CASE ~opts.verify
  BY <1>2, EndTaskType DEF EndCopy, Verdicts
<1> QED BY <1>1, <1>2

\* The inode of a new file exists and belongs to nobody.
LEMMA FreshInode ==
  ASSUME CanCreate
  PROVE  Fresh \in Inodes /\ Fresh \notin InUse
  BY DEF CanCreate, Fresh

\* Steps of a task keep the disk and the task well typed.
LEMMA TaskStepType ==
  ASSUME TypeOK, NEW f \in Files, Task(f)
  PROVE  TypeOK'
<1> USE CopyConstants
<1>1. CASE TakeTask(f)
  <2>1. TaskType'
    <3>1. CASE cancel
      BY <1>1, <3>1, EndTaskType DEF TypeOK, TakeTask, Verdicts
    <3>2. CASE ~cancel
      BY <1>1, <3>2 DEF TypeOK, TaskType, TaskStates, TakeTask
    <3> QED BY <3>1, <3>2
  <2> QED BY <1>1, <2>1 DEF TypeOK, TakeTask, DiskType, JobType, diskVars, jobVars
<1>2. CASE CheckDst(f)
  <2>1. TaskType'
    <3>1. CASE Exists(DstPath[f]) /\ SkipsExisting(f)
      BY <1>2, <3>1, EndTaskType DEF TypeOK, CheckDst, Verdicts
    <3>2. CASE ~Exists(DstPath[f]) \/ ~SkipsExisting(f)
      BY <1>2, <3>2 DEF TypeOK, TaskType, TaskStates, CheckDst
    <3> QED BY <3>1, <3>2
  <2>2. skipped' \in SUBSET Files
    BY <1>2 DEF TypeOK, CheckDst
  <2> QED BY <1>2, <2>1, <2>2 DEF TypeOK, CheckDst, DiskType, JobType, diskVars, jobVars
<1>3. CASE RemoveDst(f)
  <2>1. TaskType'
    BY <1>3 DEF TypeOK, TaskType, TaskStates, RemoveDst
  <2>2. DiskType'
    BY <1>3 DEF TypeOK, DiskType, RemoveDst
  <2> QED BY <1>3, <2>1, <2>2 DEF TypeOK, RemoveDst, JobType, jobVars
<1>4. CASE OpenFiles(f)
  <2> DEFINE i == IF Exists(DstPath[f]) THEN dir[DstPath[f]] ELSE Fresh
  <2>1. i \in Inodes /\ dir[SrcPath[f]] \in Inodes
    BY <1>4, FreshInode DEF OpenFiles, Exists, TypeOK, DiskType
  <2>2. PICK content \in {[k \in 1..size[f] |-> Hole], <<>>} :
          data' = [data EXCEPT ![i] = content]
    BY <1>4 DEF OpenFiles
  <2>3. content \in Content
    <3>1. size[f] \in Nat
      BY DEF TypeOK, JobType
    <3> QED BY <2>2, <3>1, NewFileContent
  <2>4. dir' = [dir EXCEPT ![DstPath[f]] = i] /\ wr' = [wr EXCEPT ![f] = i]
    BY <1>4 DEF OpenFiles
  <2> HIDE DEF i
  <2>5. DiskType'
    BY <2>1, <2>2, <2>3, <2>4 DEF TypeOK, DiskType
  <2>6. TaskType'
    BY <1>4, <2>1, <2>4 DEF TypeOK, TaskType, TaskStates, OpenFiles
  <2> QED BY <1>4, <2>5, <2>6 DEF TypeOK, OpenFiles, JobType, jobVars
<1>5. CASE CloneFile(f)
  <2>1. Fresh \in Inodes /\ dir[SrcPath[f]] \in Inodes
    BY <1>5, FreshInode DEF CloneFile, Exists, TypeOK, DiskType
  <2>2. DiskType'
    BY <1>5, <2>1 DEF TypeOK, DiskType, CloneFile
  <2>3. TaskType'
    BY <1>5, EndCopyType DEF TypeOK, CloneFile
  <2> QED BY <1>5, <2>2, <2>3 DEF TypeOK, CloneFile, JobType, jobVars
<1>6. CASE CopyChunk(f)
  <2>1. wr[f] \in Inodes /\ rd[f] \in Inodes /\ pos[f] \in Nat
    BY <1>6 DEF CopyChunk, TypeOK, TaskType
  <2>2. data[wr[f]] \in Content /\ data[rd[f]] \in Content
    BY <2>1 DEF TypeOK, DiskType
  <2>3. data[rd[f]][pos[f] + 1] \in Chunks
    <3>1. Len(data[rd[f]]) \in Nat /\ data[rd[f]] \in [1..Len(data[rd[f]]) -> Chunks]
      BY <2>2, ContentIsFunction
    <3>2. pos[f] + 1 \in 1..Len(data[rd[f]])
      BY <1>6, <2>1, <3>1 DEF CopyChunk
    <3> QED BY <3>1, <3>2
  <2>4. WriteAt(data[wr[f]], pos[f] + 1, data[rd[f]][pos[f] + 1]) \in Content
    BY <2>1, <2>2, <2>3, WriteAtContent
  <2>5. DiskType'
    BY <1>6, <2>1, <2>4 DEF CopyChunk, TypeOK, DiskType
  <2>6. TaskType'
    BY <1>6, <2>1 DEF TypeOK, TaskType, CopyChunk
  <2> QED BY <1>6, <2>5, <2>6 DEF TypeOK, CopyChunk, JobType, jobVars
<1>7. CASE EndOfFile(f)
  BY <1>7, EndCopyType DEF TypeOK, EndOfFile, DiskType, JobType, diskVars, jobVars
<1>8. CASE CancelCopy(f)
  BY <1>8, EndTaskType DEF TypeOK, CancelCopy, DiskType, JobType, diskVars, jobVars, Verdicts
<1>9. CASE Verify(f)
  <2>1. TaskType'
    BY <1>9, EndTaskType DEF TypeOK, Verify, Verdicts
  <2> QED BY <1>9, <2>1 DEF TypeOK, Verify, DiskType, JobType, diskVars, jobVars
<1>10. CASE TaskFails(f)
  BY <1>10, EndTaskType
     DEF TypeOK, TaskFails, DiskType, JobType, diskVars, jobVars, Verdicts
<1> QED BY <1>1, <1>2, <1>3, <1>4, <1>5, <1>6, <1>7, <1>8, <1>9, <1>10 DEF Task, Progress

\* Steps of the job thread keep the types; the tasks they start or end, they do not open.
LEMMA JobStepType ==
  ASSUME TInv, JobThread
  PROVE  TypeOK'
<1> USE CopyConstants
<1>1. ASSUME NEW s \in Sources, RenameSource(s) PROVE TypeOK'
  <2> DEFINE F == {f \in FilesOf({s}) : Exists(SrcPath[f])}
  <2>1. dir' = [p \in Paths |->
          IF \E f \in F : DstPath[f] = p
            THEN dir[SrcPath[CHOOSE f \in F : DstPath[f] = p]]
            ELSE IF \E f \in F : SrcPath[f] = p THEN NoInode ELSE dir[p]]
    BY <1>1 DEF RenameSource
  <2>2. \A p \in Paths : (\E f \in F : DstPath[f] = p) =>
          dir[SrcPath[CHOOSE f \in F : DstPath[f] = p]] \in Inodes \union {NoInode}
    <3>1. F \subseteq Files
      BY DEF FilesOf
    <3> HIDE DEF F
    <3> QED BY <3>1 DEF TInv, TypeOK, DiskType
  <2> HIDE DEF F
  <2>3. DiskType'
    <3>1. data' = data
      BY <1>1 DEF RenameSource
    <3>2. dir' \in [Paths -> Inodes \union {NoInode}]
      BY <2>1, <2>2 DEF TInv, TypeOK, DiskType
    <3> QED BY <3>1, <3>2 DEF TInv, TypeOK, DiskType
  <2>4. outcome' \in [Files -> Verdicts \union {"none", "moved"}]
    BY <1>1 DEF RenameSource, TInv, TypeOK, TaskType
  <2>5. pc' = pc /\ rd' = rd /\ wr' = wr /\ pos' = pos
    BY <1>1 DEF RenameSource
  <2>6. TaskType'
    BY <2>4, <2>5 DEF TInv, TypeOK, TaskType
  <2> QED BY <1>1, <2>3, <2>6 DEF RenameSource, TInv, TypeOK, JobType
<1>2. ASSUME NEW s \in Sources, FallBackToCopy(s) PROVE TypeOK'
  BY <1>2 DEF FallBackToCopy, TInv, TypeOK, DiskType, JobType, TaskType, diskVars, taskVars
<1>3. ASSUME NEW s \in Sources, RemoveOriginal(s) PROVE TypeOK'
  <2>1. DiskType'
    BY <1>3 DEF RemoveOriginal, TInv, TypeOK, DiskType
  <2>2. unplanned' \in SUBSET Files
    BY <1>3 DEF RemoveOriginal, FilesOf, TInv, TypeOK
  <2> QED BY <1>3, <2>1, <2>2 DEF RemoveOriginal, TInv, TypeOK, JobType, TaskType, taskVars
<1>4. CASE CancelRenaming
  BY <1>4 DEF CancelRenaming, TInv, TypeOK, DiskType, JobType, TaskType, diskVars, taskVars
<1>5. CASE StartFallback
  <2>1. TaskType'
    BY <1>5 DEF StartFallback, TInv, PoolIdle, TypeOK, TaskType, TaskStates
  <2> QED BY <1>5, <2>1 DEF StartFallback, TInv, TypeOK, DiskType, JobType, diskVars
<1>6. CASE PoolFails
  <2>1. TaskType'
    BY <1>6 DEF PoolFails, TInv, TypeOK, TaskType, TaskStates, Verdicts
  <2> QED BY <1>6, <2>1 DEF PoolFails, TInv, TypeOK, DiskType, JobType, diskVars, jobVars
<1>7. CASE Join
  <2>1. phase' \in {"removing", "ended"} /\ terminal' \in {"none", "Finished", "Cancelled"}
    BY <1>7 DEF Join, JoinWhen, TInv, TypeOK, JobType
  <2> QED BY <1>7, <2>1 DEF Join, JoinWhen, TInv, TypeOK, DiskType, JobType, TaskType,
                            diskVars, taskVars
<1>8. CASE Finish
  BY <1>8 DEF Finish, TInv, TypeOK, DiskType, JobType, TaskType, diskVars, taskVars
<1> QED BY <1>1, <1>2, <1>3, <1>4, <1>5, <1>6, <1>7, <1>8 DEF JobThread

\* What plan_copy fixes, for the entries it missed and those whose length it missed.
Planned(S, o, missed, sizeless) ==
  LET listed == {f \in FilesOf(S) \ missed : Exists(SrcPath[f])}
      moving == o.mode = "move"
  IN /\ plan' = listed
     /\ size' = [f \in Files |->
          IF f \notin listed THEN size[f]
          ELSE IF f \in sizeless THEN 0 ELSE Len(data[dir[SrcPath[f]]])]
     /\ pc' = [f \in Files |-> IF f \in listed /\ ~moving THEN "queued" ELSE "idle"]
     /\ phase' = IF moving THEN "renaming" ELSE "copying"
     /\ todo' = IF moving THEN S ELSE {}

LEMMA BeginPlans ==
  ASSUME NEW S \in SUBSET Sources, NEW o \in Options, Begin(S, o)
  PROVE  \E missed \in SUBSET (Unread \intersect FilesOf(S)),
            sizeless \in SUBSET (Unread \intersect FilesOf(S)) :
           Planned(S, o, missed, sizeless)
  BY DEF Begin, Planned

\* A job that begins, or that dies, leaves no handle open.
LEMMA OutsideStepType ==
  ASSUME TInv, User \/ Crash
  PROVE  TypeOK'
<1> USE CopyConstants
<1>1. ASSUME NEW S \in SUBSET Sources, NEW o \in Options, Begin(S, o) PROVE TypeOK'
  <2>0. PICK missed \in SUBSET (Unread \intersect FilesOf(S)),
             sizeless \in SUBSET (Unread \intersect FilesOf(S)) : Planned(S, o, missed, sizeless)
    BY <1>1, BeginPlans
  <2> DEFINE listed == {f \in FilesOf(S) \ missed : Exists(SrcPath[f])}
  <2>1. listed \subseteq Files /\ \A f \in listed : dir[SrcPath[f]] \in Inodes
    BY DEF FilesOf, Exists, TInv, TypeOK, DiskType
  <2>2. \A f \in listed : Len(data[dir[SrcPath[f]]]) \in Nat
    BY <2>1, ContentIsFunction DEF TInv, TypeOK, DiskType
  <2>3. /\ plan' = listed
        /\ size' = [f \in Files |->
             IF f \notin listed THEN size[f]
             ELSE IF f \in sizeless THEN 0 ELSE Len(data[dir[SrcPath[f]]])]
        /\ pc' = [f \in Files |->
             IF f \in listed /\ o.mode # "move" THEN "queued" ELSE "idle"]
        /\ phase' \in {"renaming", "copying"}
        /\ todo' \in SUBSET Sources
    BY <2>0 DEF Planned
  <2> HIDE DEF listed
  <2>4. JobType'
    <3>1. runs' \in 0..MaxRuns
      BY <1>1 DEF Begin, TInv, TypeOK, JobType
    <3>2. size' \in [Files -> Nat]
      BY <2>2, <2>3 DEF TInv, TypeOK, JobType
    <3> QED BY <1>1, <2>1, <2>3, <3>1, <3>2 DEF Begin, JobType
  <2>5. \A f \in Files : rd[f] = NoInode /\ wr[f] = NoInode
    BY <1>1 DEF Begin, Running, TInv, PoolIdle, TypeOK, TaskType
  <2>6. TaskType'
    BY <1>1, <2>3, <2>5 DEF Begin, TInv, TypeOK, TaskType, TaskStates
  <2>7. DiskType'
    BY <1>1, NewFileContent DEF Begin, TInv, TypeOK, DiskType
  <2> QED BY <1>1, <2>4, <2>6, <2>7 DEF Begin, TInv, TypeOK
<1>2. ASSUME NEW o \in Options, PlanFails(o) PROVE TypeOK'
  <2>1. \A f \in Files : rd[f] = NoInode /\ wr[f] = NoInode
    BY <1>2 DEF PlanFails, Running, TInv, PoolIdle, TypeOK, TaskType
  <2>2. TaskType'
    BY <1>2, <2>1 DEF PlanFails, TInv, TypeOK, TaskType, TaskStates
  <2>3. JobType'
    BY <1>2 DEF PlanFails, TInv, TypeOK, JobType
  <2> QED BY <1>2, <2>2, <2>3 DEF PlanFails, TInv, TypeOK, DiskType, diskVars
<1>3. CASE Cancel
  BY <1>3 DEF Cancel, TInv, TypeOK, DiskType, JobType, TaskType, diskVars, jobVars, taskVars
<1>4. CASE Crash
  <2>1. TaskType'
    BY <1>4 DEF Crash, TInv, TypeOK, TaskType, TaskStates
  <2> QED BY <1>4, <2>1 DEF Crash, TInv, TypeOK, DiskType, JobType, diskVars
<1> QED BY <1>1, <1>2, <1>3, <1>4 DEF User

\* Only the pool has tasks between queued and done, and only while it runs.
LEMMA PoolStep ==
  ASSUME TInv, Next
  PROVE  PoolIdle'
<1> USE DEF PoolIdle
<1>1. ASSUME NEW f \in Files, Task(f) PROVE PoolIdle'
  <2>1. phase = "copying"
    BY <1>1 DEF Task, Progress, TakeTask, CheckDst, RemoveDst, OpenFiles, CloneFile,
                CopyChunk, EndOfFile, CancelCopy, Verify, TaskFails, TInv
  <2>2. phase' = phase
    BY <1>1 DEF Task, Progress, TakeTask, CheckDst, RemoveDst, OpenFiles, CloneFile,
                CopyChunk, EndOfFile, CancelCopy, Verify, TaskFails, jobVars
  <2> QED BY <2>1, <2>2
<1>2. CASE JobThread
  BY <1>2 DEF JobThread, RenameSource, FallBackToCopy, RemoveOriginal, CancelRenaming,
              StartFallback, PoolFails, Join, JoinWhen, Finish, taskVars, jobVars, TInv
<1>3. CASE User
  BY <1>3 DEF User, Begin, PlanFails, Cancel, taskVars, jobVars, TInv, TypeOK, TaskType
<1>4. CASE Crash
  BY <1>4 DEF Crash
<1> QED BY <1>1, <1>2, <1>3, <1>4 DEF Next

\* The inductive form of type correctness.
LEMMA TypeInvariant == Spec => []TInv
<1>1. Init => TInv
  BY InitTInv
<1>2. TInv /\ [Next]_vars => TInv'
  <2>1. ASSUME TInv, Next PROVE TInv'
    BY <2>1, TaskStepType, JobStepType, OutsideStepType, PoolStep DEF Next, TInv
  <2>2. ASSUME TInv, UNCHANGED vars PROVE TInv'
    BY <2>2 DEF TInv, TypeOK, DiskType, JobType, TaskType, PoolIdle, vars, diskVars,
                jobVars, taskVars
  <2> QED BY <2>1, <2>2
<1> QED BY <1>1, <1>2, PTL DEF Spec

\* The state is well typed in every behaviour, and a task has its two handles open
\* exactly while it copies.
THEOREM TypeCorrect == Spec => []TypeOK
<1>1. TInv => TypeOK
  BY DEF TInv
<1> QED BY <1>1, TypeInvariant, PTL

-----------------------------------------------------------------------------
(* The verdicts. FinishedHidesNothing looks at the last step of a job; the *)
(* induction has to know in every phase what the outcomes can be, and      *)
(* which files the pool still owes an outcome.                             *)

\* The rename loop: exactly the files whose source was renamed have an outcome.
Renaming ==
  phase = "renaming" =>
    /\ todo \intersect fallback = {}
    /\ \A f \in plan : outcome[f] =
         IF SourceOf[f] \in todo \union fallback THEN "none" ELSE "moved"

\* The pool: an outcome is there when, and only when, the task is done.
Pooling ==
  phase = "copying" =>
    /\ \A f \in Files \ plan : pc[f] = "idle"
    /\ \A f \in plan :
         outcome[f] \in CASE pc[f] = "idle" -> {"moved"}
                          [] pc[f] = "done" -> Verdicts
                          [] OTHER          -> {"none"}

\* The removal loop: nothing went wrong.
Removing ==
  phase = "removing" => \A f \in plan : outcome[f] \in {"copied", "skipped", "moved"}

JInv ==
  /\ Running => terminal = "none"
  /\ Renaming /\ Pooling /\ Removing
  /\ FinishedHidesNothing

LEMMA InitJInv == Init => JInv
  BY DEF Init, JInv, Running, Renaming, Pooling, Removing, FinishedHidesNothing

\* What a step of f's task does to the outcomes: nothing, or its own, at its end.
OutcomeStep(f) ==
  \/ /\ outcome' = outcome
     /\ \E w \in TaskStates \ {"idle", "done"} : pc' = [pc EXCEPT ![f] = w]
  \/ /\ pc' = [pc EXCEPT ![f] = "done"]
     /\ \E o \in Verdicts : outcome' = [outcome EXCEPT ![f] = o]

LEMMA TaskOutcome ==
  ASSUME TInv, NEW f \in Files, Task(f)
  PROVE  /\ phase = "copying" /\ pc[f] \notin {"idle", "done"}
         /\ OutcomeStep(f)
         /\ UNCHANGED jobVars
<1>1. pc[f] \notin {"idle", "done"}
  BY DEF Task, Progress, TakeTask, CheckDst, RemoveDst, OpenFiles, CloneFile,
         CopyChunk, EndOfFile, CancelCopy, Verify, TaskFails
<1>2. phase = "copying"
  BY <1>1 DEF TInv, PoolIdle
<1>3. UNCHANGED jobVars
  BY DEF Task, Progress, TakeTask, CheckDst, RemoveDst, OpenFiles, CloneFile,
         CopyChunk, EndOfFile, CancelCopy, Verify, TaskFails
<1>4. \A o \in Verdicts : EndTask(f, o) => OutcomeStep(f)
  BY DEF EndTask, OutcomeStep
<1>5. EndCopy(f) => OutcomeStep(f)
  BY <1>4 DEF EndCopy, OutcomeStep, TaskStates, Verdicts
<1>6. pc = [pc EXCEPT ![f] = pc[f]] /\ pc[f] \in TaskStates
  BY DEF TInv, TypeOK, TaskType
<1>7. TakeTask(f) => OutcomeStep(f)
  BY <1>4 DEF TakeTask, OutcomeStep, TaskStates, Verdicts
<1>8. CheckDst(f) => OutcomeStep(f)
  BY <1>4 DEF CheckDst, OutcomeStep, TaskStates, Verdicts
<1>9. RemoveDst(f) \/ OpenFiles(f) => OutcomeStep(f)
  BY DEF RemoveDst, OpenFiles, OutcomeStep, TaskStates
<1>10. CloneFile(f) \/ EndOfFile(f) => OutcomeStep(f)
  BY <1>5 DEF CloneFile, EndOfFile
<1>11. CopyChunk(f) => OutcomeStep(f)
  BY <1>1, <1>6 DEF CopyChunk, OutcomeStep
<1>12. CancelCopy(f) \/ TaskFails(f) => OutcomeStep(f)
  BY <1>4 DEF CancelCopy, TaskFails, Verdicts
<1>13. Verify(f) => OutcomeStep(f)
  BY <1>4 DEF Verify, Verdicts
<1> QED BY <1>1, <1>2, <1>3, <1>7, <1>8, <1>9, <1>10, <1>11, <1>12, <1>13
        DEF Task, Progress

LEMMA PathTypes ==
  ASSUME TInv
  PROVE  /\ dir \in [Paths -> Inodes \union {NoInode}]
         /\ \A f \in Files : SrcPath[f] \in Paths /\ DstPath[f] \in Paths
         /\ plan \subseteq Files
         /\ NoInode \notin Inodes
  BY CopyConstants DEF TInv, TypeOK, DiskType, JobType

\* A task changes nothing but the destination of its file.
LEMMA TaskDir ==
  ASSUME TInv, NEW f \in Files, Task(f)
  PROVE  \A p \in Paths : p # DstPath[f] => dir'[p] = dir[p]
<1>1. CASE RemoveDst(f)
  BY <1>1, PathTypes DEF RemoveDst
<1>2. CASE OpenFiles(f)
  BY <1>2, PathTypes DEF OpenFiles
<1>3. CASE CloneFile(f)
  BY <1>3, PathTypes DEF CloneFile
<1>4. CASE \/ TakeTask(f) \/ CheckDst(f) \/ CopyChunk(f) \/ EndOfFile(f)
           \/ CancelCopy(f) \/ Verify(f) \/ TaskFails(f)
  BY <1>4 DEF TakeTask, CheckDst, CopyChunk, EndOfFile, CancelCopy, Verify, TaskFails, diskVars
<1> QED BY <1>1, <1>2, <1>3, <1>4 DEF Task, Progress

LEMMA NextJInv ==
  ASSUME TInv, JInv, Next
  PROVE  JInv'
<1> USE DEF JInv, Running
<1>1. ASSUME NEW f \in Files, Task(f) PROVE JInv'
  <2>1. /\ phase = "copying" /\ phase' = "copying" /\ plan' = plan
        /\ terminal' = terminal /\ terminal = "none"
    BY <1>1, TaskOutcome DEF jobVars
  <2>2. Pooling'
    BY <1>1, <2>1, TaskOutcome
       DEF OutcomeStep, Pooling, TInv, TypeOK, TaskType, JobType, TaskStates, Verdicts
  <2> QED BY <2>1, <2>2 DEF Renaming, Removing, FinishedHidesNothing
<1>2. ASSUME NEW s \in Sources, RenameSource(s) PROVE JInv'
  <2>1. /\ phase = "renaming" /\ phase' = "renaming" /\ plan' = plan
        /\ terminal' = "none" /\ todo' = todo \ {s} /\ fallback' = fallback
    BY <1>2 DEF RenameSource
  <2>2. \A f \in plan : outcome'[f] = IF SourceOf[f] = s THEN "moved" ELSE outcome[f]
    BY <1>2 DEF RenameSource, TInv, TypeOK, JobType
  <2>3. s \in todo /\ s \notin fallback
    BY <1>2, <2>1 DEF RenameSource, Renaming
  <2>4. Renaming'
    BY <2>1, <2>2, <2>3 DEF Renaming
  <2> QED BY <2>1, <2>4 DEF Pooling, Removing, FinishedHidesNothing
<1>3. ASSUME NEW s \in Sources, FallBackToCopy(s) PROVE JInv'
  BY <1>3 DEF FallBackToCopy, taskVars, Renaming, Pooling, Removing, FinishedHidesNothing
<1>4. ASSUME NEW s \in Sources, RemoveOriginal(s) PROVE JInv'
  BY <1>4 DEF RemoveOriginal, taskVars, Renaming, Pooling, Removing, FinishedHidesNothing
<1>5. CASE CancelRenaming
  BY <1>5 DEF CancelRenaming, Renaming, Pooling, Removing, FinishedHidesNothing
<1>6. CASE StartFallback
  <2>1. Pooling'
    BY <1>6 DEF StartFallback, Renaming, Pooling, TInv, TypeOK, JobType
  <2> QED BY <1>6, <2>1 DEF StartFallback, Renaming, Removing, FinishedHidesNothing
<1>7. CASE PoolFails
  <2>1. Pooling'
    BY <1>7 DEF PoolFails, jobVars, Pooling, Verdicts, TInv, TypeOK, JobType
  <2> QED BY <1>7, <2>1
          DEF PoolFails, jobVars, Renaming, Removing, FinishedHidesNothing
<1>8. CASE Join
  <2>1. \A f \in plan : outcome[f] \in Verdicts \union {"moved"}
    BY <1>8 DEF Join, JoinWhen, Pooling, TInv, TypeOK, JobType
  <2>2. ~Failed /\ ~Cancelled => \A f \in plan : outcome[f] \in {"copied", "skipped", "moved"}
    BY <2>1 DEF Failed, Cancelled, Verdicts
  <2>3. ~Cancelled => \A f \in plan : outcome[f] \in {"copied", "skipped", "failed", "moved"}
    BY <2>1 DEF Cancelled, Verdicts
  <2> QED BY <1>8, <2>2, <2>3
          DEF Join, JoinWhen, taskVars, Renaming, Pooling, Removing, FinishedHidesNothing
<1>9. CASE Finish
  BY <1>9 DEF Finish, taskVars, Renaming, Pooling, Removing, FinishedHidesNothing
<1>10. ASSUME NEW S \in SUBSET Sources, NEW o \in Options, Begin(S, o) PROVE JInv'
  <2>1. /\ plan' \subseteq FilesOf(S)
        /\ outcome' = [f \in Files |-> "none"]
        /\ fallback' = {} /\ terminal' = "none"
    BY <1>10, BeginPlans DEF Begin, Planned
  <2>2. CASE o.mode = "move"
    <3>1. phase' = "renaming" /\ todo' = S
      BY <1>10, <2>2, BeginPlans DEF Planned
    <3> QED BY <2>1, <3>1 DEF FilesOf, Renaming, Pooling, Removing, FinishedHidesNothing
  <2>3. CASE o.mode # "move"
    <3>1. phase' = "copying" /\ pc' = [f \in Files |-> IF f \in plan' THEN "queued" ELSE "idle"]
      BY <1>10, <2>3, BeginPlans DEF Planned
    <3> QED BY <2>1, <3>1 DEF FilesOf, Renaming, Pooling, Removing, FinishedHidesNothing
  <2> QED BY <2>2, <2>3
<1>11. ASSUME NEW o \in Options, PlanFails(o) PROVE JInv'
  BY <1>11 DEF PlanFails, Renaming, Pooling, Removing, FinishedHidesNothing
<1>12. CASE Cancel
  BY <1>12 DEF Cancel, jobVars, taskVars, Renaming, Pooling, Removing, FinishedHidesNothing
<1>13. CASE Crash
  BY <1>13 DEF Crash, Renaming, Pooling, Removing, FinishedHidesNothing
<1> QED BY <1>1, <1>2, <1>3, <1>4, <1>5, <1>6, <1>7, <1>8, <1>9, <1>10, <1>11, <1>12, <1>13
        DEF Next, JobThread, User

LEMMA VerdictInvariant == Spec => []JInv
<1>1. TInv /\ JInv /\ [Next]_vars => JInv'
  <2>1. ASSUME TInv, JInv, UNCHANGED vars PROVE JInv'
    BY <2>1 DEF JInv, Running, Renaming, Pooling, Removing, FinishedHidesNothing, vars,
                diskVars, jobVars, taskVars
  <2> QED BY <2>1, NextJInv
<1> QED BY InitJInv, TypeInvariant, <1>1, PTL DEF Spec

\* A job that reports Finished has a verdict, other than abandoned, on each of its
\* files: no interleaving of the pool, the cancellation and the rename loop hides one.
THEOREM FinishedIsHonest == Spec => []FinishedHidesNothing
<1>1. JInv => FinishedHidesNothing
  BY DEF JInv
<1> QED BY VerdictInvariant, <1>1, PTL

-----------------------------------------------------------------------------
(* CopyJob implements Transfer: what the pool, the rename loop and the     *)
(* removal loop do to the files of a job is what Transfer allows, wherever *)
(* no original lies where a file is copied to.                             *)

\* No chosen file is the destination of one: a file is not copied onto itself or
\* onto another file of the selection.
Apart == \A f, g \in Files : SrcPath[f] # DstPath[g]

PresentBar == [f \in Files |-> Exists(SrcPath[f])]

LEMMA InitRefines == Init => T!Init
<1> SUFFICES ASSUME Init PROVE T!Init
  OBVIOUS
<1>1. plan = {} /\ phase = "idle"
  BY DEF Init
<1>2. \A f \in Files : StatusOf(f) = "none"
  BY <1>1 DEF StatusOf
<1>3. ResultSeen = "silent"
  BY <1>1 DEF ResultSeen, Running
<1>4. \A f \in Files : Exists(SrcPath[f])
  <2>1. PICK there \in SUBSET (Paths \ {SrcPath[f] : f \in Files}) :
          dir = [p \in Paths |->
                   IF p \in there \union {SrcPath[f] : f \in Files} THEN p ELSE NoInode]
    BY DEF Init
  <2> QED BY <2>1, CopyConstants DEF Exists
<1> QED BY <1>2, <1>3, <1>4 DEF T!Init

\* A step that changes no verdict, no original and no result is a stutter.
LEMMA Stutters ==
  ASSUME UNCHANGED <<plan, outcome>>, PresentBar' = PresentBar, ResultSeen' = ResultSeen
  PROVE  UNCHANGED T!vars
<1>1. \A f \in Files : StatusOf(f)' = StatusOf(f)
  BY DEF StatusOf
<1> QED BY <1>1 DEF T!vars, PresentBar

\* What stays of the disk stays of the originals.
LEMMA SamePresent ==
  ASSUME UNCHANGED dir
  PROVE  PresentBar' = PresentBar
  BY DEF PresentBar, Exists

LEMMA TaskRefines ==
  ASSUME Apart, TInv, JInv, NEW f \in Files, Task(f)
  PROVE  [T!Next]_T!vars
<1>1. /\ phase = "copying" /\ pc[f] \notin {"idle", "done"}
      /\ OutcomeStep(f)
      /\ UNCHANGED jobVars
  BY TaskOutcome
<1>2. PresentBar' = PresentBar
  BY TaskDir, PathTypes DEF Apart, PresentBar, Exists
<1>3. f \in plan /\ outcome[f] = "none"
  BY <1>1 DEF JInv, Pooling
<1>4. ResultSeen = "running" /\ ResultSeen' = "running"
  BY <1>1 DEF ResultSeen, Running, jobVars
<1>5. CASE outcome' = outcome
  BY <1>1, <1>2, <1>4, <1>5, Stutters DEF jobVars
<1>6. ASSUME NEW o \in Verdicts, outcome' = [outcome EXCEPT ![f] = o] PROVE T!Settle({f}, o)
  <2>1. outcome \in [Files -> Verdicts \union {"none", "moved"}] /\ o # "none"
    BY DEF TInv, TypeOK, TaskType, Verdicts
  <2>2. \A g \in Files : StatusOf(g)' = IF g = f THEN o ELSE StatusOf(g)
    BY <1>1, <1>3, <1>6, <2>1 DEF StatusOf, jobVars
  <2>3. StatusOf(f) = "waiting"
    BY <1>3 DEF StatusOf
  <2> QED BY <1>2, <1>4, <2>2, <2>3 DEF T!Settle, PresentBar
<1> QED BY <1>1, <1>5, <1>6 DEF OutcomeStep, T!Next, T!Verdicts, Verdicts

LEMMA RenameRefines ==
  ASSUME Apart, TInv, JInv, NEW s \in Sources, RenameSource(s)
  PROVE  T!Next
<1> DEFINE F == {f \in FilesOf({s}) : Exists(SrcPath[f])}
           M == {f \in plan : SourceOf[f] = s}
<1>1. /\ phase = "renaming" /\ s \in todo /\ UNCHANGED <<phase, plan, terminal>>
      /\ outcome' = [f \in Files |->
           IF f \in plan /\ SourceOf[f] = s THEN "moved" ELSE outcome[f]]
  BY DEF RenameSource
<1>2. dir' = [p \in Paths |->
        IF \E f \in F : DstPath[f] = p
          THEN dir[SrcPath[CHOOSE f \in F : DstPath[f] = p]]
          ELSE IF \E f \in F : SrcPath[f] = p THEN NoInode ELSE dir[p]]
  BY DEF RenameSource
<1>3. F \subseteq Files /\ \A f \in Files : f \in F <=> SourceOf[f] = s /\ Exists(SrcPath[f])
  BY DEF FilesOf
<1> HIDE DEF F
<1>4. \A f \in Files : dir'[SrcPath[f]] = IF f \in F THEN NoInode ELSE dir[SrcPath[f]]
  <2>1. \A f, g \in Files : SrcPath[f] = SrcPath[g] => f = g
    BY CopyConstants
  <2> QED BY <1>2, <1>3, <2>1, PathTypes DEF Apart
<1>5. \A f \in Files : Exists(SrcPath[f])' <=> Exists(SrcPath[f]) /\ SourceOf[f] # s
  BY <1>3, <1>4 DEF Exists
<1>6. \A f \in M : f \in Files /\ StatusOf(f) = "waiting"
  BY <1>1, PathTypes DEF JInv, Renaming, StatusOf
<1>7. \A f \in Files : StatusOf(f)' = IF f \in M THEN "moved" ELSE StatusOf(f)
  BY <1>1 DEF StatusOf
<1>8. \A f \in Files \ M : SourceOf[f] = s => StatusOf(f) = "none"
  BY DEF StatusOf
<1>9. ResultSeen = "running" /\ ResultSeen' = "running"
  BY <1>1 DEF ResultSeen, Running
<1>10. M \subseteq Files
  BY PathTypes
<1>11. \A f \in M : SourceOf[f] = s
  OBVIOUS
<1> HIDE DEF M
<1>12. /\ PresentBar \in [Files -> BOOLEAN] /\ PresentBar' \in [Files -> BOOLEAN]
       /\ \A f \in Files : /\ (PresentBar[f] <=> Exists(SrcPath[f]))
                            /\ (PresentBar'[f] <=> Exists(SrcPath[f])')
  BY DEF PresentBar, Exists
<1>13. /\ \A f \in M : ~PresentBar'[f]
       /\ \A f \in Files : PresentBar'[f] => PresentBar[f]
       /\ \A f \in Files \ M : StatusOf(f) # "none" => PresentBar'[f] = PresentBar[f]
  <2>1. ASSUME NEW f \in M PROVE ~PresentBar'[f]
    BY <1>5, <1>10, <1>11, <1>12
  <2>2. ASSUME NEW f \in Files, PresentBar'[f] PROVE PresentBar[f]
    BY <1>5, <1>12, <2>2
  <2>3. ASSUME NEW f \in Files \ M, StatusOf(f) # "none" PROVE PresentBar'[f] = PresentBar[f]
    <3>1. PresentBar'[f] <=> PresentBar[f]
      BY <1>5, <1>8, <1>12, <2>3
    <3> QED BY <1>12, <3>1
  <2> QED BY <2>1, <2>2, <2>3
<1>14. [f \in Files |-> StatusOf(f)]' = [f \in Files |->
          IF f \in M THEN "moved" ELSE [g \in Files |-> StatusOf(g)][f]]
  BY <1>7
<1>15. T!Rename(M)
  BY <1>6, <1>9, <1>10, <1>12, <1>13, <1>14 DEF T!Rename, PresentBar
<1> QED BY <1>10, <1>15 DEF T!Next

\* The pool could not be made: every file that waits has failed.
LEMMA PoolFailsRefines ==
  ASSUME TInv, JInv, PoolFails
  PROVE  T!Next
<1> DEFINE F == {f \in Files : pc[f] = "queued"}
<1>1. /\ phase = "copying" /\ UNCHANGED <<dir, phase, plan, terminal>>
      /\ outcome' = [f \in Files |-> IF pc[f] = "queued" THEN "failed" ELSE outcome[f]]
  BY DEF PoolFails, diskVars, jobVars
<1>2. \A f \in F : f \in plan /\ outcome[f] = "none"
  BY <1>1 DEF JInv, Pooling
<1>3. \A f \in F : StatusOf(f) = "waiting"
  BY <1>2 DEF StatusOf
<1>4. \A f \in Files : StatusOf(f)' = IF f \in F THEN "failed" ELSE StatusOf(f)
  BY <1>1, <1>2 DEF StatusOf
<1>5. ResultSeen = "running" /\ ResultSeen' = "running"
  BY <1>1 DEF ResultSeen, Running
<1>6. PresentBar' = PresentBar
  BY <1>1, SamePresent
<1>7. F \subseteq Files
  OBVIOUS
<1> HIDE DEF F
<1>8. T!Settle(F, "failed")
  BY <1>3, <1>4, <1>5, <1>6, <1>7 DEF T!Settle, PresentBar
<1> QED BY <1>7, <1>8 DEF T!Next, T!Verdicts

\* What is said at the end.
LEMMA SameVerdicts ==
  ASSUME UNCHANGED <<dir, plan, outcome>>
  PROVE  /\ [f \in Files |-> StatusOf(f)]' = [f \in Files |-> StatusOf(f)]
         /\ [f \in Files |-> Exists(SrcPath[f])]' = [f \in Files |-> Exists(SrcPath[f])]
  BY DEF StatusOf, Exists

LEMMA EndsWell ==
  ASSUME UNCHANGED <<dir, plan, outcome>>, ResultSeen = "running", ResultSeen' = "Finished",
         \A f \in plan : outcome[f] \in {"copied", "skipped", "failed", "moved"}
  PROVE  T!Next
<1>1. \A f \in Files : StatusOf(f) \notin {"waiting", "abandoned"}
  BY DEF StatusOf
<1>2. ~T!Has({"waiting", "abandoned"})
  BY <1>1 DEF T!Has
<1>3. T!Finish
  BY <1>2, SameVerdicts DEF T!Finish
<1> QED BY <1>3 DEF T!Next

LEMMA EndsEarly ==
  ASSUME UNCHANGED <<dir, plan, outcome>>, ResultSeen = "running",
         ResultSeen' \in {"Cancelled", "silent"}
  PROVE  T!Next
  BY SameVerdicts DEF T!Stop, T!Next

LEMMA JobThreadRefines ==
  ASSUME Apart, TInv, JInv, JobThread
  PROVE  [T!Next]_T!vars
<1>1. ASSUME NEW s \in Sources, RenameSource(s) PROVE T!Next
  BY <1>1, RenameRefines
<1>2. ASSUME NEW s \in Sources, FallBackToCopy(s) PROVE UNCHANGED T!vars
  <2>1. ResultSeen' = ResultSeen
    BY <1>2 DEF FallBackToCopy, ResultSeen, Running
  <2> QED BY <1>2, <2>1, SamePresent, Stutters DEF FallBackToCopy, diskVars, taskVars
<1>3. ASSUME NEW s \in Sources, RemoveOriginal(s) PROVE T!Next
  <2>1. PICK gone \in SUBSET {f \in FilesOf({s}) : Exists(SrcPath[f])} :
          dir' = [p \in Paths |-> IF \E f \in gone : SrcPath[f] = p THEN NoInode ELSE dir[p]]
    BY <1>3 DEF RemoveOriginal
  <2>2. UNCHANGED <<plan, outcome, phase, terminal>> /\ phase = "removing"
    BY <1>3 DEF RemoveOriginal, taskVars
  <2>3. \A f \in Files : Exists(SrcPath[f])' => Exists(SrcPath[f])
    BY <2>1, PathTypes DEF Exists
  <2>4. /\ [f \in Files |-> Exists(SrcPath[f])]' \in [Files -> BOOLEAN]
        /\ \A f \in Files : [g \in Files |-> Exists(SrcPath[g])]'[f]
                              => [g \in Files |-> Exists(SrcPath[g])][f]
    BY <2>3 DEF Exists
  <2>5. \A f \in Files : StatusOf(f) \notin {"waiting", "failed", "abandoned"}
    BY <2>2 DEF JInv, Removing, StatusOf
  <2>6. ~T!Has({"waiting", "failed", "abandoned"})
    BY <2>5 DEF T!Has
  <2>7. [f \in Files |-> StatusOf(f)]' = [f \in Files |-> StatusOf(f)]
    BY <2>2 DEF StatusOf
  <2>8. ResultSeen = "running" /\ ResultSeen' = ResultSeen
    BY <2>2 DEF ResultSeen, Running
  <2> QED BY <2>4, <2>6, <2>7, <2>8 DEF T!Discard, T!Next
<1>4. CASE CancelRenaming
  <2>1. ResultSeen = "running" /\ ResultSeen' = "Cancelled"
    BY <1>4 DEF CancelRenaming, ResultSeen, Running
  <2> QED BY <1>4, <2>1, EndsEarly DEF CancelRenaming, diskVars, taskVars
<1>5. CASE StartFallback
  <2>1. ResultSeen' = ResultSeen
    BY <1>5 DEF StartFallback, ResultSeen, Running
  <2> QED BY <1>5, <2>1, SamePresent, Stutters DEF StartFallback, diskVars
<1>6. CASE PoolFails
  BY <1>6, PoolFailsRefines
<1>7. CASE Join
  <2>1. UNCHANGED <<dir, plan, outcome>> /\ ResultSeen = "running"
    BY <1>7 DEF Join, JoinWhen, diskVars, taskVars, ResultSeen, Running
  <2>2. \A f \in plan : outcome[f] \in Verdicts \union {"moved"}
    BY <1>7 DEF Join, JoinWhen, JInv, Pooling, TInv, TypeOK, JobType
  <2>3. CASE phase' = "removing"
    <3>1. ResultSeen' = "running"
      BY <2>3 DEF ResultSeen, Running
    <3> QED BY <2>1, <3>1, SamePresent, Stutters
  <2>4. CASE phase' # "removing" /\ Cancelled
    <3>1. ResultSeen' = "Cancelled"
      BY <1>7, <2>4 DEF Join, JoinWhen, ResultSeen, Running
    <3> QED BY <2>1, <3>1, EndsEarly
  <2>5. CASE phase' # "removing" /\ ~Cancelled
    <3>1. ResultSeen' = "Finished"
      BY <1>7, <2>5 DEF Join, JoinWhen, ResultSeen, Running
    <3>2. \A f \in plan : outcome[f] \in {"copied", "skipped", "failed", "moved"}
      BY <2>2, <2>5 DEF Cancelled, Verdicts
    <3> QED BY <2>1, <3>1, <3>2, EndsWell
  <2> QED BY <2>3, <2>4, <2>5
<1>8. CASE Finish
  <2>1. ResultSeen = "running" /\ ResultSeen' = "Finished"
    BY <1>8 DEF Finish, ResultSeen, Running
  <2>2. \A f \in plan : outcome[f] \in {"copied", "skipped", "failed", "moved"}
    BY <1>8 DEF Finish, JInv, Removing
  <2> QED BY <1>8, <2>1, <2>2, EndsWell DEF Finish, diskVars, taskVars
<1> QED BY <1>1, <1>2, <1>3, <1>4, <1>5, <1>6, <1>7, <1>8 DEF JobThread

LEMMA OutsideRefines ==
  ASSUME TInv, JInv, User \/ Crash
  PROVE  [T!Next]_T!vars
<1>1. ASSUME NEW S \in SUBSET Sources, NEW o \in Options, Begin(S, o) PROVE T!Next
  <2>1. /\ outcome' = [f \in Files |-> "none"] /\ dir' = dir /\ ~Running
        /\ phase' \in {"renaming", "copying"}
    BY <1>1, BeginPlans DEF Begin, Planned
  <2>2. ResultSeen # "running" /\ ResultSeen' = "running"
    BY <2>1, <1>1 DEF ResultSeen, Running, TInv, TypeOK, JobType
  <2>3. [f \in Files |-> StatusOf(f)]' \in [Files -> {"none", "waiting"}]
    BY <2>1 DEF StatusOf
  <2> QED BY <2>1, <2>2, <2>3, SamePresent DEF T!Begin, T!Next, PresentBar
<1>2. ASSUME NEW o \in Options, PlanFails(o) PROVE T!Next
  <2>1. /\ plan' = {} /\ dir' = dir /\ ~Running /\ phase' = "ended" /\ terminal' = "none"
    BY <1>2 DEF PlanFails, diskVars
  <2>2. ResultSeen # "running" /\ ResultSeen' = "silent"
    BY <2>1 DEF ResultSeen, Running, TInv, TypeOK, JobType
  <2>3. [f \in Files |-> StatusOf(f)]' = [f \in Files |-> "none"]
    BY <2>1 DEF StatusOf
  <2> QED BY <2>1, <2>2, <2>3, SamePresent DEF T!Refuse, T!Next, PresentBar
<1>3. CASE Cancel
  <2>1. ResultSeen' = ResultSeen
    BY <1>3 DEF Cancel, jobVars, ResultSeen, Running
  <2> QED BY <1>3, <2>1, SamePresent, Stutters DEF Cancel, diskVars, jobVars, taskVars
<1>4. CASE Crash
  <2>1. ResultSeen = "running" /\ ResultSeen' = "silent"
    BY <1>4 DEF Crash, ResultSeen, Running
  <2> QED BY <1>4, <2>1, EndsEarly DEF Crash, diskVars
<1> QED BY <1>1, <1>2, <1>3, <1>4 DEF User

\* Where no chosen file lies at the destination of one, every behaviour of the engine is
\* one of the abstract job: a file gets one verdict at most, originals change place one
\* source at a time and go only after good verdicts, and the last event agrees with them.
THEOREM CopyImplementsTransfer ==
  ASSUME Apart
  PROVE  Spec => ImplementsTransfer
<1>1. TInv /\ JInv /\ [Next]_vars => [T!Next]_T!vars
  <2>1. ASSUME TInv, JInv, Next PROVE [T!Next]_T!vars
    BY <2>1, TaskRefines, JobThreadRefines, OutsideRefines DEF Next
  <2>2. ASSUME UNCHANGED vars PROVE UNCHANGED T!vars
    <3>1. ResultSeen' = ResultSeen
      BY <2>2 DEF vars, jobVars, ResultSeen, Running
    <3> QED BY <2>2, <3>1, SamePresent, Stutters DEF vars, diskVars, jobVars, taskVars
  <2> QED BY <2>1, <2>2
<1> QED BY InitRefines, TypeInvariant, VerdictInvariant, <1>1, PTL DEF Spec, ImplementsTransfer, T!Spec

-----------------------------------------------------------------------------
(***************************************************************************)
(* What CopyJob does to the contents of files: a copied file is complete,  *)
(* and an unskipped file survives at one of its two places, for any number *)
(* of files, threads, chunks, jobs and restarts.                           *)
(***************************************************************************)

\* No inode has two names (the engine never makes a hard link).
OneName == \A p, q \in Paths : Exists(p) /\ dir[p] = dir[q] => p = q

\* What a task writes has no name but its destination, and only tasks with the same
\* destination write it: an unlinked inode is never found under another path.
Writers ==
  \A f \in Files : pc[f] = "copy" =>
    /\ \A p \in Paths : dir[p] = wr[f] => p = DstPath[f]
    /\ \A g \in Files : pc[g] = "copy" /\ wr[g] = wr[f] => DstPath[g] = DstPath[f]

\* An original nobody copies onto is whole as long as it is there; the plan has its
\* length or, when that could not be read, 0.
Originals ==
  \A f \in Files : Alone(f) =>
    /\ size[f] \in {0, Size[f]}
    /\ Exists(SrcPath[f]) => data[dir[SrcPath[f]]] = Full(f)

\* The chunk loop: what was read has been written, the rest is the preallocation.
Copying ==
  \A f \in Files : Alone(f) /\ pc[f] = "copy" =>
    /\ rd[f] = dir[SrcPath[f]] /\ wr[f] = dir[DstPath[f]]
    /\ pos[f] <= Size[f]
    /\ Len(data[wr[f]]) \in {pos[f], Size[f]}
    /\ \A k \in 1..pos[f] : data[wr[f]][k] = f

\* What the plan and the outcomes say of the originals: a file that still has to be
\* copied is there, and a source that was renamed is no longer one to be removed.
Listing ==
  /\ \A f \in Files \ plan : outcome[f] = "none"
  /\ phase \in {"renaming", "copying"} =>
       \A f \in plan : Alone(f) /\ outcome[f] # "moved" => Exists(SrcPath[f])
  /\ Running =>
       \A f \in plan : outcome[f] = "moved" => SourceOf[f] \notin todo \union fallback
  /\ \A f \in Files : outcome[f] = "skipped" => f \in skipped

DInv == OneName /\ Writers /\ Originals /\ Copying /\ Listing
        /\ CopiedIsComplete /\ UnskippedSurvives

-----------------------------------------------------------------------------

LEMMA DiskTypes ==
  ASSUME TInv
  PROVE  /\ dir \in [Paths -> Inodes \union {NoInode}]
         /\ data \in [Inodes -> Content]
         /\ \A f \in Files : SrcPath[f] \in Paths /\ DstPath[f] \in Paths
         /\ pc \in [Files -> TaskStates]
         /\ outcome \in [Files -> Verdicts \union {"none", "moved"}]
         /\ rd \in [Files -> Inodes \union {NoInode}]
         /\ wr \in [Files -> Inodes \union {NoInode}]
         /\ pos \in [Files -> Nat]
         /\ \A f \in Files : pc[f] = "copy" => rd[f] \in Inodes /\ wr[f] \in Inodes
         /\ plan \subseteq Files
         /\ Size \in [Files -> Nat]
         /\ NoInode \notin Inodes
  BY CopyConstants DEF TInv, TypeOK, DiskType, JobType, TaskType

LEMMA InitDInv == Init => DInv
<1> SUFFICES ASSUME Init PROVE DInv
  OBVIOUS
<1>1. PICK there \in SUBSET (Paths \ {SrcPath[f] : f \in Files}) :
        \E len \in [there -> OldLengths] :
          /\ dir = [p \in Paths |->
               IF p \in there \union {SrcPath[f] : f \in Files} THEN p ELSE NoInode]
          /\ data = [i \in Inodes |->
               IF \E f \in Files : SrcPath[f] = i
                 THEN Full(CHOOSE f \in Files : SrcPath[f] = i)
                 ELSE IF i \in there THEN [k \in 1..len[i] |-> Old] ELSE <<>>]
  BY DEF Init
<1>2. /\ phase = "idle" /\ size = Size /\ plan = {}
      /\ pc = [f \in Files |-> "idle"] /\ outcome = [f \in Files |-> "none"]
  BY DEF Init
<1>3. OneName
  BY <1>1, CopyConstants DEF OneName, Exists
<1>4. \A f \in Files : SrcPath[f] \in Inodes /\ dir[SrcPath[f]] = SrcPath[f]
                       /\ (CHOOSE g \in Files : SrcPath[g] = SrcPath[f]) = f
  BY <1>1, CopyConstants
<1>5. \A f \in Files : HasContent(SrcPath[f], f)
  BY <1>1, <1>4, CopyConstants DEF HasContent, Exists
<1>6. Originals /\ UnskippedSurvives
  BY <1>2, <1>5 DEF Originals, UnskippedSurvives, HasContent
<1>7. Writers /\ Copying /\ Listing /\ CopiedIsComplete
  BY <1>2 DEF Writers, Copying, Listing, CopiedIsComplete, Running
<1> QED BY <1>3, <1>6, <1>7 DEF DInv

-----------------------------------------------------------------------------
(* Steps that leave the disk alone.                                        *)

\* No task opens its files in this step, and those that copy go on as they were.
NoneOpened ==
  \A f \in Files : pc'[f] = "copy" =>
    pc[f] = "copy" /\ rd'[f] = rd[f] /\ wr'[f] = wr[f] /\ pos'[f] = pos[f]

LEMMA QuietStep ==
  ASSUME DInv, UNCHANGED <<dir, data, size>>, NoneOpened
  PROVE  OneName' /\ Writers' /\ Originals' /\ Copying'
<1>1. OneName' /\ Originals'
  BY DEF DInv, OneName, Originals, Exists
<1>2. Writers'
  BY DEF DInv, Writers, NoneOpened
<1>3. Copying'
  BY DEF DInv, Copying, NoneOpened
<1> QED BY <1>1, <1>2, <1>3

\* The contents of f's two places decide, whatever else a step changes.
LEMMA StillSurvives ==
  ASSUME DInv, UNCHANGED <<dir, data>>, skipped \subseteq skipped', unplanned' = unplanned
  PROVE  UnskippedSurvives'
  BY DEF DInv, UnskippedSurvives, HasContent, Exists

LEMMA StillComplete ==
  ASSUME DInv, UNCHANGED <<dir, data>>,
         \A f \in Files : outcome'[f] = "copied" => outcome[f] = "copied"
  PROVE  CopiedIsComplete'
  BY DEF DInv, CopiedIsComplete, HasContent, Exists

LEMMA JobQuiet ==
  ASSUME TInv, JInv, DInv,
         \/ \E s \in Sources : FallBackToCopy(s)
         \/ CancelRenaming \/ StartFallback \/ PoolFails \/ Join \/ Finish
         \/ \E o \in Options : PlanFails(o)
         \/ Cancel \/ Crash
  PROVE  DInv'
<1>1. UNCHANGED <<dir, data, size, skipped, unplanned>>
  BY DEF FallBackToCopy, CancelRenaming, StartFallback, PoolFails, Join, JoinWhen, Finish,
         PlanFails, Cancel, Crash, diskVars, jobVars
<1>2. NoneOpened
  BY DiskTypes
     DEF NoneOpened, FallBackToCopy, CancelRenaming, StartFallback, PoolFails, Join,
         JoinWhen, Finish, PlanFails, Cancel, Crash, taskVars
<1>3. \A f \in Files : outcome'[f] # outcome[f] => outcome'[f] \in {"none", "failed"}
  BY DEF FallBackToCopy, CancelRenaming, StartFallback, PoolFails, Join,
         JoinWhen, Finish, PlanFails, Cancel, Crash, taskVars
<1>4. Listing'
  <2>1. CASE \E s \in Sources : FallBackToCopy(s)
    BY <2>1 DEF FallBackToCopy, diskVars, taskVars, DInv, Listing, Running, Exists
  <2>2. CASE CancelRenaming \/ StartFallback \/ Cancel \/ Crash
    BY <2>2 DEF CancelRenaming, StartFallback, Cancel, Crash, diskVars, taskVars, jobVars,
                DInv, Listing, Running, Exists
  <2>3. CASE Join \/ Finish
    BY <2>3 DEF Join, JoinWhen, Finish, diskVars, taskVars, DInv, Listing, Running, Exists
  <2>4. CASE \E o \in Options : PlanFails(o)
    BY <2>4 DEF PlanFails, diskVars, DInv, Listing, Running
  <2>5. CASE PoolFails
    <3>1. \A f \in Files : pc[f] = "queued" => f \in plan /\ outcome[f] = "none"
      BY <2>5 DEF PoolFails, JInv, Pooling
    <3>2. outcome' = [f \in Files |-> IF pc[f] = "queued" THEN "failed" ELSE outcome[f]]
      BY <2>5 DEF PoolFails
    <3> QED BY <2>5, <3>1, <3>2, DiskTypes
            DEF PoolFails, diskVars, jobVars, DInv, Listing, Running, Exists
  <2> QED BY <2>1, <2>2, <2>3, <2>4, <2>5
<1> QED BY <1>1, <1>2, <1>3, <1>4, QuietStep, StillSurvives, StillComplete DEF DInv

-----------------------------------------------------------------------------
(* Steps of the job thread and of the user that touch the disk.            *)

\* A job that begins drops only contents without a name.
LEMMA BeginDisk ==
  ASSUME TInv, DInv, NEW S \in SUBSET Sources, NEW o \in Options, Begin(S, o)
  PROVE  DInv'
<1>0. PICK missed \in SUBSET (Unread \intersect FilesOf(S)),
           sizeless \in SUBSET (Unread \intersect FilesOf(S)) : Planned(S, o, missed, sizeless)
  BY BeginPlans
<1> DEFINE listed == {f \in FilesOf(S) \ missed : Exists(SrcPath[f])}
<1>1. /\ dir' = dir /\ skipped' = skipped /\ unplanned' = unplanned
      /\ plan' = listed /\ outcome' = [f \in Files |-> "none"]
      /\ size' = [f \in Files |->
           IF f \notin listed THEN size[f]
           ELSE IF f \in sizeless THEN 0 ELSE Len(data[dir[SrcPath[f]]])]
      /\ fallback' = {} /\ todo' \subseteq S
      /\ \A f \in Files : pc'[f] \in {"queued", "idle"}
  BY <1>0 DEF Begin, Planned
<1>2. \A p \in Paths : Exists(p) => data'[dir[p]] = data[dir[p]]
  <2>1. data' = [i \in Inodes |-> IF \E p \in Paths : dir[p] = i THEN data[i] ELSE <<>>]
    BY DEF Begin
  <2> QED BY <2>1, DiskTypes DEF Exists
<1>3. OneName' /\ Writers' /\ Copying'
  BY <1>1 DEF DInv, OneName, Writers, Copying, Exists
<1>4. Originals'
  <2> SUFFICES ASSUME NEW f \in Files, Alone(f)
               PROVE  /\ size'[f] \in {0, Size[f]}
                      /\ Exists(SrcPath[f])' => data'[dir'[SrcPath[f]]] = Full(f)
    BY DEF Originals
  <2>1. Exists(SrcPath[f]) => data[dir[SrcPath[f]]] = Full(f)
    BY DEF DInv, Originals
  <2>2. size'[f] \in {0, Size[f]}
    BY <1>1, <2>1, FullContent DEF DInv, Originals
  <2> QED BY <1>1, <1>2, <2>1, <2>2, DiskTypes DEF Exists
<1>5. Listing'
  BY <1>1 DEF Listing, FilesOf, Exists
<1>6. CopiedIsComplete'
  BY <1>1 DEF CopiedIsComplete
<1>7. UnskippedSurvives'
  BY <1>1, <1>2, DiskTypes DEF DInv, UnskippedSurvives, HasContent, Exists
<1> QED BY <1>3, <1>4, <1>5, <1>6, <1>7 DEF DInv

\* Where the files of a renamed source are afterwards.
LEMMA RenameDir ==
  ASSUME TInv, NEW s \in Sources, RenameSource(s)
  PROVE  LET F == {f \in FilesOf({s}) : Exists(SrcPath[f])} IN
         /\ F \subseteq Files
         /\ \A f \in Files : f \in F <=> SourceOf[f] = s /\ Exists(SrcPath[f])
         /\ \A f \in F : dir'[DstPath[f]] = dir[SrcPath[f]] /\ ~Exists(DstPath[f])
         /\ \A f \in F : dir'[SrcPath[f]] = NoInode
         /\ \A p \in Paths :
              (\A f \in F : p # DstPath[f] /\ p # SrcPath[f]) => dir'[p] = dir[p]
         /\ \A p \in Paths :
              Exists(p)' => \E q \in Paths : dir'[p] = dir[q]
                              /\ \/ q = p /\ \A f \in F : p # SrcPath[f] /\ p # DstPath[f]
                                 \/ \E f \in F : q = SrcPath[f] /\ p = DstPath[f]
<1> DEFINE F == {f \in FilesOf({s}) : Exists(SrcPath[f])}
<1>1. dir' = [p \in Paths |->
        IF \E f \in F : DstPath[f] = p
          THEN dir[SrcPath[CHOOSE f \in F : DstPath[f] = p]]
          ELSE IF \E f \in F : SrcPath[f] = p THEN NoInode ELSE dir[p]]
  BY DEF RenameSource
<1>2. F \subseteq Files /\ \A f \in Files : f \in F <=> SourceOf[f] = s /\ Exists(SrcPath[f])
  BY DEF FilesOf
<1>3. \A p \in DstTree[s] : ~Exists(p)
  BY DEF RenameSource
<1> HIDE DEF F
<1>4. \A f \in F : DstPath[f] \in Paths /\ SrcPath[f] \in Paths /\ ~Exists(DstPath[f])
  BY <1>2, <1>3, CopyConstants
<1>5. \A f, g \in F : DstPath[f] = DstPath[g] => f = g
  BY <1>2, CopyConstants
<1>6. \A f \in F : (CHOOSE g \in F : DstPath[g] = DstPath[f]) = f
  BY <1>5
<1>7. \A f, g \in F : SrcPath[f] # DstPath[g]
  BY <1>2, <1>4
<1>8. \A f \in F : dir'[DstPath[f]] = dir[SrcPath[f]]
  BY <1>1, <1>4, <1>6
<1>9. \A f \in F : dir'[SrcPath[f]] = NoInode
  BY <1>1, <1>4, <1>7
<1>10. \A p \in Paths : (\A f \in F : p # DstPath[f] /\ p # SrcPath[f]) => dir'[p] = dir[p]
  BY <1>1
<1>11. ASSUME NEW p \in Paths, Exists(p)'
       PROVE  \E q \in Paths : dir'[p] = dir[q]
                              /\ \/ q = p /\ \A f \in F : p # SrcPath[f] /\ p # DstPath[f]
                                 \/ \E f \in F : q = SrcPath[f] /\ p = DstPath[f]
  <2>1. CASE \E f \in F : p = DstPath[f]
    BY <1>4, <1>8, <2>1
  <2>2. CASE \E f \in F : p = SrcPath[f]
    BY <1>9, <1>11, <2>2 DEF Exists
  <2>3. CASE \A f \in F : p # DstPath[f] /\ p # SrcPath[f]
    BY <1>10, <2>3
  <2> QED BY <2>1, <2>2, <2>3
<1> QED BY <1>2, <1>4, <1>8, <1>9, <1>10, <1>11 DEF F

\* A renamed source takes its contents along, and was in nobody's way.
LEMMA RenameDisk ==
  ASSUME TInv, JInv, DInv, NEW s \in Sources, RenameSource(s)
  PROVE  DInv'
<1> DEFINE F == {f \in FilesOf({s}) : Exists(SrcPath[f])}
<1>1. /\ phase = "renaming" /\ phase' = phase /\ s \in todo
      /\ todo' = todo \ {s} /\ UNCHANGED <<data, plan, size, fallback, pc, wr, skipped, unplanned>>
      /\ outcome' = [f \in Files |->
           IF f \in plan /\ SourceOf[f] = s THEN "moved" ELSE outcome[f]]
  BY DEF RenameSource
<1>2. /\ F \subseteq Files
      /\ \A f \in Files : f \in F <=> SourceOf[f] = s /\ Exists(SrcPath[f])
      /\ \A f \in F : dir'[DstPath[f]] = dir[SrcPath[f]] /\ ~Exists(DstPath[f])
      /\ \A f \in F : dir'[SrcPath[f]] = NoInode
      /\ \A p \in Paths : (\A f \in F : p # DstPath[f] /\ p # SrcPath[f]) => dir'[p] = dir[p]
      /\ \A p \in Paths :
           Exists(p)' => \E q \in Paths : dir'[p] = dir[q]
                           /\ \/ q = p /\ \A f \in F : p # SrcPath[f] /\ p # DstPath[f]
                              \/ \E f \in F : q = SrcPath[f] /\ p = DstPath[f]
  BY RenameDir
<1>3. \A p \in DstTree[s] : ~Exists(p)
  BY DEF RenameSource
<1>4. s \notin fallback
  BY <1>1 DEF JInv, Renaming
<1>5. \A f \in Files : pc[f] # "copy"
  BY <1>1 DEF TInv, PoolIdle
<1> HIDE DEF F
<1>6. OneName'
  <2> SUFFICES ASSUME NEW p1 \in Paths, NEW p2 \in Paths, Exists(p1)', dir'[p1] = dir'[p2]
               PROVE  p1 = p2
    BY DEF OneName
  <2>1. Exists(p2)'
    BY DEF Exists
  <2>2. PICK q1 \in Paths : dir'[p1] = dir[q1]
           /\ \/ q1 = p1 /\ \A f \in F : p1 # SrcPath[f] /\ p1 # DstPath[f]
              \/ \E f \in F : q1 = SrcPath[f] /\ p1 = DstPath[f]
    BY <1>2
  <2>3. PICK q2 \in Paths : dir'[p2] = dir[q2]
           /\ \/ q2 = p2 /\ \A f \in F : p2 # SrcPath[f] /\ p2 # DstPath[f]
              \/ \E f \in F : q2 = SrcPath[f] /\ p2 = DstPath[f]
    BY <1>2, <2>1
  <2>4. q1 = q2
    BY <2>2, <2>3 DEF DInv, OneName, Exists
  <2>5. \A f, g \in Files : SrcPath[f] = SrcPath[g] => f = g
    BY CopyConstants
  <2> QED BY <1>2, <2>2, <2>3, <2>4, <2>5
<1>7. Writers' /\ Copying'
  BY <1>1, <1>5 DEF Writers, Copying
<1>8. \A f \in Files : Alone(f) =>
        dir'[SrcPath[f]] = IF f \in F THEN NoInode ELSE dir[SrcPath[f]]
  <2> SUFFICES ASSUME NEW f \in Files, Alone(f), f \notin F
               PROVE  dir'[SrcPath[f]] = dir[SrcPath[f]]
    BY <1>2
  <2>1. \A g \in F : SrcPath[f] # DstPath[g] /\ SrcPath[f] # SrcPath[g]
    BY <1>2, CopyConstants DEF Alone
  <2> QED BY <1>2, <2>1, DiskTypes
<1>9. Originals'
  BY <1>1, <1>8 DEF DInv, Originals, Exists
<1>10. Listing'
  <2>1. \A f \in Files \ plan' : outcome'[f] = "none"
    BY <1>1 DEF DInv, Listing
  <2>3. ASSUME NEW f \in plan, Alone(f), outcome'[f] # "moved" PROVE Exists(SrcPath[f])'
    <3>1. f \in Files /\ SourceOf[f] # s /\ outcome'[f] = outcome[f]
      BY <1>1, <2>3, DiskTypes
    <3>2. Exists(SrcPath[f])
      BY <1>1, <2>3, <3>1 DEF DInv, Listing
    <3> QED BY <1>2, <1>8, <2>3, <3>1, <3>2 DEF Exists
  <2>4. ASSUME NEW f \in plan, outcome'[f] = "moved"
        PROVE  SourceOf[f] \notin todo' \union fallback'
    BY <1>1, <1>4, <2>4, DiskTypes DEF DInv, Listing, Running
  <2>5. \A f \in Files : outcome'[f] = "skipped" => f \in skipped'
    BY <1>1 DEF DInv, Listing
  <2> QED BY <1>1, <2>1, <2>3, <2>4, <2>5 DEF Listing
<1>11. CopiedIsComplete'
  BY <1>1, DiskTypes DEF CopiedIsComplete, JInv, Renaming, DInv, Listing
<1>12. UnskippedSurvives'
  <2> SUFFICES ASSUME NEW f \in Files \ (skipped \union unplanned), Alone(f)
               PROVE  HasContent(SrcPath[f], f)' \/ HasContent(DstPath[f], f)'
    BY <1>1 DEF UnskippedSurvives
  <2>1. CASE f \in F
    <3>1. HasContent(SrcPath[f], f)
      BY <1>2, <2>1 DEF DInv, Originals, HasContent
    <3> QED BY <1>1, <1>2, <2>1, <3>1, DiskTypes DEF HasContent, Exists
  <2>2. CASE f \notin F /\ Exists(SrcPath[f])
    <3>1. HasContent(SrcPath[f], f)
      BY <2>2 DEF DInv, Originals, HasContent
    <3> QED BY <1>1, <1>8, <2>2, <3>1 DEF HasContent, Exists
  <2>3. CASE ~Exists(SrcPath[f])
    <3>1. HasContent(DstPath[f], f)
      BY <2>3 DEF DInv, UnskippedSurvives, HasContent
    <3>2. \A g \in F : DstPath[f] # DstPath[g] /\ DstPath[f] # SrcPath[g]
      BY <1>2, <2>3 DEF Alone
    <3> QED BY <1>1, <1>2, <3>1, <3>2, DiskTypes DEF HasContent, Exists
  <2> QED BY <2>1, <2>2, <2>3
<1> QED BY <1>6, <1>7, <1>9, <1>10, <1>11, <1>12 DEF DInv

\* The originals that go were copied, or were reported as skipped.
LEMMA RemoveDisk ==
  ASSUME TInv, JInv, DInv, NEW s \in Sources, RemoveOriginal(s)
  PROVE  DInv'
<1>1. PICK gone \in SUBSET {f \in FilesOf({s}) : Exists(SrcPath[f])} :
        /\ dir' = [p \in Paths |-> IF \E f \in gone : SrcPath[f] = p THEN NoInode ELSE dir[p]]
        /\ unplanned' = unplanned \union (gone \ plan)
  BY DEF RemoveOriginal
<1>2. /\ phase = "removing" /\ phase' = phase /\ s \in fallback
      /\ fallback' = fallback \ {s}
      /\ UNCHANGED <<data, plan, size, todo, pc, outcome, rd, wr, pos, skipped>>
  BY DEF RemoveOriginal, taskVars
<1>3. \A p \in Paths : dir'[p] \in {dir[p], NoInode}
  BY <1>1
<1>4. \A f \in Files : pc[f] # "copy"
  BY <1>2 DEF TInv, PoolIdle
<1>5. OneName' /\ Writers' /\ Copying'
  BY <1>2, <1>3, <1>4 DEF DInv, OneName, Writers, Copying, Exists
<1>6. Originals'
  BY <1>2, <1>3, DiskTypes DEF DInv, Originals, Exists
<1>7. Listing'
  BY <1>2, <1>3, DiskTypes DEF DInv, Listing, Running, Exists
<1>8. gone \subseteq Files /\ \A f \in gone : SourceOf[f] = s
  BY DEF FilesOf
<1>9. \A f \in Files : Alone(f) => dir'[DstPath[f]] = dir[DstPath[f]]
  BY <1>1, <1>8, DiskTypes DEF Alone
<1>10. CopiedIsComplete'
  BY <1>2, <1>9 DEF DInv, CopiedIsComplete, HasContent, Exists
<1>11. UnskippedSurvives'
  <2> SUFFICES ASSUME NEW f \in Files \ (skipped \union unplanned'), Alone(f)
               PROVE  HasContent(SrcPath[f], f)' \/ HasContent(DstPath[f], f)'
    BY <1>2 DEF UnskippedSurvives
  <2>0. f \notin unplanned /\ (f \in gone => f \in plan)
    BY <1>1
  <2>1. CASE HasContent(DstPath[f], f)
    BY <1>2, <1>9, <2>1 DEF HasContent, Exists
  <2>2. CASE ~HasContent(DstPath[f], f) /\ f \notin gone
    <3>1. HasContent(SrcPath[f], f)
      BY <2>0, <2>2 DEF DInv, UnskippedSurvives
    <3>2. \A g \in gone : SrcPath[g] # SrcPath[f]
      BY <1>8, <2>2, CopyConstants
    <3>3. dir'[SrcPath[f]] = dir[SrcPath[f]]
      BY <1>1, <3>2, DiskTypes
    <3> QED BY <1>2, <3>1, <3>3 DEF HasContent, Exists
  <2>3. CASE ~HasContent(DstPath[f], f) /\ f \in gone
    <3>1. SourceOf[f] \in fallback
      BY <1>2, <1>8, <2>3
    <3>3. f \in plan
      BY <2>0, <2>3
    <3>4. outcome[f] \in {"copied", "skipped", "moved"}
      BY <1>2, <3>3 DEF JInv, Removing
    <3>5. outcome[f] # "moved" /\ outcome[f] # "skipped"
      BY <1>2, <3>1, <3>3 DEF DInv, Listing, Running
    <3> QED BY <2>3, <3>4, <3>5 DEF DInv, CopiedIsComplete
  <2> QED BY <2>1, <2>2, <2>3
<1> QED BY <1>5, <1>6, <1>7, <1>10, <1>11 DEF DInv

-----------------------------------------------------------------------------
(* Steps of a task of the pool.                                            *)

\* A task leaves every path but its destination as it is, the content included: an
\* inode it creates or writes has no other name.
LEMMA TaskKeeps ==
  ASSUME TInv, DInv, NEW f \in Files, Task(f),
         NEW p \in Paths, p # DstPath[f]
  PROVE  dir'[p] = dir[p] /\ (Exists(p) => data'[dir[p]] = data[dir[p]])
<1>1. dir'[p] = dir[p]
  BY TaskDir
<1>2. CASE UNCHANGED data
  BY <1>1, <1>2
<1>3. CASE OpenFiles(f)
  <2> DEFINE i == IF Exists(DstPath[f]) THEN dir[DstPath[f]] ELSE Fresh
  <2>1. \E content : data' = [data EXCEPT ![i] = content]
    BY <1>3 DEF OpenFiles
  <2>2. Exists(p) => dir[p] # i
    <3>1. CASE Exists(DstPath[f])
      BY <3>1, DiskTypes DEF DInv, OneName, Exists
    <3>2. CASE ~Exists(DstPath[f])
      BY <1>3, <3>2, FreshInode DEF OpenFiles, InUse
    <3> QED BY <3>1, <3>2
  <2> HIDE DEF i
  <2> QED BY <1>1, <2>1, <2>2, DiskTypes DEF Exists
<1>4. CASE CloneFile(f)
  <2>1. dir[p] # Fresh
    BY <1>4, FreshInode DEF CloneFile, InUse
  <2> QED BY <1>1, <1>4, <2>1, DiskTypes DEF CloneFile, Exists
<1>5. CASE CopyChunk(f)
  <2>1. dir[p] # wr[f]
    BY <1>5 DEF CopyChunk, DInv, Writers
  <2> QED BY <1>1, <1>5, <2>1, DiskTypes DEF CopyChunk, Exists
<1>6. CASE TakeTask(f) \/ CheckDst(f) \/ RemoveDst(f) \/ EndOfFile(f) \/ CancelCopy(f)
           \/ Verify(f) \/ TaskFails(f)
  BY <1>2, <1>6 DEF TakeTask, CheckDst, RemoveDst, EndOfFile, CancelCopy, Verify, TaskFails,
                diskVars
<1> QED BY <1>3, <1>4, <1>5, <1>6 DEF Task, Progress

\* A task that has not ended has its original.
LEMMA TaskHasOriginal ==
  ASSUME TInv, JInv, DInv, NEW f \in Files, Task(f)
  PROVE  /\ f \in plan /\ outcome[f] = "none"
         /\ Alone(f) => HasContent(SrcPath[f], f)
<1>1. phase = "copying" /\ pc[f] \notin {"idle", "done"}
  BY TaskOutcome
<1>2. f \in plan /\ outcome[f] = "none"
  BY <1>1 DEF JInv, Pooling
<1> QED BY <1>1, <1>2 DEF DInv, Listing, Originals, HasContent

\* Only f's own verdict changes, and a file reported as skipped is recorded.
LEMMA TaskVerdict ==
  ASSUME TInv, NEW f \in Files, Task(f)
  PROVE  /\ \A g \in Files \ {f} : outcome'[g] = outcome[g]
         /\ outcome'[f] # outcome[f] => outcome'[f] \in Verdicts
         /\ outcome'[f] = "skipped" => outcome[f] = "skipped" \/ f \in skipped'
         /\ skipped \subseteq skipped' /\ unplanned' = unplanned
<1>1. OutcomeStep(f)
  BY TaskOutcome
<1>2. /\ \A g \in Files \ {f} : outcome'[g] = outcome[g]
      /\ outcome'[f] # outcome[f] => outcome'[f] \in Verdicts
  BY <1>1, DiskTypes DEF OutcomeStep
<1>3. CheckDst(f) =>
        /\ outcome'[f] = "skipped" => outcome[f] = "skipped" \/ f \in skipped'
        /\ skipped \subseteq skipped' /\ unplanned' = unplanned
  BY DEF CheckDst, EndTask
<1>4. (skipped' = skipped \/ CheckDst(f)) /\ unplanned' = unplanned
  BY DEF Task, Progress, TakeTask, CheckDst, RemoveDst, OpenFiles, CloneFile,
         CopyChunk, EndOfFile, CancelCopy, Verify, TaskFails
<1>5. \A o \in {"copied", "failed", "abandoned"} : EndTask(f, o) => outcome'[f] # "skipped"
  BY DiskTypes DEF EndTask
<1>6. EndCopy(f) => (outcome'[f] = "skipped" => outcome[f] = "skipped")
  BY <1>5 DEF EndCopy
<1>7. CheckDst(f) \/ (outcome'[f] = "skipped" => outcome[f] = "skipped")
  BY <1>5, <1>6 DEF Task, Progress, TakeTask, RemoveDst, OpenFiles, CloneFile,
         CopyChunk, EndOfFile, CancelCopy, Verify, TaskFails
<1>8. CASE CheckDst(f)
  BY <1>2, <1>3, <1>8
<1>9. CASE ~CheckDst(f)
  BY <1>2, <1>4, <1>7, <1>9
<1> QED BY <1>8, <1>9

LEMMA TaskOriginals ==
  ASSUME TInv, DInv, NEW f \in Files, Task(f)
  PROVE  Originals'
<1> SUFFICES ASSUME NEW g \in Files, Alone(g)
             PROVE  /\ size'[g] \in {0, Size[g]}
                    /\ Exists(SrcPath[g])' => data'[dir'[SrcPath[g]]] = Full(g)
  BY DEF Originals
<1>1. SrcPath[g] \in Paths /\ SrcPath[g] # DstPath[f]
  BY DiskTypes DEF Alone
<1>2. size' = size
  BY TaskOutcome DEF jobVars
<1> QED BY <1>1, <1>2, TaskKeeps DEF DInv, Originals, Exists

LEMMA TaskListing ==
  ASSUME TInv, JInv, DInv, NEW f \in Files, Task(f)
  PROVE  Listing'
<1>1. /\ phase = "copying" /\ UNCHANGED <<phase, plan, todo, fallback>>
  BY TaskOutcome DEF jobVars
<1>2. \A g \in Files : Alone(g) => dir'[SrcPath[g]] = dir[SrcPath[g]]
  BY TaskDir, DiskTypes DEF Alone
<1>3. \A g \in Files \ plan' : outcome'[g] = "none"
  BY <1>1, TaskVerdict, TaskHasOriginal DEF DInv, Listing
<1>5. ASSUME NEW g \in plan, Alone(g), outcome'[g] # "moved" PROVE Exists(SrcPath[g])'
  <2>1. outcome[g] # "moved"
    BY <1>5, TaskVerdict, TaskHasOriginal, DiskTypes
  <2> QED BY <1>1, <1>2, <1>5, <2>1, DiskTypes DEF DInv, Listing, Exists
<1>6. ASSUME NEW g \in plan, outcome'[g] = "moved"
      PROVE  SourceOf[g] \notin todo' \union fallback'
  <2>1. outcome[g] = "moved"
    BY <1>6, TaskVerdict, DiskTypes DEF Verdicts
  <2> QED BY <1>1, <2>1 DEF DInv, Listing, Running
<1>7. \A g \in Files : outcome'[g] = "skipped" => g \in skipped'
  BY TaskVerdict DEF DInv, Listing
<1> QED BY <1>1, <1>3, <1>5, <1>6, <1>7 DEF Listing

LEMMA TaskSurvives ==
  ASSUME TInv, JInv, DInv, NEW f \in Files, Task(f)
  PROVE  UnskippedSurvives'
<1> SUFFICES ASSUME NEW g \in Files \ (skipped \union unplanned), Alone(g)
             PROVE  HasContent(SrcPath[g], g)' \/ HasContent(DstPath[g], g)'
  BY TaskVerdict DEF UnskippedSurvives
<1>1. \A p \in Paths : p # DstPath[f] /\ HasContent(p, g) => HasContent(p, g)'
  BY TaskKeeps DEF HasContent, Exists
<1>2. SrcPath[g] # DstPath[f] /\ (g # f => DstPath[g] # DstPath[f])
  BY DEF Alone
<1>3. CASE g = f
  BY <1>1, <1>2, <1>3, TaskHasOriginal, DiskTypes
<1>4. CASE g # f
  BY <1>1, <1>2, <1>4, DiskTypes DEF DInv, UnskippedSurvives
<1> QED BY <1>3, <1>4

LEMMA TaskOneName ==
  ASSUME TInv, DInv, NEW f \in Files, Task(f)
  PROVE  OneName'
<1>1. CASE RemoveDst(f)
  BY <1>1, DiskTypes DEF RemoveDst, DInv, OneName, Exists
<1>2. CASE OpenFiles(f)
  <2>1. CASE Exists(DstPath[f])
    BY <1>2, <2>1, DiskTypes DEF OpenFiles, DInv, OneName, Exists
  <2>2. CASE ~Exists(DstPath[f])
    <3>1. /\ dir' = [dir EXCEPT ![DstPath[f]] = Fresh]
          /\ \A p \in Paths : dir[p] # Fresh
      BY <1>2, <2>2, FreshInode DEF OpenFiles, InUse
    <3> QED BY <3>1, DiskTypes DEF DInv, OneName, Exists
  <2> QED BY <2>1, <2>2
<1>3. CASE CloneFile(f)
  <2>1. /\ dir' = [dir EXCEPT ![DstPath[f]] = Fresh]
        /\ \A p \in Paths : dir[p] # Fresh
    BY <1>3, FreshInode DEF CloneFile, InUse
  <2> QED BY <2>1, DiskTypes DEF DInv, OneName, Exists
<1>4. CASE UNCHANGED dir
  BY <1>4 DEF DInv, OneName, Exists
<1> QED BY <1>1, <1>2, <1>3, <1>4
        DEF Task, Progress, TakeTask, CheckDst, CopyChunk, EndOfFile, CancelCopy, Verify,
            TaskFails, diskVars

\* Apart from OpenFiles and CopyChunk, a task that copies goes on unchanged.
LEMMA TaskOpens ==
  ASSUME TInv, NEW f \in Files, Task(f)
  PROVE  OpenFiles(f) \/ CopyChunk(f) \/ NoneOpened
<1>1. \A o \in Verdicts : EndTask(f, o) => NoneOpened
  BY DiskTypes DEF EndTask, NoneOpened
<1>2. EndCopy(f) => NoneOpened
  BY <1>1, DiskTypes DEF EndCopy, NoneOpened, Verdicts
<1>3. TakeTask(f) \/ CheckDst(f) \/ RemoveDst(f) => NoneOpened
  BY <1>1, DiskTypes DEF TakeTask, CheckDst, RemoveDst, NoneOpened, Verdicts
<1>4. EndOfFile(f) \/ CloneFile(f) => NoneOpened
  BY <1>2 DEF EndOfFile, CloneFile
<1>5. CancelCopy(f) \/ Verify(f) \/ TaskFails(f) => NoneOpened
  BY <1>1 DEF CancelCopy, Verify, TaskFails, Verdicts
<1> QED BY <1>3, <1>4, <1>5 DEF Task, Progress

LEMMA TaskWriters ==
  ASSUME TInv, DInv, NEW f \in Files, Task(f)
  PROVE  Writers'
<1>1. CASE OpenFiles(f)
  <2> DEFINE i == IF Exists(DstPath[f]) THEN dir[DstPath[f]] ELSE Fresh
  <2>1. /\ dir' = [dir EXCEPT ![DstPath[f]] = i]
        /\ wr' = [wr EXCEPT ![f] = i]
        /\ pc' = [pc EXCEPT ![f] = "copy"]
    BY <1>1 DEF OpenFiles
  <2>2. /\ \A p \in Paths : p # DstPath[f] => dir[p] # i
        /\ \A g \in Files : pc[g] = "copy" /\ wr[g] = i => DstPath[g] = DstPath[f]
    <3>1. CASE Exists(DstPath[f])
      BY <3>1, DiskTypes DEF DInv, OneName, Writers, Exists
    <3>2. CASE ~Exists(DstPath[f])
      BY <1>1, <3>2, FreshInode DEF OpenFiles, InUse
    <3> QED BY <3>1, <3>2
  <2> HIDE DEF i
  <2> QED BY <2>1, <2>2, DiskTypes DEF DInv, Writers
<1>2. CASE CopyChunk(f)
  BY <1>2 DEF CopyChunk, DInv, Writers
<1>3. CASE NoneOpened /\ UNCHANGED dir
  BY <1>3 DEF DInv, Writers, NoneOpened
<1>4. CASE RemoveDst(f) /\ NoneOpened
  BY <1>4, DiskTypes DEF RemoveDst, DInv, Writers, NoneOpened
<1>5. CASE CloneFile(f) /\ NoneOpened
  <2>1. /\ dir' = [dir EXCEPT ![DstPath[f]] = Fresh]
        /\ \A g \in Files : wr[g] # Fresh
    BY <1>5, FreshInode DEF CloneFile, InUse
  <2> QED BY <1>5, <2>1, DiskTypes DEF DInv, Writers, NoneOpened
<1> QED BY <1>1, <1>2, <1>3, <1>4, <1>5, TaskOpens
        DEF Task, Progress, TakeTask, CheckDst, EndOfFile, CancelCopy, Verify, TaskFails,
            diskVars

\* The chunk loop of f itself: the chunk it writes is the one that follows.
LEMMA ChunkCopied ==
  ASSUME TInv, JInv, DInv, NEW f \in Files, CopyChunk(f), Alone(f)
  PROVE  /\ rd'[f] = dir'[SrcPath[f]] /\ wr'[f] = dir'[DstPath[f]]
         /\ pos'[f] <= Size[f]
         /\ Len(data'[wr'[f]]) \in {pos'[f], Size[f]}
         /\ \A k \in 1..pos'[f] : data'[wr'[f]][k] = f
<1> DEFINE w == wr[f]
           k == pos[f] + 1
           c == data[w]
<1>1. /\ pc[f] = "copy" /\ pos[f] < Len(data[rd[f]])
      /\ data' = [data EXCEPT ![w] = WriteAt(@, k, data[rd[f]][k])]
      /\ pos' = [pos EXCEPT ![f] = @ + 1]
      /\ UNCHANGED <<dir, rd, wr>>
  BY DEF CopyChunk
<1>2. HasContent(SrcPath[f], f)
  BY TaskHasOriginal DEF Task, Progress
<1>3. /\ rd[f] = dir[SrcPath[f]] /\ wr[f] = dir[DstPath[f]]
      /\ pos[f] <= Size[f]
      /\ Len(c) \in {pos[f], Size[f]}
      /\ \A j \in 1..pos[f] : c[j] = f
  BY <1>1 DEF DInv, Copying
<1>4. /\ pos[f] \in Nat /\ Size[f] \in Nat /\ k \in Nat \ {0}
      /\ w \in Inodes /\ c \in Content /\ Len(c) \in Nat
  BY <1>1, <1>3, DiskTypes
<1>5. k <= Size[f] /\ data[rd[f]][k] = f
  <2>1. data[rd[f]] = Full(f)
    BY <1>2, <1>3 DEF HasContent
  <2> QED BY <1>1, <1>4, <2>1, FullContent
<1>6. data'[w] = WriteAt(c, k, f)
  BY <1>1, <1>4, <1>5, DiskTypes
<1>7. pos'[f] = k /\ wr'[f] = w
  BY <1>1, DiskTypes
<1> HIDE DEF w, k, c
<1>8. f \in Chunks
  BY DEF Chunks
<1>9. /\ Len(WriteAt(c, k, f)) = IF Len(c) < k THEN k ELSE Len(c)
      /\ \A j \in 1..Len(WriteAt(c, k, f)) :
           WriteAt(c, k, f)[j] = IF j = k THEN f ELSE IF j <= Len(c) THEN c[j] ELSE Hole
  BY <1>4, <1>8, WriteAtContent
<1>10. k = pos[f] + 1
  BY DEF k
<1>11. Len(WriteAt(c, k, f)) \in {k, Size[f]}
  BY <1>3, <1>4, <1>5, <1>9, <1>10
<1>12. \A j \in 1..k : WriteAt(c, k, f)[j] = f
  <2> SUFFICES ASSUME NEW j \in 1..k PROVE WriteAt(c, k, f)[j] = f
    OBVIOUS
  <2>1. j \in 1..Len(WriteAt(c, k, f))
    BY <1>4, <1>5, <1>11
  <2>2. j # k => j \in 1..pos[f] /\ j <= Len(c)
    BY <1>3, <1>4, <1>5, <1>10
  <2> QED BY <1>3, <1>9, <2>1, <2>2
<1> QED BY <1>1, <1>3, <1>5, <1>6, <1>7, <1>11, <1>12

\* f opens its files: nothing is copied yet.
LEMMA FileOpened ==
  ASSUME TInv, JInv, DInv, NEW f \in Files, OpenFiles(f), Alone(f)
  PROVE  /\ rd'[f] = dir'[SrcPath[f]] /\ wr'[f] = dir'[DstPath[f]]
         /\ pos'[f] <= Size[f]
         /\ Len(data'[wr'[f]]) \in {pos'[f], Size[f]}
         /\ \A k \in 1..pos'[f] : data'[wr'[f]][k] = f
<1> DEFINE i == IF Exists(DstPath[f]) THEN dir[DstPath[f]] ELSE Fresh
<1>1. /\ dir' = [dir EXCEPT ![DstPath[f]] = i] /\ wr' = [wr EXCEPT ![f] = i]
      /\ rd' = [rd EXCEPT ![f] = dir[SrcPath[f]]] /\ pos' = [pos EXCEPT ![f] = 0]
  BY DEF OpenFiles
<1>2. PICK content \in {[k \in 1..size[f] |-> Hole], <<>>} :
        data' = [data EXCEPT ![i] = content]
  BY DEF OpenFiles
<1>3. i \in Inodes
  BY FreshInode, DiskTypes DEF OpenFiles, Exists
<1>4. size[f] \in {0, Size[f]} /\ Size[f] \in Nat
  BY DiskTypes DEF DInv, Originals
<1>5. Len(content) \in {0, Size[f]}
  BY <1>2, <1>4, NewFileContent
<1>6. SrcPath[f] # DstPath[f]
  BY DEF Alone
<1> HIDE DEF i
<1>7. pos'[f] = 0 /\ wr'[f] = i /\ data'[i] = content
  BY <1>1, <1>2, <1>3, DiskTypes
<1> QED BY <1>1, <1>4, <1>5, <1>6, <1>7, DiskTypes

LEMMA TaskCopying ==
  ASSUME TInv, JInv, DInv, NEW f \in Files, Task(f)
  PROVE  Copying'
<1> SUFFICES ASSUME NEW g \in Files, Alone(g), pc'[g] = "copy"
             PROVE  /\ rd'[g] = dir'[SrcPath[g]] /\ wr'[g] = dir'[DstPath[g]]
                    /\ pos'[g] <= Size[g]
                    /\ Len(data'[wr'[g]]) \in {pos'[g], Size[g]}
                    /\ \A k \in 1..pos'[g] : data'[wr'[g]][k] = g
  BY DEF Copying
<1>1. CASE g = f /\ (OpenFiles(f) \/ CopyChunk(f))
  BY <1>1, FileOpened, ChunkCopied
<1>2. CASE g # f
  <2>1. pc[g] = "copy" /\ rd'[g] = rd[g] /\ wr'[g] = wr[g] /\ pos'[g] = pos[g]
    <3>1. CASE NoneOpened
      BY <3>1 DEF NoneOpened
    <3>2. CASE OpenFiles(f) \/ CopyChunk(f)
      BY <1>2, <3>2, DiskTypes DEF OpenFiles, CopyChunk
    <3> QED BY <3>1, <3>2, TaskOpens
  <2>2. DstPath[g] # DstPath[f] /\ SrcPath[g] # DstPath[f]
    BY <1>2 DEF Alone
  <2>3. wr[g] = dir[DstPath[g]] /\ wr[g] \in Inodes
    BY <2>1, DiskTypes DEF DInv, Copying
  <2>4. Exists(DstPath[g])
    BY <2>3, DiskTypes DEF Exists
  <2>5. /\ dir'[DstPath[g]] = dir[DstPath[g]] /\ dir'[SrcPath[g]] = dir[SrcPath[g]]
        /\ data'[wr[g]] = data[wr[g]]
    BY <2>2, <2>3, <2>4, TaskKeeps, DiskTypes
  <2> QED BY <2>1, <2>5 DEF DInv, Copying
<1>3. CASE g = f /\ NoneOpened
  <2>1. /\ pc[f] = "copy" /\ rd'[f] = rd[f] /\ wr'[f] = wr[f] /\ pos'[f] = pos[f]
        /\ pc'[f] = "copy"
    BY <1>3 DEF NoneOpened
  <2>2. CopyChunk(f)
    BY <2>1, DiskTypes DEF Task, Progress, TakeTask, CheckDst, RemoveDst, OpenFiles,
         CloneFile, EndOfFile, CancelCopy, Verify, TaskFails, EndCopy, EndTask
  <2> QED BY <1>1, <1>3, <2>2
<1> QED BY <1>1, <1>2, <1>3, TaskOpens

\* At the end of the file the destination is the original, chunk for chunk.
LEMMA FileCopied ==
  ASSUME TInv, JInv, DInv, NEW f \in Files, EndOfFile(f), Alone(f)
  PROVE  HasContent(DstPath[f], f)
<1>1. pc[f] = "copy" /\ pos[f] >= Len(data[rd[f]])
  BY DEF EndOfFile
<1>2. HasContent(SrcPath[f], f)
  BY TaskHasOriginal DEF Task, Progress
<1>3. /\ rd[f] = dir[SrcPath[f]] /\ wr[f] = dir[DstPath[f]]
      /\ pos[f] <= Size[f]
      /\ Len(data[wr[f]]) \in {pos[f], Size[f]}
      /\ \A k \in 1..pos[f] : data[wr[f]][k] = f
  BY <1>1 DEF DInv, Copying
<1>4. wr[f] \in Inodes /\ data[wr[f]] \in Content /\ pos[f] \in Nat /\ Size[f] \in Nat
  BY <1>1, DiskTypes
<1>5. pos[f] = Size[f]
  BY <1>1, <1>2, <1>3, <1>4, FullContent DEF HasContent
<1>6. data[wr[f]] \in [1..Size[f] -> Chunks]
  BY <1>3, <1>4, <1>5, ContentIsFunction
<1>7. data[wr[f]] = Full(f)
  BY <1>3, <1>5, <1>6 DEF Full
<1> QED BY <1>3, <1>4, <1>7, DiskTypes DEF HasContent, Exists

LEMMA TaskComplete ==
  ASSUME TInv, JInv, DInv, NEW f \in Files, Task(f)
  PROVE  CopiedIsComplete'
<1> SUFFICES ASSUME NEW g \in Files, outcome'[g] = "copied", Alone(g)
             PROVE  HasContent(DstPath[g], g)'
  BY DEF CopiedIsComplete
<1>1. CASE g # f
  <2>1. HasContent(DstPath[g], g)
    BY <1>1, TaskVerdict DEF DInv, CopiedIsComplete
  <2>2. DstPath[g] # DstPath[f]
    BY <1>1 DEF Alone
  <2> QED BY <2>1, <2>2, TaskKeeps, DiskTypes DEF HasContent, Exists
<1>2. CASE g = f
  <2>1. outcome[f] = "none" /\ HasContent(SrcPath[f], f)
    BY <1>2, TaskHasOriginal
  <2>2. CASE EndOfFile(f)
    BY <1>2, <2>2, FileCopied DEF EndOfFile, diskVars, HasContent, Exists
  <2>3. CASE CloneFile(f)
    <3>1. Fresh \in Inodes
      BY <2>3, FreshInode DEF CloneFile
    <3> QED BY <1>2, <2>1, <2>3, <3>1, DiskTypes DEF CloneFile, HasContent, Exists
  <2>4. CASE Verify(f)
    <3>1. outcome'[f] # "copied"
            \/ (Exists(DstPath[f]) /\ data[dir[SrcPath[f]]] = data[dir[DstPath[f]]])
      BY <2>4, DiskTypes DEF Verify, EndTask
    <3> QED BY <1>2, <2>1, <2>4, <3>1 DEF Verify, diskVars, HasContent, Exists
  <2>5. CASE TakeTask(f) \/ CheckDst(f) \/ RemoveDst(f) \/ OpenFiles(f) \/ CopyChunk(f)
             \/ CancelCopy(f) \/ TaskFails(f)
    <3>1. outcome'[f] # "copied"
      BY <2>1, <2>5, DiskTypes DEF TakeTask, CheckDst, RemoveDst, OpenFiles, CopyChunk,
            CancelCopy, TaskFails, EndTask
    <3> QED BY <1>2, <3>1
  <2> QED BY <2>2, <2>3, <2>4, <2>5 DEF Task, Progress
<1> QED BY <1>1, <1>2

-----------------------------------------------------------------------------

LEMMA NextDInv ==
  ASSUME TInv, JInv, DInv, Next
  PROVE  DInv'
<1>1. ASSUME NEW f \in Files, Task(f) PROVE DInv'
  BY <1>1, TaskOneName, TaskWriters, TaskOriginals, TaskCopying, TaskListing, TaskComplete,
     TaskSurvives DEF DInv
<1>2. CASE JobThread
  BY <1>2, RenameDisk, RemoveDisk, JobQuiet DEF JobThread
<1>3. CASE User \/ Crash
  BY <1>3, BeginDisk, JobQuiet DEF User
<1> QED BY <1>1, <1>2, <1>3 DEF Next

LEMMA DiskInvariant == Spec => []DInv
<1>1. TInv /\ JInv /\ DInv /\ [Next]_vars => DInv'
  <2>1. ASSUME DInv, UNCHANGED vars PROVE DInv'
    BY <2>1 DEF DInv, OneName, Writers, Originals, Copying, Listing, CopiedIsComplete,
                UnskippedSurvives, HasContent, Exists, Running, vars, diskVars, jobVars,
                taskVars
  <2> QED BY <2>1, NextDInv
<1> QED BY InitDInv, TypeInvariant, VerdictInvariant, <1>1, PTL DEF Spec

\* A file counted as copied has at its destination the chunks of its original, one for
\* one, if nothing else is copied there or onto it: whatever the other threads do,
\* whatever a killed job left at the destination.
THEOREM CopiedFilesAreComplete == Spec => []CopiedIsComplete
<1>1. DInv => CopiedIsComplete
  BY DEF DInv
<1> QED BY DiskInvariant, <1>1, PTL

\* Through cancellations, failures, crashes and new jobs, the content of a file is whole
\* at its source or at its destination, unless some job skipped the file or some move
\* removed it with its folder without having planned it.
THEOREM UnskippedFilesSurvive == Spec => []UnskippedSurvives
<1>1. DInv => UnskippedSurvives
  BY DEF DInv
<1> QED BY DiskInvariant, <1>1, PTL
=============================================================================
