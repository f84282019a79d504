------------------------------- MODULE CopyJob -------------------------------
(***************************************************************************)
(* The copy engine: copy_tree and move_tree of engine/src/copy.rs, with    *)
(* the thread pool of execute_plan, the per-file steps of copy_one_file    *)
(* and the chunk loop of platform/generic.rs.                              *)
(*                                                                         *)
(* A run of the engine is one job: it plans the regular files below the    *)
(* chosen sources, in move mode first renames what it can, hands the rest  *)
(* to a pool of threads and, in move mode again, removes the originals.    *)
(* The program may be killed at any point and started again on the disk it *)
(* left, which is how an interrupted copy is resumed.                      *)
(*                                                                         *)
(* The disk is a directory (path -> inode) and the inodes' contents. A     *)
(* content is a sequence of chunks and a chunk is known by where it came   *)
(* from: the planned file it was read from, a hole that preallocation left *)
(* behind, or a file that was there before. Inodes are needed because      *)
(* remove_file unlinks a path that another thread may still be writing.    *)
(***************************************************************************)
EXTENDS Naturals, Sequences, FiniteSets

CONSTANTS
  Sources,    \* the files and folders chosen on the Copy tab
  Files,      \* the files below them; a source that is a file has one
  Unread,     \* those below a folder whose entry plan_copy may fail to read
  Paths,      \* the paths of the originals and of their destinations
  Inodes,     \* Paths and some more: the file first found at p is inode p
  NoInode,    \* "no such file", a closed handle
  Hole, Old,  \* chunks of a preallocated file; of a file that was there before
  SourceOf,   \* [Files -> Sources]
  SrcPath,    \* [Files -> Paths]
  DstPath,    \* [Files -> Paths]: dest_dir/<name of the source>/<relative path>
  DstTree,    \* [Sources -> SUBSET Paths]: what lies at or below dest_dir/<name>
  Size,       \* [Files -> Nat]: length of the original, in chunks
  OldLengths, \* lengths of a file found at a destination at the start
  Threads,    \* size of the rayon pool
  Options,    \* the [mode, overwrite, verify, fast] a job may be started with
  MaxRuns     \* bound: how many times a job is started

Policies == {"Always", "Skip", "SkipIfSameSize"}

OptionType == [mode : {"copy", "move"}, overwrite : Policies,
               verify : BOOLEAN, fast : BOOLEAN]

ASSUME CopyConstants ==
  /\ Unread \subseteq Files
  /\ Paths \subseteq Inodes
  /\ NoInode \notin Inodes
  /\ SourceOf \in [Files -> Sources]
  /\ SrcPath \in [Files -> Paths]
  /\ DstPath \in [Files -> Paths]
  /\ DstTree \in [Sources -> SUBSET Paths]
  /\ \A f \in Files : DstPath[f] \in DstTree[SourceOf[f]]
  /\ \A f, g \in Files : SrcPath[f] = SrcPath[g] => f = g
  /\ \A f, g \in Files :
       SourceOf[f] = SourceOf[g] /\ DstPath[f] = DstPath[g] => f = g
  /\ Size \in [Files -> Nat]
  /\ OldLengths \subseteq Nat
  /\ Threads \in Nat \ {0}
  /\ Options \subseteq OptionType /\ Options # {}
  /\ MaxRuns \in Nat
  /\ Hole \notin Files /\ Old \notin Files

VARIABLES
  dir,       \* [Paths -> Inodes or NoInode]
  data,      \* [Inodes -> sequence of chunks]
  runs,      \* how often a job was started
  phase,     \* where the job thread is
  opts,      \* the CopyOptions and the mode of the job
  plan,      \* the files plan_copy listed
  size,      \* [Files -> Nat]: the length plan_copy saw
  todo,      \* move_tree: sources the rename loop has not reached
  fallback,  \* move_tree: sources that are copied, then removed
  pc,        \* [Files -> where the pool's task of this file is]
  outcome,   \* [Files -> what became of the file]; the counters of execute_plan
  rd, wr,    \* [Files -> inode behind the task's open handles]
  pos,       \* [Files -> chunks copied]
  cancel,    \* the job's CancelToken
  terminal,  \* the last event of the job, or "none"
  skipped,   \* files that some job reported as FileSkipped
  unplanned  \* originals that some move removed and had not planned

diskVars == <<dir, data>>
jobVars  == <<runs, phase, opts, plan, size, todo, fallback, terminal>>
taskVars == <<pc, outcome, rd, wr, pos>>
vars     == <<diskVars, jobVars, taskVars, cancel, skipped, unplanned>>

-----------------------------------------------------------------------------

Chunks == Files \union {Hole, Old}

\* The content of the original of f.
Full(f) == [k \in 1..Size[f] |-> f]

FilesOf(S) == {f \in Files : SourceOf[f] \in S}

Exists(p) == dir[p] # NoInode

\* std::fs::metadata(source) succeeds.
Present(s) == \E f \in FilesOf({s}) : Exists(SrcPath[f])

InUse == {dir[p] : p \in Paths} \union {rd[f] : f \in Files} \union {wr[f] : f \in Files}

\* The inode the next file that is created gets.
Fresh == CHOOSE i \in Inodes : i \notin InUse

CanCreate == \E i \in Inodes : i \notin InUse

\* A content after chunk c is written at index k: the gap is a hole.
WriteAt(content, k, c) ==
  [j \in 1..(IF Len(content) < k THEN k ELSE Len(content)) |->
     IF j = k THEN c ELSE IF j <= Len(content) THEN content[j] ELSE Hole]

Active == {f \in Files : pc[f] \notin {"idle", "queued", "done"}}

Failed    == \E f \in plan : outcome[f] = "failed"
Cancelled == \E f \in plan : outcome[f] = "abandoned"

Running == phase \in {"renaming", "copying", "removing"}

-----------------------------------------------------------------------------

Init ==
  /\ \E there \in SUBSET (Paths \ {SrcPath[f] : f \in Files}) :
     \E len \in [there -> OldLengths] :
       /\ dir = [p \in Paths |->
            IF p \in there \union {SrcPath[f] : f \in Files} THEN p ELSE NoInode]
       /\ data = [i \in Inodes |->
            IF \E f \in Files : SrcPath[f] = i
              THEN Full(CHOOSE f \in Files : SrcPath[f] = i)
              ELSE IF i \in there THEN [k \in 1..len[i] |-> Old] ELSE <<>>]
  /\ runs = 0
  /\ phase = "idle"
  /\ opts = CHOOSE o \in Options : TRUE
  /\ plan = {} /\ size = Size /\ todo = {} /\ fallback = {}
  /\ pc = [f \in Files |-> "idle"]
  /\ outcome = [f \in Files |-> "none"]
  /\ rd = [f \in Files |-> NoInode]
  /\ wr = [f \in Files |-> NoInode]
  /\ pos = [f \in Files |-> 0]
  /\ cancel = FALSE
  /\ terminal = "none"
  /\ skipped = {} /\ unplanned = {}

-----------------------------------------------------------------------------
(* The job thread: copy_tree and move_tree.                                *)

\* plan_copy succeeds: the sources all exist, and the regular files below them are
\* listed with their sizes. Below a folder an entry that WalkDir cannot read is left
\* out without a word, and a length that cannot be read counts as 0. Execution starts
\* (or, for a move, renaming).
Begin(S, o) ==
  /\ ~Running
  /\ runs < MaxRuns
  /\ \A s \in S : Present(s)
  /\ \E missed \in SUBSET (Unread \intersect FilesOf(S)),
        sizeless \in SUBSET (Unread \intersect FilesOf(S)) :
     LET listed == {f \in FilesOf(S) \ missed : Exists(SrcPath[f])}
         moving == o.mode = "move"
     IN /\ plan' = listed
        /\ size' = [f \in Files |->
             IF f \notin listed THEN size[f]
             ELSE IF f \in sizeless THEN 0 ELSE Len(data[dir[SrcPath[f]]])]
        /\ pc' = [f \in Files |->
             IF f \in listed /\ ~moving THEN "queued" ELSE "idle"]
        /\ phase' = IF moving THEN "renaming" ELSE "copying"
        /\ todo' = IF moving THEN S ELSE {}
  /\ runs' = runs + 1
  /\ opts' = o
  /\ fallback' = {}
  /\ outcome' = [f \in Files |-> "none"]
  /\ cancel' = FALSE
  /\ terminal' = "none"
  /\ data' = [i \in Inodes |-> IF \E p \in Paths : dir[p] = i THEN data[i] ELSE <<>>]
  /\ UNCHANGED <<dir, rd, wr, pos, skipped, unplanned>>

\* plan_copy (or create_dir_all on the destination) fails: the engine returns
\* Err before it has sent anything, and the worker thread drops the Err.
PlanFails(o) ==
  /\ ~Running
  /\ runs < MaxRuns
  /\ runs' = runs + 1
  /\ phase' = "ended"
  /\ opts' = o
  /\ plan' = {} /\ todo' = {} /\ fallback' = {}
  /\ pc' = [f \in Files |-> "idle"]
  /\ outcome' = [f \in Files |-> "none"]
  /\ cancel' = FALSE
  /\ terminal' = "none"
  /\ UNCHANGED <<diskVars, size, rd, wr, pos, skipped, unplanned>>

\* Nothing exists at dest_dir/<name> and std::fs::rename succeeds: the whole
\* source changes place, the entries the plan does not list included.
RenameSource(s) ==
  /\ phase = "renaming" /\ s \in todo /\ ~cancel
  /\ Present(s)
  /\ \A p \in DstTree[s] : ~Exists(p)
  /\ LET F == {f \in FilesOf({s}) : Exists(SrcPath[f])}
     IN dir' = [p \in Paths |->
          IF \E f \in F : DstPath[f] = p
            THEN dir[SrcPath[CHOOSE f \in F : DstPath[f] = p]]
            ELSE IF \E f \in F : SrcPath[f] = p THEN NoInode ELSE dir[p]]
  /\ outcome' = [f \in Files |->
       IF f \in plan /\ SourceOf[f] = s THEN "moved" ELSE outcome[f]]
  /\ todo' = todo \ {s}
  /\ UNCHANGED <<data, runs, phase, opts, plan, size, fallback, terminal, pc, rd, wr,
                 pos, cancel, skipped, unplanned>>

\* Something is there already, or the rename fails (another volume).
FallBackToCopy(s) ==
  /\ phase = "renaming" /\ s \in todo /\ ~cancel
  /\ todo' = todo \ {s}
  /\ fallback' = fallback \union {s}
  /\ UNCHANGED <<diskVars, runs, phase, opts, plan, size, terminal, taskVars, cancel,
                 skipped, unplanned>>

\* The rename loop looks at the token before every source.
CancelRenaming ==
  /\ phase = "renaming" /\ todo # {} /\ cancel
  /\ phase' = "ended"
  /\ terminal' = "Cancelled"
  /\ UNCHANGED <<diskVars, runs, opts, plan, size, todo, fallback, taskVars, cancel,
                 skipped, unplanned>>

\* Mutation: the pool is given the whole plan, renamed files included.
StartFallbackWithAll ==
  /\ phase = "renaming" /\ todo = {}
  /\ phase' = "copying"
  /\ pc' = [f \in Files |-> IF f \in plan THEN "queued" ELSE "idle"]
  /\ UNCHANGED <<diskVars, runs, opts, plan, size, todo, fallback, terminal, outcome, rd,
                 wr, pos, cancel, skipped, unplanned>>

\* execute_plan(&fallback_plan).
StartFallback ==
  /\ phase = "renaming" /\ todo = {}
  /\ phase' = "copying"
  /\ pc' = [f \in Files |->
       IF f \in plan /\ SourceOf[f] \in fallback THEN "queued" ELSE "idle"]
  /\ UNCHANGED <<diskVars, runs, opts, plan, size, todo, fallback, terminal, outcome, rd,
                 wr, pos, cancel, skipped, unplanned>>

\* rayon::ThreadPoolBuilder fails: every file of the plan counts as failed.
PoolFails ==
  /\ phase = "copying"
  /\ \A f \in Files : pc[f] \in {"idle", "queued"}
  /\ pc' = [f \in Files |-> IF pc[f] = "queued" THEN "done" ELSE pc[f]]
  /\ outcome' = [f \in Files |-> IF pc[f] = "queued" THEN "failed" ELSE outcome[f]]
  /\ UNCHANGED <<diskVars, jobVars, rd, wr, pos, cancel, skipped, unplanned>>

\* Join with the condition keep on removing the originals.
JoinWhen(keep) ==
  /\ phase = "copying"
  /\ \A f \in Files : pc[f] \in {"idle", "done"}
  /\ IF opts.mode = "move" /\ keep
       THEN phase' = "removing" /\ UNCHANGED terminal
       ELSE /\ phase' = "ended"
            /\ terminal' = IF Cancelled THEN "Cancelled" ELSE "Finished"
  /\ UNCHANGED <<diskVars, runs, opts, plan, size, todo, fallback, taskVars, cancel,
                 skipped, unplanned>>

\* Mutation: the originals go although files failed.
JoinIgnoringFailures == JoinWhen(~Cancelled)

\* pool.install returns once every task has: a move goes on to remove the
\* originals when no file failed and no task saw the cancellation.
Join == JoinWhen(~Failed /\ ~Cancelled)

\* remove_file / remove_dir_all of a source that was copied: all of it goes, what the
\* plan does not list included, or, when the call fails half way, some of it.
RemoveOriginal(s) ==
  /\ phase = "removing" /\ s \in fallback
  /\ \E gone \in SUBSET {f \in FilesOf({s}) : Exists(SrcPath[f])} :
       /\ dir' = [p \in Paths |-> IF \E f \in gone : SrcPath[f] = p THEN NoInode ELSE dir[p]]
       /\ unplanned' = unplanned \union (gone \ plan)
  /\ fallback' = fallback \ {s}
  /\ UNCHANGED <<data, runs, phase, opts, plan, size, todo, terminal, taskVars, cancel,
                 skipped>>

Finish ==
  /\ phase = "removing" /\ fallback = {}
  /\ phase' = "ended"
  /\ terminal' = "Finished"
  /\ UNCHANGED <<diskVars, runs, opts, plan, size, todo, fallback, taskVars, cancel,
                 skipped, unplanned>>

-----------------------------------------------------------------------------
(* A task of the pool: execute_plan's closure and copy_one_file.           *)

\* Mutation: the source stays open.
EndTaskLeaking(f, o) ==
  /\ pc' = [pc EXCEPT ![f] = "done"]
  /\ outcome' = [outcome EXCEPT ![f] = o]
  /\ wr' = [wr EXCEPT ![f] = NoInode]
  /\ pos' = [pos EXCEPT ![f] = 0]
  /\ UNCHANGED rd

\* The task of f ends with outcome o; the handles are closed.
EndTask(f, o) ==
  /\ pc' = [pc EXCEPT ![f] = "done"]
  /\ outcome' = [outcome EXCEPT ![f] = o]
  /\ rd' = [rd EXCEPT ![f] = NoInode]
  /\ wr' = [wr EXCEPT ![f] = NoInode]
  /\ pos' = [pos EXCEPT ![f] = 0]

\* The file is complete: it is hashed when verification is on.
EndCopy(f) ==
  IF opts.verify
    THEN /\ pc' = [pc EXCEPT ![f] = "verify"]
         /\ rd' = [rd EXCEPT ![f] = NoInode]
         /\ wr' = [wr EXCEPT ![f] = NoInode]
         /\ pos' = [pos EXCEPT ![f] = 0]
         /\ UNCHANGED outcome
    ELSE EndTask(f, "copied")

\* Mutation: a task that sees the token returns without recording it.
TakeTaskSilently(f) ==
  /\ pc[f] = "queued"
  /\ Cardinality(Active) < Threads
  /\ pc' = [pc EXCEPT ![f] = IF cancel THEN "done" ELSE "check"]
  /\ UNCHANGED <<diskVars, jobVars, outcome, rd, wr, pos, cancel, skipped, unplanned>>

\* A thread takes f; the token is looked at first.
TakeTask(f) ==
  /\ pc[f] = "queued"
  /\ Cardinality(Active) < Threads
  /\ IF cancel
       THEN EndTask(f, "abandoned")
       ELSE /\ pc' = [pc EXCEPT ![f] = "check"]
            /\ UNCHANGED <<outcome, rd, wr, pos>>
  /\ UNCHANGED <<diskVars, jobVars, cancel, skipped, unplanned>>

\* OverwritePolicy against what is at the destination.
SkipsExisting(f) ==
  \/ opts.overwrite = "Skip"
  \/ opts.overwrite = "SkipIfSameSize" /\ Len(data[dir[DstPath[f]]]) = size[f]

CheckDst(f) ==
  /\ pc[f] = "check"
  /\ IF ~Exists(DstPath[f])
       THEN /\ pc' = [pc EXCEPT ![f] = "create"]
            /\ UNCHANGED <<outcome, rd, wr, pos, skipped>>
       ELSE IF SkipsExisting(f)
       THEN /\ EndTask(f, "skipped")
            /\ skipped' = skipped \union {f}
       ELSE /\ pc' = [pc EXCEPT ![f] = "remove"]
            /\ UNCHANGED <<outcome, rd, wr, pos, skipped>>
  /\ UNCHANGED <<diskVars, jobVars, cancel, unplanned>>

\* let _ = remove_file(dst): an error is ignored.
RemoveDst(f) ==
  /\ pc[f] = "remove"
  /\ \/ dir' = [dir EXCEPT ![DstPath[f]] = NoInode]
     \/ UNCHANGED dir
  /\ pc' = [pc EXCEPT ![f] = "create"]
  /\ UNCHANGED <<data, jobVars, outcome, rd, wr, pos, cancel, skipped, unplanned>>

\* chunked_copy opens the source, creates or truncates the destination and
\* preallocates the planned size, where the file system can.
OpenFiles(f) ==
  /\ pc[f] = "create"
  /\ Exists(SrcPath[f])
  /\ Exists(DstPath[f]) \/ CanCreate
  /\ LET i == IF Exists(DstPath[f]) THEN dir[DstPath[f]] ELSE Fresh
     IN /\ dir' = [dir EXCEPT ![DstPath[f]] = i]
        /\ \E content \in {[k \in 1..size[f] |-> Hole], <<>>} :
             data' = [data EXCEPT ![i] = content]
        /\ wr' = [wr EXCEPT ![f] = i]
  /\ rd' = [rd EXCEPT ![f] = dir[SrcPath[f]]]
  /\ pos' = [pos EXCEPT ![f] = 0]
  /\ pc' = [pc EXCEPT ![f] = "copy"]
  /\ UNCHANGED <<jobVars, outcome, cancel, skipped, unplanned>>

\* clonefile(2): the whole file at once, and only where nothing exists.
CloneFile(f) ==
  /\ pc[f] = "create" /\ opts.fast
  /\ Exists(SrcPath[f]) /\ ~Exists(DstPath[f]) /\ CanCreate
  /\ dir' = [dir EXCEPT ![DstPath[f]] = Fresh]
  /\ data' = [data EXCEPT ![Fresh] = data[dir[SrcPath[f]]]]
  /\ EndCopy(f)
  /\ UNCHANGED <<jobVars, cancel, skipped, unplanned>>

\* One turn of the chunk loop: token, read, write.
CopyChunk(f) ==
  /\ pc[f] = "copy" /\ ~cancel
  /\ pos[f] < Len(data[rd[f]])
  /\ data' = [data EXCEPT ![wr[f]] = WriteAt(@, pos[f] + 1, data[rd[f]][pos[f] + 1])]
  /\ pos' = [pos EXCEPT ![f] = @ + 1]
  /\ UNCHANGED <<dir, jobVars, pc, outcome, rd, wr, cancel, skipped, unplanned>>

\* Mutation: the last chunk is taken for the end of the file.
EndOfFileEarly(f) ==
  /\ pc[f] = "copy" /\ ~cancel
  /\ pos[f] + 1 >= Len(data[rd[f]])
  /\ EndCopy(f)
  /\ UNCHANGED <<diskVars, jobVars, cancel, skipped, unplanned>>

\* read returns 0.
EndOfFile(f) ==
  /\ pc[f] = "copy" /\ ~cancel
  /\ pos[f] >= Len(data[rd[f]])
  /\ EndCopy(f)
  /\ UNCHANGED <<diskVars, jobVars, cancel, skipped, unplanned>>

\* Mutation: the loop waits instead of returning.
CancelCopyWaiting(f) ==
  /\ pc[f] = "copy" /\ cancel
  /\ UNCHANGED vars

\* The loop sees the token: the destination stays as it is.
CancelCopy(f) ==
  /\ pc[f] = "copy" /\ cancel
  /\ EndTask(f, "abandoned")
  /\ UNCHANGED <<diskVars, jobVars, cancel, skipped, unplanned>>

\* The two hashes are compared; hashing a missing file is an error.
Verify(f) ==
  /\ pc[f] = "verify"
  /\ EndTask(f, IF /\ Exists(SrcPath[f]) /\ Exists(DstPath[f])
                   /\ data[dir[SrcPath[f]]] = data[dir[DstPath[f]]]
                  THEN "copied" ELSE "failed")
  /\ UNCHANGED <<diskVars, jobVars, cancel, skipped, unplanned>>

\* An I/O error of any of the calls above, an original that is gone included:
\* FileError is sent, the other files go on, and the destination stays as it is.
TaskFails(f) ==
  /\ pc[f] \in {"check", "create", "copy", "verify"}
  /\ EndTask(f, "failed")
  /\ UNCHANGED <<diskVars, jobVars, cancel, skipped, unplanned>>

-----------------------------------------------------------------------------

\* The Cancel button: CancelToken::cancel.
Cancel ==
  /\ Running /\ ~cancel
  /\ cancel' = TRUE
  /\ UNCHANGED <<diskVars, jobVars, taskVars, skipped, unplanned>>

\* The program is killed: the handles close, the disk keeps what it has.
Crash ==
  /\ Running
  /\ phase' = "crashed"
  /\ pc' = [f \in Files |-> "idle"]
  /\ rd' = [f \in Files |-> NoInode]
  /\ wr' = [f \in Files |-> NoInode]
  /\ pos' = [f \in Files |-> 0]
  /\ UNCHANGED <<diskVars, runs, opts, plan, size, todo, fallback, terminal, outcome,
                 cancel, skipped, unplanned>>

Progress(f) ==
  \/ TakeTask(f)  \/ CheckDst(f)  \/ RemoveDst(f)  \/ OpenFiles(f) \/ CloneFile(f)
  \/ CopyChunk(f) \/ EndOfFile(f) \/ CancelCopy(f) \/ Verify(f)

Task(f) == Progress(f) \/ TaskFails(f)

JobThread ==
  \/ \E s \in Sources : RenameSource(s) \/ FallBackToCopy(s) \/ RemoveOriginal(s)
  \/ CancelRenaming \/ StartFallback \/ PoolFails \/ Join \/ Finish

Engine == JobThread \/ \E f \in Files : Progress(f)

User ==
  \/ \E S \in SUBSET Sources \ {{}}, o \in Options : Begin(S, o)
  \/ \E o \in Options : PlanFails(o)
  \/ Cancel

Next == JobThread \/ (\E f \in Files : Task(f)) \/ User \/ Crash

Spec == Init /\ [][Next]_vars

\* The operating system schedules the job thread and the threads of the pool. No
\* call has to fail: an error is no way out of a step that never comes.
FairSpec == Spec /\ WF_vars(Engine)

-----------------------------------------------------------------------------
(* Properties.                                                             *)

Content == Seq(Chunks)

TaskStates == {"idle", "queued", "check", "remove", "create", "copy", "verify", "done"}
Verdicts   == {"copied", "skipped", "failed", "abandoned"}

DiskType ==
  /\ dir \in [Paths -> Inodes \union {NoInode}]
  /\ data \in [Inodes -> Content]

JobType ==
  /\ runs \in 0..MaxRuns
  /\ phase \in {"idle", "renaming", "copying", "removing", "ended", "crashed"}
  /\ opts \in Options
  /\ plan \in SUBSET Files
  /\ size \in [Files -> Nat]
  /\ todo \in SUBSET Sources
  /\ fallback \in SUBSET Sources
  /\ terminal \in {"none", "Finished", "Cancelled"}

\* A task has its two handles open exactly while it copies.
TaskType ==
  /\ pc \in [Files -> TaskStates]
  /\ outcome \in [Files -> Verdicts \union {"none", "moved"}]
  /\ rd \in [Files -> Inodes \union {NoInode}]
  /\ wr \in [Files -> Inodes \union {NoInode}]
  /\ pos \in [Files -> Nat]
  /\ \A f \in Files : IF pc[f] = "copy" THEN rd[f] # NoInode /\ wr[f] # NoInode
                                        ELSE rd[f] = NoInode /\ wr[f] = NoInode

\* Types; and handles are open exactly while a task copies (the File values of
\* chunked_copy are dropped on every way out of it).
TypeOK == DiskType /\ JobType /\ TaskType /\ cancel \in BOOLEAN
          /\ skipped \in SUBSET Files /\ unplanned \in SUBSET Files

\* Nothing else of the selection is copied to f's destination, and no original is
\* anything's destination as far as f is concerned.
Alone(f) ==
  /\ \A g \in Files \ {f} : DstPath[g] # DstPath[f]
  /\ \A g \in Files : SrcPath[g] # DstPath[f] /\ SrcPath[f] # DstPath[g]

HasContent(p, f) == Exists(p) /\ data[dir[p]] = Full(f)

\* A file the job counts as copied has, at its destination, exactly the chunks of
\* its original, whatever the other threads did, whatever a killed job left there
\* (copy_one_file, chunked_copy).
CopiedIsComplete ==
  \A f \in Files : outcome[f] = "copied" /\ Alone(f) => HasContent(DstPath[f], f)

\* A job that reports Finished accounts for every file it planned: none was
\* abandoned to a cancellation (the cancelled flag and the counters of execute_plan).
FinishedHidesNothing ==
  terminal = "Finished" =>
    \A f \in plan : outcome[f] \in {"copied", "skipped", "failed", "moved"}

\* Through cancellations, failures, crashes and restarts the content of a file is whole
\* somewhere, at its source or at its destination. Two kinds of files are lost by the
\* code and are the exceptions: one that some job skipped, and one that the plan of a move
\* left out because it could not be read, which remove_dir_all removed with its folder.
UnskippedSurvives ==
  \A f \in Files \ (skipped \union unplanned) :
    Alone(f) => HasContent(SrcPath[f], f) \/ HasContent(DstPath[f], f)

\* Every job that was started ends (or dies with the program): the pool never stalls.
JobEnds == Running ~> ~Running

\* The job as Transfer sees it: verdicts, originals, and the last event.
StatusOf(f) ==
  IF f \notin plan THEN "none" ELSE IF outcome[f] = "none" THEN "waiting" ELSE outcome[f]

ResultSeen == IF Running THEN "running"
              ELSE IF phase = "ended" /\ terminal # "none" THEN terminal ELSE "silent"

T == INSTANCE Transfer WITH
       status  <- [f \in Files |-> StatusOf(f)],
       present <- [f \in Files |-> Exists(SrcPath[f])],
       result  <- ResultSeen

\* Every step of the pool, of the rename loop and of the removal loop is a step the
\* abstract job allows, or invisible to it (copy_tree, move_tree, execute_plan).
ImplementsTransfer == T!Spec

-----------------------------------------------------------------------------
(* What the documentation says of resuming and of moving.                  *)

\* "Resume -- re-running a copy skips files already copied (same size)": where the
\* only writer was the program itself, a skipped file is already copied.
SkippedIsAlreadyCopied ==
  \A f \in Files : outcome[f] = "skipped" /\ Alone(f) => HasContent(DstPath[f], f)

\* "deleting the original, but only once every file in that fallback copy has
\* succeeded": no move loses the content of an original.
MoveLosesNothing ==
  \A f \in Files : \E p \in Paths : HasContent(p, f)
=============================================================================
