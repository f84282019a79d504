----------------------------- MODULE SyncMirror -----------------------------
(***************************************************************************)
(* One-way folder sync: sync_dirs and snapshot of engine/src/sync.rs with  *)
(* the chunk loop of platform/generic.rs, and the user who goes on working *)
(* in the source folder while the job runs.                                *)
(*                                                                         *)
(* A source file has a version, known to nobody but its content, and a     *)
(* modification time in whole seconds. The job decides by length and time  *)
(* which files to transfer, so what matters is when a destination file of  *)
(* the right length and a recent enough time has the wrong content.        *)
(***************************************************************************)
EXTENDS Naturals, Sequences

CONSTANTS
  Files,     \* relative paths
  NoFile,    \* no such file, no entry, no file being copied
  Versions,  \* contents the user may give a source file
  First,     \* the one its files have at first
  Length,    \* [Versions -> Nat]: their lengths, in chunks
  OldLengths, \* lengths of the files first found at the destination
  Hole, Old, \* chunks of a preallocated file; of the files first found at the destination
  Options,   \* the SyncOptions a job may have: [mirror, verify]
  MaxTime,   \* bound: seconds that pass
  MaxEdits,  \* bound: changes the user makes in the source
  MaxRuns    \* bound: jobs that are started

Chunks == Versions \union {Hole, Old}

\* A file, and what snapshot keeps of one.
Stored == [data : Seq(Chunks), mtime : 0..MaxTime]
Kept   == [size : Nat, mtime : 0..MaxTime]

ASSUME SyncConstants ==
  /\ NoFile \notin Files /\ NoFile \notin Stored /\ NoFile \notin Kept
  /\ First \in Versions
  /\ Length \in [Versions -> Nat]
  /\ OldLengths \subseteq Nat
  /\ Hole \notin Versions /\ Old \notin Versions
  /\ Options \subseteq [mirror : BOOLEAN, verify : BOOLEAN] /\ Options # {}
  /\ MaxTime \in Nat \ {0} /\ MaxEdits \in Nat /\ MaxRuns \in Nat

VARIABLES
  clock,     \* the time in seconds
  src,       \* [Files -> NoFile or [data, mtime]]
  dst,       \* [Files -> NoFile or [data, mtime]]
  phase,     \* where sync_dirs is
  opts,      \* its SyncOptions
  srcSnap,   \* snapshot(src): [Files -> NoFile or [size, mtime]]
  toCopy, toUpdate, toDelete,  \* the plan, less what is done
  cur,       \* the file being copied
  step,      \* where its copying is
  rd,        \* what the open source handle reads
  pos,       \* chunks copied
  failed,    \* summary.failed is not 0
  cancel,    \* the CancelToken
  terminal,  \* the last event, or "none"
  runs, edits,
  touched,   \* history: files the user changed since the job started
  srcMissed, dstMissed, \* history: files the job's two snapshots overlooked
  mixed,     \* history: cur was changed while it was copied
  doubtful   \* history: files whose destination may look current and is not

userVars == <<clock, src, edits>>
planVars == <<opts, srcSnap, toCopy, toUpdate, toDelete>>
copyVars == <<cur, step, rd, pos, mixed>>
history  == <<touched, srcMissed, dstMissed>>
vars == <<userVars, dst, phase, planVars, copyVars, failed, cancel, terminal, runs, history,
          doubtful>>

Content(v) == [k \in 1..Length[v] |-> v]

Entry(file) == [size |-> Len(file.data), mtime |-> file.mtime]

Holes(n) == [k \in 1..n |-> Hole]

\* A content after chunk c is written at index k.
WriteAt(content, k, c) ==
  [j \in 1..(IF Len(content) < k THEN k ELSE Len(content)) |->
     IF j = k THEN c ELSE IF j <= Len(content) THEN content[j] ELSE Hole]

Working == phase \in {"start", "scanned", "copying"}

\* The tab has a job (job.is_some()): it is given up when the last event is read, and a
\* thread that returned without one ("unreported") leaves it there.
Running == Working \/ phase = "unreported"

\* The source has files of the first second; what the destination has is older.
Init ==
  /\ clock = 1
  /\ src \in [Files -> {NoFile, [data |-> Content(First), mtime |-> 1]}]
  /\ dst \in [Files -> {NoFile} \union {[data |-> [k \in 1..n |-> Old], mtime |-> 0] :
                                         n \in OldLengths}]
  /\ phase = "idle"
  /\ opts = CHOOSE o \in Options : TRUE
  /\ srcSnap = [f \in Files |-> NoFile]
  /\ toCopy = {} /\ toUpdate = {} /\ toDelete = {}
  /\ cur = NoFile /\ step = "none" /\ rd = <<>> /\ pos = 0 /\ mixed = FALSE
  /\ failed = FALSE /\ cancel = FALSE /\ terminal = "none"
  /\ runs = 0 /\ edits = 0 /\ doubtful = {}
  /\ touched = {} /\ srcMissed = {} /\ dstMissed = {}

-----------------------------------------------------------------------------
(* The user and the machine.                                               *)

\* Bound: nothing happens after the last job.
More == Running \/ runs < MaxRuns

Tick ==
  /\ More /\ clock < MaxTime
  /\ clock' = clock + 1
  /\ UNCHANGED <<src, edits, dst, phase, planVars, copyVars, failed, cancel, terminal, runs,
                 history, doubtful>>

\* A change within the second of the destination's time stamp that keeps the length.
Unseen(f, v) ==
  dst[f] # NoFile /\ dst[f].mtime >= clock /\ Len(dst[f].data) = Length[v]

\* The user saves another version: over the file, so that an open handle reads it,
\* or as a new file under its name.
Save(f, v) ==
  /\ More /\ edits < MaxEdits
  /\ src' = [src EXCEPT ![f] = [data |-> Content(v), mtime |-> clock]]
  /\ edits' = edits + 1
  /\ touched' = touched \union {f}
  /\ doubtful' = IF Unseen(f, v) THEN doubtful \union {f} ELSE doubtful
  /\ IF cur = f THEN mixed' = TRUE /\ rd' \in {rd, Content(v)} ELSE UNCHANGED <<mixed, rd>>
  /\ UNCHANGED <<clock, dst, phase, planVars, cur, step, pos, failed, cancel, terminal, runs,
                 srcMissed, dstMissed>>

Remove(f) ==
  /\ More /\ edits < MaxEdits /\ src[f] # NoFile
  /\ src' = [src EXCEPT ![f] = NoFile]
  /\ edits' = edits + 1
  /\ touched' = touched \union {f}
  /\ mixed' = (mixed \/ cur = f)
  /\ UNCHANGED <<clock, dst, phase, planVars, cur, step, rd, pos, failed, cancel, terminal,
                 runs, srcMissed, dstMissed, doubtful>>

\* The Sync button.
Start(o) ==
  /\ ~Running /\ runs < MaxRuns
  /\ runs' = runs + 1
  /\ opts' = o
  /\ phase' = "start"
  /\ failed' = FALSE /\ cancel' = FALSE /\ terminal' = "none"
  /\ touched' = {} /\ srcMissed' = {} /\ dstMissed' = {}
  /\ UNCHANGED <<userVars, dst, srcSnap, toCopy, toUpdate, toDelete, copyVars, doubtful>>

Cancel ==
  /\ Running /\ ~cancel
  /\ cancel' = TRUE
  /\ UNCHANGED <<userVars, dst, phase, planVars, copyVars, failed, terminal, runs,
                 history, doubtful>>

\* The file that was being copied stays as it is.
DropCur ==
  /\ cur' = NoFile /\ step' = "none" /\ rd' = <<>> /\ pos' = 0 /\ mixed' = FALSE
  /\ doubtful' = IF step \in {"copy", "verify", "stamp"} THEN doubtful \union {cur} ELSE doubtful

\* sync_dirs returns.
Forget ==
  /\ toCopy' = {} /\ toUpdate' = {} /\ toDelete' = {}
  /\ srcSnap' = [f \in Files |-> NoFile]
  /\ cancel' = FALSE
  /\ UNCHANGED opts

Crash ==
  /\ Running
  /\ phase' = "crashed"
  /\ DropCur /\ Forget
  /\ UNCHANGED <<userVars, dst, failed, terminal, runs, history>>

-----------------------------------------------------------------------------
(* sync_dirs.                                                              *)

\* create_dir_all(dst) fails: Err, and no event. The worker drops the Err, and the tab
\* waits for an event that never comes, until the program is closed.
NoDestination ==
  /\ phase = "start"
  /\ phase' = "unreported"
  /\ Forget
  /\ UNCHANGED <<userVars, dst, copyVars, failed, terminal, runs, history, doubtful>>

\* What snapshot sees of a folder when it overlooks the files of missed.
Snapshot(folder, missed) ==
  [f \in Files |-> IF folder[f] = NoFile \/ f \in missed THEN NoFile ELSE Entry(folder[f])]

\* snapshot(src): entries that cannot be read are left out without a word.
ScanSource ==
  /\ phase = "start"
  /\ \E missed \in SUBSET {f \in Files : src[f] # NoFile} :
       /\ srcSnap' = Snapshot(src, missed)
       /\ srcMissed' = missed
  /\ phase' = "scanned"
  /\ UNCHANGED <<userVars, dst, opts, toCopy, toUpdate, toDelete, copyVars, failed, cancel,
                 terminal, runs, touched, dstMissed, doubtful>>

\* Mutation: files of the same second are transferred again.
NeedsUpdateWhenEqual(s, d) == d.size # s.size \/ d.mtime <= s.mtime

NeedsUpdate(s, d) == d.size # s.size \/ d.mtime < s.mtime

\* Mutation: what is not transferred is extra.
ExtraUnlessPlanned(s, d) ==
  {f \in Files : d[f] # NoFile /\ (s[f] = NoFile \/ ~NeedsUpdate(s[f], d[f]))}

\* Files of snapshot d that are not in snapshot s.
Extra(s, d) == {f \in Files : d[f] # NoFile /\ s[f] = NoFile}

\* snapshot(dst), and the plan.
ScanDestination ==
  /\ phase = "scanned"
  /\ \E missed \in SUBSET {f \in Files : dst[f] # NoFile} :
       LET dstSnap == Snapshot(dst, missed) IN
       /\ toCopy' = {f \in Files : srcSnap[f] # NoFile /\ dstSnap[f] = NoFile}
       /\ toUpdate' = {f \in Files : /\ srcSnap[f] # NoFile /\ dstSnap[f] # NoFile
                                     /\ NeedsUpdate(srcSnap[f], dstSnap[f])}
       /\ toDelete' = IF opts.mirror THEN Extra(srcSnap, dstSnap) ELSE {}
       /\ dstMissed' = missed
  /\ srcSnap' = [f \in Files |-> NoFile]
  /\ phase' = "copying"
  /\ UNCHANGED <<userVars, dst, opts, copyVars, failed, cancel, terminal, runs, touched,
                 srcMissed, doubtful>>

\* Mutation: the loop waits for the token to be taken back.
StopOnCancelNot ==
  /\ phase = "copying" /\ cur = NoFile /\ cancel
  /\ toCopy \union toUpdate \union toDelete # {}
  /\ UNCHANGED vars

\* The token, looked at before every file of both loops.
StopOnCancel ==
  /\ phase = "copying" /\ cur = NoFile /\ cancel
  /\ toCopy \union toUpdate \union toDelete # {}
  /\ phase' = "ended" /\ terminal' = "Cancelled"
  /\ Forget
  /\ UNCHANGED <<userVars, dst, copyVars, failed, runs, history, doubtful>>

\* The next file: what is missing first, then what has changed.
NextFile(f) ==
  /\ phase = "copying" /\ cur = NoFile /\ ~cancel
  /\ f \in IF toCopy # {} THEN toCopy ELSE toUpdate
  /\ toCopy' = toCopy \ {f}
  /\ toUpdate' = toUpdate \ {f}
  /\ cur' = f /\ step' = "open"
  /\ UNCHANGED <<userVars, dst, phase, opts, srcSnap, toDelete, rd, pos, mixed, failed, cancel,
                 terminal, runs, history, doubtful>>

\* The file is left as it is and counted.
FileFails ==
  /\ DropCur
  /\ failed' = TRUE
  /\ UNCHANGED <<userVars, dst, phase, planVars, cancel, terminal, runs, history>>

\* The source is gone; an I/O error on either side.
CopyFails ==
  /\ step \in {"open", "copy"}
  /\ FileFails

\* Both files are opened; the destination is truncated, and preallocated if it can be.
Open ==
  /\ step = "open" /\ src[cur] # NoFile
  /\ \E data \in {Holes(Len(src[cur].data)), <<>>} :
       dst' = [dst EXCEPT ![cur] = [data |-> data, mtime |-> clock]]
  /\ rd' = src[cur].data
  /\ pos' = 0 /\ mixed' = FALSE
  /\ step' = "copy"
  /\ UNCHANGED <<userVars, phase, planVars, cur, failed, cancel, terminal, runs,
                 history, doubtful>>

CopyChunk ==
  /\ step = "copy" /\ ~cancel /\ pos < Len(rd)
  /\ dst' = [dst EXCEPT ![cur] = [data |-> WriteAt(@.data, pos + 1, rd[pos + 1]),
                                  mtime |-> clock]]
  /\ pos' = pos + 1
  /\ UNCHANGED <<userVars, phase, planVars, cur, step, rd, mixed, failed, cancel, terminal,
                 runs, history, doubtful>>

\* chunked_copy returns Cancelled, which counts as a failure of this file.
CancelCopy ==
  /\ step = "copy" /\ cancel
  /\ FileFails

\* Mutation: the last chunk is taken for the end of the file.
EndOfFileEarly ==
  /\ step = "copy" /\ ~cancel /\ pos + 1 >= Len(rd)
  /\ step' = IF opts.verify THEN "verify" ELSE "stamp"
  /\ UNCHANGED <<userVars, dst, phase, planVars, cur, rd, pos, mixed, failed, cancel, terminal,
                 runs, history, doubtful>>

EndOfFile ==
  /\ step = "copy" /\ ~cancel /\ pos >= Len(rd)
  /\ step' = IF opts.verify THEN "verify" ELSE "stamp"
  /\ UNCHANGED <<userVars, dst, phase, planVars, cur, rd, pos, mixed, failed, cancel, terminal,
                 runs, history, doubtful>>

\* Both files are read again and sh.ok() is compared with dh.ok(): a file that cannot
\* be read has the hash None, and two of them are equal. On a difference the time stamp
\* stays.
Verify ==
  /\ step = "verify"
  /\ \E srcReadable, dstReadable \in BOOLEAN :
       LET sh == IF srcReadable /\ src[cur] # NoFile THEN src[cur].data ELSE NoFile
           dh == IF dstReadable THEN dst[cur].data ELSE NoFile
       IN IF sh = dh
            THEN /\ step' = "stamp"
                 /\ UNCHANGED <<userVars, dst, phase, planVars, cur, rd, pos, mixed, failed,
                                cancel, terminal, runs, history, doubtful>>
            ELSE FileFails

\* The source's time, as it is now, is given to the destination; errors are ignored.
Stamp ==
  /\ step = "stamp"
  /\ \/ UNCHANGED dst
     \/ src[cur] # NoFile /\ dst' = [dst EXCEPT ![cur].mtime = src[cur].mtime]
  /\ doubtful' = IF mixed THEN doubtful \union {cur} ELSE doubtful \ {cur}
  /\ cur' = NoFile /\ step' = "none" /\ rd' = <<>> /\ pos' = 0 /\ mixed' = FALSE
  /\ UNCHANGED <<userVars, phase, planVars, failed, cancel, terminal, runs, history>>

\* delete_permanently; a file that cannot be deleted is counted.
Delete(f) ==
  /\ phase = "copying" /\ cur = NoFile /\ ~cancel
  /\ toCopy = {} /\ toUpdate = {} /\ f \in toDelete
  /\ toDelete' = toDelete \ {f}
  /\ \/ dst[f] # NoFile /\ dst' = [dst EXCEPT ![f] = NoFile] /\ UNCHANGED failed
     \/ failed' = TRUE /\ UNCHANGED dst
  /\ UNCHANGED <<userVars, phase, opts, srcSnap, toCopy, toUpdate, copyVars, cancel, terminal,
                 runs, history, doubtful>>

Finish ==
  /\ phase = "copying" /\ cur = NoFile
  /\ toCopy \union toUpdate \union toDelete = {}
  /\ phase' = "ended" /\ terminal' = "Finished"
  /\ Forget
  /\ UNCHANGED <<userVars, dst, copyVars, failed, runs, history, doubtful>>

-----------------------------------------------------------------------------

Job ==
  \/ ScanSource \/ ScanDestination \/ StopOnCancel \/ Finish
  \/ Open \/ CopyChunk \/ CancelCopy \/ EndOfFile \/ Verify \/ Stamp
  \/ step = "open" /\ src[cur] = NoFile /\ FileFails
  \/ \E f \in Files : NextFile(f) \/ Delete(f)

User ==
  \/ \E f \in Files : Remove(f) \/ \E v \in Versions : Save(f, v)
  \/ \E o \in Options : Start(o)
  \/ Cancel

Next == Job \/ User \/ Tick \/ NoDestination \/ CopyFails \/ Crash

Spec == Init /\ [][Next]_vars

\* The thread of the job is scheduled.
FairSpec == Spec /\ WF_vars(Job)

-----------------------------------------------------------------------------
(* Properties.                                                             *)

\* Every variable has values of its kind, and the job is inside a file's copying
\* exactly while it has a file at hand (copy_one_file within sync_dirs).
TypeOK ==
  /\ clock \in 0..MaxTime
  /\ src \in [Files -> Stored \union {NoFile}]
  /\ dst \in [Files -> Stored \union {NoFile}]
  /\ phase \in {"idle", "start", "scanned", "copying", "unreported", "ended", "crashed"}
  /\ opts \in Options
  /\ srcSnap \in [Files -> Kept \union {NoFile}]
  /\ toCopy \subseteq Files /\ toUpdate \subseteq Files /\ toDelete \subseteq Files
  /\ cur \in Files \union {NoFile}
  /\ step \in {"none", "open", "copy", "verify", "stamp"} /\ (step = "none" <=> cur = NoFile)
  /\ rd \in Seq(Chunks) /\ pos \in Nat
  /\ mixed \in BOOLEAN /\ failed \in BOOLEAN /\ cancel \in BOOLEAN
  /\ terminal \in {"none", "Finished", "Cancelled"}
  /\ runs \in 0..MaxRuns /\ edits \in 0..MaxEdits
  /\ touched \subseteq Files /\ doubtful \subseteq Files
  /\ srcMissed \subseteq Files /\ dstMissed \subseteq Files

\* The last job is Finished and has counted no failure.
Clean == phase = "ended" /\ terminal = "Finished" /\ ~failed

\* The files that are in the source as the job found them. snapshot drops the errors of
\* the walk, so a source file may be overlooked (srcMissed): it is not transferred, and
\* a mirroring job takes its copy for an extra.
Known == Files \ (touched \union srcMissed)

\* After a clean job the destination has the content of every source file the job knew,
\* unless a copy of it was cut off, or it was changed while it was copied or within the
\* second of its time stamp (sync_dirs; the exceptions are what size and mtime cannot
\* show, and files changed meanwhile or overlooked by the walk of the source).
UpToDate ==
  Clean => \A f \in Known \ doubtful :
    src[f] # NoFile => dst[f] # NoFile /\ dst[f].data = src[f].data

\* A clean job leaves nothing to do for a second one: no file would be copied or
\* updated, and in mirror mode none deleted that the walk of the destination found,
\* whatever happened in earlier jobs.
NothingLeft ==
  Clean => \A f \in Known :
    /\ src[f] # NoFile => dst[f] # NoFile /\ ~NeedsUpdate(Entry(src[f]), Entry(dst[f]))
    /\ opts.mirror /\ src[f] = NoFile => dst[f] = NoFile \/ f \in dstMissed

\* A file leaves the destination only in mirror mode, and only if the source does not
\* have it or one of two things happened in this very job: the user changed it, or the
\* walk of the source could not read it. The second is not what the comment on mirror
\* promises (sync.rs:15-17) but what snapshot does (sync.rs:56). And a file the source
\* has never had changes in no other way.
OnlyExtrasGo ==
  [][\A f \in Files :
       /\ dst[f] # NoFile /\ dst'[f] = NoFile =>
            opts.mirror /\ (src[f] = NoFile \/ f \in touched \/ f \in srcMissed)
       /\ f \in Known /\ src[f] = NoFile /\ dst[f] # NoFile /\ dst'[f] # NoFile =>
            dst'[f] = dst[f]]_vars

\* Every job ends, cancellation and vanished files do not stall it, with one exception:
\* where the destination could not be made, the tab has its job for ever.
SyncEnds == Running ~> ~Running \/ phase = "unreported"
=============================================================================
