----------------------------- MODULE SyncProofs -----------------------------
(***************************************************************************)
(* Proofs about SyncMirror, for any number of files, versions, edits, jobs *)
(* and any length of contents.                                             *)
(***************************************************************************)
EXTENDS SyncMirror, SequenceTheorems, TLAPS

LEMMA SeqOfChunks ==
  ASSUME NEW n \in Nat, NEW c \in [1..n -> Chunks]
  PROVE  c \in Seq(Chunks) /\ Len(c) = n
  OBVIOUS

LEMMA ChunksOfSeq ==
  ASSUME NEW c \in Seq(Chunks)
  PROVE  Len(c) \in Nat /\ c \in [1..Len(c) -> Chunks]
  BY LenProperties

LEMMA ContentIsSeq ==
  ASSUME NEW v \in Versions
  PROVE  Content(v) \in Seq(Chunks)
<1>1. Length[v] \in Nat /\ Content(v) \in [1..Length[v] -> Chunks]
  BY SyncConstants DEF Content, Chunks
<1> QED BY <1>1, SeqOfChunks

LEMMA HolesAreSeq ==
  ASSUME NEW n \in Nat
  PROVE  /\ Holes(n) \in Seq(Chunks) /\ Len(Holes(n)) = n
         /\ <<>> \in Seq(Chunks) /\ Len(<<>>) = 0
<1>1. Holes(n) \in [1..n -> Chunks]
  BY DEF Holes, Chunks
<1> QED BY <1>1, SeqOfChunks, EmptySeq

\* One write puts one chunk and, past the end, holes.
LEMMA WriteAtIsSeq ==
  ASSUME NEW c \in Seq(Chunks), NEW k \in Nat \ {0}, NEW x \in Chunks
  PROVE  /\ WriteAt(c, k, x) \in Seq(Chunks)
         /\ Len(WriteAt(c, k, x)) = IF Len(c) < k THEN k ELSE Len(c)
         /\ \A j \in 1..Len(WriteAt(c, k, x)) :
              WriteAt(c, k, x)[j] = IF j = k THEN x ELSE IF j <= Len(c) THEN c[j] ELSE Hole
<1> DEFINE n == IF Len(c) < k THEN k ELSE Len(c)
<1>1. Len(c) \in Nat /\ c \in [1..Len(c) -> Chunks]
  BY ChunksOfSeq
<1>2. n \in Nat /\ Hole \in Chunks
  BY <1>1 DEF Chunks
<1>3. WriteAt(c, k, x) \in [1..n -> Chunks]
  BY <1>1, <1>2 DEF WriteAt
<1> QED BY <1>1, <1>2, <1>3, SeqOfChunks DEF WriteAt

\* A file is not the absence of one, nor is what snapshot keeps of it.
LEMMA Files1 ==
  /\ \A c \in Seq(Chunks), m \in 0..MaxTime : [data |-> c, mtime |-> m] \in Stored
  /\ \A file \in Stored : /\ file # NoFile /\ file.data \in Seq(Chunks)
                          /\ file.mtime \in 0..MaxTime
                          /\ Entry(file) \in Kept /\ Entry(file) # NoFile
                          /\ Entry(file).size = Len(file.data)
                          /\ Entry(file).mtime = file.mtime
  BY SyncConstants, LenProperties DEF Stored, Kept, Entry

-----------------------------------------------------------------------------
(* Type correctness.                                                       *)

\* While a file is copied the destination has it; copying is one phase of a job, and a
\* job that runs has not said its last word.
TInv ==
  /\ TypeOK
  /\ step # "none" => phase = "copying"
  /\ step \in {"copy", "verify", "stamp"} => dst[cur] # NoFile
  /\ Running => terminal = "none"

LEMMA InitTInv == Init => TInv
<1> SUFFICES ASSUME Init PROVE TInv
  OBVIOUS
<1>1. clock = 1 /\ 1 \in 0..MaxTime /\ 0 \in 0..MaxTime
  BY SyncConstants DEF Init
<1>2. src \in [Files -> Stored \union {NoFile}]
  <2>1. [data |-> Content(First), mtime |-> 1] \in Stored
    BY <1>1, ContentIsSeq, SyncConstants DEF Stored
  <2> QED BY <2>1 DEF Init
<1>3. dst \in [Files -> Stored \union {NoFile}]
  <2>1. \A n \in OldLengths : [data |-> [k \in 1..n |-> Old], mtime |-> 0] \in Stored
    <3> SUFFICES ASSUME NEW n \in OldLengths
                 PROVE  [data |-> [k \in 1..n |-> Old], mtime |-> 0] \in Stored
      OBVIOUS
    <3>1. n \in Nat /\ [k \in 1..n |-> Old] \in [1..n -> Chunks]
      BY SyncConstants DEF Chunks
    <3>2. [k \in 1..n |-> Old] \in Seq(Chunks)
      BY <3>1, SeqOfChunks
    <3> QED BY <1>1, <3>2 DEF Stored
  <2> QED BY <2>1 DEF Init
<1>4. opts \in Options
  BY SyncConstants DEF Init
<1>5. rd \in Seq(Chunks)
  BY EmptySeq DEF Init
<1>6. /\ phase = "idle" /\ srcSnap = [f \in Files |-> NoFile]
      /\ toCopy = {} /\ toUpdate = {} /\ toDelete = {}
      /\ cur = NoFile /\ step = "none" /\ pos = 0 /\ mixed = FALSE
      /\ failed = FALSE /\ cancel = FALSE /\ terminal = "none"
      /\ runs = 0 /\ edits = 0 /\ doubtful = {}
      /\ touched = {} /\ srcMissed = {} /\ dstMissed = {}
  BY DEF Init
<1>7. 0 \in 0..MaxRuns /\ 0 \in 0..MaxEdits
  BY SyncConstants
<1>8. TypeOK
  BY <1>1, <1>2, <1>3, <1>4, <1>5, <1>6, <1>7 DEF TypeOK
<1> QED BY <1>6, <1>8 DEF TInv, Running, Working

\* The user and the machine.
LEMMA OutsideType ==
  ASSUME TInv, User \/ Tick \/ Crash
  PROVE  TInv'
<1> USE SyncConstants DEF TInv, TypeOK, Running, Working, userVars, planVars, copyVars, history
<1>1. CASE Tick
  BY <1>1 DEF Tick
<1>2. ASSUME NEW f \in Files, NEW v \in Versions, Save(f, v) PROVE TInv'
  <2>1. Content(v) \in Seq(Chunks)
    BY ContentIsSeq
  <2>2. [data |-> Content(v), mtime |-> clock] \in Stored
    BY <2>1 DEF Stored
  <2>3. src' \in [Files -> Stored \union {NoFile}]
    BY <1>2, <2>2 DEF Save
  <2>4. rd' \in Seq(Chunks) /\ mixed' \in BOOLEAN
    BY <1>2, <2>1 DEF Save
  <2>5. edits' \in 0..MaxEdits /\ doubtful' \subseteq Files /\ touched' \subseteq Files
    BY <1>2 DEF Save
  <2> QED BY <1>2, <2>3, <2>4, <2>5 DEF Save
<1>3. ASSUME NEW f \in Files, Remove(f) PROVE TInv'
  BY <1>3 DEF Remove
<1>4. ASSUME NEW o \in Options, Start(o) PROVE TInv'
  <2>1. step = "none"
    BY <1>4 DEF Start, Running
  <2>2. runs' \in 0..MaxRuns
    BY <1>4 DEF Start
  <2> QED BY <1>4, <2>1, <2>2 DEF Start
<1>5. CASE Cancel
  BY <1>5 DEF Cancel
<1>6. CASE Crash
  BY <1>6, EmptySeq DEF Crash, DropCur, Forget
<1> QED BY <1>1, <1>2, <1>3, <1>4, <1>5, <1>6 DEF User

\* What a snapshot of a folder is.
LEMMA SnapshotType ==
  ASSUME NEW folder \in [Files -> Stored \union {NoFile}], NEW missed
  PROVE  /\ Snapshot(folder, missed) \in [Files -> Kept \union {NoFile}]
         /\ \A f \in Files : Snapshot(folder, missed)[f] =
              IF folder[f] = NoFile \/ f \in missed THEN NoFile ELSE Entry(folder[f])
         /\ \A f \in Files :
              Snapshot(folder, missed)[f] = NoFile <=> folder[f] = NoFile \/ f \in missed
<1>1. \A f \in Files : folder[f] # NoFile => Entry(folder[f]) \in Kept /\ Entry(folder[f]) # NoFile
  BY Files1
<1> QED BY <1>1 DEF Snapshot

LEMMA JobType ==
  ASSUME TInv, Job \/ NoDestination \/ CopyFails
  PROVE  TInv'
<1> USE SyncConstants DEF TInv, TypeOK, Running, Working, userVars, planVars, copyVars, history
<1>1. CASE ScanSource
  <2>1. srcSnap' \in [Files -> Kept \union {NoFile}]
    BY <1>1, SnapshotType DEF ScanSource
  <2> QED BY <1>1, <2>1 DEF ScanSource
<1>2. CASE ScanDestination
  BY <1>2 DEF ScanDestination, Extra
<1>3. CASE StopOnCancel \/ Finish \/ NoDestination
  <2>1. CASE StopOnCancel
    BY <2>1 DEF StopOnCancel, Forget
  <2>2. CASE Finish
    BY <2>2 DEF Finish, Forget
  <2>3. CASE NoDestination
    BY <2>3 DEF NoDestination, Forget
  <2> QED BY <1>3, <2>1, <2>2, <2>3
<1>4. CASE FileFails
  BY <1>4, EmptySeq DEF FileFails, DropCur
<1>5. CASE Open
  <2>1. src[cur] \in Stored /\ cur \in Files
    BY <1>5 DEF Open
  <2>2. /\ src[cur].data \in Seq(Chunks) /\ Len(src[cur].data) \in Nat
    BY <2>1, Files1, ChunksOfSeq
  <2>3. PICK data \in {Holes(Len(src[cur].data)), <<>>} :
          dst' = [dst EXCEPT ![cur] = [data |-> data, mtime |-> clock]]
    BY <1>5 DEF Open
  <2>4. [data |-> data, mtime |-> clock] \in Stored
    BY <2>2, <2>3, HolesAreSeq DEF Stored
  <2>5. [data |-> data, mtime |-> clock] # NoFile
    BY <2>4
  <2>6. dst' \in [Files -> Stored \union {NoFile}] /\ dst'[cur] # NoFile
    BY <2>1, <2>3, <2>4, <2>5
  <2> QED BY <1>5, <2>1, <2>2, <2>6 DEF Open
<1>6. CASE CopyChunk
  <2>1. dst[cur] \in Stored /\ cur \in Files
    BY <1>6 DEF CopyChunk
  <2>2. rd[pos + 1] \in Chunks
    <3>1. Len(rd) \in Nat /\ rd \in [1..Len(rd) -> Chunks]
      BY ChunksOfSeq
    <3>2. pos + 1 \in 1..Len(rd)
      BY <1>6, <3>1 DEF CopyChunk
    <3> QED BY <3>1, <3>2
  <2>3. WriteAt(dst[cur].data, pos + 1, rd[pos + 1]) \in Seq(Chunks)
    <3>1. dst[cur].data \in Seq(Chunks) /\ pos + 1 \in Nat \ {0}
      BY <2>1, Files1
    <3> QED BY <2>2, <3>1, WriteAtIsSeq
  <2>4. [data |-> WriteAt(dst[cur].data, pos + 1, rd[pos + 1]), mtime |-> clock] \in Stored
    BY <2>3 DEF Stored
  <2>5. dst' = [dst EXCEPT ![cur] =
          [data |-> WriteAt(dst[cur].data, pos + 1, rd[pos + 1]), mtime |-> clock]]
    BY <1>6 DEF CopyChunk
  <2>6. dst' \in [Files -> Stored \union {NoFile}] /\ dst'[cur] # NoFile
    BY <2>1, <2>4, <2>5
  <2> QED BY <1>6, <2>1, <2>6 DEF CopyChunk
<1>7. CASE CancelCopy \/ CopyFails
  BY <1>4, <1>7 DEF CancelCopy, CopyFails
<1>8. CASE EndOfFile
  BY <1>8 DEF EndOfFile
<1>9. CASE Verify
  BY <1>4, <1>9 DEF Verify
<1>10. CASE Stamp
  <2>1. dst[cur] \in Stored /\ cur \in Files
    BY <1>10 DEF Stamp
  <2>2. dst' \in [Files -> Stored \union {NoFile}]
    <3>1. CASE UNCHANGED dst
      BY <3>1
    <3>2. CASE src[cur] # NoFile /\ dst' = [dst EXCEPT ![cur].mtime = src[cur].mtime]
      <4>1. src[cur] \in Stored
        BY <2>1, <3>2
      <4>2. [dst[cur] EXCEPT !.mtime = src[cur].mtime] \in Stored
        BY <2>1, <4>1 DEF Stored
      <4> QED BY <2>1, <3>2, <4>2
    <3> QED BY <1>10, <3>1, <3>2 DEF Stamp
  <2> QED BY <1>10, <2>1, <2>2, EmptySeq DEF Stamp
<1>11. ASSUME NEW f \in Files, NextFile(f) PROVE TInv'
  BY <1>11 DEF NextFile
<1>12. ASSUME NEW f \in Files, Delete(f) PROVE TInv'
  BY <1>12 DEF Delete
<1> QED BY <1>1, <1>2, <1>3, <1>4, <1>5, <1>6, <1>7, <1>8, <1>9, <1>10, <1>11, <1>12 DEF Job

LEMMA TypeInvariant == Spec => []TInv
<1>1. TInv /\ [Next]_vars => TInv'
  <2>1. ASSUME TInv, UNCHANGED vars PROVE TInv'
    BY <2>1 DEF TInv, TypeOK, Running, Working, vars, userVars, planVars, copyVars, history
  <2> QED BY <2>1, OutsideType, JobType DEF Next
<1> QED BY InitTInv, <1>1, PTL DEF Spec

\* Every variable has values of its kind, and a job is inside a file's copying exactly
\* while it has a file at hand, in every behaviour.
THEOREM TypeCorrect == Spec => []TypeOK
<1>1. TInv => TypeOK
  BY DEF TInv
<1> QED BY TypeInvariant, <1>1, PTL

-----------------------------------------------------------------------------
(* What length and time stamp tell.                                        *)

\* The job would not transfer f again.
Current(f) == dst[f] # NoFile /\ ~NeedsUpdate(Entry(src[f]), Entry(dst[f]))

\* f's destination is being written.
Busy(f) == cur = f /\ step # "open"

Times == \A f \in Files : src[f] # NoFile => src[f].mtime <= clock

\* A destination that looks current is current, the doubtful ones apart.
Told ==
  \A f \in Files \ doubtful :
    src[f] # NoFile /\ Current(f) /\ ~Busy(f) => dst[f].data = src[f].data

\* The file at hand, as long as the user leaves it alone.
AtHand ==
  /\ mixed => cur \in touched
  /\ step \in {"copy", "verify", "stamp"} /\ ~mixed =>
       /\ src[cur] # NoFile /\ rd = src[cur].data /\ src[cur].mtime <= dst[cur].mtime
       /\ pos <= Len(rd) /\ Len(dst[cur].data) \in {pos, Len(rd)}
       /\ \A k \in 1..pos : dst[cur].data[k] = rd[k]
  /\ step \in {"verify", "stamp"} /\ ~mixed => dst[cur].data = rd

\* What is still to be done for a file that the user leaves alone.
Planned ==
  /\ phase = "scanned" => \A f \in Known :
       srcSnap[f] = IF src[f] = NoFile THEN NoFile ELSE Entry(src[f])
  /\ phase = "copying" =>
       /\ toDelete # {} => opts.mirror
       /\ \A f \in Known : src[f] # NoFile =>
            /\ f \notin toDelete
            /\ failed \/ f \in toCopy \union toUpdate \/ cur = f \/ Current(f)
       /\ \A f \in Known : src[f] = NoFile =>
            /\ f \notin toCopy \union toUpdate /\ f # cur
            /\ opts.mirror => failed \/ f \in toDelete \/ dst[f] = NoFile \/ f \in dstMissed

SInv == Times /\ Told /\ AtHand /\ Planned /\ NothingLeft

LEMMA SyncTypes ==
  ASSUME TInv
  PROVE  /\ src \in [Files -> Stored \union {NoFile}]
         /\ dst \in [Files -> Stored \union {NoFile}]
         /\ clock \in Nat
         /\ rd \in Seq(Chunks) /\ Len(rd) \in Nat /\ pos \in Nat
         /\ touched \subseteq Files /\ doubtful \subseteq Files
         /\ cur \in Files \union {NoFile} /\ NoFile \notin Files
         /\ step \in {"none", "open", "copy", "verify", "stamp"}
         /\ (step = "none" <=> cur = NoFile)
         /\ step # "none" => phase = "copying" /\ cur \in Files
         /\ step \in {"copy", "verify", "stamp"} => dst[cur] \in Stored
         /\ mixed \in BOOLEAN
  BY SyncConstants, LenProperties DEF TInv, TypeOK

LEMMA InitSInv == Init => SInv
<1> SUFFICES ASSUME Init PROVE SInv
  OBVIOUS
<1>1. TInv
  BY InitTInv
<1>2. /\ clock = 1 /\ phase = "idle" /\ mixed = FALSE /\ step = "none"
      /\ \A f \in Files : src[f] \in {NoFile, [data |-> Content(First), mtime |-> 1]}
  BY DEF Init
<1>3. \A f \in Files : dst[f] # NoFile => dst[f].mtime = 0
  <2> SUFFICES ASSUME NEW f \in Files, dst[f] # NoFile PROVE dst[f].mtime = 0
    OBVIOUS
  <2>1. dst[f] \in {[data |-> [k \in 1..n |-> Old], mtime |-> 0] : n \in OldLengths}
    BY DEF Init
  <2> QED BY <2>1
<1>4. Times
  BY <1>2 DEF Times
<1>5. \A f \in Files : src[f] # NoFile => ~Current(f)
  BY <1>2, <1>3 DEF Current, NeedsUpdate, Entry
<1>6. Told /\ AtHand /\ Planned /\ NothingLeft
  BY <1>2, <1>5 DEF Told, AtHand, Planned, NothingLeft, Clean, Known, history
<1> QED BY <1>4, <1>6 DEF SInv

-----------------------------------------------------------------------------
(* The user and the machine.                                               *)

\* A change either shows in the length or the time, or is counted as doubtful.
LEMMA SaveShows ==
  ASSUME TInv, NEW f \in Files, NEW v \in Versions, Save(f, v)
  PROVE  f \in doubtful' \/ ~Current(f)'
<1> SUFFICES ASSUME f \notin doubtful', dst[f] # NoFile
             PROVE  NeedsUpdate(Entry(src'[f]), Entry(dst[f]))
  BY DEF Current, Save
<1>1. ~Unseen(f, v) /\ src'[f] = [data |-> Content(v), mtime |-> clock]
  BY SyncTypes DEF Save
<1>2. dst[f] \in Stored /\ clock \in Nat
  BY SyncTypes
<1>3. Length[v] \in Nat /\ Len(Content(v)) = Length[v]
  <2>1. Length[v] \in Nat /\ Content(v) \in [1..Length[v] -> Chunks]
    BY SyncConstants DEF Content, Chunks
  <2> QED BY <2>1, SeqOfChunks
<1>4. dst[f].mtime < clock \/ Len(dst[f].data) # Length[v]
  BY <1>1, <1>2, SyncConstants DEF Unseen, Stored
<1> QED BY <1>1, <1>3, <1>4 DEF NeedsUpdate, Entry

\* A change of f in the source concerns nothing but f.
LEMMA EditKeeps ==
  ASSUME TInv, SInv, NEW f \in Files,
         \/ \E v \in Versions : Save(f, v)
         \/ Remove(f)
  PROVE  SInv'
<1>1. /\ \A g \in Files \ {f} : src'[g] = src[g]
      /\ touched' = touched \union {f} /\ UNCHANGED <<srcMissed, dstMissed>>
      /\ UNCHANGED <<clock, dst, phase, opts, srcSnap, toCopy, toUpdate, toDelete, cur, step,
                     pos, failed, terminal>>
      /\ doubtful \subseteq doubtful'
      /\ IF cur = f THEN mixed' = TRUE ELSE mixed' = mixed /\ rd' = rd
  BY SyncTypes DEF Save, Remove, planVars
<1>2. \A g \in Files \ {f} : Current(g)' = Current(g)
  BY <1>1 DEF Current
<1>3. Times'
  <2>1. src'[f] = NoFile \/ src'[f].mtime = clock
    BY SyncTypes DEF Save, Remove
  <2> QED BY <1>1, <2>1, SyncTypes DEF SInv, Times
<1>4. Told'
  <2>1. src'[f] = NoFile \/ f \in doubtful' \/ ~Current(f)'
    BY SaveShows, SyncTypes DEF Remove
  <2> QED BY <1>1, <1>2, <2>1 DEF SInv, Told, Busy
<1>5. AtHand'
  <2>1. CASE cur = f
    BY <1>1, <2>1 DEF AtHand
  <2>2. CASE cur # f /\ cur \in Files
    BY <1>1, <2>2 DEF SInv, AtHand
  <2>3. CASE cur = NoFile
    BY <1>1, <2>3, SyncTypes DEF SInv, AtHand
  <2> QED BY <2>1, <2>2, <2>3, SyncTypes
<1>6. Planned'
  BY <1>1, <1>2 DEF SInv, Planned, Known, history
<1>7. NothingLeft'
  BY <1>1 DEF SInv, NothingLeft, Clean, Known, history
<1> QED BY <1>3, <1>4, <1>5, <1>6, <1>7 DEF SInv

LEMMA OutsideKeeps ==
  ASSUME TInv, SInv, User \/ Tick \/ Crash
  PROVE  SInv'
<1>1. ASSUME NEW f \in Files, Remove(f) \/ \E v \in Versions : Save(f, v) PROVE SInv'
  BY <1>1, EditKeeps
<1>2. CASE Tick
  <2>1. clock' = clock + 1
    BY <1>2 DEF Tick
  <2>2. \A f \in Files : src[f] # NoFile => src[f].mtime \in Nat
    BY SyncTypes, SyncConstants DEF Stored
  <2>3. Times'
    BY <1>2, <2>1, <2>2, SyncTypes DEF Tick, SInv, Times
  <2> QED BY <1>2, <2>3
          DEF Tick, SInv, Told, AtHand, Planned, NothingLeft, Clean, Known, history, Current, Busy, copyVars,
              planVars
<1>3. ASSUME NEW o \in Options, Start(o) PROVE SInv'
  <2>1. /\ phase' = "start" /\ step = "none" /\ cur = NoFile
        /\ UNCHANGED <<clock, src, dst, cur, step, rd, pos, mixed, doubtful>>
    BY <1>3, SyncTypes DEF Start, Running, Working, userVars, copyVars
  <2>2. ~mixed
    BY <2>1, SyncTypes DEF SInv, AtHand
  <2> QED BY <2>1, <2>2
          DEF SInv, Times, Told, AtHand, Planned, NothingLeft, Clean, Known, history, Current, Busy
<1>4. CASE Cancel
  BY <1>4 DEF Cancel, SInv, Times, Told, AtHand, Planned, NothingLeft, Clean, Known, history, Current, Busy,
              userVars, copyVars, planVars
<1>5. CASE Crash
  <2>1. /\ phase' = "crashed" /\ UNCHANGED <<clock, src, dst>>
        /\ step' = "none" /\ mixed' = FALSE
        /\ doubtful' = IF step \in {"copy", "verify", "stamp"}
                         THEN doubtful \union {cur} ELSE doubtful
    BY <1>5 DEF Crash, DropCur, userVars
  <2>2. Told'
    BY <2>1, SyncTypes DEF SInv, Told, Current, Busy
  <2> QED BY <2>1, <2>2 DEF SInv, Times, AtHand, Planned, NothingLeft, Clean, Known, history
<1> QED BY <1>1, <1>2, <1>3, <1>4, <1>5 DEF User

-----------------------------------------------------------------------------
(* Steps of the job.                                                       *)

LEMMA ScanSourceKeeps ==
  ASSUME TInv, SInv, ScanSource
  PROVE  SInv'
<1>1. PICK missed \in SUBSET {f \in Files : src[f] # NoFile} :
        srcSnap' = Snapshot(src, missed) /\ srcMissed' = missed
  BY DEF ScanSource
<1>2. /\ phase' = "scanned"
      /\ UNCHANGED <<clock, src, dst, cur, step, rd, pos, mixed, touched, doubtful>>
  BY DEF ScanSource, userVars, copyVars
<1>3. \A f \in Files : srcSnap'[f] =
        IF src[f] = NoFile \/ f \in missed THEN NoFile ELSE Entry(src[f])
  BY <1>1, SnapshotType, SyncTypes
<1>4. Planned'
  BY <1>1, <1>2, <1>3 DEF Planned, Known
<1> QED BY <1>1, <1>2, <1>4 DEF SInv, Times, Told, AtHand, NothingLeft, Clean, Known, history, Current, Busy

LEMMA ScanDestinationKeeps ==
  ASSUME TInv, SInv, ScanDestination
  PROVE  SInv'
<1>1. PICK missed \in SUBSET {f \in Files : dst[f] # NoFile} :
       LET dstSnap == Snapshot(dst, missed) IN
       /\ toCopy' = {f \in Files : srcSnap[f] # NoFile /\ dstSnap[f] = NoFile}
       /\ toUpdate' = {f \in Files : /\ srcSnap[f] # NoFile /\ dstSnap[f] # NoFile
                                     /\ NeedsUpdate(srcSnap[f], dstSnap[f])}
       /\ toDelete' = IF opts.mirror THEN Extra(srcSnap, dstSnap) ELSE {}
       /\ dstMissed' = missed
  BY DEF ScanDestination
<1> DEFINE dstSnap == Snapshot(dst, missed)
<1>2. /\ phase = "scanned" /\ phase' = "copying"
      /\ UNCHANGED <<clock, src, dst, opts, cur, step, rd, pos, mixed, touched, srcMissed,
                     doubtful>>
  BY DEF ScanDestination, userVars, copyVars
<1>3. \A f \in Files : /\ dstSnap[f] = IF dst[f] = NoFile \/ f \in missed
                                        THEN NoFile ELSE Entry(dst[f])
                       /\ dstSnap[f] = NoFile <=> dst[f] = NoFile \/ f \in missed
  BY SnapshotType, SyncTypes
<1>4. /\ toCopy' = {f \in Files : srcSnap[f] # NoFile /\ dstSnap[f] = NoFile}
      /\ toUpdate' = {f \in Files : /\ srcSnap[f] # NoFile /\ dstSnap[f] # NoFile
                                    /\ NeedsUpdate(srcSnap[f], dstSnap[f])}
      /\ toDelete' = IF opts.mirror
                       THEN {f \in Files : dstSnap[f] # NoFile /\ srcSnap[f] = NoFile} ELSE {}
  BY <1>1 DEF Extra
<1> HIDE DEF dstSnap
<1>5. \A f \in Files : src[f] # NoFile => Entry(src[f]) # NoFile
  BY Files1, SyncTypes
<1>6. step = "none" /\ cur = NoFile
  BY <1>2, SyncTypes
<1>7. \A f \in Known' :
        srcSnap[f] = IF src[f] = NoFile THEN NoFile ELSE Entry(src[f])
  BY <1>1, <1>2 DEF SInv, Planned, Known
<1>8. ASSUME NEW f \in Known', f \in Files, src[f] # NoFile
      PROVE  f \notin toDelete' /\ (f \in toCopy' \union toUpdate' \/ Current(f)')
  BY <1>1, <1>2, <1>3, <1>4, <1>5, <1>7, <1>8 DEF Current
<1>9. ASSUME NEW f \in Known', f \in Files, src[f] = NoFile
      PROVE  /\ f \notin toCopy' \union toUpdate'
             /\ opts.mirror => f \in toDelete' \/ dst[f] = NoFile \/ f \in dstMissed'
  BY <1>1, <1>3, <1>4, <1>7, <1>9
<1>10. Planned'
  BY <1>2, <1>4, <1>6, <1>8, <1>9, SyncTypes DEF Planned, Known
<1> QED BY <1>1, <1>2, <1>10 DEF SInv, Times, Told, AtHand, NothingLeft, Clean, Known, history, Current, Busy

\* The job returns: nothing is left when the loops ran to their end.
LEMMA ReturnKeeps ==
  ASSUME TInv, SInv, NoDestination \/ StopOnCancel \/ Finish
  PROVE  SInv'
<1>1. /\ phase' \in {"ended", "unreported"} /\ cur = NoFile
      /\ UNCHANGED <<clock, src, dst, opts, cur, step, rd, pos, mixed, failed, history, doubtful>>
  BY SyncTypes DEF NoDestination, StopOnCancel, Finish, userVars, copyVars, Forget
<1>2. CASE Finish
  <2>1. phase = "copying" /\ toCopy \union toUpdate \union toDelete = {}
    BY <1>2 DEF Finish
  <2>2. NothingLeft'
    BY <1>1, <2>1, SyncTypes DEF SInv, Planned, Known, history, NothingLeft, Clean, Current
  <2> QED BY <1>1, <2>2 DEF SInv, Times, Told, AtHand, Planned, Known, history, Current, Busy
<1>3. CASE StopOnCancel
  <2>1. terminal' = "Cancelled"
    BY <1>3 DEF StopOnCancel
  <2> QED BY <1>1, <2>1 DEF SInv, Times, Told, AtHand, Planned, NothingLeft, Clean, Known, history, Current, Busy
<1>4. CASE NoDestination
  <2>1. phase = "start" /\ terminal' = terminal
    BY <1>4 DEF NoDestination
  <2>2. terminal # "Finished"
    BY <2>1 DEF TInv, Running, Working
  <2> QED BY <1>1, <2>1, <2>2
          DEF SInv, Times, Told, AtHand, Planned, NothingLeft, Clean, Known, history, Current, Busy
<1> QED BY <1>2, <1>3, <1>4

LEMMA FileFailsKeeps ==
  ASSUME TInv, SInv, step # "none", FileFails
  PROVE  SInv'
<1>1. /\ failed' = TRUE /\ cur' = NoFile /\ step' = "none" /\ mixed' = FALSE
      /\ UNCHANGED <<clock, src, dst, phase, opts, srcSnap, toCopy, toUpdate, toDelete, history>>
      /\ doubtful' = IF step \in {"copy", "verify", "stamp"}
                       THEN doubtful \union {cur} ELSE doubtful
  BY DEF FileFails, DropCur, userVars, planVars
<1>2. phase = "copying"
  BY SyncTypes
<1>3. Told'
  BY <1>1, SyncTypes DEF SInv, Told, Current, Busy
<1>4. Planned'
  BY <1>1, <1>2, SyncTypes DEF SInv, Planned, Known, history
<1> QED BY <1>1, <1>2, <1>3, <1>4 DEF SInv, Times, AtHand, NothingLeft, Clean, Known, history

LEMMA OpenKeeps ==
  ASSUME TInv, SInv, Open
  PROVE  SInv'
<1>1. /\ step = "open" /\ src[cur] # NoFile
      /\ rd' = src[cur].data /\ pos' = 0 /\ mixed' = FALSE /\ step' = "copy"
      /\ UNCHANGED <<clock, src, phase, opts, srcSnap, toCopy, toUpdate, toDelete, cur, failed,
                     terminal, history, doubtful>>
  BY DEF Open, userVars, planVars
<1>2. PICK data \in {Holes(Len(src[cur].data)), <<>>} :
        dst' = [dst EXCEPT ![cur] = [data |-> data, mtime |-> clock]]
  BY DEF Open
<1>3. cur \in Files /\ phase = "copying"
  BY <1>1, SyncTypes
<1>4. src[cur].data \in Seq(Chunks) /\ Len(src[cur].data) \in Nat
  BY <1>1, <1>3, SyncTypes, Files1, ChunksOfSeq
<1>5. Len(data) \in {0, Len(src[cur].data)}
  BY <1>2, <1>4, HolesAreSeq
<1>6. dst'[cur] = [data |-> data, mtime |-> clock] /\ \A g \in Files \ {cur} : dst'[g] = dst[g]
  BY <1>2, <1>3, SyncTypes
<1>7. AtHand'
  BY <1>1, <1>3, <1>4, <1>5, <1>6 DEF SInv, Times, AtHand
<1>8. \A g \in Files \ {cur} : Current(g)' = Current(g)
  BY <1>1, <1>6 DEF Current
<1>9. Told'
  BY <1>1, <1>6, <1>8 DEF SInv, Told, Busy
<1>10. Planned'
  BY <1>1, <1>3, <1>6, <1>8 DEF SInv, Planned, Known, history
<1> QED BY <1>1, <1>3, <1>7, <1>9, <1>10 DEF SInv, Times, NothingLeft, Clean, Known, history

LEMMA CopyChunkKeeps ==
  ASSUME TInv, SInv, CopyChunk
  PROVE  SInv'
<1> DEFINE k == pos + 1
           c == dst[cur].data
<1>1. /\ step = "copy" /\ pos < Len(rd)
      /\ dst' = [dst EXCEPT ![cur] = [data |-> WriteAt(c, k, rd[k]), mtime |-> clock]]
      /\ pos' = k
      /\ UNCHANGED <<clock, src, phase, opts, srcSnap, toCopy, toUpdate, toDelete, cur, step, rd,
                     mixed, failed, terminal, history, doubtful>>
  BY DEF CopyChunk, userVars, planVars
<1>2. /\ cur \in Files /\ phase = "copying" /\ dst[cur] \in Stored
      /\ c \in Seq(Chunks) /\ Len(c) \in Nat /\ k \in Nat \ {0} /\ k = pos + 1
  BY <1>1, SyncTypes, Files1, ChunksOfSeq
<1>3. rd[k] \in Chunks
  <2>1. Len(rd) \in Nat /\ rd \in [1..Len(rd) -> Chunks]
    BY ChunksOfSeq, SyncTypes
  <2>2. k \in 1..Len(rd)
    BY <1>1, <1>2, <2>1, SyncTypes
  <2> QED BY <2>1, <2>2
<1>4. /\ Len(WriteAt(c, k, rd[k])) = IF Len(c) < k THEN k ELSE Len(c)
      /\ \A j \in 1..Len(WriteAt(c, k, rd[k])) :
           WriteAt(c, k, rd[k])[j] =
             IF j = k THEN rd[k] ELSE IF j <= Len(c) THEN c[j] ELSE Hole
  BY <1>2, <1>3, WriteAtIsSeq
<1>5. /\ dst'[cur] = [data |-> WriteAt(c, k, rd[k]), mtime |-> clock]
      /\ \A g \in Files \ {cur} : dst'[g] = dst[g]
  BY <1>1, <1>2, SyncTypes
<1> HIDE DEF c, k
<1>6. ASSUME ~mixed
      PROVE  /\ k <= Len(rd) /\ Len(WriteAt(c, k, rd[k])) \in {k, Len(rd)}
             /\ \A j \in 1..k : WriteAt(c, k, rd[k])[j] = rd[j]
  <2>1. /\ Len(c) \in {pos, Len(rd)} /\ \A j \in 1..pos : c[j] = rd[j]
    BY <1>1, <1>6 DEF SInv, AtHand, c
  <2>2. k <= Len(rd) /\ Len(rd) \in Nat /\ pos \in Nat
    BY <1>1, <1>2, SyncTypes
  <2>3. Len(WriteAt(c, k, rd[k])) \in {k, Len(rd)}
    BY <1>2, <1>4, <2>1, <2>2
  <2>4. ASSUME NEW j \in 1..k PROVE WriteAt(c, k, rd[k])[j] = rd[j]
    <3>1. j \in 1..Len(WriteAt(c, k, rd[k]))
      BY <1>2, <2>2, <2>3
    <3>2. j # k => j \in 1..pos /\ j <= Len(c)
      BY <1>2, <2>1, <2>2
    <3> QED BY <1>4, <2>1, <3>1, <3>2
  <2> QED BY <2>2, <2>3, <2>4
<1>7. AtHand'
  <2>1. mixed' => cur' \in touched'
    BY <1>1 DEF SInv, AtHand, history
  <2>2. ~mixed => src[cur] # NoFile /\ rd = src[cur].data /\ src[cur].mtime <= clock
    BY <1>1, <1>2 DEF SInv, AtHand, Times
  <2> QED BY <1>1, <1>5, <1>6, <2>1, <2>2 DEF AtHand
<1>8. \A g \in Files \ {cur} : Current(g)' = Current(g)
  BY <1>1, <1>5 DEF Current
<1>9. Told'
  BY <1>1, <1>5, <1>8 DEF SInv, Told, Busy
<1>10. Planned'
  BY <1>1, <1>2, <1>5, <1>8 DEF SInv, Planned, Known, history
<1> QED BY <1>1, <1>2, <1>7, <1>9, <1>10 DEF SInv, Times, NothingLeft, Clean, Known, history

LEMMA EndOfFileKeeps ==
  ASSUME TInv, SInv, EndOfFile
  PROVE  SInv'
<1>1. /\ step = "copy" /\ pos >= Len(rd) /\ step' \in {"verify", "stamp"}
      /\ UNCHANGED <<clock, src, dst, phase, opts, srcSnap, toCopy, toUpdate, toDelete, cur, rd,
                     pos, mixed, failed, terminal, history, doubtful>>
  BY DEF EndOfFile, userVars, planVars
<1>2. ASSUME ~mixed PROVE dst[cur].data = rd
  <2>1. /\ pos <= Len(rd) /\ Len(dst[cur].data) \in {pos, Len(rd)}
        /\ \A k \in 1..pos : dst[cur].data[k] = rd[k]
    BY <1>1, <1>2 DEF SInv, AtHand
  <2>2. dst[cur].data \in Seq(Chunks) /\ rd \in Seq(Chunks)
    BY <1>1, SyncTypes, Files1
  <2>3. pos = Len(rd) /\ Len(dst[cur].data) = Len(rd)
    BY <1>1, <2>1, SyncTypes
  <2> QED BY <2>1, <2>2, <2>3, SeqEqual
<1>3. AtHand'
  BY <1>1, <1>2 DEF SInv, AtHand, history
<1> QED BY <1>1, <1>3, SyncTypes
        DEF SInv, Times, Told, Planned, NothingLeft, Clean, Known, history, Current, Busy

\* A file with another time stamp is a file of the same content.
LEMMA StampedIsFile ==
  ASSUME NEW file \in Stored, NEW m \in 0..MaxTime
  PROVE  /\ [file EXCEPT !.mtime = m] \in Stored /\ [file EXCEPT !.mtime = m] # NoFile
         /\ [file EXCEPT !.mtime = m].data = file.data
         /\ [file EXCEPT !.mtime = m].mtime = m
<1>1. [file EXCEPT !.mtime = m] \in Stored
  BY DEF Stored
<1> QED BY <1>1, Files1 DEF Stored

LEMMA StampKeeps ==
  ASSUME TInv, SInv, Stamp
  PROVE  SInv'
<1>1. /\ step = "stamp" /\ cur' = NoFile /\ step' = "none" /\ mixed' = FALSE
      /\ doubtful' = IF mixed THEN doubtful \union {cur} ELSE doubtful \ {cur}
      /\ UNCHANGED <<clock, src, phase, opts, srcSnap, toCopy, toUpdate, toDelete, failed,
                     terminal, history>>
  BY DEF Stamp, userVars, planVars
<1>2. cur \in Files /\ phase = "copying" /\ dst[cur] \in Stored
  BY <1>1, SyncTypes
<1>3. /\ \A g \in Files \ {cur} : dst'[g] = dst[g]
      /\ \/ dst'[cur] = dst[cur]
         \/ /\ src[cur] # NoFile
            /\ dst'[cur] = [dst[cur] EXCEPT !.mtime = src[cur].mtime]
  BY <1>2, SyncTypes DEF Stamp
<1>4. src[cur] # NoFile => src[cur].mtime \in 0..MaxTime
  BY <1>2, SyncTypes, Files1
<1>5. /\ dst'[cur].data = dst[cur].data /\ dst'[cur] # NoFile
      /\ dst'[cur].mtime \in {dst[cur].mtime, src[cur].mtime}
  <2>1. CASE dst'[cur] = dst[cur]
    BY <1>2, <2>1, Files1
  <2>2. CASE src[cur] # NoFile /\ dst'[cur] = [dst[cur] EXCEPT !.mtime = src[cur].mtime]
    BY <1>2, <1>4, <2>2, StampedIsFile
  <2> QED BY <1>3, <2>1, <2>2
<1>6. ~mixed => src[cur] # NoFile /\ dst[cur].data = src[cur].data
                  /\ src[cur].mtime <= dst[cur].mtime
  BY <1>1 DEF SInv, AtHand
<1>7. ASSUME ~mixed, NEW f \in Files, f = cur PROVE Current(f)'
  <2>1. dst'[cur].mtime \in {dst[cur].mtime, src[cur].mtime}
    BY <1>5
  <2>2. src[cur].mtime \in Nat /\ dst[cur].mtime \in Nat
    BY <1>2, <1>6, <1>7, SyncTypes, SyncConstants, Files1
  <2>3. ~(dst'[cur].mtime < src[cur].mtime)
    BY <1>6, <1>7, <2>1, <2>2
  <2>4. dst'[cur] # NoFile /\ ~NeedsUpdate(Entry(src[cur]), Entry(dst'[cur]))
    BY <1>5, <1>6, <1>7, <2>3 DEF NeedsUpdate, Entry
  <2> QED BY <1>1, <1>7, <2>4 DEF Current
<1>8. \A g \in Files \ {cur} : Current(g)' = Current(g)
  BY <1>1, <1>3 DEF Current
<1>9. Told'
  <2> SUFFICES ASSUME NEW f \in Files \ doubtful', src[f] # NoFile, Current(f)'
               PROVE  dst'[f].data = src[f].data
    BY <1>1 DEF Told
  <2>1. CASE f = cur
    BY <1>1, <1>5, <1>6, <2>1
  <2>2. CASE f # cur
    BY <1>1, <1>3, <1>8, <2>2 DEF SInv, Told, Busy
  <2> QED BY <2>1, <2>2
<1>10. mixed => cur \in touched
  BY DEF SInv, AtHand
<1>11. Planned'
  <2>1. ASSUME NEW f \in Known, f \in Files \ touched, src[f] # NoFile
        PROVE  f \notin toDelete /\ (failed \/ f \in toCopy \union toUpdate \/ Current(f)')
    <3>1. CASE f = cur
      BY <1>2, <1>7, <1>10, <2>1, <3>1, SyncTypes DEF SInv, Planned
    <3>2. CASE f # cur
      BY <1>2, <1>8, <2>1, <3>2 DEF SInv, Planned
    <3> QED BY <3>1, <3>2
  <2>2. ASSUME NEW f \in Known, f \in Files \ touched, src[f] = NoFile
        PROVE  /\ f \notin toCopy \union toUpdate /\ f # NoFile
               /\ opts.mirror => failed \/ f \in toDelete \/ dst'[f] = NoFile \/ f \in dstMissed
    BY <1>2, <1>3, <2>2, SyncTypes DEF SInv, Planned
  <2> QED BY <1>1, <1>2, <2>1, <2>2 DEF SInv, Planned, Known, history
<1> QED BY <1>1, <1>2, <1>9, <1>11 DEF SInv, Times, AtHand, NothingLeft, Clean, Known, history

LEMMA JobKeeps ==
  ASSUME TInv, SInv, Job \/ NoDestination \/ CopyFails
  PROVE  SInv'
<1>1. ASSUME NEW f \in Files, NextFile(f) PROVE SInv'
  <2>1. /\ phase = "copying" /\ cur = NoFile /\ cur' = f /\ step' = "open"
        /\ toCopy' = toCopy \ {f} /\ toUpdate' = toUpdate \ {f}
        /\ UNCHANGED <<clock, src, dst, phase, opts, srcSnap, toDelete, rd, pos, mixed, failed,
                       terminal, history, doubtful>>
    BY <1>1 DEF NextFile, userVars
  <2>2. f \in toCopy \union toUpdate
    BY <1>1 DEF NextFile
  <2>3. ~mixed
    BY <2>1, SyncTypes DEF SInv, AtHand
  <2>4. Told'
    BY <2>1, SyncTypes DEF SInv, Told, Current, Busy
  <2>5. Planned'
    BY <2>1, <2>2, SyncTypes DEF SInv, Planned, Known, history, Current
  <2> QED BY <2>1, <2>3, <2>4, <2>5 DEF SInv, Times, AtHand, NothingLeft, Clean, Known, history
<1>2. ASSUME NEW f \in Files, Delete(f) PROVE SInv'
  <2>1. /\ phase = "copying" /\ cur = NoFile /\ f \in toDelete /\ toDelete' = toDelete \ {f}
        /\ UNCHANGED <<clock, src, phase, opts, srcSnap, toCopy, toUpdate, cur, step, rd, pos,
                       mixed, terminal, history, doubtful>>
        /\ \/ dst' = [dst EXCEPT ![f] = NoFile] /\ failed' = failed
           \/ failed' = TRUE /\ dst' = dst
    BY <1>2 DEF Delete, userVars, copyVars
  <2>2. step = "none"
    BY <2>1, SyncTypes
  <2>3. \A g \in Files \ {f} : dst'[g] = dst[g] /\ Current(g)' = Current(g)
    BY <2>1, SyncTypes DEF Current
  <2>4. Told'
    BY <2>1, <2>3, SyncTypes DEF SInv, Told, Current, Busy
  <2>5. Planned'
    <3>1. \A g \in Known : src[g] # NoFile => g # f
      BY <2>1 DEF SInv, Planned, Known, history
    <3> QED BY <2>1, <2>3, <3>1, SyncTypes DEF SInv, Planned, Known, history
  <2> QED BY <2>1, <2>2, <2>4, <2>5 DEF SInv, Times, AtHand, NothingLeft, Clean, Known, history
<1>3. CASE Verify
  <2>1. CASE FileFails
    BY <1>3, <2>1, FileFailsKeeps DEF Verify
  <2>2. CASE ~FileFails
    BY <1>3, <2>2 DEF Verify, SInv, Times, Told, AtHand, Planned, NothingLeft, Clean, Known, history, Current,
                      Busy, userVars, planVars
  <2> QED BY <2>1, <2>2
<1> QED BY <1>1, <1>2, <1>3, ScanSourceKeeps, ScanDestinationKeeps, ReturnKeeps, FileFailsKeeps,
           OpenKeeps, CopyChunkKeeps, EndOfFileKeeps, StampKeeps DEF Job, CopyFails, CancelCopy

LEMMA SyncInvariant == Spec => []SInv
<1>1. TInv /\ SInv /\ [Next]_vars => SInv'
  <2>1. ASSUME SInv, UNCHANGED vars PROVE SInv'
    BY <2>1 DEF SInv, Times, Told, AtHand, Planned, NothingLeft, Clean, Known, history, Current, Busy, vars,
                userVars, planVars, copyVars
  <2> QED BY <2>1, OutsideKeeps, JobKeeps DEF Next
<1> QED BY InitSInv, TypeInvariant, <1>1, PTL DEF Spec

\* A clean job leaves nothing to do for a second one, whatever was cancelled, killed or
\* changed in between in earlier jobs.
THEOREM CleanJobLeavesNothing == Spec => []NothingLeft
<1>1. SInv => NothingLeft
  BY DEF SInv
<1> QED BY SyncInvariant, <1>1, PTL

\* After a clean job the destination has the contents of the source, but for the files
\* that were changed meanwhile and those length and time cannot tell apart.
THEOREM CleanJobIsUpToDate == Spec => []UpToDate
<1>1. TInv /\ SInv => UpToDate
  <2> SUFFICES ASSUME TInv, SInv, Clean, NEW f \in Known \ doubtful, f \in Files,
                      src[f] # NoFile
               PROVE  dst[f] # NoFile /\ dst[f].data = src[f].data
    BY DEF UpToDate, Known
  <2>1. Current(f)
    BY DEF SInv, NothingLeft, Current
  <2>2. ~Busy(f)
    BY SyncTypes DEF Clean, Busy
  <2> QED BY <2>1, <2>2 DEF SInv, Told, Current
<1> QED BY TypeInvariant, SyncInvariant, <1>1, PTL

\* Only a mirroring job deletes, and only what the source does not have, unless the user
\* changed the file or the walk of the source overlooked it in this very job; and what
\* the source has never had is not written.
THEOREM OnlyExtrasAreDeleted == Spec => OnlyExtrasGo
<1> DEFINE A == \A f \in Files :
             /\ dst[f] # NoFile /\ dst'[f] = NoFile =>
                  opts.mirror /\ (src[f] = NoFile \/ f \in touched \/ f \in srcMissed)
             /\ f \in Known /\ src[f] = NoFile /\ dst[f] # NoFile /\ dst'[f] # NoFile =>
                  dst'[f] = dst[f]
<1>1. TInv /\ TInv' /\ SInv /\ [Next]_vars => [A]_vars
  <2> SUFFICES ASSUME TInv, TInv', SInv, Next PROVE A
    BY DEF vars
  <2>1. CASE UNCHANGED dst
    BY <2>1
  <2>2. CASE Open \/ CopyChunk \/ Stamp
    <3>1. /\ step # "none" /\ cur' \in {cur, NoFile} /\ \A f \in Files \ {cur} : dst'[f] = dst[f]
      BY <2>2, SyncTypes DEF Open, CopyChunk, Stamp
    <3>2. cur \in Known => src[cur] # NoFile
      BY <3>1, SyncTypes DEF SInv, Planned
    <3>3. dst'[cur] # NoFile
      <4>1. CASE Open \/ CopyChunk
        <5>1. step' = "copy" /\ cur' = cur
          BY <4>1 DEF Open, CopyChunk
        <5> QED BY <5>1 DEF TInv
      <4>2. CASE Stamp
        <5>1. \/ dst'[cur] = dst[cur]
              \/ /\ src[cur] \in Stored
                 /\ dst'[cur] = [dst[cur] EXCEPT !.mtime = src[cur].mtime]
          BY <3>1, <4>2, SyncTypes DEF Stamp
        <5>2. dst[cur] \in Stored
          BY <4>2, SyncTypes DEF Stamp
        <5> QED BY <5>1, <5>2, StampedIsFile, Files1, SyncTypes
      <4> QED BY <2>2, <4>1, <4>2
    <3> QED BY <3>1, <3>2, <3>3
  <2>3. ASSUME NEW f \in Files, Delete(f) PROVE A
    <3>1. phase = "copying" /\ f \in toDelete /\ \A g \in Files \ {f} : dst'[g] = dst[g]
      BY <2>3, SyncTypes DEF Delete
    <3>2. dst'[f] \in {dst[f], NoFile}
      BY <2>3, SyncTypes DEF Delete
    <3>3. opts.mirror /\ (src[f] = NoFile \/ f \in touched \/ f \in srcMissed)
      BY <3>1 DEF SInv, Planned, Known
    <3> QED BY <3>1, <3>2, <3>3
  <2> QED BY <2>1, <2>2, <2>3
          DEF Next, Job, User, Save, Remove, Start, Cancel, Crash, Tick, NoDestination, ScanSource,
              ScanDestination, StopOnCancel, Finish, CancelCopy, EndOfFile, Verify, FileFails,
              CopyFails, NextFile
<1> QED BY TypeInvariant, SyncInvariant, <1>1, PTL DEF Spec, OnlyExtrasGo
=============================================================================
