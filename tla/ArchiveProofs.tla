---------------------------- MODULE ArchiveProofs ----------------------------
(***************************************************************************)
(* Proofs about Archive, for any number of files and entries of any        *)
(* length, any number of jobs, cancellations, failures and kills.          *)
(*                                                                         *)
(* The inductive invariant comes in layers, each kept with the help of     *)
(* those before it:                                                        *)
(*   Control, Queue   the tab, its worker and the channel between them     *)
(*   Shelves          what is on the disk, in the unfinished archive and   *)
(*                    in the file that is being extracted                  *)
(*   Extracted        what the destination folder holds                    *)
(*   PackCount        which planned files are packed or counted            *)
(*   ReadCount        which entries are counted or in their place          *)
(*   Told             what is true while an outcome is on its way          *)
(***************************************************************************)
EXTENDS Archive, SelectionLemmas, FiniteSetTheorems

ZipPhases == {"plan", "create", "pack", "copy", "rename"}
UnzipPhases == {"open", "entry", "write"}

Events == [kind : {"FileError", "Finished", "Cancelled"}, sum : Summary]

\* What the tab and its worker know of each other.
Control ==
  /\ job \in {"none", "zip", "unzip"} /\ kind \in {"none", "zip", "unzip"}
  /\ outcome \in {"none", "done", "failed", "cancelled"}
  /\ pc \in ZipPhases \union UnzipPhases \union {"idle"}
  /\ told \in Summary /\ sum \in Summary
  /\ job # "none" => job = kind /\ outcome = "none"
  /\ pc # "idle" => job # "none"
  /\ pc \in ZipPhases => kind = "zip"
  /\ pc \in UnzipPhases => kind = "unzip"

\* The last event of a job ends it and comes when its worker is done.
Queue ==
  /\ events \in Seq(Events)
  /\ job = "none" => events = <<>>
  /\ \A k \in 1..Len(events) :
       events[k].kind # "FileError" => pc = "idle" /\ k = Len(events)
  /\ \A k \in 1..Len(events) : events[k].kind = "Finished" => events[k].sum = sum

-----------------------------------------------------------------------------
(* What the steps of the worker do to the queue. *)

\* The worker goes on: it may have something to report.
GoesOn == pc' # "idle" /\ (events' = events \/ events' = events \o <<Event("FileError")>>)

\* The worker ends, with the sum it has.
Ends ==
  /\ pc' = "idle" /\ sum' = sum
  /\ \/ events' = events \o <<Event("Finished")>>
     \/ events' = events \o <<Event("Cancelled")>>
     \/ events' = events \o Report

\* A worker's step leaves the tab alone, and the worker reports the end of its
\* job exactly when it ends.
LEMMA WorkerReports ==
  ASSUME Worker
  PROVE  /\ TabAside /\ pc # "idle"
         /\ GoesOn \/ Ends
<1> USE DEF TabAside, GoesOn, Ends, Send, Idle
<1>1. CASE PlanZip BY <1>1 DEF PlanZip
<1>2. CASE PlanFails BY <1>2 DEF PlanFails
<1>3. CASE CreatePartial BY <1>3 DEF CreatePartial
<1>4. CASE SkipEntry BY <1>4 DEF SkipEntry
<1>5. CASE BeginEntry BY <1>5 DEF BeginEntry
<1>6. CASE PackChunk BY <1>6 DEF PackChunk
<1>7. CASE EndEntry BY <1>7 DEF EndEntry
<1>8. CASE FinishZip BY <1>8 DEF FinishZip
<1>9. CASE Rename BY <1>9 DEF Rename
<1>10. CASE ZipFails BY <1>10 DEF ZipFails
<1>11. CASE StopZip BY <1>11 DEF StopZip
<1>12. CASE OpenZip BY <1>12 DEF OpenZip
<1>13. CASE ExtractFails BY <1>13 DEF ExtractFails, AtEntry
<1>14. CASE BadEntry BY <1>14 DEF BadEntry, AtEntry
<1>15. CASE SkipExisting BY <1>15 DEF SkipExisting, AtEntry
<1>16. CASE CreateOut BY <1>16 DEF CreateOut, AtEntry
<1>17. CASE CreateFails BY <1>17 DEF CreateFails, AtEntry
<1>18. CASE WriteChunk BY <1>18 DEF WriteChunk
<1>19. CASE EndFile BY <1>19 DEF EndFile
<1>20. CASE EntryFails BY <1>20 DEF EntryFails
<1>21. CASE StopAtEntry BY <1>21 DEF StopAtEntry
<1>22. CASE StopInFile BY <1>22 DEF StopInFile
<1>23. CASE FinishExtract BY <1>23 DEF FinishExtract
<1>24. QED
  BY <1>1, <1>2, <1>3, <1>4, <1>5, <1>6, <1>7, <1>8, <1>9, <1>10, <1>11, <1>12, <1>13, <1>14,
     <1>15, <1>16, <1>17, <1>18, <1>19, <1>20, <1>21, <1>22, <1>23
     DEF Worker, ZipStep, UnzipStep

LEMMA CountedIsSummary ==
  ASSUME sum \in Summary, NEW field \in {"files", "skipped", "failed"}, Counted(field)
  PROVE  sum' \in Summary
BY DEF Summary, Counted

LEMMA WorkerPhases ==
  ASSUME Worker, Control
  PROVE  /\ sum' \in Summary
         /\ pc \in ZipPhases => pc' \in ZipPhases \union {"idle"}
         /\ pc \in UnzipPhases => pc' \in UnzipPhases \union {"idle"}
<1>0. sum \in Summary /\ \A field \in {"files", "skipped", "failed"} : Counted(field) => sum' \in Summary
  BY CountedIsSummary DEF Control
<1> USE <1>0 DEF ZipPhases, UnzipPhases, Idle
<1>1. CASE PlanZip BY <1>1 DEF PlanZip
<1>2. CASE PlanFails BY <1>2 DEF PlanFails
<1>3. CASE CreatePartial BY <1>3 DEF CreatePartial
<1>4. CASE SkipEntry BY <1>4 DEF SkipEntry
<1>5. CASE BeginEntry BY <1>5 DEF BeginEntry
<1>6. CASE PackChunk BY <1>6 DEF PackChunk
<1>7. CASE EndEntry BY <1>7 DEF EndEntry
<1>8. CASE FinishZip BY <1>8 DEF FinishZip
<1>9. CASE Rename BY <1>9 DEF Rename
<1>10. CASE ZipFails BY <1>10 DEF ZipFails
<1>11. CASE StopZip BY <1>11 DEF StopZip
<1>12. CASE OpenZip BY <1>12 DEF OpenZip
<1>13. CASE ExtractFails BY <1>13 DEF ExtractFails, AtEntry
<1>14. CASE BadEntry BY <1>14 DEF BadEntry, AtEntry
<1>15. CASE SkipExisting BY <1>15 DEF SkipExisting, AtEntry
<1>16. CASE CreateOut BY <1>16 DEF CreateOut, AtEntry
<1>17. CASE CreateFails BY <1>17 DEF CreateFails, AtEntry
<1>18. CASE WriteChunk BY <1>18 DEF WriteChunk
<1>19. CASE EndFile BY <1>19 DEF EndFile
<1>20. CASE EntryFails BY <1>20 DEF EntryFails
<1>21. CASE StopAtEntry BY <1>21 DEF StopAtEntry
<1>22. CASE StopInFile BY <1>22 DEF StopInFile
<1>23. CASE FinishExtract BY <1>23 DEF FinishExtract
<1>24. QED
  BY <1>1, <1>2, <1>3, <1>4, <1>5, <1>6, <1>7, <1>8, <1>9, <1>10, <1>11, <1>12, <1>13, <1>14,
     <1>15, <1>16, <1>17, <1>18, <1>19, <1>20, <1>21, <1>22, <1>23
     DEF Worker, ZipStep, UnzipStep

\* What the worker appends: its last event is the only one that ends the job.
LEMMA ReportsAppended ==
  ASSUME NEW es, Control,
         \/ es = <<Event("FileError")>>
         \/ es = <<Event("Finished")>>
         \/ es = <<Event("Cancelled")>>
         \/ es = Report
  PROVE  /\ es \in Seq(Events)
         /\ \A k \in 1..Len(es) : es[k].sum = sum
         /\ \A k \in 1..Len(es) : es[k].kind # "FileError" => k = Len(es)
         /\ es = <<Event("FileError")>> => \A k \in 1..Len(es) : es[k].kind = "FileError"
<1>1. \A k \in {"FileError", "Finished", "Cancelled"} : Event(k) \in Events /\ Event(k).sum = sum
                                                        /\ Event(k).kind = k
  BY DEF Event, Events, Control
<1>2. CASE es = Report
  BY <1>1, <1>2 DEF Report
<1>3. CASE es = <<Event("FileError")>>
  BY <1>1, <1>3
<1>4. CASE es = <<Event("Finished")>> \/ es = <<Event("Cancelled")>>
  <2>1. PICK k \in {"Finished", "Cancelled"} : es = <<Event(k)>>
    BY <1>4
  <2>2. Event(k) \in Events /\ Event(k).sum = sum /\ Event(k) # Event("FileError")
    BY <1>1
  <2>3. es \in Seq(Events) /\ Len(es) = 1 /\ es[1] = Event(k)
    BY <2>1, <2>2
  <2>4. QED
    BY <2>2, <2>3
<1>5. QED
  BY <1>2, <1>3, <1>4

\* The queue stays one that the tab understands when the worker makes a step.
LEMMA WorkerKeepsQueue ==
  ASSUME Worker, Control, Queue
  PROVE  Queue'
<1>1. TabAside /\ pc # "idle" /\ job # "none" /\ (GoesOn \/ Ends)
  BY WorkerReports DEF Control
<1>2. job' = job /\ \A k \in 1..Len(events) : events[k].kind = "FileError"
  BY <1>1 DEF Queue, TabAside, tabVars
<1>3. CASE events' = events
  BY <1>1, <1>2, <1>3 DEF Queue, GoesOn, Ends, Report
<1>4. ASSUME NEW es,
             \/ es = <<Event("FileError")>>
             \/ es = <<Event("Finished")>>
             \/ es = <<Event("Cancelled")>>
             \/ es = Report,
             events' = events \o es,
             es = <<Event("FileError")>> \/ (pc' = "idle" /\ sum' = sum)
      PROVE  Queue'
  <2>1. /\ es \in Seq(Events)
        /\ \A k \in 1..Len(es) : es[k].sum = sum
        /\ \A k \in 1..Len(es) : es[k].kind # "FileError" => k = Len(es)
        /\ es = <<Event("FileError")>> => \A k \in 1..Len(es) : es[k].kind = "FileError"
    BY <1>4, ReportsAppended
  <2>2. /\ events' \in Seq(Events) /\ Len(events') = Len(events) + Len(es)
        /\ Len(events) \in Nat /\ Len(es) \in Nat
        /\ \A k \in 1..Len(events') :
             events'[k] = IF k <= Len(events) THEN events[k] ELSE es[k - Len(events)]
    BY <1>4, <2>1, ConcatProperties, LenProperties DEF Queue
  <2>3. ASSUME NEW k \in 1..Len(events'), events'[k].kind # "FileError"
        PROVE  pc' = "idle" /\ k = Len(events') /\ events'[k].sum = sum'
    <3>1. k > Len(events) /\ events'[k] = es[k - Len(events)] /\ k - Len(events) \in 1..Len(es)
      BY <1>2, <2>2, <2>3
    <3>2. k - Len(events) = Len(es) /\ es # <<Event("FileError")>>
      BY <2>1, <2>3, <3>1
    <3>3. pc' = "idle" /\ sum' = sum /\ k = Len(events')
      BY <1>4, <2>2, <3>2
    <3>4. QED
      BY <2>1, <3>1, <3>3
  <2>4. QED
    BY <1>1, <1>2, <2>2, <2>3 DEF Queue
<1>5. QED
  BY <1>1, <1>3, <1>4 DEF GoesOn, Ends

-----------------------------------------------------------------------------
(* The tab and the queue. *)

StartZip == \E given \in Sources : Start("zip", FALSE, given)
StartUnzip == \E o \in BOOLEAN : Start("unzip", o, <<>>)

\* The steps there are, seen from the tab.
LEMMA NextSteps ==
  Next => PickZip \/ Cancel \/ Poll \/ Worker \/ Crash \/ StartZip \/ StartUnzip
BY DEF Next, Start, StartZip, StartUnzip

LEMMA NoEvents == <<>> \in Seq(Events) /\ Len(<<>>) = 0
OBVIOUS

LEMMA ZeroIsSummary == ZeroSum \in Summary
BY DEF ZeroSum, Summary

LEMMA EmptyQueue ==
  /\ events = <<>> => Queue
  /\ events' = <<>> => Queue'
<1>1. ASSUME events = <<>> PROVE Queue
  <2>1. events \in Seq(Events) /\ 1..Len(events) = {}
    BY <1>1, NoEvents
  <2>2. QED
    BY <1>1, <2>1, Zenon DEF Queue
<1>2. ASSUME events' = <<>> PROVE Queue'
  <2>1. events' \in Seq(Events) /\ 1..Len(events') = {}
    BY <1>2, NoEvents
  <2>2. QED
    BY <1>2, <2>1, Zenon DEF Queue
<1>3. QED
  BY <1>1, <1>2

LEMMA ControlInit == Init => Control /\ Queue
BY EmptyQueue, ZeroIsSummary DEF Init, Control, ZipPhases, UnzipPhases

\* A finished job's sum is what the tab shows.
LEMMA PollFirst ==
  ASSUME Queue, Poll
  PROVE  /\ job # "none" /\ UNCHANGED <<disk, kind, over, workVars, histVars, runs>>
         /\ Head(events) \in Events /\ events # <<>> /\ Head(events) = events[1]
         /\ 1 \in 1..Len(events)
         /\ \/ PollError /\ Head(events).kind = "FileError"
            \/ PollFinished /\ pc = "idle" /\ Head(events).kind = "Finished"
            \/ PollCancelled /\ pc = "idle" /\ Head(events).kind = "Cancelled"
<1>1. events # <<>> /\ events \in Seq(Events)
  BY DEF Queue, Poll, PollError, PollFinished, PollCancelled
<1>2. Head(events) \in Events /\ Head(events) = events[1] /\ 1 \in 1..Len(events)
  BY <1>1
<1>3. job # "none" /\ UNCHANGED <<disk, kind, over, workVars, histVars, runs>>
  BY DEF Poll, PollError, PollFinished, PollCancelled, workVars, histVars
<1>4. Head(events).kind # "FileError" => pc = "idle"
  BY <1>2 DEF Queue
<1>5. QED
  BY <1>1, <1>2, <1>3, <1>4 DEF Poll, PollError, PollFinished, PollCancelled

LEMMA PollKeepsQueue ==
  ASSUME Queue, Control, Poll
  PROVE  Queue'
<1>0. UNCHANGED <<pc, sum, job>> \/ job' = "none"
  BY PollFirst DEF workVars, PollError, PollFinished, PollCancelled
<1>1. CASE PollError
  <2>1. events \in Seq(Events) /\ events # <<>> /\ events' = Tail(events) /\ UNCHANGED <<pc, sum, job>>
        /\ job # "none"
    BY <1>1 DEF PollError, Queue, workVars
  <2>2. /\ events' \in Seq(Events) /\ Len(events') = Len(events) - 1 /\ Len(events) \in Nat
        /\ \A k \in 1..Len(events') : events'[k] = events[k + 1]
    BY <2>1
  <2>3. ASSUME NEW k \in 1..Len(events')
        PROVE  /\ events'[k].kind # "FileError" => pc' = "idle" /\ k = Len(events')
               /\ events'[k].kind = "Finished" => events'[k].sum = sum'
    <3>1. k + 1 \in 1..Len(events) /\ events'[k] = events[k + 1]
      BY <2>2
    <3>2. events[k + 1].kind = "Finished" => events[k + 1].sum = sum
      BY <3>1, Zenon DEF Queue
    <3>3. events[k + 1].kind # "FileError" => pc = "idle" /\ k + 1 = Len(events)
      BY <3>1 DEF Queue
    <3>4. pc' = pc /\ sum' = sum
      BY <2>1
    <3>5. events'[k].kind = "Finished" => events'[k].sum = sum'
      BY <3>1, <3>2, <3>4, Zenon
    <3>6. k + 1 = Len(events) => k = Len(events')
      BY <2>2
    <3>7. events'[k].kind # "FileError" => pc' = "idle" /\ k = Len(events')
      BY <3>1, <3>3, <3>4, <3>6, Zenon
    <3>8. QED
      BY <3>5, <3>7
  <2>4. QED
    BY <2>1, <2>2, <2>3 DEF Queue
<1>2. CASE PollFinished \/ PollCancelled
  BY <1>2, EmptyQueue DEF PollFinished, PollCancelled
<1>3. QED
  BY <1>1, <1>2, PollFirst

LEMMA PollKeepsControl ==
  ASSUME Queue, Control, Poll
  PROVE  Control'
<1>1. CASE PollError
  BY <1>1 DEF PollError, Control, workVars
<1>2. CASE PollFinished /\ pc = "idle"
  <2>1. Head(events).sum \in Summary
    BY PollFirst DEF Events
  <2>2. QED
    BY <1>2, <2>1 DEF PollFinished, Control, workVars, ZipPhases, UnzipPhases
<1>3. CASE PollCancelled /\ pc = "idle"
  BY <1>3 DEF PollCancelled, Control, workVars, StopOutcome, ZipPhases, UnzipPhases
<1>4. QED
  BY <1>1, <1>2, <1>3, PollFirst

LEMMA WorkerKeepsControl ==
  ASSUME Control, Worker
  PROVE  Control'
<1>1. UNCHANGED <<job, kind, outcome, told>> /\ pc # "idle"
  BY WorkerReports DEF TabAside, tabVars
<1>2. /\ sum' \in Summary
      /\ pc \in ZipPhases => pc' \in ZipPhases \union {"idle"}
      /\ pc \in UnzipPhases => pc' \in UnzipPhases \union {"idle"}
  BY WorkerPhases
<1>3. QED
  BY <1>1, <1>2 DEF Control, ZipPhases, UnzipPhases

LEMMA ControlKept ==
  ASSUME Control, Queue, [Next]_vars
  PROVE  Control' /\ Queue'
<1>1. CASE PickZip
  BY <1>1 DEF PickZip, Control, Queue, workVars
<1>2. CASE Cancel
  BY <1>2 DEF Cancel, Control, Queue, workVars
<1>3. CASE Poll
  BY <1>3, PollKeepsQueue, PollKeepsControl
<1>4. CASE Worker
  BY <1>4, WorkerKeepsQueue, WorkerKeepsControl
<1>5. CASE Crash
  BY <1>5, EmptyQueue, ZeroIsSummary DEF Crash, Idle, Control, ZipPhases, UnzipPhases
<1>6. CASE StartZip
  BY <1>6, EmptyQueue, ZeroIsSummary DEF StartZip, Start, Control, ZipPhases, UnzipPhases
<1>7. CASE StartUnzip
  BY <1>7, EmptyQueue, ZeroIsSummary DEF StartUnzip, Start, Control, ZipPhases, UnzipPhases
<1>8. CASE UNCHANGED vars
  BY <1>8 DEF vars, tabVars, workVars, Control, Queue
<1>9. QED
  BY <1>1, <1>2, <1>3, <1>4, <1>5, <1>6, <1>7, <1>8, NextSteps

\* The tab and its worker agree on the job there is, and the queue ends with
\* the one event that says how it went.
THEOREM JobsEndOnce == Spec => [](Control /\ Queue)
BY ControlInit, ControlKept, PTL DEF Spec

-----------------------------------------------------------------------------
(* The disk. *)

Disks ==
  /\ disk \in [Paths -> File \union {NoFile}]
  /\ before \in [Paths -> File \union {NoFile}]
  /\ toc \in Seq(Entry) /\ taken \in Nat /\ torn \subseteq Outs

\* The files to be packed stay what they are, and the archive is readable.
Originals ==
  /\ \A p \in Files : disk[p] = Plain(Whole(p))
  /\ disk[Dest] \in Found \/ WholeArchive(disk[Dest])

Packed(file, e) == e.name \in Files /\ HasEntry(file, e)

\* The entry that is being packed ends where the archive ends for now.
Current(file, e) ==
  /\ e.name = cur /\ e.len = taken
  /\ e.from \in Nat \ {0} /\ e.from + taken = Len(file.bytes) + 1
  /\ \A k \in 1..taken : file.bytes[e.from + k - 1] = <<cur, k>>

\* What is packed so far is whole, but for the entry that is being packed.
Packing ==
  /\ pc = "plan" => todo \in Seq(Files \union {Dest})
  /\ pc \in {"create", "pack", "copy", "rename"} => todo \in Seq(Files)
  /\ pc \in {"plan", "create"} => toc = <<>>
  /\ pc \in {"pack", "copy", "rename"} => disk[Partial] # NoFile
  /\ pc \in {"pack", "rename"} => \A k \in 1..Len(toc) : Packed(disk[Partial], toc[k])
  /\ pc = "copy" =>
       /\ cur \in Files /\ taken <= Length[cur] /\ Len(toc) # 0
       /\ \A k \in 1..Len(toc) - 1 : Packed(disk[Partial], toc[k])
       /\ Current(disk[Partial], toc[Len(toc)])
  /\ pc = "rename" => disk[Partial].toc = toc

\* The first n chunks of what a name stands for.
Stretch(name, n) == [k \in 1..n |-> <<name, k>>]

\* What is extracted are entries of the archive.
Reading ==
  /\ pc \in {"entry", "write"} =>
       /\ IsArchive(disk[Dest])
       /\ todo \in Seq(Entry) /\ \A k \in 1..Len(todo) : todo[k] \in Range(disk[Dest].toc)
  /\ pc = "write" =>
       /\ cur \in Entry /\ cur \in Range(disk[Dest].toc) /\ Safe(cur) /\ taken <= cur.len
       /\ disk[OutOf(cur)] = Plain(Stretch(cur.name, taken))

Shelves == Disks /\ Originals /\ Packing /\ Reading

LEMMA PathKinds ==
  /\ Dest \in Paths /\ Partial \in Paths /\ Dest # Partial
  /\ Files \subseteq Paths /\ Outs \subseteq Paths
  /\ Dest \notin Files /\ Partial \notin Files /\ Dest \notin Outs /\ Partial \notin Outs
  /\ Files \intersect Outs = {} /\ Files \subseteq Names /\ Building = Partial
BY ArchiveConstants DEF Paths, Building

LEMMA WholeLength ==
  ASSUME NEW n \in Names
  PROVE  /\ Length[n] \in Nat /\ Whole(n) \in Seq(Atoms) /\ Len(Whole(n)) = Length[n]
         /\ \A k \in 1..Length[n] : Whole(n)[k] = <<n, k>>
<1>1. Length[n] \in Nat
  BY ArchiveConstants
<1>2. \A k \in 1..Length[n] : <<n, k>> \in Atoms
  BY <1>1 DEF Atoms
<1>3. Whole(n) \in [1..Length[n] -> Atoms]
  BY <1>2 DEF Whole
<1>4. QED
  BY <1>1, <1>3 DEF Whole

LEMMA PlainIsFile ==
  ASSUME NEW bytes \in Seq(Atoms)
  PROVE  /\ Plain(bytes) \in File /\ Plain(bytes).bytes = bytes /\ Plain(bytes).toc = NoToc
         /\ Plain(bytes) # NoFile
BY ArchiveConstants DEF Plain, File

LEMMA NothingIsFile == Plain(<<>>) \in File /\ Plain(<<>>).bytes = <<>>
<1>1. <<>> \in Seq(Atoms)
  OBVIOUS
<1>2. QED
  BY <1>1, PlainIsFile

\* A file with another part.
LEMMA FileParts ==
  ASSUME NEW file \in File, NEW part
  PROVE  /\ [file EXCEPT !.bytes = part] = [bytes |-> part, toc |-> file.toc]
         /\ [file EXCEPT !.toc = part] = [bytes |-> file.bytes, toc |-> part]
         /\ file.bytes \in Seq(Atoms) /\ file.toc \in Seq(Entry) \union {NoToc}
<1>0. file.bytes \in Seq(Atoms) /\ file.toc \in Seq(Entry) \union {NoToc}
  BY DEF File
<1>1. PICK B, T : file \in [bytes : B, toc : T]
  BY DEF File
<1>2. QED
  BY <1>0, <1>1

LEMMA EntryParts ==
  ASSUME NEW e \in Entry, NEW n \in Nat
  PROVE  /\ [e EXCEPT !.len = n] \in Entry
         /\ [e EXCEPT !.len = n].name = e.name /\ [e EXCEPT !.len = n].len = n
         /\ [e EXCEPT !.len = n].from = e.from
BY DEF Entry

\* What a write to a file that is there does.
LEMMA Written ==
  ASSUME disk \in [Paths -> File \union {NoFile}],
         NEW p \in Paths, disk[p] # NoFile, NEW atom \in Atoms, Write(p, atom)
  PROVE  /\ disk' \in [Paths -> File \union {NoFile}]
         /\ disk'[p] = [bytes |-> Append(disk[p].bytes, atom), toc |-> disk[p].toc]
         /\ disk'[p].bytes = Append(disk[p].bytes, atom) /\ disk'[p].toc = disk[p].toc
         /\ disk'[p] \in File
         /\ \A q \in Paths \ {p} : disk'[q] = disk[q]
<1>1. disk[p] \in File /\ disk[p].bytes \in Seq(Atoms)
  BY DEF File
<1>2. [bytes |-> Append(disk[p].bytes, atom), toc |-> disk[p].toc] \in File
  BY <1>1 DEF File
<1>3. disk' = [disk EXCEPT ![p] = [bytes |-> Append(disk[p].bytes, atom), toc |-> disk[p].toc]]
  <2>1. disk' = [disk EXCEPT ![p] = [disk[p] EXCEPT !.bytes = Append(disk[p].bytes, atom)]]
    BY Zenon DEF Write
  <2>2. [disk[p] EXCEPT !.bytes = Append(disk[p].bytes, atom)]
          = [bytes |-> Append(disk[p].bytes, atom), toc |-> disk[p].toc]
    BY <1>1, FileParts
  <2>3. QED
    BY <2>1, <2>2
<1>4. QED
  BY <1>2, <1>3

\* An entry that is whole stays whole as the archive grows.
LEMMA GrowingKeepsEntries ==
  ASSUME NEW file \in File, NEW grown \in File, NEW atom \in Atoms, NEW e \in Entry,
         grown.bytes = Append(file.bytes, atom), HasEntry(file, e)
  PROVE  HasEntry(grown, e)
<1>1. /\ file.bytes \in Seq(Atoms) /\ Len(file.bytes) \in Nat
      /\ e.from \in Nat \ {0} /\ e.len \in Nat /\ e.from + e.len <= Len(file.bytes) + 1
  BY DEF File, Entry, HasEntry
<1>2. /\ Len(grown.bytes) = Len(file.bytes) + 1
      /\ \A k \in 1..Len(file.bytes) : grown.bytes[k] = file.bytes[k]
  BY <1>1
<1>3. ASSUME NEW k \in 1..e.len PROVE grown.bytes[e.from + k - 1] = file.bytes[e.from + k - 1]
  <2>1. e.from + k - 1 \in 1..Len(file.bytes)
    BY <1>1
  <2>2. QED
    BY <1>2, <2>1
<1>4. Data(grown, e) = Data(file, e)
  BY <1>3 DEF Data
<1>5. e.from + e.len <= Len(grown.bytes) + 1
  BY <1>1, <1>2
<1>6. QED
  BY <1>4, <1>5 DEF HasEntry

\* An entry is as its bytes are.
LEMMA SameBytesSameEntry ==
  ASSUME NEW file, NEW other, NEW e, file.bytes = other.bytes, HasEntry(file, e)
  PROVE  HasEntry(other, e)
BY DEF HasEntry, Data

\* Whatever is at the archive's name can be read.
LEMMA ArchiveIsSound ==
  ASSUME Disks, Originals, IsArchive(disk[Dest])
  PROVE  /\ disk[Dest].toc \in Seq(Entry)
         /\ \A e \in Range(disk[Dest].toc) : e \in Entry /\ HasEntry(disk[Dest], e)
<1>1. disk[Dest] \in File /\ disk[Dest].toc \in Seq(Entry)
  BY PathKinds DEF Disks, IsArchive, File
<1>2. \A e \in Range(disk[Dest].toc) : e \in Entry
  BY <1>1 DEF Range
<1>3. \A e \in Range(disk[Dest].toc) : HasEntry(disk[Dest], e)
  BY FoundIsSound DEF Originals, WholeArchive, IsArchive
<1>4. QED
  BY <1>1, <1>2, <1>3

LEMMA ShelvesInit == Init => Shelves
<1> SUFFICES ASSUME Init PROVE Shelves
  OBVIOUS
<1>1. /\ disk \in [Paths -> {Plain(Whole(p)) : p \in Files} \union Found \union {NoFile, Plain(<<Old>>)}]
      /\ \A p \in Files : disk[p] = Plain(Whole(p))
      /\ disk[Dest] \in Found /\ disk[Partial] = NoFile
      /\ \A o \in Outs : disk[o] \in {NoFile, Plain(<<Old>>)}
      /\ before = disk /\ toc = <<>> /\ taken = 0 /\ torn = {} /\ pc = "idle"
  BY DEF Init
<1>2. \A p \in Files : Plain(Whole(p)) \in File
  BY WholeLength, PlainIsFile, PathKinds
<1>3. Found \subseteq File \union {NoFile}
  BY FoundIsSound
<1>4. Plain(<<Old>>) \in File
  <2>1. <<Old>> \in Seq(Atoms)
    BY DEF Atoms
  <2>2. QED
    BY <2>1, PlainIsFile
<1>5. Disks
  <2>1. disk \in [Paths -> File \union {NoFile}]
    BY <1>1, <1>2, <1>3, <1>4
  <2>2. <<>> \in Seq(Entry)
    OBVIOUS
  <2>3. QED
    BY <1>1, <2>1, <2>2 DEF Disks
<1>6. QED
  BY <1>1, <1>5 DEF Shelves, Originals, Packing, Reading

\* Steps that touch neither the disk nor what the worker holds.
LEMMA AsideKeepsShelves ==
  ASSUME Shelves, UNCHANGED <<disk, before, pc, todo, cur, taken, toc, torn>>
  PROVE  Shelves'
<1>1. Disks' /\ Originals'
  BY DEF Shelves, Disks, Originals
<1>2. Packing'
  BY DEF Shelves, Packing, Current
<1>3. Reading'
  BY DEF Shelves, Reading
<1>4. QED
  BY <1>1, <1>2, <1>3 DEF Shelves

LEMMA OriginalsStay ==
  ASSUME Originals, \A p \in Files \union {Dest} : disk'[p] = disk[p]
  PROVE  Originals'
BY DEF Originals

\* The end of a job leaves nothing to show but the disk.
LEMMA IdleKeepsShelves ==
  ASSUME Idle, before' = before, torn' \subseteq Outs, Disks,
         disk' \in [Paths -> File \union {NoFile}], Originals'
  PROVE  Shelves'
<1>1. pc' = "idle" /\ toc' = <<>> /\ taken' = 0 /\ <<>> \in Seq(Entry)
  BY DEF Idle
<1>2. QED
  BY <1>1 DEF Shelves, Disks, Packing, Reading

\* remove_file, whether or not it works, of anything but a file to be packed
\* and the archive.
LEMMA RemovedIsOff ==
  ASSUME Disks, Originals, NEW p \in Paths \ (Files \union {Dest}), TryRemove(p)
  PROVE  /\ disk' \in [Paths -> File \union {NoFile}] /\ Originals'
         /\ \A q \in Paths \ {p} : disk'[q] = disk[q]
<1>1. /\ disk' \in [Paths -> File \union {NoFile}]
      /\ \A q \in Paths \ {p} : disk'[q] = disk[q]
  BY DEF Disks, TryRemove
<1>2. QED
  BY <1>1, OriginalsStay, PathKinds

LEMMA PlanZipKeepsShelves ==
  ASSUME Shelves, PlanZip
  PROVE  Shelves'
<1> DEFINE All == Files \union {Dest, Partial}
<1> DEFINE There == Only(Walked, {p \in Paths : Exists(p)})
<1>0. Disks /\ Originals /\ pc = "plan" /\ pc' = "create" /\ todo' = Planned /\ todo \in Seq(Files \union {Dest})
      /\ UNCHANGED <<disk, before, cur, taken, toc, torn>>
  BY DEF PlanZip, Shelves, Packing
<1>1. There \in Seq(Files \union {Dest})
  <2>1. Walked \in Seq(All) /\ Partial \notin Range(Walked)
    BY ArchiveConstants, PartialIsNotPacked
  <2>2. Walked \in Seq(Files \union {Dest})
    BY <2>1 DEF Range
  <2>3. QED
    BY <2>2, OnlyIsDrawn
<1>2. todo \o There \in Seq(Files \union {Dest})
  BY <1>0, <1>1
<1>3. /\ Planned \in Seq(Files \union {Dest})
      /\ Drawn(Planned, todo \o There, {p \in Paths : ~IsTheArchive(p)})
  BY <1>2, OnlyIsDrawn DEF Planned
<1>4. Planned \in Seq(Files)
  BY <1>3 DEF Drawn, IsTheArchive
<1>5. Disks' /\ Originals'
  BY <1>0 DEF Disks, Originals
<1>6. QED
  BY <1>0, <1>4, <1>5 DEF Shelves, Packing, Reading

LEMMA CreatePartialKeepsShelves ==
  ASSUME Shelves, CreatePartial
  PROVE  Shelves'
<1>1. /\ pc = "create" /\ pc' = "pack" /\ UNCHANGED <<before, todo, cur, taken, toc>>
      /\ disk' = [disk EXCEPT ![Partial] = Plain(<<>>)] /\ torn' = torn \ {Partial}
  BY PathKinds DEF CreatePartial
<1>2. /\ disk' \in [Paths -> File \union {NoFile}] /\ disk'[Partial] # NoFile
      /\ \A p \in Paths \ {Partial} : disk'[p] = disk[p]
  BY <1>1, PathKinds, NothingIsFile, PlainIsFile, ArchiveConstants DEF Shelves, Disks
<1>3. Disks' /\ Originals'
  BY <1>1, <1>2, OriginalsStay, PathKinds DEF Shelves, Disks
<1>4. toc' = <<>> /\ Len(toc') = 0
  BY <1>1 DEF Shelves, Packing
<1>5. QED
  BY <1>1, <1>2, <1>3, <1>4 DEF Shelves, Packing, Reading

\* While an archive is packed, only the unfinished one changes.
LEMMA PackedBesides ==
  ASSUME Shelves, NEW atom \in Atoms, Write(Building, atom), pc \in {"pack", "copy"}
  PROVE  /\ disk' \in [Paths -> File \union {NoFile}]
         /\ Originals'
         /\ disk[Partial] \in File /\ disk'[Partial] \in File /\ disk'[Partial] # NoFile
         /\ disk[Partial].bytes \in Seq(Atoms)
         /\ disk'[Partial].bytes = Append(disk[Partial].bytes, atom)
         /\ \A e \in Entry : Packed(disk[Partial], e) => Packed(disk'[Partial], e)
<1>1. disk \in [Paths -> File \union {NoFile}] /\ disk[Partial] # NoFile
  BY DEF Shelves, Disks, Packing
<1>2. disk[Partial] \in File /\ disk[Partial].bytes \in Seq(Atoms)
  <2>1. disk[Partial] \in File
    BY <1>1, PathKinds
  <2>2. QED
    BY <2>1, FileParts
<1>3. /\ disk' \in [Paths -> File \union {NoFile}] /\ disk'[Partial] \in File
      /\ disk'[Partial].bytes = Append(disk[Partial].bytes, atom)
      /\ \A q \in Paths \ {Partial} : disk'[q] = disk[q]
  <2>1. Write(Partial, atom)
    BY DEF Building
  <2>2. QED
    BY <1>1, <2>1, Written, PathKinds
<1>4. Originals'
  BY <1>3, OriginalsStay, PathKinds DEF Shelves
<1>5. disk'[Partial] # NoFile
  BY <1>3, ArchiveConstants
<1>6. \A e \in Entry : Packed(disk[Partial], e) => Packed(disk'[Partial], e)
  BY <1>2, <1>3, GrowingKeepsEntries DEF Packed
<1>7. QED
  BY <1>2, <1>3, <1>4, <1>5, <1>6

LEMMA BeginEntryKeepsShelves ==
  ASSUME Shelves, BeginEntry
  PROVE  Shelves'
<1> DEFINE p == Head(todo)
<1> DEFINE e == [name |-> p, from |-> Len(disk[Partial].bytes) + 2, len |-> 0]
<1>1. /\ pc = "pack" /\ pc' = "copy" /\ todo # <<>> /\ cur' = p /\ todo' = Tail(todo) /\ taken' = 0
      /\ toc' = Append(toc, e) /\ Write(Building, <<p, 0>>)
      /\ UNCHANGED <<before, torn>>
  BY PathKinds DEF BeginEntry, histVars
<1>2. /\ todo \in Seq(Files) /\ p \in Files /\ p \in Names /\ todo' \in Seq(Files)
  BY <1>1, PathKinds DEF Shelves, Packing
<1>3. <<p, 0>> \in Atoms
  BY <1>2 DEF Atoms
<1> HIDE DEF p
<1>4. /\ disk' \in [Paths -> File \union {NoFile}] /\ Originals'
      /\ disk[Partial] \in File /\ disk'[Partial] \in File /\ disk'[Partial] # NoFile
      /\ disk[Partial].bytes \in Seq(Atoms)
      /\ disk'[Partial].bytes = Append(disk[Partial].bytes, <<p, 0>>)
      /\ \A x \in Entry : Packed(disk[Partial], x) => Packed(disk'[Partial], x)
  BY <1>1, <1>3, PackedBesides
<1>5. /\ Len(disk[Partial].bytes) \in Nat
      /\ Len(disk'[Partial].bytes) = Len(disk[Partial].bytes) + 1
  BY <1>4
<1>6. e \in Entry
  BY <1>2, <1>5 DEF Entry
<1>7. /\ toc \in Seq(Entry) /\ toc' \in Seq(Entry) /\ Len(toc') = Len(toc) + 1 /\ Len(toc) \in Nat
      /\ toc'[Len(toc')] = e /\ \A k \in 1..Len(toc) : toc[k] \in Entry /\ toc'[k] = toc[k]
  BY <1>1, <1>6 DEF Shelves, Disks
<1>8. \A k \in 1..Len(toc') - 1 : Packed(disk'[Partial], toc'[k])
  BY <1>1, <1>4, <1>7 DEF Shelves, Packing
<1>9. Current(disk[Partial], toc[Len(toc)])'
  <2>1. /\ toc'[Len(toc')] = e /\ e.name = cur' /\ e.len = taken' /\ taken' = 0
        /\ e.from = Len(disk[Partial].bytes) + 2
    BY <1>1, <1>7
  <2>2. e.from \in Nat \ {0} /\ e.from + taken' = Len(disk'[Partial].bytes) + 1
    BY <1>5, <2>1
  <2>3. QED
    BY <2>1, <2>2 DEF Current
<1>10. Disks'
  BY <1>1, <1>4, <1>7 DEF Shelves, Disks
<1> HIDE DEF e
<1>11. taken' <= Length[cur']
  BY <1>1, <1>2, WholeLength
<1>12. Packing'
  BY <1>1, <1>2, <1>4, <1>7, <1>8, <1>9, <1>11 DEF Packing, Current
<1>13. QED
  BY <1>1, <1>4, <1>10, <1>12 DEF Shelves, Reading

LEMMA SkipEntryKeepsShelves ==
  ASSUME Shelves, SkipEntry
  PROVE  Shelves'
<1>1. /\ pc = "pack" /\ pc' = "pack" /\ todo # <<>> /\ todo' = Tail(todo)
      /\ UNCHANGED <<disk, before, cur, taken, toc, torn>>
  BY DEF SkipEntry, histVars
<1>2. todo' \in Seq(Files)
  BY <1>1 DEF Shelves, Packing
<1>3. Disks' /\ Originals'
  BY <1>1 DEF Shelves, Disks, Originals
<1>4. QED
  BY <1>1, <1>2, <1>3 DEF Shelves, Packing, Reading

LEMMA PackChunkKeepsShelves ==
  ASSUME Shelves, PackChunk
  PROVE  Shelves'
<1> DEFINE m == Len(toc)
<1> DEFINE last == toc[m]
<1> DEFINE n == Len(disk[Partial].bytes)
<1>1. /\ pc = "copy" /\ pc' = "copy" /\ taken' = taken + 1 /\ taken < Len(disk[cur].bytes)
      /\ Write(Building, disk[cur].bytes[taken + 1])
      /\ toc' = [toc EXCEPT ![Len(toc)].len = taken + 1]
      /\ UNCHANGED <<before, todo, cur, torn>>
  BY DEF PackChunk, histVars
<1>2. /\ toc \in Seq(Entry) /\ m \in Nat /\ m # 0 /\ taken \in Nat /\ cur \in Files /\ cur \in Names
      /\ disk[cur] = Plain(Whole(cur)) /\ todo \in Seq(Files)
      /\ \A k \in 1..m - 1 : Packed(disk[Partial], toc[k])
      /\ Current(disk[Partial], last)
  BY <1>1, PathKinds DEF Shelves, Disks, Originals, Packing
<1>3. /\ Length[cur] \in Nat /\ taken < Length[cur] /\ disk[cur].bytes[taken + 1] = <<cur, taken + 1>>
  <2>1. disk[cur].bytes = Whole(cur)
    BY <1>2, WholeLength, PlainIsFile
  <2>2. taken < Length[cur] /\ Length[cur] \in Nat /\ taken + 1 \in 1..Length[cur]
    BY <1>1, <1>2, <2>1, WholeLength
  <2>3. QED
    BY <1>2, <2>1, <2>2, WholeLength
<1>4. <<cur, taken + 1>> \in Atoms
  BY <1>2 DEF Atoms
<1>5. /\ disk' \in [Paths -> File \union {NoFile}] /\ Originals'
      /\ disk[Partial] \in File /\ disk'[Partial] \in File /\ disk'[Partial] # NoFile
      /\ disk[Partial].bytes \in Seq(Atoms)
      /\ disk'[Partial].bytes = Append(disk[Partial].bytes, <<cur, taken + 1>>)
      /\ \A x \in Entry : Packed(disk[Partial], x) => Packed(disk'[Partial], x)
  BY <1>1, <1>3, <1>4, PackedBesides
<1>6. /\ n \in Nat /\ Len(disk'[Partial].bytes) = n + 1
      /\ disk'[Partial].bytes[n + 1] = <<cur, taken + 1>>
      /\ \A k \in 1..n : disk'[Partial].bytes[k] = disk[Partial].bytes[k]
  BY <1>5
<1>7. /\ last \in Entry /\ last.name = cur /\ last.len = taken
      /\ last.from \in Nat \ {0} /\ last.from + taken = n + 1
      /\ \A k \in 1..taken : disk[Partial].bytes[last.from + k - 1] = <<cur, k>>
  <2>1. last \in Entry
    BY <1>2
  <2> HIDE DEF last
  <2>2. QED
    BY <1>2, <2>1 DEF Current
<1>8. /\ toc' \in Seq(Entry) /\ Len(toc') = m
      /\ \A k \in 1..m - 1 : toc'[k] = toc[k] /\ toc[k] \in Entry
      /\ toc'[m].name = cur /\ toc'[m].len = taken' /\ toc'[m].from = last.from
  <2>1. /\ [last EXCEPT !.len = taken + 1] \in Entry
        /\ [last EXCEPT !.len = taken + 1].name = cur
        /\ [last EXCEPT !.len = taken + 1].len = taken + 1
        /\ [last EXCEPT !.len = taken + 1].from = last.from
    <3>1. last \in Entry /\ taken + 1 \in Nat /\ last.name = cur
      BY <1>2, <1>7
    <3> HIDE DEF last
    <3>2. QED
      BY <3>1, EntryParts
  <2>2. toc' = [toc EXCEPT ![m] = [last EXCEPT !.len = taken + 1]]
    BY <1>1, Zenon
  <2> HIDE DEF last
  <2> DEFINE longer == [last EXCEPT !.len = taken + 1]
  <2> HIDE DEF longer
  <2>3. m \in 1..Len(toc) /\ \A k \in 1..m - 1 : k \in 1..Len(toc) /\ k # m
    BY <1>2
  <2>4. /\ toc' \in Seq(Entry) /\ Len(toc') = Len(toc) /\ toc'[m] = longer
        /\ \A k \in 1..m - 1 : toc'[k] = toc[k]
    <3>1. toc' = [toc EXCEPT ![m] = longer] /\ longer \in Entry
      BY <2>1, <2>2 DEF longer
    <3>2. QED
      BY <1>2, <2>3, <3>1, ExceptSeq
  <2>5. QED
    <3>1. \A k \in 1..m - 1 : toc[k] \in Entry
      BY <1>2, <2>3
    <3>2. longer.name = cur /\ longer.len = taken + 1 /\ longer.from = last.from
      BY <2>1 DEF longer
    <3>3. taken' = taken + 1
      BY <1>1
    <3> HIDE DEF m
    <3>4. QED
      BY <2>4, <3>1, <3>2, <3>3 DEF m
<1>9. \A k \in 1..Len(toc') - 1 : Packed(disk'[Partial], toc'[k])
  BY <1>2, <1>5, <1>8
<1>10. ASSUME NEW k \in 1..taken'
       PROVE  disk'[Partial].bytes[last.from + k - 1] = <<cur, k>>
  <2> HIDE DEF n, last
  <2>1. CASE k \in 1..taken
    <3>1. last.from + k - 1 \in 1..n
      BY <1>2, <1>6, <1>7, <2>1
    <3>2. QED
      BY <1>6, <1>7, <2>1, <3>1
  <2>2. CASE k = taken + 1
    <3>1. last.from + k - 1 = n + 1
      BY <1>2, <1>6, <1>7, <2>2
    <3>2. QED
      BY <1>6, <2>2, <3>1
  <2>3. QED
    BY <1>1, <1>2, <2>1, <2>2
<1>11. last.from + taken' = Len(disk'[Partial].bytes) + 1
  <2> HIDE DEF n, last
  <2>1. last.from + (taken + 1) = (n + 1) + 1
    BY <1>2, <1>6, <1>7
  <2>2. taken' = taken + 1 /\ Len(disk'[Partial].bytes) = n + 1
    BY <1>1, <1>6
  <2>3. QED
    BY <2>1, <2>2, Zenon
<1>12. Disks'
  BY <1>1, <1>2, <1>5, <1>8 DEF Shelves, Disks
<1>13. Packing'
  <2> HIDE DEF n, last, m
  <2>1. taken' <= Length[cur'] /\ Len(toc') # 0
    BY <1>1, <1>2, <1>3, <1>8
  <2>2. QED
    BY <1>1, <1>2, <1>5, <1>7, <1>8, <1>9, <1>10, <1>11, <2>1 DEF Packing, Current
<1>14. QED
  BY <1>1, <1>5, <1>12, <1>13 DEF Shelves, Reading

LEMMA EndEntryKeepsShelves ==
  ASSUME Shelves, EndEntry
  PROVE  Shelves'
<1>1. /\ pc = "copy" /\ pc' = "pack" /\ taken' = 0 /\ taken = Len(disk[cur].bytes)
      /\ UNCHANGED <<disk, before, todo, toc, torn>>
  BY DEF EndEntry, histVars
<1> DEFINE last == toc[Len(toc)]
<1>2. /\ toc \in Seq(Entry) /\ Len(toc) \in Nat /\ Len(toc) # 0 /\ taken \in Nat
      /\ cur \in Files /\ cur \in Names /\ disk[cur] = Plain(Whole(cur)) /\ todo \in Seq(Files)
      /\ disk[Partial] # NoFile
      /\ \A k \in 1..Len(toc) - 1 : Packed(disk[Partial], toc[k])
      /\ Current(disk[Partial], last)
  BY <1>1, PathKinds DEF Shelves, Disks, Originals, Packing
<1>3. taken = Length[cur]
  BY <1>1, <1>2, WholeLength, PlainIsFile
<1>4. Data(disk[Partial], last) = Whole(cur)
  BY <1>2, <1>3 DEF Current, Data, Whole
<1>5. disk[Partial].bytes \in Seq(Atoms)
  BY <1>2, PathKinds, FileParts DEF Shelves, Disks
<1>6. last.from + last.len <= Len(disk[Partial].bytes) + 1
  BY <1>2, <1>5 DEF Current
<1>7. Packed(disk[Partial], last)
  BY <1>2, <1>4, <1>6 DEF Packed, HasEntry, Current
<1>8. \A k \in 1..Len(toc) : Packed(disk[Partial], toc[k])
  BY <1>2, <1>7
<1>9. Disks' /\ Originals'
  BY <1>1 DEF Shelves, Disks, Originals
<1>10. Packing'
  BY <1>1, <1>2, <1>8 DEF Packing
<1>11. QED
  BY <1>1, <1>9, <1>10 DEF Shelves, Reading

LEMMA FinishZipKeepsShelves ==
  ASSUME Shelves, FinishZip
  PROVE  Shelves'
<1>1. /\ pc = "pack" /\ pc' = "rename" /\ todo = <<>>
      /\ disk' = [disk EXCEPT ![Partial].toc = toc]
      /\ UNCHANGED <<before, todo, cur, taken, toc, torn>>
  BY DEF FinishZip, histVars, Building
<1>2. /\ disk \in [Paths -> File \union {NoFile}] /\ disk[Partial] # NoFile /\ disk[Partial] \in File
      /\ toc \in Seq(Entry) /\ todo \in Seq(Files)
      /\ \A k \in 1..Len(toc) : Packed(disk[Partial], toc[k])
  BY <1>1, PathKinds DEF Shelves, Disks, Packing
<1> DEFINE finished == [bytes |-> disk[Partial].bytes, toc |-> toc]
<1>3. disk' = [disk EXCEPT ![Partial] = finished]
  <2>1. disk' = [disk EXCEPT ![Partial] = [disk[Partial] EXCEPT !.toc = toc]]
    BY <1>1, Zenon
  <2>2. QED
    BY <1>2, <2>1, FileParts
<1>4. finished \in File /\ finished.bytes = disk[Partial].bytes /\ finished.toc = toc
  BY <1>2, FileParts DEF File
<1> HIDE DEF finished
<1>5. /\ disk' \in [Paths -> File \union {NoFile}] /\ disk'[Partial] = finished /\ finished # NoFile
      /\ \A q \in Paths \ {Partial} : disk'[q] = disk[q]
  BY <1>2, <1>3, <1>4, PathKinds, ArchiveConstants
<1>6. \A k \in 1..Len(toc) : Packed(disk'[Partial], toc[k])
  BY <1>2, <1>4, <1>5, SameBytesSameEntry DEF Packed
<1>7. Disks' /\ Originals'
  BY <1>1, <1>5, OriginalsStay, PathKinds DEF Shelves, Disks
<1>8. Packing'
  BY <1>1, <1>2, <1>4, <1>5, <1>6 DEF Packing
<1>9. QED
  BY <1>1, <1>7, <1>8 DEF Shelves, Reading

LEMMA RenameKeepsShelves ==
  ASSUME Shelves, Rename
  PROVE  Shelves' /\ WholeArchive(disk'[Dest]) /\ disk'[Dest] = disk[Partial]
<1>1. /\ pc = "rename" /\ disk' = [disk EXCEPT ![Dest] = disk[Partial], ![Partial] = NoFile]
      /\ Idle /\ UNCHANGED <<before, torn>>
  BY DEF Rename, histVars, Building
<1>2. /\ disk \in [Paths -> File \union {NoFile}] /\ disk[Partial] # NoFile
      /\ toc \in Seq(Entry) /\ disk[Partial].toc = toc
      /\ \A k \in 1..Len(toc) : Packed(disk[Partial], toc[k])
  BY <1>1 DEF Shelves, Disks, Packing
<1>3. WholeArchive(disk[Partial])
  <2>1. IsArchive(disk[Partial])
    BY <1>2, ArchiveConstants DEF IsArchive
  <2>2. \A e \in Range(toc) : Packed(disk[Partial], e)
    BY <1>2 DEF Range
  <2>3. QED
    BY <1>2, <2>1, <2>2 DEF WholeArchive, Packed
<1>4. /\ disk' \in [Paths -> File \union {NoFile}] /\ disk'[Dest] = disk[Partial]
      /\ \A q \in Paths \ {Dest, Partial} : disk'[q] = disk[q]
  BY <1>1, <1>2, PathKinds
<1>5. Originals'
  BY <1>3, <1>4, PathKinds DEF Shelves, Originals
<1>6. QED
  BY <1>1, <1>3, <1>4, <1>5, IdleKeepsShelves DEF Shelves, Disks

LEMMA ZipStopsKeepShelves ==
  ASSUME Shelves, PlanFails \/ ZipFails \/ StopZip
  PROVE  Shelves'
<1>1. CASE PlanFails
  BY <1>1, IdleKeepsShelves DEF PlanFails, histVars, Shelves, Disks, Originals
<1>2. CASE ZipFails \/ StopZip
  <2>1. TryRemove(Partial) /\ Idle /\ UNCHANGED <<before, torn>>
    BY <1>2 DEF ZipFails, StopZip, Discard, Building, histVars
  <2>2. disk' \in [Paths -> File \union {NoFile}] /\ Originals'
    BY <2>1, RemovedIsOff, PathKinds DEF Shelves
  <2>3. QED
    BY <2>1, <2>2, IdleKeepsShelves DEF Shelves, Disks
<1>3. QED
  BY <1>1, <1>2

LEMMA StretchGrows ==
  ASSUME NEW name \in Names, NEW n \in Nat
  PROVE  /\ Stretch(name, n) \in Seq(Atoms) /\ Stretch(name, 0) = <<>>
         /\ Append(Stretch(name, n), <<name, n + 1>>) = Stretch(name, n + 1)
<1>1. ASSUME NEW m \in Nat
      PROVE  Stretch(name, m) \in Seq(Atoms) /\ Len(Stretch(name, m)) = m
  <2>1. \A k \in 1..m : <<name, k>> \in Atoms
    BY DEF Atoms
  <2>2. Stretch(name, m) \in [1..m -> Atoms]
    BY <2>1 DEF Stretch
  <2>3. QED
    BY <2>2 DEF Stretch
<1>2. Stretch(name, 0) = <<>>
  BY <1>1, EmptySeq
<1>3. <<name, n + 1>> \in Atoms /\ n + 1 \in Nat
  BY DEF Atoms
<1> DEFINE s == Append(Stretch(name, n), <<name, n + 1>>)
<1>4. /\ s \in Seq(Atoms) /\ Len(s) = n + 1
      /\ s[n + 1] = <<name, n + 1>> /\ \A k \in 1..n : s[k] = Stretch(name, n)[k]
  BY <1>1, <1>3, AppendProperties
<1>5. \A k \in 1..n + 1 : s[k] = Stretch(name, n + 1)[k]
  BY <1>4 DEF Stretch
<1> HIDE DEF s
<1>6. s = Stretch(name, n + 1)
  BY <1>1, <1>3, <1>4, <1>5, SeqEqual
<1>7. QED
  BY <1>1, <1>2, <1>6 DEF s

\* What the archive says of an entry that lands somewhere safe.
LEMMA EntryOfArchive ==
  ASSUME Shelves, NEW e \in Range(disk[Dest].toc), IsArchive(disk[Dest])
  PROVE  /\ e \in Entry /\ e.name \in Names /\ HasEntry(disk[Dest], e)
         /\ e.len = Length[e.name] /\ e.len \in Nat
         /\ Data(disk[Dest], e) = Stretch(e.name, e.len)
         /\ Safe(e) => OutOf(e) \in Outs
<1>1. e \in Entry /\ HasEntry(disk[Dest], e)
  BY ArchiveIsSound DEF Shelves
<1>2. e.name \in Names /\ Data(disk[Dest], e) = Whole(e.name) /\ e.len \in Nat
  BY <1>1 DEF HasEntry, Entry
<1>3. Data(disk[Dest], e) \in [1..e.len -> {Data(disk[Dest], e)[k] : k \in 1..e.len}]
  BY DEF Data
<1>4. Whole(e.name) \in [1..Length[e.name] -> {Whole(e.name)[k] : k \in 1..Length[e.name]}]
  BY DEF Whole
<1>5. 1..e.len = 1..Length[e.name]
  BY <1>2, <1>3, <1>4
<1>6. e.len = Length[e.name]
  BY <1>2, <1>5, WholeLength
<1>7. Data(disk[Dest], e) = Stretch(e.name, e.len)
  BY <1>2, <1>6 DEF Whole, Stretch
<1>8. Safe(e) => OutOf(e) \in Outs
  BY <1>2, ArchiveConstants DEF Safe, OutOf
<1>9. QED
  BY <1>1, <1>2, <1>6, <1>7, <1>8

LEMMA OpenZipKeepsShelves ==
  ASSUME Shelves, OpenZip
  PROVE  Shelves'
<1>1. /\ pc' = "entry" /\ IsArchive(disk[Dest]) /\ todo' = disk[Dest].toc
      /\ UNCHANGED <<disk, before, cur, taken, toc, torn>>
  BY DEF OpenZip
<1>2. todo' \in Seq(Entry) /\ \A k \in 1..Len(todo') : todo'[k] \in Range(disk[Dest].toc)
  BY <1>1, ArchiveIsSound DEF Shelves, Range
<1>3. Disks' /\ Originals'
  BY <1>1 DEF Shelves, Disks, Originals
<1>4. QED
  BY <1>1, <1>2, <1>3 DEF Shelves, Packing, Reading

LEMMA ExtractEndsKeepShelves ==
  ASSUME Shelves, ExtractFails \/ StopAtEntry \/ FinishExtract
  PROVE  Shelves'
<1>1. Idle /\ UNCHANGED <<disk, before, torn>>
  BY DEF ExtractFails, StopAtEntry, FinishExtract, histVars
<1>2. Disks /\ Originals' /\ torn' \subseteq Outs /\ disk' \in [Paths -> File \union {NoFile}]
  BY <1>1 DEF Shelves, Disks, Originals
<1>3. QED
  BY <1>1, <1>2, IdleKeepsShelves

\* What the worker takes from what is left.
LEMMA NextEntry ==
  ASSUME Shelves, AtEntry
  PROVE  /\ IsArchive(disk[Dest])
         /\ Head(todo) \in Range(disk[Dest].toc) /\ Head(todo) = todo[1]
         /\ Tail(todo) \in Seq(Entry) /\ Len(Tail(todo)) = Len(todo) - 1 /\ Len(todo) \in Nat
         /\ \A k \in 1..Len(Tail(todo)) : Tail(todo)[k] = todo[k + 1]
         /\ \A k \in 1..Len(Tail(todo)) : Tail(todo)[k] \in Range(disk[Dest].toc)
<1>1. /\ IsArchive(disk[Dest]) /\ todo \in Seq(Entry) /\ todo # <<>>
      /\ \A k \in 1..Len(todo) : todo[k] \in Range(disk[Dest].toc)
  BY DEF AtEntry, Shelves, Reading
<1>2. Len(todo) \in Nat /\ Len(todo) # 0 /\ Head(todo) = todo[1]
  BY <1>1
<1>3. /\ Tail(todo) \in Seq(Entry) /\ Len(Tail(todo)) = Len(todo) - 1
      /\ \A k \in 1..Len(Tail(todo)) : Tail(todo)[k] = todo[k + 1]
  BY <1>1
<1>4. \A k \in 1..Len(Tail(todo)) : Tail(todo)[k] \in Range(disk[Dest].toc)
  BY <1>1, <1>2, <1>3
<1>5. QED
  BY <1>1, <1>2, <1>3, <1>4

\* Steps that leave an entry out.
LEMMA LeftOutKeepsShelves ==
  ASSUME Shelves, AtEntry, todo' = Tail(todo), UNCHANGED <<pc, before, cur, taken, toc, torn>>,
         disk' \in [Paths -> File \union {NoFile}],
         \A p \in Files \union {Dest} : disk'[p] = disk[p]
  PROVE  Shelves'
<1>1. /\ pc' = "entry" /\ IsArchive(disk'[Dest]) /\ todo' \in Seq(Entry)
      /\ \A k \in 1..Len(todo') : todo'[k] \in Range(disk'[Dest].toc)
  BY NextEntry DEF AtEntry
<1>2. Disks' /\ Originals'
  BY OriginalsStay DEF Shelves, Disks
<1>3. QED
  BY <1>1, <1>2 DEF Shelves, Packing, Reading

LEMMA EntriesLeftOutKeepShelves ==
  ASSUME Shelves, BadEntry \/ SkipExisting \/ CreateFails
  PROVE  Shelves'
<1>1. AtEntry /\ todo' = Tail(todo) /\ UNCHANGED <<pc, before, cur, taken, toc, torn>>
  BY DEF BadEntry, SkipExisting, CreateFails, histVars
<1>2. CASE UNCHANGED disk
  BY <1>1, <1>2, LeftOutKeepsShelves DEF Shelves, Disks
<1>3. CASE CreateFails
  <2>1. Safe(Head(todo)) /\ TryRemove(OutOf(Head(todo)))
    BY <1>3 DEF CreateFails
  <2>2. OutOf(Head(todo)) \in Outs
    BY <1>1, <2>1, NextEntry, EntryOfArchive
  <2>3. /\ disk' \in [Paths -> File \union {NoFile}]
        /\ \A q \in Paths \ {OutOf(Head(todo))} : disk'[q] = disk[q]
    BY <2>1, <2>2, RemovedIsOff, PathKinds DEF Shelves
  <2>4. QED
    BY <1>1, <2>2, <2>3, PathKinds, LeftOutKeepsShelves
<1>4. QED
  BY <1>2, <1>3 DEF BadEntry, SkipExisting

LEMMA CreateOutKeepsShelves ==
  ASSUME Shelves, CreateOut
  PROVE  Shelves'
<1> DEFINE e == Head(todo)
<1>1. /\ AtEntry /\ Safe(e) /\ cur' = e /\ todo' = Tail(todo) /\ taken' = 0 /\ pc' = "write"
      /\ disk' = [disk EXCEPT ![OutOf(e)] = Plain(<<>>)] /\ torn' = torn \ {OutOf(e)}
      /\ UNCHANGED <<before, toc>>
  BY DEF CreateOut
<1>2. /\ IsArchive(disk[Dest]) /\ e \in Range(disk[Dest].toc)
      /\ todo' \in Seq(Entry) /\ \A k \in 1..Len(todo') : todo'[k] \in Range(disk[Dest].toc)
  BY <1>1, NextEntry
<1>3. e \in Entry /\ e.name \in Names /\ OutOf(e) \in Outs /\ e.len \in Nat
  BY <1>1, <1>2, EntryOfArchive
<1>4. /\ disk' \in [Paths -> File \union {NoFile}] /\ disk'[OutOf(e)] = Plain(<<>>)
      /\ \A q \in Paths \ {OutOf(e)} : disk'[q] = disk[q]
  BY <1>1, <1>3, PathKinds, NothingIsFile DEF Shelves, Disks
<1>5. disk'[Dest] = disk[Dest] /\ Originals'
  BY <1>3, <1>4, OriginalsStay, PathKinds DEF Shelves
<1>6. Plain(<<>>) = Plain(Stretch(e.name, 0))
  BY <1>3, StretchGrows
<1>7. Disks'
  BY <1>1, <1>4 DEF Shelves, Disks
<1> HIDE DEF e
<1>8. OutOf(cur') = OutOf(e) /\ Safe(cur')
  BY <1>1
<1>9. Reading'
  BY <1>1, <1>2, <1>3, <1>4, <1>5, <1>6, <1>8 DEF Reading, OutOf, Safe
<1>10. QED
  BY <1>1, <1>5, <1>7, <1>9 DEF Shelves, Packing

LEMMA WriteChunkKeepsShelves ==
  ASSUME Shelves, WriteChunk
  PROVE  /\ Shelves'
         /\ \A q \in Paths \ {OutOf(cur)} : disk'[q] = disk[q]
<1> DEFINE o == OutOf(cur)
<1>1. /\ pc = "write" /\ pc' = "write" /\ taken < cur.len /\ taken' = taken + 1
      /\ Write(o, Data(disk[Dest], cur)[taken + 1])
      /\ UNCHANGED <<before, todo, cur, toc, torn>>
  BY DEF WriteChunk, histVars
<1>2. /\ IsArchive(disk[Dest]) /\ cur \in Range(disk[Dest].toc) /\ Safe(cur)
      /\ todo \in Seq(Entry) /\ \A k \in 1..Len(todo) : todo[k] \in Range(disk[Dest].toc)
      /\ disk[o] = Plain(Stretch(cur.name, taken)) /\ taken \in Nat
      /\ disk \in [Paths -> File \union {NoFile}] /\ Originals
  BY <1>1 DEF Shelves, Disks, Reading
<1>3. /\ cur \in Entry /\ cur.name \in Names /\ cur.len \in Nat /\ o \in Outs
      /\ Data(disk[Dest], cur) = Stretch(cur.name, cur.len)
  BY <1>2, EntryOfArchive
<1>4. Data(disk[Dest], cur)[taken + 1] = <<cur.name, taken + 1>>
  BY <1>1, <1>2, <1>3 DEF Stretch
<1>5. <<cur.name, taken + 1>> \in Atoms
  BY <1>2, <1>3 DEF Atoms
<1>6. /\ Stretch(cur.name, taken) \in Seq(Atoms)
      /\ Append(Stretch(cur.name, taken), <<cur.name, taken + 1>>) = Stretch(cur.name, taken + 1)
  BY <1>2, <1>3, StretchGrows
<1>7. disk[o] # NoFile /\ disk[o].bytes = Stretch(cur.name, taken) /\ disk[o].toc = NoToc
  BY <1>2, <1>6, PlainIsFile
<1>8. Write(o, <<cur.name, taken + 1>>) /\ o \in Paths
  BY <1>1, <1>3, <1>4, PathKinds
<1> HIDE DEF o
<1>9. /\ disk' \in [Paths -> File \union {NoFile}]
      /\ disk'[o] = [bytes |-> Append(disk[o].bytes, <<cur.name, taken + 1>>), toc |-> disk[o].toc]
      /\ \A q \in Paths \ {o} : disk'[q] = disk[q]
  BY <1>2, <1>5, <1>7, <1>8, Written
<1>10. disk'[o] = Plain(Stretch(cur.name, taken + 1))
  BY <1>6, <1>7, <1>9 DEF Plain
<1>11. disk'[Dest] = disk[Dest] /\ Originals'
  BY <1>2, <1>3, <1>9, OriginalsStay, PathKinds
<1>12. Disks'
  BY <1>1, <1>2, <1>9 DEF Shelves, Disks
<1>13. taken' <= cur'.len
  BY <1>1, <1>2, <1>3
<1>14. Reading'
  BY <1>1, <1>2, <1>3, <1>10, <1>11, <1>13 DEF Reading, OutOf, Safe, o
<1>15. QED
  BY <1>1, <1>9, <1>11, <1>12, <1>14 DEF Shelves, Packing, o

LEMMA EndFileKeepsShelves ==
  ASSUME Shelves, EndFile
  PROVE  Shelves'
<1>1. /\ pc = "write" /\ pc' = "entry" /\ taken' = 0 /\ UNCHANGED <<disk, before, todo, toc, torn>>
  BY DEF EndFile, histVars
<1>2. Disks' /\ Originals'
  BY <1>1 DEF Shelves, Disks, Originals
<1>3. Reading'
  BY <1>1 DEF Shelves, Reading
<1>4. QED
  BY <1>1, <1>2, <1>3 DEF Shelves, Packing

\* A half-written file goes, or stays and is known for it.
LEMMA OutRemoved ==
  ASSUME Shelves, pc = "write", RemoveOut
  PROVE  /\ disk' \in [Paths -> File \union {NoFile}] /\ Originals' /\ torn' \subseteq Outs
         /\ OutOf(cur) \in Outs /\ disk'[Dest] = disk[Dest]
         /\ \A q \in Paths \ {OutOf(cur)} : disk'[q] = disk[q]
<1>1. OutOf(cur) \in Outs
  BY EntryOfArchive DEF Shelves, Reading
<1>2. /\ disk' \in [Paths -> File \union {NoFile}] /\ torn' \subseteq Outs
      /\ \A q \in Paths \ {OutOf(cur)} : disk'[q] = disk[q]
  BY <1>1, PathKinds DEF RemoveOut, Shelves, Disks
<1>3. QED
  BY <1>1, <1>2, OriginalsStay, PathKinds DEF Shelves

LEMMA FailedWritesKeepShelves ==
  ASSUME Shelves, EntryFails \/ StopInFile
  PROVE  Shelves'
<1>1. pc = "write" /\ RemoveOut /\ UNCHANGED before
  BY DEF EntryFails, StopInFile
<1>2. /\ disk' \in [Paths -> File \union {NoFile}] /\ Originals' /\ torn' \subseteq Outs
      /\ disk'[Dest] = disk[Dest]
  BY <1>1, OutRemoved
<1>3. CASE StopInFile
  BY <1>1, <1>2, <1>3, IdleKeepsShelves DEF StopInFile, Shelves
<1>4. CASE EntryFails
  <2>1. pc' = "entry" /\ taken' = 0 /\ UNCHANGED <<todo, toc>>
    BY <1>4 DEF EntryFails
  <2>2. Disks'
    BY <1>1, <1>2, <2>1 DEF Shelves, Disks
  <2>3. Reading'
    BY <1>1, <1>2, <2>1 DEF Shelves, Reading
  <2>4. QED
    BY <1>2, <2>1, <2>2, <2>3 DEF Shelves, Packing
<1>5. QED
  BY <1>3, <1>4

LEMMA StartKeepsShelves ==
  ASSUME Shelves, StartZip \/ StartUnzip
  PROVE  Shelves'
<1>1. /\ pc' \in {"plan", "open"} /\ taken' = 0 /\ toc' = <<>> /\ before' = disk
      /\ UNCHANGED <<disk, torn>>
      /\ pc' = "plan" => todo' \in Sources
  BY DEF StartZip, StartUnzip, Start
<1>2. pc' = "plan" => todo' \in Seq(Files \union {Dest})
  <2>1. ASSUME NEW s \in Sources PROVE s \in Seq(Files \union {Dest})
    <3>1. s \in Seq(Files \union {Dest, Partial}) /\ Partial \notin Range(s)
      BY ArchiveConstants, PartialIsNotPacked
    <3>2. QED
      BY <3>1 DEF Range
  <2>2. QED
    BY <1>1, <2>1
<1>3. <<>> \in Seq(Entry)
  OBVIOUS
<1>4. Disks' /\ Originals'
  BY <1>1, <1>3 DEF Shelves, Disks, Originals
<1>5. QED
  BY <1>1, <1>2, <1>4 DEF Shelves, Packing, Reading

LEMMA CrashKeepsShelves ==
  ASSUME Shelves, Crash
  PROVE  Shelves'
<1>1. Idle /\ UNCHANGED <<disk, before>>
  BY DEF Crash
<1>2. torn' \subseteq Outs
  <2>1. pc = "write" => OutOf(cur) \in Outs
    BY EntryOfArchive DEF Shelves, Reading
  <2>2. QED
    BY <2>1 DEF Crash, Shelves, Disks
<1>3. Disks /\ Originals' /\ disk' \in [Paths -> File \union {NoFile}]
  BY <1>1 DEF Shelves, Disks, Originals
<1>4. QED
  BY <1>1, <1>2, <1>3, IdleKeepsShelves

LEMMA ShelvesKept ==
  ASSUME Shelves, Queue, [Next]_vars
  PROVE  Shelves'
<1>1. CASE PickZip \/ Cancel \/ Poll \/ UNCHANGED vars
  <2>1. UNCHANGED <<disk, before, pc, todo, cur, taken, toc, torn>>
    BY <1>1, PollFirst DEF PickZip, Cancel, vars, workVars, histVars
  <2>2. QED
    BY <2>1, AsideKeepsShelves
<1>2. CASE ZipStep
  BY <1>2, PlanZipKeepsShelves, CreatePartialKeepsShelves, SkipEntryKeepsShelves,
     BeginEntryKeepsShelves, PackChunkKeepsShelves, EndEntryKeepsShelves, FinishZipKeepsShelves,
     RenameKeepsShelves, ZipStopsKeepShelves DEF ZipStep
<1>3. CASE UnzipStep
  BY <1>3, OpenZipKeepsShelves, ExtractEndsKeepShelves, EntriesLeftOutKeepShelves,
     CreateOutKeepsShelves, WriteChunkKeepsShelves, EndFileKeepsShelves, FailedWritesKeepShelves
     DEF UnzipStep
<1>4. CASE Crash
  BY <1>4, CrashKeepsShelves
<1>5. CASE StartZip \/ StartUnzip
  BY <1>5, StartKeepsShelves
<1>6. QED
  BY <1>1, <1>2, <1>3, <1>4, <1>5, NextSteps DEF Worker

\* The disk, the unfinished archive and what is being extracted are what they
\* should be at every step.
THEOREM ShelvesAreSound == Spec => []Shelves
BY ShelvesInit, ShelvesKept, JobsEndOnce, PTL DEF Spec

\* Whatever fails, is cancelled or is killed, at the archive's name is what was
\* there first or a complete archive of whole files.
THEOREM ArchiveIsOldOrWhole == Spec => []ZipIsOldOrWhole
<1>1. Shelves => ZipIsOldOrWhole
  BY DEF Shelves, Originals, ZipIsOldOrWhole
<1>2. QED
  BY <1>1, ShelvesAreSound, PTL

-----------------------------------------------------------------------------
(* The destination folder. *)

OldOut(o) == disk[o] \in {NoFile, Plain(<<Old>>)}
WholeOut(o) == \E n \in Names : Target[n] = o /\ disk[o] = Plain(Whole(n))

\* ExtractedIsWhole, and why: what is written without overwriting was not there
\* when the job started.
Extracted ==
  /\ \A o \in Outs \ torn : (pc = "write" /\ OutOf(cur) = o) \/ OldOut(o) \/ WholeOut(o)
  /\ kind = "unzip" /\ ~over =>
       \A o \in Outs : before[o] # NoFile => disk[o] = before[o]
  /\ pc = "write" /\ ~over => before[OutOf(cur)] = NoFile

\* Packing touches the archive and the unfinished one only.
LEMMA PackingAside ==
  ASSUME Shelves, ZipStep
  PROVE  /\ \A q \in Paths \ {Dest, Partial} : disk'[q] = disk[q]
         /\ Rename \/ disk'[Dest] = disk[Dest]
         /\ before' = before /\ torn' = torn /\ pc # "write" /\ pc' # "write"
<1>1. torn \ {Partial} = torn
  BY PathKinds DEF Shelves, Disks
<1>2. CASE PlanZip \/ PlanFails \/ SkipEntry \/ EndEntry
  BY <1>2 DEF PlanZip, PlanFails, SkipEntry, EndEntry, histVars, Idle
<1>3. CASE CreatePartial
  BY <1>1, <1>3, PathKinds DEF CreatePartial, Shelves, Disks
<1>4. CASE BeginEntry
  BY <1>4, PathKinds DEF BeginEntry, Write, histVars, Shelves, Disks
<1>5. CASE PackChunk
  BY <1>5, PathKinds DEF PackChunk, Write, histVars, Shelves, Disks
<1>6. CASE FinishZip
  BY <1>6, PathKinds DEF FinishZip, histVars, Shelves, Disks
<1>7. CASE Rename
  BY <1>7, PathKinds DEF Rename, histVars, Idle, Shelves, Disks
<1>8. CASE ZipFails \/ StopZip
  BY <1>8, PathKinds DEF ZipFails, StopZip, Discard, TryRemove, histVars, Idle, Shelves, Disks
<1>9. QED
  BY <1>2, <1>3, <1>4, <1>5, <1>6, <1>7, <1>8 DEF ZipStep

LEMMA ExtractedInit == Init => Extracted
<1> SUFFICES ASSUME Init PROVE Extracted
  OBVIOUS
<1>1. /\ disk \in {d \in [Paths -> {Plain(Whole(p)) : p \in Files} \union Found \union {NoFile, Plain(<<Old>>)}] :
              /\ \A p \in Files : d[p] = Plain(Whole(p))
              /\ d[Dest] \in Found
              /\ d[Partial] = NoFile
              /\ \A o \in Outs : d[o] \in {NoFile, Plain(<<Old>>)}}
      /\ kind = "none" /\ pc = "idle"
  BY DEF Init
<1>2. QED
  BY <1>1 DEF Extracted, OldOut

\* Steps that leave the destination folder alone.
LEMMA AsideKeepsExtracted ==
  ASSUME Extracted, \A o \in Outs : disk'[o] = disk[o], before' = before, torn' = torn,
         kind' = kind, over' = over, pc # "write", pc' # "write"
  PROVE  Extracted'
BY DEF Extracted, OldOut, WholeOut

\* The entry the worker is at is an entry of the archive that is left alone.
LEMMA WritingAside ==
  ASSUME Shelves, pc = "write"
  PROVE  OutOf(cur) \in Outs /\ cur.name \in Names /\ Target[cur.name] = OutOf(cur)
BY EntryOfArchive DEF Shelves, Reading, OutOf

LEMMA CreateOutKeepsExtracted ==
  ASSUME Shelves, Control, Extracted, CreateOut
  PROVE  Extracted'
<1> DEFINE o == OutOf(Head(todo))
<1>1. /\ AtEntry /\ Safe(Head(todo)) /\ ~InTheWay(Head(todo)) /\ cur' = Head(todo) /\ pc' = "write"
      /\ disk' = [disk EXCEPT ![o] = Plain(<<>>)] /\ torn' = torn \ {o}
      /\ before' = before /\ kind' = kind /\ over' = over
  BY DEF CreateOut, TabAside, tabVars
<1>2. pc = "entry" /\ kind = "unzip"
  BY <1>1 DEF AtEntry, Control, UnzipPhases
<1>3. o \in Outs
  BY <1>1, NextEntry, EntryOfArchive
<1>4. OutOf(cur') = o
  BY <1>1
<1>5. ~over => disk[o] = NoFile
  BY <1>1 DEF InTheWay, Exists
<1> HIDE DEF o
<1>6. ~over => before[o] = NoFile
  BY <1>2, <1>3, <1>5 DEF Extracted
<1>7. \A q \in Outs \ {o} : disk'[q] = disk[q]
  BY <1>1, PathKinds DEF Shelves, Disks
<1>8. ASSUME NEW q \in Outs \ torn'
      PROVE  (pc' = "write" /\ OutOf(cur') = q) \/ OldOut(q)' \/ WholeOut(q)'
  BY <1>1, <1>2, <1>4, <1>7 DEF Extracted, OldOut, WholeOut
<1>9. kind' = "unzip" /\ ~over' => \A q \in Outs : before'[q] # NoFile => disk'[q] = before'[q]
  BY <1>1, <1>2, <1>6, <1>7 DEF Extracted
<1>10. OutOf(cur)' = o
  BY <1>4 DEF OutOf
<1>11. QED
  BY <1>1, <1>6, <1>8, <1>9, <1>10 DEF Extracted, OutOf, OldOut, WholeOut

\* What was not there at the start, or is overwritten, may change or go.
LEMMA FreeOutKeepsExtracted ==
  ASSUME Shelves, Extracted, NEW o \in Outs, ~over => before[o] = NoFile,
         \A q \in Outs \ {o} : disk'[q] = disk[q], UNCHANGED <<kind, over, before>>,
         torn \subseteq torn', pc' # "write", pc = "write" => OutOf(cur) = o,
         o \in torn' \/ disk'[o] = NoFile
  PROVE  Extracted'
<1>1. ASSUME NEW q \in Outs \ torn' PROVE OldOut(q)' \/ WholeOut(q)'
  <2>1. CASE q = o
    BY <1>1, <2>1 DEF OldOut
  <2>2. CASE q # o
    BY <1>1, <2>2 DEF Extracted, OldOut, WholeOut
  <2>3. QED
    BY <2>1, <2>2
<1>2. kind' = "unzip" /\ ~over' => \A q \in Outs : before'[q] # NoFile => disk'[q] = before'[q]
  BY DEF Extracted
<1>3. QED
  BY <1>1, <1>2 DEF Extracted, OldOut, WholeOut

LEMMA UnzipKeepsExtracted ==
  ASSUME Shelves, Control, Extracted, UnzipStep
  PROVE  Extracted'
<1>0. UNCHANGED <<kind, over>>
  BY WorkerReports DEF Worker, TabAside, tabVars
<1>1. CASE OpenZip \/ ExtractFails \/ BadEntry \/ SkipExisting \/ StopAtEntry \/ FinishExtract
  <2>1. UNCHANGED <<disk, before, torn>> /\ pc # "write" /\ pc' # "write"
    BY <1>1 DEF OpenZip, ExtractFails, BadEntry, SkipExisting, StopAtEntry, FinishExtract, AtEntry,
                histVars, Idle
  <2>2. QED
    BY <1>0, <2>1, AsideKeepsExtracted
<1>2. CASE CreateOut
  BY <1>2, CreateOutKeepsExtracted
<1>3. CASE CreateFails
  <2> DEFINE o == OutOf(Head(todo))
  <2>1. /\ AtEntry /\ Safe(Head(todo)) /\ ~InTheWay(Head(todo)) /\ pc = "entry" /\ pc' = "entry"
        /\ TryRemove(o) /\ UNCHANGED <<before, torn>>
    BY <1>3 DEF CreateFails, AtEntry, histVars
  <2>2. o \in Outs
    BY <2>1, NextEntry, EntryOfArchive
  <2>3. ~over => before[o] = NoFile
    BY <2>1, <2>2 DEF InTheWay, Exists, Extracted, Control, UnzipPhases
  <2> HIDE DEF o
  <2>4. disk' = disk \/ disk'[o] = NoFile
    BY <2>1, <2>2, PathKinds DEF TryRemove, Shelves, Disks
  <2>5. \A q \in Outs \ {o} : disk'[q] = disk[q]
    BY <2>1, <2>2, RemovedIsOff, PathKinds DEF Shelves
  <2>6. CASE disk' = disk
    BY <1>0, <2>1, <2>6, AsideKeepsExtracted
  <2>7. CASE disk'[o] = NoFile
    BY <1>0, <2>1, <2>2, <2>3, <2>5, <2>7, FreeOutKeepsExtracted
  <2>8. QED
    BY <2>4, <2>6, <2>7
<1>4. CASE WriteChunk
  <2>1. /\ pc = "write" /\ pc' = "write" /\ UNCHANGED <<cur, before, torn>>
    BY <1>4 DEF WriteChunk, histVars
  <2>2. \A q \in Outs \ {OutOf(cur)} : disk'[q] = disk[q]
    BY <1>4, WriteChunkKeepsShelves, PathKinds
  <2>3. kind = "unzip" /\ OutOf(cur) \in Outs /\ (~over => before[OutOf(cur)] = NoFile)
    BY <2>1, WritingAside DEF Extracted, Control, UnzipPhases
  <2>4. ASSUME NEW q \in Outs \ torn'
        PROVE  (pc' = "write" /\ OutOf(cur') = q) \/ OldOut(q)' \/ WholeOut(q)'
    BY <2>1, <2>2 DEF Extracted, OldOut, WholeOut
  <2>5. ~over' => \A q \in Outs : before'[q] # NoFile => disk'[q] = before'[q]
    BY <1>0, <2>1, <2>2, <2>3 DEF Extracted
  <2>6. QED
    BY <1>0, <2>1, <2>3, <2>4, <2>5 DEF Extracted, OldOut, WholeOut, OutOf
<1>5. CASE EndFile
  <2>1. /\ pc = "write" /\ pc' = "entry" /\ taken = cur.len /\ UNCHANGED <<disk, before, torn>>
    BY <1>5 DEF EndFile, histVars
  <2>2. disk[OutOf(cur)] = Plain(Whole(cur.name)) /\ cur.name \in Names /\ Target[cur.name] = OutOf(cur)
    BY <2>1, WritingAside, EntryOfArchive DEF Shelves, Reading, Stretch, Whole
  <2>3. WholeOut(OutOf(cur))
    BY <2>2 DEF WholeOut
  <2>4. \A q \in Outs \ torn : OldOut(q) \/ WholeOut(q)
    BY <2>3 DEF Extracted
  <2>5. QED
    BY <1>0, <2>1, <2>4 DEF Extracted, OldOut, WholeOut
<1>6. CASE EntryFails \/ StopInFile
  <2>1. pc = "write" /\ pc' # "write" /\ before' = before /\ RemoveOut
    BY <1>6 DEF EntryFails, StopInFile, Idle
  <2>2. OutOf(cur) \in Outs /\ \A q \in Outs \ {OutOf(cur)} : disk'[q] = disk[q]
    BY <2>1, OutRemoved, PathKinds
  <2>3. torn \subseteq torn' /\ (OutOf(cur) \in torn' \/ disk'[OutOf(cur)] = NoFile)
    BY <2>1, <2>2, PathKinds DEF RemoveOut, Shelves, Disks
  <2>4. ~over => before[OutOf(cur)] = NoFile
    BY <2>1 DEF Extracted
  <2>5. QED
    BY <1>0, <2>1, <2>2, <2>3, <2>4, FreeOutKeepsExtracted
<1>7. QED
  BY <1>1, <1>2, <1>3, <1>4, <1>5, <1>6 DEF UnzipStep

LEMMA ExtractedKept ==
  ASSUME Shelves, Control, Queue, Extracted, [Next]_vars
  PROVE  Extracted'
<1>1. CASE PickZip \/ Cancel \/ Poll \/ UNCHANGED vars
  <2>1. UNCHANGED <<disk, before, pc, cur, torn, kind, over>>
    BY <1>1, PollFirst DEF PickZip, Cancel, vars, workVars, histVars, tabVars
  <2>2. QED
    BY <2>1 DEF Extracted, OldOut, WholeOut, OutOf
<1>2. CASE ZipStep
  <2>1. UNCHANGED <<kind, over>>
    BY <1>2, WorkerReports DEF Worker, TabAside, tabVars
  <2>2. \A o \in Outs : o \in Paths \ {Dest, Partial}
    BY PathKinds
  <2>3. QED
    BY <1>2, <2>1, <2>2, PackingAside, AsideKeepsExtracted
<1>3. CASE UnzipStep
  BY <1>3, UnzipKeepsExtracted
<1>4. CASE Crash
  BY <1>4 DEF Crash, Idle, Extracted, OldOut, WholeOut
<1>5. CASE StartZip \/ StartUnzip
  <2>1. pc = "idle" /\ pc' # "write" /\ UNCHANGED <<disk, torn>> /\ before' = disk
    BY <1>5 DEF StartZip, StartUnzip, Start, Control
  <2>2. QED
    BY <2>1 DEF Extracted, OldOut, WholeOut
<1>6. QED
  BY <1>1, <1>2, <1>3, <1>4, <1>5, NextSteps DEF Worker

THEOREM ExtractedFilesAreWhole == Spec => []ExtractedIsWhole
<1>1. Extracted => ExtractedIsWhole
  BY DEF Extracted, ExtractedIsWhole, OldOut, WholeOut
<1>2. Spec => []Extracted
  BY ExtractedInit, ExtractedKept, JobsEndOnce, ShelvesAreSound, PTL DEF Spec
<1>3. QED
  BY <1>1, <1>2, PTL

-----------------------------------------------------------------------------
(* What is counted. *)

\* What is left to do is the end of what was wanted; the rest is behind.
Ahead ==
  /\ Len(todo) <= Len(wanted)
  /\ \A k \in 1..Len(todo) : todo[k] = wanted[Len(wanted) - Len(todo) + k]

Behind == {wanted[k] : k \in 1..(Len(wanted) - Len(todo))}

\* Every planned file is ahead, packed or counted as failed.
PackCount ==
  /\ pc \in {"plan", "create"} => sum = ZeroSum
  /\ pc \in {"create", "pack", "copy", "rename"} =>
       /\ wanted \in Seq(Files) /\ IsInjective(wanted) /\ Ahead
       /\ IsFiniteSet(Behind) /\ PackedNames(toc) \subseteq Behind
       /\ sum.failed = Cardinality(Behind \ PackedNames(toc))
  /\ pc \in {"create", "pack", "rename"} => sum.files = Len(toc)
  /\ pc = "copy" => sum.files + 1 = Len(toc)
  /\ pc = "rename" => todo = <<>>

\* One step on: one more is behind, and it was not there before.
LEMMA StepAhead ==
  ASSUME NEW T, wanted \in Seq(T), todo \in Seq(T), Ahead, todo # <<>>,
         todo' = Tail(todo), wanted' = wanted
  PROVE  /\ Ahead'
         /\ Behind' = Behind \union {Head(todo)}
         /\ Head(todo) \in Range(wanted)
         /\ IsInjective(wanted) => Head(todo) \notin Behind
         /\ Len(todo') = Len(todo) - 1 /\ Len(todo) \in Nat /\ Len(wanted) \in Nat
<1> DEFINE m == Len(todo)
<1> DEFINE w == Len(wanted)
<1>1. /\ m \in Nat /\ m # 0 /\ w \in Nat /\ Len(todo') = m - 1 /\ m <= w
      /\ Head(todo) = todo[1] /\ \A k \in 1..m - 1 : todo'[k] = todo[k + 1]
      /\ Len(wanted') = w
  BY DEF Ahead
<1>2. \A k \in 1..m : todo[k] = wanted[w - m + k]
  BY DEF Ahead
<1> HIDE DEF m, w
<1>3. Head(todo) = wanted[w - m + 1] /\ w - m + 1 \in 1..w
  BY <1>1, <1>2
<1>4. ASSUME NEW k \in 1..m - 1 PROVE todo'[k] = wanted[w - (m - 1) + k]
  <2>1. k + 1 \in 1..m /\ w - m + (k + 1) = w - (m - 1) + k
    BY <1>1
  <2>2. todo'[k] = wanted[w - m + (k + 1)]
    BY <1>1, <1>2, <2>1
  <2>3. QED
    BY <2>1, <2>2
<1>5. Ahead'
  <2>1. m - 1 <= w
    BY <1>1
  <2>2. QED
    BY <1>1, <1>4, <2>1 DEF Ahead
<1>6. 1..(w - (m - 1)) = 1..(w - m) \union {w - m + 1}
  BY <1>1
<1>7. Behind' = {wanted[k] : k \in 1..(w - (m - 1))} /\ Behind = {wanted[k] : k \in 1..(w - m)}
  BY <1>1 DEF Behind, m, w
<1>8. Behind' = Behind \union {Head(todo)}
  BY <1>3, <1>6, <1>7
<1>9. ASSUME IsInjective(wanted) PROVE Head(todo) \notin Behind
  <2>1. ASSUME NEW k \in 1..(w - m) PROVE wanted[k] # wanted[w - m + 1]
    <3>1. k \in 1..w /\ k # w - m + 1 /\ DOMAIN wanted = 1..w
      BY <1>1 DEF w
    <3>2. QED
      BY <1>3, <1>9, <3>1 DEF IsInjective
  <2>2. QED
    BY <1>3, <1>7, <2>1
<1>10. Head(todo) \in Range(wanted)
  <2>1. DOMAIN wanted = 1..w
    BY DEF w
  <2>2. QED
    BY <1>3, <2>1 DEF Range
<1>11. QED
  BY <1>1, <1>5, <1>8, <1>9, <1>10 DEF m, w

\* At first all is ahead, in the end all is behind.
LEMMA AllAhead ==
  ASSUME NEW T, wanted' \in Seq(T), todo' = wanted'
  PROVE  Ahead' /\ Behind' = {}
<1>1. Len(wanted') \in Nat /\ Len(todo') = Len(wanted')
  OBVIOUS
<1>2. 1..(Len(wanted') - Len(todo')) = {}
  BY <1>1
<1>3. \A k \in 1..Len(todo') : k = Len(wanted') - Len(todo') + k
  BY <1>1
<1>4. QED
  BY <1>1, <1>2, <1>3 DEF Ahead, Behind

LEMMA AllBehind ==
  ASSUME NEW T, wanted \in Seq(T), todo = <<>>
  PROVE  Behind = Range(wanted)
<1>1. Len(wanted) \in Nat /\ Len(todo) = 0 /\ DOMAIN wanted = 1..Len(wanted)
  OBVIOUS
<1>2. 1..(Len(wanted) - Len(todo)) = 1..Len(wanted)
  BY <1>1
<1>3. QED
  BY <1>1, <1>2 DEF Behind, Range

LEMMA NamesPacked ==
  ASSUME NEW table \in Seq(Entry), NEW e \in Entry
  PROVE  /\ PackedNames(Append(table, e)) = PackedNames(table) \union {e.name}
         /\ PackedNames(<<>>) = {}
<1>1. /\ Len(table) \in Nat /\ Len(Append(table, e)) = Len(table) + 1
      /\ DOMAIN table = 1..Len(table) /\ DOMAIN Append(table, e) = 1..Len(table) + 1
      /\ Append(table, e)[Len(table) + 1] = e
      /\ \A k \in 1..Len(table) : Append(table, e)[k] = table[k]
  BY AppendProperties
<1>2. 1..Len(table) + 1 = 1..Len(table) \union {Len(table) + 1}
  BY <1>1
<1>3. Range(Append(table, e)) = Range(table) \union {e}
  BY <1>1, <1>2 DEF Range
<1>4. Range(<<>>) = {}
  BY DEF Range
<1>5. QED
  BY <1>3, <1>4 DEF PackedNames

LEMMA PackCountInit == Init => PackCount
BY DEF Init, PackCount

\* Steps of the tab, and steps that take the worker out of the packing.
LEMMA AsideKeepsPackCount ==
  ASSUME PackCount, UNCHANGED <<pc, todo, wanted, toc, sum>>
  PROVE  PackCount'
BY DEF PackCount, Ahead, Behind, PackedNames

LEMMA NotPackingKeepsPackCount ==
  ASSUME pc' \notin {"plan", "create", "pack", "copy", "rename"}
  PROVE  PackCount'
BY DEF PackCount

LEMMA PlanZipKeepsPackCount ==
  ASSUME Shelves, PackCount, PlanZip
  PROVE  PackCount'
<1>1. /\ pc = "plan" /\ pc' = "create" /\ todo' = wanted' /\ wanted' = Planned /\ IsInjective(Planned)
      /\ UNCHANGED <<toc, sum>>
  BY DEF PlanZip
<1>2. Shelves' /\ todo' \in Seq(Files) /\ toc' = <<>>
  BY <1>1, PlanZipKeepsShelves DEF Shelves, Packing
<1>3. wanted' \in Seq(Files) /\ IsInjective(wanted')
  BY <1>1, <1>2
<1>4. Ahead' /\ Behind' = {}
  BY <1>1, <1>3, AllAhead
<1>5. PackedNames(toc') = {}
  BY <1>2 DEF PackedNames, Range
<1>6. sum' = ZeroSum /\ ZeroSum.failed = 0 /\ ZeroSum.files = 0 /\ Len(toc') = 0
  BY <1>1, <1>2 DEF PackCount, ZeroSum
<1>7. IsFiniteSet(Behind') /\ Cardinality(Behind' \ PackedNames(toc')) = 0
  BY <1>4, <1>5, FS_EmptySet
<1>8. PackedNames(toc)' = PackedNames(toc')
  BY DEF PackedNames
<1>9. QED
  BY <1>1, <1>3, <1>4, <1>5, <1>6, <1>7, <1>8 DEF PackCount

\* The planned files as a step of the worker goes from one to the next.
LEMMA PackingStep ==
  ASSUME Shelves, PackCount, pc = "pack", todo # <<>>, todo' = Tail(todo), wanted' = wanted
  PROVE  /\ Ahead' /\ IsFiniteSet(Behind') /\ Behind' = Behind \union {Head(todo)}
         /\ Head(todo) \notin Behind /\ Head(todo) \in Files
         /\ Behind' \ PackedNames(toc) = (Behind \ PackedNames(toc)) \union {Head(todo)}
         /\ Behind' \ (PackedNames(toc) \union {Head(todo)}) = Behind \ PackedNames(toc)
         /\ IsFiniteSet(Behind \ PackedNames(toc))
<1>1. /\ wanted \in Seq(Files) /\ IsInjective(wanted) /\ Ahead
      /\ IsFiniteSet(Behind) /\ PackedNames(toc) \subseteq Behind
      /\ todo \in Seq(Files)
  BY DEF PackCount, Shelves, Packing
<1>2. /\ Ahead' /\ Behind' = Behind \union {Head(todo)} /\ Head(todo) \notin Behind
      /\ Head(todo) \in Files
  BY <1>1, StepAhead
<1>3. IsFiniteSet(Behind') /\ IsFiniteSet(Behind \ PackedNames(toc))
  BY <1>1, <1>2, FS_AddElement, FS_Difference
<1>4. QED
  BY <1>1, <1>2, <1>3

LEMMA SkipEntryKeepsPackCount ==
  ASSUME Shelves, PackCount, Control, SkipEntry
  PROVE  PackCount'
<1>1. /\ pc = "pack" /\ pc' = "pack" /\ todo # <<>> /\ todo' = Tail(todo)
      /\ sum' = [sum EXCEPT !.failed = @ + 1] /\ UNCHANGED <<wanted, toc>>
  BY DEF SkipEntry, Counted, histVars
<1>2. sum'.failed = sum.failed + 1 /\ sum'.files = sum.files
  BY <1>1 DEF Control, Summary
<1>3. /\ Ahead' /\ IsFiniteSet(Behind') /\ Behind' = Behind \union {Head(todo)}
      /\ Head(todo) \notin Behind
      /\ Behind' \ PackedNames(toc) = (Behind \ PackedNames(toc)) \union {Head(todo)}
      /\ IsFiniteSet(Behind \ PackedNames(toc))
  BY <1>1, PackingStep
<1>4. Cardinality(Behind' \ PackedNames(toc)) = Cardinality(Behind \ PackedNames(toc)) + 1
  BY <1>3, FS_AddElement
<1>5. sum'.failed = Cardinality(Behind' \ PackedNames(toc))
  BY <1>1, <1>2, <1>4 DEF PackCount
<1>6. PackedNames(toc)' = PackedNames(toc) /\ PackedNames(toc) \subseteq Behind'
  BY <1>1, <1>3 DEF PackCount, PackedNames
<1>7. QED
  BY <1>1, <1>2, <1>3, <1>5, <1>6 DEF PackCount

LEMMA BeginEntryKeepsPackCount ==
  ASSUME Shelves, PackCount, Control, BeginEntry
  PROVE  PackCount'
<1> DEFINE e == [name |-> Head(todo), from |-> Len(disk[Partial].bytes) + 2, len |-> 0]
<1>1. /\ pc = "pack" /\ pc' = "copy" /\ todo # <<>> /\ todo' = Tail(todo)
      /\ toc' = Append(toc, e) /\ UNCHANGED <<wanted, sum>>
  BY DEF BeginEntry, histVars, Building
<1>2. /\ Ahead' /\ IsFiniteSet(Behind') /\ Behind' = Behind \union {Head(todo)}
      /\ Head(todo) \in Files
      /\ Behind' \ (PackedNames(toc) \union {Head(todo)}) = Behind \ PackedNames(toc)
  BY <1>1, PackingStep
<1>3. e \in Entry /\ e.name = Head(todo) /\ toc \in Seq(Entry)
  <2>1. Len(disk[Partial].bytes) + 2 \in Nat
    <3>1. disk[Partial].bytes \in Seq(Atoms)
      BY <1>1, PathKinds, FileParts DEF Shelves, Disks, Packing
    <3>2. QED
      BY <3>1
  <2>2. QED
    BY <1>2, <2>1, PathKinds DEF Entry, Shelves, Disks
<1> HIDE DEF e
<1>4. PackedNames(toc') = PackedNames(toc) \union {Head(todo)} /\ Len(toc') = Len(toc) + 1
  BY <1>1, <1>3, NamesPacked
<1>5. PackedNames(toc)' = PackedNames(toc')
  BY DEF PackedNames
<1>6. sum.failed = Cardinality(Behind \ PackedNames(toc)) /\ sum.files = Len(toc)
      /\ PackedNames(toc) \subseteq Behind /\ wanted \in Seq(Files) /\ IsInjective(wanted)
  BY <1>1 DEF PackCount
<1>7. QED
  BY <1>1, <1>2, <1>4, <1>5, <1>6 DEF PackCount

LEMMA SameNames ==
  ASSUME NEW table, NEW other, DOMAIN other = DOMAIN table,
         \A k \in DOMAIN table : other[k].name = table[k].name
  PROVE  PackedNames(other) = PackedNames(table)
<1>1. \A e \in Range(other) : \E f \in Range(table) : e.name = f.name
  BY DEF Range
<1>2. \A f \in Range(table) : \E e \in Range(other) : e.name = f.name
  BY DEF Range
<1>3. ASSUME NEW x PROVE x \in PackedNames(other) <=> x \in PackedNames(table)
  BY <1>1, <1>2 DEF PackedNames
<1>4. QED
  BY <1>3

\* The names do not change as an entry grows.
LEMMA GrowingKeepsNames ==
  ASSUME toc \in Seq(Entry), Len(toc) # 0, NEW n \in Nat,
         toc' = [toc EXCEPT ![Len(toc)].len = n]
  PROVE  PackedNames(toc') = PackedNames(toc) /\ Len(toc') = Len(toc)
<1> DEFINE m == Len(toc)
<1> DEFINE longer == [toc[m] EXCEPT !.len = n]
<1>1. m \in Nat /\ m \in 1..Len(toc) /\ toc[m] \in Entry /\ DOMAIN toc = 1..m
  OBVIOUS
<1>2. longer \in Entry /\ longer.name = toc[m].name
  BY <1>1, EntryParts
<1>3. toc' = [toc EXCEPT ![m] = longer]
  BY Zenon
<1> HIDE DEF longer
<1>4. /\ toc' \in Seq(Entry) /\ Len(toc') = Len(toc) /\ DOMAIN toc' = 1..m
      /\ \A k \in 1..m : toc'[k].name = toc[k].name
  BY <1>1, <1>2, <1>3, ExceptSeq
<1> HIDE DEF m
<1>5. PackedNames(toc') = PackedNames(toc)
  BY <1>1, <1>4, SameNames
<1>6. QED
  BY <1>4, <1>5

LEMMA PackChunkKeepsPackCount ==
  ASSUME Shelves, PackCount, PackChunk
  PROVE  PackCount'
<1>1. /\ pc = "copy" /\ pc' = "copy" /\ toc' = [toc EXCEPT ![Len(toc)].len = taken + 1]
      /\ UNCHANGED <<todo, wanted, sum>>
  BY DEF PackChunk, histVars
<1>2. toc \in Seq(Entry) /\ Len(toc) # 0 /\ taken + 1 \in Nat
  BY <1>1 DEF Shelves, Disks, Packing
<1>3. PackedNames(toc') = PackedNames(toc) /\ Len(toc') = Len(toc)
  BY <1>1, <1>2, GrowingKeepsNames
<1>4. PackedNames(toc)' = PackedNames(toc') /\ Behind' = Behind /\ (Ahead' <=> Ahead)
  BY <1>1 DEF PackedNames, Behind, Ahead
<1>5. QED
  BY <1>1, <1>3, <1>4 DEF PackCount

LEMMA EndsOfEntriesKeepPackCount ==
  ASSUME Shelves, PackCount, Control, CreatePartial \/ EndEntry \/ FinishZip
  PROVE  PackCount'
<1>1. /\ UNCHANGED <<todo, wanted, toc>>
      /\ \/ pc = "create" /\ pc' = "pack" /\ sum' = sum
         \/ pc = "copy" /\ pc' = "pack" /\ sum' = [sum EXCEPT !.files = @ + 1]
         \/ pc = "pack" /\ pc' = "rename" /\ todo = <<>> /\ sum' = sum
  BY DEF CreatePartial, EndEntry, FinishZip, histVars, Counted
<1>2. sum'.failed = sum.failed /\ (pc = "copy" => sum'.files = sum.files + 1)
  BY <1>1 DEF Control, Summary
<1>3. PackedNames(toc)' = PackedNames(toc) /\ Behind' = Behind /\ (Ahead' <=> Ahead)
  BY <1>1 DEF PackedNames, Behind, Ahead
<1>4. QED
  BY <1>1, <1>2, <1>3 DEF PackCount

LEMMA PackCountKept ==
  ASSUME Shelves, Control, Queue, PackCount, [Next]_vars
  PROVE  PackCount'
<1>1. CASE PickZip \/ Cancel \/ Poll \/ UNCHANGED vars
  <2>1. UNCHANGED <<pc, todo, wanted, toc, sum>>
    BY <1>1, PollFirst DEF PickZip, Cancel, vars, workVars, histVars
  <2>2. QED
    BY <2>1, AsideKeepsPackCount
<1>2. CASE PlanFails \/ Rename \/ ZipFails \/ StopZip \/ Crash
  BY <1>2, NotPackingKeepsPackCount DEF PlanFails, Rename, ZipFails, StopZip, Crash, Idle
<1>3. CASE ZipStep
  BY <1>2, <1>3, PlanZipKeepsPackCount, SkipEntryKeepsPackCount, BeginEntryKeepsPackCount,
     PackChunkKeepsPackCount, EndsOfEntriesKeepPackCount DEF ZipStep
<1>4. CASE UnzipStep
  <2>1. pc \in UnzipPhases
    BY <1>4 DEF UnzipStep, OpenZip, ExtractFails, BadEntry, SkipExisting, CreateOut, CreateFails,
                WriteChunk, EndFile, EntryFails, StopAtEntry, StopInFile, FinishExtract, AtEntry,
                UnzipPhases
  <2>2. pc' \in UnzipPhases \union {"idle"}
    BY <1>4, <2>1, WorkerPhases DEF Worker
  <2>3. QED
    BY <2>2, NotPackingKeepsPackCount DEF UnzipPhases
<1>5. CASE StartZip \/ StartUnzip
  <2>1. pc' \in {"plan", "open"} /\ sum' = ZeroSum
    BY <1>5 DEF StartZip, StartUnzip, Start
  <2>2. QED
    BY <2>1 DEF PackCount
<1>6. QED
  BY <1>1, <1>2, <1>3, <1>4, <1>5, NextSteps DEF Worker

\* Every entry of the archive is ahead, being written or counted, and what is
\* counted as extracted is in its place.
ReadCount ==
  /\ pc = "open" => sum = ZeroSum
  /\ pc \in {"entry", "write"} =>
       /\ wanted = disk[Dest].toc /\ Ahead
       /\ sum.files + sum.skipped + sum.failed + Len(todo) + (IF pc = "write" THEN 1 ELSE 0)
            = Len(wanted)
       /\ sum.failed = 0 /\ sum.skipped = 0 =>
            \A e \in Behind : Safe(e) /\ ((pc = "write" /\ OutOf(e) = OutOf(cur)) \/ InPlace(e))

\* The entries a reading worker is about.
LEMMA ReadingEntries ==
  ASSUME Shelves, ReadCount, pc \in {"entry", "write"}
  PROVE  /\ wanted \in Seq(Entry) /\ todo \in Seq(Entry) /\ IsArchive(disk[Dest])
         /\ Len(wanted) \in Nat /\ Len(todo) \in Nat /\ Ahead
         /\ Behind \subseteq Range(wanted)
         /\ \A e \in Range(wanted) : Safe(e) => OutOf(e) \in Outs
<1>1. wanted = disk[Dest].toc /\ Ahead /\ IsArchive(disk[Dest]) /\ todo \in Seq(Entry)
  BY DEF ReadCount, Shelves, Reading
<1>2. wanted \in Seq(Entry)
  BY <1>1, ArchiveIsSound DEF Shelves
<1>3. Len(wanted) \in Nat /\ Len(todo) \in Nat /\ DOMAIN wanted = 1..Len(wanted)
  BY <1>1, <1>2
<1>4. 1..(Len(wanted) - Len(todo)) \subseteq 1..Len(wanted)
  BY <1>3
<1>5. Behind \subseteq Range(wanted)
  BY <1>3, <1>4 DEF Behind, Range
<1>6. \A e \in Range(wanted) : Safe(e) => OutOf(e) \in Outs
  BY <1>1, EntryOfArchive
<1>7. QED
  BY <1>1, <1>2, <1>3, <1>5, <1>6

\* A place that is left alone, and the archive with it, stays right.
LEMMA PlaceStays ==
  ASSUME NEW e, InPlace(e), wanted' = wanted, disk'[Dest] = disk[Dest],
         disk'[OutOf(e)] = disk[OutOf(e)]
  PROVE  InPlace(e)'
BY DEF InPlace, OutOf

LEMMA ReadCountInit == Init => ReadCount
BY DEF Init, ReadCount

LEMMA AsideKeepsReadCount ==
  ASSUME ReadCount, UNCHANGED <<disk, pc, todo, cur, sum, wanted>>
  PROVE  ReadCount'
BY DEF ReadCount, Ahead, Behind, Safe, OutOf, InPlace

LEMMA NotReadingKeepsReadCount ==
  ASSUME pc' \notin {"open", "entry", "write"}
  PROVE  ReadCount'
BY DEF ReadCount

LEMMA OpenZipKeepsReadCount ==
  ASSUME Shelves, ReadCount, OpenZip
  PROVE  ReadCount'
<1>1. /\ pc = "open" /\ pc' = "entry" /\ IsArchive(disk[Dest])
      /\ todo' = wanted' /\ wanted' = disk[Dest].toc /\ disk' = disk /\ sum' = sum
  BY DEF OpenZip
<1>2. wanted' \in Seq(Entry) /\ Len(wanted') \in Nat
  BY <1>1, ArchiveIsSound DEF Shelves
<1>3. Ahead' /\ Behind' = {}
  BY <1>1, <1>2, AllAhead
<1>4. sum' = ZeroSum /\ ZeroSum.files = 0 /\ ZeroSum.skipped = 0 /\ ZeroSum.failed = 0
  BY <1>1 DEF ReadCount, ZeroSum
<1>5. sum'.files + sum'.skipped + sum'.failed + Len(todo') + 0 = Len(wanted')
  BY <1>1, <1>2, <1>4
<1>6. QED
  BY <1>1, <1>3, <1>5 DEF ReadCount

\* What is left as the worker takes the next entry.
LEMMA NextEntryCounted ==
  ASSUME Shelves, Control, ReadCount, AtEntry, todo' = Tail(todo), wanted' = wanted
  PROVE  /\ Ahead' /\ Behind' = Behind \union {Head(todo)}
         /\ Len(todo') + 1 = Len(todo) /\ Len(todo') \in Nat
         /\ sum \in Summary
         /\ sum.files + sum.skipped + sum.failed + Len(todo') + 1 = Len(wanted)
<1>1. pc = "entry" /\ todo # <<>>
  BY DEF AtEntry
<1>2. wanted \in Seq(Entry) /\ todo \in Seq(Entry) /\ Ahead
  BY <1>1, ReadingEntries
<1>3. /\ Ahead' /\ Behind' = Behind \union {Head(todo)}
      /\ Len(todo') = Len(todo) - 1 /\ Len(todo) \in Nat
  BY <1>1, <1>2, StepAhead
<1>4. sum.files + sum.skipped + sum.failed + Len(todo) + 0 = Len(wanted)
  BY <1>1 DEF ReadCount
<1>5. Len(todo) # 0
  BY <1>1, <1>2
<1>6. sum.files \in Nat /\ sum.skipped \in Nat /\ sum.failed \in Nat /\ sum \in Summary
  BY DEF Control, Summary
<1>7. QED
  BY <1>3, <1>4, <1>5, <1>6

LEMMA LeftOutKeepsReadCount ==
  ASSUME Shelves, Control, ReadCount, BadEntry \/ SkipExisting \/ CreateFails
  PROVE  ReadCount'
<1>1. AtEntry /\ pc' = "entry" /\ todo' = Tail(todo) /\ wanted' = wanted
  BY DEF BadEntry, SkipExisting, CreateFails, histVars, AtEntry
<1>2. /\ Ahead' /\ Len(todo') \in Nat /\ sum \in Summary
      /\ sum.files + sum.skipped + sum.failed + Len(todo') + 1 = Len(wanted)
  BY <1>1, NextEntryCounted
<1>3. /\ sum'.files + sum'.skipped + sum'.failed = sum.files + sum.skipped + sum.failed + 1
      /\ sum'.failed # 0 \/ sum'.skipped # 0
  <2>1. sum' = [sum EXCEPT !.failed = @ + 1] \/ sum' = [sum EXCEPT !.skipped = @ + 1]
    BY DEF BadEntry, SkipExisting, CreateFails, Counted
  <2>2. sum.files \in Nat /\ sum.skipped \in Nat /\ sum.failed \in Nat
    BY <1>2 DEF Summary
  <2>3. \/ sum'.files = sum.files /\ sum'.skipped = sum.skipped /\ sum'.failed = sum.failed + 1
        \/ sum'.files = sum.files /\ sum'.skipped = sum.skipped + 1 /\ sum'.failed = sum.failed
    BY <1>2, <2>1 DEF Summary
  <2>4. QED
    BY <2>2, <2>3
<1>4. disk'[Dest] = disk[Dest]
  <2>1. CASE UNCHANGED disk
    BY <2>1
  <2>2. CASE CreateFails
    <3>1. Safe(Head(todo)) /\ TryRemove(OutOf(Head(todo)))
      BY <2>2 DEF CreateFails
    <3>2. OutOf(Head(todo)) \in Outs
      BY <1>1, <3>1, NextEntry, EntryOfArchive
    <3>3. QED
      BY <3>1, <3>2, RemovedIsOff, PathKinds DEF Shelves
  <2>3. QED
    BY <2>1, <2>2 DEF BadEntry, SkipExisting
<1>5. wanted = disk[Dest].toc
  BY <1>1 DEF ReadCount, AtEntry
<1>6. sum'.files + sum'.skipped + sum'.failed + Len(todo') + 0 = Len(wanted')
  <2>1. sum.files \in Nat /\ sum.skipped \in Nat /\ sum.failed \in Nat
    BY <1>2 DEF Summary
  <2>2. QED
    BY <1>1, <1>2, <1>3, <2>1
<1>7. QED
  BY <1>1, <1>2, <1>3, <1>4, <1>5, <1>6 DEF ReadCount

LEMMA CreateOutKeepsReadCount ==
  ASSUME Shelves, Control, ReadCount, CreateOut
  PROVE  ReadCount'
<1> DEFINE next == Head(todo)
<1>1. /\ AtEntry /\ pc = "entry" /\ pc' = "write" /\ Safe(next) /\ cur' = next
      /\ todo' = Tail(todo) /\ disk' = [disk EXCEPT ![OutOf(next)] = Plain(<<>>)]
      /\ wanted' = wanted /\ sum' = sum
  BY DEF CreateOut, AtEntry
<1>2. /\ Ahead' /\ Len(todo') \in Nat /\ Behind' = Behind \union {next}
      /\ sum.files + sum.skipped + sum.failed + Len(todo') + 1 = Len(wanted)
  BY <1>1, NextEntryCounted
<1>3. OutOf(next) \in Outs
  BY <1>1, NextEntry, EntryOfArchive
<1> HIDE DEF next
<1>4. /\ disk'[Dest] = disk[Dest]
      /\ \A q \in Paths \ {OutOf(next)} : disk'[q] = disk[q]
  BY <1>1, <1>3, PathKinds DEF Shelves, Disks
<1>5. ASSUME sum'.failed = 0, sum'.skipped = 0, NEW e \in Behind'
      PROVE  Safe(e) /\ (OutOf(e) = OutOf(next) \/ InPlace(e)')
  <2>1. CASE e = next
    BY <1>1, <2>1
  <2>2. CASE e \in Behind /\ OutOf(e) # OutOf(next)
    <3>1. Safe(e) /\ InPlace(e)
      BY <1>1, <1>5, <2>2 DEF ReadCount
    <3>2. OutOf(e) \in Paths
      BY <1>1, <2>2, <3>1, ReadingEntries, PathKinds
    <3>3. QED
      BY <1>1, <1>4, <2>2, <3>1, <3>2, PlaceStays
  <2>3. CASE e \in Behind /\ OutOf(e) = OutOf(next)
    BY <1>1, <1>5, <2>3 DEF ReadCount
  <2>4. QED
    BY <1>2, <2>1, <2>2, <2>3
<1>6. wanted' = disk'[Dest].toc
  BY <1>1, <1>4 DEF ReadCount
<1>7. sum'.files + sum'.skipped + sum'.failed + Len(todo') + 1 = Len(wanted')
  BY <1>1, <1>2
<1>8. OutOf(next) = OutOf(cur') /\ \A e : Safe(e)' = Safe(e) /\ OutOf(e)' = OutOf(e)
  BY <1>1 DEF Safe, OutOf
<1>9. QED
  BY <1>1, <1>2, <1>5, <1>6, <1>7, <1>8 DEF ReadCount, OutOf

LEMMA WriteChunkKeepsReadCount ==
  ASSUME Shelves, ReadCount, WriteChunk
  PROVE  ReadCount'
<1>1. pc = "write" /\ pc' = "write" /\ UNCHANGED <<todo, cur, sum, wanted>>
  BY DEF WriteChunk, histVars
<1>2. OutOf(cur) \in Outs
  BY <1>1, WritingAside
<1>3. disk'[Dest] = disk[Dest] /\ \A q \in Paths \ {OutOf(cur)} : disk'[q] = disk[q]
  BY <1>2, WriteChunkKeepsShelves, PathKinds
<1>4. Behind' = Behind /\ (Ahead' <=> Ahead)
  BY <1>1 DEF Behind, Ahead
<1>5. ASSUME sum.failed = 0, sum.skipped = 0, NEW e \in Behind
      PROVE  Safe(e) /\ (OutOf(e) = OutOf(cur) \/ InPlace(e)')
  <2>1. Safe(e) /\ (OutOf(e) = OutOf(cur) \/ InPlace(e))
    BY <1>1, <1>5 DEF ReadCount
  <2>2. OutOf(e) \in Paths
    BY <1>1, <2>1, ReadingEntries, PathKinds
  <2>3. QED
    BY <1>1, <1>3, <2>1, <2>2, PlaceStays
<1>6. \A e : (Safe(e)' <=> Safe(e)) /\ OutOf(e)' = OutOf(e)
  BY DEF Safe, OutOf
<1>7. OutOf(cur)' = OutOf(cur)
  BY <1>1 DEF OutOf
<1>8. QED
  BY <1>1, <1>3, <1>4, <1>5, <1>6, <1>7 DEF ReadCount

LEMMA EndFileKeepsReadCount ==
  ASSUME Shelves, Control, ReadCount, EndFile
  PROVE  ReadCount'
<1>1. /\ pc = "write" /\ pc' = "entry" /\ taken = cur.len
      /\ sum' = [sum EXCEPT !.files = @ + 1] /\ UNCHANGED <<disk, todo, wanted>>
  BY DEF EndFile, histVars, Counted
<1>2. /\ sum'.files = sum.files + 1 /\ sum'.skipped = sum.skipped /\ sum'.failed = sum.failed
      /\ sum.files \in Nat /\ sum.skipped \in Nat /\ sum.failed \in Nat
  BY <1>1 DEF Control, Summary
<1>3. /\ cur \in Range(wanted) /\ disk[OutOf(cur)] = Plain(Data(disk[Dest], cur))
  <2>1. /\ cur \in Range(disk[Dest].toc) /\ IsArchive(disk[Dest])
        /\ disk[OutOf(cur)] = Plain(Stretch(cur.name, cur.len))
    BY <1>1 DEF Shelves, Reading
  <2>2. QED
    BY <1>1, <2>1, EntryOfArchive DEF ReadCount
<1>4. ASSUME sum.failed = 0, sum.skipped = 0, NEW e \in Behind
      PROVE  Safe(e) /\ InPlace(e)
  BY <1>1, <1>3, <1>4 DEF ReadCount, InPlace
<1>5. Behind' = Behind /\ (Ahead' <=> Ahead)
  BY <1>1 DEF Behind, Ahead
<1>6. \A e : (Safe(e)' <=> Safe(e)) /\ (InPlace(e)' <=> InPlace(e))
  BY <1>1 DEF Safe, OutOf, InPlace
<1>7. Len(todo) \in Nat /\ Len(wanted) \in Nat
  BY <1>1, ReadingEntries
<1>8. sum'.files + sum'.skipped + sum'.failed + Len(todo') + 0 = Len(wanted')
  BY <1>1, <1>2, <1>7 DEF ReadCount
<1>9. QED
  BY <1>1, <1>2, <1>4, <1>5, <1>6, <1>8 DEF ReadCount

LEMMA EntryFailsKeepsReadCount ==
  ASSUME Shelves, Control, ReadCount, EntryFails
  PROVE  ReadCount'
<1>1. /\ pc = "write" /\ pc' = "entry" /\ RemoveOut
      /\ sum' = [sum EXCEPT !.failed = @ + 1] /\ UNCHANGED <<todo, wanted>>
  BY DEF EntryFails, histVars, Counted
<1>2. /\ sum'.failed = sum.failed + 1 /\ sum'.skipped = sum.skipped /\ sum'.files = sum.files
      /\ sum.files \in Nat /\ sum.skipped \in Nat /\ sum.failed \in Nat
  BY <1>1 DEF Control, Summary
<1>3. disk'[Dest] = disk[Dest]
  BY <1>1, OutRemoved
<1>4. Ahead' <=> Ahead
  BY <1>1 DEF Ahead
<1>5. Len(todo) \in Nat /\ Len(wanted) \in Nat
  BY <1>1, ReadingEntries
<1>6. sum'.files + sum'.skipped + sum'.failed + Len(todo') + 0 = Len(wanted')
  BY <1>1, <1>2, <1>5 DEF ReadCount
<1>7. QED
  BY <1>1, <1>2, <1>3, <1>4, <1>6 DEF ReadCount

LEMMA ReadCountKept ==
  ASSUME Shelves, Control, Queue, ReadCount, [Next]_vars
  PROVE  ReadCount'
<1>1. CASE PickZip \/ Cancel \/ Poll \/ UNCHANGED vars
  <2>1. UNCHANGED <<disk, pc, todo, cur, sum, wanted>>
    BY <1>1, PollFirst DEF PickZip, Cancel, vars, workVars, histVars
  <2>2. QED
    BY <2>1, AsideKeepsReadCount
<1>2. CASE ExtractFails \/ StopAtEntry \/ StopInFile \/ FinishExtract \/ Crash
  BY <1>2, NotReadingKeepsReadCount
     DEF ExtractFails, StopAtEntry, StopInFile, FinishExtract, Crash, Idle
<1>3. CASE UnzipStep
  BY <1>2, <1>3, OpenZipKeepsReadCount, LeftOutKeepsReadCount, CreateOutKeepsReadCount,
     WriteChunkKeepsReadCount, EndFileKeepsReadCount, EntryFailsKeepsReadCount DEF UnzipStep
<1>4. CASE ZipStep
  <2>1. pc \in ZipPhases
    BY <1>4 DEF ZipStep, PlanZip, PlanFails, CreatePartial, SkipEntry, BeginEntry, PackChunk, EndEntry,
                FinishZip, Rename, ZipFails, StopZip, ZipPhases
  <2>2. pc' \in ZipPhases \union {"idle"}
    BY <1>4, <2>1, WorkerPhases DEF Worker
  <2>3. QED
    BY <2>2, NotReadingKeepsReadCount DEF ZipPhases
<1>5. CASE StartZip \/ StartUnzip
  <2>1. pc' \in {"plan", "open"} /\ sum' = ZeroSum
    BY <1>5 DEF StartZip, StartUnzip, Start
  <2>2. QED
    BY <2>1 DEF ReadCount
<1>6. QED
  BY <1>1, <1>2, <1>3, <1>4, <1>5, NextSteps DEF Worker

-----------------------------------------------------------------------------
(* What the tab says. *)

EndedIn(k) == \E n \in 1..Len(events) : events[n].kind = k

\* OutcomeIsTrue, and what is true while the outcome is on its way.
Told ==
  /\ kind = "zip" /\ (pc # "idle" \/ EndedIn("Cancelled") \/ outcome \in {"failed", "cancelled"}) =>
       disk[Dest] = before[Dest]
  /\ kind = "zip" /\ EndedIn("Finished") => PackedAsCounted(sum)
  /\ kind = "zip" /\ outcome = "done" => PackedAsCounted(told)
  /\ kind = "unzip" /\ EndedIn("Finished") => ExtractedAsCounted(sum)
  /\ kind = "unzip" /\ outcome = "done" => ExtractedAsCounted(told)

\* Of the events of a working worker none ends its job, so what ends it now is new.
LEMMA EndsAreNew ==
  ASSUME Queue, pc # "idle", NEW es \in Seq(Events), events' = events \o es,
         NEW k, k # "FileError", EndedIn(k)'
  PROVE  \E n \in 1..Len(es) : es[n].kind = k
<1>1. /\ events \in Seq(Events) /\ Len(events) \in Nat /\ Len(es) \in Nat
      /\ \A n \in 1..Len(events) : events[n].kind = "FileError"
  <2>1. \A n \in 1..Len(events) : events[n].kind = "FileError"
    BY DEF Queue
  <2>2. QED
    BY <2>1, LenProperties DEF Queue
<1>2. /\ Len(events') = Len(events) + Len(es)
      /\ \A n \in 1..Len(events') :
           events'[n] = IF n <= Len(events) THEN events[n] ELSE es[n - Len(events)]
  BY <1>1, ConcatProperties
<1>3. PICK n \in 1..Len(events') : events'[n].kind = k
  BY DEF EndedIn
<1>4. n > Len(events) /\ n - Len(events) \in 1..Len(es) /\ events'[n] = es[n - Len(events)]
  BY <1>1, <1>2, <1>3
<1>5. QED
  BY <1>3, <1>4

\* A job that ends well ends by Rename or FinishExtract.
LEMMA WorkerEnds ==
  ASSUME Worker, Control, Queue
  PROVE  /\ EndedIn("Finished")' => Rename \/ FinishExtract
         /\ Rename => pc' = "idle" /\ ~EndedIn("Cancelled")'
<1>0. pc # "idle"
  BY WorkerReports
<1>1. ~EndedIn("Finished") /\ ~EndedIn("Cancelled")
  BY <1>0 DEF Queue, EndedIn
<1>2. \A k \in {"FileError", "Finished", "Cancelled"} : Event(k) \in Events /\ Event(k).kind = k
  BY DEF Event, Events, Control
<1>3. ASSUME ~Rename, ~FinishExtract PROVE ~EndedIn("Finished")'
  <2>1. \/ events' = events
        \/ events' = events \o <<Event("FileError")>>
        \/ events' = events \o <<Event("Cancelled")>>
        \/ events' = events \o Report
    BY <1>3 DEF Worker, ZipStep, UnzipStep, PlanZip, PlanFails, CreatePartial, SkipEntry, BeginEntry,
                PackChunk, EndEntry, FinishZip, ZipFails, StopZip, OpenZip, ExtractFails, BadEntry,
                SkipExisting, CreateOut, CreateFails, WriteChunk, EndFile, EntryFails, StopAtEntry,
                StopInFile, Send
  <2>2. CASE events' = events
    BY <1>1, <2>2 DEF EndedIn
  <2>3. ASSUME NEW es, events' = events \o es,
               \/ es = <<Event("FileError")>>
               \/ es = <<Event("Cancelled")>>
               \/ es = Report
        PROVE  ~EndedIn("Finished")'
    <3>1. es \in Seq(Events)
      BY <2>3, ReportsAppended
    <3>2. \A n \in 1..Len(es) : es[n].kind # "Finished"
      BY <1>2, <2>3 DEF Report
    <3>3. QED
      BY <1>0, <2>3, <3>1, <3>2, EndsAreNew
  <2>4. QED
    BY <2>1, <2>2, <2>3
<1>4. ASSUME Rename PROVE pc' = "idle" /\ ~EndedIn("Cancelled")'
  <2>1. pc' = "idle" /\ events' = events \o <<Event("Finished")>>
    BY <1>4 DEF Rename, Idle, Send
  <2>2. <<Event("Finished")>> \in Seq(Events)
    BY <1>2
  <2>3. \A n \in 1..Len(<<Event("Finished")>>) : <<Event("Finished")>>[n].kind # "Cancelled"
    BY <1>2
  <2>4. QED
    BY <1>0, <2>1, <2>2, <2>3, EndsAreNew
<1>5. QED
  BY <1>3, <1>4

LEMMA NoneEnded ==
  ASSUME events' = <<>>
  PROVE  ~EndedIn("Finished")' /\ ~EndedIn("Cancelled")'
<1>1. 1..Len(events') = {}
  BY NoEvents
<1>2. QED
  BY <1>1, Zenon DEF EndedIn

LEMMA ToldInit == Init => Told
BY DEF Init, Told

\* The archive that a packing ends with has what is counted.
LEMMA RenameTells ==
  ASSUME Shelves, PackCount, Rename
  PROVE  PackedAsCounted(sum)'
<1>1. pc = "rename" /\ sum' = sum /\ wanted' = wanted
  BY DEF Rename, histVars
<1>2. WholeArchive(disk'[Dest]) /\ disk'[Dest].toc = toc
  BY <1>1, RenameKeepsShelves DEF Shelves, Packing
<1>3. /\ wanted \in Seq(Files) /\ todo = <<>> /\ sum.files = Len(toc)
      /\ PackedNames(toc) \subseteq Behind /\ sum.failed = Cardinality(Behind \ PackedNames(toc))
  BY <1>1 DEF PackCount
<1>4. Behind = Range(wanted)
  BY <1>3, AllBehind
<1>5. WholeArchive(disk[Dest])' /\ PackedNames(disk[Dest].toc)' = PackedNames(toc)
  BY <1>2 DEF WholeArchive, IsArchive, HasEntry, Data, PackedNames
<1>6. QED
  BY <1>1, <1>2, <1>3, <1>4, <1>5 DEF PackedAsCounted

LEMMA FinishExtractTells ==
  ASSUME Shelves, Control, ReadCount, FinishExtract
  PROVE  ExtractedAsCounted(sum)'
<1>1. pc = "entry" /\ todo = <<>> /\ UNCHANGED <<disk, sum, wanted>>
  BY DEF FinishExtract, histVars
<1>2. wanted \in Seq(Entry) /\ Len(wanted) \in Nat
  BY <1>1, ReadingEntries
<1>3. Behind = Range(wanted)
  BY <1>1, <1>2, AllBehind
<1>4. sum.files + sum.skipped + sum.failed = Len(wanted)
  <2>1. sum.files \in Nat /\ sum.skipped \in Nat /\ sum.failed \in Nat /\ Len(<<>>) = 0
    BY DEF Control, Summary
  <2>2. sum.files + sum.skipped + sum.failed + Len(todo) + 0 = Len(wanted)
    BY <1>1 DEF ReadCount
  <2>3. QED
    BY <1>1, <2>1, <2>2
<1>5. sum.failed = 0 /\ sum.skipped = 0 => \A e \in Range(wanted) : InPlace(e)
  BY <1>1, <1>3 DEF ReadCount
<1>6. ExtractedAsCounted(sum)
  BY <1>4, <1>5 DEF ExtractedAsCounted
<1>7. QED
  BY <1>1, <1>6 DEF ExtractedAsCounted, InPlace, OutOf

LEMMA WorkerKeepsTold ==
  ASSUME Shelves, Control, Queue, PackCount, ReadCount, Told, Worker
  PROVE  Told'
<1>1. pc # "idle" /\ outcome' = "none" /\ kind' = kind
  BY WorkerReports DEF TabAside, tabVars, Control
<1>2. /\ EndedIn("Finished")' => Rename \/ FinishExtract
      /\ Rename => pc' = "idle" /\ ~EndedIn("Cancelled")'
  BY WorkerEnds
<1>3. CASE ZipStep
  <2>1. kind = "zip"
    BY <1>3 DEF ZipStep, PlanZip, PlanFails, CreatePartial, SkipEntry, BeginEntry, PackChunk, EndEntry,
                FinishZip, Rename, ZipFails, StopZip, ZipPhases, Control
  <2>2. ~FinishExtract
    BY <2>1 DEF FinishExtract, Control, UnzipPhases
  <2>3. ~Rename => disk'[Dest] = before'[Dest]
    BY <1>1, <1>3, <2>1, PackingAside DEF Told
  <2>4. QED
    BY <1>1, <1>2, <2>1, <2>2, <2>3, RenameTells DEF Told
<1>4. CASE UnzipStep
  <2>1. kind = "unzip"
    BY <1>4 DEF UnzipStep, OpenZip, ExtractFails, BadEntry, SkipExisting, CreateOut, CreateFails,
                WriteChunk, EndFile, EntryFails, StopAtEntry, StopInFile, FinishExtract, AtEntry,
                UnzipPhases, Control
  <2>2. ~Rename
    BY <2>1 DEF Rename, Control, ZipPhases
  <2>3. QED
    BY <1>1, <1>2, <2>1, <2>2, FinishExtractTells DEF Told
<1>5. QED
  BY <1>3, <1>4 DEF Worker

LEMMA PollKeepsTold ==
  ASSUME Control, Queue, Told, Poll
  PROVE  Told'
<1>1. /\ UNCHANGED <<disk, kind, pc, sum, before, wanted>> /\ job # "none"
      /\ Head(events) = events[1] /\ 1 \in 1..Len(events) /\ events # <<>> /\ events \in Seq(Events)
  BY PollFirst DEF workVars, histVars, Queue
<1>2. /\ PackedAsCounted(sum)' = PackedAsCounted(sum)
      /\ ExtractedAsCounted(sum)' = ExtractedAsCounted(sum)
  BY <1>1 DEF PackedAsCounted, ExtractedAsCounted, WholeArchive, InPlace, OutOf
<1>3. CASE PollError
  <2>1. events' = Tail(events) /\ outcome' = outcome /\ outcome = "none"
    BY <1>1, <1>3 DEF PollError, Control
  <2>2. /\ Len(events') = Len(events) - 1 /\ Len(events) \in Nat
        /\ \A n \in 1..Len(events') : events'[n] = events[n + 1]
    BY <1>1, <2>1
  <2>3. \A k : EndedIn(k)' => EndedIn(k)
    <3>1. \A n \in 1..Len(events') : n + 1 \in 1..Len(events)
      BY <2>2
    <3>2. QED
      BY <2>2, <3>1 DEF EndedIn
  <2>4. QED
    BY <1>1, <1>2, <2>1, <2>3 DEF Told
<1>4. CASE PollFinished /\ Head(events).kind = "Finished"
  <2>1. events' = <<>> /\ outcome' = "done" /\ told' = Head(events).sum /\ pc = "idle"
    BY <1>1, <1>4 DEF PollFinished, Queue
  <2>2. EndedIn("Finished") /\ told' = sum
    BY <1>1, <1>4, <2>1 DEF EndedIn, Queue
  <2>3. /\ PackedAsCounted(told)' = PackedAsCounted(sum)
        /\ ExtractedAsCounted(told)' = ExtractedAsCounted(sum)
    BY <1>1, <2>2 DEF PackedAsCounted, ExtractedAsCounted, WholeArchive, InPlace, OutOf
  <2>4. QED
    BY <1>1, <2>1, <2>2, <2>3, NoneEnded DEF Told
<1>5. CASE PollCancelled /\ Head(events).kind = "Cancelled"
  <2>1. events' = <<>> /\ outcome' \in {"failed", "cancelled"} /\ pc = "idle"
    BY <1>1, <1>5 DEF PollCancelled, StopOutcome, Queue
  <2>2. EndedIn("Cancelled")
    BY <1>1, <1>5 DEF EndedIn
  <2>3. QED
    BY <1>1, <2>1, <2>2, NoneEnded DEF Told
<1>6. QED
  BY <1>3, <1>4, <1>5, PollFirst

LEMMA ToldKept ==
  ASSUME Shelves, Control, Queue, PackCount, ReadCount, Told, [Next]_vars
  PROVE  Told'
<1>1. CASE PickZip \/ Cancel \/ UNCHANGED vars
  <2>1. /\ UNCHANGED <<disk, kind, pc, sum, before, wanted, told, events>>
        /\ outcome' = outcome \/ outcome' = "none"
    BY <1>1 DEF PickZip, Cancel, vars, workVars, histVars, tabVars
  <2>2. /\ PackedAsCounted(sum)' = PackedAsCounted(sum) /\ PackedAsCounted(told)' = PackedAsCounted(told)
        /\ ExtractedAsCounted(sum)' = ExtractedAsCounted(sum)
        /\ ExtractedAsCounted(told)' = ExtractedAsCounted(told)
        /\ \A k : EndedIn(k)' = EndedIn(k)
    BY <2>1 DEF PackedAsCounted, ExtractedAsCounted, WholeArchive, InPlace, OutOf, EndedIn
  <2>3. QED
    BY <2>1, <2>2 DEF Told
<1>2. CASE Poll
  BY <1>2, PollKeepsTold
<1>3. CASE Worker
  BY <1>3, WorkerKeepsTold
<1>4. CASE Crash
  BY <1>4 DEF Crash, Told
<1>5. CASE StartZip \/ StartUnzip
  <2>1. events' = <<>> /\ outcome' = "none" /\ before' = disk /\ disk' = disk
    BY <1>5 DEF StartZip, StartUnzip, Start
  <2>2. QED
    BY <2>1, NoneEnded DEF Told
<1>6. QED
  BY <1>1, <1>2, <1>3, <1>4, <1>5, NextSteps

\* What the tab shows of a job that is over is so: no archive that was not
\* finished, every file that was planned in the archive or counted, every entry
\* counted and, if none is said to be left out, in its place.
THEOREM OutcomesAreTrue == Spec => []OutcomeIsTrue
<1>1. Told => OutcomeIsTrue
  BY DEF Told, OutcomeIsTrue, SaidNothingCreated
<1>2. Spec => []PackCount
  BY PackCountInit, PackCountKept, JobsEndOnce, ShelvesAreSound, PTL DEF Spec
<1>3. Spec => []ReadCount
  BY ReadCountInit, ReadCountKept, JobsEndOnce, ShelvesAreSound, PTL DEF Spec
<1>4. Spec => []Told
  BY <1>2, <1>3, ToldInit, ToldKept, JobsEndOnce, ShelvesAreSound, PTL DEF Spec
<1>5. QED
  BY <1>1, <1>4, PTL

-----------------------------------------------------------------------------
(* The types that are left. *)

Rest ==
  /\ over \in BOOLEAN /\ info \in BOOLEAN /\ asked \in BOOLEAN /\ lastError \in BOOLEAN
  /\ token \in BOOLEAN /\ runs \in 0..MaxRuns
  /\ pc \notin {"copy", "write"} => cur = NoPath

LEMMA WorkerKeepsRest ==
  ASSUME Worker, Rest
  PROVE  Rest'
<1>1. UNCHANGED <<over, info, asked, lastError, token, runs>>
  BY WorkerReports DEF TabAside, tabVars
<1>2. pc' \notin {"copy", "write"} => cur' = NoPath
  BY DEF Rest, Worker, ZipStep, UnzipStep, PlanZip, PlanFails, CreatePartial, SkipEntry, BeginEntry,
         PackChunk, EndEntry, FinishZip, Rename, ZipFails, StopZip, OpenZip, ExtractFails, BadEntry,
         SkipExisting, CreateOut, CreateFails, WriteChunk, EndFile, EntryFails, StopAtEntry,
         StopInFile, FinishExtract, AtEntry, Idle
<1>3. QED
  BY <1>1, <1>2 DEF Rest

LEMMA RestKept ==
  ASSUME Rest, Queue, [Next]_vars
  PROVE  Rest'
<1>1. CASE PickZip \/ Cancel \/ UNCHANGED vars
  BY <1>1 DEF PickZip, Cancel, vars, tabVars, workVars, Rest, IsArchive
<1>2. CASE Poll
  BY <1>2 DEF Poll, PollError, PollFinished, PollCancelled, workVars, Rest
<1>3. CASE Worker
  BY <1>3, WorkerKeepsRest
<1>4. CASE Crash
  BY <1>4 DEF Crash, Idle, Rest
<1>5. CASE StartZip \/ StartUnzip
  <2>1. PICK o \in BOOLEAN, k \in {"zip", "unzip"}, given \in Sources \union {<<>>} : Start(k, o, given)
    BY <1>5 DEF StartZip, StartUnzip
  <2>2. /\ over' = o /\ cur' = NoPath /\ asked' = FALSE /\ lastError' = FALSE /\ token' = FALSE
        /\ info' = info /\ runs < MaxRuns /\ runs' = runs + 1
    BY <2>1 DEF Start
  <2>3. MaxRuns \in Nat /\ runs \in 0..MaxRuns
    BY ArchiveConstants DEF Rest
  <2>4. runs' \in 0..MaxRuns
    BY <2>2, <2>3
  <2>5. QED
    BY <2>2, <2>4 DEF Rest
<1>6. QED
  BY <1>1, <1>2, <1>3, <1>4, <1>5, NextSteps

\* Every variable has values of its kind, and the worker holds an entry exactly
\* while it reads one.
THEOREM ArchiveTypesAreRight == Spec => []TypeOK
<1>1. Init => Rest
  <2>1. MaxRuns \in Nat
    BY ArchiveConstants
  <2>2. 0 \in 0..MaxRuns
    BY <2>1
  <2>3. QED
    BY <2>2 DEF Init, Rest
<1>2. Spec => []Rest
  BY <1>1, RestKept, JobsEndOnce, PTL DEF Spec
<1>3. ASSUME Control, Queue, Shelves, Rest PROVE TypeOK
  <2>1. \A k \in DOMAIN events :
          events[k].kind \in {"FileError", "Finished", "Cancelled"} /\ events[k].sum \in Summary
    <3>1. \A k \in DOMAIN events : events[k] \in Events
      BY <1>3 DEF Queue
    <3>2. QED
      BY <3>1 DEF Events
  <2>2. DOMAIN disk = Paths /\ torn \subseteq Paths /\ taken \in Nat
    BY <1>3, PathKinds DEF Shelves, Disks
  <2>3. (pc = "copy" => cur \in Files) /\ (pc = "write" => cur \in Entry)
    BY <1>3 DEF Shelves, Packing, Reading
  <2>4. QED
    BY <1>3, <2>1, <2>2, <2>3 DEF TypeOK, Control, Rest, ZipPhases, UnzipPhases
<1>4. QED
  BY <1>2, <1>3, JobsEndOnce, ShelvesAreSound, PTL
=============================================================================
