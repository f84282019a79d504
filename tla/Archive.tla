------------------------------ MODULE Archive ------------------------------
(***************************************************************************)
(* Zip and unzip: create_zip, write_zip and extract_zip of                 *)
(* engine/src/archive.rs on their worker threads (app/src/worker.rs), the  *)
(* Zip / Unzip tab that starts, cancels and polls them, and the app that   *)
(* may be killed at any moment.                                            *)
(*                                                                         *)
(* A file is [bytes, toc]: its contents and, for a finished archive, the   *)
(* table of contents that zip.finish writes last. An entry of the table    *)
(* names the file it was made from and the stretch of bytes that is its    *)
(* data. Compression, folders, times and permissions are left out, and     *)
(* names are the paths they were made from: Target says where an entry     *)
(* lands, which is what safe_relative_path and the destination make of it. *)
(***************************************************************************)
EXTENDS Naturals, Sequences, FiniteSets, Functions, Selection

CONSTANTS
  Files,     \* files to be packed
  Dest,      \* the archive (tab.output and tab.zip)
  Partial,   \* the name it is built under
  Outs,      \* paths in the destination folder
  Names,     \* names of entries: the files' and others an archive may have from elsewhere
  Sources,   \* sequences of files the user may give one by one
  Walked,    \* what the walk of the folder that is given with them lists, in order
  Length,    \* [Names -> Nat], in chunks
  Target,    \* [Names -> Outs, or NoPath where the name is unsafe]
  NoPath,
  NoFile, NoToc,
  Found,     \* what may be at Dest at first
  Old,       \* the chunk of a file the destination has at first
  MaxRuns    \* bound: jobs that are started

Paths == Files \union {Dest, Partial} \union Outs

Atoms == ((Names \union {Dest, Partial}) \X Nat) \union {Old}

Entry == [name : Names \union {Dest, Partial}, from : Nat, len : Nat]

File == [bytes : Seq(Atoms), toc : Seq(Entry) \union {NoToc}]

Plain(bytes) == [bytes |-> bytes, toc |-> NoToc]

Whole(p) == [k \in 1..Length[p] |-> <<p, k>>]

IsArchive(file) == file # NoFile /\ file.toc # NoToc

\* What an archive holds for an entry of its table.
Data(file, e) == [k \in 1..e.len |-> file.bytes[e.from + k - 1]]

\* An entry of a finished archive: it lies inside it and is the whole of what
\* its name stands for.
HasEntry(file, e) ==
  /\ e.name \in Names
  /\ e.from \in Nat \ {0} /\ e.from + e.len <= Len(file.bytes) + 1
  /\ Data(file, e) = Whole(e.name)

ASSUME ArchiveConstants ==
  /\ Dest # Partial /\ {Dest, Partial} \intersect (Files \union Outs) = {}
  /\ Files \intersect Outs = {}
  /\ Files \subseteq Names /\ {Dest, Partial} \intersect Names = {}
  /\ \A s \in Sources \union {Walked} : s \in Seq(Files \union {Dest, Partial})
  /\ Length \in [Names -> Nat]
  /\ Target \in [Names -> Outs \union {NoPath}]
  /\ NoFile \notin File /\ NoToc \notin Seq(Entry)
  /\ MaxRuns \in Nat

\* What is there at first is a file, and an archive's entries can be read.
ASSUME FoundIsSound ==
  \A file \in Found \ {NoFile} :
    /\ file \in File
    /\ IsArchive(file) => \A e \in Range(file.toc) : HasEntry(file, e)

\* The unfinished archive is not among the files to be packed. Where it is (a
\* kill left it in a folder that is packed again), it would be read while it grows.
ASSUME PartialIsNotPacked == \A s \in Sources \union {Walked} : Partial \notin Range(s)

VARIABLES
  disk,       \* [Paths -> NoFile or [bytes, toc]]
  job,        \* the tab's job and which kind: "none", "zip" or "unzip"
  kind,       \* the kind of the last job (the tab's mode while it shows)
  over,       \* tab.overwrite, as the job got it
  info,       \* tab.zip_info is Ok
  asked,      \* tab.cancel_requested
  lastError,  \* tab.last_error is Some
  outcome,    \* tab.outcome: "none", "done", "failed" or "cancelled"
  told,       \* the summary that Done shows
  events,     \* the channel: [kind, sum]
  token,      \* the CancelToken
  pc,         \* where the worker is
  todo,       \* the sources; then the entries it has still to pack (paths) or extract
  cur,        \* the one it is at
  taken,      \* chunks of it that are read
  toc,        \* ZipWriter's entries so far
  sum,        \* ArchiveSummary: [files, skipped, failed]
  runs,
  before,     \* history: the disk when the job started
  wanted,     \* history: the entries the job was to pack or extract
  torn        \* history: paths a kill left half-written

tabVars == <<job, kind, over, info, asked, lastError, outcome, told>>
workVars == <<pc, todo, cur, taken, toc, sum>>
histVars == <<before, wanted, torn>>
vars == <<disk, tabVars, events, token, workVars, runs, histVars>>

Summary == [files : Nat, skipped : Nat, failed : Nat]
ZeroSum == [files |-> 0, skipped |-> 0, failed |-> 0]

Exists(p) == disk[p] # NoFile

Init ==
  /\ disk \in {d \in [Paths -> {Plain(Whole(p)) : p \in Files} \union Found
                                 \union {NoFile, Plain(<<Old>>)}] :
                /\ \A p \in Files : d[p] = Plain(Whole(p))
                /\ d[Dest] \in Found
                /\ d[Partial] = NoFile
                /\ \A o \in Outs : d[o] \in {NoFile, Plain(<<Old>>)}}
  /\ job = "none" /\ kind = "none" /\ over = FALSE /\ info = FALSE
  /\ asked = FALSE /\ lastError = FALSE /\ outcome = "none" /\ told = ZeroSum
  /\ events = <<>> /\ token = FALSE
  /\ pc = "idle" /\ todo = <<>> /\ cur = NoPath /\ taken = 0 /\ toc = <<>> /\ sum = ZeroSum
  /\ runs = 0
  /\ before = disk /\ wanted = <<>> /\ torn = {}

-----------------------------------------------------------------------------
(* The tab. *)

\* set_zip: the table of contents is read once, when the archive is chosen;
\* the dialog may have been open while a job started.
PickZip ==
  /\ info' = IsArchive(disk[Dest])
  /\ outcome' = "none"
  /\ UNCHANGED <<disk, job, kind, over, asked, lastError, told, events, token, workVars, runs,
                 histVars>>

\* start, where can_start allows it.
Start(k, o, given) ==
  /\ job = "none" /\ runs < MaxRuns
  /\ k = "unzip" => info
  /\ k = "zip" => ~o
  /\ IF k = "zip" THEN given \in Sources ELSE given = <<>>
  /\ job' = k /\ kind' = k /\ over' = o
  /\ outcome' = "none" /\ lastError' = FALSE /\ asked' = FALSE
  /\ events' = <<>> /\ token' = FALSE
  /\ pc' = IF k = "zip" THEN "plan" ELSE "open"
  /\ todo' = given /\ cur' = NoPath /\ taken' = 0 /\ toc' = <<>> /\ sum' = ZeroSum
  /\ runs' = runs + 1
  /\ before' = disk /\ wanted' = <<>>
  /\ UNCHANGED <<disk, info, told, torn>>

Cancel ==
  /\ job # "none"
  /\ asked' = TRUE /\ token' = TRUE
  /\ UNCHANGED <<disk, job, kind, over, info, lastError, outcome, told, events, workVars, runs,
                 histVars>>

\* poll, one event at a time.
PollError ==
  /\ job # "none" /\ events # <<>> /\ Head(events).kind = "FileError"
  /\ lastError' = TRUE
  /\ events' = Tail(events)
  /\ UNCHANGED <<disk, job, kind, over, info, asked, outcome, told, token, workVars, runs, histVars>>

PollFinished ==
  /\ job # "none" /\ events # <<>> /\ Head(events).kind = "Finished"
  /\ outcome' = "done" /\ told' = Head(events).sum
  /\ job' = "none"
  /\ events' = <<>>
  /\ UNCHANGED <<disk, kind, over, info, asked, lastError, token, workVars, runs, histVars>>

StopOutcome == IF lastError /\ ~asked THEN "failed" ELSE "cancelled"

PollCancelled ==
  /\ job # "none" /\ events # <<>> /\ Head(events).kind = "Cancelled"
  /\ outcome' = StopOutcome
  /\ job' = "none"
  /\ events' = <<>>
  /\ UNCHANGED <<disk, kind, over, info, asked, lastError, told, token, workVars, runs, histVars>>

Poll == PollError \/ PollFinished \/ PollCancelled

-----------------------------------------------------------------------------
(* The worker, packing. *)

Event(k) == [kind |-> k, sum |-> sum]

Send(es) == events' = events \o es

\* worker.rs reports an error that is no cancellation in two events.
Report == <<Event("FileError"), Event("Cancelled")>>

\* remove_file(path), whose failure nobody looks at.
TryRemove(p) == \E gone \in BOOLEAN : disk' = IF gone THEN [disk EXCEPT ![p] = NoFile] ELSE disk

Counted(field) == sum' = [sum EXCEPT ![field] = @ + 1]

Idle == pc' = "idle" /\ todo' = <<>> /\ cur' = NoPath /\ taken' = 0 /\ toc' = <<>>

TabAside == UNCHANGED <<tabVars, token, runs>>

\* Don't pack the archive we're about to (over)write into itself.
IsTheArchive(p) == p = Dest

\* An entry is named by its path.  In the code the name depends on what was given: a file
\* given alone and also in a folder has two names, and is packed twice, where PlanZip
\* refuses it.
Planned ==
  LET given == todo \o Only(Walked, {p \in Paths : Exists(p)})
  IN  Only(given, {p \in Paths : ~IsTheArchive(p)})

\* plan_zip: a given path that is gone is an error, and so are two items of one name.
PlanZip ==
  /\ pc = "plan" /\ \A k \in DOMAIN todo : Exists(todo[k])
  /\ IsInjective(Planned)
  /\ todo' = Planned /\ wanted' = Planned
  /\ pc' = "create"
  /\ UNCHANGED <<disk, events, cur, taken, toc, sum, before, torn>> /\ TabAside

PlanFails ==
  /\ pc = "plan"
  /\ Send(Report) /\ Idle
  /\ UNCHANGED <<disk, sum, histVars>> /\ TabAside

\* Mutation: the archive is packed where it will be.
BuildingInPlace == Dest

\* The name the archive has while it is packed.
Building == Partial

CreatePartial ==
  /\ pc = "create"
  /\ disk' = [disk EXCEPT ![Building] = Plain(<<>>)]
  /\ pc' = "pack"
  /\ torn' = torn \ {Building}
  /\ UNCHANGED <<events, todo, cur, taken, toc, sum, before, wanted>> /\ TabAside

Write(p, atom) == disk' = [disk EXCEPT ![p].bytes = Append(@, atom)]

\* Mutation: an entry that is left out is logged but not counted.
SkipEntryUncounted ==
  /\ pc = "pack" /\ ~token /\ todo # <<>>
  /\ todo' = Tail(todo)
  /\ Send(<<Event("FileError")>>)
  /\ UNCHANGED <<disk, pc, cur, taken, toc, sum, histVars>> /\ TabAside

\* metadata or open fails: the entry is left out.
SkipEntry ==
  /\ pc = "pack" /\ ~token /\ todo # <<>>
  /\ todo' = Tail(todo)
  /\ Counted("failed") /\ Send(<<Event("FileError")>>)
  /\ UNCHANGED <<disk, pc, cur, taken, toc, histVars>> /\ TabAside

BeginEntry ==
  /\ pc = "pack" /\ ~token /\ todo # <<>> /\ Exists(Head(todo))
  /\ cur' = Head(todo) /\ todo' = Tail(todo) /\ taken' = 0
  /\ Write(Building, <<Head(todo), 0>>)
  /\ toc' = Append(toc, [name |-> Head(todo), from |-> Len(disk[Building].bytes) + 2, len |-> 0])
  /\ pc' = "copy"
  /\ UNCHANGED <<events, sum, histVars>> /\ TabAside

PackChunk ==
  /\ pc = "copy" /\ ~token /\ taken < Len(disk[cur].bytes)
  /\ taken' = taken + 1
  /\ Write(Building, disk[cur].bytes[taken + 1])
  /\ toc' = [toc EXCEPT ![Len(toc)].len = taken + 1]
  /\ UNCHANGED <<events, pc, todo, cur, sum, histVars>> /\ TabAside

EndEntry ==
  /\ pc = "copy" /\ ~token /\ taken = Len(disk[cur].bytes)
  /\ cur' = NoPath /\ taken' = 0 /\ Counted("files")
  /\ pc' = "pack"
  /\ UNCHANGED <<disk, events, todo, toc, histVars>> /\ TabAside

\* zip.finish, without a look at the token.
FinishZip ==
  /\ pc = "pack" /\ todo = <<>>
  /\ disk' = [disk EXCEPT ![Building].toc = toc]
  /\ pc' = "rename"
  /\ UNCHANGED <<events, todo, cur, taken, toc, sum, histVars>> /\ TabAside

Rename ==
  /\ pc = "rename"
  /\ disk' = [disk EXCEPT ![Dest] = disk[Building], ![Partial] = NoFile]
  /\ Send(<<Event("Finished")>>) /\ Idle
  /\ UNCHANGED <<sum, histVars>> /\ TabAside

\* What happens to the unfinished archive of a run that ends early.
Discard == TryRemove(Building)

\* An I/O error while creating, starting an entry, reading, writing, finishing or renaming.
ZipFails ==
  /\ pc \in {"create", "copy", "rename"} \/ (pc = "pack" /\ (todo = <<>> \/ ~token))
  /\ Discard
  /\ Send(Report) /\ Idle
  /\ UNCHANGED <<sum, histVars>> /\ TabAside

StopZip ==
  /\ token /\ (pc = "copy" \/ (pc = "pack" /\ todo # <<>>))
  /\ Discard
  /\ Send(<<Event("Cancelled")>>) /\ Idle
  /\ UNCHANGED <<sum, histVars>> /\ TabAside

ZipStep ==
  \/ PlanZip \/ PlanFails \/ CreatePartial \/ SkipEntry \/ BeginEntry \/ PackChunk \/ EndEntry
  \/ FinishZip \/ Rename \/ ZipFails \/ StopZip

-----------------------------------------------------------------------------
(* The worker, extracting. *)

OutOf(e) == Target[e.name]

OpenZip ==
  /\ pc = "open" /\ IsArchive(disk[Dest])
  /\ todo' = disk[Dest].toc /\ wanted' = disk[Dest].toc
  /\ pc' = "entry"
  /\ UNCHANGED <<disk, events, cur, taken, toc, sum, before, torn>> /\ TabAside

AtEntry == pc = "entry" /\ ~token /\ todo # <<>>

\* No archive (any more), no destination folder, or an entry whose header cannot be read.
ExtractFails ==
  /\ pc = "open" \/ AtEntry
  /\ Send(Report) /\ Idle
  /\ UNCHANGED <<disk, sum, histVars>> /\ TabAside

\* An entry that cannot be read, or whose name is unsafe.
BadEntry ==
  /\ AtEntry
  /\ todo' = Tail(todo)
  /\ Counted("failed") /\ Send(<<Event("FileError")>>)
  /\ UNCHANGED <<disk, pc, cur, taken, toc, histVars>> /\ TabAside

\* The name stays inside the destination.
Safe(e) == OutOf(e) # NoPath

InTheWay(e) == ~over /\ Exists(OutOf(e))

SkipExisting ==
  /\ AtEntry /\ Safe(Head(todo)) /\ InTheWay(Head(todo))
  /\ todo' = Tail(todo)
  /\ Counted("skipped")
  /\ UNCHANGED <<disk, events, pc, cur, taken, toc, histVars>> /\ TabAside

\* File::create: what was there is gone.
CreateOut ==
  /\ AtEntry /\ Safe(Head(todo)) /\ ~InTheWay(Head(todo))
  /\ cur' = Head(todo) /\ todo' = Tail(todo) /\ taken' = 0
  /\ disk' = [disk EXCEPT ![OutOf(Head(todo))] = Plain(<<>>)]
  /\ torn' = torn \ {OutOf(Head(todo))}
  /\ pc' = "write"
  /\ UNCHANGED <<events, toc, sum, before, wanted>> /\ TabAside

\* File::create fails, on a read-only file, say; the handler removes the path all the same.
CreateFails ==
  /\ AtEntry /\ Safe(Head(todo)) /\ ~InTheWay(Head(todo))
  /\ TryRemove(OutOf(Head(todo)))
  /\ todo' = Tail(todo)
  /\ Counted("failed") /\ Send(<<Event("FileError")>>)
  /\ UNCHANGED <<pc, cur, taken, toc, histVars>> /\ TabAside

WriteChunk ==
  /\ pc = "write" /\ ~token /\ taken < cur.len
  /\ taken' = taken + 1
  /\ Write(OutOf(cur), Data(disk[Dest], cur)[taken + 1])
  /\ UNCHANGED <<events, pc, todo, cur, toc, sum, histVars>> /\ TabAside

EndFile ==
  /\ pc = "write" /\ ~token /\ taken = cur.len
  /\ cur' = NoPath /\ taken' = 0 /\ Counted("files")
  /\ pc' = "entry"
  /\ UNCHANGED <<disk, events, todo, toc, histVars>> /\ TabAside

\* Mutation: an entry that ends early leaves what it has written.
RemoveOutNot == UNCHANGED <<disk, torn>>

\* The half-written file goes; where even that fails it stays.
RemoveOut ==
  \/ /\ disk' = [disk EXCEPT ![OutOf(cur)] = NoFile]
     /\ UNCHANGED torn
  \/ /\ torn' = torn \union {OutOf(cur)}
     /\ UNCHANGED disk

EntryFails ==
  /\ pc = "write"
  /\ RemoveOut
  /\ cur' = NoPath /\ taken' = 0 /\ pc' = "entry"
  /\ Counted("failed") /\ Send(<<Event("FileError")>>)
  /\ UNCHANGED <<todo, toc, before, wanted>> /\ TabAside

StopAtEntry ==
  /\ pc = "entry" /\ token /\ todo # <<>>
  /\ Send(<<Event("Cancelled")>>) /\ Idle
  /\ UNCHANGED <<disk, sum, histVars>> /\ TabAside

StopInFile ==
  /\ pc = "write" /\ token
  /\ RemoveOut
  /\ Send(<<Event("Cancelled")>>) /\ Idle
  /\ UNCHANGED <<sum, before, wanted>> /\ TabAside

FinishExtract ==
  /\ pc = "entry" /\ todo = <<>>
  /\ Send(<<Event("Finished")>>) /\ Idle
  /\ UNCHANGED <<disk, sum, histVars>> /\ TabAside

UnzipStep ==
  \/ OpenZip \/ ExtractFails \/ BadEntry \/ SkipExisting \/ CreateOut \/ CreateFails \/ WriteChunk
  \/ EndFile \/ EntryFails \/ StopAtEntry \/ StopInFile \/ FinishExtract

Worker == ZipStep \/ UnzipStep

-----------------------------------------------------------------------------
\* The app is killed while a job runs, and started again.
Crash ==
  /\ pc # "idle"
  /\ Idle
  /\ job' = "none" /\ kind' = "none" /\ over' = FALSE /\ info' = FALSE
  /\ asked' = FALSE /\ lastError' = FALSE /\ outcome' = "none" /\ told' = ZeroSum
  /\ events' = <<>> /\ token' = FALSE /\ sum' = ZeroSum
  /\ torn' = IF pc = "write" THEN torn \union {OutOf(cur)} ELSE torn
  /\ UNCHANGED <<disk, runs, before, wanted>>

Next ==
  \/ PickZip \/ Cancel \/ Poll \/ Worker \/ Crash
  \/ \E k \in {"zip", "unzip"}, o \in BOOLEAN, given \in Sources \union {<<>>} : Start(k, o, given)

Spec == Init /\ [][Next]_vars

-----------------------------------------------------------------------------
(* Properties. *)

\* Every variable has values of its kind, and the worker holds an entry exactly
\* while it reads one.
TypeOK ==
  /\ DOMAIN disk = Paths
  /\ job \in {"none", "zip", "unzip"} /\ kind \in {"none", "zip", "unzip"}
  /\ {over, info, asked, lastError, token} \subseteq BOOLEAN
  /\ outcome \in {"none", "done", "failed", "cancelled"}
  /\ told \in Summary /\ sum \in Summary
  /\ \A k \in DOMAIN events :
       events[k].kind \in {"FileError", "Finished", "Cancelled"} /\ events[k].sum \in Summary
  /\ pc \in {"idle", "plan", "create", "pack", "copy", "rename", "open", "entry", "write"}
  /\ taken \in Nat /\ runs \in 0..MaxRuns
  /\ pc = "copy" => cur \in Files \union {Dest, Partial}
  /\ pc = "write" => cur \in Entry
  /\ pc \notin {"copy", "write"} => cur = NoPath
  /\ pc # "idle" => job # "none"
  /\ torn \subseteq Paths

\* An archive as create_zip makes it: every entry is one of the files, whole.
WholeArchive(file) ==
  /\ IsArchive(file)
  /\ \A e \in Range(file.toc) : e.name \in Files /\ HasEntry(file, e)

\* At the archive's name there is at all times what was there first or a
\* complete archive of source files, itself not among them: "a cancelled or
\* failed run never leaves a truncated .zip behind (or clobbers an existing
\* one)" (archive.rs:178), and neither does a killed one.
ZipIsOldOrWhole == Exists(Dest) => disk[Dest] \in Found \/ WholeArchive(disk[Dest])

\* "Cancelled. No zip was created." and "Failed" are shown only if the archive
\* is what it was when the job started.
SaidNothingCreated ==
  kind = "zip" /\ outcome \in {"failed", "cancelled"} => disk[Dest] = before[Dest]

PackedNames(table) == {e.name : e \in Range(table)}

\* What was planned is in the archive or is counted as failed.
PackedAsCounted(s) ==
  /\ WholeArchive(disk[Dest])
  /\ s.files = Len(disk[Dest].toc)
  /\ PackedNames(disk[Dest].toc) \subseteq Range(wanted)
  /\ s.failed = Cardinality(Range(wanted) \ PackedNames(disk[Dest].toc))

\* An entry's place holds what the archive has for it, or for a later entry
\* that lands on the same place.
InPlace(e) ==
  \E same \in Range(wanted) :
    OutOf(same) = OutOf(e) /\ disk[OutOf(e)] = Plain(Data(disk[Dest], same))

\* Every entry is counted once, and if none failed or was left alone, each has
\* its place in the destination.
ExtractedAsCounted(s) ==
  /\ s.files + s.skipped + s.failed = Len(wanted)
  /\ s.failed = 0 /\ s.skipped = 0 => \A e \in Range(wanted) : InPlace(e)

\* What the tab says of the last job is so, for as long as it says it.
OutcomeIsTrue ==
  /\ SaidNothingCreated
  /\ kind = "zip" /\ outcome = "done" => PackedAsCounted(told)
  /\ kind = "unzip" /\ outcome = "done" => ExtractedAsCounted(told)

\* "Cancelled. Files extracted so far were left in place." (archive_tab.rs:366):
\* a file in the destination is the user's own or a whole entry, except where the
\* app was killed in the middle of it or could not even remove it again.  "Files
\* already there are skipped unless overwrite is set" (archive.rs:356): without it
\* none that was there at the start changes, whatever the archive names twice.
ExtractedIsWhole ==
  /\ \A o \in Outs \ torn :
       \/ pc = "write" /\ OutOf(cur) = o
       \/ disk[o] \in {NoFile, Plain(<<Old>>)}
       \/ \E n \in Names : Target[n] = o /\ disk[o] = Plain(Whole(n))
  /\ kind = "unzip" /\ ~over =>
       \A o \in Outs : before[o] # NoFile => disk[o] = before[o]
=============================================================================
