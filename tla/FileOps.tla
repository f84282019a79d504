------------------------------- MODULE FileOps -------------------------------
(***************************************************************************)
(* The Organize tab, its job, and the renaming of a list of files, on one  *)
(* folder: engine/src/fsops.rs, app/src/ui/organize_tab.rs and do_rename   *)
(* of app/src/ui/copy_tab.rs.  organize_dir runs on a thread of its own;   *)
(* rename_batch runs on the thread of the window, which answers nothing    *)
(* else meanwhile; the user works on the same folder with other programs.  *)
(*                                                                         *)
(* A path is the sequence of names below the folder, a file is its         *)
(* contents.  A copy that is not complete has the contents Torn.           *)
(***************************************************************************)
EXTENDS Integers, Sequences, FiniteSets, SequencesExt

CONSTANTS
  Files,       \* the files there can be
  Names,       \* names of files and folders: records [stem, ext]
  Category,    \* [Names -> Names]: the folder for a name's type
  Month,       \* [Files -> Names]: the folder for a file's date
  Elsewhere,   \* the first-level folders that are on another volume
  Trees,       \* the contents the folder may have: functions from paths to Files
  Lists,       \* the lists of files to be renamed
  Patterns,    \* rename patterns: which stem they give, and whether they keep {ext}
  Numeral,     \* the decimal form of 1, 2, ...
  Torn,
  MaxJobs, MaxRenames, MaxEdits, MaxFaults      \* bounds

Strategies == {"type", "date", "both"}

Paths == Names \X Names \X Names \union Names \X Names \union {<<n>> : n \in Names}

Folders(p) == {SubSeq(p, 1, i) : i \in 1..(Len(p) - 1)}

ASSUME FilesAssumption ==
  /\ IsFiniteSet(Files) /\ Torn \notin Files
  /\ Category \in [Names -> Names] /\ Month \in [Files -> Names]
ASSUME TreesAssumption ==
  \A t \in Trees : /\ DOMAIN t \subseteq Paths
                   /\ \A p \in DOMAIN t : t[p] \in Files /\ Folders(p) \cap DOMAIN t = {}
ASSUME BoundsAssumption == {MaxJobs, MaxRenames, MaxEdits, MaxFaults} \subseteq Nat

VARIABLES
  fs,          \* what the paths that name a file hold
  dirs,        \* the paths that name a folder
  pc,          \* where organize_dir is; "over": returned, "gone": returned an error
  strategy,    \* its argument
  todo,        \* entries of the listing not looked at yet
  cur, target, \* the file being moved and its new path
  carried,     \* what the copy to another volume has read
  moved,       \* files moved so far
  cancel,      \* the job's CancelToken
  events,      \* the job's channel
  job,         \* the tab has a job
  tabMoved,    \* the tab's own count
  log,         \* what the tab logged of the job's files
  list,        \* the sources of the Copy tab, in Rename mode
  pattern,     \* rename_pattern
  at,          \* the item rename_batch is at; 0: the window is free
  named,       \* its results so far
  jobs, renames, edits, faults,   \* what the bounds count
  seen,        \* history: the listing of the job
  quiet        \* history: nobody else changed the folder since the job started

tree     == <<fs, dirs>>
thread   == <<pc, strategy, todo, cur, target, carried, moved>>
tab      == <<job, tabMoved, log>>
renaming == <<list, pattern, at, named>>
counted  == <<jobs, renames, edits, faults>>
history  == <<seen, quiet>>
vars     == <<tree, thread, cancel, events, tab, renaming, counted, history>>

-----------------------------------------------------------------------------
(* The folder. *)

TopFiles == {p \in DOMAIN fs : Len(p) = 1}

Holds(c) == \E p \in DOMAIN fs : fs[p] = c

With(p, c) == [q \in DOMAIN fs \union {p} |-> IF q = p THEN c ELSE fs[q]]
Without(p) == [q \in DOMAIN fs \ {p} |-> fs[q]]

\* std::fs::rename: whatever file is at dst is replaced.
Renamed(src, dst) ==
  [q \in (DOMAIN fs \ {src}) \union {dst} |-> IF q = dst THEN fs[src] ELSE fs[q]]

CanRename(src, dst) == src \in DOMAIN fs /\ dst \notin dirs

\* create_dir_all makes folders up to the first name that is a file's.
Blocked(p) == Folders(p) \cap DOMAIN fs # {}
Made(p) == {q \in Folders(p) : (Folders(q) \union {q}) \cap DOMAIN fs = {}}

\* An operation fails for a reason outside the model.
Fault == faults < MaxFaults /\ faults' = faults + 1

-----------------------------------------------------------------------------
(* The tab. *)

Init ==
  /\ fs \in Trees
  /\ dirs = UNION {Folders(p) : p \in DOMAIN fs}
  /\ pc = "over" /\ strategy = "type" /\ todo = {} /\ cur = <<>> /\ target = <<>>
  /\ carried = Torn /\ moved = 0 /\ cancel = FALSE /\ events = <<>>
  /\ job = FALSE /\ tabMoved = 0 /\ log = {}
  /\ list \in Lists /\ pattern = [stem |-> "{name}", ext |-> TRUE] /\ at = 0 /\ named = <<>>
  /\ jobs = 0 /\ renames = 0 /\ edits = 0 /\ faults = 0
  /\ seen = {} /\ quiet = TRUE

WindowFree == at = 0

\* OrganizeTab::start and worker::spawn_organize.
StartOrganize(s) ==
  /\ WindowFree /\ ~job /\ jobs < MaxJobs
  /\ job' = TRUE /\ tabMoved' = 0 /\ log' = {}
  /\ pc' = "list" /\ strategy' = s /\ moved' = 0 /\ cancel' = FALSE /\ events' = <<>>
  /\ jobs' = jobs + 1 /\ seen' = {} /\ quiet' = TRUE
  /\ UNCHANGED <<tree, todo, cur, target, carried, renaming, renames, edits, faults>>

Cancel ==
  /\ WindowFree /\ job /\ ~cancel
  /\ cancel' = TRUE
  /\ UNCHANGED <<tree, thread, events, tab, renaming, counted, history>>

Lines(es, k) == {e \in ToSet(es) : e.kind = k}

\* OrganizeTab::poll takes every event that is there; only Finished ends the job.
Poll ==
  /\ WindowFree /\ job /\ events # <<>>
  /\ events' = <<>>
  /\ tabMoved' = tabMoved + Cardinality(Lines(events, "moved"))
  /\ log' = log \union Lines(events, "moved") \union Lines(events, "error")
  /\ job' = (Lines(events, "finished") = {})
  /\ UNCHANGED <<tree, thread, cancel, renaming, counted, history>>

-----------------------------------------------------------------------------
(* organize_dir. *)

Send(kind, p) == events' = Append(events, [kind |-> kind, path |-> p])

\* The error goes to worker::spawn_organize, which drops it.
GiveUp ==
  /\ pc' = "gone"
  /\ UNCHANGED <<tree, strategy, todo, cur, target, carried, moved, cancel, events,
                 tab, renaming, jobs, renames, edits, history>>

\* read_dir, and the entries it yields; those that cannot be read are passed over.
ListFolder ==
  /\ pc = "list"
  /\ \/ todo' = TopFiles /\ UNCHANGED faults
     \/ \E p \in TopFiles : todo' = TopFiles \ {p} /\ Fault
  /\ pc' = "next" /\ seen' = todo'
  /\ UNCHANGED <<tree, strategy, cur, target, carried, moved, cancel, events, tab,
                 renaming, jobs, renames, edits, quiet>>

ListFails == pc = "list" /\ Fault /\ GiveUp

\* The token is looked at before every file, and only there.
Stopped == pc = "next" /\ todo # {} /\ cancel /\ GiveUp /\ UNCHANGED faults

Subfolder(p) ==
  CASE strategy = "type" -> <<Category[Last(p)]>>
    [] strategy = "date" -> <<Month[fs[p]]>>
    [] strategy = "both" -> <<Category[Last(p)], Month[fs[p]]>>

\* The folder a file belongs to; the date is read from the file itself.
TakeFile(p) ==
  /\ pc = "next" /\ ~cancel /\ p \in todo
  /\ strategy = "type" \/ p \in DOMAIN fs
  /\ todo' = todo \ {p} /\ cur' = p /\ target' = Append(Subfolder(p), Last(p))
  /\ pc' = "move"
  /\ UNCHANGED <<tree, strategy, carried, moved, cancel, events, tab, renaming, counted, history>>

\* date_folder_name fails: the error leaves organize_dir with the files still to do.
DateUnreadable(p) ==
  /\ pc = "next" /\ ~cancel /\ p \in todo /\ strategy # "type"
  /\ \/ p \notin DOMAIN fs /\ UNCHANGED faults
     \/ Fault
  /\ GiveUp

FinishOrganize ==
  /\ pc = "next" /\ todo = {}
  /\ Send("finished", <<>>) /\ pc' = "over"
  /\ UNCHANGED <<tree, strategy, todo, cur, target, carried, moved, cancel, tab, renaming,
                 counted, history>>

\* What is left alone by the end of a move, good or bad.
moveFrame == <<strategy, todo, cur, target, carried, cancel, tab, renaming,
               jobs, renames, edits, history>>

Moved == Send("moved", cur) /\ moved' = moved + 1 /\ pc' = "next" /\ UNCHANGED moveFrame
\* A failed move without its event, and one whose error is passed on.
NotMovedUnsaid == pc' = "next" /\ UNCHANGED <<moved, events, moveFrame>>
NotMovedPassedOn == pc' = "gone" /\ UNCHANGED <<moved, events, moveFrame>>
NotMoved == Send("error", cur) /\ pc' = "next" /\ UNCHANGED <<moved, moveFrame>>

Across == target[1] \in Elsewhere

\* move_path within the volume.
MoveByRename ==
  /\ pc = "move" /\ ~Blocked(target) /\ CanRename(cur, target) /\ ~Across
  /\ fs' = Renamed(cur, target) /\ dirs' = dirs \union Made(target)
  /\ Moved /\ UNCHANGED faults

MoveFails ==
  /\ pc = "move"
  /\ \/ (Blocked(target) \/ ~CanRename(cur, target)) /\ UNCHANGED faults
     \/ Fault
  /\ dirs' = dirs \union Made(target) /\ UNCHANGED fs
  /\ NotMoved

\* rename says EXDEV; std::fs::copy empties the destination before it writes.
BeginCopy ==
  /\ pc = "move" /\ ~Blocked(target) /\ CanRename(cur, target) /\ Across
  /\ carried' = fs[cur] /\ fs' = With(target, Torn) /\ dirs' = dirs \union Made(target)
  /\ pc' = "copy"
  /\ UNCHANGED <<strategy, todo, cur, target, moved, cancel, events, tab, renaming,
                 counted, history>>

EndCopy ==
  /\ pc = "copy"
  /\ fs' = With(target, carried) /\ pc' = "remove"
  /\ UNCHANGED <<dirs, strategy, todo, cur, target, carried, moved, cancel, events, tab,
                 renaming, counted, history>>

\* The failed copy is taken for a good one.
CopyFailsUnseen ==
  /\ pc = "copy" /\ Fault /\ pc' = "remove"
  /\ UNCHANGED <<tree, strategy, todo, cur, target, carried, moved, cancel, events, tab,
                 renaming, jobs, renames, edits, history>>

CopyFails == pc = "copy" /\ Fault /\ NotMoved /\ UNCHANGED tree

RemoveOriginal ==
  /\ pc = "remove" /\ cur \in DOMAIN fs
  /\ fs' = Without(cur) /\ UNCHANGED dirs
  /\ Moved /\ UNCHANGED faults

RemoveFails ==
  /\ pc = "remove"
  /\ \/ cur \notin DOMAIN fs /\ UNCHANGED faults
     \/ Fault
  /\ NotMoved /\ UNCHANGED tree

-----------------------------------------------------------------------------
(* rename_batch, called by CopyTab::do_rename on the thread of the window. *)

\* apply_rename_pattern: {name} and the numerals, {ext}.
NewName(n, i) ==
  [stem |-> CASE pattern.stem = "{name}" -> n.stem
              [] pattern.stem = "{n}" -> Numeral[i]
              [] OTHER -> pattern.stem,
   ext |-> IF pattern.ext THEN n.ext ELSE ""]

NewPath(p, i) == Append(Front(p), NewName(Last(p), i))

StartRename(pt) ==
  /\ WindowFree /\ list # <<>> /\ renames < MaxRenames
  /\ at' = 1 /\ named' = <<>> /\ pattern' = pt /\ renames' = renames + 1
  /\ UNCHANGED <<tree, thread, cancel, events, tab, list, jobs, edits, faults, history>>

RenameOne ==
  /\ at \in 1..Len(list)
  /\ LET src == list[at]
         dst == NewPath(src, at)
     IN /\ CanRename(src, dst)
        /\ fs' = Renamed(src, dst) /\ named' = Append(named, dst)
  /\ at' = at + 1 /\ quiet' = FALSE
  /\ UNCHANGED <<dirs, thread, cancel, events, tab, list, pattern, counted, seen>>

\* The first failure ends it; the list keeps the old names.
RenameFails ==
  /\ at \in 1..Len(list)
  /\ \/ ~CanRename(list[at], NewPath(list[at], at)) /\ UNCHANGED faults
     \/ Fault
  /\ at' = 0
  /\ UNCHANGED <<tree, thread, cancel, events, tab, list, pattern, named, jobs, renames, edits,
                 history>>

RenameDone ==
  /\ at > Len(list)
  /\ list' = named /\ at' = 0
  /\ UNCHANGED <<tree, thread, cancel, events, tab, pattern, named, counted, history>>

-----------------------------------------------------------------------------
(* The user, in the folder itself, with other programs. *)

Edit == edits < MaxEdits /\ edits' = edits + 1 /\ quiet' = FALSE
editFrame == <<thread, cancel, events, tab, renaming, jobs, renames, faults, seen>>

UserRemoves(p) ==
  /\ Edit /\ p \in TopFiles /\ fs' = Without(p) /\ UNCHANGED <<dirs, editFrame>>

UserAdds(n, c) ==
  /\ Edit /\ ~Holds(c) /\ <<n>> \notin DOMAIN fs \union dirs
  /\ fs' = With(<<n>>, c) /\ UNCHANGED <<dirs, editFrame>>

-----------------------------------------------------------------------------
Organize ==
  \/ ListFolder \/ ListFails \/ Stopped \/ FinishOrganize
  \/ \E p \in todo : TakeFile(p) \/ DateUnreadable(p)
  \/ MoveByRename \/ MoveFails \/ BeginCopy \/ EndCopy \/ CopyFails
  \/ RemoveOriginal \/ RemoveFails

RenameBatch == RenameOne \/ RenameFails \/ RenameDone

Next ==
  \/ \E s \in Strategies : StartOrganize(s)
  \/ Cancel \/ Poll \/ Organize
  \/ \E pt \in Patterns : StartRename(pt)
  \/ RenameBatch
  \/ \E p \in TopFiles : UserRemoves(p)
  \/ \E n \in Names, c \in Files : UserAdds(n, c)

Spec == Init /\ [][Next]_vars

\* The threads run, and the window polls while it shows a job.
Fairness == WF_vars(Organize) /\ WF_vars(RenameBatch) /\ WF_vars(Poll)

FairSpec == Spec /\ Fairness

-----------------------------------------------------------------------------
(* Properties. *)

Event == [kind : {"moved", "error", "finished"}, path : {<<>>} \union {<<n>> : n \in Names}]

\* Every variable has values of its kind; a file stands below folders only, and the
\* thread has a new path for the file it is moving.
TypeOK ==
  /\ DOMAIN fs \subseteq Paths /\ dirs \subseteq Paths /\ DOMAIN fs \cap dirs = {}
  /\ \A p \in DOMAIN fs : fs[p] \in Files \union {Torn} /\ Folders(p) \subseteq dirs
  /\ pc \in {"list", "next", "move", "copy", "remove", "over", "gone"}
  /\ strategy \in Strategies
  /\ todo \union seen \subseteq {<<n>> : n \in Names} /\ todo \subseteq seen
  /\ pc \in {"move", "copy", "remove"} => cur \in seen \ todo /\ target \in Paths
  /\ carried \in Files \union {Torn} /\ moved \in Nat /\ tabMoved \in Nat
  /\ {cancel, job, quiet} \subseteq BOOLEAN
  /\ events \in Seq(Event) /\ log \subseteq Event
  /\ at \in 0..(Len(list) + 1)
  /\ jobs \in 0..MaxJobs /\ renames \in 0..MaxRenames
  /\ edits \in 0..MaxEdits /\ faults \in 0..MaxFaults

\* A file vanishes from the folder only when the user removes it, when another file is
\* given its name (rename and fs::copy ask nobody), or when it came under the old name
\* of a file while that one was copied to another volume (organize_dir, move_path,
\* rename_batch).
NothingVanishes ==
  [][\A c \in Files : Holds(c) /\ ~Holds(c)' =>
       \/ edits' # edits
       \/ \E p \in DOMAIN fs : fs[p] = c /\ p \in DOMAIN fs' /\ fs'[p] # c
       \/ pc = "remove" /\ c # carried]_vars

Failures == Lines(events, "error") \union {l \in log : l.kind = "error"}

\* When the tab has seen the end of a job it has a line for every file of the listing,
\* its count is that of the files moved, and unless something failed or somebody else
\* changed the folder, no file is left directly in it (OrganizeTab::poll, organize_dir).
SortedWhenDone ==
  jobs > 0 /\ ~job =>
    /\ {l.path : l \in log} = seen
    /\ tabMoved = Cardinality({l \in log : l.kind = "moved"}) /\ tabMoved = moved
    /\ quiet /\ faults = 0 /\ Failures = {} => TopFiles = {}

\* A job ends in the tab, unless it was cancelled, met a fault, or sorts by date while
\* files go from the folder: those three leave organize_dir by an error, for which there
\* is no event, and the tab keeps the job (OrganizeTab::poll, worker::spawn_organize).
OrganizeEnds == job ~> ~job \/ cancel \/ faults > 0 \/ (strategy # "type" /\ ~quiet)
=============================================================================
