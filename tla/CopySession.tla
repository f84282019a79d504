---------------------------- MODULE CopySession ----------------------------
(***************************************************************************)
(* The Copy tab and the launches that reach it: CopyTab of              *)
(* app/src/ui/copy_tab.rs, the frame of app/src/main.rs that feeds it, the *)
(* single-instance hand-over of app/src/ipc.rs, and the job threads of     *)
(* app/src/worker.rs with the events copy_tree and move_tree send.         *)
(*                                                                         *)
(* One frame is five steps, in the order in which App::ui and CopyTab::ui  *)
(* run; job threads and other launches go on between any two of them.   *)
(* A source is one file here: how a job treats a tree is CopyJob's matter. *)
(***************************************************************************)
EXTENDS Naturals, Sequences, FiniteSetsExt, Selection

CONSTANTS
  Paths,        \* what the user may add
  First,        \* the paths that exist at first; the others are names to rename to
  MoveFlag,     \* the line "--move"
  NoTotals,     \* totals is None
  MaxAdded,     \* bound: paths that are launched or picked
  MaxStarts     \* bound: sessions

ASSUME SessionConstants ==
  /\ IsFiniteSet(Paths) /\ First \subseteq Paths
  /\ MoveFlag \notin Paths
  /\ NoTotals \notin [copied : Nat, failed : Nat]
  /\ MaxAdded \in Nat /\ MaxStarts \in Nat

VARIABLES
  conns,     \* connections waiting for the listener: sequences of lines
  inbox,     \* ipc_rx
  added,     \* paths launched or picked so far
  stage,     \* the next step of the frame
  tab,       \* the tab that is shown
  dropped,   \* this frame's paths on their way to it
  mode, sources, dest,  \* CopyTab; sources counts the occurrences, dest is Some
  jobs,      \* CopyTab.jobs: sequence of records, see NewJob
  queued, filesDone, totalFiles, totals,
  disk,      \* the paths that exist
  starts,
  handed,    \* history: batches of this session that had the path
  lost,      \* history: paths queued in this session without a batch
  cut,       \* history: a job of this session was cancelled, or had a path twice
  asked,     \* history: paths launched with --move, until the user picks a mode
  picked     \* history: the user has picked a mode since the last --move

ipcVars == <<conns, inbox, added>>
totalVars == <<filesDone, totalFiles, totals>>
listVars == <<mode, sources, dest>>
histVars == <<handed, lost, cut, asked, picked>>
vars == <<ipcVars, stage, tab, dropped, listVars, jobs, queued, totalVars, disk, starts,
          histVars>>

None == [p \in Paths |-> 0]

SumOf(bag) == SumFunctionOnSet(bag, Paths)

Listed(bag) == {p \in Paths : bag[p] > 0}

Running == jobs # <<>>

\* A job and what it has sent since the tab last looked. left: the files it still has.
NewJob(kind, bag) ==
  [kind |-> kind, bag |-> bag, phase |-> "planning", left |-> bag, cancel |-> FALSE,
   started |-> 0, done |-> 0, copied |-> 0, failed |-> 0, verdict |-> "none"]

Init ==
  /\ conns = <<>> /\ inbox = <<>> /\ added = 0
  /\ stage = "messages" /\ tab = "Copy" /\ dropped = <<>>
  /\ mode = "Copy" /\ sources = None /\ dest = FALSE
  /\ jobs = <<>> /\ queued = {} /\ filesDone = 0 /\ totalFiles = 0 /\ totals = NoTotals
  /\ disk = First /\ starts = 0
  /\ handed = None /\ lost = {} /\ cut = FALSE /\ asked = {} /\ picked = FALSE

-----------------------------------------------------------------------------
(* Launches and the listener thread.                                       *)

\* A line with a path. forMove, what it was launched for, is not on the wire.
PathLine(p, move) == [path |-> p, forMove |-> move]

\* Mutation: the paths go first.
LinesPathFirst(p, move) == <<PathLine(p, move)>> \o (IF move THEN <<MoveFlag>> ELSE <<>>)

\* forward: what another launch writes; Explorer launches once per selected item.
Lines(p, move) == (IF move THEN <<MoveFlag>> ELSE <<>>) \o <<PathLine(p, move)>>

Launch(p, move) ==
  /\ added < MaxAdded
  /\ added' = added + 1
  /\ conns' = Append(conns, Lines(p, move))
  /\ UNCHANGED <<inbox, stage, tab, dropped, listVars, jobs, queued, totalVars, disk, starts,
                 histVars>>

\* listen: one line of the connection at hand; the next connection after its end.
Listen ==
  /\ conns # <<>>
  /\ inbox' = Append(inbox, Head(Head(conns)))
  /\ conns' = IF Len(Head(conns)) = 1 THEN Tail(conns)
              ELSE <<Tail(Head(conns))>> \o Tail(conns)
  /\ UNCHANGED <<added, stage, tab, dropped, listVars, jobs, queued, totalVars, disk,
                 starts, histVars>>

-----------------------------------------------------------------------------
(* The job threads.                                                        *)

Sends(i, job) ==
  /\ jobs' = [jobs EXCEPT ![i] = job]
  /\ UNCHANGED <<ipcVars, stage, tab, dropped, listVars, queued, totalVars, starts, histVars>>

\* plan_copy finds every source: Started.
Plan(i) ==
  LET j == jobs[i] IN
  /\ j.phase = "planning" /\ Listed(j.bag) \subseteq disk
  /\ Sends(i, [j EXCEPT !.phase = IF j.kind = "Move" THEN "renaming" ELSE "copying",
                        !.started = SumOf(j.bag)])
  /\ UNCHANGED disk

\* The error is dropped with the sender of the channel: no event is ever sent.
Dies(i) == Sends(i, [jobs[i] EXCEPT !.phase = "dead"]) /\ UNCHANGED disk

\* A source is gone.
PlanFails(i) ==
  /\ jobs[i].phase = "planning" /\ Listed(jobs[i].bag) \ disk # {}
  /\ Dies(i)

\* move_tree cannot create the destination.
NoDestination(i) ==
  /\ jobs[i].phase = "planning" /\ jobs[i].kind = "Move"
  /\ Dies(i)

\* The rename loop over the sources of renamed: each is done with all its occurrences in
\* the plan, and every other entry of the list falls back with as many.
Renames(j, renamed) ==
  LET done == SumFunctionOnSet(j.bag, renamed) IN
  [j EXCEPT !.done = @ + done, !.copied = @ + done,
            !.left = [p \in Paths |-> j.bag[p] * (IF p \in renamed THEN j.bag[p] - 1
                                                                ELSE j.bag[p])]]

RenameSources(i) ==
  LET j == jobs[i] IN
  /\ j.phase = "renaming" /\ ~j.cancel
  /\ \E renamed \in SUBSET (Listed(j.bag) \intersect disk) :
       /\ disk' = disk \ renamed
       /\ Sends(i, [Renames(j, renamed) EXCEPT !.phase = "copying"])

\* FileDone or FileSkipped.
FileDone(i, p) ==
  LET j == jobs[i] IN
  /\ j.phase = "copying" /\ j.left[p] > 0 /\ p \in disk
  /\ Sends(i, [j EXCEPT !.left[p] = @ - 1, !.done = @ + 1, !.copied = @ + 1])
  /\ UNCHANGED disk

FileError(i, p) ==
  LET j == jobs[i] IN
  /\ j.phase = "copying" /\ j.left[p] > 0
  /\ Sends(i, [j EXCEPT !.left[p] = @ - 1, !.failed = @ + 1])
  /\ UNCHANGED disk

\* A task notices the token, or the rename loop does after some of its renames.
StopOnCancel(i) ==
  LET j == jobs[i]
      ended == [j EXCEPT !.phase = "ended", !.verdict = "Cancelled"] IN
  /\ j.cancel
  /\ \/ /\ j.phase = "renaming"
        /\ \E renamed \in SUBSET (Listed(j.bag) \intersect disk) :
             disk' = disk \ renamed /\ Sends(i, Renames(ended, renamed))
     \/ j.phase = "copying" /\ SumOf(j.left) > 0 /\ Sends(i, ended) /\ UNCHANGED disk

\* Finished; a move whose files all went removes the originals that let it.
Finish(i) ==
  LET j == jobs[i] IN
  /\ j.phase = "copying" /\ SumOf(j.left) = 0
  /\ \/ UNCHANGED disk
     \/ /\ j.kind = "Move" /\ j.failed = 0
        /\ \E removed \in SUBSET Listed(j.bag) : disk' = disk \ removed
  /\ Sends(i, [j EXCEPT !.phase = "ended", !.verdict = "Finished"])

Work(i) ==
  \/ Plan(i) \/ PlanFails(i) \/ RenameSources(i) \/ StopOnCancel(i) \/ Finish(i)
  \/ \E p \in Paths : FileDone(i, p) \/ FileError(i, p)

JobThread == \E i \in 1..Len(jobs) : Work(i)

-----------------------------------------------------------------------------
(* A frame.                                                                *)

\* App::ui drains ipc_rx, which brings the Copy tab to the front, and draws the tab
\* strip, which may be clicked. What was dropped goes to the tab that is shown.
TakeMessages ==
  /\ stage = "messages"
  /\ inbox' = <<>>
  /\ LET moved == \E k \in 1..Len(inbox) : inbox[k] = MoveFlag
         lines == Only(inbox, {inbox[k] : k \in 1..Len(inbox)} \ {MoveFlag}) IN
     /\ mode' = IF moved THEN "Move" ELSE mode
     /\ picked' = (picked /\ ~moved)
     /\ tab' \in {IF inbox # <<>> THEN "Copy" ELSE tab, "Copy", "Other"}
     /\ dropped' = IF tab' = "Copy" THEN [k \in 1..Len(lines) |-> lines[k].path] ELSE <<>>
     /\ asked' = IF tab' # "Copy" \/ picked' THEN asked
                 ELSE asked \union {lines[k].path : k \in {l \in 1..Len(lines) : lines[l].forMove}}
     /\ stage' = IF tab' = "Copy" THEN "poll" ELSE "messages"
  /\ UNCHANGED <<conns, added, sources, dest, jobs, queued, totalVars, disk, starts,
                 handed, lost, cut>>

\* The jobs whose terminal event is in their channel.
Ended == {i \in 1..Len(jobs) : jobs[i].verdict # "none"}

\* What each of some jobs has counted.
Started(list) == [i \in 1..Len(list) |-> list[i].started]
Done(list) == [i \in 1..Len(list) |-> list[i].done]
Copied(list) == [i \in 1..Len(list) |-> list[i].copied]
Failed(list) == [i \in 1..Len(list) |-> list[i].failed]

\* Mutation: a finished job replaces the totals instead of adding to them.
NewTotalsOfLast(S) ==
  IF S = {} THEN totals
  ELSE LET i == CHOOSE k \in S : \A l \in S : l <= k IN
       [copied |-> jobs[i].copied, failed |-> jobs[i].failed]

\* The summaries of the finished jobs are added up.
NewTotals(S) ==
  IF S = {} THEN totals
  ELSE LET old == IF totals = NoTotals THEN [copied |-> 0, failed |-> 0] ELSE totals IN
       [copied |-> old.copied + SumFunctionOnSet(Copied(jobs), S),
        failed |-> old.failed + SumFunctionOnSet(Failed(jobs), S)]

\* Mutation: a cancelled job stays in the list.
StillRunningAll == {jobs[i] : i \in {k \in 1..Len(jobs) : jobs[k].verdict # "Finished"}}

StillRunning == {jobs[i] : i \in 1..Len(jobs) \ Ended}

\* The session is over when its last job is.
QueuedWhen(left) == IF Running /\ left = <<>> THEN {} ELSE queued

\* CopyTab::poll.
Poll ==
  /\ stage = "poll"
  /\ stage' = "gather"
  /\ totalFiles' = totalFiles + SumFunction(Started(jobs))
  /\ filesDone' = filesDone + SumFunction(Done(jobs))
  /\ totals' = NewTotals({i \in Ended : jobs[i].verdict = "Finished"})
  /\ LET left == Only(jobs, StillRunning) IN
     jobs' = [i \in 1..Len(left) |-> [left[i] EXCEPT !.started = 0, !.done = 0]]
  /\ queued' = QueuedWhen(jobs')
  /\ cut' = (cut \/ \E i \in Ended : jobs[i].verdict = "Cancelled")
  /\ UNCHANGED <<ipcVars, tab, dropped, listVars, disk, starts, handed, lost, asked,
                 picked>>

\* Occurrences of p in a sequence.
Occurrences(seq, p) == Cardinality({k \in 1..Len(seq) : seq[k] = p})

\* The two pickers, the mode buttons, and the routing of what was dropped: on the
\* Destination box, if the pointer is over it, a folder becomes the destination and
\* anything else is forgotten.
Gather ==
  /\ stage = "gather"
  /\ stage' = "absorb"
  /\ \E browsed \in {<<>>} \union {<<p>> : p \in disk},
        clicked \in {"Copy", "Move", "Rename"}, overDest \in BOOLEAN :
       LET new == browsed \o (IF overDest THEN <<>> ELSE dropped) IN
       /\ overDest => dropped # <<>> /\ clicked # "Rename"
       /\ added' = added + Len(browsed) /\ added' <= MaxAdded
       /\ sources' = [p \in Paths |-> sources[p] + Occurrences(new, p)]
       /\ mode' = clicked
       /\ IF clicked = mode THEN UNCHANGED <<asked, picked>> ELSE asked' = {} /\ picked' = TRUE
       /\ dest' \in {dest, TRUE}
  /\ dropped' = <<>>
  /\ UNCHANGED <<conns, inbox, tab, jobs, queued, totalVars, disk, starts, handed, lost, cut>>

\* spawn_new_batch: the paths are queued first; in Rename mode there is no job.
SpawnBatch(bag) ==
  /\ jobs' = IF mode = "Rename" THEN jobs ELSE Append(jobs, NewJob(mode, bag))
  /\ IF mode = "Rename"
       THEN lost' = lost \union Listed(bag) /\ UNCHANGED <<handed, cut>>
       ELSE /\ handed' = [p \in Paths |-> handed[p] + (IF bag[p] > 0 THEN 1 ELSE 0)]
            /\ cut' = (cut \/ \E p \in Paths : bag[p] > 1)
            /\ UNCHANGED lost

\* Mutation: a running session takes its whole list again.
NewSourcesAll == sources

NewSources == [p \in Paths |-> IF p \in queued THEN 0 ELSE sources[p]]

\* absorb_new_sources.
Absorb ==
  /\ stage = "absorb"
  /\ stage' = "buttons"
  /\ IF Running /\ dest /\ Listed(NewSources) # {}
       THEN SpawnBatch(NewSources) /\ queued' = queued \union Listed(NewSources)
       ELSE UNCHANGED <<jobs, queued, handed, lost, cut>>
  /\ UNCHANGED <<ipcVars, tab, dropped, listVars, totalVars, disk, starts, asked,
                 picked>>

\* The end of the frame; at most one button was clicked.
EndFrame ==
  /\ stage = "buttons"
  /\ stage' = "messages"
  /\ UNCHANGED <<ipcVars, tab, dropped, mode, dest>>

\* CopyTab::start: every total is reset.
Start ==
  /\ EndFrame
  /\ ~Running /\ mode # "Rename" /\ starts < MaxStarts
  /\ Listed(sources) # {} /\ dest
  /\ starts' = starts + 1
  /\ totalFiles' = 0 /\ filesDone' = 0 /\ totals' = NoTotals
  /\ queued' = Listed(sources)
  /\ jobs' = <<NewJob(mode, sources)>>
  /\ handed' = [p \in Paths |-> IF sources[p] > 0 THEN 1 ELSE 0]
  /\ cut' = \E p \in Paths : sources[p] > 1
  /\ lost' = {}
  /\ UNCHANGED <<sources, disk, asked, picked>>

CancelAll ==
  /\ EndFrame
  /\ Running /\ mode # "Rename"
  /\ jobs' = [i \in 1..Len(jobs) |-> [jobs[i] EXCEPT !.cancel = TRUE]]
  /\ UNCHANGED <<sources, queued, totalVars, disk, starts, histVars>>

Clear ==
  /\ EndFrame
  /\ ~Running /\ Listed(sources) # {}
  /\ sources' = None
  /\ UNCHANGED <<jobs, queued, totalVars, disk, starts, histVars>>

\* The x of one entry.
RemoveEntry(p) ==
  /\ EndFrame
  /\ ~Running /\ sources[p] > 0
  /\ sources' = [sources EXCEPT ![p] = @ - 1]
  /\ UNCHANGED <<jobs, queued, totalVars, disk, starts, histVars>>

\* do_rename: rename_batch gives every listed file its new name, or the one it has, and
\* the list takes them. It does not ask whether a job is running.
Rename ==
  LET S == Listed(sources) IN
  /\ EndFrame
  /\ mode = "Rename" /\ S # {} /\ S \subseteq disk /\ \A p \in S : sources[p] = 1
  /\ \E new \in [S -> Paths] :
       /\ \A p \in S : new[p] = p \/ new[p] \notin disk
       /\ \A p, q \in S : new[p] = new[q] => p = q
       /\ disk' = (disk \ S) \union {new[p] : p \in S}
       /\ sources' = [q \in Paths |-> IF \E p \in S : new[p] = q THEN 1 ELSE 0]
  /\ UNCHANGED <<jobs, queued, totalVars, starts, histVars>>

\* rename_batch stops at a failure: what was renamed stays so, and the list as it was.
RenameStops ==
  /\ EndFrame
  /\ mode = "Rename"
  /\ \E p \in Listed(sources) \intersect disk, q \in Paths \ disk :
       disk' = (disk \ {p}) \union {q}
  /\ UNCHANGED <<sources, jobs, queued, totalVars, starts, histVars>>

NoClick ==
  /\ EndFrame
  /\ UNCHANGED <<sources, jobs, queued, totalVars, disk, starts, histVars>>

Buttons ==
  \/ Start \/ CancelAll \/ Clear \/ Rename \/ RenameStops \/ NoClick
  \/ \E p \in Paths : RemoveEntry(p)

Frame == TakeMessages \/ Poll \/ Gather \/ Absorb \/ Buttons

-----------------------------------------------------------------------------

Next ==
  \/ \E p \in First, move \in BOOLEAN : Launch(p, move)
  \/ Listen
  \/ \E i \in 1..Len(jobs) : Work(i) \/ NoDestination(i)
  \/ Frame

Spec == Init /\ [][Next]_vars

\* The window repaints at least every 200 ms, and the listener and job threads run.
FairSpec == Spec /\ WF_vars(Frame) /\ WF_vars(Listen) /\ WF_vars(JobThread)

-----------------------------------------------------------------------------
(* Properties.                                                             *)

Line == {MoveFlag} \union [path : Paths, forMove : BOOLEAN]

JobType ==
  [kind : {"Copy", "Move"}, bag : [Paths -> Nat], left : [Paths -> Nat], cancel : BOOLEAN,
   phase : {"planning", "renaming", "copying", "ended", "dead"},
   started : Nat, done : Nat, copied : Nat, failed : Nat,
   verdict : {"none", "Finished", "Cancelled"}]

\* Every variable has values of its kind: jobs run only while a destination is set and
\* `queued` is empty when none does (spawn_new_batch and poll).
TypeOK ==
  /\ conns \in Seq(Seq(Line)) /\ inbox \in Seq(Line) /\ added \in 0..MaxAdded
  /\ stage \in {"messages", "poll", "gather", "absorb", "buttons"}
  /\ tab \in {"Copy", "Other"} /\ (stage # "messages" => tab = "Copy")
  /\ dropped \in Seq(Paths)
  /\ mode \in {"Copy", "Move", "Rename"} /\ dest \in BOOLEAN
  /\ sources \in [Paths -> Nat] /\ SumOf(sources) <= MaxAdded
  /\ jobs \in Seq(JobType) /\ (Running => dest)
  /\ queued \subseteq Paths /\ (~Running => queued = {})
  /\ filesDone \in Nat /\ totalFiles \in Nat
  /\ totals \in {NoTotals} \union [copied : Nat, failed : Nat]
  /\ disk \subseteq Paths /\ starts \in 0..MaxStarts
  /\ handed \in [Paths -> Nat] /\ lost \subseteq Paths /\ asked \subseteq Paths
  /\ cut \in BOOLEAN /\ picked \in BOOLEAN

\* However sources are added, renamed and named again, no path is in two batches of a
\* session, and at the end of each frame of a running one every listed path is in a batch,
\* unless it came while the tab was in Rename mode (spawn_new_batch, absorb_new_sources).
HandedExactlyOnce ==
  /\ \A p \in Paths : handed[p] <= 1
  /\ Running /\ stage = "buttons" =>
       \A p \in Listed(sources) : handed[p] = 1 \/ p \in lost

\* When a session is over that had no cancelled job and no path twice in a batch, the
\* files announced are the files counted as done and the failed ones, and the totals say
\* the same as the progress line (CopyTab::poll, and the counting of the engine).
TotalsAddUp ==
  ~Running /\ totals # NoTotals /\ ~cut =>
    /\ totals.copied = filesDone
    /\ filesDone + totals.failed = totalFiles

\* A path launched for moving is never handed to a copy, unless the user has picked a
\* mode in the meantime (forward, listen and the frame keep --move before its path).
MoveRequestsMove ==
  [][\A i \in 1..Len(jobs') :
       i > Len(jobs) /\ jobs'[i].kind = "Copy" => Listed(jobs'[i].bag) \intersect asked = {}]_vars

Dead == \E i \in 1..Len(jobs) : jobs[i].phase = "dead"

\* If the user keeps coming back to the tab, every session ends, cancelled or not, unless
\* one of its jobs could not be planned.
SessionEnds == []<>(tab = "Copy") => (Running ~> (~Running \/ Dead))
=============================================================================
