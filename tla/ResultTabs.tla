----------------------------- MODULE ResultTabs -----------------------------
(***************************************************************************)
(* The tabs that scan, list and delete: Duplicates (dup_tab.rs with        *)
(* engine/src/duplicates.rs), Big Files (large_files_tab.rs with           *)
(* large_files.rs), Big Folders (big_folders_tab.rs with big_folders.rs)   *)
(* and Search (search_tab.rs with search.rs). All of them have a scan on a *)
(* worker thread, a list that grows with its events, a selection, and a    *)
(* deletion on a thread of its own; Big Files and Big Folders cache what   *)
(* their filter shows, Search can also move what is selected.              *)
(*                                                                         *)
(* The list is a sequence of groups, of one path each but in Duplicates.   *)
(* A frame of the window is an action: Poll, which ends with the refresh   *)
(* of the cache, or a click.                                               *)
(***************************************************************************)
EXTENDS Naturals, Sequences, FiniteSets, SequencesExt

CONSTANTS
  Paths,
  Contents,    \* contents of files
  Size, Start64, \* [Contents -> ...]: the length; what the partial hash covers
  Gone,        \* no file any more: in the trash, or moved
  Unreadable,  \* the hash of a file that could not be read
  Tabs,        \* the tabs to look at: a subset of {"duplicates", "large", "folders", "search"}
  Walks,       \* [Tabs -> what the walk of the folders the user may choose lists, in order]
  Within,      \* [Paths -> ...]: what is in a path that is a folder, itself included
  Disks,       \* [Tabs -> what the files may hold at first]
  Needles,     \* search texts: sets of paths that match
  MaxScans, MaxDeletes, MaxMoves, \* bounds: scans, deletions, moves,
  MaxEdits     \* [Tabs -> Nat], edits by the user

ASSUME ResultConstants ==
  /\ Gone \notin Contents /\ Unreadable \notin Contents \union {Start64[c] : c \in Contents}
  /\ Tabs \subseteq {"duplicates", "large", "folders", "search"}
  /\ Within \in [Paths -> SUBSET Paths]
  /\ \A t \in Tabs : Disks[t] \subseteq [Paths -> Contents] /\ \A w \in Walks[t] : ToSet(w) \subseteq Paths
  /\ Needles \subseteq SUBSET Paths
  /\ MaxScans \in Nat /\ MaxDeletes \in Nat /\ MaxMoves \in Nat /\ MaxEdits \in [Tabs -> Nat]

VARIABLES
  tab,       \* which of the tabs this is
  file,      \* [Paths -> Contents or Gone]
  job,       \* job is Some
  results,   \* groups of Duplicates; results of the others as groups of one
  selected,
  deleting,  \* the paths given to the trash thread; none when there is no deletion
  verdict,   \* its channel: "none", "ok" or "err"
  moving,    \* the paths given to the move job
  mover,     \* where that job is; "lost" when its error was dropped, "done" with its last event
  needle,    \* the text of the filter
  shown,     \* filtered_indices
  key,       \* filtered_cache_key
  events,    \* the scan's channel: groups, and then "end"
  token,     \* its CancelToken
  pc,        \* where the scan is
  walk,      \* what it has still to list
  listed,    \* by_size: [path, size] in the order of the walk
  classes,   \* sizes whose candidates are still to be hashed
  pool,      \* the paths being hashed
  hashes,    \* [positions in pool that are hashed -> hash]
  subs,      \* groups of one partial hash that are still to be hashed in full
  left,      \* paths the trash thread has not reached
  toMove,    \* paths of its plan it has not reached
  scans, deletes, moves, edits,
  found,     \* history: paths the list was told of by this scan
  byHand,    \* history: paths ticked one by one since the scan started
  dirty,     \* history: files edited since the scan started
  muddled    \* history: the scan began during a deletion, or lists a path twice

listVars == <<job, results, selected>>
cacheVars == <<needle, shown, key>>
deleteVars == <<deleting, verdict, left, deletes>>
moveVars == <<moving, mover, toMove, moves>>
funnelVars == <<listed, classes, pool, hashes, subs>>
scanVars == <<events, token, pc, walk, funnelVars>>
histVars == <<found, byHand, dirty, muddled>>
vars == <<tab, file, listVars, cacheVars, deleteVars, moveVars, scanVars, scans, edits, histVars>>

Exists(p) == file[p] # Gone

\* The paths of a list of groups.
Listed(groups) == UNION {ToSet(g) : g \in ToSet(groups)}

Init ==
  /\ tab \in Tabs
  /\ file \in Disks[tab]
  /\ job = FALSE /\ results = <<>> /\ selected = {}
  /\ deleting = {} /\ verdict = "none" /\ left = {} /\ deletes = 0
  /\ moving = {} /\ mover = "none" /\ toMove = {} /\ moves = 0
  /\ needle = Paths /\ shown = {} /\ key = <<Paths, 0>>
  /\ events = <<>> /\ token = FALSE /\ pc = "idle" /\ walk = <<>>
  /\ listed = <<>> /\ classes = {} /\ pool = <<>> /\ hashes = <<>> /\ subs = {}
  /\ scans = 0 /\ edits = 0
  /\ found = {} /\ byHand = {} /\ dirty = {} /\ muddled = FALSE

-----------------------------------------------------------------------------
(* The tab. *)

\* The positions refresh_filtered shows of a list.
Fresh(groups, text) == {k \in DOMAIN groups : groups[k][1] \in text}

\* Mutation: the cache is rebuilt only when the text changes.
KeyOfText(groups, text) == <<text, 0>>

\* The cache is rebuilt when its key changes: the text or the number of results.
KeyOf(groups, text) == <<text, Len(groups)>>

\* The tabs with a filter.
Filtered == tab \in {"large", "folders"}

Refresh(groups, text) ==
  IF Filtered /\ key # KeyOf(groups, text)
    THEN shown' = Fresh(groups, text) /\ key' = KeyOf(groups, text)
    ELSE UNCHANGED <<shown, key>>

NotRepeating(w) == \A i, j \in DOMAIN w : w[i] = w[j] => i = j

\* start: a deletion or a move may still be under way.
Start(w) ==
  /\ ~job /\ scans < MaxScans
  /\ job' = TRUE /\ results' = <<>> /\ selected' = {}
  /\ Refresh(<<>>, needle)
  /\ events' = <<>> /\ token' = FALSE /\ pc' = "walk" /\ walk' = w
  /\ listed' = <<>> /\ classes' = {} /\ pool' = <<>> /\ hashes' = <<>> /\ subs' = {}
  /\ scans' = scans + 1
  /\ found' = {} /\ byHand' = {} /\ dirty' = {}
  /\ muddled' = (deleting # {} \/ ~NotRepeating(w))
  /\ UNCHANGED <<tab, file, needle, deleteVars, moveVars, edits>>

Cancel ==
  /\ job /\ ~token
  /\ token' = TRUE
  /\ UNCHANGED <<tab, file, listVars, cacheVars, deleteVars, moveVars, events, pc, walk, funnelVars,
                 scans, edits, histVars>>

\* Groups without some paths; a group of Duplicates goes with its last but one.
Without(groups, paths) ==
  LET rest(g) == SelectSeq(g, LAMBDA p : p \notin paths)
      enough(g) == Len(g) > IF tab = "duplicates" THEN 1 ELSE 0
  IN  SelectSeq([k \in DOMAIN groups |-> rest(groups[k])], enough)

\* Mutation: a deletion that failed takes its paths from the list, too.
DeletedOrNot == IF verdict # "none" THEN deleting ELSE {}

\* What the deletion and the move that ended take from the list.
Deleted == IF verdict = "ok" THEN deleting ELSE {}
Moved == IF mover = "done" THEN {p \in moving : ~Exists(p)} ELSE {}

IsEnd(e) == e = <<>>

\* poll: the deletion's result, the move's, then every event of the scan.
Poll ==
  /\ verdict # "none" \/ mover = "done" \/ events # <<>>
  /\ LET news == SelectSeq(events, LAMBDA e : ~IsEnd(e))
         kept == Without(results, Deleted \union Moved)
     IN  /\ results' = kept \o news
         /\ found' = found \union Listed(news)
         /\ Refresh(kept \o news, needle)
  /\ selected' = selected \ (Deleted \union Moved)
  /\ job' = (job /\ \A k \in DOMAIN events : ~IsEnd(events[k]))
  /\ events' = <<>>
  /\ IF verdict # "none" THEN deleting' = {} /\ verdict' = "none" ELSE UNCHANGED <<deleting, verdict>>
  /\ IF mover = "done" THEN moving' = {} /\ mover' = "none" ELSE UNCHANGED <<moving, mover>>
  /\ UNCHANGED <<tab, file, needle, left, deletes, toMove, moves, token, pc, walk, funnelVars, scans, edits,
                 byHand, dirty, muddled>>

TabOnly == UNCHANGED <<tab, file, moveVars, scanVars, scans, edits>>

\* The text of the filter.
SetNeedle(text) ==
  /\ Filtered /\ needle # text
  /\ needle' = text
  /\ Refresh(results, text)
  /\ UNCHANGED <<listVars, deleteVars, histVars>> /\ TabOnly

\* A checkbox.
Tick(p) ==
  /\ p \in Listed(results)
  /\ IF p \in selected
       THEN selected' = selected \ {p} /\ UNCHANGED byHand
       ELSE selected' = selected \union {p} /\ byHand' = byHand \union {p}
  /\ UNCHANGED <<job, results, cacheVars, deleteVars, found, dirty, muddled>> /\ TabOnly

\* select_all_but_first of Duplicates.
AllButFirst == UNION {ToSet(Tail(g)) : g \in ToSet(results)}

\* The button that selects: all but first, all shown, or all.
SelectMany ==
  /\ results # <<>>
  /\ selected' =
       CASE tab = "duplicates" -> AllButFirst
         [] Filtered           -> selected \union {results[k][1] : k \in shown}
         [] tab = "search"     -> selected \union Listed(results)
  /\ UNCHANGED <<job, results, cacheVars, deleteVars, histVars>> /\ TabOnly

ClearSelection ==
  /\ tab # "duplicates" /\ selected # {}
  /\ selected' = {}
  /\ UNCHANGED <<job, results, cacheVars, deleteVars, histVars>> /\ TabOnly

DeleteSelected ==
  /\ selected # {} /\ deleting = {} /\ deletes < MaxDeletes
  /\ deleting' = selected /\ left' = selected
  /\ deletes' = deletes + 1
  /\ UNCHANGED <<listVars, cacheVars, verdict, histVars>> /\ TabOnly

\* move_selected of Search, once the folder is picked.
MoveSelected ==
  /\ tab = "search" /\ selected # {} /\ moving = {} /\ moves < MaxMoves
  /\ moving' = selected /\ mover' = "planning"
  /\ moves' = moves + 1
  /\ UNCHANGED <<tab, file, listVars, cacheVars, deleteVars, toMove, scanVars, scans, edits,
                 histVars>>

-----------------------------------------------------------------------------
(* The scan. *)

ScanAside == UNCHANGED <<tab, file, listVars, cacheVars, deleteVars, moveVars, token, scans, edits,
                         histVars>>

Send(es) == events' = events \o es

\* The last events; what the thread had is gone.
EndScan(last) ==
  /\ events' = events \o last \o <<<<>>>>
  /\ pc' = "idle" /\ walk' = <<>>
  /\ listed' = <<>> /\ classes' = {} /\ pool' = <<>> /\ hashes' = <<>> /\ subs' = {}

\* Mutation: a walk that is cancelled returns without an event.
StopWalkSilently ==
  /\ pc = "walk" /\ token /\ walk # <<>>
  /\ pc' = "idle"
  /\ UNCHANGED <<events, walk, funnelVars>> /\ ScanAside

\* The walk looks at the token before every entry.
StopWalk ==
  /\ pc = "walk" /\ token /\ walk # <<>>
  /\ EndScan(<<>>) /\ ScanAside

\* An entry that is gone, cannot be read, or is too small or of another name.
PassEntry ==
  /\ pc = "walk" /\ ~token /\ walk # <<>>
  /\ walk' = Tail(walk)
  /\ UNCHANGED <<events, pc, funnelVars>> /\ ScanAside

\* find_large_files and search_files report a match at once.
ReportEntry ==
  /\ tab \in {"large", "search"}
  /\ pc = "walk" /\ ~token /\ walk # <<>> /\ Exists(Head(walk))
  /\ walk' = Tail(walk)
  /\ Send(<<<<Head(walk)>>>>)
  /\ UNCHANGED <<pc, funnelVars>> /\ ScanAside

\* find_duplicates notes path and size, find_big_folders a folder and its total.
ListEntry ==
  /\ tab \in {"duplicates", "folders"}
  /\ pc = "walk" /\ ~token /\ walk # <<>> /\ Exists(Head(walk))
  /\ walk' = Tail(walk)
  /\ listed' = Append(listed, [path |-> Head(walk), size |-> Size[file[Head(walk)]]])
  /\ UNCHANGED <<events, pc, classes, pool, hashes, subs>> /\ ScanAside

OfSize(n) ==
  LET entries == SelectSeq(listed, LAMBDA e : e.size = n)
  IN  [k \in DOMAIN entries |-> entries[k].path]

EndWalk ==
  /\ pc = "walk" /\ walk = <<>>
  /\ \/ tab \in {"large", "search"} /\ EndScan(<<>>)
     \/ tab = "folders" /\ EndScan([k \in DOMAIN listed |-> <<listed[k].path>>])
     \/ /\ tab = "duplicates"
        /\ classes' = {n \in {e.size : e \in ToSet(listed)} : Len(OfSize(n)) > 1}
        /\ pc' = "class"
        /\ UNCHANGED <<events, walk, listed, pool, hashes, subs>>
  /\ ScanAside

StopHashing ==
  /\ pc = "class" /\ token /\ classes # {}
  /\ EndScan(<<>>) /\ ScanAside

NextClass ==
  /\ pc = "class" /\ ~token
  /\ \E n \in classes : classes' = classes \ {n} /\ pool' = OfSize(n)
  /\ pc' = "partial"
  /\ UNCHANGED <<events, walk, listed, hashes, subs>> /\ ScanAside

\* Mutation: equal beginnings are taken for equal files.
HashOfStart(content) == Start64[content]

\* hash_file_partial or hash_file_full of one file of the pool, in any order.
HashOf(content) == IF pc = "partial" THEN Start64[content] ELSE content

HashOne(k) ==
  /\ pc \in {"partial", "full"} /\ k \in DOMAIN pool \ DOMAIN hashes
  /\ \E h \in {Unreadable} \union {HashOf(c) : c \in {file[pool[k]]} \ {Gone}} :
       hashes' = (k :> h) @@ hashes
  /\ UNCHANGED <<events, pc, walk, listed, classes, pool, subs>> /\ ScanAside

\* Files with one hash, in the order of the pool, where there are several.
SameHash ==
  LET of(h) == {k \in DOMAIN pool : hashes[k] = h}
      inOrder(ks) == LET s == SetToSortSeq(ks, <) IN [i \in DOMAIN s |-> pool[s[i]]]
  IN  {inOrder(of(h)) : h \in {x \in Range(hashes) : x # Unreadable /\ Cardinality(of(x)) > 1}}

EndPartial ==
  /\ pc = "partial" /\ DOMAIN hashes = DOMAIN pool
  /\ subs' = SameHash /\ pool' = <<>> /\ hashes' = <<>> /\ pc' = "sub"
  /\ UNCHANGED <<events, walk, listed, classes>> /\ ScanAside

NextSub ==
  /\ pc = "sub"
  /\ \E s \in subs : subs' = subs \ {s} /\ pool' = s
  /\ pc' = "full"
  /\ UNCHANGED <<events, walk, listed, classes, hashes>> /\ ScanAside

EndFull ==
  /\ pc = "full" /\ DOMAIN hashes = DOMAIN pool
  /\ Send(SetToSeq(SameHash)) /\ pc' = "sub"
  /\ pool' = <<>> /\ hashes' = <<>>
  /\ UNCHANGED <<walk, listed, classes, subs>> /\ ScanAside

EndClass ==
  /\ pc = "sub" /\ subs = {}
  /\ pc' = "class"
  /\ UNCHANGED <<events, walk, funnelVars>> /\ ScanAside

FinishScan ==
  /\ pc = "class" /\ classes = {}
  /\ EndScan(<<>>) /\ ScanAside

Scan ==
  \/ StopWalk \/ PassEntry \/ ReportEntry \/ ListEntry \/ EndWalk
  \/ StopHashing \/ NextClass \/ EndPartial \/ NextSub \/ EndFull \/ EndClass \/ FinishScan
  \/ \E k \in DOMAIN pool : HashOne(k)

-----------------------------------------------------------------------------
(* The trash thread, the move job, and the user at work elsewhere. *)

\* A folder goes with what is in it.
Taken(p) == IF tab \in {"folders", "search"} THEN Within[p] ELSE {p}

Removed(p) == [q \in Paths |-> IF q \in Taken(p) THEN Gone ELSE file[q]]

DiskOnly == UNCHANGED <<tab, listVars, cacheVars, scanVars, scans, histVars>>

TrashOne(p) ==
  /\ p \in left /\ verdict = "none" /\ Exists(p)
  /\ file' = Removed(p)
  /\ left' = left \ {p}
  /\ UNCHANGED <<deleting, verdict, deletes, moveVars, edits>> /\ DiskOnly

\* One path that is gone or refused fails the whole deletion.
TrashFails ==
  /\ left # {} /\ verdict = "none"
  /\ verdict' = "err" /\ left' = {}
  /\ UNCHANGED <<file, deleting, deletes, moveVars, edits>> /\ DiskOnly

TrashEnds ==
  /\ deleting # {} /\ left = {} /\ verdict = "none"
  /\ verdict' = "ok"
  /\ UNCHANGED <<file, deleting, left, deletes, moveVars, edits>> /\ DiskOnly

Trash == TrashFails \/ TrashEnds \/ \E p \in Paths : TrashOne(p)

\* move_tree creates the folder and plans, which looks at every path.
PlanMove ==
  /\ mover = "planning" /\ \A p \in moving : Exists(p)
  /\ mover' = "moving" /\ toMove' = moving
  /\ UNCHANGED <<file, moving, moves, deleteVars, edits>> /\ DiskOnly

\* A folder that cannot be created, a path that is gone or cannot be looked at:
\* move_tree returns an error before its first event, and spawn_move drops it.
PlanFails ==
  /\ mover = "planning"
  /\ mover' = "lost"
  /\ UNCHANGED <<file, moving, toMove, moves, deleteVars, edits>> /\ DiskOnly

\* The move job moves a file or leaves it, skipped or failed.
MoveOne(p, goes) ==
  /\ p \in toMove
  /\ toMove' = toMove \ {p}
  /\ file' = IF goes /\ Exists(p) THEN Removed(p) ELSE file
  /\ UNCHANGED <<moving, mover, moves, deleteVars, edits>> /\ DiskOnly

MoveEnds ==
  /\ mover = "moving" /\ toMove = {}
  /\ mover' = "done"
  /\ UNCHANGED <<file, moving, toMove, moves, deleteVars, edits>> /\ DiskOnly

Mover == PlanMove \/ PlanFails \/ MoveEnds \/ \E p \in Paths, goes \in BOOLEAN : MoveOne(p, goes)

Edit(p, c) ==
  /\ edits < MaxEdits[tab] /\ Exists(p) /\ file[p] # c
  /\ file' = [file EXCEPT ![p] = c]
  /\ edits' = edits + 1
  /\ dirty' = dirty \union {p}
  /\ UNCHANGED <<tab, listVars, cacheVars, deleteVars, moveVars, scanVars, scans, found, byHand,
                 muddled>>

-----------------------------------------------------------------------------
Click ==
  \/ Cancel \/ SelectMany \/ ClearSelection \/ DeleteSelected \/ MoveSelected
  \/ \E w \in Walks[tab] : Start(w)
  \/ \E text \in Needles : SetNeedle(text)
  \/ \E p \in Paths : Tick(p)

Next ==
  \/ Poll \/ Click \/ Scan \/ Trash \/ Mover
  \/ \E p \in Paths, c \in Contents : Edit(p, c)

Spec == Init /\ [][Next]_vars

\* The threads run, and the window is redrawn while anything is under way.
FairSpec == Spec /\ WF_vars(Scan) /\ WF_vars(Trash) /\ WF_vars(Mover) /\ WF_vars(Poll)

-----------------------------------------------------------------------------
(* Properties. *)

\* Every variable has values of its kind; what the filter shows are positions in
\* the list, whatever arrived or was deleted since ("Indices into `results`",
\* large_files_tab.rs:29): another one is a panic when its row is drawn.
TypeOK ==
  /\ tab \in Tabs /\ file \in [Paths -> Contents \union {Gone}]
  /\ {job, token, muddled} \subseteq BOOLEAN
  /\ mover \in {"none", "planning", "moving", "done", "lost"} /\ (moving = {} <=> mover = "none")
  /\ \A k \in DOMAIN results : results[k] \in Seq(Paths) /\ results[k] # <<>>
  /\ \A k \in DOMAIN events : events[k] \in Seq(Paths)
  /\ selected \subseteq Paths /\ left \subseteq deleting /\ toMove \subseteq moving
  /\ verdict \in {"none", "ok", "err"} /\ verdict # "none" => deleting # {}
  /\ pc \in {"idle", "walk", "class", "partial", "sub", "full"}
  /\ pc # "idle" => job
  /\ shown \subseteq DOMAIN results
  /\ DOMAIN hashes \subseteq DOMAIN pool

\* "Select all but first in each group" (dup_tab.rs:267) keeps a copy: as long as
\* no path is ticked by hand, a path goes to the trash only while another one has
\* its content, or has been edited since the scan that compared them. Excepted
\* are a path that was itself edited, scans begun while a deletion was under way,
\* and folders that overlap.
OneCopyStays ==
  [][tab = "duplicates" /\ byHand = {} /\ ~muddled =>
       \A p \in Paths \ dirty :
         Exists(p) /\ file'[p] = Gone =>
           \E q \in Paths \ {p} : file'[q] = file[p] \/ q \in dirty]_vars

\* "naturally leaves anything that failed still showing in the results"
\* (search_tab.rs:98): what the scan found and is still there is on the list, and
\* what is selected can be seen, so that a click on Delete removes nothing that
\* the list does not show. Excepted is Duplicates with paths ticked by hand (the
\* last path of a group goes from the list even if it is selected) or listed twice.
ListIsHonest ==
  /\ tab # "duplicates" => {p \in found : Exists(p)} \subseteq Listed(results)
  /\ tab # "duplicates" \/ (byHand = {} /\ ~muddled) => selected \subseteq Listed(results)

\* Under way, to the tab's knowledge, and not lost for it.
Busy == job \/ deleting # {} \/ (moving # {} /\ mover # "lost")

\* Scans, deletions and moves all end, and the tab notices: with a bounded number
\* of them it comes to rest. Excepted is a move whose planning failed: nothing is
\* sent then (copy.rs:131, 133 and 465, worker.rs:36), moving stays for ever, and
\* move_selected refuses every later move.
JobsEnd == Busy ~> ~Busy
=============================================================================
