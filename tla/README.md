# super-copier: specifications, checks and proofs

This directory describes the concurrent and failure-prone parts of
super-copier in TLA+, checks them with TLC on small instances and proves
theorems about the copy engine, file sharing, folder sync, the Copy tab's session,
the bootable drive and archives with TLAPS. `PROJECT.json` says, for each
definition, which lines of the source it stands for.

The program has two crates. `engine/` does the work and knows nothing of
windows; `app/` is an egui program, one tab per operation. They meet in one
pattern everywhere: a tab calls `worker::spawn_*`, which makes a `CancelToken`
(a shared atomic flag) and an unbounded channel and runs one engine function on
a new thread; the engine sends events; the tab polls the channel once per frame
and drops the job when it sees a terminal event. An `Err` of the engine function
is dropped by the worker.

## 1. Inventory

| Component | State it keeps | Operations | Correct when |
|---|---|---|---|
| **Copy and move engine** `engine/src/copy.rs`, `platform/generic.rs`, `platform/macos.rs` | the plan, a rayon pool with counters and a cancelled flag, the files on disk | plan, rename, copy or clone, verify, remove the originals, cancel | a file reported copied is whole, no original goes while something went wrong, the terminal event tells the truth, the job ends |
| **File sharing** `engine/src/share.rs`, `app/src/ui/share_tab.rs` | the sender's stream; the receiver's listener, connection and open file; `pending_request` | send, accept or reject, receive, switch Discoverable on and off | nothing is sent or written without consent, what is reported received is what was sent, nobody waits for ever, the port is given back |
| **Peer discovery** `engine/src/share.rs`, `app/src/ui/share_tab.rs` | `last_seen`, the tab's peer list, events under way | bind, announce, listen, time out, switch | list and table agree up to the events under way, the list follows the network |
| **Bootable drive: helper, monitor, raw writing** `engine/src/bootable/{mod,helper,write}.rs`, `app/src/ui/boot_tab.rs` | an elevated process; job, progress and cancel files; a monitor thread with its offset and half line; the drive | start, write, verify, cancel, tail the progress file, launcher's exit code | one verdict and a true one, the drive is written nowhere else and not after the verdict, the directory goes |
| **Bootable drive: Boot tab, media, image, devices** `app/src/ui/boot_tab.rs`, `engine/src/bootable/{winmedia,image,devices}.rs` | image, device list, selection, confirmation, job; the mounted ISO, files left to copy and to split | analyse an image, list devices, choose, confirm, start, look again, format, mount, copy, split, cancel | what is erased was asked for, what is called ready is complete, the ISO is detached |
| **Folder sync** `engine/src/sync.rs`, `app/src/ui/sync_tab.rs` | two snapshots, the plan, sizes and mtimes on disk | snapshot, copy, update, verify, stamp, delete extras, cancel | the destination has the source's contents, only extras are deleted, a second run has nothing to do |
| **Copy tab session** `app/src/ui/copy_tab.rs`, `app/src/worker.rs` | sources, mode, `jobs`, `queued`, counters, totals | add, start, absorb into a running session, poll, cancel, clear, rename | each path is handed to one job, the totals are right, the session ends |
| **Single-instance hand-over** `app/src/ipc.rs`, `app/src/main.rs` | the port, `ipc_rx`, the tab that is shown | forward paths and `--move`, listen, drain per frame | a path launched for moving is moved |
| **Zip and unzip** `engine/src/archive.rs`, `app/src/ui/archive_tab.rs` | the `.partial` file, half-extracted entries, the tab's outcome | pack, extract, cancel | no old archive or file is lost to a failed run, and what the tab says of a job is so |
| **Duplicate finder** `engine/src/duplicates.rs`, `hash.rs`, `app/src/ui/dup_tab.rs` | size and hash groups, the tab's selection | scan, delete | groups are equal files, one of each stays |
| **File operations** `engine/src/fsops.rs`, `app/src/ui/organize_tab.rs` | the listing of the folder, the file under way, the tab's count and log | move, batch rename, organize, delete | no file vanishes unsaid, the report is true, the job ends |
| **Search, Big Files, Big Folders** `engine/src/{search,large_files,big_folders}.rs` and their tabs | results, selection, filter cache, a deletion and a move under way | walk, filter, select, delete, move | what is selected or still there is shown, the filter's positions are inside the list |
| **Disk usage, drives** | none | one read of the system | - |
| **Desktop glue** (`notify`, `dnd`, `dialog`, `reveal`, `util`) | a pending dialog | calls of the desktop | - |
| **Windows fast path** `platform/windows.rs` | none | `CopyFileExW` with a progress callback | as the chunk loop |
| **Packaging** | none | installers | - |

Interactions: tabs and engine by events and tokens; the two machines of a share
by one TCP stream; application and helper by files in a job directory and an
exit code; launches and the running instance by lines on a loopback connection;
everything with everything by the disk. The app can be closed or killed at any
moment, which drops all its threads, but not the elevated helper.

Hard to test here: pool threads against cancellation and join; a disk that a
killed run left behind, as the next run reads it; a user who edits, clicks or
switches in between; timeouts against late answers; half-written lines; a
helper that dies; jobs that never say they have ended. The list with lines is
under `hazards` in `PROJECT.json`.

## 2. Plan

Done in the order of importance; each module can be read alone.

1. `CopyJob` with `Transfer` as its abstract specification, `CopyJobProofs`.
2. `ShareTransfer`, `ShareProofs`.
3. `FlashHelper`, `FlashProofs`.
4. `SyncMirror`, `SyncProofs`.
5. `CopySession` (composes the hand-over, the frame, the tab and the job
   threads; a job there is the event stream of the engine), `SessionProofs`; `Selection`
   and `SelectionLemmas` for the sequences that are filtered in 3, 5 and 6.
6. `Archive`: packing under a temporary name, extraction over existing files;
   `ArchiveProofs`.
7. `ResultTabs`: the four tabs that scan, list and delete, with the hashing funnel
   of the duplicate finder.

8. `FileOps`: `organize_dir` with `move_path`, `rename_batch`, over names that collide,
   in a folder others change too.
9. `Discovery`: announcements, `last_seen` and the tab's peer list.
10. `BootDrive`, `BootDriveProofs`: the Boot tab from the image to the verdict, drives that
    come and go, and the copying of Windows media. It stands above `FlashHelper`, which
    has the same job seen from its files and threads.

Left, in this order:

11. `CopyJob` with links and late files in a folder that is moved, sources that
    contain one another, and two batches of a session on one disk.
12. The sending half of the Share tab.

Theorems to come: `NothingVanishes` and `SortedWhenDone` of `FileOps`, `OneCopyStays` of
`ResultTabs`, `ListCatchesUp` of `Discovery`. These three modules have
none yet.

## 3. The modules

### CopyJob: the copy engine

The disk is `dir` (path to inode) and `data` (inode to a sequence of chunks). A
chunk is known by the file it was read from, or is `Hole` (preallocated, never
written) or `Old` (there before). Inodes matter: with two sources of one name
one thread unlinks a path another thread is still writing to.

| Action | Code |
|---|---|
| `Begin`, `PlanFails` | `plan_copy`, the head of `copy_tree` / `move_tree` |
| `RenameSource`, `FallBackToCopy`, `CancelRenaming`, `StartFallback` | the rename loop of `move_tree` |
| `TakeTask`, `PoolFails`, `Join` | `execute_plan`: the closure of the pool, its creation, its return |
| `CheckDst`, `RemoveDst` | the overwrite policy of `copy_one_file` |
| `OpenFiles`, `CopyChunk`, `EndOfFile`, `CancelCopy` | `chunked_copy` |
| `CloneFile` | `clonefile(2)` on macOS |
| `Verify` | `hash_pair` and the comparison |
| `RemoveOriginal`, `Finish` | the removal loop of `move_tree` |
| `TaskFails` | any error of these calls |
| `Cancel`, `Crash` | the button; the end of the process |

`plan_copy` drops the errors of its walk (`copy.rs:480`), so `Begin` plans all files but
some of those in `Unread`; `unplanned` remembers which, since the removal of a moved folder
(`copy.rs:173`) takes them along. `phase` is the place of the job thread, `pc[f]` that of the
pool's task for file `f`. A job may be started again after it ended or was killed (`MaxRuns`),
on the disk as it is. The event channel is not there: what counts are the
verdict on each file (`outcome`) and the last event (`terminal`).

### Transfer: what a job promises

`status`, `present` and `result` only: every file gets at most one verdict, and
only while the job runs; originals go by a rename of an undecided source, or
after the last verdict and only if there was no bad one; `Finished` needs a
verdict for each file. `CopyJob!ImplementsTransfer` is the refinement, with
`status` from `plan` and `outcome`, `present` from `dir`, `result` from `phase`
and `terminal`.

### ShareTransfer: sender, receiver and tab

An offer is one connection. `spc` follows `send_files` (connect, wait for the
answer byte, one file after the other, chunk by chunk); `rpc` follows
`run_receiver` and `handle_incoming` (bind, accept, ask, the loop over the
manifest, the `remaining` loop). `Frame` and `Click` are the tab's poll and
buttons in the order of `ShareTab::ui`: the poll replaces `pending` before the
click is evaluated. `SwitchOn`/`SwitchOff` are `set_discoverable`: a new thread
may start while its predecessor still has the port. `TimedOut` may happen at any
time while nobody has answered, which covers the 120 seconds and a request that
was dropped. A file may have grown or shrunk since the manifest (`Drift`).

### FlashHelper: writing a bootable drive

Three processes: the tab (`gui`), the monitor thread of `spawn_flash_with`
(`mpc`, with `offset` and `partial` of `ProgressReader`), and the elevated
helper (`hpc`). They share the job directory and the progress file only. `emit`
is two writes, so `file` holds texts and newlines and the monitor may read in
between; both writes may be lost. The drive is modelled byte by byte at toy
sizes; a faulty stick may store something else than it is given. The helper may
be killed anywhere, the app closed anywhere.

### SyncMirror: one-way sync

A source file is a content (a version) and a time in whole seconds; the
destination's contents also have holes and old chunks. `ScanSource` and
`ScanDestination` are the two snapshots; entries that cannot be read are left
out, and remembered in `srcMissed` and `dstMissed`. Then come `NextFile`, `Open`, `CopyChunk`, `EndOfFile`, `Verify`, `Stamp` for
each file and `Delete` for each extra. `Save`, `Remove` and `Tick` are the user
and the clock, at any point in between. `Verify` compares two hashes, and two files
that cannot be read have equal ones (`sync.rs:142-144`). `touched`, `mixed` and `doubtful`
are history: what a comparison by size and time cannot be expected to see.

`Running` is what the tab believes, `Working` what is so. They differ in the phase
"unreported": the destination could not be made (`NoDestination`), the thread is gone without
an event, the tab has its job for ever and starts no other. Apart from this the tab's poll
is merged into the end of the job.

### CopySession: frame, tab and launches

A frame is five steps, in the order of `App::ui` and `CopyTab::ui`:
`TakeMessages` (the draining of `ipc_rx` and the tab strip), `Poll`, `Gather`
(pickers, mode buttons, dropped files), `Absorb` (`absorb_new_sources`) and one
of the buttons. Job threads (`Work`) and other launches (`Launch`, `Listen`) go
on between any two of them. `sources` is a bag, since a path can be listed
twice. The list of jobs and the lines that are read are filtered with `Only` of
`Selection`; the totals are sums over the jobs (`SumFunction` of `Started`, `Done`,
`Copied` and `Failed`). A job is what its events say; how it treats the disk is `CopyJob`'s
matter, apart from what `CopySession` needs to know when a source is gone.

### Archive: zip and unzip

A file is its bytes and, for a finished archive, the table of contents that
`zip.finish` writes last; an archive that was cut short has none. The worker's
`pc` follows `create_zip` with `plan_zip` and `write_zip` ("plan", "create",
"pack", "copy", "rename") or `extract_zip` ("open", "entry", "write"). `Planned` is what is given and
what the walk of a folder lists, without the archive itself; two items of one name are an
error. An entry is named by the path it was made from. In the code (`archive.rs:118-175`)
the name of a file depends on what was given: a file given alone and also inside a given
folder has two names and is packed twice, where `Planned` refuses it as one name
given twice. Every
call may fail where the code looks at its result: `ZipFails`, `SkipEntry`,
`ExtractFails`, `BadEntry`, `CreateFails`, `EntryFails`; removals whose result
is ignored may fail silently (`TryRemove`, `RemoveOut`). The tab's `Start`,
`Cancel`, `PickZip` and `Poll` run beside it, since what is shown ("Done", "Cancelled.
No zip was created.") is a claim about the disk. `Crash` kills the app.

### ResultTabs: scan, list and delete

One module for four tabs, told apart by `tab`, since they share their shape: a
scan that sends events, a list that grows, a selection, a deletion on a thread
of its own. Duplicates has groups and the funnel (`EndWalk` makes the size
classes, `HashOne` hashes in any order, `SameHash` groups); Big Files and Big
Folders have the filter and its cache (`KeyOf`, `Refresh`); Search can move. A move
plans first (`PlanMove`); where that fails (`PlanFails`: a selected path is gone, the
destination cannot be made) nothing is sent, `mover` is "lost" and `moving` stays.
`Poll` is the whole poll of a frame with the refresh that follows it. The user
may edit files meanwhile, and start a scan while a deletion is under way.

### FileOps: organizing and renaming

One folder: `fs` from paths to contents, `dirs` the paths that are folders. The job
thread's `pc` follows `organize_dir`, one step per call that others can see:
`ListFolder`, `TakeFile` (the token, the category, the date), then `move_path`:
`MoveByRename` or, for a folder on another volume, `BeginCopy`, `EndCopy`,
`RemoveOriginal`, with `NotMoved` for the error of each. `ListFails`, `Stopped` and
`DateUnreadable` are the three returns that send nothing. `RenameOne` is one turn of
`rename_batch`, which runs on the window's thread: `WindowFree` keeps the tab from
polling meanwhile. `Renamed` replaces what has the new name, as `rename` does.

### Discovery: who is there

A round of `run_discovery`'s loop is one step (`Round`): announce when two seconds have
passed, take one packet or none, drop the peers not heard for `Timeout` ticks. `net` is
a set of packets; a packet may be received any number of times before it is lost, in
any order, our own among them. `Bind` may fail, and then the thread is gone without a
word. `Poll` takes all events of a frame. `SwitchOff` and `SwitchOn` give the tab a new
channel; an old thread that still runs out has a channel nobody reads, so it is left out.

### BootDrive: from the image to the verdict

`plugged` maps the drives that are in to identifiers, which the system uses again.
The tab is `image`, `list`, `selected`, `confirm`, `scan`, `job`; `ScanEnds` is the
listing's thread, and `PollScan` brings it into the tab later, so the list may be old.
The helper's `pc` goes "look" (`execute`), then for a raw image "prepare", "open", "write",
"writing" (`flash_raw`), and for Windows media "label", "format", "mount" (`format_target`),
"iso" (`mount_iso`), "plan", "copy" (`copy_iso_contents`). `Fails` and `Dies` may come at
each of them.

Until a node is open or a volume mounted, each command of the helper names the drive by
its identifier and meets the one that has it then (`Command`): `MakeLabel`, `MakeFat` and
`MountFat` are the commands of Linux (`mkpart` and the boot flag, which come right after the
label and find no room on a drive that was not labelled, are in `MakeLabel`), `EraseDisk` is
the one of macOS or Windows. `swapped`
remembers that two of them met different drives. `on` is what is on each drive. The owner's
data is in two parts, `Own` and `Behind`: a label loses one, a file system the other, a raw
write what is as long as the image, and cleaning (Windows) all. A WIM too large for FAT32
lands in pieces whose first is called `install.swm` whatever the WIM is (`place`), so a
second one replaces it. Detaching the ISO may fail, which nobody looks at (`End`, `stuck`).
`lookedAt` and `shown` are history: what the helper and the list knew. The writing
block by block and the talk by files are `FlashHelper`'s.

A drive that is pulled and put back during one job under the same identifier counts as
never gone, and what the system's write cache loses when a drive is pulled is left out.

## 4. What the runs check

`MC*.tla` modules give the constants their values. All bounds are named there
or in the cfg. Deadlock is not checked where everything may simply be over
(all but `copy_session`, whose window always draws another frame).

| Run | Configuration | Shows |
|---|---|---|
| `copy_job` | `MCCopyJob.cfg` | `CopiedIsComplete`, `FinishedHidesNothing`, `UnskippedSurvives`; every job ends (`JobEnds`); `CopyJob` implements `Transfer` |
| `share` | `MCShare.cfg` | consent before sending and writing, complete delivery, both ends come to an end, the port is freed |
| `flash_helper` | `MCFlash.cfg` | one verdict, a true one, the rest of the drive untouched, nothing written after it, every job ends |
| `sync` | `MCSyncMirror.cfg` | what a clean sync guarantees and what it deletes, every sync ends |
| `copy_session` | `MCSession.cfg` | each path handed over once, totals, `--move`, every session ends |
| `archive` | `MCArchive.cfg` | no torn archive, a true outcome, extracted files whole and existing ones kept |
| `result_tabs` | `MCResultTabs.cfg` | one copy stays, the list is honest, filter positions are valid, everything ends |
| `file_ops` | `MCFileOps.cfg` | nothing vanishes unsaid, the tab's report is true, the job ends but for three errors |
| `discovery` | `MCDiscovery.cfg` | list and table agree, and both follow who is there |
| `boot_drive` | `MCBootDrive.cfg` | erasing was asked for, "ready" is complete, the ISO is detached |

Every module has its type invariant. It is a property of a run where it says
something the code could break (handles in `CopyJob`, counters in `ShareTransfer`, filter
positions in `ResultTabs`, the selection in `BootDrive`); in the other modules `TypeOK` is
there to document the variables.

**Bounds.** `copy_job`: two folders of one name, three files (one of two chunks,
two that share a destination), two threads, two jobs. Two threads and two
files on one destination are what a race in the pool needs; two chunks are what
a half-written file needs; two jobs are what resuming needs, and the second meets at
the destination what the first left. One of the two files that share a destination is
empty, so that their sizes differ, and the file of two chunks may be unread by the walk. Its
options are the default ones, and a move that overwrites, clones and verifies: together they take every branch of the engine. `share`: two offers, two receivers, one chunk in flight: an
offer can arrive while another is answered, and a receiver can take over from
one that is still busy. The first offer has a file of one chunk and one of two chunks that
nothing else is written to, so that the second must begin exactly where the first one
ends, and a third that has the name of a file of the second offer; the second offer has a
name that is refused and files that change their length. `flash_helper`: sectors of two bytes, chunks of four,
images of one byte, of a chunk and a byte, and larger than the drive: below a
sector, across a chunk with padding, refused. `sync`: two files, contents of two
chunks, two seconds, one edit, two jobs: the second job meets what the first
left, a walk may overlook any file, and the edit falls before, into or after the copying, in the same second
or the next. Files found at the destination are shorter than the source's; the
case of equal length is what the time stamp decides and arises in the second
job. `copy_session`: two files, whose names are also what the other may be
renamed to, two launches or picks, two sessions. `archive`: a file of two chunks
and one of one, an archive from elsewhere with an unsafe name and two entries
for one path, two jobs: packing over an archive, extracting what was packed,
extracting twice, and one file given twice, which `plan_zip` refuses. The `.partial` file is never in the folder that is packed (see
below). `result_tabs`: three files of one size and one beginning, so that only
the full hash tells them apart; a folder and something in it; two scans, one
deletion and one move, which have bounds of their own so that they can overlap, and one edit in
Duplicates, the tab that looks at contents: a scan can begin while the paths of the first one
are being deleted. `file_ops`: two starting folders, one with two new
pictures and a sorted one that bears the name of a new one, one with a picture and a file
that bears the name of its category; one category on another volume, two jobs, one rename, one edit and one
fault: a second job meets what the first left, and the edit or the rename falls between
any two of its steps. `discovery`: two peers, a timeout of one tick (two rounds unheard),
three switches, two moves: a peer is found, lost and found again, and the list is
cleared in between. The window is at most two events behind when time goes on.
`boot_drive`: a Windows ISO with two WIMs that must be split, and a dump that leaves some of
the larger stick as it was (a hybrid image is written as a dump is, without being asked for);
two sticks, one too small for the dump, two identifiers, two changes
and two starts: enough for the identifier of one drive to go to the other between any
two steps of the tab and the helper, and for a second attempt on a half-written drive.

**Disagreements found.** Two runs check what the documentation or a comment
says and end in a counterexample:

| Run | Says | Does |
|---|---|---|
| `copy_resume` | a resumed copy skips files already copied | the preallocated rest of an interrupted copy has the right size and is skipped, with its holes |
| `move_same_name` | originals go only once every file was copied | a skipped file's original is deleted too |

More that the modelling brought up, without a run of its own:

- `share_tab.rs:116-121`: `poll` replaces `pending_request` before the buttons of the
  same frame are evaluated, so a click on Accept can go to a request that was
  never on the screen (README: file list and size "shown first"). `Click` in
  `ShareTransfer` is written that way; consent in its properties means a click.
- `sync.rs:95`: a destination whose copying was cut off has the right length
  and a newer time, and no later sync updates it (`sync_tab.rs:113`: "brings the
  destination up to date"). These files are in `doubtful`.
- `copy.rs:480`, `486`: the errors of the walk are dropped, and a moved folder is then removed
  as a whole (`copy.rs:173`), with the files that were never planned, under a comment that
  says that originals go only once every file was copied. These files are in `unplanned`.
- `sync.rs:56`: so are those of the snapshots. A mirroring sync deletes from the destination
  what the source has but the walk could not read; `sync.rs:15-17` speaks of files that
  are not in the source. These files are in `srcMissed`.
- `archive.rs:147` drops them as well: what the walk cannot read is not in the archive, and the
  tab says that it is done. `OutcomeIsTrue` is about what was listed.
- `sync.rs:142-144`: where neither file can be read for the verification, both hashes are
  `None`, which are equal, and the file counts as verified.
- `worker.rs:36` drops the error of a task. `sync.rs:84` (the destination cannot be made) and, for the
  Search tab, `copy.rs:131`, `133`, `465` (a selected path is gone) thus end without an event: the
  Sync tab has its job for ever, and Search refuses every later move.
- `archive.rs:129`: `plan_zip` leaves out the archive but not a `.partial` that a
  killed run left in the folder. It is truncated, and then packed into itself.
- `dup_tab.rs:72`: roots are compared by path, not by containment; with a folder and
  one inside it each file is its own duplicate, and "all but first" deletes both.
  Such walks are `muddled`.
- `dup_tab.rs:102`: a group with one path left disappears while that path may be
  selected by hand; it is then deleted with the next selection, unseen.
- `large_files_tab.rs:167`: the filter's cache is keyed by the number of results. If
  one poll removes as many as it adds, the old positions show other rows until the
  text or the number changes; they stay inside the list (`TypeOK`).
- `share.rs:17-19` says of the files' bytes "(sizes are already known from the manifest,
  so no further framing is needed)". A file that changed its length since
  `collect_files` shifts every later byte into the wrong file, and the receiver still
  reports Finished.
- `lib.rs:43-45` says that "cancellation lands within a fraction of a second". A job whose
  planning fails (`copy.rs:94`, `131`, `133`) returns an error that `worker.rs:36` drops: the
  tab keeps it, and Cancel reaches nobody. Pressing Move again after a move is enough.
- `fsops.rs:217`, `225`, `228`: `organize_dir` sends nothing when it is cancelled, or when
  the date of one file cannot be read; the other files stay, and the tab waits for ever.
- `fsops.rs:197-199` says that files already in their subfolder "are left alone". A file of
  that name coming in from above replaces them (`rename`, `fs::copy`).
- `fsops.rs:130`: a pattern without a number gives all files of a list one name; each
  rename replaces the one before, and the last file is what is left.
- `bootable/mod.rs:29` calls the id of a device a "stable identifier"; it is one of the moment.
  The typed confirmation outlives a change of what has the id (`boot_tab.rs:144`).
- `bootable/mod.rs:81`: "The helper stops as soon as this file exists". Not while it
  formats, mounts, plans or splits, and a Cancel during the splitting ends in Finished.
- `winmedia.rs:123`, `243`: an ISO that was attached but shows no volume stays attached.
- `winmedia.rs:136`, `191`, `253`: whether the ISO could be detached is not looked at.
- `winmedia.rs:103-108`, `172-179`: the tools that format and mount are called one after the other with
  the drive's identifier; if another drive gets it in between, one is formatted and the other
  written to.
- `write.rs:36-60`: a raw write overwrites as much as the image is long. Only Windows cleans the
  drive before; elsewhere what the owner has behind the image stays.
- `winmedia.rs:276`: all pieces are called `install.swm`, whichever WIM they are of; of two
  large ones in a folder the second replaces the first.
- `winmedia.rs:311`: what the walk cannot read is left out, and the drive is called ready.
- `devices.rs:149`: on a Mac started from an external APFS disk the drive to be kept is
  compared with the synthesized disk; `lsblk`'s MOUNTPOINT names one mount of several.
- `share.rs:131`: a discovery that cannot bind its port ends without an event; the tab goes
  on looking.
- `share_tab.rs:163`: a sending that ends by an error sends no event, and `send_job` stays.

The passing properties are stated with those cases taken out explicitly:

- `CopiedIsComplete` and `UnskippedSurvives` are about files that are `Alone`: no other selected file has
  their destination. `UnskippedSurvives` is also about files that no job skipped and
  no walk overlooked (`skipped`, `unplanned`).
- `DeliveredIsWhole` is about offers without a changed file.
- `UpToDate` and `NothingLeft` are about files that were neither changed during the job nor
  overlooked by the walk of the source (`touched`, `srcMissed`); `UpToDate` also leaves out
  `doubtful`, and `NothingLeft` lets an extra stay that the walk of the destination
  overlooked (`dstMissed`). `OnlyExtrasGo` names a file overlooked in the source as one that
  may be deleted although the source has it. `SyncEnds` excepts a destination that could not be made.
- `SessionEnds` is about sessions without a dead job, and `JobsEnd` excepts a move whose planning failed.
- `MoveRequestsMove` says that what is launched for moving is moved; that a launch
  for copying is never moved is false, since the tab has one mode for all that is listed.
- `ExtractedIsWhole` is about files outside `torn`.
- `OneCopyStays` is about selections made by the button in scans that are not `muddled`.
- `NothingVanishes` is about files that no other file replaced, and `OrganizeEnds` about jobs
  without the errors named above.
- `ListFollows` is about a thread that could bind.
- `IsoDetached` excepts starts that were killed, that stopped half-way in opening the ISO, or that could
  not detach it (`stuck`).
- `ReadyMeansComplete` is about the files the walk could read (`unread`); of files with one place it
  asks for one; that nothing else is on the drive is said of a raw image up to what was
  behind it, and of Windows media if no two commands met different drives.
- `ErasesAreSanctioned` says of every command that it met the drive with the identifier that was
  chosen, and that this is the drive that was shown, or looked at, as long as no drive changed
  since. A change after the list or after the helper's look is what the code cannot see.

## 5. Fairness

A tab polls when it is drawn, and the app draws the tab that is shown (`main.rs:181-204`).
So `WF` of a poll, in `FlashHelper` (`TabPolls`), `FileOps`, `ResultTabs` and `Discovery` (`Poll`), and the
poll that `SyncMirror` has merged into the end of the job, says that the user keeps this
tab on the screen, or comes back to it again and again; while another tab is shown nothing is
noticed and nothing is claimed. `CopySession` has the tab that is shown as a variable and
says so in the property. `CopyJob` and `ShareTransfer` are about threads and need no poll:
an offer nobody looks at is answered by `TimedOut`.

- `CopyJob`: `WF(Engine)`, the job thread and the pool as a whole: the operating
  system schedules them. `TaskFails`, `Cancel` and `Crash` are outside: no
  call has to fail for a job to end.
- `ShareTransfer`: `WF` for each sender and each receiver. It includes
  `TimedOut`, since `recv_timeout` does run out, and excludes every click. It
  also says that a connected sender goes on or closes; the receiver's reads have
  no timeout, so with a peer that stays silent `StoppedFreesPort` is not claimed.
- `FlashHelper`: `WF` for helper, monitor and tab. The helper's includes that the
  user answers the administrator prompt.
- `SyncMirror`: `WF(Job)`, whose end is also the tab's poll.
- `CopySession`: `WF` for the frame (the window repaints every 200 ms at the
  latest), the listener and the job threads. A frame polls the Copy tab only
  when it is shown, so `SessionEnds` is about a user who keeps
  coming back to it, which is in the formula and not in the fairness.
- `FileOps`: `WF` of the job thread, of the renaming and of the poll. No click, edit or
  fault has to happen.
- `Discovery`: `WF` of the thread's rounds, of the poll, of time and of the
  announcements; each packet is lost some day (`WF(Lose)`), and of a peer that goes on
  announcing itself one packet now and then arrives (`SF(Receive)`): UDP promises neither,
  but without it nothing could be said. `SF` of a poll while a peer is known says that
  the window's frames are much shorter than the ten seconds a peer is remembered.
- `Archive` and `BootDrive` claim no liveness: the end of a job with an elevated helper is
  `FlashHelper`'s `FlashEnds`.
- `ResultTabs`: `WF` of the scan, the trash thread, the move job and the poll. No
  click and no edit has to happen.

## 6. What is proved

A theorem holds for every value of the constants that the module's named assumption
allows; the assumptions give the constants their types and keep names apart, and every
run evaluates them. Each invariant below is inductive; the parts named here are what had
to be added to the property to make it so, and were checked with TLC before they
were proved.

**`CopyJobProofs`** (any files, sources and paths, any number of threads, lengths and
restarts; from `CopyConstants`: sources and destinations are paths, files of one source
have different destinations, and so on).

- `TypeCorrect`: `Spec => []TypeOK`. `TypeOK` says more than types: a task has
  its two handles open exactly while it copies. It is not inductive alone: the
  actions that reset `pc` (`Begin`, `StartFallback`) would leave handles open
  if a task could be running then. `TInv` adds `PoolIdle`: outside the phase "copying" no
  task is under way.
- `FinishedIsHonest`: `Spec => []FinishedHidesNothing`. `JInv`
  adds what holds in each phase of the job thread: while sources are renamed,
  each planned file is undecided in `todo` or `fallback` or moved; in the pool
  each undecided file is in the queue or under way; when originals are removed
  every file has a good verdict.
- `CopyImplementsTransfer`: `Spec => ImplementsTransfer`, step by step. Every step of a
  task is a verdict or nothing to `Transfer`; every step of the rename loop moves files
  without a verdict; the removals come after the last verdict. The hypothesis `Apart`
  says that no selected file is the destination of a selected file. Without it the
  refinement is false: with Overwrite, a copy onto itself removes the original first
  (`copy.rs:341`), and in `Transfer` no original goes that way.

- `CopiedFilesAreComplete`: `Spec => []CopiedIsComplete`.
- `UnskippedFilesSurvive`: `Spec => []UnskippedSurvives`, that is: a file whose content
  is lost was skipped, or the walk could not read it (section 4).

The last two are about a file that is `Alone`: nothing else is copied to its destination,
and its source is no destination. That its threads alone write it is what has to be shown;
`DInv` is about inodes. `OneName` says no inode has two names, `Writers` that an inode a
task writes has no name but the task's destination, even after another thread unlinked
it, `Originals` that the source is whole while it exists, `Copying` that the chunks up to
the position are written and the rest is preallocation, `Listing` that what is still to
do is still there. Only together do they survive a restart, whose plan looks at the disk a
killed job left.

**`ShareProofs`** (any offers and receiver threads, manifests, window and drift of
lengths; from `ShareConstants`).

- `ShareTypeCorrect`: `Spec => []TypeOK`. That `left` stays a natural number
  needs to know that it is one thread that counts it: `PortHeld` (every
  receiver that accepts or is busy has the port) makes the busy one unique
  (`OneBusy`), `OfferAtHand` and `FileAtHand` give it an offer and a file with
  something left to read, and `SendPlace` keeps senders within their list.
- `ShareConsent` and `ShareSendsAccepted`: `Spec => []ConsentBeforeWriting` and
  `Spec => []NothingLeavesUnaccepted`. Neither says how consent gets to where it
  is needed. `CInv` follows it: a yes on the respond channel is for the
  connection at hand (`AnswerMeant`), the answer byte comes from it
  (`ReplyMeant`), a sender goes on only with such a byte (`SendingMeant`), so
  what is under way is accepted (`WireMeant`), as is what the receiver handles
  (`ReceivingMeant`) and the file it appends to (`FileMeant`). "Accepted" is a
  click of Accept that reached this offer, not that the user saw it (section 4).
- `ShareDeliversWhole`: `Spec => []DeliveredIsWhole`. There is no framing: which file a
  chunk belongs to is decided by counting on both sides. `Before(o)[i]` is how many chunks
  of the stream come before file `i`; `Aligned` says that what is under way is the
  stream from the receiver's place to the sender's, each chunk labelled by its place,
  and `FiledBy` that what was read is in its files. `Once` keeps a connection from being
  handled twice, so that nothing writes a delivered file again. It holds up to the first
  file that drifts or is refused, which is where the property ends.

**`SyncProofs`** (any files, contents, lengths, options, and numbers of jobs and edits;
from `SyncConstants`).

- `TypeCorrect`: `Spec => []TypeOK`; `TInv` adds that a file at hand is there at the
  destination and that a job that runs has not said its last word.
- `CleanJobLeavesNothing` and `CleanJobIsUpToDate`: `Spec => []NothingLeft` and
  `Spec => []UpToDate`. `Planned` says, of each file nobody touched, that it is still in the
  plan, at hand, current or counted as failed; `AtHand` what has been copied of
  the one at hand; `Told` that a destination that looks current, and is not
  `doubtful`, is; `Times` that no source is newer than the clock, without which a time
  stamp set now could be older than the next save.
- `OnlyExtrasAreDeleted`: `Spec => OnlyExtrasGo`, from `Planned`: what is still to be
  deleted is not in the source, or was touched, or was overlooked by the walk of the source in
  this job. The last is the case the code's comment does not have (section 4); the theorem
  says that it is the only one.

**`SessionProofs`** (any finite set of paths, any number of launches, picks and sessions;
from `SessionConstants`).

- `PathsAreHandedOnce`: `Spec => []HandedExactlyOnce`. `Batches` says that `queued` is what
  has been handed over, or was named away while the tab renamed; it is empty between sessions,
  and after `Absorb` it has every listed path.
- `MovesAreNotCopied`: `Spec => MoveRequestsMove`. `Requests` follows a path that was
  launched for moving: on its connection and in the inbox it comes after a `--move`, or
  the tab has been told already (`Marked`), whichever part of a connection has been read.
- `TotalsAreRight`: `Spec => []TotalsAddUp`. Three ledgers have to agree at the end: what
  was announced, the progress line and the totals. While jobs run each is behind by
  what is still in the channels. `Balance` says by how much: what was announced, and has
  still to be read, is what the totals have and the sizes of the jobs in the list; what
  the progress line has counted, and has still to count, is what the totals and those
  jobs have copied. `JobCounts` closes the account of one job (copied, failed and left
  make its size, and a finished one has nothing left). Together with `Listing` they
  are the invariant `Books`. It holds as long as `cut` does not: a cancelled job takes
  what it counted out of the list without a summary, and with a path twice in a batch the
  rename loop counts each occurrence of the plan once for each in the list. The property
  leaves out the same cases. A sum over a set is `SumFunctionOnSet`, which takes
  the elements in an order of its own; that taking one out, adding one, changing one or
  splitting the set does to the sum what it should (`SumRemove`, `SumAdd`, `SumChange`,
  `SumOfPart`, ...) is proved by induction on the number of elements, and `Along` brings the
  sum over the jobs that are kept back to the list that `Only` leaves of them.

**`FlashProofs`** (any sizes of sector, chunk, image and drive, sound or faulty; from
`FlashConstants`: a chunk and the drive are whole sectors).

- `TypeCorrect`, `OneVerdictIsSent`, `SuccessMeansWritten`,
  `NothingIsWrittenAfterVerdict`: `Spec => []TypeOK`, `[]OneVerdict`, `[]SuccessIsWritten`
  and `QuietAfterVerdict`, all from one invariant `FInv`. A claim goes from the drive to
  the tab in five places, and it says of each what the next relies on: `OnDrive` (what
  has been written or verified up to `done`), `Written` (a final line is the last line
  and comes from a helper that is through, and `Finished` means the image is there),
  `Read` (the monitor holds exactly the half line it has read), `Heard` (it stops listening
  only at the end of the file, and has sent no verdict before), `Shown`. `Scheduled` is
  about who can be running. The bounds of the drive are arithmetic with sectors:
  `RoundUpIsLeast`, `WriteStaysInside` and `ChunksAreSectors` say that padded chunks written
  one after the other end where the padded image ends.

**`BootDriveProofs`** (any drives, sizes, identifiers and images, any number of
comings and goings and of starts; from `DrivesAssumption`, `IdsAssumption`,
`BoundsAssumption` and `FilesAssumption`: the first piece of a WIM is not a file of an image).

- `BootTypeCorrect`: `Spec => []TypeOK`. The invariant `TInv` adds `TaskOK`: a helper
  that works has an image and an identifier, and a drive from its first command on.
- `BootIsoDetached`: `Spec => []IsoDetached`, which is inductive together with `TInv`: what a job
  attaches bears its number, and each way out of "plan" and "copy" either detaches it or puts
  it into `stuck`. So however many jobs come and go, an ISO that is attached without a job
  has one of the three causes the property names.
- `BootErasesAreSanctioned`: `Spec => ErasesAreSanctioned`. The list on the screen, the
  listing that is still on its way, the drive the tab started the helper with and the one
  the helper looked up were each right once. `EInv` says that they still are as
  long as no drive changed since (`ListsTrue`, `ShownTrue`, `LookedTrue`, the last with `Fit`:
  the drive holds the image), and that a typed identifier was typed for the next start
  (`Armed`). Without the clause for the listing on its way the list could not be shown true
  after `PollScan`.
- `BootReadyMeansComplete`: `Spec => []ReadyMeansComplete`. `RInv` adds `Progressing`, what is
  left of the owner's data after each command if none met another drive, and `Copying`: of the
  wanted files each is to do, to be split, or in its place, or another one of that place
  is. `WriteKeepsOthers` and `LandedInjective` say that a file that lands replaces only what
  has its place.

**`ArchiveProofs`** (any files and archives found, any entries of any length, any
number of jobs, cancellations, failures and kills; from `ArchiveConstants`, from `FoundIsSound`:
what is there at first can be read, and from `PartialIsNotPacked`: the unfinished archive is not
given to be packed. Without the last, `ArchiveIsOldOrWhole` is false: after a kill the
code does pack it into itself, `archive.rs:129`). The invariant has layers, each kept with
the help of those before it.

- `JobsEndOnce`: `Spec => [](Control /\ Queue)`. The event that ends a job is the last one
  in its channel, comes when its worker is through and carries its final count; no event
  of one job is left for the next.
- `ArchiveIsOldOrWhole`: `Spec => []ZipIsOldOrWhole`, from `ShelvesAreSound`. What is renamed
  into place was packed chunk by chunk under another name: `Packing` says that each entry in
  the table so far is the whole of its file, but for the one at hand, which ends where
  the archive ends for now, and `Originals` that the files do not change meanwhile.
  `Reading` says the same of extraction: what is being written is the beginning of an entry
  of the archive that is there.
- `ExtractedFilesAreWhole`: `Spec => []ExtractedIsWhole`. `Extracted` adds why nothing that
  was there changes without overwriting: what is being written was not there when the job
  started.
- `OutcomesAreTrue`: `Spec => []OutcomeIsTrue`. `Ahead` says that what is to do is the end
  of what was wanted. `PackCount` says that what is behind is packed or counted as failed,
  no name twice; `ReadCount` that each entry behind is counted once, and is in its place, or
  a later one of that place is, if none was skipped or failed. `Told` carries both from the
  worker's last step through the channel to the tab.
- `ArchiveTypesAreRight`: `Spec => []TypeOK`.

**`SelectionLemmas`.** The library's induction theorems take an operator for the
statement, which the provers cannot instantiate. `NaturalsInSet` and `SequencesInSet` say
the same with a set for it (from `WFMin`, that a well-founded relation has minimal
elements), and from them follow what `Only` leaves of an empty and of an appended sequence
and that what it leaves is drawn from the sequence, and in `ShareProofs` that
`Before` exists and increases.

**Only model-checked.** Liveness under fairness (`JobEnds`, `EverySendEnds`,
`StoppedFreesPort`, `FlashEnds`, `SyncEnds`, `SessionEnds`, `JobsEnd`, `OrganizeEnds`,
`ListFollows`) is out of the prover's reach, as is `ENABLED`. `ResultTabs`, `FileOps` and
`Discovery` have no theorem: their invariants and action properties (`TypeOK`, `ListIsHonest`
and `OneCopyStays`; `SortedWhenDone` and `NothingVanishes`; `ListCatchesUp`) are checked on the
instances of section 4 only. `ResultTabs` filters with `SelectSeq` and `Discovery` folds over
a sequence, which the prover does not expand; they would first have to be written with
`Only` and with functions. That `Walked` of `Archive` or a found archive are as assumed, and
that the bytes of a source do not change while it is packed, is part of the model and not a
result.

## 7. What is not modelled

- `CopyFileExW` on Windows (one system call does the copying), modification
  times and byte counts of a copy, sources nested in one another.
- The sending half of the Share tab, the names peers show, the bytes of an announcement.
- Moving and renaming whole folders, the trash, permanent deletion.
- Sorting, totals and byte counts of the result tabs; folders, permissions and
  times in archives; a file that is given to be packed both alone and in a folder (section 3);
  disk usage and drives, the desktop glue, the output of the system's tools and their
  arguments, packaging: no interleaving of their
  own, or nothing to state without modelling the tool that is called.
- Folders: created as needed, removed with their contents; a model of files only
  shows what happens to contents.
