------------------------------ MODULE BootDrive ------------------------------
(***************************************************************************)
(* Making a bootable drive, from the choice of the image to the verdict:   *)
(* the Boot tab (app/src/ui/boot_tab.rs), the listings of drives           *)
(* (bootable/devices.rs), what an image is (bootable/image.rs), the        *)
(* elevated helper's second look at the drive (helper.rs) and the copying  *)
(* of a Windows ISO onto a formatted drive (bootable/winmedia.rs).         *)
(*                                                                         *)
(* Drives come and go and the identifiers they get are used again: a       *)
(* command of the helper acts on the drive that has the identifier at that *)
(* moment.  How the helper and the tab talk, and the raw write block by    *)
(* block, is FlashHelper's subject; here it is a verdict that arrives.     *)
(***************************************************************************)
EXTENDS Integers, FiniteSets

CONSTANTS
  Drives,       \* physical drives that may be plugged in
  Size,         \* [Drives -> Nat]
  Unlisted,     \* drives that are not removable: no listing has them
  Virtual,      \* mounted disk images
  AllowVirtual, \* SUPER_COPIER_ALLOW_VIRTUAL_DISKS is set
  Ids,          \* identifiers the system gives to drives
  Images,       \* [readable, boot, iso, size, files]; a file is [name, place, big, wim],
                \* place what it or its first piece is called on the drive
  None,
  MaxNews,      \* bound: how often drives come, go, or get to hold critical mounts
  MaxStarts     \* bound: presses of "Create bootable drive"

ASSUME DrivesAssumption ==
  /\ IsFiniteSet(Drives) /\ Size \in [Drives -> Nat]
  /\ Unlisted \subseteq Drives /\ Virtual \subseteq Drives /\ AllowVirtual \in BOOLEAN
ASSUME IdsAssumption == None \notin Drives \union Ids \union Images
ASSUME BoundsAssumption == MaxNews \in Nat /\ MaxStarts \in Nat

\* The owner's data: in the first partition, and in what lies behind it.
Own    == [data |-> "the owner's"]
Behind == [data |-> "the owner's, further on"]
Files  == UNION {i.files : i \in Images}
Things == {Own, Behind} \union Images \union Files \union [pieces : Files]
\* The first piece of a WIM is no file of an image.
ASSUME FilesAssumption == Files \intersect [pieces : Files] = {}

VARIABLES
  plugged,    \* from the drives that are in to their identifiers
  critical,   \* drives the running system needs
  on,         \* what is on each drive: the owner's data, or things the helper wrote
  news,       \* how often plugged or critical changed
  image, forceRaw, list, scan, selected, confirm, job,   \* the tab's fields
  pc, task, target, todo, toSplit,  \* the helper: its place, FlashJob, the drive, its work
  attached,   \* the starts whose ISO is attached
  cancel, verdict,                  \* the cancel file; the last event of the helper
  starts,     \* bound: presses, each the number of its job
  lookedAt, shown, armed, unread, swapped, stuck                  \* history

world   == <<plugged, critical, news>>
choice  == <<image, forceRaw, selected, confirm>>
tab     == <<choice, list, scan, job>>
helper  == <<pc, task, target, todo, toSplit, attached>>
history == <<starts, lookedAt, shown, armed, unread, swapped, stuck>>
vars    == <<world, on, tab, helper, cancel, verdict, history>>

NoScan == <<"none">>
Asking == <<"asking">>
NoTask == [image |-> None, id |-> None, mode |-> None]
NotShown == [drive |-> None, at |-> 0]
NoList == [drives |-> << >>, at |-> 0]

Injective(f) == \A x, y \in DOMAIN f : f[x] = f[y] => x = y

Init ==
  /\ plugged \in {f \in UNION {[D -> Ids] : D \in SUBSET Drives} : Injective(f)}
  /\ critical \in SUBSET DOMAIN plugged
  /\ on = [d \in Drives |-> {Own, Behind}] /\ news = 0
  /\ image = None /\ forceRaw = FALSE /\ list = NoList /\ scan = Asking
  /\ selected = None /\ confirm = None /\ job = FALSE
  /\ pc = "off" /\ task = NoTask /\ target = None /\ todo = {} /\ toSplit = {}
  /\ attached = {} /\ cancel = FALSE /\ verdict = "none"
  /\ starts = 0 /\ lookedAt = 0 /\ shown = NotShown
  /\ armed = FALSE /\ unread = {} /\ swapped = FALSE /\ stuck = {}

-----------------------------------------------------------------------------
(* The computer's drives. *)

News ==
  /\ news < MaxNews /\ news' = news + 1
  /\ UNCHANGED <<on, tab, helper, cancel, verdict, history>>

PlugIn(d) ==
  /\ d \notin DOMAIN plugged
  /\ \E i \in Ids \ {plugged[e] : e \in DOMAIN plugged} :
       plugged' = [e \in DOMAIN plugged \union {d} |-> IF e = d THEN i ELSE plugged[e]]
  /\ UNCHANGED critical /\ News

Unplug(d) ==
  /\ d \in DOMAIN plugged
  /\ plugged' = [e \in DOMAIN plugged \ {d} |-> plugged[e]]
  /\ critical' = critical \ {d} /\ News

\* One of CRITICAL_MOUNTS is mounted from the drive.
BecomesCritical(d) ==
  /\ d \in DOMAIN plugged \ critical
  /\ critical' = critical \union {d}
  /\ UNCHANGED plugged /\ News

\* list_devices, and Device::is_safe_target.
Listed == DOMAIN plugged \ Unlisted
IsSafeTarget(d) == d \notin critical /\ Size[d] # 0 /\ (d \in Virtual => AllowVirtual)

SafeTargets ==
  LET safe == {d \in Listed : IsSafeTarget(d)}
  IN  [i \in {plugged[d] : d \in safe} |-> CHOOSE d \in safe : plugged[d] = i]

-----------------------------------------------------------------------------
(* The tab. *)

\* analyze_image; an unreadable file has no kind.
Kind(i) == CASE ~i.readable -> None
             [] i.readable /\ i.boot -> "hybrid"
             [] i.readable /\ ~i.boot /\ i.iso -> "optical"
             [] OTHER -> "unknown"

Mode ==
  CASE image = None -> None
    [] image # None /\ Kind(image) = "hybrid"  -> "raw"
    [] image # None /\ Kind(image) = "optical" -> "windows"
    [] image # None /\ Kind(image) = "unknown" /\ forceRaw -> "raw"
    [] OTHER -> None

\* Dropping a file asks that no job runs; a picker opened before it started does not.
SetImage(i) ==
  /\ image' = i /\ forceRaw' = FALSE
  /\ UNCHANGED <<world, on, list, scan, selected, confirm, job, helper, cancel, verdict, history>>

ForceRaw ==
  /\ ~job /\ image # None /\ Kind(image) = "unknown"
  /\ forceRaw' = ~forceRaw
  /\ UNCHANGED <<world, on, image, list, scan, selected, confirm, job, helper, cancel,
                 verdict, history>>

Refreshed == IF scan = NoScan THEN Asking ELSE scan

Refresh ==
  /\ ~job /\ scan = NoScan /\ scan' = Refreshed
  /\ UNCHANGED <<world, on, choice, list, job, helper, cancel, verdict, history>>

\* spawn_device_scan's thread: what it finds, or its error.
ScanEnds ==
  /\ scan = Asking
  /\ scan' \in {<<"found", [drives |-> SafeTargets, at |-> news]>>, <<"error">>}
  /\ UNCHANGED <<world, on, choice, list, job, helper, cancel, verdict, history>>

\* Mutation: the selection outlives its drive.
PollScanKeeps ==
  /\ scan[1] \in {"found", "error"} /\ scan' = NoScan
  /\ list' = IF scan[1] = "error" THEN list ELSE scan[2]
  /\ UNCHANGED <<world, on, choice, job, helper, cancel, verdict, history>>

\* One half of poll; a frame may find both.  What was typed stays, whatever has the identifier now.
PollScan ==
  /\ scan[1] \in {"found", "error"} /\ scan' = NoScan
  /\ IF scan[1] = "error"
     THEN UNCHANGED <<list, selected>>
     ELSE /\ list' = scan[2]
          /\ selected' = IF selected \in DOMAIN list'.drives THEN selected ELSE None
  /\ UNCHANGED <<world, on, image, forceRaw, confirm, job, helper, cancel, verdict, history>>

Fits(d) == Size[d] >= image.size
Info == image # None /\ Kind(image) # None
HasSelected == selected \in DOMAIN list.drives

Select(i) ==
  /\ ~job /\ i \in DOMAIN list.drives /\ (Info => Fits(list.drives[i]))
  /\ selected' = i /\ confirm' = IF selected = i THEN confirm ELSE None
  /\ UNCHANGED <<world, on, image, forceRaw, list, scan, job, helper, cancel, verdict, history>>

Type(i) ==
  /\ ~job /\ HasSelected
  /\ confirm' = i /\ armed' = TRUE
  /\ UNCHANGED <<world, on, image, forceRaw, list, scan, selected, job, helper, cancel,
                 verdict, starts, lookedAt, shown, unread, swapped, stuck>>

CanStart ==
  /\ ~job /\ HasSelected /\ Info /\ Mode # None
  /\ Fits(list.drives[selected]) /\ confirm = selected

Press ==
  /\ CanStart /\ starts < MaxStarts /\ starts' = starts + 1
  /\ UNCHANGED <<world, on, choice, list, scan, target, todo, toSplit, attached, verdict,
                 lookedAt, unread, swapped, stuck>>

Start ==
  /\ Press /\ job' = TRUE /\ cancel' = FALSE
  /\ pc' = "look" /\ task' = [image |-> image, id |-> selected, mode |-> Mode]
  /\ shown' = [drive |-> list.drives[selected], at |-> list.at] /\ armed' = FALSE

\* spawn_flash fails: its scratch directory or job file cannot be made; the tab says so.
StartFails ==
  /\ Press
  /\ UNCHANGED <<job, cancel, pc, task, shown, armed>>

Cancel ==
  /\ job /\ ~cancel /\ cancel' = TRUE
  /\ UNCHANGED <<world, on, tab, helper, verdict, history>>

\* The events a job can end with.
Verdicts == {"finished", "failed", "cancelled"}

\* What the helper and its start leave behind once the tab has the verdict: nothing.
Forget ==
  /\ task' = NoTask /\ target' = None /\ todo' = {} /\ toSplit' = {} /\ cancel' = FALSE
  /\ lookedAt' = 0 /\ shown' = NotShown /\ unread' = {} /\ swapped' = FALSE

\* The other half of poll, at the job's last event.
PollVerdict ==
  /\ job /\ verdict # "none" /\ verdict' = "none"
  /\ job' = FALSE /\ confirm' = None /\ scan' = Refreshed
  /\ Forget
  /\ UNCHANGED <<world, on, image, forceRaw, list, selected, pc, attached, starts, armed, stuck>>

-----------------------------------------------------------------------------
(* The helper. *)

\* Mutation: the ISO is detached at the end only.
EndKeepsIso(v) ==
  /\ pc' = "off" /\ verdict' = v
  /\ attached' = IF v = "finished" THEN attached \ {starts} ELSE attached
  /\ todo' = {} /\ toSplit' = {}
  /\ UNCHANGED <<task, stuck>>

\* The helper returns; the MountedIso it holds, if it does, is dropped: that asks for the
\* ISO to be detached. Nobody looks whether it was.
End(v) ==
  /\ pc' = "off" /\ verdict' = v
  /\ \/ attached' = attached \ {starts} /\ UNCHANGED stuck
     \/ UNCHANGED attached /\ stuck' = stuck \union (attached \intersect {starts})
  /\ todo' = {} /\ toSplit' = {}
  /\ UNCHANGED task

frame == <<world, tab, cancel, starts, shown, armed>>
lastSeen == <<target, lookedAt, unread, swapped>>

\* Any step can fail: a tool is missing, a write fails, the drive is gone.
Fails ==
  /\ pc # "off" /\ End("failed")
  /\ UNCHANGED <<frame, on, lastSeen>>

\* The permission is refused, or the helper is killed: nothing detaches the ISO.
Dies ==
  /\ pc # "off" /\ pc' = "off" /\ verdict' = "failed"
  /\ todo' = {} /\ toSplit' = {}
  /\ stuck' = stuck \union attached
  /\ UNCHANGED <<frame, on, task, attached, lastSeen>>

\* Where the work begins; flash_raw compares the image with the drive that was found.
Begin(d) ==
  /\ task.mode = "raw" => Size[d] >= task.image.size
  /\ pc' = IF task.mode = "raw" THEN "prepare" ELSE "label"
  /\ lookedAt' = news
  /\ UNCHANGED <<frame, on, task, target, todo, toSplit, attached, verdict, unread, swapped, stuck>>

\* Mutation: the tab's choice is trusted.
LookTrusts ==
  pc = "look" /\ \E d \in Listed : plugged[d] = task.id /\ Begin(d)

\* execute looks the drive up again, from scratch, and asks is_safe_target.
Look ==
  pc = "look" /\ \E d \in Listed : plugged[d] = task.id /\ IsSafeTarget(d) /\ Begin(d)

working == <<frame, task, todo, toSplit, attached, verdict, lookedAt, unread, stuck>>

\* A command names the drive by its node or number: it meets the one that has the
\* identifier now, and what is in lost is not found there any more.
Command(lost, next) ==
  /\ \E d \in DOMAIN plugged :
       /\ plugged[d] = task.id
       /\ target' = d /\ swapped' = (swapped \/ target \notin {None, d})
       /\ on' = [on EXCEPT ![d] = @ \ lost]
  /\ pc' = next
  /\ UNCHANGED working

\* prepare_device: Windows cleans the drive, the others only unmount it.
Prepare  == pc = "prepare" /\ \E lost \in {{}, Things} : Command(lost, "open")
OpenNode == pc = "open" /\ Command({}, "write")

\* write_stream overwrites as much as the image is long, from the first chunk on.
BeginWriting ==
  /\ pc = "write" /\ target \in DOMAIN plugged
  /\ on' = [on EXCEPT ![target] = @ \intersect {Behind}]
  /\ pc' = "writing"
  /\ UNCHANGED <<working, target, swapped>>

\* The rest of flash_raw in one step. What lies behind the image stays.
WriteImage ==
  /\ pc = "writing" /\ target \in DOMAIN plugged
  /\ on' = [on EXCEPT ![target] =
              {task.image} \union IF Size[target] > task.image.size THEN @ ELSE {}]
  /\ End("finished") /\ UNCHANGED <<frame, lastSeen>>

\* format_target in commands of their own, as on Linux: mklabel, after which mkpart lays the
\* one partition over what was in the first; mkfs on the first partition; mount.
MakeLabel == pc = "label" /\ Command({Behind} \union Images, "format")
MakeFat   == pc = "format" /\ Command(Things \ {Behind}, "mount")
MountFat  == pc = "mount" /\ Command({}, "iso")

\* diskutil eraseDisk, and diskpart's script, in one command; macOS then asks under the
\* identifier where the volume is, the script gives it its letter.
EraseDisk == pc = "label" /\ \E next \in {"mount", "iso"} : Command(Things, next)

MountIso ==
  /\ pc = "iso" /\ pc' = "plan" /\ attached' = attached \union {starts}
  /\ UNCHANGED <<frame, on, task, todo, toSplit, verdict, lastSeen, stuck>>

\* The ISO is attached, but no volume or no drive letter is found: nothing holds it yet.
MountIsoHalfway ==
  /\ pc = "iso" /\ pc' = "off" /\ verdict' = "failed"
  /\ attached' = attached \union {starts} /\ stuck' = stuck \union {starts}
  /\ UNCHANGED <<frame, on, task, todo, toSplit, lastSeen>>

\* plan_file: what FAT32 cannot hold is split if it is a WIM, and refused if not.
TooBig(f) == f.big /\ ~f.wim

\* The walk leaves out what it cannot read.
Plan ==
  /\ pc = "plan"
  /\ \E S \in SUBSET task.image.files :
       /\ \A f \in S : ~TooBig(f)
       /\ todo' = S /\ unread' = task.image.files \ S
  /\ toSplit' = {} /\ pc' = "copy"
  /\ UNCHANGED <<frame, on, task, target, attached, verdict, lookedAt, swapped, stuck>>

\* What a file is once it is on the drive.
Landed(f) == IF f.big THEN [pieces |-> f] ELSE f

\* It replaces what has its name there: the pieces are called install.swm whatever the
\* WIM's name is. A drive that was pulled and is back counts here as never gone.
Write(f) ==
  /\ target \in DOMAIN plugged
  /\ on' = [on EXCEPT ![target] =
              {Landed(f)} \union (@ \ {Landed(g) : g \in {h \in Files : h.place = f.place}})]

copying == <<frame, pc, task, target, attached, verdict, lookedAt, unread, swapped, stuck>>

\* One turn of the copying loop.
CopyFile(f) ==
  /\ pc = "copy" /\ f \in todo /\ todo' = todo \ {f}
  /\ IF f.big THEN toSplit' = toSplit \union {f} /\ UNCHANGED on
              ELSE Write(f) /\ UNCHANGED toSplit
  /\ UNCHANGED copying

\* split_wim.
SplitWim(f) ==
  /\ pc = "copy" /\ todo = {} /\ f \in toSplit /\ toSplit' = toSplit \ {f}
  /\ Write(f)
  /\ UNCHANGED <<copying, todo>>

\* drop(iso) and finish_target, whose failures are ignored, too.
Finish ==
  /\ pc = "copy" /\ todo = {} /\ toSplit = {}
  /\ End("finished") /\ UNCHANGED <<frame, on, lastSeen>>

\* Mutation: the loop is left, and what follows it goes on.
StopsOnCancelAsDone ==
  /\ cancel /\ pc = "copy" /\ todo # {} /\ todo' = {}
  /\ UNCHANGED <<copying, on, toSplit>>

\* Only the raw writing and the copying loop look at the token.
StopsOnCancel ==
  /\ cancel /\ (pc \in {"write", "writing"} \/ (pc = "copy" /\ todo # {}))
  /\ End("cancelled") /\ UNCHANGED <<frame, on, lastSeen>>

Helper ==
  \/ Look \/ Prepare \/ OpenNode \/ BeginWriting \/ WriteImage
  \/ MakeLabel \/ MakeFat \/ MountFat \/ EraseDisk \/ MountIso \/ MountIsoHalfway
  \/ Plan \/ Finish \/ StopsOnCancel \/ Fails \/ Dies
  \/ \E f \in todo : CopyFile(f)
  \/ \E f \in toSplit : SplitWim(f)

-----------------------------------------------------------------------------
Next ==
  \/ \E d \in Drives : PlugIn(d) \/ Unplug(d) \/ BecomesCritical(d)
  \/ \E i \in Images : SetImage(i)
  \/ \E i \in Ids : Select(i) \/ Type(i)
  \/ ForceRaw \/ Refresh \/ ScanEnds \/ PollScan \/ Start \/ StartFails \/ Cancel \/ PollVerdict
  \/ Helper

Spec == Init /\ [][Next]_vars

-----------------------------------------------------------------------------
(* Properties. *)

Listing == [drives : UNION {[S -> Drives] : S \in SUBSET Ids}, at : 0..MaxNews]
Modes == {"raw", "windows", None}

WorldOK ==
  /\ plugged \in UNION {[D -> Ids] : D \in SUBSET Drives} /\ Injective(plugged)
  /\ critical \subseteq DOMAIN plugged /\ news \in 0..MaxNews
  /\ on \in [Drives -> SUBSET Things]

TabOK ==
  /\ image \in Images \union {None} /\ forceRaw \in BOOLEAN /\ list \in Listing
  /\ scan \in {NoScan, Asking, <<"error">>} \union {<<"found", l>> : l \in Listing}
  /\ selected \in Ids \union {None} /\ (selected = None \/ HasSelected)
  /\ confirm \in Ids \union {None}
  /\ job \in BOOLEAN

HelperOK ==
  /\ pc \in {"off", "look", "prepare", "open", "write", "writing", "label", "format", "mount", "iso",
             "plan", "copy"}
  /\ task \in [image : Images \union {None}, id : Ids \union {None}, mode : Modes]
  /\ target \in Drives \union {None} /\ todo \subseteq Files /\ toSplit \subseteq Files
  /\ attached \subseteq 1..MaxStarts /\ cancel \in BOOLEAN /\ (pc # "off" => job /\ verdict = "none")
  /\ verdict \in {"none"} \union Verdicts /\ (verdict # "none" => job)

HistoryOK ==
  /\ starts \in 0..MaxStarts /\ lookedAt \in 0..MaxNews
  /\ shown \in [drive : Drives \union {None}, at : 0..MaxNews]
  /\ armed \in BOOLEAN /\ unread \subseteq Files /\ swapped \in BOOLEAN /\ stuck \subseteq 1..MaxStarts

\* Every variable has values of its kind; no two drives have one identifier; what is
\* selected is in the list; the helper works, and a verdict waits, only for a job.
TypeOK == WorldOK /\ TabOK /\ HelperOK /\ HistoryOK

Sanctioned ==
  /\ \A d \in Drives : on'[d] # on[d] =>
       /\ pc \in {"prepare", "label", "format"} => plugged[d] = task.id
       /\ shown.at = news => d = shown.drive
       /\ lookedAt = news => /\ d \in Listed /\ IsSafeTarget(d)
                             /\ task.mode = "raw" => Size[d] >= task.image.size
  /\ (~job /\ job') => armed

\* What happens to a drive was asked for.  A job starts only if the identifier was typed
\* for it.  What wipes or formats a drive meets the one that has this identifier; if no
\* drive came or went since the list was made it is, as is every later write, on the drive
\* the list showed under it; if none did since the helper looked, the system does not need
\* the drive, it is one a list may show, and it can hold a raw image (can_start, start,
\* poll; execute, flash_raw).  Which drive has an identifier again is not looked at later.
ErasesAreSanctioned == [][Sanctioned]_vars

\* "Ready to boot from" is said of a drive that has the image, with nothing but what was
\* behind it; or that has every file of the ISO that could be listed, the large WIM in
\* pieces, where two of them have one place there one of the two, and, unless the commands
\* that formatted and mounted it met different drives, nothing of the owner's or of an
\* earlier attempt (flash_raw, flash_windows_files, copy_iso_contents).
ReadyMeansComplete ==
  verdict = "finished" =>
    IF task.mode = "raw"
      THEN task.image \in on[target] /\ on[target] \subseteq {task.image, Behind}
      ELSE LET wanted == task.image.files \ unread
           IN  /\ \A f \in wanted :
                    \E g \in wanted : g.place = f.place /\ Landed(g) \in on[target]
               /\ ~swapped => on[target] \subseteq {Landed(f) : f \in wanted}

\* Only the job that copies has its ISO attached, however earlier ones returned, but for
\* those that were killed, stopped half-way in opening it, or could not detach it
\* (MountedIso's Drop, mount_iso).
IsoDetached == attached \subseteq stuck \union (IF pc \in {"plan", "copy"} THEN {starts} ELSE {})
=============================================================================
