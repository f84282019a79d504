-------------------------- MODULE BootDriveProofs --------------------------
(***************************************************************************)
(* Proofs about BootDrive, for any drives, identifiers and images and any  *)
(* number of changes and starts: the state is well typed, no ISO stays      *)
(* attached unless something failed, a drive is written to only as it was   *)
(* asked for, and one that is called ready has what it should.              *)
(***************************************************************************)
EXTENDS BootDrive, TLAPS

-----------------------------------------------------------------------------
(* Type correctness. *)

Pluggings == UNION {[D -> Ids] : D \in SUBSET Drives}
Lists     == UNION {[S -> Drives] : S \in SUBSET Ids}

LEMMA PluggingIs ==
  ASSUME NEW f
  PROVE  f \in Pluggings <=> /\ DOMAIN f \subseteq Drives
                             /\ f \in [DOMAIN f -> Ids]
<1>1. ASSUME f \in Pluggings PROVE DOMAIN f \subseteq Drives /\ f \in [DOMAIN f -> Ids]
  <2>1. PICK D \in SUBSET Drives : f \in [D -> Ids]
    BY <1>1 DEF Pluggings
  <2> QED BY <2>1
<1>2. ASSUME DOMAIN f \subseteq Drives, f \in [DOMAIN f -> Ids] PROVE f \in Pluggings
  BY <1>2 DEF Pluggings
<1> QED BY <1>1, <1>2

LEMMA ListIs ==
  ASSUME NEW f
  PROVE  f \in Lists <=> /\ DOMAIN f \subseteq Ids
                         /\ f \in [DOMAIN f -> Drives]
<1>1. ASSUME f \in Lists PROVE DOMAIN f \subseteq Ids /\ f \in [DOMAIN f -> Drives]
  <2>1. PICK D \in SUBSET Ids : f \in [D -> Drives]
    BY <1>1 DEF Lists
  <2> QED BY <2>1
<1>2. ASSUME DOMAIN f \subseteq Ids, f \in [DOMAIN f -> Drives] PROVE f \in Lists
  BY <1>2 DEF Lists
<1> QED BY <1>1, <1>2

LEMMA ListingIs ==
  ASSUME NEW l
  PROVE  l \in Listing => /\ l = [drives |-> l.drives, at |-> l.at]
                          /\ l.drives \in Lists /\ l.at \in 0..MaxNews
  BY DEF Listing, Lists

\* What a listing finds is a list, and it shows each drive under its identifier.
LEMMA Found ==
  ASSUME WorldOK
  PROVE  /\ SafeTargets \in Lists
         /\ \A i \in DOMAIN SafeTargets :
              SafeTargets[i] \in DOMAIN plugged /\ plugged[SafeTargets[i]] = i
<1> DEFINE safe == {d \in Listed : IsSafeTarget(d)}
           S == {plugged[d] : d \in safe}
<1>1. SafeTargets = [i \in S |-> CHOOSE d \in safe : plugged[d] = i]
  BY DEF SafeTargets
<1>2. safe \subseteq DOMAIN plugged /\ DOMAIN plugged \subseteq Drives
      /\ plugged \in [DOMAIN plugged -> Ids]
  BY PluggingIs DEF WorldOK, Pluggings, Listed
<1>3. \A i \in S : SafeTargets[i] \in safe /\ plugged[SafeTargets[i]] = i
  BY <1>1
<1>4. DOMAIN SafeTargets = S /\ S \subseteq Ids
  BY <1>1, <1>2
<1>5. SafeTargets \in [S -> Drives]
  BY <1>1, <1>2, <1>3
<1> HIDE DEF safe, S
<1> QED BY <1>2, <1>3, <1>4, <1>5, ListIs

\* The helper has a task while it works, and a drive once it has written to one.
Placed == {"open", "write", "writing", "format", "mount", "iso", "plan", "copy"}
TaskOK ==
  /\ pc # "off" => task.image \in Images /\ task.id \in Ids /\ starts \in 1..MaxStarts
  /\ pc \in Placed => target \in Drives

TInv == TypeOK /\ TaskOK

LEMMA InitTInv == Init => TInv
<1> SUFFICES ASSUME Init PROVE TInv
  OBVIOUS
<1>0. NoList \in Listing
  <2>1. << >> \in Lists
    <3>1. << >> \in [{} -> Drives]
      OBVIOUS
    <3> QED BY <3>1 DEF Lists
  <2>2. 0 \in 0..MaxNews
    BY BoundsAssumption
  <2> QED BY <2>1, <2>2 DEF NoList, Listing, Lists
<1> USE DEF Init
<1>1. WorldOK
  <2>1. plugged \in UNION {[D -> Ids] : D \in SUBSET Drives} /\ Injective(plugged)
    OBVIOUS
  <2> QED BY <2>1, BoundsAssumption DEF WorldOK, Things
<1>2. TabOK
  BY <1>0 DEF TabOK
<1>3. HelperOK
  BY DEF HelperOK, NoTask, Modes
<1>4. HistoryOK
  <2>1. 0 \in 0..MaxNews /\ 0 \in 0..MaxStarts
    BY BoundsAssumption
  <2>2. NotShown \in [drive : Drives \union {None}, at : 0..MaxNews]
    BY <2>1 DEF NotShown
  <2> QED BY <2>1, <2>2 DEF HistoryOK
<1> QED BY <1>1, <1>2, <1>3, <1>4 DEF TInv, TypeOK, TaskOK, Placed

\* What an action leaves alone stays well typed.
LEMMA WorldKept == WorldOK /\ UNCHANGED <<world, on>> => WorldOK'
  BY DEF WorldOK, world
LEMMA TabKept == TabOK /\ UNCHANGED tab => TabOK'
  BY DEF TabOK, HasSelected, tab, choice
LEMMA HelperKept == HelperOK /\ UNCHANGED <<helper, cancel, verdict, job>> => HelperOK'
  BY DEF HelperOK, helper
LEMMA HistoryKept == HistoryOK /\ UNCHANGED history => HistoryOK'
  BY DEF HistoryOK, history
LEMMA TaskKept == TaskOK /\ UNCHANGED <<helper, starts>> => TaskOK'
  BY DEF TaskOK, Placed, helper

LEMMA NewsKeepTInv ==
  ASSUME TInv, NEW d \in Drives, PlugIn(d) \/ Unplug(d) \/ BecomesCritical(d)
  PROVE  TInv'
<1> USE DEF TInv, TypeOK
<1>1. news' \in 0..MaxNews /\ UNCHANGED on
  BY BoundsAssumption DEF PlugIn, Unplug, BecomesCritical, News, WorldOK
<1>2. /\ plugged' \in Pluggings /\ Injective(plugged')
      /\ critical' \subseteq DOMAIN plugged'
  <2>0. DOMAIN plugged \subseteq Drives /\ plugged \in [DOMAIN plugged -> Ids]
        /\ Injective(plugged) /\ critical \subseteq DOMAIN plugged
    BY PluggingIs DEF WorldOK, Pluggings
  <2>1. CASE PlugIn(d)
    <3>1. PICK i \in Ids \ {plugged[e] : e \in DOMAIN plugged} :
            plugged' = [e \in DOMAIN plugged \union {d} |-> IF e = d THEN i ELSE plugged[e]]
      BY <2>1 DEF PlugIn
    <3>2. DOMAIN plugged' = DOMAIN plugged \union {d} /\ plugged' \in [DOMAIN plugged' -> Ids]
      BY <2>0, <3>1
    <3>3. Injective(plugged')
      BY <2>0, <3>1 DEF Injective
    <3> QED BY <2>0, <2>1, <3>2, <3>3, PluggingIs DEF PlugIn
  <2>2. CASE Unplug(d)
    <3>1. plugged' = [e \in DOMAIN plugged \ {d} |-> plugged[e]] /\ critical' = critical \ {d}
      BY <2>2 DEF Unplug
    <3>2. DOMAIN plugged' = DOMAIN plugged \ {d} /\ plugged' \in [DOMAIN plugged' -> Ids]
      BY <2>0, <3>1
    <3>3. Injective(plugged')
      BY <2>0, <3>1 DEF Injective
    <3> QED BY <2>0, <3>1, <3>2, <3>3, PluggingIs
  <2>3. CASE BecomesCritical(d)
    BY <2>0, <2>3, PluggingIs DEF BecomesCritical
  <2> QED BY <2>1, <2>2, <2>3
<1>3. UNCHANGED <<tab, helper, cancel, verdict, history>>
  BY DEF PlugIn, Unplug, BecomesCritical, News
<1>4. UNCHANGED job
  BY <1>3 DEF tab
<1>5. WorldOK'
  BY <1>1, <1>2 DEF WorldOK, Pluggings
<1> QED BY <1>3, <1>4, <1>5, TabKept, HelperKept, HistoryKept, TaskKept DEF history

LEMMA TabKeepsTInv ==
  ASSUME TInv
  PROVE  /\ \A i \in Images : SetImage(i) => TInv'
         /\ \A i \in Ids : Select(i) \/ Type(i) => TInv'
         /\ ForceRaw \/ Refresh \/ ScanEnds \/ PollScan => TInv'
<1> USE DEF TInv, TypeOK
<1>1. ASSUME NEW i \in Images, SetImage(i) PROVE TInv'
  <2>1. TabOK'
    BY <1>1 DEF SetImage, TabOK, HasSelected
  <2> QED BY <1>1, <2>1, WorldKept, HelperKept, HistoryKept, TaskKept DEF SetImage, history
<1>2. ASSUME NEW i \in Ids, Select(i) PROVE TInv'
  <2>1. TabOK'
    BY <1>2 DEF Select, TabOK, HasSelected
  <2> QED BY <1>2, <2>1, WorldKept, HelperKept, HistoryKept, TaskKept DEF Select, history
<1>3. ASSUME NEW i \in Ids, Type(i) PROVE TInv'
  <2>1. TabOK'
    BY <1>3 DEF Type, TabOK, HasSelected
  <2>2. HistoryOK'
    BY <1>3 DEF Type, HistoryOK
  <2> QED BY <1>3, <2>1, <2>2, WorldKept, HelperKept, TaskKept DEF Type
<1>4. ASSUME ForceRaw PROVE TInv'
  <2>1. TabOK'
    BY <1>4 DEF ForceRaw, TabOK, HasSelected
  <2> QED BY <1>4, <2>1, WorldKept, HelperKept, HistoryKept, TaskKept DEF ForceRaw, history
<1>5. ASSUME Refresh PROVE TInv'
  <2>1. TabOK'
    BY <1>5 DEF Refresh, Refreshed, TabOK, HasSelected, choice
  <2> QED BY <1>5, <2>1, WorldKept, HelperKept, HistoryKept, TaskKept DEF Refresh, history
<1>6. ASSUME ScanEnds PROVE TInv'
  <2>1. [drives |-> SafeTargets, at |-> news] \in Listing
    BY Found DEF Listing, Lists, WorldOK
  <2>2. scan' \in {<<"error">>} \union {<<"found", l>> : l \in Listing}
    BY <1>6, <2>1 DEF ScanEnds
  <2>3. TabOK'
    BY <1>6, <2>2 DEF ScanEnds, TabOK, HasSelected, choice
  <2> QED BY <1>6, <2>3, WorldKept, HelperKept, HistoryKept, TaskKept DEF ScanEnds, history
<1>7. ASSUME PollScan PROVE TInv'
  <2>1. CASE scan[1] = "error"
    <3>1. TabOK'
      BY <1>7, <2>1 DEF PollScan, TabOK, HasSelected
    <3> QED BY <1>7, <3>1, WorldKept, HelperKept, HistoryKept, TaskKept DEF PollScan, history
  <2>2. CASE scan[1] = "found"
    <3>1. scan[2] \in Listing
      BY <2>2 DEF TabOK, NoScan, Asking
    <3>2. TabOK'
      BY <1>7, <2>2, <3>1 DEF PollScan, TabOK, HasSelected
    <3> QED BY <1>7, <3>2, WorldKept, HelperKept, HistoryKept, TaskKept DEF PollScan, history
  <2> QED BY <1>7, <2>1, <2>2 DEF PollScan
<1> QED BY <1>1, <1>2, <1>3, <1>4, <1>5, <1>6, <1>7

LEMMA JobKeepsTInv == TInv /\ (Start \/ StartFails \/ Cancel \/ PollVerdict) => TInv'
<1> USE DEF TInv, TypeOK
<1>1. ASSUME TInv, Start PROVE TInv'
  <2>1. /\ image \in Images /\ selected \in Ids /\ Mode \in Modes
        /\ list.drives[selected] \in Drives /\ list.at \in 0..MaxNews
        /\ ~job /\ starts' \in 1..MaxStarts
    <3>1. image \in Images /\ selected \in DOMAIN list.drives /\ ~job
      BY <1>1 DEF Start, Press, CanStart, Info, HasSelected, TabOK
    <3>2. DOMAIN list.drives \subseteq Ids /\ list.drives \in [DOMAIN list.drives -> Drives]
          /\ list.at \in 0..MaxNews
      BY <1>1, ListingIs, ListIs DEF TabOK
    <3>3. Mode \in Modes
      BY DEF Mode, Modes
    <3>4. starts' \in 1..MaxStarts
      BY <1>1, BoundsAssumption DEF Start, Press, HistoryOK
    <3> QED BY <3>1, <3>2, <3>3, <3>4
  <2>2. UNCHANGED <<world, on, choice, list, scan, target, todo, toSplit, attached, verdict,
                    lookedAt, unread, swapped, stuck>>
    BY <1>1 DEF Start, Press
  <2>3. TabOK'
    BY <1>1, <2>2 DEF Start, TabOK, HasSelected, choice
  <2>4. HelperOK'
    BY <1>1, <2>1, <2>2 DEF Start, HelperOK
  <2>5. HistoryOK'
    <3>1. starts' \in 0..MaxStarts /\ shown' \in [drive : Drives \union {None}, at : 0..MaxNews]
      BY <1>1, <2>1 DEF Start
    <3> QED BY <1>1, <2>2, <3>1 DEF Start, HistoryOK
  <2>6. TaskOK'
    BY <1>1, <2>1 DEF Start, TaskOK, Placed
  <2> QED BY <1>1, <2>2, <2>3, <2>4, <2>5, <2>6, WorldKept
<1>2. ASSUME TInv, StartFails PROVE TInv'
  <2>1. /\ starts' \in 0..MaxStarts
        /\ UNCHANGED <<world, on, choice, list, scan, target, todo, toSplit, attached, verdict,
                       lookedAt, unread, swapped, stuck>>
    BY <1>2, BoundsAssumption DEF StartFails, Press, HistoryOK
  <2>2. TabOK'
    BY <1>2, <2>1 DEF StartFails, TabOK, HasSelected, choice
  <2>3. HistoryOK'
    BY <1>2, <2>1 DEF StartFails, HistoryOK
  <2>4. pc = "off" /\ pc' = "off"
    BY <1>2 DEF StartFails, Press, CanStart, HelperOK
  <2>5. TaskOK'
    BY <2>4 DEF TaskOK, Placed
  <2> QED BY <1>2, <2>1, <2>2, <2>3, <2>5, WorldKept, HelperKept DEF StartFails, helper
<1>3. ASSUME TInv, Cancel PROVE TInv'
  <2>1. HelperOK'
    BY <1>3 DEF Cancel, HelperOK, helper, tab
  <2> QED BY <1>3, <2>1, WorldKept, TabKept, HistoryKept, TaskKept DEF Cancel, history
<1>4. ASSUME TInv, PollVerdict PROVE TInv'
  <2>1. pc = "off"
    BY <1>4 DEF PollVerdict, HelperOK
  <2>2. TabOK'
    BY <1>4 DEF PollVerdict, TabOK, HasSelected, Refreshed
  <2>3. HelperOK'
    BY <1>4, <2>1 DEF PollVerdict, Forget, NoTask, Modes, HelperOK
  <2>4. HistoryOK'
    <3>1. 0 \in 0..MaxNews
      BY BoundsAssumption
    <3> QED BY <1>4, <3>1 DEF PollVerdict, Forget, NotShown, HistoryOK
  <2>5. TaskOK'
    BY <1>4, <2>1 DEF PollVerdict, TaskOK, Placed
  <2> QED BY <1>4, <2>2, <2>3, <2>4, <2>5, WorldKept DEF PollVerdict
<1> QED BY <1>1, <1>2, <1>3, <1>4

\* A step of the helper changes nothing of the tab, and what it writes are things.
LEMMA HelperFrame ==
  ASSUME TInv, UNCHANGED frame, on' \in [Drives -> SUBSET Things], HelperOK', TaskOK',
         lookedAt' \in 0..MaxNews, unread' \subseteq Files, swapped' \in BOOLEAN,
         stuck' \subseteq 1..MaxStarts
  PROVE  TInv'
<1> USE DEF TInv, TypeOK, frame
<1>1. WorldOK'
  BY DEF WorldOK, world
<1>2. TabOK'
  BY TabKept
<1>3. HistoryOK'
  BY DEF HistoryOK
<1> QED BY <1>1, <1>2, <1>3

LEMMA HelperKeepsTInv == TInv /\ Helper => TInv'
<1> SUFFICES ASSUME TInv, Helper PROVE TInv'
  OBVIOUS
<1> USE DEF TInv, TypeOK
<1>0. /\ news \in 0..MaxNews /\ on \in [Drives -> SUBSET Things] /\ DOMAIN plugged \subseteq Drives
      /\ lookedAt \in 0..MaxNews /\ unread \subseteq Files /\ swapped \in BOOLEAN
      /\ stuck \subseteq 1..MaxStarts /\ attached \subseteq 1..MaxStarts
      /\ pc # "off" => starts \in 1..MaxStarts
  BY PluggingIs DEF WorldOK, HelperOK, HistoryOK, Pluggings, TaskOK
\* The helper returns.
<1>1. ASSUME NEW v \in Verdicts, pc # "off", End(v), UNCHANGED <<frame, lastSeen>>,
             on' \in [Drives -> SUBSET Things]
      PROVE  TInv'
  <2>1. attached' \subseteq 1..MaxStarts /\ stuck' \subseteq 1..MaxStarts
    BY <1>0, <1>1 DEF End
  <2>2. HelperOK' /\ TaskOK'
    BY <1>1, <2>1 DEF End, frame, lastSeen, tab, HelperOK, TaskOK, Placed
  <2> QED BY <1>0, <1>1, <2>1, <2>2, HelperFrame DEF lastSeen
<1>2. CASE Fails \/ Finish \/ StopsOnCancel
  <2>1. \E v \in Verdicts : End(v) /\ pc # "off" /\ UNCHANGED <<frame, lastSeen, on>>
    BY <1>2 DEF Fails, Finish, StopsOnCancel, Verdicts
  <2> QED BY <1>0, <1>1, <2>1
<1>3. CASE WriteImage
  <2>1. target \in Drives /\ task.image \in Images
    BY <1>0, <1>3 DEF WriteImage, TaskOK
  <2>2. on' \in [Drives -> SUBSET Things]
    BY <1>0, <1>3, <2>1 DEF WriteImage, Things
  <2> QED BY <1>1, <1>3, <2>2 DEF WriteImage, Verdicts
<1>4. CASE Dies \/ MountIsoHalfway
  <2>1. /\ attached' \subseteq 1..MaxStarts /\ stuck' \subseteq 1..MaxStarts
        /\ pc # "off" /\ pc' = "off" /\ verdict' = "failed" /\ UNCHANGED <<frame, on, task, lastSeen>>
        /\ todo' \subseteq todo /\ toSplit' \subseteq toSplit
    BY <1>0, <1>4 DEF Dies, MountIsoHalfway
  <2>2. HelperOK' /\ TaskOK'
    BY <2>1 DEF frame, lastSeen, tab, HelperOK, TaskOK, Placed, Verdicts
  <2> QED BY <1>0, <2>1, <2>2, HelperFrame DEF lastSeen
<1>5. CASE Look
  <2>1. PICK d \in Listed : Begin(d) /\ pc = "look"
    BY <1>5 DEF Look
  <2>2. HelperOK' /\ TaskOK'
    BY <2>1 DEF Begin, frame, tab, HelperOK, TaskOK, Placed
  <2> QED BY <1>0, <2>1, <2>2, HelperFrame DEF Begin
\* A command on the identifier.
<1>6. ASSUME NEW lost, NEW next \in Placed, Command(lost, next), pc # "off" PROVE TInv'
  <2>1. PICK d \in DOMAIN plugged : /\ target' = d /\ swapped' = (swapped \/ target \notin {None, d})
                                    /\ on' = [on EXCEPT ![d] = @ \ lost]
    BY <1>6 DEF Command
  <2>2. on' \in [Drives -> SUBSET Things] /\ swapped' \in BOOLEAN /\ target' \in Drives
    BY <1>0, <2>1
  <2>3. HelperOK' /\ TaskOK'
    BY <1>6, <2>2 DEF Command, working, frame, tab, HelperOK, TaskOK, Placed
  <2> QED BY <1>0, <1>6, <2>2, <2>3, HelperFrame DEF Command, working
<1>7. CASE Prepare \/ OpenNode \/ MakeLabel \/ MakeFat \/ MountFat \/ EraseDisk
  BY <1>6, <1>7 DEF Prepare, OpenNode, MakeLabel, MakeFat, MountFat, EraseDisk, Placed
<1>8. CASE BeginWriting
  <2>1. on' \in [Drives -> SUBSET Things]
    BY <1>0, <1>8 DEF BeginWriting
  <2>2. HelperOK' /\ TaskOK'
    BY <1>8 DEF BeginWriting, working, frame, tab, HelperOK, TaskOK, Placed
  <2> QED BY <1>0, <1>8, <2>1, <2>2, HelperFrame DEF BeginWriting, working
<1>9. CASE MountIso
  <2>1. attached' \subseteq 1..MaxStarts
    BY <1>0, <1>9 DEF MountIso
  <2>2. HelperOK' /\ TaskOK'
    BY <1>9, <2>1 DEF MountIso, frame, lastSeen, tab, HelperOK, TaskOK, Placed
  <2> QED BY <1>0, <1>9, <2>2, HelperFrame DEF MountIso, lastSeen
<1>10. CASE Plan
  <2>1. task.image.files \subseteq Files
    BY <1>10 DEF Plan, TaskOK, Files
  <2>2. HelperOK' /\ TaskOK' /\ unread' \subseteq Files
    BY <1>10, <2>1 DEF Plan, frame, tab, HelperOK, TaskOK, Placed
  <2> QED BY <1>0, <1>10, <2>2, HelperFrame DEF Plan
<1>11. ASSUME NEW f \in Files, Write(f) PROVE on' \in [Drives -> SUBSET Things]
  <2>1. Landed(f) \in Things
    BY DEF Landed, Things
  <2> QED BY <1>0, <1>11, <2>1 DEF Write
<1>12. ASSUME NEW f \in todo, CopyFile(f) PROVE TInv'
  <2>1. f \in Files
    BY DEF HelperOK
  <2>2. on' \in [Drives -> SUBSET Things]
    BY <1>0, <1>11, <1>12, <2>1 DEF CopyFile
  <2>3. HelperOK' /\ TaskOK'
    BY <1>12, <2>1 DEF CopyFile, copying, frame, tab, HelperOK, TaskOK, Placed
  <2> QED BY <1>0, <1>12, <2>2, <2>3, HelperFrame DEF CopyFile, copying
<1>13. ASSUME NEW f \in toSplit, SplitWim(f) PROVE TInv'
  <2>1. f \in Files
    BY DEF HelperOK
  <2>2. on' \in [Drives -> SUBSET Things]
    BY <1>11, <1>13, <2>1 DEF SplitWim
  <2>3. HelperOK' /\ TaskOK'
    BY <1>13 DEF SplitWim, copying, frame, tab, HelperOK, TaskOK, Placed
  <2> QED BY <1>0, <1>13, <2>2, <2>3, HelperFrame DEF SplitWim, copying
<1> QED BY <1>2, <1>3, <1>4, <1>5, <1>7, <1>8, <1>9, <1>10, <1>12, <1>13 DEF Helper

LEMMA StutterKeepsTInv == TInv /\ UNCHANGED vars => TInv'
  BY WorldKept, TabKept, HelperKept, HistoryKept, TaskKept DEF TInv, TypeOK, vars, tab, history

LEMMA NextTInv == TInv /\ [Next]_vars => TInv'
  BY NewsKeepTInv, TabKeepsTInv, JobKeepsTInv, HelperKeepsTInv, StutterKeepsTInv DEF Next

\* The state is well typed in every behaviour, and no two drives ever have one identifier.
THEOREM BootTypeCorrect == Spec => []TypeOK
<1>1. TInv => TypeOK
  BY DEF TInv
<1> QED BY <1>1, InitTInv, NextTInv, PTL DEF Spec

-----------------------------------------------------------------------------
(* The ISO. No other one than the running job's is attached if it is not        *)
(* stuck; a start, which has no running job, begins with the stuck ones only.   *)

LEMMA NextIsoDetached == TInv /\ IsoDetached /\ [Next]_vars => IsoDetached'
<1> SUFFICES ASSUME TInv, IsoDetached, [Next]_vars PROVE IsoDetached'
  OBVIOUS
<1> USE DEF IsoDetached
<1>0. ASSUME UNCHANGED <<attached, stuck, pc, starts>> PROVE IsoDetached'
  BY <1>0
<1>1. ASSUME NEW d \in Drives, PlugIn(d) \/ Unplug(d) \/ BecomesCritical(d) PROVE IsoDetached'
  BY <1>0, <1>1 DEF PlugIn, Unplug, BecomesCritical, News, helper, history
<1>2. ASSUME NEW i \in Images, SetImage(i) PROVE IsoDetached'
  BY <1>0, <1>2 DEF SetImage, helper, history
<1>3. ASSUME NEW i \in Ids, Select(i) \/ Type(i) PROVE IsoDetached'
  BY <1>0, <1>3 DEF Select, Type, helper, history
<1>4. CASE ForceRaw \/ Refresh \/ ScanEnds \/ PollScan \/ Cancel
  BY <1>0, <1>4 DEF ForceRaw, Refresh, ScanEnds, PollScan, Cancel, helper, history
<1>5. CASE Start \/ StartFails
  <2>1. pc = "off" /\ UNCHANGED <<attached, stuck>>
    BY <1>5 DEF TInv, TypeOK, HelperOK, Start, StartFails, Press, CanStart
  <2> QED BY <2>1
<1>6. CASE PollVerdict
  BY <1>0, <1>6 DEF PollVerdict
<1>7. CASE Helper
  <2>1. ASSUME NEW v, End(v), UNCHANGED frame PROVE IsoDetached'
    BY <2>1 DEF End
  <2>2. CASE Fails \/ Finish \/ StopsOnCancel \/ WriteImage
    BY <2>1, <2>2 DEF Fails, Finish, StopsOnCancel, WriteImage
  <2>3. CASE Dies \/ MountIso \/ MountIsoHalfway
    BY <2>3 DEF Dies, MountIso, MountIsoHalfway, frame
  <2>4. CASE Look
    BY <2>4 DEF Look, Begin, frame
  <2>5. CASE BeginWriting
    BY <2>5 DEF BeginWriting, working, frame
  <2>6. CASE Plan
    BY <2>6 DEF Plan, frame
  <2>7. CASE Prepare \/ OpenNode \/ MakeLabel \/ MakeFat \/ MountFat \/ EraseDisk
    BY <2>7 DEF Prepare, OpenNode, MakeLabel, MakeFat, MountFat, EraseDisk, Command, working, frame
  <2>8. ASSUME NEW f, CopyFile(f) \/ SplitWim(f) PROVE IsoDetached'
    BY <1>0, <2>8 DEF CopyFile, SplitWim, copying, frame
  <2> QED BY <1>7, <2>2, <2>3, <2>4, <2>5, <2>6, <2>7, <2>8 DEF Helper
<1>8. CASE UNCHANGED vars
  BY <1>0, <1>8 DEF vars, helper, history
<1> QED BY <1>1, <1>2, <1>3, <1>4, <1>5, <1>6, <1>7, <1>8 DEF Next

\* No start but the one that copies has its ISO attached, however the helper ended,
\* unless it was killed, its opening was cut short, or the command that detaches failed.
THEOREM BootIsoDetached == Spec => []IsoDetached
<1>1. Init => IsoDetached
  BY DEF Init, IsoDetached
<1> QED BY <1>1, InitTInv, NextTInv, NextIsoDetached, PTL DEF Spec

-----------------------------------------------------------------------------
(* What is erased. The list, what a listing found, what the tab started the     *)
(* helper with and what the helper looked up are true of the drives as long as  *)
(* none of them changed since; the drive written to is then the one looked up.  *)

ShowsNow(l) ==
  /\ l.at <= news
  /\ l.at = news => \A i \in DOMAIN l.drives :
                      l.drives[i] \in DOMAIN plugged /\ plugged[l.drives[i]] = i

ListsTrue == ShowsNow(list) /\ (scan[1] = "found" => ShowsNow(scan[2]))

ShownTrue ==
  pc # "off" =>
    /\ shown.at <= news /\ shown.drive \in Drives
    /\ shown.at = news =>
         /\ shown.drive \in DOMAIN plugged /\ plugged[shown.drive] = task.id
         /\ pc \in Placed => target = shown.drive

\* What the helper asks of the drive it looks up.
Fit(d) == d \in Listed /\ IsSafeTarget(d) /\ (task.mode = "raw" => Size[d] >= task.image.size)

LookedTrue ==
  /\ lookedAt <= news
  /\ pc \notin {"off", "look"} /\ lookedAt = news =>
       /\ \E d \in Drives : plugged[d] = task.id /\ Fit(d)
       /\ pc \in Placed => Fit(target)

Armed == ~job /\ confirm # None => armed

EInv == ListsTrue /\ ShownTrue /\ LookedTrue /\ Armed

LEMMA InitEInv == Init => EInv
<1> SUFFICES ASSUME Init PROVE EInv
  OBVIOUS
<1>1. ShowsNow(list)
  BY DEF Init, NoList, ShowsNow
<1>2. scan[1] # "found"
  BY DEF Init, Asking
<1>3. ShownTrue /\ LookedTrue /\ Armed
  BY DEF Init, ShownTrue, LookedTrue, Armed
<1> QED BY <1>1, <1>2, <1>3 DEF EInv, ListsTrue

\* As long as the drives stay as they are, so does what is true of them.
LEMMA ListsKept == ListsTrue /\ UNCHANGED <<world, list, scan>> => ListsTrue'
  BY DEF ListsTrue, ShowsNow, world
LEMMA ShownKept == ShownTrue /\ UNCHANGED <<world, pc, task, target, shown>> => ShownTrue'
  BY DEF ShownTrue, world
LEMMA FitKept == ASSUME NEW d, UNCHANGED <<world, task>> PROVE Fit(d) <=> Fit(d)'
  BY DEF Fit, Listed, IsSafeTarget, world
LEMMA LookedKept == LookedTrue /\ UNCHANGED <<world, pc, task, target, lookedAt>> => LookedTrue'
  BY DEF LookedTrue, Fit, Listed, IsSafeTarget, world
LEMMA ArmedKept == Armed /\ UNCHANGED <<job, confirm, armed>> => Armed'
  BY DEF Armed

LEMMA NewsKeepEInv ==
  ASSUME TInv, EInv, NEW d \in Drives, PlugIn(d) \/ Unplug(d) \/ BecomesCritical(d)
  PROVE  EInv'
<1>1. news \in Nat /\ news' = news + 1 /\ list.at \in Nat /\ shown.at \in Nat /\ lookedAt \in Nat
  BY ListingIs, BoundsAssumption
     DEF TInv, TypeOK, WorldOK, TabOK, HistoryOK, PlugIn, Unplug, BecomesCritical, News
<1>2. UNCHANGED <<on, tab, helper, cancel, verdict, history>>
  BY DEF PlugIn, Unplug, BecomesCritical, News
<1>3. scan[1] = "found" => scan[2].at \in Nat
  BY ListingIs, BoundsAssumption DEF TInv, TypeOK, TabOK, NoScan, Asking
<1>4. ListsTrue'
  BY <1>1, <1>2, <1>3 DEF EInv, ListsTrue, ShowsNow, tab
<1>5. ShownTrue' /\ LookedTrue' /\ Armed'
  BY <1>1, <1>2 DEF EInv, ShownTrue, LookedTrue, Armed, tab, choice, helper, history
<1> QED BY <1>4, <1>5 DEF EInv

LEMMA TabKeepsEInv ==
  ASSUME TInv, EInv
  PROVE  /\ \A i \in Images : SetImage(i) => EInv'
         /\ \A i \in Ids : Select(i) \/ Type(i) => EInv'
         /\ ForceRaw \/ Refresh \/ ScanEnds \/ PollScan => EInv'
<1> USE DEF EInv
<1>1. ASSUME NEW i \in Images, SetImage(i) PROVE EInv'
  BY <1>1, ListsKept, ShownKept, LookedKept, ArmedKept DEF SetImage, helper, history
<1>2. ASSUME NEW i \in Ids, Select(i) PROVE EInv'
  <2>1. Armed'
    BY <1>2 DEF Armed, Select, history
  <2> QED BY <1>2, <2>1, ListsKept, ShownKept, LookedKept DEF Select, helper, history
<1>3. ASSUME NEW i \in Ids, Type(i) PROVE EInv'
  <2>1. Armed'
    BY <1>3 DEF Armed, Type
  <2> QED BY <1>3, <2>1, ListsKept, ShownKept, LookedKept DEF Type, helper
<1>4. ASSUME ForceRaw PROVE EInv'
  BY <1>4, ListsKept, ShownKept, LookedKept, ArmedKept DEF ForceRaw, helper, history
<1>5. ASSUME Refresh \/ ScanEnds PROVE EInv'
  <2>1. ListsTrue'
    <3>1. CASE Refresh
      BY <3>1 DEF Refresh, Refreshed, NoScan, Asking, ListsTrue, ShowsNow, world
    <3>2. CASE ScanEnds /\ scan'[1] = "error"
      BY <3>2 DEF ScanEnds, ListsTrue, ShowsNow, world
    <3>3. CASE ScanEnds /\ scan' = <<"found", [drives |-> SafeTargets, at |-> news]>>
      <4>1. \A i \in DOMAIN SafeTargets :
              SafeTargets[i] \in DOMAIN plugged /\ plugged[SafeTargets[i]] = i
        BY Found DEF TInv, TypeOK
      <4>2. news <= news
        BY BoundsAssumption DEF TInv, TypeOK, WorldOK
      <4> DEFINE found == [drives |-> SafeTargets, at |-> news]
      <4>3. found.drives = SafeTargets /\ found.at = news
        OBVIOUS
      <4>4. ShowsNow(found)
        BY <4>1, <4>2, <4>3 DEF ShowsNow
      <4> HIDE DEF found
      <4>5. scan' = <<"found", found>> /\ UNCHANGED <<world, list>>
        BY <3>3 DEF ScanEnds, found
      <4>6. scan'[2] = found
        BY <4>5
      <4> QED BY <4>4, <4>5, <4>6 DEF ListsTrue, ShowsNow, world
    <3> QED BY <1>5, <3>1, <3>2, <3>3 DEF ScanEnds
  <2> QED BY <1>5, <2>1, ShownKept, LookedKept, ArmedKept
          DEF Refresh, ScanEnds, choice, helper, history
<1>6. ASSUME PollScan PROVE EInv'
  <2>1. ListsTrue'
    BY <1>6 DEF PollScan, NoScan, ListsTrue, ShowsNow, world
  <2> QED BY <1>6, <2>1, ShownKept, LookedKept, ArmedKept DEF PollScan, helper, history
<1> QED BY <1>1, <1>2, <1>3, <1>4, <1>5, <1>6

LEMMA JobKeepsEInv == TInv /\ EInv /\ (Start \/ StartFails \/ Cancel \/ PollVerdict) => EInv'
<1> USE DEF EInv
<1>1. ASSUME TInv, EInv, Start PROVE EInv'
  <2>1. selected \in DOMAIN list.drives
    BY <1>1 DEF Start, Press, CanStart, HasSelected
  <2>2. list.drives[selected] \in Drives
    BY <1>1, <2>1, ListingIs, ListIs DEF TInv, TypeOK, TabOK
  <2>3. UNCHANGED <<world, on, choice, list, scan, target, todo, toSplit, attached, verdict,
                    lookedAt, unread, swapped, stuck>>
    BY <1>1 DEF Start, Press
  <2>4. ShownTrue'
    <3>1. /\ shown'.drive = list.drives[selected] /\ shown'.at = list.at /\ pc' = "look"
          /\ task'.id = selected
      BY <1>1 DEF Start
    <3> QED BY <1>1, <2>1, <2>2, <2>3, <3>1 DEF ListsTrue, ShowsNow, ShownTrue, Placed, world
  <2>5. LookedTrue'
    BY <1>1, <2>3 DEF Start, LookedTrue, world
  <2>6. Armed'
    BY <1>1 DEF Start, Armed
  <2> QED BY <1>1, <2>3, <2>4, <2>5, <2>6, ListsKept
<1>2. ASSUME TInv, EInv, StartFails PROVE EInv'
  BY <1>2, ListsKept, ShownKept, LookedKept, ArmedKept DEF StartFails, Press, choice
<1>3. ASSUME TInv, EInv, Cancel PROVE EInv'
  BY <1>3, ListsKept, ShownKept, LookedKept, ArmedKept DEF Cancel, tab, choice, helper, history
<1>4. ASSUME TInv, EInv, PollVerdict PROVE EInv'
  <2>1. pc = "off" /\ pc' = "off" /\ news \in Nat
    BY <1>4, BoundsAssumption DEF PollVerdict, TInv, TypeOK, HelperOK, WorldOK
  <2>2. ListsTrue'
    BY <1>4 DEF PollVerdict, Refreshed, NoScan, Asking, ListsTrue, ShowsNow, world
  <2>3. ShownTrue' /\ LookedTrue'
    BY <1>4, <2>1 DEF PollVerdict, Forget, ShownTrue, LookedTrue, world
  <2>4. Armed'
    BY <1>4 DEF PollVerdict, Armed
  <2> QED BY <2>2, <2>3, <2>4
<1> QED BY <1>1, <1>2, <1>3, <1>4

\* Where the helper writes, the drive is the one the list showed and the one looked up.
Commanding == {"prepare", "open", "label", "format", "mount"}
Putting    == {"write", "writing", "copy"}

LEMMA WritesSanctioned ==
  ASSUME TInv, EInv, NEW d \in Drives,
         \/ pc \in Commanding /\ d \in DOMAIN plugged /\ plugged[d] = task.id
         \/ pc \in Putting /\ d = target
  PROVE  /\ pc \in {"prepare", "label", "format"} => plugged[d] = task.id
         /\ shown.at = news => d = shown.drive
         /\ lookedAt = news => Fit(d)
<1> USE DEF EInv
<1>1. CASE pc \in Commanding /\ d \in DOMAIN plugged /\ plugged[d] = task.id
  <2>1. Injective(plugged)
    BY DEF TInv, TypeOK, WorldOK
  <2>2. shown.at = news => d = shown.drive
    BY <1>1, <2>1 DEF ShownTrue, Injective, Commanding
  <2>3. lookedAt = news => Fit(d)
    <3>1. SUFFICES ASSUME lookedAt = news PROVE Fit(d)
      OBVIOUS
    <3>2. PICK e \in Drives : plugged[e] = task.id /\ Fit(e)
      BY <1>1, <3>1 DEF LookedTrue, Commanding
    <3>3. e \in DOMAIN plugged
      BY <3>2 DEF Fit, Listed
    <3>4. e = d
      BY <1>1, <2>1, <3>2, <3>3 DEF Injective
    <3> QED BY <3>2, <3>4
  <2> QED BY <1>1, <2>2, <2>3
<1>2. CASE pc \in Putting /\ d = target
  BY <1>2 DEF ShownTrue, LookedTrue, Placed, Putting
<1> QED BY <1>1, <1>2

LEMMA CommandKeepsEInv ==
  ASSUME TInv, EInv, NEW lost, NEW next \in Placed, Command(lost, next), pc \in Commanding
  PROVE  EInv'
<1>1. PICK d \in DOMAIN plugged : plugged[d] = task.id /\ target' = d
  BY DEF Command
<1>2. d \in Drives
  BY <1>1, PluggingIs DEF TInv, TypeOK, WorldOK, Pluggings
<1>3. /\ shown.at = news => d = shown.drive
      /\ lookedAt = news => Fit(d)
  BY <1>1, <1>2, WritesSanctioned
<1>4. UNCHANGED <<frame, task, lookedAt>> /\ pc' = next
  BY DEF Command, working
<1>5. pc # "off" /\ pc # "look"
  BY DEF Commanding
<1>6. ShownTrue'
  BY <1>1, <1>3, <1>4, <1>5 DEF EInv, ShownTrue, frame, world
<1>7. LookedTrue'
  <2>1. lookedAt <= news /\ lookedAt' = lookedAt /\ news' = news
    BY <1>4 DEF EInv, LookedTrue, frame, world
  <2>2. lookedAt = news => Fit(d)'
    BY <1>3, <1>4, FitKept DEF frame
  <2>3. plugged'[d] = task'.id
    BY <1>1, <1>4 DEF frame, world
  <2>4. lookedAt = news => Fit(target)'
    BY <1>1, <2>2 DEF Fit, Listed, IsSafeTarget
  <2> QED BY <1>2, <2>1, <2>2, <2>3, <2>4 DEF LookedTrue
<1> QED BY <1>4, <1>6, <1>7, ListsKept, ArmedKept DEF EInv, frame, tab, choice

LEMMA HelperKeepsEInv == TInv /\ EInv /\ Helper => EInv'
<1> SUFFICES ASSUME TInv, EInv, Helper PROVE EInv'
  OBVIOUS
<1>0. ASSUME UNCHANGED frame, ShownTrue', LookedTrue' PROVE EInv'
  BY <1>0, ListsKept, ArmedKept DEF EInv, frame, tab, choice
<1>1. CASE Fails \/ Finish \/ StopsOnCancel \/ WriteImage \/ Dies \/ MountIsoHalfway
  <2>1. UNCHANGED <<frame, lookedAt>> /\ pc' = "off"
    BY <1>1 DEF Fails, Finish, StopsOnCancel, WriteImage, Dies, MountIsoHalfway, End, lastSeen
  <2>2. ShownTrue' /\ LookedTrue'
    BY <2>1 DEF EInv, ShownTrue, LookedTrue, frame, world
  <2> QED BY <1>0, <2>1, <2>2
<1>2. CASE Look
  <2>1. PICK d \in Listed : plugged[d] = task.id /\ IsSafeTarget(d) /\ Begin(d)
    BY <1>2 DEF Look
  <2>2. d \in Drives /\ Fit(d) /\ news \in Nat
    BY <2>1, PluggingIs, BoundsAssumption
       DEF TInv, TypeOK, WorldOK, Pluggings, Listed, Fit, Begin
  <2>3. UNCHANGED <<frame, task, target>> /\ pc' \in {"prepare", "label"} /\ lookedAt' = news
    BY <2>1 DEF Begin
  <2>4. ShownTrue'
    BY <1>2, <2>3 DEF Look, EInv, ShownTrue, Placed, frame, world
  <2>5. Fit(d)'
    BY <2>2, <2>3, FitKept DEF frame
  <2>6. LookedTrue'
    BY <2>1, <2>2, <2>3, <2>5 DEF LookedTrue, Placed, frame, world
  <2> QED BY <1>0, <2>3, <2>4, <2>6
<1>3. CASE Prepare \/ OpenNode \/ MakeLabel \/ MakeFat \/ MountFat \/ EraseDisk
  <2>1. \E lost, next : Command(lost, next) /\ next \in Placed /\ pc \in Commanding
    BY <1>3 DEF Prepare, OpenNode, MakeLabel, MakeFat, MountFat, EraseDisk, Placed, Commanding
  <2> QED BY <2>1, CommandKeepsEInv
<1>4. ASSUME pc \in Placed, pc' \in Placed, UNCHANGED <<frame, task, target, lookedAt>>
      PROVE  EInv'
  <2>1. ShownTrue'
    BY <1>4 DEF EInv, ShownTrue, Placed, frame, world
  <2>2. LookedTrue'
    BY <1>4 DEF EInv, LookedTrue, Fit, Listed, IsSafeTarget, Placed, frame, world
  <2> QED BY <1>0, <1>4, <2>1, <2>2
<1>5. CASE BeginWriting \/ MountIso \/ Plan
  BY <1>4, <1>5 DEF BeginWriting, MountIso, Plan, Placed, working, lastSeen
<1>6. ASSUME NEW f, CopyFile(f) \/ SplitWim(f) PROVE EInv'
  BY <1>4, <1>6 DEF CopyFile, SplitWim, Placed, copying
<1> QED BY <1>1, <1>2, <1>3, <1>5, <1>6 DEF Helper

LEMMA NextEInv == TInv /\ EInv /\ [Next]_vars => EInv'
<1>1. TInv /\ EInv /\ UNCHANGED vars => EInv'
  BY ListsKept, ShownKept, LookedKept, ArmedKept DEF EInv, vars, tab, choice, helper, history
<1> QED BY <1>1, NewsKeepEInv, TabKeepsEInv, JobKeepsEInv, HelperKeepsEInv DEF Next

\* Only the helper writes, and only where WritesSanctioned looks.
LEMMA HelperSanctioned == TInv /\ EInv /\ Helper => Sanctioned
<1> SUFFICES ASSUME TInv, EInv, Helper PROVE Sanctioned
  OBVIOUS
<1>1. job' = job
  <2>1. UNCHANGED frame
    BY DEF Helper, Fails, Dies, Look, Begin, Prepare, OpenNode, BeginWriting, WriteImage, MakeLabel,
           MakeFat, MountFat, EraseDisk, Command, working, MountIso, MountIsoHalfway, Plan, Finish,
           StopsOnCancel, CopyFile, SplitWim, copying
  <2> QED BY <2>1 DEF frame, tab
<1>2. SUFFICES ASSUME NEW d \in Drives, on'[d] # on[d]
               PROVE  \/ pc \in Commanding /\ d \in DOMAIN plugged /\ plugged[d] = task.id
                      \/ pc \in Putting /\ d = target
  BY <1>1, WritesSanctioned DEF Sanctioned, Fit
<1>3. on \in [Drives -> SUBSET Things]
  BY DEF TInv, TypeOK, WorldOK
<1>4. CASE Prepare \/ OpenNode \/ MakeLabel \/ MakeFat \/ MountFat \/ EraseDisk
  <2>1. PICK lost, next : Command(lost, next) /\ pc \in Commanding
    BY <1>4 DEF Prepare, OpenNode, MakeLabel, MakeFat, MountFat, EraseDisk, Commanding
  <2>2. PICK e \in DOMAIN plugged : plugged[e] = task.id /\ on' = [on EXCEPT ![e] = @ \ lost]
    BY <2>1 DEF Command
  <2>3. d = e
    BY <1>2, <1>3, <2>2
  <2> QED BY <2>1, <2>2, <2>3
<1>5. CASE BeginWriting \/ WriteImage
  BY <1>2, <1>3, <1>5 DEF BeginWriting, WriteImage, Putting
<1>6. ASSUME NEW f, CopyFile(f) \/ SplitWim(f)
      PROVE  pc \in Putting /\ d = target
  <2>1. pc = "copy"
    BY <1>6 DEF CopyFile, SplitWim
  <2>2. on' = on \/ \E x : on' = [on EXCEPT ![target] = x]
    BY <1>6 DEF CopyFile, SplitWim, Write
  <2>3. d = target
    BY <1>2, <1>3, <2>2
  <2> QED BY <2>1, <2>3 DEF Putting
<1>7. CASE Fails \/ Dies \/ Look \/ MountIso \/ MountIsoHalfway \/ Plan \/ Finish \/ StopsOnCancel
  BY <1>2, <1>7 DEF Fails, Dies, Look, Begin, MountIso, MountIsoHalfway, Plan, Finish, StopsOnCancel
<1> QED BY <1>4, <1>5, <1>6, <1>7 DEF Helper

LEMMA OthersSanctioned == TInv /\ EInv /\ [Next]_vars /\ ~Helper => [Sanctioned]_vars
<1> SUFFICES ASSUME TInv, EInv, Next, ~Helper PROVE Sanctioned
  OBVIOUS
<1>1. UNCHANGED on
  BY DEF Next, PlugIn, Unplug, BecomesCritical, News, SetImage, Select, Type, ForceRaw, Refresh,
         ScanEnds, PollScan, Start, StartFails, Press, Cancel, PollVerdict
<1>2. ~job /\ job' => Start
  BY DEF Next, PlugIn, Unplug, BecomesCritical, News, SetImage, Select, Type, ForceRaw, Refresh,
         ScanEnds, PollScan, StartFails, Press, Cancel, PollVerdict, tab
<1>3. Start => ~job /\ confirm # None
  BY ListingIs, ListIs, IdsAssumption
     DEF Start, Press, CanStart, HasSelected, TInv, TypeOK, TabOK
<1>4. ~job /\ job' => armed
  BY <1>2, <1>3 DEF EInv, Armed
<1> QED BY <1>1, <1>4 DEF Sanctioned

\* Whatever drives come and go, and whatever the helper and the tab do in between: a write
\* goes where the typed identifier, the list and the second look say, and no start goes
\* without an identifier typed for it.
THEOREM BootErasesAreSanctioned == Spec => ErasesAreSanctioned
<1>1. TInv /\ EInv /\ [Next]_vars => [Sanctioned]_vars
  BY HelperSanctioned, OthersSanctioned
<1> QED BY <1>1, InitTInv, NextTInv, InitEInv, NextEInv, PTL DEF Spec, ErasesAreSanctioned

-----------------------------------------------------------------------------
(* What is called ready. The drive is empty when the copying begins, unless     *)
(* the commands met different drives; while the helper copies, it has what is   *)
(* neither to do nor to be split, of the files that could be listed, or a file  *)
(* that took its place.                                                         *)

Wanted == task.image.files \ unread

Progressing ==
  /\ pc \in {"prepare", "open", "write", "writing"} => task.mode = "raw"
  /\ pc \in {"label", "format", "mount", "iso", "plan", "copy"} => task.mode # "raw"
  /\ pc = "writing" => on[target] \subseteq {Behind}
  /\ pc = "format" /\ ~swapped => Behind \notin on[target]
  /\ pc \in {"mount", "iso", "plan"} /\ ~swapped => on[target] = {}

OnDrive(S) == \A f \in S : \E g \in Wanted : g.place = f.place /\ Landed(g) \in on[target]

Copying ==
  pc = "copy" =>
    /\ todo \subseteq Wanted /\ toSplit \subseteq Wanted \ todo
    /\ OnDrive(Wanted \ (todo \union toSplit))
    /\ ~swapped => on[target] \subseteq {Landed(f) : f \in Wanted}

RInv == Progressing /\ Copying /\ ReadyMeansComplete

\* Two files never look alike on the drive.
LEMMA LandedInjective ==
  ASSUME NEW f \in Files, NEW g \in Files, Landed(f) = Landed(g)
  PROVE  f = g
<1>1. [pieces |-> f].pieces = f /\ [pieces |-> g].pieces = g
  OBVIOUS
<1>2. [pieces |-> f] \in [pieces : Files] /\ [pieces |-> g] \in [pieces : Files]
  OBVIOUS
<1>3. CASE f.big /\ g.big
  BY <1>1, <1>3 DEF Landed
<1>4. CASE ~f.big /\ ~g.big
  BY <1>4 DEF Landed
<1>5. CASE f.big /\ ~g.big
  BY <1>2, <1>5, FilesAssumption DEF Landed
<1>6. CASE ~f.big /\ g.big
  BY <1>2, <1>6, FilesAssumption DEF Landed
<1> QED BY <1>3, <1>4, <1>5, <1>6

\* A file that is written drives away what has its place, and only that.
LEMMA WriteKeepsOthers ==
  ASSUME Wanted \subseteq Files, on \in [Drives -> SUBSET Things], target \in Drives,
         NEW S, OnDrive(S), NEW f \in Wanted, Write(f),
         UNCHANGED <<task, target, unread>>
  PROVE  OnDrive(S \union {f})'
<1> DEFINE gone == {Landed(g) : g \in {h \in Files : h.place = f.place}}
<1>1. on'[target] = {Landed(f)} \union (on[target] \ gone)
  BY DEF Write
<1>2. Landed(f) \in on'[target'] /\ Wanted' = Wanted
  BY <1>1 DEF Wanted
<1>3. ASSUME NEW h \in S \union {f}
      PROVE  \E g \in Wanted : g.place = h.place /\ Landed(g) \in on'[target']
  <2>1. CASE h.place = f.place
    BY <1>2, <2>1
  <2>2. CASE h.place # f.place
    <3>1. PICK g \in Wanted : g.place = h.place /\ Landed(g) \in on[target]
      BY <1>3, <2>2 DEF OnDrive
    <3>2. Landed(g) \notin gone
      BY <2>2, <3>1, LandedInjective
    <3> QED BY <1>1, <3>1, <3>2
  <2> QED BY <2>1, <2>2
<1>4. \A h : Landed(h)' = Landed(h)
  BY DEF Landed
<1> QED BY <1>2, <1>3, <1>4 DEF OnDrive

LEMMA WriteAddsOne ==
  ASSUME on \in [Drives -> SUBSET Things], target \in Drives, NEW f, Write(f),
         UNCHANGED target
  PROVE  on'[target'] \subseteq on[target] \union {Landed(f)}
  BY DEF Write

LEMMA ProgressKept ==
  RInv /\ UNCHANGED <<on, helper, verdict, unread, swapped>> => RInv'
  BY DEF RInv, Progressing, Copying, OnDrive, Wanted, Landed, ReadyMeansComplete, helper

LEMMA HelperKeepsRInv == TInv /\ RInv /\ Helper => RInv'
<1> SUFFICES ASSUME TInv, RInv, Helper PROVE RInv'
  OBVIOUS
<1>0. on \in [Drives -> SUBSET Things] /\ DOMAIN plugged \subseteq Drives
      /\ (pc \in Placed => target \in Drives) /\ (pc # "off" => verdict = "none")
  BY PluggingIs DEF TInv, TypeOK, WorldOK, HelperOK, TaskOK, Pluggings
<1>a. pc # "off" => Wanted \subseteq Files
  BY DEF TInv, TaskOK, Wanted, Files
<1>1. CASE Fails \/ StopsOnCancel \/ Dies \/ MountIsoHalfway
  BY <1>1 DEF Fails, StopsOnCancel, Dies, MountIsoHalfway, End, RInv, Progressing, Copying,
              ReadyMeansComplete
<1>2. CASE Look
  BY <1>0, <1>2 DEF Look, Begin, RInv, Progressing, Copying, ReadyMeansComplete
<1>3. CASE MountIso
  BY <1>0, <1>3 DEF MountIso, lastSeen, RInv, Progressing, Copying, ReadyMeansComplete
<1>4. ASSUME NEW lost, NEW next, Command(lost, next), pc # "off"
      PROVE  /\ UNCHANGED <<task, verdict, unread>> /\ pc' = next /\ verdict' = "none"
             /\ target' \in Drives
             /\ on'[target'] = on[target'] \ lost /\ on[target'] \subseteq Things
             /\ ~swapped' => ~swapped /\ target \in {None, target'}
  <2>1. PICK d \in DOMAIN plugged : /\ target' = d /\ swapped' = (swapped \/ target \notin {None, d})
                                    /\ on' = [on EXCEPT ![d] = @ \ lost]
    BY <1>4 DEF Command
  <2>2. UNCHANGED <<task, verdict, unread>> /\ pc' = next
    BY <1>4 DEF Command, working
  <2>3. on'[d] = on[d] \ lost /\ on[d] \subseteq Things /\ d \in Drives
    BY <1>0, <2>1
  <2> QED BY <1>0, <1>4, <2>1, <2>2, <2>3
<1>5. CASE Prepare \/ OpenNode
  <2>1. \E lost, next : Command(lost, next) /\ next \in {"open", "write"} /\ pc \in {"prepare", "open"}
    BY <1>5 DEF Prepare, OpenNode
  <2> QED BY <1>4, <2>1 DEF RInv, Progressing, Copying, ReadyMeansComplete
<1>6. CASE MakeLabel
  BY <1>4, <1>6 DEF MakeLabel, RInv, Progressing, Copying, ReadyMeansComplete
<1>7. CASE MakeFat
  <2>1. Command(Things \ {Behind}, "mount") /\ pc = "format" /\ target # None
    BY <1>0, <1>7, IdsAssumption DEF MakeFat, Placed
  <2>2. ~swapped' => on'[target'] = {}
    BY <1>4, <2>1 DEF RInv, Progressing
  <2> QED BY <1>4, <2>1, <2>2 DEF RInv, Progressing, Copying, ReadyMeansComplete
<1>8. CASE MountFat
  <2>1. Command({}, "iso") /\ pc = "mount" /\ target # None
    BY <1>0, <1>8, IdsAssumption DEF MountFat, Placed
  <2>2. ~swapped' => on'[target'] = {}
    BY <1>4, <2>1 DEF RInv, Progressing
  <2> QED BY <1>4, <2>1, <2>2 DEF RInv, Progressing, Copying, ReadyMeansComplete
<1>9. CASE EraseDisk
  <2>1. PICK next \in {"mount", "iso"} : Command(Things, next) /\ pc = "label"
    BY <1>9 DEF EraseDisk
  <2>2. on'[target'] = {}
    BY <1>4, <2>1
  <2> QED BY <1>4, <2>1, <2>2 DEF RInv, Progressing, Copying, ReadyMeansComplete
<1>10. CASE BeginWriting
  <2>1. on'[target] \subseteq {Behind}
    BY <1>0, <1>10 DEF BeginWriting, Placed
  <2> QED BY <1>0, <1>10, <2>1
          DEF BeginWriting, working, RInv, Progressing, Copying, ReadyMeansComplete
<1>11. CASE WriteImage
  <2>1. task.image \in on'[target] /\ on'[target] \subseteq {task.image, Behind}
    BY <1>0, <1>11 DEF WriteImage, Placed, RInv, Progressing
  <2> QED BY <1>11, <2>1
          DEF WriteImage, End, lastSeen, RInv, Progressing, Copying, ReadyMeansComplete
<1>12. CASE Plan
  <2>1. PICK S \in SUBSET task.image.files : todo' = S /\ unread' = task.image.files \ S
    BY <1>12 DEF Plan
  <2>2. /\ UNCHANGED <<on, target, task, verdict, swapped>> /\ toSplit' = {}
        /\ pc = "plan" /\ pc' = "copy"
    BY <1>12 DEF Plan
  <2>3. Wanted' = todo'
    BY <2>1, <2>2 DEF Wanted
  <2>4. Copying'
    BY <2>2, <2>3 DEF Copying, OnDrive, RInv, Progressing
  <2> QED BY <1>0, <2>2, <2>4 DEF RInv, Progressing, ReadyMeansComplete
<1>13. ASSUME pc = "copy", pc' = "copy", Copying', UNCHANGED <<task, verdict>> PROVE RInv'
  BY <1>0, <1>13 DEF RInv, Progressing, ReadyMeansComplete
\* A file is written.
<1>14. ASSUME NEW f \in Wanted, pc = "copy", Write(f), UNCHANGED <<copying>>,
              f \in todo \union toSplit,
              todo' = todo \ {f}, toSplit' = toSplit \ {f}
       PROVE  RInv'
  <2>1. UNCHANGED <<pc, task, target, verdict, unread, swapped>> /\ Wanted' = Wanted
    BY <1>14 DEF copying, Wanted
  <2>2. target \in Drives /\ Wanted \subseteq Files /\ Copying
    BY <1>0, <1>a, <1>14 DEF Placed, RInv
  <2>3. OnDrive((Wanted \ (todo \union toSplit)) \union {f})'
    BY <1>0, <1>14, <2>1, <2>2, WriteKeepsOthers DEF Copying
  <2>4. Wanted' \ (todo' \union toSplit') \subseteq (Wanted \ (todo \union toSplit)) \union {f}
    BY <1>14, <2>1
  <2>5. OnDrive(Wanted \ (todo \union toSplit))'
    BY <2>1, <2>3, <1>14 DEF OnDrive
  <2>6. todo' \subseteq Wanted' /\ toSplit' \subseteq Wanted' \ todo'
    BY <1>14, <2>1, <2>2 DEF Copying
  <2>7. ~swapped' => on'[target'] \subseteq {Landed(g) : g \in Wanted}
    BY <1>0, <1>14, <2>1, <2>2, WriteAddsOne DEF Copying
  <2>8. Copying'
    BY <2>1, <2>5, <2>6, <2>7 DEF Copying, Landed
  <2> QED BY <1>13, <1>14, <2>1, <2>8
<1>15. ASSUME NEW f \in todo, CopyFile(f) PROVE RInv'
  <2>1. /\ pc = "copy" /\ todo' = todo \ {f} /\ UNCHANGED copying /\ f \in Wanted
    BY <1>15 DEF CopyFile, RInv, Copying
  <2>2. CASE f.big
    <3>1. toSplit' = toSplit \union {f} /\ UNCHANGED on
      BY <1>15, <2>2 DEF CopyFile
    <3>2. todo' \union toSplit' = todo \union toSplit
      BY <2>1, <3>1
    <3>3. UNCHANGED <<pc, task, target, verdict, unread, swapped>>
      BY <2>1 DEF copying
    <3>4. todo' \subseteq Wanted' /\ toSplit' \subseteq Wanted' \ todo' /\ Wanted' = Wanted
      BY <2>1, <3>1, <3>3 DEF RInv, Copying, Wanted
    <3>5. Copying'
      BY <2>1, <3>1, <3>2, <3>3, <3>4 DEF RInv, Copying, OnDrive, Landed
    <3> QED BY <1>13, <2>1, <3>3, <3>5
  <2>3. CASE ~f.big
    <3>1. toSplit' = toSplit /\ Write(f)
      BY <1>15, <2>3 DEF CopyFile
    <3>2. toSplit' = toSplit \ {f}
      BY <1>15, <2>1, <3>1 DEF RInv, Copying
    <3> QED BY <1>14, <1>15, <2>1, <3>1, <3>2
  <2> QED BY <2>2, <2>3
<1>16. ASSUME NEW f \in toSplit, SplitWim(f) PROVE RInv'
  <2>1. /\ pc = "copy" /\ todo = {} /\ todo' = todo /\ toSplit' = toSplit \ {f}
        /\ UNCHANGED copying /\ f \in Wanted /\ Write(f)
    BY <1>16 DEF SplitWim, RInv, Copying
  <2> QED BY <1>14, <1>16, <2>1
<1>17. CASE Finish
  <2>1. pc = "copy" /\ todo = {} /\ toSplit = {} /\ pc' = "off"
        /\ UNCHANGED <<on, target, task, unread, swapped>>
    BY <1>17 DEF Finish, End, lastSeen
  <2>2. OnDrive(Wanted) /\ (~swapped => on[target] \subseteq {Landed(f) : f \in Wanted})
    BY <2>1 DEF RInv, Copying
  <2>3. ReadyMeansComplete'
    BY <2>1, <2>2 DEF ReadyMeansComplete, OnDrive, Wanted, Landed, RInv, Progressing
  <2> QED BY <2>1, <2>3 DEF RInv, Progressing, Copying
<1> QED BY <1>1, <1>2, <1>3, <1>5, <1>6, <1>7, <1>8, <1>9, <1>10, <1>11, <1>12, <1>15, <1>16, <1>17
        DEF Helper

LEMMA NextRInv == TInv /\ RInv /\ [Next]_vars => RInv'
<1> SUFFICES ASSUME TInv, RInv, [Next]_vars PROVE RInv'
  OBVIOUS
<1>1. ASSUME NEW d \in Drives, PlugIn(d) \/ Unplug(d) \/ BecomesCritical(d) PROVE RInv'
  BY <1>1, ProgressKept DEF PlugIn, Unplug, BecomesCritical, News, history
<1>2. ASSUME NEW i \in Images, SetImage(i) PROVE RInv'
  BY <1>2, ProgressKept DEF SetImage, history
<1>3. ASSUME NEW i \in Ids, Select(i) \/ Type(i) PROVE RInv'
  BY <1>3, ProgressKept DEF Select, Type, history
<1>4. CASE ForceRaw \/ Refresh \/ ScanEnds \/ PollScan \/ Cancel
  BY <1>4, ProgressKept DEF ForceRaw, Refresh, ScanEnds, PollScan, Cancel, history
<1>5. CASE StartFails
  BY <1>5, ProgressKept DEF StartFails, Press, helper
<1>6. CASE Start
  <2>1. pc' = "look" /\ verdict' = "none"
    BY <1>6 DEF Start, Press, CanStart, TInv, TypeOK, HelperOK
  <2> QED BY <2>1 DEF RInv, Progressing, Copying, ReadyMeansComplete
<1>7. CASE PollVerdict
  <2>1. pc' = "off" /\ verdict' = "none"
    BY <1>7 DEF PollVerdict, TInv, TypeOK, HelperOK
  <2> QED BY <2>1 DEF RInv, Progressing, Copying, ReadyMeansComplete
<1>8. CASE UNCHANGED vars
  BY <1>8, ProgressKept DEF vars, helper, history
<1> QED BY <1>1, <1>2, <1>3, <1>4, <1>5, <1>6, <1>7, <1>8, HelperKeepsRInv DEF Next

\* A drive that is called ready has the image, with nothing but what was behind it, or
\* every file of the ISO that could be listed or one that took its place, whatever failed,
\* was cancelled or was on it before; and nothing else if the commands met one drive.
THEOREM BootReadyMeansComplete == Spec => []ReadyMeansComplete
<1>1. Init => RInv
  BY DEF Init, RInv, Progressing, Copying, ReadyMeansComplete
<1>2. RInv => ReadyMeansComplete
  BY DEF RInv
<1> QED BY <1>1, <1>2, InitTInv, NextTInv, NextRInv, PTL DEF Spec
=============================================================================
