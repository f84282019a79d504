---------------------------- MODULE FlashHelper ----------------------------
(***************************************************************************)
(* Writing a bootable drive (bootable/helper.rs, write.rs, and poll of     *)
(* boot_tab.rs): the elevated helper process with flash_raw and the thread *)
(* that watches the cancel file, the monitor thread of spawn_flash that    *)
(* tails the helper's progress file, and the tab.                          *)
(*                                                                         *)
(* The helper appends one event per line with two writes, the text and the *)
(* newline, so the monitor may read half a line, and a killed helper may   *)
(* leave one. The drive is modelled byte by byte at toy sizes: a byte is   *)
(* what was there before, a byte of the image, padding, or what a faulty   *)
(* stick made of a byte.                                                   *)
(***************************************************************************)
EXTENDS Naturals, Selection

CONSTANTS
  Sector,      \* SECTOR: raw devices take whole sectors
  Chunk,       \* CHUNK: bytes written at once
  DeviceSize,  \* size of the drive in bytes
  ImageSizes,  \* sizes of the images that may be chosen
  Faulty       \* whether the stick may store something else than what is written

ASSUME FlashConstants ==
  /\ Sector \in Nat \ {0} /\ Chunk \in Nat \ {0} /\ Chunk % Sector = 0
  /\ DeviceSize \in Nat /\ DeviceSize % Sector = 0
  /\ ImageSizes \subseteq Nat
  /\ Faulty \in BOOLEAN

VARIABLES
  gui,      \* the tab: "idle", "running", a verdict, or "gone" (the app was closed)
  chan,     \* events on the way to the tab
  sent,     \* history: all events the monitor has sent
  token,    \* the CancelToken of the job, set by the tab
  mpc,      \* the monitor thread
  offset,   \* ProgressReader.offset
  partial,  \* ProgressReader.partial
  sawEnd,   \* saw_terminal
  dir,      \* what the job directory has: "none", "job", or "cancel" (the cancel file too)
  exit,     \* what launch_helper returned, "none" before
  hpc,      \* the helper process
  hcancel,  \* its CancelToken, set by watch_cancel_file
  file,     \* the progress file: texts and newlines
  image,    \* size of the image
  verify,   \* FlashJob.verify
  done,     \* bytes written, or compared, in the present pass
  drive     \* [0..DeviceSize-1 -> "old", "image", "zero", "bad"]

monitorVars == <<mpc, offset, partial, sawEnd>>
helperVars  == <<hpc, hcancel, file, done, drive>>
guiVars     == <<gui, chan, token>>
vars == <<guiVars, sent, monitorVars, dir, exit, helperVars, image, verify>>

NL == "newline"
Terminal == {"Finished", "Failed", "Cancelled"}
Events == {"Phase"} \union Terminal
Verdicts == {"success", "failed", "cancelled"}

\* n.div_ceil(SECTOR) * SECTOR
RoundUp(n) == ((n + Sector - 1) \div Sector) * Sector

Smaller(a, b) == IF a < b THEN a ELSE b

\* Bytes the present turn of the loop handles.
Want == Smaller(image - done, Chunk)

Init ==
  /\ gui = "idle" /\ chan = <<>> /\ sent = <<>> /\ token = FALSE
  /\ mpc = "off" /\ offset = 0 /\ partial = <<>> /\ sawEnd = FALSE
  /\ dir = "none" /\ exit = "none"
  /\ hpc = "off" /\ hcancel = FALSE /\ file = <<>> /\ done = 0
  /\ image \in ImageSizes /\ verify \in BOOLEAN
  /\ drive = [k \in 0..(DeviceSize - 1) |-> "old"]

-----------------------------------------------------------------------------
(* The tab.                                                                *)

\* start, spawn_flash: the job directory is made, monitor and launcher start.
Start ==
  /\ gui = "idle"
  /\ gui' = "running" /\ mpc' = "poll" /\ hpc' = "prompt" /\ dir' = "job"
  /\ UNCHANGED <<chan, sent, token, offset, partial, sawEnd, exit, hcancel, file, done,
                 drive,
                 image, verify>>

Cancel ==
  /\ gui = "running" /\ ~token
  /\ token' = TRUE
  /\ UNCHANGED <<gui, chan, sent, monitorVars, dir, exit, helperVars, image, verify>>

\* The tab takes one event after the other; a terminal one ends the job.
TabPolls ==
  /\ gui = "running" /\ chan # <<>>
  /\ chan' = Tail(chan)
  /\ gui' = CASE Head(chan) = "Finished"  -> "success"
              [] Head(chan) = "Failed"    -> "failed"
              [] Head(chan) = "Cancelled" -> "cancelled"
              [] OTHER                    -> gui
  /\ UNCHANGED <<token, sent, monitorVars, dir, exit, helperVars, image, verify>>

\* The app is closed: the monitor thread dies with it, the helper does not.
Quit ==
  /\ gui # "gone" /\ mpc # "off"
  /\ gui' = "gone" /\ mpc' = "dead"
  /\ UNCHANGED <<chan, token, sent, offset, partial, sawEnd, dir, exit, helperVars,
                 image,
                 verify>>

-----------------------------------------------------------------------------
(* The monitor thread of spawn_flash_with.                                 *)

Fresh == partial \o SubSeq(file, offset + 1, Len(file))

\* The complete lines of a text, and the half line at its end.
HalfLine(t) == IF t # <<>> /\ t[Len(t)] # NL THEN <<t[Len(t)]>> ELSE <<>>
Lines(t) == Only(SubSeq(t, 1, Len(t) - Len(HalfLine(t))), Events)

\* ProgressReader::poll, its events forwarded to the tab; then on to l.
Poll(l) ==
  LET events == Lines(Fresh) IN
    /\ offset' = Len(file)
    /\ partial' = HalfLine(Fresh)
    /\ chan' = chan \o events
    /\ sent' = sent \o events
    /\ sawEnd' = (sawEnd \/ \E i \in 1..Len(events) : events[i] \in Terminal)
    /\ mpc' = l

MonitorPolls ==
  /\ mpc = "poll"
  /\ Poll("cancel")
  /\ UNCHANGED <<gui, token, dir, exit, helperVars, image, verify>>

\* The token is passed on as a file; when that fails it is tried again next time.
MonitorCancels ==
  /\ mpc = "cancel"
  /\ \/ dir' = IF token THEN "cancel" ELSE dir
     \/ UNCHANGED dir
  /\ mpc' = "wait"
  /\ UNCHANGED <<guiVars, sent, offset, partial, sawEnd, exit, helperVars, image,
                 verify>>

\* Mutation: a cancelled job is not waited for.
MonitorWaitsNot ==
  /\ mpc = "wait"
  /\ mpc' = IF exit = "none" /\ dir # "cancel" THEN "poll" ELSE "final"
  /\ UNCHANGED <<guiVars, sent, offset, partial, sawEnd, dir, exit, helperVars, image,
                 verify>>

\* done_rx.recv_timeout: go round again until the helper is gone.
MonitorWaits ==
  /\ mpc = "wait"
  /\ mpc' = IF exit = "none" THEN "poll" ELSE "final"
  /\ UNCHANGED <<guiVars, sent, offset, partial, sawEnd, dir, exit, helperVars, image,
                 verify>>

\* What the helper wrote between the last poll and its end.
LastPoll ==
  /\ mpc = "final"
  /\ Poll("report")
  /\ UNCHANGED <<gui, token, dir, exit, helperVars, image, verify>>

\* Mutations: the failure is reported always; never.
ReportAlways ==
  /\ mpc = "report"
  /\ chan' = Append(chan, "Failed") /\ sent' = Append(sent, "Failed")
  /\ mpc' = "done"
  /\ dir' = "none"
  /\ UNCHANGED <<gui, token, offset, partial, sawEnd, exit, helperVars, image, verify>>

ReportNever ==
  /\ mpc = "report"
  /\ mpc' = "done"
  /\ dir' = "none"
  /\ UNCHANGED <<guiVars, sent, offset, partial, sawEnd, exit, helperVars, image,
                 verify>>

\* A helper that ended without a final event is reported as Failed; the directory goes.
Report ==
  /\ mpc = "report"
  /\ LET missing == IF sawEnd THEN <<>> ELSE <<"Failed">> IN
       chan' = chan \o missing /\ sent' = sent \o missing
  /\ mpc' = "done"
  /\ dir' = "none"
  /\ UNCHANGED <<gui, token, offset, partial, sawEnd, exit, helperVars, image, verify>>

-----------------------------------------------------------------------------
(* launch_helper, run_helper and flash_raw.                                *)

\* The user grants administrator rights, or does not.
Prompt ==
  /\ hpc = "prompt"
  /\ \/ hpc' = "check" /\ UNCHANGED exit
     \/ hpc' = "off" /\ exit' = "denied"
  /\ UNCHANGED <<guiVars, sent, monitorVars, dir, hcancel, file, done, drive, image,
                 verify>>

\* watch_cancel_file.
WatchCancel ==
  /\ hpc \notin {"off", "prompt"} /\ dir = "cancel" /\ ~hcancel
  /\ hcancel' = TRUE
  /\ UNCHANGED <<guiVars, sent, monitorVars, dir, exit, hpc, file, done, drive, image,
                 verify>>

HalfWritten == file # <<>> /\ file[Len(file)] # NL

\* emit: the text of an event; the newline follows before anything else. Errors of the
\* writes are ignored: the event is lost (so are both that a lost newline runs together).
Emit(ev) == file' = Append(file, ev) \/ UNCHANGED file

\* The second write of emit; after a terminal event the process ends.
EndLine ==
  /\ HalfWritten /\ hpc # "off"
  /\ file' = Append(file, NL)
  /\ UNCHANGED <<guiVars, sent, monitorVars, dir, exit, hpc, hcancel, done, drive,
                 image, verify>>

HelperAt(l) == hpc = l /\ ~HalfWritten

\* The job file is unreadable, the progress file cannot be opened: exit code 3.
BadJob ==
  /\ hpc = "check" /\ file = <<>>
  /\ hpc' = "off" /\ exit' = "code"
  /\ UNCHANGED <<guiVars, sent, monitorVars, dir, hcancel, file, done, drive, image,
                 verify>>

\* The drive is looked up again, and the image has to fit when it is padded. The
\* volumes are unmounted, the device is opened, and writing starts.
CheckTarget ==
  /\ HelperAt("check")
  /\ IF RoundUp(image) <= DeviceSize
       THEN Emit("Phase") /\ hpc' = "write"
       ELSE Emit("Failed") /\ hpc' = "exit"
  /\ UNCHANGED <<guiVars, sent, monitorVars, dir, exit, hcancel, done, drive, image,
                 verify>>

\* Bytes from until to on the drive become what was written, a faulty stick's aside.
Write(from, data, to) ==
  \E bad \in {{}} \union IF Faulty THEN {{from}} ELSE {} :
    drive' = [k \in DOMAIN drive |->
      IF k \in bad THEN "bad" ELSE IF k < from \/ k >= to THEN drive[k]
      ELSE IF k < data THEN "image" ELSE "zero"]

\* write_stream: one chunk, the last one padded to a whole sector.
WriteChunk ==
  /\ HelperAt("write") /\ ~hcancel /\ done < image
  /\ Write(done, done + Want, done + RoundUp(Want))
  /\ done' = done + Want
  /\ UNCHANGED <<guiVars, sent, monitorVars, dir, exit, hpc, hcancel, file, image,
                 verify>>

\* All is written: flush, and compare if asked to.
EndWrite ==
  /\ HelperAt("write") /\ done >= image
  /\ done' = 0
  /\ IF verify THEN Emit("Phase") /\ hpc' = "verify" ELSE hpc' = "finish" /\ UNCHANGED file
  /\ UNCHANGED <<guiVars, sent, monitorVars, dir, exit, hcancel, drive, image, verify>>

\* Mutation: the last chunk is not compared.
VerifyChunkButLast ==
  /\ HelperAt("verify") /\ ~hcancel /\ done < image
  /\ IF done + Want >= image \/ \A k \in done..(done + Want - 1) : drive[k] = "image"
       THEN done' = done + Want /\ UNCHANGED <<hpc, file>>
       ELSE Emit("Failed") /\ hpc' = "exit" /\ UNCHANGED done
  /\ UNCHANGED <<guiVars, sent, monitorVars, dir, exit, hcancel, drive, image, verify>>

\* verify_stream: one chunk is read back and compared.
VerifyChunk ==
  /\ HelperAt("verify") /\ ~hcancel /\ done < image
  /\ IF \A k \in done..(done + Want - 1) : drive[k] = "image"
       THEN done' = done + Want /\ UNCHANGED <<hpc, file>>
       ELSE Emit("Failed") /\ hpc' = "exit" /\ UNCHANGED done
  /\ UNCHANGED <<guiVars, sent, monitorVars, dir, exit, hcancel, drive, image, verify>>

EndVerify ==
  /\ HelperAt("verify") /\ done >= image
  /\ hpc' = "finish"
  /\ UNCHANGED <<guiVars, sent, monitorVars, dir, exit, hcancel, file, done, drive,
                 image,
                 verify>>

\* The token, looked at before each chunk of both passes.
StopOnCancel ==
  /\ HelperAt("write") \/ HelperAt("verify")
  /\ hcancel /\ done < image
  /\ Emit("Cancelled") /\ hpc' = "exit"
  /\ UNCHANGED <<guiVars, sent, monitorVars, dir, exit, hcancel, done, drive, image,
                 verify>>

\* flash_raw returned Ok.
EmitFinished ==
  /\ HelperAt("finish")
  /\ Emit("Finished") /\ hpc' = "exit"
  /\ UNCHANGED <<guiVars, sent, monitorVars, dir, exit, hcancel, done, drive, image,
                 verify>>

\* An I/O error, a refused or vanished target: run_helper emits Failed.
HelperFails ==
  /\ HelperAt("check") \/ HelperAt("write") \/ HelperAt("verify")
  /\ Emit("Failed") /\ hpc' = "exit"
  /\ UNCHANGED <<guiVars, sent, monitorVars, dir, exit, hcancel, done, drive, image,
                 verify>>

\* The process ends, and launch_helper returns its exit code.
Exit ==
  /\ HelperAt("exit")
  /\ hpc' = "off" /\ exit' = "code"
  /\ UNCHANGED <<guiVars, sent, monitorVars, dir, hcancel, file, done, drive, image,
                 verify>>

\* The helper is killed, possibly in the middle of a line.
HelperDies ==
  /\ hpc \notin {"off", "prompt"}
  /\ hpc' = "off" /\ exit' = "code"
  /\ UNCHANGED <<guiVars, sent, monitorVars, dir, hcancel, file, done, drive, image,
                 verify>>

-----------------------------------------------------------------------------

Helper ==
  \/ Prompt \/ WatchCancel \/ EndLine \/ CheckTarget \/ WriteChunk \/ EndWrite \/ VerifyChunk
  \/ EndVerify \/ StopOnCancel \/ EmitFinished \/ Exit

Monitor == MonitorPolls \/ MonitorCancels \/ MonitorWaits \/ LastPoll \/ Report

Next ==
  \/ Start \/ Cancel \/ TabPolls \/ Quit
  \/ Monitor
  \/ Helper \/ BadJob \/ HelperFails \/ HelperDies

Spec == Init /\ [][Next]_vars

\* The processes are scheduled, the user answers the prompt, the tab is drawn.
FairSpec == Spec /\ WF_vars(Helper) /\ WF_vars(Monitor) /\ WF_vars(TabPolls)

-----------------------------------------------------------------------------
(* Properties.                                                             *)

\* Every variable has values of its kind: the monitor never reads past the end of the
\* progress file, and the helper never counts more bytes than the image has.
TypeOK ==
  /\ gui \in {"idle", "running", "gone"} \union Verdicts
  /\ chan \in Seq(Events) /\ sent \in Seq(Events)
  /\ mpc \in {"off", "poll", "cancel", "wait", "final", "report", "done", "dead"}
  /\ offset \in 0..Len(file) /\ Len(partial) <= 1 /\ sawEnd \in BOOLEAN
  /\ dir \in {"none", "job", "cancel"} /\ exit \in {"none", "code", "denied"}
  /\ hpc \in {"off", "prompt", "check", "write", "verify", "finish", "exit"}
  /\ file \in Seq(Events \union {NL})
  /\ done \in 0..image
  /\ drive \in [0..(DeviceSize - 1) -> {"old", "image", "zero", "bad"}]

\* The tab is sent at most one final event, and nothing after it, whether the helper
\* reports one, loses it, dies over it, or never runs (spawn_flash_with).
OneVerdict == \A i \in 1..Len(sent) : sent[i] \in Terminal => i = Len(sent)

\* When the tab says the drive is ready, the whole image is on it: because it was
\* compared, or, without verification, on a stick that stores what it is given.  And
\* whatever the end, nothing behind the image's last sector is touched (the padding of
\* write_stream, the size check of flash_raw).
SuccessIsWritten ==
  /\ gui = "success" /\ (verify \/ ~Faulty) => \A k \in 0..(image - 1) : drive[k] = "image"
  /\ \A k \in DOMAIN drive : k >= RoundUp(image) => drive[k] = "old"

\* Once the tab shows a verdict, the drive is written no more: it may be unplugged.
QuietAfterVerdict == [][(gui \in Verdicts) => (drive' = drive)]_vars

\* Every job gets a verdict, unless the app is closed.
FlashEnds == gui = "running" ~> gui # "running"
=============================================================================
