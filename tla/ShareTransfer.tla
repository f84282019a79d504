--------------------------- MODULE ShareTransfer ---------------------------
(***************************************************************************)
(* Sharing files on the local network: send_files on the sending machines, *)
(* run_receiver and handle_incoming on the receiving one (share.rs of the  *)
(* engine), and the receiving half of the Share tab (share_tab.rs).        *)
(*                                                                         *)
(* An offer is one connection: its manifest, the one-byte answer, and then *)
(* the bytes of its files back to back. The receiving machine may switch   *)
(* Discoverable off and on, which starts another receiver thread while the *)
(* previous one may still be busy with a connection.                       *)
(*                                                                         *)
(* A chunk on the wire or on disk is known by the file it was read from,   *)
(* <<offer, index>>. Files may change between the listing of the manifest  *)
(* and the moment they are opened.                                         *)
(***************************************************************************)
EXTENDS Naturals, Sequences

CONSTANTS
  Offers,     \* the transfers other machines attempt, one connection each
  Nobody,     \* no offer; no receiver
  Receivers,  \* receiver threads: how often Discoverable can be switched on
  Names,      \* relative paths that occur in manifests
  Paths,      \* paths below the destination folder
  NoPath,     \* what sanitize_relative_path refuses
  SafePath,   \* [Names -> Paths or NoPath]
  Manifest,   \* [Offers -> Seq([name : Names, size : Nat])]
  Drift,      \* [Offers -> by how much a file may have grown or shrunk since it was listed]
  NoFile,     \* what is at a path where no file is
  Window      \* bound: chunks the socket buffers hold

ASSUME ShareConstants ==
  /\ Nobody \notin Offers \union Receivers
  /\ NoPath \notin Paths
  /\ SafePath \in [Names -> Paths \union {NoPath}]
  /\ Manifest \in [Offers -> Seq([name : Names, size : Nat])]
  /\ Drift \in [Offers -> SUBSET Nat]
  /\ NoFile \notin Seq(Offers \X Nat)
  /\ Window \in Nat \ {0}

VARIABLES
  spc,       \* [Offers -> where send_files is]
  sfile,     \* [Offers -> index of the file it sends]
  spos,      \* [Offers -> chunks of that file sent]
  slen,      \* [Offers -> chunks that file has, now that it is open]
  conn,      \* [Offers -> the receiver's end of the connection]
  up,        \* [Offers -> chunks sent and not read]
  reply,     \* [Offers -> the answer byte: "none", "yes", "no"]
  rpc,       \* [Receivers -> where run_receiver is]
  rcancel,   \* [Receivers -> its CancelToken]
  port,      \* the receiver that has TRANSFER_PORT
  cur,       \* the offer it handles
  answer,    \* what the UI sent on the respond channel of cur
  rfile,     \* index of the file it receives
  left,      \* remaining: chunks of that file still to come
  job,       \* ShareTab.receiver: the thread the tab listens to
  inbox,     \* IncomingRequest events the tab has not polled
  pending,   \* ShareTab.pending_request
  disk,      \* [Paths -> chunks or NoFile], the destination folder
  sent,      \* history: offers of which file contents were sent
  accepted,  \* history: offers the user's Accept went to
  delivered, \* history: offers reported as Finished by the receiver
  drifted    \* history: offers with a file that changed its length

sendVars == <<spc, sfile, spos, slen>>
wireVars == <<conn, up, reply>>
recvVars == <<rpc, rcancel, port, cur, answer, rfile, left>>
tabVars  == <<job, inbox, pending>>
histVars == <<sent, accepted, delivered, drifted>>
vars     == <<sendVars, wireVars, recvVars, tabVars, disk, histVars>>

Count(o)   == Len(Manifest[o])
Size(o, i) == Manifest[o][i].size
Dest(o, i) == SafePath[Manifest[o][i].name]

\* The sender's end of the connection is open.
SenderOpen(o) == spc[o] \in {"waiting", "next", "send"}

Init ==
  /\ spc = [o \in Offers |-> "idle"]
  /\ sfile = [o \in Offers |-> 1] /\ spos = [o \in Offers |-> 0]
  /\ slen = [o \in Offers |-> 0]
  /\ conn = [o \in Offers |-> "none"]
  /\ up = [o \in Offers |-> <<>>] /\ reply = [o \in Offers |-> "none"]
  /\ rpc = [r \in Receivers |-> "off"] /\ rcancel = [r \in Receivers |-> FALSE]
  /\ port = Nobody /\ cur = Nobody /\ answer = "none" /\ rfile = 1 /\ left = 0
  /\ job = Nobody /\ inbox = <<>> /\ pending = Nobody
  /\ disk = [p \in Paths |-> NoFile]
  /\ sent = {} /\ accepted = {} /\ delivered = {} /\ drifted = {}

-----------------------------------------------------------------------------
(* send_files.                                                             *)

\* send_files returns, with result l; its stream is closed.
SendEnds(o, l) ==
  /\ spc' = [spc EXCEPT ![o] = l]
  /\ sfile' = [sfile EXCEPT ![o] = 1]
  /\ spos' = [spos EXCEPT ![o] = 0]
  /\ slen' = [slen EXCEPT ![o] = 0]

\* TcpStream::connect: the kernel completes it as long as somebody listens; the
\* manifest is written at once.
Connect(o) ==
  /\ spc[o] = "idle"
  /\ IF port = Nobody
       THEN spc' = [spc EXCEPT ![o] = "failed"] /\ UNCHANGED conn
       ELSE /\ spc' = [spc EXCEPT ![o] = "waiting"]
            /\ conn' = [conn EXCEPT ![o] = "backlog"]
  /\ UNCHANGED <<sfile, spos, slen, up, reply, recvVars, tabVars, disk, histVars>>

\* Mutation: any answer is taken for a yes.
ReadReplyBlindly(o) ==
  /\ spc[o] = "waiting" /\ reply[o] # "none"
  /\ spc' = [spc EXCEPT ![o] = "next"]
  /\ UNCHANGED <<sfile, spos, slen, wireVars, recvVars, tabVars, disk, histVars>>

\* The answer byte arrives: go on, or report Rejected.
ReadReply(o) ==
  /\ spc[o] = "waiting" /\ reply[o] # "none"
  /\ IF reply[o] = "yes"
       THEN spc' = [spc EXCEPT ![o] = "next"] /\ UNCHANGED <<sfile, spos, slen>>
       ELSE SendEnds(o, "rejected")
  /\ UNCHANGED <<wireVars, recvVars, tabVars, disk, histVars>>

\* read_exact fails: the other side closed without an answer.
ReplyLost(o) ==
  /\ spc[o] = "waiting" /\ reply[o] = "none" /\ conn[o] = "closed"
  /\ SendEnds(o, "failed")
  /\ UNCHANGED <<wireVars, recvVars, tabVars, disk, histVars>>

\* The next file of the list is opened.
OpenNext(o) ==
  /\ spc[o] = "next" /\ sfile[o] <= Count(o)
  /\ LET listed == Size(o, sfile[o]) IN
       \E n \in UNION {{listed + d, IF d <= listed THEN listed - d ELSE 0} : d \in Drift[o]} :
         /\ slen' = [slen EXCEPT ![o] = n]
         /\ drifted' = IF n = listed THEN drifted ELSE drifted \union {o}
  /\ spos' = [spos EXCEPT ![o] = 0]
  /\ spc' = [spc EXCEPT ![o] = "send"]
  /\ UNCHANGED <<sfile, wireVars, recvVars, tabVars, disk, sent, accepted, delivered>>

\* Every file has been read to its end: Finished.
SendFinished(o) ==
  /\ spc[o] = "next" /\ sfile[o] > Count(o)
  /\ SendEnds(o, "finished")
  /\ UNCHANGED <<wireVars, recvVars, tabVars, disk, histVars>>

\* One turn of the inner loop: token, read, write_all. A write to a connection the
\* other end has closed may still succeed; the chunk is lost.
SendChunk(o) ==
  /\ spc[o] = "send" /\ spos[o] < slen[o] /\ Len(up[o]) < Window
  /\ up' = IF conn[o] = "closed" THEN up
                                 ELSE [up EXCEPT ![o] = Append(@, <<o, sfile[o]>>)]
  /\ spos' = [spos EXCEPT ![o] = @ + 1]
  /\ sent' = sent \union {o}
  /\ UNCHANGED <<spc, sfile, slen, conn, reply, recvVars, tabVars, disk,
                 accepted, delivered, drifted>>

\* read returns 0.
EndOfFile(o) ==
  /\ spc[o] = "send" /\ spos[o] = slen[o]
  /\ spc' = [spc EXCEPT ![o] = "next"]
  /\ sfile' = [sfile EXCEPT ![o] = @ + 1]
  /\ UNCHANGED <<spos, slen, wireVars, recvVars, tabVars, disk, histVars>>

\* write_all finds the other end closed.
WriteFails(o) ==
  /\ spc[o] = "send" /\ conn[o] = "closed" /\ spos[o] < slen[o]
  /\ SendEnds(o, "failed")
  /\ UNCHANGED <<wireVars, recvVars, tabVars, disk, histVars>>

\* A file that cannot be opened or read, a connection that breaks, the token that
\* Cancel set, a killed program: send_files ends with an Err, which the worker drops.
SenderFails(o) ==
  /\ SenderOpen(o)
  /\ SendEnds(o, "failed")
  /\ UNCHANGED <<wireVars, recvVars, tabVars, disk, histVars>>

-----------------------------------------------------------------------------
(* run_receiver.                                                           *)

Goto(r, l) == rpc' = [rpc EXCEPT ![r] = l]

\* TcpListener::bind: a thread that finds the port taken returns silently.
Bind(r) ==
  /\ rpc[r] = "bind"
  /\ IF port = Nobody THEN port' = r /\ Goto(r, "loop") ELSE Goto(r, "stopped") /\ UNCHANGED port
  /\ UNCHANGED <<sendVars, wireVars, rcancel, cur, answer, rfile, left, tabVars, disk,
                 histVars>>

\* Mutation: the loop never looks at its token.
LoopForever(r) ==
  /\ rpc[r] = "loop"
  /\ Goto(r, "accept")
  /\ UNCHANGED <<sendVars, wireVars, rcancel, port, cur, answer, rfile, left, tabVars,
                 disk,
                 histVars>>

\* while !cancel.is_cancelled(): when the loop ends the listener goes, and with it
\* the connections nobody accepted.
Loop(r) ==
  /\ rpc[r] = "loop"
  /\ IF rcancel[r]
       THEN /\ Goto(r, "stopped")
            /\ port' = Nobody
            /\ conn' = [o \in Offers |-> IF conn[o] = "backlog" THEN "closed" ELSE conn[o]]
       ELSE Goto(r, "accept") /\ UNCHANGED <<port, conn>>
  /\ UNCHANGED <<sendVars, up, reply, rcancel, cur, answer, rfile, left, tabVars, disk,
                 histVars>>

\* accept() would block: sleep, and look at the token again.
NobodyThere(r) ==
  /\ rpc[r] = "accept" /\ \A o \in Offers : conn[o] # "backlog"
  /\ Goto(r, "loop")
  /\ UNCHANGED <<sendVars, wireVars, rcancel, port, cur, answer, rfile, left, tabVars,
                 disk,
                 histVars>>

\* A connection: the manifest is read and the tab is asked. If the tab no longer
\* listens to this thread the request is dropped.
Accept(r, o) ==
  /\ rpc[r] = "accept" /\ conn[o] = "backlog"
  /\ conn' = [conn EXCEPT ![o] = "open"]
  /\ cur' = o
  /\ answer' = "none"
  /\ Goto(r, "asking")
  /\ inbox' = IF job = r THEN Append(inbox, o) ELSE inbox
  /\ UNCHANGED <<sendVars, up, reply, rcancel, port, rfile, left, job, pending, disk,
                 histVars>>

\* handle_incoming returns: the stream is closed, with byte b as the answer of cur
\* if it has none yet, and what was not read is lost.
Close(r, b) ==
  /\ conn' = [conn EXCEPT ![cur] = "closed"]
  /\ reply' = [reply EXCEPT ![cur] = IF @ = "none" THEN b ELSE @]
  /\ up' = [up EXCEPT ![cur] = <<>>]
  /\ cur' = Nobody /\ answer' = "none" /\ rfile' = 1 /\ left' = 0
  /\ Goto(r, "loop")

\* recv_timeout returns the user's answer, and the byte is written.
Answered(r) ==
  /\ rpc[r] = "asking" /\ answer # "none"
  /\ IF answer = "yes"
       THEN /\ reply' = [reply EXCEPT ![cur] = "yes"]
            /\ Goto(r, "next")
            /\ UNCHANGED <<conn, up, cur, answer, rfile, left>>
       ELSE Close(r, "no")
  /\ UNCHANGED <<sendVars, rcancel, port, tabVars, disk, histVars>>

\* Mutations: silence is taken for consent; there is no timeout.
TimedOutYes(r) ==
  /\ rpc[r] = "asking" /\ answer = "none"
  /\ reply' = [reply EXCEPT ![cur] = "yes"]
  /\ Goto(r, "next")
  /\ UNCHANGED <<sendVars, conn, up, rcancel, port, cur, answer, rfile, left, tabVars,
                 disk, histVars>>

TimedOutNever(r) == rpc[r] = "asking" /\ UNCHANGED vars

\* 120 seconds pass, or the request was dropped unanswered: unwrap_or(false).
TimedOut(r) ==
  /\ rpc[r] = "asking" /\ answer = "none"
  /\ Close(r, "no")
  /\ UNCHANGED <<sendVars, rcancel, port, tabVars, disk, histVars>>

\* The for loop over the manifest. A refused name is skipped: nothing is created,
\* and nothing is read either.
NextFile(r) ==
  /\ rpc[r] = "next" /\ ~rcancel[r] /\ rfile <= Count(cur)
  /\ IF Dest(cur, rfile) = NoPath
       THEN rfile' = rfile + 1 /\ UNCHANGED <<disk, left, rpc>>
       ELSE /\ disk' = [disk EXCEPT ![Dest(cur, rfile)] = <<>>]
            /\ left' = Size(cur, rfile)
            /\ Goto(r, "chunk")
            /\ UNCHANGED rfile
  /\ UNCHANGED <<sendVars, wireVars, rcancel, port, cur, answer, tabVars, histVars>>

\* The for loop is over: Finished, the token is not looked at again.
ReceiveFinished(r) ==
  /\ rpc[r] = "next" /\ rfile > Count(cur)
  /\ delivered' = delivered \union {cur}
  /\ Close(r, "no")
  /\ UNCHANGED <<sendVars, rcancel, port, tabVars, disk, sent, accepted, drifted>>

\* Mutation: the inner loop runs once more than there are chunks.
NextChunkOnceMore(r) ==
  /\ rpc[r] = "chunk" /\ ~rcancel[r]
  /\ Goto(r, "read")
  /\ UNCHANGED <<sendVars, wireVars, rcancel, port, cur, answer, rfile, left, tabVars,
                 disk,
                 histVars>>

\* The head of the inner loop: done with this file, or read on.
NextChunk(r) ==
  /\ rpc[r] = "chunk"
  /\ IF left = 0
       THEN rfile' = rfile + 1 /\ Goto(r, "next")
       ELSE ~rcancel[r] /\ Goto(r, "read") /\ UNCHANGED rfile
  /\ UNCHANGED <<sendVars, wireVars, rcancel, port, cur, answer, left, tabVars, disk,
                 histVars>>

\* Mutation: read instead of read_exact, the end of the stream counts as data.
ReadChunkShort(r) ==
  /\ rpc[r] = "read"
  /\ IF up[cur] = <<>>
       THEN ~SenderOpen(cur) /\ UNCHANGED <<disk, up>>
       ELSE /\ disk' = [disk EXCEPT ![Dest(cur, rfile)] = Append(@, Head(up[cur]))]
            /\ up' = [up EXCEPT ![cur] = Tail(@)]
  /\ left' = left - 1
  /\ Goto(r, "chunk")
  /\ UNCHANGED <<sendVars, conn, reply, rcancel, port, cur, answer, rfile, tabVars,
                 histVars>>

\* read_exact blocks until a chunk is there; write_all.
ReadChunk(r) ==
  /\ rpc[r] = "read" /\ up[cur] # <<>>
  /\ disk' = [disk EXCEPT ![Dest(cur, rfile)] = Append(@, Head(up[cur]))]
  /\ up' = [up EXCEPT ![cur] = Tail(@)]
  /\ left' = left - 1
  /\ Goto(r, "chunk")
  /\ UNCHANGED <<sendVars, conn, reply, rcancel, port, cur, answer, rfile, tabVars,
                 histVars>>

\* handle_incoming returns early: the token, or the stream ends before the file does.
ReceiveStops(r) ==
  /\ \/ rpc[r] = "next" /\ rcancel[r] /\ rfile <= Count(cur)
     \/ rpc[r] = "chunk" /\ left > 0 /\ rcancel[r]
     \/ rpc[r] = "read" /\ up[cur] = <<>> /\ ~SenderOpen(cur)
  /\ Close(r, "no")
  /\ UNCHANGED <<sendVars, rcancel, port, tabVars, disk, histVars>>

\* A file or folder that cannot be created or written.
ReceiverFails(r) ==
  /\ rpc[r] \in {"next", "read"}
  /\ Close(r, "no")
  /\ UNCHANGED <<sendVars, rcancel, port, tabVars, disk, histVars>>

-----------------------------------------------------------------------------
(* The Share tab of the receiving machine.                                 *)

\* The request the frame that is drawn now has: poll keeps the last one.
Polled == IF inbox = <<>> THEN pending ELSE inbox[Len(inbox)]

\* A frame without a click.
Frame ==
  /\ inbox' = <<>>
  /\ pending' = Polled
  /\ UNCHANGED <<sendVars, wireVars, recvVars, job, disk, sent, accepted, delivered,
                 drifted>>

\* A frame with a click on Accept or Reject: a button of the previous frame was
\* clicked, the answer goes to the request of this one, after the poll.
Click(b) ==
  /\ pending # Nobody
  /\ answer' = IF /\ Polled = cur /\ answer = "none"
                  /\ \E r \in Receivers : rpc[r] = "asking"
                 THEN b ELSE answer
  /\ accepted' = IF b = "yes" THEN accepted \union {Polled} ELSE accepted
  /\ inbox' = <<>>
  /\ pending' = Nobody
  /\ UNCHANGED <<sendVars, wireVars, rpc, rcancel, port, cur, rfile, left, job, disk,
                 sent, delivered, drifted>>

\* set_discoverable(true): a new thread.
SwitchOn ==
  /\ job = Nobody /\ \E r \in Receivers : rpc[r] = "off"
  /\ job' = CHOOSE r \in Receivers : rpc[r] = "off"
  /\ Goto(job', "bind")
  /\ UNCHANGED <<sendVars, wireVars, rcancel, port, cur, answer, rfile, left, inbox,
                 pending,
                 disk, histVars>>

\* set_discoverable(false): the token is set, the channel is dropped; a request
\* that is on the screen stays there.
SwitchOff ==
  /\ job # Nobody
  /\ rcancel' = [rcancel EXCEPT ![job] = TRUE]
  /\ job' = Nobody
  /\ inbox' = <<>>
  /\ UNCHANGED <<sendVars, wireVars, rpc, port, cur, answer, rfile, left, pending, disk,
                 histVars>>

-----------------------------------------------------------------------------

Sender(o) ==
  \/ ReadReply(o) \/ ReplyLost(o) \/ OpenNext(o) \/ SendFinished(o)
  \/ SendChunk(o) \/ EndOfFile(o) \/ WriteFails(o)

Receiver(r) ==
  \/ Bind(r) \/ Loop(r) \/ NobodyThere(r) \/ Answered(r) \/ TimedOut(r) \/ NextFile(r)
  \/ ReceiveFinished(r) \/ NextChunk(r) \/ ReadChunk(r) \/ ReceiveStops(r)
  \/ \E o \in Offers : Accept(r, o)

Tab == Frame \/ Click("yes") \/ Click("no") \/ SwitchOn \/ SwitchOff

Next ==
  \/ \E o \in Offers : Connect(o) \/ Sender(o) \/ SenderFails(o)
  \/ \E r \in Receivers : Receiver(r) \/ ReceiverFails(r)
  \/ Tab

Spec == Init /\ [][Next]_vars

\* Threads are scheduled and recv_timeout runs out; nobody has to click, no call
\* has to fail.
FairSpec ==
  /\ Spec
  /\ \A o \in Offers : WF_vars(Sender(o))
  /\ \A r \in Receivers : WF_vars(Receiver(r))

-----------------------------------------------------------------------------
(* Properties.                                                             *)

Chunk == UNION {{<<o, i>> : i \in 1..Count(o)} : o \in Offers}

\* Every variable has values of its kind. In particular what is still to come of a
\* file never falls below zero (remaining of handle_incoming), and no more is under
\* way than the connection holds.
TypeOK ==
  /\ spc \in [Offers -> {"idle", "waiting", "next", "send", "finished", "rejected", "failed"}]
  /\ conn \in [Offers -> {"none", "backlog", "open", "closed"}]
  /\ reply \in [Offers -> {"none", "yes", "no"}]
  /\ rpc \in [Receivers -> {"off", "bind", "loop", "accept", "asking", "next", "chunk", "read",
                            "stopped"}]
  /\ port \in Receivers \union {Nobody} /\ job \in Receivers \union {Nobody}
  /\ cur \in Offers \union {Nobody} /\ pending \in Offers \union {Nobody}
  /\ inbox \in Seq(Offers)
  /\ answer \in {"none", "yes", "no"}
  /\ up \in [Offers -> Seq(Chunk)] /\ \A o \in Offers : Len(up[o]) <= Window
  /\ disk \in [Paths -> Seq(Chunk) \union {NoFile}]
  /\ rfile \in Nat \ {0} /\ left \in Nat

\* "The receiving side always has to explicitly accept ... before anything is written
\* to disk": whatever timeouts, late answers and restarted receivers do, a file exists
\* below the destination only for an offer somebody clicked Accept for, and holds
\* chunks of such offers only (handle_incoming).
ConsentBeforeWriting ==
  \A p \in Paths : disk[p] # NoFile =>
    /\ \E o \in accepted : \E i \in 1..Count(o) : Dest(o, i) = p
    /\ \A k \in 1..Len(disk[p]) : disk[p][k][1] \in accepted

\* No byte of a file leaves the sending machine before its offer was accepted
\* (send_files reads the answer first).
NothingLeavesUnaccepted == sent \subseteq accepted

\* No other file of any offer goes where file i of offer o goes.
Alone(o, i) ==
  \A p \in Offers : \A j \in 1..Count(p) : Dest(p, j) = Dest(o, i) => p = o /\ j = i

\* When the receiver reports Finished, an offer whose files kept their length and
\* whose names were all usable is complete on disk, in the right files, through
\* cancellations, closed connections and receivers that take over from each other.
DeliveredIsWhole ==
  \A o \in delivered \ drifted :
    (\A i \in 1..Count(o) : Dest(o, i) # NoPath) =>
      \A i \in 1..Count(o) : Alone(o, i) =>
        disk[Dest(o, i)] = [k \in 1..Size(o, i) |-> <<o, i>>]

\* A sender that has connected ends, with whatever result: timeouts and closed
\* connections reach it, and no two sides wait for each other.
EverySendEnds == \A o \in Offers : spc[o] = "waiting" ~> ~SenderOpen(o)

\* Once a receiver is told to stop it gives the port back, unless it never got it.
StoppedFreesPort ==
  \A r \in Receivers : rcancel[r] ~> (rpc[r] = "stopped" /\ port # r)
=============================================================================
