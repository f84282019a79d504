---------------------------- MODULE ShareProofs ----------------------------
(***************************************************************************)
(* Proofs about ShareTransfer, for any number of offers, receivers, names, *)
(* paths and chunks: the state is well typed, nothing is sent or written   *)
(* without consent, and what is reported received is whole.                *)
(***************************************************************************)
EXTENDS ShareTransfer, SelectionLemmas, TLAPS

\* A file of an offer, and where it goes.
LEMMA ListedFile ==
  ASSUME NEW o \in Offers, NEW i \in 1..Count(o)
  PROVE  /\ Size(o, i) \in Nat
         /\ Dest(o, i) \in Paths \union {NoPath}
         /\ <<o, i>> \in Chunk
<1>1. Manifest[o] \in Seq([name : Names, size : Nat])
  BY ShareConstants
<1>2. Manifest[o][i] \in [name : Names, size : Nat]
  BY <1>1, ElementOfSeq DEF Count
<1>3. Manifest[o][i].name \in Names /\ Manifest[o][i].size \in Nat
  BY <1>2
<1> QED BY <1>3, ShareConstants DEF Size, Dest, Chunk

LEMMA CountType ==
  ASSUME NEW o \in Offers
  PROVE  Count(o) \in Nat
  BY ShareConstants DEF Count

-----------------------------------------------------------------------------
(* Type correctness. A receiver that is busy has the port, so there is at  *)
(* most one, and cur, rfile and left are its.                              *)

Busy    == {"asking", "next", "chunk", "read"}
Holding == {"loop", "accept"} \union Busy

PortHeld    == \A r \in Receivers : rpc[r] \in Holding => port = r
OfferAtHand == \A r \in Receivers : rpc[r] \in Busy => cur \in Offers
SendPlace ==
  /\ sfile \in [Offers -> Nat \ {0}]
  /\ \A o \in Offers : spc[o] = "send" => sfile[o] <= Count(o)
FileAtHand ==
  \A r \in Receivers : rpc[r] \in {"chunk", "read"} =>
    /\ rfile <= Count(cur)
    /\ Dest(cur, rfile) \in Paths
    /\ disk[Dest(cur, rfile)] \in Seq(Chunk)
    /\ rpc[r] = "read" => left > 0

TInv == TypeOK /\ PortHeld /\ OfferAtHand /\ SendPlace /\ FileAtHand

LEMMA InitTInv == Init => TInv
<1> SUFFICES ASSUME Init PROVE TInv
  OBVIOUS
<1> USE ShareConstants DEF Init
<1>1. TypeOK
  BY DEF TypeOK
<1>2. PortHeld /\ OfferAtHand /\ SendPlace /\ FileAtHand
  BY DEF PortHeld, OfferAtHand, SendPlace, FileAtHand, Busy, Holding
<1> QED BY <1>1, <1>2 DEF TInv

\* Only one receiver is busy.
LEMMA OneBusy ==
  ASSUME PortHeld, NEW r \in Receivers, NEW q \in Receivers, rpc[r] \in Holding, rpc[q] \in Holding
  PROVE  r = q
  BY DEF PortHeld

-----------------------------------------------------------------------------
(* The sender's steps.                                                     *)

LEMMA SenderStepType ==
  ASSUME TInv, NEW o \in Offers, Connect(o) \/ Sender(o) \/ SenderFails(o)
  PROVE  TInv'
<1> USE DEF TInv, sendVars, wireVars, recvVars, tabVars, histVars
<1>1. CASE Connect(o)
  BY <1>1 DEF Connect, TypeOK, PortHeld, OfferAtHand, SendPlace, FileAtHand
<1>2. CASE ReadReply(o) \/ ReplyLost(o) \/ SendFinished(o) \/ WriteFails(o) \/ SenderFails(o)
  <2>1. UNCHANGED <<wireVars, recvVars, tabVars, disk>>
    BY <1>2 DEF ReadReply, ReplyLost, SendFinished, WriteFails, SenderFails
  <2>2. CASE reply[o] = "yes" /\ ReadReply(o)
    BY <2>1, <2>2 DEF ReadReply, TypeOK, PortHeld, OfferAtHand, SendPlace, FileAtHand
  <2>3. CASE ~(reply[o] = "yes" /\ ReadReply(o))
    <3>1. PICK l \in {"finished", "rejected", "failed"} : SendEnds(o, l)
      BY <1>2, <2>3 DEF ReadReply, ReplyLost, SendFinished, WriteFails, SenderFails
    <3>2. SendPlace' /\ spc' \in [Offers -> {"idle", "waiting", "next", "send", "finished",
                                           "rejected", "failed"}]
      BY <3>1 DEF SendEnds, SendPlace, TypeOK
    <3> QED BY <2>1, <3>2 DEF TypeOK, PortHeld, OfferAtHand, FileAtHand
  <2> QED BY <2>2, <2>3
<1>3. CASE OpenNext(o)
  BY <1>3 DEF OpenNext, TypeOK, PortHeld, OfferAtHand, SendPlace, FileAtHand
<1>4. CASE SendChunk(o)
  <2>1. <<o, sfile[o]>> \in Chunk
    BY <1>4, ListedFile, CountType DEF SendChunk, SendPlace
  <2>2. /\ up' \in [Offers -> Seq(Chunk)]
        /\ \A p \in Offers : Len(up'[p]) <= Window
    BY <1>4, <2>1, ShareConstants DEF SendChunk, TypeOK
  <2> QED BY <1>4, <2>2 DEF SendChunk, TypeOK, PortHeld, OfferAtHand, SendPlace, FileAtHand
<1>5. CASE EndOfFile(o)
  BY <1>5 DEF EndOfFile, TypeOK, PortHeld, OfferAtHand, SendPlace, FileAtHand
<1> QED BY <1>1, <1>2, <1>3, <1>4, <1>5 DEF Sender

-----------------------------------------------------------------------------
(* The receiver's steps.                                                   *)

\* A connection that is closed leaves nothing at hand.
LEMMA CloseType ==
  ASSUME TInv, NEW r \in Receivers, rpc[r] \in Busy, NEW b \in {"yes", "no"}, Close(r, b),
         UNCHANGED <<sendVars, rcancel, port, tabVars>>,
         disk' \in [Paths -> Seq(Chunk) \union {NoFile}]
  PROVE  TInv'
<1> USE DEF TInv, sendVars, tabVars
<1>1. cur \in Offers
  BY DEF OfferAtHand
<1>2. rpc' = [rpc EXCEPT ![r] = "loop"]
  BY DEF Close, Goto
<1>3. \A q \in Receivers : rpc'[q] \notin Busy
  BY <1>2, OneBusy DEF TypeOK, Busy, Holding
<1>4. TypeOK'
  BY <1>1, <1>2, ShareConstants DEF Close, TypeOK
<1>5. PortHeld'
  BY <1>2 DEF PortHeld, Holding, Busy, TypeOK
<1>6. SendPlace' /\ OfferAtHand' /\ FileAtHand'
  BY <1>3 DEF SendPlace, OfferAtHand, FileAtHand, Busy
<1> QED BY <1>4, <1>5, <1>6

LEMMA ReceiverStepType ==
  ASSUME TInv, NEW r \in Receivers, Receiver(r) \/ ReceiverFails(r)
  PROVE  TInv'
<1> USE DEF TInv, sendVars, wireVars, tabVars, histVars, Goto
<1>1. CASE Bind(r)
  <2>1. CASE port = Nobody
    <3>1. rpc' = [rpc EXCEPT ![r] = "loop"] /\ port' = r
      BY <1>1, <2>1 DEF Bind
    <3>2. \A q \in Receivers : rpc[q] \notin Holding
      BY <2>1, ShareConstants DEF PortHeld
    <3>3. TypeOK' /\ PortHeld'
      BY <1>1, <3>1, <3>2 DEF Bind, TypeOK, PortHeld, Busy, Holding
    <3> QED BY <1>1, <3>1, <3>3 DEF Bind, TypeOK, OfferAtHand, SendPlace, FileAtHand, Busy
  <2>2. CASE port # Nobody
    <3>1. rpc' = [rpc EXCEPT ![r] = "stopped"] /\ port' = port
      BY <1>1, <2>2 DEF Bind
    <3>2. TypeOK' /\ PortHeld'
      BY <1>1, <3>1 DEF Bind, TypeOK, PortHeld, Busy, Holding
    <3> QED BY <1>1, <3>1, <3>2 DEF Bind, TypeOK, OfferAtHand, SendPlace, FileAtHand, Busy
  <2> QED BY <2>1, <2>2
<1>2. CASE Loop(r)
  <2>1. CASE rcancel[r]
    <3>1. /\ rpc' = [rpc EXCEPT ![r] = "stopped"] /\ port' = Nobody
          /\ conn' \in [Offers -> {"none", "backlog", "open", "closed"}]
      BY <1>2, <2>1 DEF Loop, TypeOK
    <3>2. \A q \in Receivers : rpc[q] \in Holding => q = r
      BY <1>2, OneBusy DEF Loop, Holding
    <3>3. TypeOK'
      BY <1>2, <3>1 DEF Loop, TypeOK
    <3>4. PortHeld'
      BY <3>1, <3>2 DEF TypeOK, PortHeld, Busy, Holding
    <3> QED BY <1>2, <3>1, <3>3, <3>4 DEF Loop, TypeOK, OfferAtHand, SendPlace, FileAtHand, Busy
  <2>2. CASE ~rcancel[r]
    <3>1. rpc' = [rpc EXCEPT ![r] = "accept"] /\ port' = port /\ conn' = conn /\ rpc[r] = "loop"
      BY <1>2, <2>2 DEF Loop
    <3>2. TypeOK'
      BY <1>2, <3>1 DEF Loop, TypeOK
    <3>3. PortHeld'
      BY <3>1 DEF TypeOK, PortHeld, Busy, Holding
    <3> QED BY <1>2, <3>1, <3>2, <3>3 DEF Loop, TypeOK, OfferAtHand, SendPlace, FileAtHand, Busy
  <2> QED BY <2>1, <2>2
<1>3. CASE NobodyThere(r)
  BY <1>3 DEF NobodyThere, TypeOK, PortHeld, OfferAtHand, SendPlace, FileAtHand, Busy, Holding
<1>4. CASE \E o \in Offers : Accept(r, o)
  <2>1. PICK o \in Offers : Accept(r, o)
    BY <1>4
  <2>2. rpc' = [rpc EXCEPT ![r] = "asking"] /\ cur' = o /\ rpc[r] = "accept"
    BY <2>1 DEF Accept
  <2>3. \A q \in Receivers : rpc'[q] \in Busy => q = r
    BY <2>2, OneBusy DEF TypeOK, Busy, Holding
  <2>4. TypeOK'
    BY <2>1, <2>2 DEF Accept, TypeOK
  <2>5. PortHeld' /\ OfferAtHand' /\ SendPlace' /\ FileAtHand'
    BY <2>1, <2>2, <2>3 DEF Accept, TypeOK, PortHeld, OfferAtHand, SendPlace, FileAtHand, Busy, Holding
  <2> QED BY <2>4, <2>5
<1>5. CASE Answered(r)
  <2>1. CASE answer = "yes"
    BY <1>5, <2>1 DEF Answered, TypeOK, PortHeld, OfferAtHand, SendPlace, FileAtHand, Busy, Holding
  <2>2. CASE answer # "yes"
    BY <1>5, <2>2, CloseType DEF Answered, TypeOK, Busy
  <2> QED BY <2>1, <2>2
<1>6. CASE TimedOut(r)
  BY <1>6, CloseType DEF TimedOut, TypeOK, Busy
<1>7. CASE NextFile(r)
  <2>1. cur \in Offers /\ rfile \in 1..Count(cur)
    BY <1>7, CountType DEF NextFile, OfferAtHand, Busy, TypeOK
  <2>2. Size(cur, rfile) \in Nat /\ Dest(cur, rfile) \in Paths \union {NoPath}
    BY <2>1, ListedFile
  <2>3. \A q \in Receivers : rpc[q] \in Busy => q = r
    BY <1>7, OneBusy DEF NextFile, Busy, Holding
  <2>4. CASE Dest(cur, rfile) = NoPath
    BY <1>7, <2>3, <2>4 DEF NextFile, TypeOK, PortHeld, OfferAtHand, SendPlace, FileAtHand, Busy, Holding
  <2>5. CASE Dest(cur, rfile) # NoPath
    <3>1. Dest(cur, rfile) \in Paths /\ <<>> \in Seq(Chunk)
      BY <2>2, <2>5, EmptySeq
    <3>2. TypeOK'
      BY <1>7, <2>2, <2>5, <3>1 DEF NextFile, TypeOK
    <3>3. /\ rpc' = [rpc EXCEPT ![r] = "chunk"] /\ UNCHANGED <<cur, rfile, port, sendVars>>
          /\ disk'[Dest(cur, rfile)] = <<>>
      BY <1>7, <2>5, <3>1 DEF NextFile, TypeOK
    <3>4. PortHeld' /\ OfferAtHand' /\ SendPlace'
      BY <1>7, <3>3 DEF NextFile, TypeOK, PortHeld, OfferAtHand, SendPlace, Busy, Holding
    <3>5. FileAtHand'
      <4>1. Dest(cur, rfile)' = Dest(cur, rfile) /\ Count(cur)' = Count(cur)
        BY <3>3 DEF Dest, Count
      <4> QED BY <2>1, <2>3, <3>1, <3>3, <4>1 DEF FileAtHand, TypeOK, Busy
    <3> QED BY <3>2, <3>4, <3>5
  <2> QED BY <2>4, <2>5
<1>8. CASE ReceiveFinished(r)
  BY <1>8, CloseType DEF ReceiveFinished, TypeOK, Busy
<1>9. CASE NextChunk(r)
  <2>1. \A q \in Receivers : rpc[q] \in Busy => q = r
    BY <1>9, OneBusy DEF NextChunk, Busy, Holding
  <2>2. TypeOK'
    <3>1. rfile' \in Nat \ {0}
      BY <1>9 DEF NextChunk, TypeOK
    <3>2. rpc' \in [Receivers -> {"off", "bind", "loop", "accept", "asking", "next", "chunk",
                                 "read", "stopped"}]
      <4>1. rpc' = [rpc EXCEPT ![r] = "next"] \/ rpc' = [rpc EXCEPT ![r] = "read"]
        BY <1>9 DEF NextChunk
      <4> QED BY <4>1 DEF TypeOK
    <3> QED BY <1>9, <3>1, <3>2 DEF NextChunk, TypeOK
  <2>3. PortHeld' /\ OfferAtHand' /\ SendPlace'
    BY <1>9 DEF NextChunk, TypeOK, PortHeld, OfferAtHand, SendPlace, Busy, Holding
  <2>4. FileAtHand'
    <3>1. CASE left = 0
      BY <1>9, <2>1, <3>1 DEF NextChunk, TypeOK, FileAtHand, Busy
    <3>2. CASE left # 0
      <4>1. rpc' = [rpc EXCEPT ![r] = "read"] /\ UNCHANGED <<cur, rfile, left, disk>> /\ left > 0
        BY <1>9, <3>2 DEF NextChunk, TypeOK
      <4>2. Dest(cur, rfile)' = Dest(cur, rfile) /\ Count(cur)' = Count(cur)
        BY <4>1 DEF Dest, Count
      <4> QED BY <1>9, <2>1, <4>1, <4>2 DEF NextChunk, TypeOK, FileAtHand, Busy
    <3> QED BY <3>1, <3>2
  <2> QED BY <2>2, <2>3, <2>4
<1>10. CASE ReadChunk(r)
  <2> DEFINE p == Dest(cur, rfile)
  <2>1. \A q \in Receivers : rpc[q] \in Busy => q = r
    BY <1>10, OneBusy DEF ReadChunk, Busy, Holding
  <2>2. cur \in Offers /\ p \in Paths /\ disk[p] \in Seq(Chunk) /\ left > 0 /\ rfile <= Count(cur)
    BY <1>10 DEF ReadChunk, OfferAtHand, FileAtHand, Busy
  <2>3. up[cur] \in Seq(Chunk) /\ up[cur] # <<>>
    BY <1>10, <2>2 DEF ReadChunk, TypeOK
  <2>4. /\ Head(up[cur]) \in Chunk /\ Tail(up[cur]) \in Seq(Chunk)
        /\ Len(Tail(up[cur])) <= Len(up[cur])
    BY <2>3, HeadTailProperties
  <2>5. Append(disk[p], Head(up[cur])) \in Seq(Chunk)
    BY <2>2, <2>4, AppendProperties
  <2>6. /\ disk' = [disk EXCEPT ![p] = Append(disk[p], Head(up[cur]))]
        /\ up' = [up EXCEPT ![cur] = Tail(up[cur])]
        /\ left' = left - 1 /\ rpc' = [rpc EXCEPT ![r] = "chunk"]
        /\ UNCHANGED <<sendVars, conn, reply, rcancel, port, cur, answer, rfile, tabVars>>
    BY <1>10 DEF ReadChunk
  <2>7. Dest(cur, rfile)' = p /\ Count(cur)' = Count(cur)
    BY <2>6 DEF Dest, Count
  <2> HIDE DEF p
  <2>8. left' \in Nat
    BY <2>2, <2>6 DEF TypeOK
  <2>9. /\ up' \in [Offers -> Seq(Chunk)] /\ \A o \in Offers : Len(up'[o]) <= Window
        /\ disk' \in [Paths -> Seq(Chunk) \union {NoFile}] /\ disk'[p] \in Seq(Chunk)
    <3>1. Len(Tail(up[cur])) \in Nat /\ Len(up[cur]) \in Nat
      BY <2>3, <2>4, LenProperties
    <3> QED BY <2>2, <2>4, <2>5, <2>6, <3>1, ShareConstants DEF TypeOK
  <2>10. TypeOK'
    BY <1>10, <2>6, <2>8, <2>9 DEF TypeOK
  <2>11. PortHeld' /\ OfferAtHand' /\ SendPlace'
    BY <1>10, <2>6 DEF ReadChunk, TypeOK, PortHeld, OfferAtHand, SendPlace, Busy, Holding
  <2>12. FileAtHand'
    BY <2>1, <2>2, <2>6, <2>7, <2>9 DEF TypeOK, FileAtHand, Busy
  <2> QED BY <2>10, <2>11, <2>12
<1>11. CASE ReceiveStops(r) \/ ReceiverFails(r)
  BY <1>11, CloseType DEF ReceiveStops, ReceiverFails, TypeOK, Busy
<1> QED BY <1>1, <1>2, <1>3, <1>4, <1>5, <1>6, <1>7, <1>8, <1>9, <1>10, <1>11 DEF Receiver

-----------------------------------------------------------------------------
(* The tab's steps.                                                        *)

\* Whatever the poll leaves on the screen is an offer, or nothing.
LEMMA PolledType ==
  ASSUME TypeOK
  PROVE  Polled \in Offers \union {Nobody}
<1>1. CASE inbox = <<>>
  BY <1>1 DEF Polled, TypeOK
<1>2. CASE inbox # <<>>
  <2>1. inbox \in Seq(Offers)
    BY DEF TypeOK
  <2>2. Len(inbox) \in 1..Len(inbox)
    BY <1>2, <2>1, EmptySeq, LenProperties
  <2> QED BY <1>2, <2>1, <2>2, ElementOfSeq DEF Polled
<1> QED BY <1>1, <1>2

LEMMA TabStepType ==
  ASSUME TInv, Tab
  PROVE  TInv'
<1> USE DEF TInv, sendVars, wireVars, recvVars, histVars, Goto
<1>1. CASE Frame
  BY <1>1, PolledType, EmptySeq
     DEF Frame, TypeOK, PortHeld, OfferAtHand, SendPlace, FileAtHand
<1>2. ASSUME NEW b \in {"yes", "no"}, Click(b)
      PROVE  TInv'
  BY <1>2, EmptySeq DEF Click, TypeOK, PortHeld, OfferAtHand, SendPlace, FileAtHand
<1>3. CASE SwitchOn
  <2>1. job' \in Receivers /\ rpc[job'] = "off" /\ rpc' = [rpc EXCEPT ![job'] = "bind"]
    BY <1>3 DEF SwitchOn
  <2> QED BY <1>3, <2>1
          DEF SwitchOn, TypeOK, PortHeld, OfferAtHand, SendPlace, FileAtHand, Busy, Holding
<1>4. CASE SwitchOff
  BY <1>4, EmptySeq DEF SwitchOff, TypeOK, PortHeld, OfferAtHand, SendPlace, FileAtHand
<1> QED BY <1>1, <1>2, <1>3, <1>4 DEF Tab

LEMMA NextTInv == TInv /\ [Next]_vars => TInv'
<1> SUFFICES ASSUME TInv, [Next]_vars PROVE TInv'
  OBVIOUS
<1>1. CASE UNCHANGED vars
  BY <1>1 DEF TInv, TypeOK, PortHeld, OfferAtHand, SendPlace, FileAtHand, vars, sendVars, wireVars,
              recvVars, tabVars
<1>2. CASE Next
  BY <1>2, SenderStepType, ReceiverStepType, TabStepType DEF Next
<1> QED BY <1>1, <1>2

\* The state of a transfer is well typed: in particular no receiver counts below
\* zero what is still to come of a file (handle_incoming), and no more is under way
\* than the connection holds.
THEOREM ShareTypeCorrect == Spec => []TypeOK
<1>1. TInv => TypeOK
  BY DEF TInv
<1> QED BY <1>1, InitTInv, NextTInv, PTL DEF Spec

-----------------------------------------------------------------------------
(* Consent. Accept reaches an offer through the request on the screen and  *)
(* the respond channel; the answer byte, what is on its way and what is    *)
(* written all follow from it. accepted only grows.                        *)

AnswerMeant   == answer = "yes" => cur \in accepted
ReplyMeant    == \A o \in Offers : reply[o] = "yes" => o \in accepted
SendingMeant  == \A o \in Offers : spc[o] \in {"next", "send", "finished"} => o \in accepted
WireMeant     == \A o \in Offers : \A k \in 1..Len(up[o]) : up[o][k][1] \in accepted
ReceivingMeant ==
  \A r \in Receivers : rpc[r] \in {"next", "chunk", "read"} => cur \in accepted
FileMeant ==
  \A r \in Receivers : rpc[r] \in {"chunk", "read"} =>
    \A k \in 1..Len(disk[Dest(cur, rfile)]) : disk[Dest(cur, rfile)][k][1] \in accepted

CInv ==
  /\ TInv
  /\ AnswerMeant /\ ReplyMeant /\ SendingMeant /\ WireMeant /\ ReceivingMeant /\ FileMeant
  /\ ConsentBeforeWriting /\ NothingLeavesUnaccepted

LEMMA InitCInv == Init => CInv
<1> SUFFICES ASSUME Init PROVE CInv
  OBVIOUS
<1>1. TInv
  BY InitTInv
<1>2. AnswerMeant /\ ReplyMeant /\ SendingMeant /\ WireMeant /\ ReceivingMeant /\ FileMeant
  BY DEF Init, AnswerMeant, ReplyMeant, SendingMeant, WireMeant, ReceivingMeant, FileMeant
<1>3. ConsentBeforeWriting /\ NothingLeavesUnaccepted
  BY DEF Init, ConsentBeforeWriting, NothingLeavesUnaccepted
<1> QED BY <1>1, <1>2, <1>3 DEF CInv

\* The sender touches neither the disk nor the receiver.
LEMMA SenderConsent ==
  ASSUME CInv, NEW o \in Offers, Connect(o) \/ Sender(o) \/ SenderFails(o)
  PROVE  CInv'
<1> USE DEF CInv
<1>1. TInv'
  BY SenderStepType
<1>2. UNCHANGED <<reply, rpc, cur, answer, rfile, disk, accepted>>
  BY DEF Connect, Sender, SenderFails, ReadReply, ReplyLost, OpenNext, SendFinished, SendChunk,
         EndOfFile, WriteFails, wireVars, recvVars, histVars
<1>3. AnswerMeant' /\ ReplyMeant' /\ ReceivingMeant' /\ FileMeant' /\ ConsentBeforeWriting'
  BY <1>2 DEF AnswerMeant, ReplyMeant, ReceivingMeant, FileMeant, Dest, ConsentBeforeWriting, Count
<1>4. SendingMeant'
  BY <1>2 DEF Connect, Sender, SenderFails, ReadReply, ReplyLost, OpenNext, SendFinished, SendChunk,
              EndOfFile, WriteFails, SendEnds, SendingMeant, ReplyMeant, TInv, TypeOK
<1>5. WireMeant' /\ NothingLeavesUnaccepted'
  <2>1. CASE SendChunk(o)
    <3>1. o \in accepted /\ sent' = sent \union {o}
      BY <2>1 DEF SendChunk, SendingMeant
    <3>2. CASE up' = up
      BY <1>2, <3>1, <3>2 DEF WireMeant, NothingLeavesUnaccepted
    <3>3. CASE up' = [up EXCEPT ![o] = Append(@, <<o, sfile[o]>>)]
      <4>1. up \in [Offers -> Seq(Chunk)] /\ up[o] \in Seq(Chunk)
        BY DEF TInv, TypeOK
      <4>2. \A k \in 1..Len(up'[o]) : up'[o][k][1] \in accepted
        BY <3>1, <3>3, <4>1 DEF WireMeant
      <4>3. \A p \in Offers : p # o => up'[p] = up[p]
        BY <3>3, <4>1
      <4> QED BY <1>2, <3>1, <4>2, <4>3 DEF WireMeant, NothingLeavesUnaccepted
    <3> QED BY <2>1, <3>2, <3>3 DEF SendChunk
  <2>2. CASE ~SendChunk(o)
    <3>1. UNCHANGED <<up, sent>>
      BY <2>2 DEF Connect, Sender, SenderFails, ReadReply, ReplyLost, OpenNext, SendFinished,
                  EndOfFile, WriteFails, wireVars, histVars
    <3> QED BY <1>2, <3>1 DEF WireMeant, NothingLeavesUnaccepted
  <2> QED BY <2>1, <2>2
<1> QED BY <1>1, <1>3, <1>4, <1>5

\* Closing a connection answers no, if it answers at all.
LEMMA CloseConsent ==
  ASSUME CInv, NEW r \in Receivers, rpc[r] \in Busy, Close(r, "no"), TInv',
         UNCHANGED <<spc, disk, sent, accepted>>
  PROVE  CInv'
<1> USE DEF CInv
<1>1. \A q \in Receivers : rpc'[q] \notin Busy
  BY OneBusy DEF Close, Goto, TInv, TypeOK, Busy, Holding
<1>2. ReceivingMeant' /\ FileMeant' /\ AnswerMeant'
  BY <1>1 DEF Close, ReceivingMeant, FileMeant, AnswerMeant, Busy
<1>3. ReplyMeant' /\ WireMeant'
  BY DEF Close, ReplyMeant, WireMeant, TInv, TypeOK
<1>4. SendingMeant' /\ ConsentBeforeWriting' /\ NothingLeavesUnaccepted'
  BY DEF SendingMeant, ConsentBeforeWriting, NothingLeavesUnaccepted, Dest, Count
<1> QED BY <1>2, <1>3, <1>4

\* The file that is written is in the manifest of an accepted offer.
LEMMA WriteConsent ==
  ASSUME CInv, NEW p \in Paths, NEW i \in 1..Count(cur), cur \in accepted, p = Dest(cur, i),
         NEW c, disk' = [disk EXCEPT ![p] = c], UNCHANGED accepted,
         \A k \in 1..Len(c) : c[k][1] \in accepted
  PROVE  ConsentBeforeWriting'
<1> SUFFICES ASSUME NEW q \in Paths, disk'[q] # NoFile
             PROVE  /\ \E o \in accepted : \E j \in 1..Count(o) : Dest(o, j) = q
                    /\ \A k \in 1..Len(disk'[q]) : disk'[q][k][1] \in accepted
  BY DEF ConsentBeforeWriting, Dest, Count
<1>1. CASE q = p
  BY <1>1 DEF CInv, TInv, TypeOK
<1>2. CASE q # p
  <2>1. disk'[q] = disk[q]
    BY <1>2 DEF CInv, TInv, TypeOK
  <2> QED BY <2>1 DEF CInv, ConsentBeforeWriting
<1> QED BY <1>1, <1>2

LEMMA ReceiverConsent ==
  ASSUME CInv, NEW r \in Receivers, Receiver(r) \/ ReceiverFails(r)
  PROVE  CInv'
<1> USE DEF CInv, sendVars, wireVars, tabVars, histVars, Goto
<1>1. TInv'
  BY ReceiverStepType
<1>2. CASE Bind(r) \/ Loop(r) \/ NobodyThere(r)
  <2>1. UNCHANGED <<spc, up, reply, cur, answer, rfile, disk, sent, accepted>>
    BY <1>2 DEF Bind, Loop, NobodyThere
  <2>2. \A q \in Receivers : rpc'[q] \in Busy => rpc[q] = rpc'[q]
    BY <1>2 DEF Bind, Loop, NobodyThere, TInv, TypeOK, Busy
  <2>3. ReceivingMeant' /\ FileMeant'
    BY <2>1, <2>2 DEF ReceivingMeant, FileMeant, Dest, Busy
  <2>4. /\ AnswerMeant' /\ ReplyMeant' /\ SendingMeant' /\ WireMeant'
        /\ ConsentBeforeWriting' /\ NothingLeavesUnaccepted'
    BY <2>1 DEF AnswerMeant, ReplyMeant, SendingMeant, WireMeant, ConsentBeforeWriting, Dest, Count,
                NothingLeavesUnaccepted
  <2> QED BY <1>1, <2>3, <2>4
<1>3. CASE \E o \in Offers : Accept(r, o)
  <2>1. /\ UNCHANGED <<spc, up, reply, disk, sent, accepted>>
        /\ answer' = "none" /\ rpc[r] = "accept" /\ rpc' = [rpc EXCEPT ![r] = "asking"]
    BY <1>3 DEF Accept
  <2>2. \A q \in Receivers : rpc'[q] \in Busy => q = r
    BY <2>1, OneBusy DEF TInv, TypeOK, Busy, Holding
  <2>3. ReceivingMeant' /\ FileMeant'
    BY <2>1, <2>2 DEF ReceivingMeant, FileMeant, Busy, TInv, TypeOK
  <2>4. /\ AnswerMeant' /\ ReplyMeant' /\ SendingMeant' /\ WireMeant'
        /\ ConsentBeforeWriting' /\ NothingLeavesUnaccepted'
    BY <2>1 DEF AnswerMeant, ReplyMeant, SendingMeant, WireMeant, ConsentBeforeWriting, Dest, Count,
                NothingLeavesUnaccepted
  <2> QED BY <1>1, <2>3, <2>4
<1>4. CASE Answered(r)
  <2>1. CASE answer = "yes"
    <3>1. /\ UNCHANGED <<spc, up, cur, answer, rfile, disk, sent, accepted>>
          /\ reply' = [reply EXCEPT ![cur] = "yes"] /\ rpc' = [rpc EXCEPT ![r] = "next"]
          /\ rpc[r] = "asking" /\ cur \in accepted
      BY <1>4, <2>1 DEF Answered, AnswerMeant
    <3>2. ReplyMeant' /\ ReceivingMeant'
      BY <3>1 DEF ReplyMeant, ReceivingMeant, TInv, TypeOK
    <3>3. FileMeant'
      BY <3>1, OneBusy DEF FileMeant, Dest, TInv, TypeOK, Busy, Holding
    <3>4. /\ AnswerMeant' /\ SendingMeant' /\ WireMeant'
          /\ ConsentBeforeWriting' /\ NothingLeavesUnaccepted'
      BY <3>1 DEF AnswerMeant, SendingMeant, WireMeant, ConsentBeforeWriting, Dest, Count,
                  NothingLeavesUnaccepted
    <3> QED BY <1>1, <3>2, <3>3, <3>4
  <2>2. CASE answer # "yes"
    BY <1>1, <1>4, <2>2, CloseConsent DEF Answered, Busy
  <2> QED BY <2>1, <2>2
<1>5. CASE TimedOut(r) \/ ReceiveFinished(r) \/ ReceiveStops(r) \/ ReceiverFails(r)
  BY <1>1, <1>5, CloseConsent DEF TimedOut, ReceiveFinished, ReceiveStops, ReceiverFails, Busy
<1>6. CASE NextFile(r)
  <2>1. /\ UNCHANGED <<spc, up, reply, cur, answer, sent, accepted>>
        /\ cur \in accepted /\ rpc[r] = "next" /\ rfile <= Count(cur)
    BY <1>6 DEF NextFile, ReceivingMeant
  <2>2. \A q \in Receivers : rpc[q] \in Busy => q = r
    BY <2>1, OneBusy DEF TInv, Busy, Holding
  <2>3. rpc' = rpc \/ rpc' = [rpc EXCEPT ![r] = "chunk"]
    BY <1>6 DEF NextFile
  <2>4. ReceivingMeant'
    BY <2>1 DEF ReceivingMeant
  <2>5. /\ AnswerMeant' /\ ReplyMeant' /\ SendingMeant' /\ WireMeant' /\ NothingLeavesUnaccepted'
    BY <2>1 DEF AnswerMeant, ReplyMeant, SendingMeant, WireMeant, NothingLeavesUnaccepted
  <2>6. CASE Dest(cur, rfile) = NoPath
    <3>1. UNCHANGED <<disk, rpc>>
      BY <1>6, <2>6 DEF NextFile
    <3>2. FileMeant' /\ ConsentBeforeWriting'
      BY <2>1, <2>2, <3>1 DEF FileMeant, ConsentBeforeWriting, Dest, Count, Busy
    <3> QED BY <1>1, <2>4, <2>5, <3>2
  <2>7. CASE Dest(cur, rfile) # NoPath
    <3>1. disk' = [disk EXCEPT ![Dest(cur, rfile)] = <<>>] /\ UNCHANGED rfile
      BY <1>6, <2>7 DEF NextFile
    <3>2. cur \in Offers /\ rfile \in 1..Count(cur)
      BY <2>1, CountType DEF TInv, TypeOK, OfferAtHand, Busy
    <3>3. Dest(cur, rfile) \in Paths
      BY <2>7, <3>2, ListedFile
    <3>4. ConsentBeforeWriting'
      <4> DEFINE c == <<>>
      <4>1. \A k \in 1..Len(c) : c[k][1] \in accepted
        OBVIOUS
      <4>2. disk' = [disk EXCEPT ![Dest(cur, rfile)] = c]
        BY <3>1
      <4> HIDE DEF c
      <4> QED BY <2>1, <3>2, <3>3, <4>1, <4>2, WriteConsent
    <3>5. Dest(cur, rfile)' = Dest(cur, rfile) /\ disk'[Dest(cur, rfile)] = <<>>
      BY <2>1, <3>1, <3>3 DEF Dest, TInv, TypeOK
    <3>6. FileMeant'
      BY <3>5 DEF FileMeant
    <3> QED BY <1>1, <2>4, <2>5, <3>4, <3>6
  <2> QED BY <2>6, <2>7
<1>7. CASE NextChunk(r)
  <2>1. /\ UNCHANGED <<spc, up, reply, cur, answer, disk, sent, accepted>>
        /\ rpc[r] = "chunk"
        /\ \/ rpc' = [rpc EXCEPT ![r] = "next"]
           \/ rpc' = [rpc EXCEPT ![r] = "read"] /\ UNCHANGED rfile
    BY <1>7 DEF NextChunk
  <2>2. \A q \in Receivers : rpc[q] \in Busy => q = r
    BY <2>1, OneBusy DEF TInv, Busy, Holding
  <2>3. ReceivingMeant'
    BY <2>1, <2>2 DEF ReceivingMeant, TInv, TypeOK, Busy
  <2>4. FileMeant'
    <3>1. CASE rpc' = [rpc EXCEPT ![r] = "next"]
      BY <2>2, <3>1 DEF FileMeant, TInv, TypeOK, Busy
    <3>2. CASE rpc' = [rpc EXCEPT ![r] = "read"] /\ UNCHANGED rfile
      BY <2>1, <3>2 DEF FileMeant, Dest
    <3> QED BY <2>1, <3>1, <3>2
  <2>5. /\ AnswerMeant' /\ ReplyMeant' /\ SendingMeant' /\ WireMeant'
        /\ ConsentBeforeWriting' /\ NothingLeavesUnaccepted'
    BY <2>1 DEF AnswerMeant, ReplyMeant, SendingMeant, WireMeant, ConsentBeforeWriting, Dest, Count,
                NothingLeavesUnaccepted
  <2> QED BY <1>1, <2>3, <2>4, <2>5
<1>8. CASE ReadChunk(r)
  <2> DEFINE p == Dest(cur, rfile)
             new == Append(disk[p], Head(up[cur]))
  <2>1. /\ UNCHANGED <<spc, reply, cur, answer, rfile, sent, accepted>>
        /\ rpc[r] = "read" /\ rpc' = [rpc EXCEPT ![r] = "chunk"]
        /\ up[cur] # <<>> /\ up' = [up EXCEPT ![cur] = Tail(up[cur])]
        /\ disk' = [disk EXCEPT ![p] = new]
    BY <1>8 DEF ReadChunk
  <2>2. /\ cur \in Offers /\ cur \in accepted /\ rfile \in 1..Count(cur)
        /\ p \in Paths /\ disk[p] \in Seq(Chunk) /\ up[cur] \in Seq(Chunk)
    BY <2>1, CountType DEF TInv, TypeOK, OfferAtHand, FileAtHand, ReceivingMeant, Busy
  <2>3. Head(up[cur])[1] \in accepted /\ \A k \in 1..Len(Tail(up[cur])) : Tail(up[cur])[k][1] \in accepted
    BY <2>1, <2>2, HeadTailProperties, EmptySeq DEF WireMeant
  <2>4. WireMeant'
    BY <2>1, <2>2, <2>3 DEF WireMeant, TInv, TypeOK
  <2>5. \A k \in 1..Len(disk[p]) : disk[p][k][1] \in accepted
    BY <2>1 DEF FileMeant
  <2>6. \A k \in 1..Len(new) : new[k][1] \in accepted
    <3>1. Head(up[cur]) \in Chunk
      BY <2>1, <2>2, HeadTailProperties
    <3> QED BY <2>2, <2>3, <2>5, <3>1, AppendProperties
  <2>7. p' = p /\ disk'[p] = new
    BY <2>1, <2>2 DEF Dest, TInv, TypeOK
  <2> HIDE DEF p, new
  <2>8. ConsentBeforeWriting'
    BY <2>1, <2>2, <2>6, WriteConsent DEF p
  <2>9. FileMeant'
    BY <2>1, <2>6, <2>7 DEF FileMeant, p
  <2>10. /\ AnswerMeant' /\ ReplyMeant' /\ SendingMeant' /\ ReceivingMeant'
         /\ NothingLeavesUnaccepted'
    BY <2>1, <2>2 DEF AnswerMeant, ReplyMeant, SendingMeant, ReceivingMeant, NothingLeavesUnaccepted
  <2> QED BY <1>1, <2>4, <2>8, <2>9, <2>10
<1> QED BY <1>2, <1>3, <1>4, <1>5, <1>6, <1>7, <1>8 DEF Receiver

\* The tab decides what is accepted, and the answer is for the request it decides on.
LEMMA TabConsent ==
  ASSUME CInv, Tab
  PROVE  CInv'
<1> USE DEF CInv
<1>1. TInv'
  BY TabStepType
<1>2. /\ UNCHANGED <<spc, up, reply, cur, rfile, disk, sent>>
      /\ accepted \subseteq accepted'
      /\ \A r \in Receivers : rpc'[r] \in Busy => rpc'[r] = rpc[r]
  BY DEF Tab, Frame, Click, SwitchOn, SwitchOff, sendVars, wireVars, recvVars, histVars, Goto, Busy,
         TInv, TypeOK
<1>3. AnswerMeant'
  BY DEF Tab, Frame, Click, SwitchOn, SwitchOff, recvVars, histVars, AnswerMeant
<1>4. ReplyMeant' /\ SendingMeant' /\ WireMeant' /\ NothingLeavesUnaccepted'
  BY <1>2 DEF ReplyMeant, SendingMeant, WireMeant, NothingLeavesUnaccepted
<1>5. ReceivingMeant' /\ FileMeant'
  BY <1>2 DEF ReceivingMeant, FileMeant, Dest, Busy
<1>6. ConsentBeforeWriting'
  BY <1>2 DEF ConsentBeforeWriting, Dest, Count
<1> QED BY <1>1, <1>3, <1>4, <1>5, <1>6

LEMMA NextCInv == CInv /\ [Next]_vars => CInv'
<1> SUFFICES ASSUME CInv, [Next]_vars PROVE CInv'
  OBVIOUS
<1>1. CASE UNCHANGED vars
  <2>1. TInv'
    BY <1>1, NextTInv DEF CInv
  <2> QED BY <1>1, <2>1
          DEF CInv, AnswerMeant, ReplyMeant, SendingMeant, WireMeant, ReceivingMeant, FileMeant, Dest,
              Count, ConsentBeforeWriting, NothingLeavesUnaccepted, vars, sendVars, wireVars, recvVars,
              histVars
<1>2. CASE Next
  BY <1>2, SenderConsent, ReceiverConsent, TabConsent DEF Next
<1> QED BY <1>1, <1>2

\* "The receiving side always has to explicitly accept ... before anything is written
\* to disk", for any number of offers, restarted receivers and late answers
\* (run_receiver, handle_incoming, share_tab.rs).
THEOREM ShareConsent == Spec => []ConsentBeforeWriting
<1>1. CInv => ConsentBeforeWriting
  BY DEF CInv
<1> QED BY <1>1, InitCInv, NextCInv, PTL DEF Spec

\* No byte of a file leaves the sending machine before its offer was accepted
\* (send_files).
THEOREM ShareSendsAccepted == Spec => []NothingLeavesUnaccepted
<1>1. CInv => NothingLeavesUnaccepted
  BY DEF CInv
<1> QED BY <1>1, InitCInv, NextCInv, PTL DEF Spec

-----------------------------------------------------------------------------
(* Delivery. The files of an offer are one stream of chunks; what is under *)
(* way is the part of it from where the receiver is to where the sender    *)
(* is. This is the case as long as no file changed its length (drifted)    *)
(* and the receiver skips none for its name.                               *)

\* f[i] chunks of the stream come before file i.
Offsets(o, f) ==
  /\ f \in [1..(Count(o) + 1) -> Nat]
  /\ f[1] = 0
  /\ \A i \in 1..Count(o) : f[i + 1] = f[i] + Size(o, i)

Before(o) == CHOOSE f : Offsets(o, f)

LEMMA OffsetsExist ==
  ASSUME NEW o \in Offers
  PROVE  \E f : Offsets(o, f)
<1> DEFINE Upto(m, f) == /\ f \in [1..(m + 1) -> Nat]
                         /\ f[1] = 0
                         /\ \A i \in 1..m : f[i + 1] = f[i] + Size(o, i)
           Reached == {m \in Nat : m <= Count(o) => \E f : Upto(m, f)}
<1>0. Count(o) \in Nat /\ \A i \in 1..Count(o) : Size(o, i) \in Nat
  BY CountType, ListedFile
<1>1. 0 \in Reached
  <2>1. Upto(0, [i \in 1..1 |-> 0])
    OBVIOUS
  <2> QED  BY <2>1
<1>2. ASSUME NEW m \in Nat, m \in Reached PROVE m + 1 \in Reached
  <2>0. SUFFICES ASSUME m + 1 <= Count(o) PROVE \E f : Upto(m + 1, f)
    OBVIOUS
  <2>1. PICK f : Upto(m, f)
    BY <1>0, <1>2, <2>0
  <2> DEFINE g == [i \in 1..(m + 2) |-> IF i = m + 2 THEN f[m + 1] + Size(o, m + 1) ELSE f[i]]
  <2>2. g \in [1..(m + 2) -> Nat] /\ g[1] = 0
    BY <1>0, <2>0, <2>1
  <2>3. ASSUME NEW i \in 1..(m + 1) PROVE g[i + 1] = g[i] + Size(o, i)
    <3>1. CASE i = m + 1
      BY <3>1
    <3>2. CASE i \in 1..m
      BY <3>2, <2>1
    <3> QED  BY <3>1, <3>2
  <2>4. m + 2 = (m + 1) + 1
    OBVIOUS
  <2>5. Upto(m + 1, g)
    BY <2>2, <2>3, <2>4
  <2> QED  BY <2>5
<1> HIDE DEF Reached
<1>3. Nat \subseteq Reached
  BY <1>1, <1>2, NaturalsInSet
<1>4. Count(o) <= Count(o) => \E f : Upto(Count(o), f)
  <2> HIDE DEF Upto
  <2> QED  BY <1>0, <1>3 DEF Reached
<1> QED  BY <1>0, <1>4 DEF Offsets

LEMMA BeforeType ==
  ASSUME NEW o \in Offers
  PROVE  /\ Before(o) \in [1..(Count(o) + 1) -> Nat]
         /\ Before(o)[1] = 0
         /\ \A i \in 1..Count(o) : Before(o)[i + 1] = Before(o)[i] + Size(o, i)
<1>1. Offsets(o, Before(o))
  BY OffsetsExist DEF Before
<1> QED  BY <1>1 DEF Offsets

LEMMA BeforeIncreases ==
  ASSUME NEW o \in Offers, NEW i \in 1..Count(o)
  PROVE  \A j \in 1..(Count(o) + 1) : i < j => Before(o)[i + 1] <= Before(o)[j]
<1> DEFINE Above == {n \in Nat : i + 1 + n <= Count(o) + 1 =>
                                 Before(o)[i + 1] <= Before(o)[i + 1 + n]}
<1>0. Count(o) \in Nat /\ \A k \in 1..Count(o) : Size(o, k) \in Nat
  BY CountType, ListedFile
<1>1. 0 \in Above
  BY <1>0, BeforeType
<1>2. ASSUME NEW n \in Nat, n \in Above PROVE n + 1 \in Above
  <2>0. SUFFICES ASSUME i + 1 + (n + 1) <= Count(o) + 1
                 PROVE  Before(o)[i + 1] <= Before(o)[i + 1 + (n + 1)]
    OBVIOUS
  <2> DEFINE k == i + 1 + n
  <2>1. k \in 1..Count(o) /\ i + 1 + (n + 1) = k + 1
    BY <1>0, <2>0
  <2>2. Before(o)[k + 1] = Before(o)[k] + Size(o, k) /\ Size(o, k) \in Nat
    BY <1>0, <2>1, BeforeType
  <2>3. Before(o)[i + 1] <= Before(o)[k]
    BY <1>0, <1>2, <2>0
  <2>4. Before(o)[k] \in Nat /\ Before(o)[i + 1] \in Nat
    <3>1. k \in 1..(Count(o) + 1) /\ i + 1 \in 1..(Count(o) + 1)
      BY <1>0, <2>1
    <3> HIDE DEF k
    <3>2. Before(o) \in [1..(Count(o) + 1) -> Nat]
      BY BeforeType
    <3> QED  BY <3>1, <3>2
  <2> DEFINE a == Before(o)[i + 1]
             b == Before(o)[k]
             c == Size(o, k)
  <2> HIDE DEF k, a, b, c
  <2>5. a <= b + c
    <3>1. a \in Nat /\ b \in Nat /\ c \in Nat /\ a <= b
      BY <2>2, <2>3, <2>4 DEF a, b, c
    <3> QED  BY <3>1
  <2> QED  BY <2>1, <2>2, <2>5 DEF a, b, c
<1> HIDE DEF Above
<1>3. Nat \subseteq Above
  BY <1>1, <1>2, NaturalsInSet
<1>4. ASSUME NEW j \in 1..(Count(o) + 1), i < j PROVE Before(o)[i + 1] <= Before(o)[j]
  <2>1. j - (i + 1) \in Nat /\ i + 1 + (j - (i + 1)) = j
    BY <1>0, <1>4
  <2>2. j - (i + 1) \in Above
    BY <1>3, <2>1
  <2> QED  BY <1>0, <2>1, <2>2 DEF Above
<1> QED  BY <1>4

\* A place of the stream is in one file only.
LEMMA OneFile ==
  ASSUME NEW o \in Offers, NEW i \in 1..Count(o), NEW j \in 1..Count(o), NEW n \in Nat,
         Before(o)[i] <= n, n < Before(o)[i + 1], Before(o)[j] <= n, n < Before(o)[j + 1]
  PROVE  i = j
<1>0. Count(o) \in Nat
  BY CountType
<1>1. \A k \in 1..(Count(o) + 1) : Before(o)[k] \in Nat
  BY BeforeType
<1>2. ~(i < j)
  <2>1. i < j => Before(o)[i + 1] <= Before(o)[j]
    BY <1>0, BeforeIncreases
  <2> QED  BY <2>1, <1>0, <1>1
<1>3. ~(j < i)
  <2>1. j < i => Before(o)[j + 1] <= Before(o)[i]
    BY <1>0, BeforeIncreases
  <2> QED  BY <2>1, <1>0, <1>1
<1> QED  BY <1>0, <1>2, <1>3

\* The chunks of s are those of the stream from place n on.
Labelled(o, s, n) ==
  \A k \in 1..Len(s) : \E i \in 1..Count(o) :
    /\ s[k] = <<o, i>>
    /\ Before(o)[i] <= n + (k - 1) /\ n + (k - 1) < Before(o)[i + 1]

LEMMA LabelledAppend ==
  ASSUME NEW o \in Offers, NEW s \in Seq(Chunk), NEW n \in Nat, Labelled(o, s, n),
         NEW i \in 1..Count(o), Before(o)[i] <= n + Len(s), n + Len(s) < Before(o)[i + 1]
  PROVE  Labelled(o, Append(s, <<o, i>>), n)
<1> DEFINE t == Append(s, <<o, i>>)
<1>1. /\ Len(s) \in Nat /\ Len(t) = Len(s) + 1 /\ t[Len(s) + 1] = <<o, i>>
      /\ \A k \in 1..Len(s) : t[k] = s[k]
  BY ListedFile, AppendProperties, LenProperties
<1> HIDE DEF t
<1>2. ASSUME NEW k \in 1..Len(t)
      PROVE  \E j \in 1..Count(o) : /\ t[k] = <<o, j>>
                                    /\ Before(o)[j] <= n + (k - 1)
                                    /\ n + (k - 1) < Before(o)[j + 1]
  <2>1. CASE k = Len(s) + 1
    <3>1. n + (k - 1) = n + Len(s)
      BY <1>1, <2>1
    <3> QED  BY <1>1, <2>1, <3>1
  <2>2. CASE k \in 1..Len(s)
    BY <1>1, <2>2 DEF Labelled
  <2> QED  BY <1>1, <2>1, <2>2
<1> QED  BY <1>2 DEF Labelled, t

LEMMA LabelledTail ==
  ASSUME NEW o \in Offers, NEW s \in Seq(Chunk), s # <<>>, NEW n \in Nat, Labelled(o, s, n)
  PROVE  Labelled(o, Tail(s), n + 1)
<1>1. /\ Len(s) \in Nat /\ Len(Tail(s)) = Len(s) - 1
      /\ \A k \in 1..Len(Tail(s)) : Tail(s)[k] = s[k + 1]
  BY HeadTailProperties, LenProperties
<1> SUFFICES ASSUME NEW k \in 1..Len(Tail(s))
             PROVE  \E i \in 1..Count(o) : /\ Tail(s)[k] = <<o, i>>
                                           /\ Before(o)[i] <= n + 1 + (k - 1)
                                           /\ n + 1 + (k - 1) < Before(o)[i + 1]
  BY DEF Labelled
<1>2. k + 1 \in 1..Len(s) /\ n + ((k + 1) - 1) = n + 1 + (k - 1)
  BY <1>1
<1>3. PICK i \in 1..Count(o) : /\ s[k + 1] = <<o, i>>
                               /\ Before(o)[i] <= n + ((k + 1) - 1)
                               /\ n + ((k + 1) - 1) < Before(o)[i + 1]
  BY <1>2 DEF Labelled
<1> QED  BY <1>1, <1>2, <1>3

\* Where the sender of offer o is in its stream, and where a receiver r is in that of cur.
SentSoFar(o) == Before(o)[sfile[o]] + (IF spc[o] = "send" THEN spos[o] ELSE 0)
ReadSoFar(r) ==
  Before(cur)[rfile] + (IF rpc[r] \in {"chunk", "read"} THEN Size(cur, rfile) - left ELSE 0)

\* Receiver r reads a stream which is what the manifest says.
Receiving  == {"next", "chunk", "read"}
Usable(o)  == \A i \in 1..Count(o) : Dest(o, i) # NoPath
Regular(r) == rpc[r] \in Receiving /\ cur \notin drifted /\ Usable(cur)

\* A connection is handled once, and nothing is sent before its answer.
Once ==
  /\ \A o \in Offers : spc[o] \in {"next", "send"} \/ up[o] # <<>> => reply[o] = "yes"
  /\ \A o \in Offers : spc[o] = "idle" => conn[o] = "none"
  /\ \A o \in Offers : conn[o] \in {"none", "backlog"} => reply[o] = "none"
  /\ delivered \subseteq Offers /\ \A o \in delivered : conn[o] = "closed"
  /\ \A r \in Receivers : rpc[r] \in Busy => conn[cur] = "open"
  /\ \A r \in Receivers : rpc[r] = "asking" => reply[cur] = "none"
  /\ (\A r \in Receivers : rpc[r] \notin Receiving) => rfile = 1

\* The sender stays within its files.
Place ==
  /\ spos \in [Offers -> Nat] /\ slen \in [Offers -> Nat]
  /\ \A o \in Offers :
       /\ spc[o] \in {"idle", "waiting"} => sfile[o] = 1
       /\ spc[o] = "next" => sfile[o] <= Count(o) + 1
       /\ spc[o] = "send" /\ o \notin drifted =>
            slen[o] = Size(o, sfile[o]) /\ spos[o] <= slen[o]

\* Receiver r stays within its files, and what is under way is the stream from where it
\* is to where the sender is.
Aligned(r) ==
  /\ rfile <= Count(cur) + 1
  /\ rpc[r] \in {"chunk", "read"} => rfile <= Count(cur) /\ left <= Size(cur, rfile)
  /\ spc[cur] = "waiting" => ReadSoFar(r) = 0 /\ up[cur] = <<>>
  /\ spc[cur] \in {"next", "send"} => ReadSoFar(r) + Len(up[cur]) = SentSoFar(cur)
  /\ Labelled(cur, up[cur], ReadSoFar(r))

Stream == \A r \in Receivers : Regular(r) => Aligned(r)

\* The first n chunks of file i.
Part(o, i, n) == [k \in 1..n |-> <<o, i>>]

\* What has been read of the stream is in its files.
FiledBy(r) ==
  /\ \A i \in 1..Count(cur) : i < rfile /\ Alone(cur, i) =>
       disk[Dest(cur, i)] = Part(cur, i, Size(cur, i))
  /\ rpc[r] \in {"chunk", "read"} /\ Alone(cur, rfile) =>
       disk[Dest(cur, rfile)] = Part(cur, rfile, Size(cur, rfile) - left)

Filed == \A r \in Receivers : Regular(r) => FiledBy(r)

DInv == TInv /\ Once /\ Place /\ Stream /\ Filed /\ DeliveredIsWhole

LEMMA InitDInv == Init => DInv
<1> SUFFICES ASSUME Init PROVE DInv
  OBVIOUS
<1>1. TInv
  BY InitTInv
<1>2. Once /\ Place
  BY CountType, ShareConstants DEF Init, Once, Place, Receiving, Busy
<1>3. Stream /\ Filed
  BY DEF Init, Stream, Filed, Regular, Receiving
<1>4. DeliveredIsWhole
  BY DEF Init, DeliveredIsWhole
<1> QED  BY <1>1, <1>2, <1>3, <1>4 DEF DInv

LEMMA ShareTypes ==
  ASSUME TInv
  PROVE  /\ \A o \in Offers : up[o] \in Seq(Chunk) /\ Len(up[o]) \in Nat
         /\ spc \in [Offers -> {"idle", "waiting", "next", "send", "finished", "rejected",
                                "failed"}]
         /\ up \in [Offers -> Seq(Chunk)]
         /\ conn \in [Offers -> {"none", "backlog", "open", "closed"}]
         /\ reply \in [Offers -> {"none", "yes", "no"}]
         /\ rpc \in [Receivers -> {"off", "bind", "loop", "accept", "asking", "next", "chunk",
                                   "read", "stopped"}]
         /\ disk \in [Paths -> Seq(Chunk) \union {NoFile}]
         /\ rfile \in Nat \ {0} /\ left \in Nat
         /\ sfile \in [Offers -> Nat \ {0}]
         /\ \A o \in Offers : spc[o] = "send" => sfile[o] <= Count(o)
         /\ \A o \in Offers : Count(o) \in Nat
<1>1. \A o \in Offers : up[o] \in Seq(Chunk)
  BY DEF TInv, TypeOK
<1>2. \A o \in Offers : Len(up[o]) \in Nat
  BY <1>1, LenProperties
<1> QED  BY <1>1, <1>2, CountType DEF TInv, TypeOK, SendPlace

\* Where a regular receiver is, as a number.
LEMMA ReadPlace ==
  ASSUME TInv, NEW r \in Receivers, Regular(r), Aligned(r)
  PROVE  /\ cur \in Offers /\ rfile \in 1..(Count(cur) + 1)
         /\ Before(cur)[rfile] \in Nat /\ ReadSoFar(r) \in Nat
         /\ rfile <= Count(cur) => Size(cur, rfile) \in Nat
<1>1. cur \in Offers
  BY DEF TInv, OfferAtHand, Regular, Receiving, Busy
<1>2. rfile \in 1..(Count(cur) + 1)
  BY <1>1, ShareTypes DEF Aligned
<1>3. Before(cur)[rfile] \in Nat
  BY <1>1, <1>2, BeforeType
<1>4. rfile <= Count(cur) => Size(cur, rfile) \in Nat
  <2> SUFFICES ASSUME rfile <= Count(cur) PROVE Size(cur, rfile) \in Nat
    OBVIOUS
  <2>1. rfile \in 1..Count(cur)
    BY <1>1, <1>2, ShareTypes
  <2> QED  BY <1>1, <2>1, ListedFile
<1>5. ReadSoFar(r) \in Nat
  BY <1>1, <1>2, <1>3, <1>4, ShareTypes DEF Aligned, ReadSoFar
<1> QED  BY <1>1, <1>2, <1>3, <1>4, <1>5

-----------------------------------------------------------------------------
(* The sender's steps: what they change is the end of the stream.          *)

LEMMA SenderKeepsFiles ==
  ASSUME DInv, UNCHANGED <<rpc, cur, rfile, left, disk, delivered>>, drifted \subseteq drifted'
  PROVE  Filed' /\ DeliveredIsWhole'
<1>1. \A r \in Receivers : Regular(r)' => Regular(r)
  BY DEF Regular, Usable
<1>2. Filed'
  BY <1>1 DEF DInv, Filed, FiledBy
<1>3. DeliveredIsWhole'
  BY DEF DInv, DeliveredIsWhole
<1> QED  BY <1>2, <1>3

\* A receiver whose stream did not change is still aligned.
LEMMA StreamKept ==
  ASSUME DInv, NEW r \in Receivers, Regular(r), UNCHANGED <<cur, rfile, left, rpc>>,
         up'[cur] = up[cur],
         spc'[cur] = "waiting" => spc[cur] = "waiting",
         spc'[cur] \in {"next", "send"} =>
           /\ spc[cur] = "waiting" => SentSoFar(cur)' = 0
           /\ spc[cur] # "waiting" => spc[cur] \in {"next", "send"} /\ SentSoFar(cur)' = SentSoFar(cur)
  PROVE  Aligned(r)'
<1>1. Aligned(r)
  BY DEF DInv, Stream
<1>2. ReadSoFar(r)' = ReadSoFar(r)
  BY DEF ReadSoFar
<1>3. Labelled(cur, up[cur], ReadSoFar(r))' <=> Labelled(cur, up[cur], ReadSoFar(r))
  BY <1>2 DEF Labelled
<1>4. ReadSoFar(r) \in Nat
  BY <1>1, ReadPlace DEF DInv
<1>5. spc'[cur] \in {"next", "send"} => (ReadSoFar(r) + Len(up[cur]) = SentSoFar(cur))'
  <2>1. CASE spc[cur] = "waiting"
    <3>1. ReadSoFar(r) = 0 /\ Len(up[cur]) = 0
      BY <1>1, <2>1 DEF Aligned
    <3> QED  BY <1>2, <2>1, <3>1
  <2>2. CASE spc[cur] # "waiting"
    BY <1>1, <1>2, <2>2 DEF Aligned
  <2> QED  BY <2>1, <2>2
<1> QED  BY <1>1, <1>2, <1>3, <1>5 DEF Aligned

LEMMA SenderDelivery ==
  ASSUME DInv, NEW o \in Offers, Connect(o) \/ Sender(o) \/ SenderFails(o)
  PROVE  DInv'
<1> USE DEF sendVars, wireVars, recvVars, tabVars, histVars
<1>1. TInv'
  BY SenderStepType DEF DInv
<1>2. /\ UNCHANGED <<reply, rpc, cur, rfile, left, disk, delivered>>
      /\ drifted \subseteq drifted'
  BY DEF Connect, Sender, SenderFails, ReadReply, ReplyLost, OpenNext, SendFinished, SendChunk,
         EndOfFile, WriteFails
<1>3. Filed' /\ DeliveredIsWhole'
  BY <1>2, SenderKeepsFiles
<1>4. \A r \in Receivers : Regular(r)' => Regular(r) /\ cur \in Offers /\ conn[cur] = "open"
                                          /\ spc[cur] # "idle"
  BY <1>2 DEF Regular, Usable, DInv, TInv, OfferAtHand, Once, Receiving, Busy
<1>5. SUFFICES Once' /\ Place' /\ Stream'
  BY <1>1, <1>3 DEF DInv
<1>6. CASE Connect(o)
  <2>1. Once'
    <3>1. /\ spc[o] = "idle" /\ conn[o] = "none" /\ reply[o] = "none" /\ UNCHANGED up
          /\ \E l \in {"failed", "waiting"} : spc' = [spc EXCEPT ![o] = l]
          /\ \A p \in Offers \ {o} : conn'[p] = conn[p]
          /\ conn'[o] \in {"none", "backlog"} /\ (spc'[o] = "idle" => conn'[o] = "none")
      BY <1>6, ShareTypes DEF DInv, Connect, Once
    <3>2. \A p \in Offers : conn[p] \in {"open", "closed"} => conn'[p] = conn[p]
      BY <3>1
    <3>3. \A r \in Receivers : rpc[r] \in Busy => cur \in Offers
      BY DEF DInv, TInv, OfferAtHand
    <3> QED  BY <1>2, <3>1, <3>2, <3>3, ShareTypes DEF DInv, Once
  <2>2. Place'
    BY <1>2, <1>6, ShareTypes DEF DInv, Connect, Place
  <2>3. Stream'
    <3> SUFFICES ASSUME NEW r \in Receivers, Regular(r)' PROVE Aligned(r)'
      BY DEF Stream
    <3>1. cur # o
      BY <1>4, <1>6 DEF Connect
    <3>2. spc'[cur] = spc[cur] /\ up' = up /\ SentSoFar(cur)' = SentSoFar(cur)
      BY <1>4, <1>6, <3>1, <1>2, ShareTypes DEF DInv, Connect, SentSoFar
    <3>3. spc[cur] \in {"next", "send"} => spc[cur] # "waiting"
      OBVIOUS
    <3> QED  BY <1>2, <1>4, <3>2, <3>3, StreamKept
  <2> QED  BY <2>1, <2>2, <2>3
<1>7. CASE ReadReply(o) /\ reply[o] = "yes"
  <2>0. /\ spc[o] = "waiting" /\ spc' = [spc EXCEPT ![o] = "next"]
        /\ UNCHANGED <<sfile, spos, slen, up, conn, drifted>>
    BY <1>7 DEF ReadReply
  <2>1. Once'
    BY <1>2, <1>7, <2>0, ShareTypes DEF DInv, Once, Busy
  <2>2. Place'
    BY <2>0, ShareTypes DEF DInv, Place
  <2>3. Stream'
    <3> SUFFICES ASSUME NEW r \in Receivers, Regular(r)' PROVE Aligned(r)'
      BY DEF Stream
    <3>1. CASE cur = o
      <4>1. SentSoFar(cur)' = 0
        BY <1>2, <1>4, <2>0, <3>1, ShareTypes, BeforeType DEF DInv, Place, SentSoFar
      <4> QED  BY <1>2, <1>4, <2>0, <3>1, <4>1, StreamKept
    <3>2. CASE cur # o
      <4>1. spc'[cur] = spc[cur] /\ up' = up /\ SentSoFar(cur)' = SentSoFar(cur)
        BY <1>2, <1>4, <2>0, <3>2, ShareTypes DEF DInv, SentSoFar
      <4> QED  BY <1>2, <1>4, <2>0, <4>1, StreamKept
    <3> QED  BY <3>1, <3>2
  <2> QED  BY <2>1, <2>2, <2>3
<1>8. CASE \/ ReadReply(o) /\ reply[o] # "yes"
           \/ ReplyLost(o) \/ SendFinished(o) \/ WriteFails(o) \/ SenderFails(o)
  <2>0. PICK l \in {"finished", "rejected", "failed"} : SendEnds(o, l)
    BY <1>8 DEF ReadReply, ReplyLost, SendFinished, WriteFails, SenderFails
  <2>1. UNCHANGED <<up, conn, drifted>> /\ spc[o] # "idle"
    BY <1>8 DEF ReadReply, ReplyLost, SendFinished, WriteFails, SenderFails, SenderOpen
  <2>2. Once'
    BY <1>2, <2>0, <2>1, ShareTypes DEF DInv, SendEnds, Once, Busy
  <2>3. Place'
    BY <2>0, <2>1, ShareTypes DEF DInv, SendEnds, Place
  <2>4. Stream'
    <3> SUFFICES ASSUME NEW r \in Receivers, Regular(r)' PROVE Aligned(r)'
      BY DEF Stream
    <3>1. CASE cur = o
      BY <1>2, <1>4, <2>0, <2>1, <3>1, StreamKept, ShareTypes DEF DInv, SendEnds
    <3>2. CASE cur # o
      <4>1. spc'[cur] = spc[cur] /\ up' = up /\ SentSoFar(cur)' = SentSoFar(cur)
        BY <1>2, <1>4, <2>0, <2>1, <3>2, ShareTypes DEF DInv, SendEnds, SentSoFar
      <4> QED  BY <1>2, <1>4, <2>0, <4>1, StreamKept
    <3> QED  BY <3>1, <3>2
  <2> QED  BY <2>2, <2>3, <2>4
<1>9. CASE OpenNext(o)
  <2>0. /\ spc[o] = "next" /\ sfile[o] \in 1..Count(o)
        /\ spc' = [spc EXCEPT ![o] = "send"] /\ spos' = [spos EXCEPT ![o] = 0]
        /\ UNCHANGED <<sfile, up, conn>>
    BY <1>9, ShareTypes DEF DInv, OpenNext
  <2>1. PICK n \in Nat : /\ slen' = [slen EXCEPT ![o] = n]
                         /\ n = Size(o, sfile[o]) \/ o \in drifted'
    <3>1. Size(o, sfile[o]) \in Nat /\ Drift[o] \subseteq Nat
      BY <2>0, ListedFile, ShareTypes, ShareConstants DEF DInv
    <3> DEFINE listed == Size(o, sfile[o])
               Kept(d) == IF d <= listed THEN listed - d ELSE 0
    <3>2. PICK n \in UNION {{listed + d, Kept(d)} : d \in Drift[o]} :
            /\ slen' = [slen EXCEPT ![o] = n]
            /\ drifted' = IF n = listed THEN drifted ELSE drifted \union {o}
      BY <1>9 DEF OpenNext
    <3>3. n \in Nat
      BY <3>1, <3>2
    <3> QED  BY <3>2, <3>3
  <2>2. Once'
    BY <1>2, <2>0, ShareTypes DEF DInv, Once, Busy
  <2>3. Place'
    <3>1. spos' \in [Offers -> Nat] /\ slen' \in [Offers -> Nat]
      BY <2>0, <2>1 DEF DInv, Place
    <3>2. ASSUME NEW p \in Offers
          PROVE  /\ spc'[p] \in {"idle", "waiting"} => sfile'[p] = 1
                 /\ spc'[p] = "next" => sfile'[p] <= Count(p) + 1
                 /\ spc'[p] = "send" /\ p \notin drifted' =>
                      slen'[p] = Size(p, sfile'[p]) /\ spos'[p] <= slen'[p]
      <4>1. CASE p = o
        BY <2>0, <2>1, <4>1, ShareTypes DEF DInv, Place
      <4>2. CASE p # o
        <5>1. spc'[p] = spc[p] /\ slen'[p] = slen[p] /\ spos'[p] = spos[p] /\ sfile'[p] = sfile[p]
          BY <2>0, <2>1, <4>2, ShareTypes DEF DInv, Place
        <5> QED  BY <1>2, <5>1 DEF DInv, Place
      <4> QED  BY <4>1, <4>2
    <3> QED  BY <3>1, <3>2 DEF Place
  <2>4. Stream'
    <3> SUFFICES ASSUME NEW r \in Receivers, Regular(r)' PROVE Aligned(r)'
      BY DEF Stream
    <3>1. CASE cur = o
      <4>1. SentSoFar(cur)' = Before(o)[sfile[o]] + 0 /\ SentSoFar(cur) = Before(o)[sfile[o]] + 0
        BY <1>2, <2>0, <3>1, ShareTypes DEF DInv, Place, SentSoFar
      <4> QED  BY <1>2, <1>4, <2>0, <3>1, <4>1, StreamKept, ShareTypes DEF DInv
    <3>2. CASE cur # o
      <4>1. spc'[cur] = spc[cur] /\ up' = up /\ SentSoFar(cur)' = SentSoFar(cur)
        BY <1>2, <1>4, <2>0, <2>1, <3>2, ShareTypes DEF DInv, Place, SentSoFar
      <4> QED  BY <1>2, <1>4, <2>0, <4>1, StreamKept
    <3> QED  BY <3>1, <3>2
  <2> QED  BY <2>2, <2>3, <2>4
<1>10. CASE EndOfFile(o)
  <2>0. /\ spc[o] = "send" /\ spos[o] = slen[o] /\ sfile[o] \in 1..Count(o)
        /\ spc' = [spc EXCEPT ![o] = "next"] /\ sfile' = [sfile EXCEPT ![o] = @ + 1]
        /\ UNCHANGED <<spos, slen, up, conn, drifted>>
    BY <1>10, ShareTypes DEF DInv, EndOfFile
  <2>2. Once'
    BY <1>2, <2>0, ShareTypes DEF DInv, Once, Busy
  <2>3. Place'
    BY <2>0, ShareTypes DEF DInv, Place
  <2>4. Stream'
    <3> SUFFICES ASSUME NEW r \in Receivers, Regular(r)' PROVE Aligned(r)'
      BY DEF Stream
    <3>1. CASE cur = o
      <4>0. spos[o] = Size(o, sfile[o])
        BY <1>4, <2>0, <3>1 DEF DInv, Place, Regular
      <4>1. SentSoFar(cur)' = SentSoFar(cur)
        <5>1. SentSoFar(cur) = Before(o)[sfile[o]] + Size(o, sfile[o])
          BY <2>0, <3>1, <4>0 DEF SentSoFar
        <5>2. SentSoFar(cur)' = Before(o)[sfile[o] + 1] + 0
          BY <1>2, <2>0, <3>1, ShareTypes DEF DInv, SentSoFar
        <5>3. Before(o)[sfile[o] + 1] = Before(o)[sfile[o]] + Size(o, sfile[o])
          BY <2>0, BeforeType
        <5>4. Before(o)[sfile[o] + 1] \in Nat
          <6>1. sfile[o] + 1 \in 1..(Count(o) + 1)
            BY <2>0, CountType
          <6> QED  BY <6>1, BeforeType
        <5> QED  BY <5>1, <5>2, <5>3, <5>4
      <4> QED  BY <1>2, <1>4, <2>0, <3>1, <4>1, StreamKept, ShareTypes DEF DInv
    <3>2. CASE cur # o
      <4>1. spc'[cur] = spc[cur] /\ up' = up /\ SentSoFar(cur)' = SentSoFar(cur)
        BY <1>2, <1>4, <2>0, <3>2, ShareTypes DEF DInv, Place, SentSoFar
      <4> QED  BY <1>2, <1>4, <2>0, <4>1, StreamKept
    <3> QED  BY <3>1, <3>2
  <2> QED  BY <2>2, <2>3, <2>4
<1>11. CASE SendChunk(o)
  <2>0. /\ spc[o] = "send" /\ spos[o] < slen[o] /\ sfile[o] \in 1..Count(o)
        /\ up' = IF conn[o] = "closed" THEN up ELSE [up EXCEPT ![o] = Append(@, <<o, sfile[o]>>)]
        /\ spos' = [spos EXCEPT ![o] = @ + 1]
        /\ UNCHANGED <<spc, sfile, slen, conn, drifted>>
    BY <1>11, ShareTypes DEF DInv, SendChunk
  <2>2. Once'
    <3>1. reply[o] = "yes"
      BY <2>0 DEF DInv, Once
    <3>2. \A p \in Offers : up'[p] # <<>> => reply[p] = "yes"
      BY <2>0, <3>1, ShareTypes DEF DInv, Once
    <3> QED  BY <1>2, <2>0, <3>2 DEF DInv, Once, Busy
  <2>3. Place'
    BY <2>0, ShareTypes DEF DInv, Place
  <2>4. Stream'
    <3> SUFFICES ASSUME NEW r \in Receivers, Regular(r)' PROVE Aligned(r)'
      BY DEF Stream
    <3>1. CASE cur = o
      <4> DEFINE n == ReadSoFar(r)
                 s == up[o]
      <4>0. Aligned(r) /\ Regular(r)
        BY <1>4 DEF DInv, Stream
      <4>1. n \in Nat /\ s \in Seq(Chunk) /\ Len(s) \in Nat
        BY <4>0, ReadPlace, ShareTypes DEF DInv
      <4>2. up'[o] = Append(s, <<o, sfile[o]>>) /\ Len(up'[o]) = Len(s) + 1
        <5>1. conn[o] # "closed"
          BY <1>4, <3>1
        <5>2. up'[o] = Append(s, <<o, sfile[o]>>)
          BY <2>0, <5>1, ShareTypes DEF DInv
        <5> QED  BY <2>0, <4>1, <5>2, ListedFile, AppendProperties
      <4>3. n + Len(s) = Before(o)[sfile[o]] + spos[o]
        BY <2>0, <3>1, <4>0 DEF Aligned, SentSoFar
      <4>4. /\ Before(o)[sfile[o]] \in Nat /\ spos[o] \in Nat
            /\ Before(o)[sfile[o] + 1] = Before(o)[sfile[o]] + slen[o] /\ slen[o] \in Nat
        <5>1. slen[o] = Size(o, sfile[o])
          BY <2>0, <3>1, <4>0 DEF DInv, Place, Regular
        <5> QED  BY <2>0, <5>1, BeforeType, ShareTypes DEF DInv, Place
      <4>5. n' = n
        BY <1>2 DEF ReadSoFar
      <4>6. Labelled(o, up'[o], n)
        <5>1. Before(o)[sfile[o]] <= n + Len(s) /\ n + Len(s) < Before(o)[sfile[o] + 1]
          BY <2>0, <4>3, <4>4
        <5>2. Labelled(o, s, n)
          BY <3>1, <4>0 DEF Aligned
        <5> HIDE DEF n, s
        <5> QED  BY <2>0, <4>1, <4>2, <5>1, <5>2, LabelledAppend
      <4>7. SentSoFar(o)' = Before(o)[sfile[o]] + (spos[o] + 1)
        BY <2>0, <4>4 DEF SentSoFar, DInv, Place
      <4>8. n + Len(up'[o]) = SentSoFar(o)'
        <5>1. /\ n \in Nat /\ Len(s) \in Nat /\ Before(o)[sfile[o]] \in Nat /\ spos[o] \in Nat
              /\ n + Len(s) = Before(o)[sfile[o]] + spos[o]
              /\ Len(up'[o]) = Len(s) + 1 /\ SentSoFar(o)' = Before(o)[sfile[o]] + (spos[o] + 1)
          BY <4>1, <4>2, <4>3, <4>4, <4>7
        <5> DEFINE l == Len(s)
                   b == Before(o)[sfile[o]]
        <5> HIDE DEF n, l, b
        <5>2. n + (l + 1) = b + (spos[o] + 1)
          BY <5>1 DEF l, b
        <5> QED  BY <5>1, <5>2 DEF l, b
      <4>9. Labelled(cur, up[cur], ReadSoFar(r))'
        BY <1>2, <3>1, <4>5, <4>6 DEF Labelled
      <4> HIDE DEF n, s
      <4>10. (ReadSoFar(r) + Len(up[cur]) = SentSoFar(cur))'
        BY <1>2, <3>1, <4>5, <4>8 DEF n, SentSoFar
      <4> QED  BY <1>2, <2>0, <3>1, <4>0, <4>9, <4>10 DEF Aligned
    <3>2. CASE cur # o
      <4>1. spc'[cur] = spc[cur] /\ up'[cur] = up[cur] /\ SentSoFar(cur)' = SentSoFar(cur)
        BY <1>2, <1>4, <2>0, <3>2, ShareTypes DEF DInv, Place, SentSoFar
      <4> QED  BY <1>2, <1>4, <2>0, <4>1, StreamKept
    <3> QED  BY <3>1, <3>2
  <2> QED  BY <2>2, <2>3, <2>4
<1> QED  BY <1>6, <1>7, <1>8, <1>9, <1>10, <1>11 DEF Sender

-----------------------------------------------------------------------------
(* The receiver's steps and the tab's.                                     *)

\* What a receiver writes is not in a file of an offer that was delivered.
LEMMA WriteKeepsDelivered ==
  ASSUME DInv, NEW r \in Receivers, rpc[r] \in Receiving, NEW i \in 1..Count(cur), NEW c,
         disk' = [disk EXCEPT ![Dest(cur, i)] = c], UNCHANGED <<delivered, drifted>>
  PROVE  DeliveredIsWhole'
<1>1. cur \in Offers /\ cur \notin delivered
  BY DEF DInv, TInv, OfferAtHand, Once, Receiving, Busy
<1>2. delivered \subseteq Offers /\ disk \in [Paths -> Seq(Chunk) \union {NoFile}]
  BY ShareTypes DEF DInv, Once
<1> SUFFICES ASSUME NEW o \in delivered \ drifted, \A j \in 1..Count(o) : Dest(o, j) # NoPath,
                    NEW j \in 1..Count(o), Alone(o, j)
             PROVE  disk'[Dest(o, j)] = [k \in 1..Size(o, j) |-> <<o, j>>]
  BY DEF DeliveredIsWhole, Alone
<1>3. disk[Dest(o, j)] = [k \in 1..Size(o, j) |-> <<o, j>>]
  BY DEF DInv, DeliveredIsWhole
<1>4. Dest(cur, i) # Dest(o, j)
  BY <1>1 DEF Alone
<1>5. Dest(o, j) \in Paths
  BY <1>2, ListedFile
<1> QED  BY <1>2, <1>3, <1>4, <1>5

\* A step that reads and writes nothing and takes no receiver to another connection.
LEMMA StillDelivery ==
  ASSUME DInv, TInv',
         UNCHANGED <<spc, sfile, spos, slen, conn, up, reply, cur, rfile, left, disk, delivered,
                     drifted>>,
         \A r \in Receivers : rpc'[r] = rpc[r] \/ (rpc[r] \notin Busy /\ rpc'[r] \notin Busy)
  PROVE  DInv'
<1>1. Once' /\ Place'
  <2>1. \A r \in Receivers : (rpc'[r] \in Busy <=> rpc[r] \in Busy)
    OBVIOUS
  <2>2. \A r \in Receivers : (rpc'[r] \in Receiving <=> rpc[r] \in Receiving)
                             /\ (rpc'[r] = "asking" <=> rpc[r] = "asking")
    BY DEF Receiving, Busy
  <2> QED  BY <2>1, <2>2 DEF DInv, Once, Place
<1>2. \A r \in Receivers : Regular(r)' => Regular(r) /\ rpc'[r] = rpc[r]
  BY DEF Regular, Usable, Receiving, Busy
<1>3. Stream'
  BY <1>2 DEF DInv, Stream, Aligned, Labelled, ReadSoFar, SentSoFar
<1>4. Filed'
  BY <1>2 DEF DInv, Filed, FiledBy
<1>5. DeliveredIsWhole'
  BY DEF DInv, DeliveredIsWhole
<1> QED  BY <1>1, <1>3, <1>4, <1>5 DEF DInv

\* handle_incoming returns: nothing is at hand afterwards.
LEMMA CloseDelivery ==
  ASSUME DInv, TInv', NEW r \in Receivers, rpc[r] \in Busy, Close(r, "no"),
         UNCHANGED <<sendVars, disk, drifted>>,
         delivered' \in {delivered, delivered \union {cur}}, DeliveredIsWhole'
  PROVE  DInv'
<1> USE DEF sendVars
<1>1. cur \in Offers /\ rpc' = [rpc EXCEPT ![r] = "loop"]
  BY DEF DInv, TInv, OfferAtHand, Close, Goto
<1>2. \A q \in Receivers : rpc'[q] \notin Busy
  BY <1>1, OneBusy, ShareTypes DEF DInv, TInv, Busy, Holding
<1>3. Stream' /\ Filed'
  BY <1>2 DEF Stream, Filed, Regular, Receiving, Busy
<1>4. /\ conn' = [conn EXCEPT ![cur] = "closed"]
      /\ reply' = [reply EXCEPT ![cur] = IF @ = "none" THEN "no" ELSE @]
      /\ up' = [up EXCEPT ![cur] = <<>>] /\ rfile' = 1
  BY DEF Close
<1>5. Once'
  <2>1. ASSUME NEW o \in Offers
        PROVE  /\ spc'[o] \in {"next", "send"} \/ up'[o] # <<>> => reply'[o] = "yes"
               /\ spc'[o] = "idle" => conn'[o] = "none"
               /\ conn'[o] \in {"none", "backlog"} => reply'[o] = "none"
    <3>1. CASE o = cur
      <4>1. conn[o] = "open"
        BY <3>1 DEF DInv, Once
      <4> QED  BY <1>4, <3>1, <4>1, ShareTypes DEF DInv, Once
    <3>2. CASE o # cur
      <4>1. conn'[o] = conn[o] /\ reply'[o] = reply[o] /\ up'[o] = up[o]
        BY <1>4, <3>2, ShareTypes DEF DInv
      <4> QED  BY <4>1 DEF DInv, Once
    <3> QED  BY <3>1, <3>2
  <2>2. delivered' \subseteq Offers /\ \A o \in delivered' : conn'[o] = "closed"
    BY <1>1, <1>4, ShareTypes DEF DInv, Once
  <2> QED  BY <1>2, <1>4, <2>1, <2>2 DEF Once, Busy
<1>6. Place'
  BY DEF DInv, Place
<1> QED  BY <1>3, <1>5, <1>6 DEF DInv

LEMMA AnsweredDelivery ==
  ASSUME DInv, TInv', NEW r \in Receivers, Answered(r), answer = "yes"
  PROVE  DInv'
<1> USE DEF sendVars, wireVars, tabVars, histVars
<1>1. /\ rpc[r] = "asking" /\ rpc' = [rpc EXCEPT ![r] = "next"]
      /\ reply' = [reply EXCEPT ![cur] = "yes"]
      /\ UNCHANGED <<spc, sfile, spos, slen, conn, up, cur, rfile, left, disk, delivered, drifted>>
  BY DEF Answered, Goto
<1>2. /\ cur \in Offers /\ conn[cur] = "open" /\ reply[cur] = "none" /\ up[cur] = <<>>
      /\ spc[cur] \notin {"next", "send"} /\ rpc'[r] = "next"
  BY <1>1, ShareTypes DEF DInv, TInv, OfferAtHand, Once, Busy
<1>3. \A q \in Receivers : q # r => rpc'[q] = rpc[q] /\ rpc[q] \notin Busy
  BY <1>1, OneBusy, ShareTypes DEF DInv, TInv, Busy, Holding
<1>4. rfile = 1
  <2>1. \A q \in Receivers : rpc[q] \notin Receiving
    BY <1>1, <1>3 DEF Receiving, Busy
  <2> QED  BY <2>1 DEF DInv, Once
<1>5. Once'
  <2>1. \A o \in Offers : o # cur => reply'[o] = reply[o]
    BY <1>1, ShareTypes DEF DInv
  <2>2. reply'[cur] = "yes"
    BY <1>1, <1>2, ShareTypes DEF DInv
  <2>3. rfile' = 1
    BY <1>1, <1>4
  <2>4. \A q \in Receivers : rpc'[q] # "asking"
    BY <1>2, <1>3 DEF Busy
  <2>5. \A q \in Receivers : rpc'[q] \in Busy => conn'[cur'] = "open"
    BY <1>1, <1>2
  <2>6. \A o \in Offers :
          /\ spc'[o] \in {"next", "send"} \/ up'[o] # <<>> => reply'[o] = "yes"
          /\ spc'[o] = "idle" => conn'[o] = "none"
          /\ conn'[o] \in {"none", "backlog"} => reply'[o] = "none"
    BY <1>1, <1>2, <2>1, <2>2 DEF DInv, Once
  <2>7. delivered' \subseteq Offers /\ \A o \in delivered' : conn'[o] = "closed"
    BY <1>1 DEF DInv, Once
  <2> QED  BY <2>3, <2>4, <2>5, <2>6, <2>7 DEF Once
<1>6. Place'
  BY <1>1 DEF DInv, Place
<1>7. Stream'
  <2> SUFFICES ASSUME NEW q \in Receivers, Regular(q)' PROVE Aligned(q)'
    BY DEF Stream
  <2>1. q = r
    BY <1>3 DEF Regular, Receiving, Busy
  <2>2. Count(cur) \in Nat /\ ReadSoFar(q)' = 0
    BY <1>1, <1>2, <1>4, <2>1, BeforeType, CountType DEF ReadSoFar
  <2>3. Labelled(cur, up[cur], ReadSoFar(q))'
    BY <1>1, <1>2 DEF Labelled
  <2> QED  BY <1>1, <1>2, <1>4, <2>1, <2>2, <2>3 DEF Aligned
<1>8. Filed'
  <2> SUFFICES ASSUME NEW q \in Receivers, Regular(q)' PROVE FiledBy(q)'
    BY DEF Filed
  <2>1. q = r
    BY <1>3 DEF Regular, Receiving, Busy
  <2> QED  BY <1>1, <1>2, <1>4, <2>1 DEF FiledBy
<1>9. DeliveredIsWhole'
  BY <1>1 DEF DInv, DeliveredIsWhole
<1> QED  BY <1>5, <1>6, <1>7, <1>8, <1>9 DEF DInv

LEMMA PartGrows ==
  ASSUME NEW o \in Offers, NEW i \in 1..Count(o), NEW n \in Nat
  PROVE  Append(Part(o, i, n), <<o, i>>) = Part(o, i, n + 1)
<1>1. Part(o, i, n) \in Seq(Chunk) /\ Len(Part(o, i, n)) = n
  BY ListedFile DEF Part
<1>2. Part(o, i, n + 1) \in Seq(Chunk) /\ Len(Part(o, i, n + 1)) = n + 1
  BY ListedFile DEF Part
<1>3. /\ Append(Part(o, i, n), <<o, i>>) \in Seq(Chunk)
      /\ Len(Append(Part(o, i, n), <<o, i>>)) = n + 1
      /\ \A k \in 1..(n + 1) : Append(Part(o, i, n), <<o, i>>)[k] = <<o, i>>
  <2>1. \A k \in 1..n : Part(o, i, n)[k] = <<o, i>>
    BY DEF Part
  <2> HIDE DEF Part
  <2> QED  BY <1>1, <2>1, ListedFile, AppendProperties
<1>4. \A k \in 1..(n + 1) : Part(o, i, n + 1)[k] = <<o, i>>
  BY DEF Part
<1> HIDE DEF Part
<1> QED  BY <1>2, <1>3, <1>4, SeqEqual

\* What NextFile, NextChunk and ReadChunk have in common: r goes on inside its offer.
LEMMA ReadingDelivery ==
  ASSUME DInv, TInv', NEW r \in Receivers, rpc[r] \in Receiving,
         NEW l \in Receiving, rpc' = [rpc EXCEPT ![r] = l],
         UNCHANGED <<spc, sfile, spos, slen, conn, reply, cur, delivered, drifted>>,
         \A o \in Offers : up'[o] = up[o] \/ (o = cur /\ up[o] # <<>>),
         DeliveredIsWhole', Regular(r) => Aligned(r)' /\ FiledBy(r)'
  PROVE  DInv'
<1>1. rpc'[r] = l /\ \A q \in Receivers : q # r => rpc'[q] = rpc[q] /\ rpc[q] \notin Busy
  BY OneBusy, ShareTypes DEF DInv, TInv, Receiving, Busy, Holding
<1>2. Once'
  <2>1. \A o \in Offers : up'[o] # <<>> => up[o] # <<>>
    OBVIOUS
  <2>2. \A q \in Receivers : rpc'[q] \in Busy => rpc[q] \in Busy
    BY <1>1 DEF Receiving, Busy
  <2>3. \A q \in Receivers : rpc'[q] # "asking"
    BY <1>1 DEF Receiving, Busy
  <2> QED  BY <1>1, <2>1, <2>2, <2>3 DEF DInv, Once
<1>3. Place'
  BY DEF DInv, Place
<1>4. \A q \in Receivers : Regular(q)' => q = r /\ Regular(r)
  BY <1>1 DEF Regular, Usable, Receiving, Busy
<1>5. Stream' /\ Filed'
  BY <1>4 DEF Stream, Filed
<1> QED  BY <1>2, <1>3, <1>5 DEF DInv

\* What a step of r means for the sender's side if the wire stays as it is.
LEMMA WireKept ==
  ASSUME UNCHANGED <<spc, sfile, spos, up, cur>>, NEW r \in Receivers, Aligned(r),
         ReadSoFar(r)' = ReadSoFar(r)
  PROVE  /\ (spc[cur] = "waiting" => ReadSoFar(r) = 0 /\ up[cur] = <<>>)'
         /\ (spc[cur] \in {"next", "send"} => ReadSoFar(r) + Len(up[cur]) = SentSoFar(cur))'
         /\ Labelled(cur, up[cur], ReadSoFar(r))'
  BY DEF Aligned, SentSoFar, Labelled

LEMMA NextFileDelivery ==
  ASSUME DInv, TInv', NEW r \in Receivers, NextFile(r)
  PROVE  DInv'
<1> USE DEF sendVars, wireVars, tabVars, histVars
<1>1. /\ rpc[r] = "next" /\ cur \in Offers /\ rfile \in 1..Count(cur)
      /\ UNCHANGED <<spc, sfile, spos, slen, conn, up, reply, cur, delivered, drifted>>
  BY ShareTypes DEF NextFile, DInv, TInv, OfferAtHand, Busy
<1>2. CASE Dest(cur, rfile) = NoPath
  <2>1. rpc' = [rpc EXCEPT ![r] = "next"] /\ UNCHANGED disk
    BY <1>1, <1>2, ShareTypes DEF NextFile, DInv
  <2>2. ~Regular(r)
    BY <1>1, <1>2 DEF Regular, Usable
  <2>3. DeliveredIsWhole'
    BY <1>1, <2>1 DEF DInv, DeliveredIsWhole
  <2> QED  BY <1>1, <2>1, <2>2, <2>3, ReadingDelivery DEF Receiving
<1>3. CASE Dest(cur, rfile) # NoPath
  <2>1. /\ rpc' = [rpc EXCEPT ![r] = "chunk"] /\ rpc'[r] = "chunk"
        /\ disk' = [disk EXCEPT ![Dest(cur, rfile)] = <<>>]
        /\ left' = Size(cur, rfile) /\ rfile' = rfile
    BY <1>1, <1>3, ShareTypes DEF NextFile, Goto, DInv
  <2>2. DeliveredIsWhole'
    BY <1>1, <2>1, WriteKeepsDelivered DEF Receiving
  <2>3. ASSUME Regular(r) PROVE Aligned(r)' /\ FiledBy(r)'
    <3>1. Aligned(r) /\ FiledBy(r)
      BY <2>3 DEF DInv, Stream, Filed
    <3>2. Size(cur, rfile) \in Nat /\ Before(cur)[rfile] \in Nat /\ Count(cur) \in Nat
      BY <1>1, <2>3, <3>1, ReadPlace, CountType, ListedFile DEF DInv
    <3>3. ReadSoFar(r)' = ReadSoFar(r)
      BY <1>1, <2>1, <3>2 DEF ReadSoFar
    <3>4. Aligned(r)'
      <4>1. (rfile <= Count(cur) + 1)' /\ (rfile <= Count(cur) /\ left <= Size(cur, rfile))'
        BY <1>1, <2>1, <3>2
      <4> QED  BY <1>1, <3>1, <3>3, <4>1, WireKept DEF Aligned
    <3>5. FiledBy(r)'
      <4>1. ASSUME NEW i \in 1..Count(cur), i < rfile, Alone(cur, i)
            PROVE  disk'[Dest(cur, i)] = Part(cur, i, Size(cur, i))
        <5>1. Dest(cur, i) # Dest(cur, rfile)
          BY <1>1, <3>2, <4>1 DEF Alone
        <5>2. Dest(cur, i) \in Paths
          BY <1>1, <2>3, ListedFile DEF Regular, Usable
        <5>3. disk'[Dest(cur, i)] = disk[Dest(cur, i)]
          BY <2>1, <5>1, <5>2, ShareTypes DEF DInv
        <5> QED  BY <3>1, <4>1, <5>3 DEF FiledBy
      <4>2. disk'[Dest(cur, rfile)] = Part(cur, rfile, Size(cur, rfile) - Size(cur, rfile))
        <5>1. Dest(cur, rfile) \in Paths
          BY <1>1, <1>3, ListedFile
        <5>2. disk'[Dest(cur, rfile)] = <<>>
          BY <2>1, <5>1, ShareTypes DEF DInv
        <5>3. Part(cur, rfile, 0) = <<>>
          BY DEF Part
        <5>4. Size(cur, rfile) - Size(cur, rfile) = 0
          BY <3>2
        <5> QED  BY <5>2, <5>3, <5>4
      <4> QED  BY <1>1, <2>1, <4>1, <4>2 DEF FiledBy, Alone
    <3> QED  BY <3>4, <3>5
  <2> QED  BY <1>1, <2>1, <2>2, <2>3, ReadingDelivery DEF Receiving
<1> QED  BY <1>2, <1>3

LEMMA NextChunkDelivery ==
  ASSUME DInv, TInv', NEW r \in Receivers, NextChunk(r)
  PROVE  DInv'
<1> USE DEF sendVars, wireVars, tabVars, histVars
<1>1. /\ rpc[r] = "chunk" /\ cur \in Offers
      /\ UNCHANGED <<spc, sfile, spos, slen, conn, up, reply, cur, left, disk, delivered, drifted>>
  BY DEF NextChunk, DInv, TInv, OfferAtHand, Busy
<1>2. DeliveredIsWhole'
  BY <1>1 DEF DInv, DeliveredIsWhole
<1>3. CASE left = 0
  <2>1. rpc' = [rpc EXCEPT ![r] = "next"] /\ rpc'[r] = "next" /\ rfile' = rfile + 1
    BY <1>1, <1>3, ShareTypes DEF NextChunk, Goto, DInv
  <2>2. ASSUME Regular(r) PROVE Aligned(r)' /\ FiledBy(r)'
    <3>1. Aligned(r) /\ FiledBy(r)
      BY <2>2 DEF DInv, Stream, Filed
    <3>2. /\ Count(cur) \in Nat /\ rfile \in 1..Count(cur)
          /\ Size(cur, rfile) \in Nat /\ Before(cur)[rfile] \in Nat
      BY <1>1, <2>2, <3>1, ReadPlace, CountType, ShareTypes DEF DInv, Aligned
    <3>3. ReadSoFar(r)' = ReadSoFar(r)
      <4>1. ReadSoFar(r) = Before(cur)[rfile] + Size(cur, rfile)
        BY <1>1, <1>3, <3>2 DEF ReadSoFar
      <4>2. Before(cur)[rfile + 1] = Before(cur)[rfile] + Size(cur, rfile)
        BY <1>1, <3>2, BeforeType
      <4>3. ReadSoFar(r)' = Before(cur)[rfile + 1] + 0
        BY <1>1, <2>1 DEF ReadSoFar
      <4> QED  BY <3>2, <4>1, <4>2, <4>3
    <3>4. Aligned(r)'
      <4>1. (rfile <= Count(cur) + 1)'
        BY <1>1, <2>1, <3>2
      <4> QED  BY <1>1, <2>1, <3>1, <3>3, <4>1, WireKept DEF Aligned
    <3>5. FiledBy(r)'
      <4>1. ASSUME NEW i \in 1..Count(cur), i < rfile + 1, Alone(cur, i)
            PROVE  disk[Dest(cur, i)] = Part(cur, i, Size(cur, i))
        <5>1. CASE i = rfile
          <6>1. Size(cur, i) - left = Size(cur, i)
            BY <1>3, <3>2, <5>1
          <6> QED  BY <1>1, <3>1, <4>1, <5>1, <6>1 DEF FiledBy
        <5>2. CASE i < rfile
          BY <3>1, <4>1, <5>2 DEF FiledBy
        <5> QED  BY <3>2, <4>1, <5>1, <5>2
      <4> QED  BY <1>1, <2>1, <4>1 DEF FiledBy, Alone
    <3> QED  BY <3>4, <3>5
  <2> QED  BY <1>1, <1>2, <2>1, <2>2, ReadingDelivery DEF Receiving
<1>4. CASE left # 0
  <2>1. rpc' = [rpc EXCEPT ![r] = "read"] /\ rpc'[r] = "read" /\ rfile' = rfile
    BY <1>1, <1>4, ShareTypes DEF NextChunk, Goto, DInv
  <2>2. ASSUME Regular(r) PROVE Aligned(r)' /\ FiledBy(r)'
    <3>1. Aligned(r) /\ FiledBy(r)
      BY <2>2 DEF DInv, Stream, Filed
    <3>2. ReadSoFar(r)' = ReadSoFar(r)
      BY <1>1, <2>1 DEF ReadSoFar
    <3>3. Aligned(r)'
      BY <1>1, <2>1, <3>1, <3>2, WireKept DEF Aligned
    <3>4. FiledBy(r)'
      BY <1>1, <2>1, <3>1 DEF FiledBy, Alone
    <3> QED  BY <3>3, <3>4
  <2> QED  BY <1>1, <1>2, <2>1, <2>2, ReadingDelivery DEF Receiving
<1> QED  BY <1>3, <1>4

LEMMA ReadChunkDelivery ==
  ASSUME DInv, TInv', NEW r \in Receivers, ReadChunk(r)
  PROVE  DInv'
<1> USE DEF sendVars, wireVars, tabVars, histVars
<1>1. /\ rpc[r] = "read" /\ cur \in Offers /\ up[cur] # <<>>
      /\ rpc' = [rpc EXCEPT ![r] = "chunk"] /\ rpc'[r] = "chunk"
      /\ up' = [up EXCEPT ![cur] = Tail(@)] /\ left' = left - 1
      /\ disk' = [disk EXCEPT ![Dest(cur, rfile)] = Append(@, Head(up[cur]))]
      /\ UNCHANGED <<spc, sfile, spos, slen, conn, reply, cur, rfile, delivered, drifted>>
  BY ShareTypes DEF ReadChunk, Goto, DInv, TInv, OfferAtHand, Busy
<1>2. /\ rfile \in 1..Count(cur) /\ Count(cur) \in Nat /\ Size(cur, rfile) \in Nat
      /\ left \in Nat /\ left > 0 /\ Dest(cur, rfile) \in Paths
  <2>1. rfile \in 1..Count(cur) /\ left > 0 /\ Dest(cur, rfile) \in Paths
    BY <1>1, ShareTypes DEF DInv, TInv, FileAtHand
  <2> QED  BY <1>1, <2>1, ShareTypes, ListedFile DEF DInv
<1>3. DeliveredIsWhole'
  BY <1>1, <1>2, WriteKeepsDelivered DEF Receiving
<1>4. \A o \in Offers : up'[o] = up[o] \/ (o = cur /\ up[o] # <<>>)
  BY <1>1, ShareTypes DEF DInv
<1>5. ASSUME Regular(r) PROVE Aligned(r)' /\ FiledBy(r)'
  <2> DEFINE n == ReadSoFar(r)
             s == up[cur]
  <2>1. Aligned(r) /\ FiledBy(r)
    BY <1>5 DEF DInv, Stream, Filed
  <2>2. n \in Nat /\ Before(cur)[rfile] \in Nat /\ left <= Size(cur, rfile)
    BY <1>1, <1>5, <2>1, ReadPlace DEF DInv, Aligned
  <2>3. n = Before(cur)[rfile] + (Size(cur, rfile) - left)
    BY <1>1 DEF ReadSoFar
  <2>4. /\ s \in Seq(Chunk) /\ Len(s) \in Nat \ {0} /\ Len(Tail(s)) = Len(s) - 1
        /\ Head(s) = s[1] /\ up'[cur] = Tail(s)
    <3>1. s \in Seq(Chunk) /\ s # <<>>
      BY <1>1, ShareTypes DEF DInv
    <3>2. Len(s) \in Nat \ {0} /\ Len(Tail(s)) = Len(s) - 1
      BY <3>1, EmptySeq, HeadTailProperties
    <3> QED  BY <1>1, <3>1, <3>2, ShareTypes DEF DInv
  <2>5. Head(s) = <<cur, rfile>>
    <3>1. 1 \in 1..Len(s) /\ n + (1 - 1) = n
      BY <2>2, <2>4
    <3>2. PICK i \in 1..Count(cur) : /\ s[1] = <<cur, i>>
                                     /\ Before(cur)[i] <= n /\ n < Before(cur)[i + 1]
      BY <2>1, <3>1 DEF Aligned, Labelled
    <3>3. Before(cur)[rfile] <= n /\ n < Before(cur)[rfile + 1]
      <4>1. Before(cur)[rfile + 1] = Before(cur)[rfile] + Size(cur, rfile)
        BY <1>1, <1>2, BeforeType
      <4> HIDE DEF n
      <4> QED  BY <1>2, <2>2, <2>3, <4>1
    <3>4. i = rfile
      <4> HIDE DEF n
      <4> QED  BY <1>1, <1>2, <2>2, <3>2, <3>3, OneFile
    <3> QED  BY <2>4, <3>2, <3>4
  <2>6. n' = n + 1
    <3>1. n' = Before(cur)[rfile] + (Size(cur, rfile) - (left - 1))
      BY <1>1 DEF ReadSoFar
    <3> HIDE DEF n
    <3> QED  BY <1>2, <2>2, <2>3, <3>1
  <2>7. Aligned(r)'
    <3>1. (rfile <= Count(cur) + 1)' /\ (rfile <= Count(cur) /\ left <= Size(cur, rfile))'
      BY <1>1, <1>2, <2>2
    <3>2. spc'[cur'] # "waiting"
      BY <1>1, <2>1 DEF Aligned
    <3>3. (spc[cur] \in {"next", "send"} => ReadSoFar(r) + Len(up[cur]) = SentSoFar(cur))'
      <4>1. SentSoFar(cur)' = SentSoFar(cur)
        BY <1>1 DEF SentSoFar
      <4>2. spc[cur] \in {"next", "send"} => n + Len(s) = SentSoFar(cur)
        BY <2>1 DEF Aligned
      <4>3. n' + Len(up'[cur]) = n + Len(s)
        <5> HIDE DEF n, s
        <5>1. n' = n + 1 /\ Len(up'[cur]) = Len(s) - 1 /\ n \in Nat /\ Len(s) \in Nat
          BY <2>2, <2>4, <2>6
        <5> QED  BY <5>1
      <4> QED  BY <1>1, <4>1, <4>2, <4>3
    <3>4. Labelled(cur, up[cur], ReadSoFar(r))'
      <4>1. Labelled(cur, s, n)
        BY <2>1 DEF Aligned
      <4>2. Labelled(cur, Tail(s), n + 1)
        <5> HIDE DEF n, s
        <5>1. s # <<>>
          BY <1>1 DEF s
        <5> QED  BY <1>1, <2>2, <2>4, <4>1, <5>1, LabelledTail
      <4> QED  BY <1>1, <2>4, <2>6, <4>2 DEF Labelled
    <3> QED  BY <3>1, <3>2, <3>3, <3>4 DEF Aligned
  <2>8. FiledBy(r)'
    <3>1. ASSUME NEW i \in 1..Count(cur), i < rfile, Alone(cur, i)
          PROVE  disk'[Dest(cur, i)] = Part(cur, i, Size(cur, i))
      <4>1. Dest(cur, i) # Dest(cur, rfile)
        BY <1>1, <1>2, <3>1 DEF Alone
      <4>2. Dest(cur, i) \in Paths
        BY <1>1, <1>5, ListedFile DEF Regular, Usable
      <4>3. disk'[Dest(cur, i)] = disk[Dest(cur, i)]
        BY <1>1, <4>1, <4>2, ShareTypes DEF DInv
      <4> QED  BY <2>1, <3>1, <4>3 DEF FiledBy
    <3>2. ASSUME Alone(cur, rfile)
          PROVE  disk'[Dest(cur, rfile)] = Part(cur, rfile, Size(cur, rfile) - (left - 1))
      <4>1. disk[Dest(cur, rfile)] = Part(cur, rfile, Size(cur, rfile) - left)
        BY <1>1, <2>1, <3>2 DEF FiledBy
      <4>2. disk'[Dest(cur, rfile)] = Append(disk[Dest(cur, rfile)], <<cur, rfile>>)
        BY <1>1, <1>2, <2>5, ShareTypes DEF DInv
      <4>3. /\ Size(cur, rfile) - left \in Nat
            /\ (Size(cur, rfile) - left) + 1 = Size(cur, rfile) - (left - 1)
        BY <1>2, <2>2
      <4> QED  BY <1>1, <1>2, <4>1, <4>2, <4>3, PartGrows
    <3> QED  BY <1>1, <3>1, <3>2 DEF FiledBy, Alone
  <2> QED  BY <2>7, <2>8
<1> QED  BY <1>1, <1>3, <1>4, <1>5, ReadingDelivery DEF Receiving

\* The receiver reports Finished.
LEMMA FinishedDelivery ==
  ASSUME DInv, TInv', NEW r \in Receivers, ReceiveFinished(r)
  PROVE  DInv'
<1> USE DEF sendVars, tabVars
<1>1. /\ rpc[r] = "next" /\ rfile > Count(cur) /\ Close(r, "no")
      /\ delivered' = delivered \union {cur}
      /\ UNCHANGED <<spc, sfile, spos, slen, disk, drifted>>
  BY DEF ReceiveFinished
<1>2. cur \in Offers /\ Count(cur) \in Nat /\ rfile \in Nat
  BY <1>1, ShareTypes DEF DInv, TInv, OfferAtHand, Busy
<1>3. DeliveredIsWhole'
  <2> SUFFICES ASSUME NEW o \in delivered' \ drifted, Usable(o),
                      NEW i \in 1..Count(o), Alone(o, i)
               PROVE  disk[Dest(o, i)] = [k \in 1..Size(o, i) |-> <<o, i>>]
    BY <1>1 DEF DeliveredIsWhole, Alone, Usable
  <2>1. CASE o \in delivered
    BY <2>1 DEF DInv, DeliveredIsWhole, Usable
  <2>2. CASE o = cur
    <3>1. Regular(r)
      BY <1>1, <2>2 DEF Regular, Receiving
    <3>2. i < rfile
      BY <1>1, <1>2, <2>2
    <3> QED  BY <2>2, <3>1, <3>2 DEF DInv, Filed, FiledBy, Part
  <2> QED  BY <1>1, <2>1, <2>2
<1> QED  BY <1>1, <1>3, CloseDelivery DEF Busy

LEMMA ReceiverDelivery ==
  ASSUME DInv, NEW r \in Receivers, Receiver(r) \/ ReceiverFails(r)
  PROVE  DInv'
<1> USE DEF sendVars, wireVars, tabVars, histVars
<1>1. TInv'
  BY ReceiverStepType DEF DInv
<1>2. CASE Bind(r) \/ NobodyThere(r)
  <2>1. /\ rpc[r] \in {"bind", "accept"}
        /\ \E l \in {"loop", "stopped"} : rpc' = [rpc EXCEPT ![r] = l]
        /\ UNCHANGED <<spc, sfile, spos, slen, conn, up, reply, cur, rfile, left, disk,
                       delivered, drifted>>
    BY <1>2 DEF Bind, NobodyThere, Goto
  <2>2. \A q \in Receivers : rpc'[q] = rpc[q] \/ (rpc[q] \notin Busy /\ rpc'[q] \notin Busy)
    BY <2>1, ShareTypes DEF DInv, Busy
  <2> QED  BY <1>1, <2>1, <2>2, StillDelivery
<1>3. CASE Loop(r) \/ \E o \in Offers : Accept(r, o)
  <2>1. /\ rpc[r] \in {"loop", "accept"}
        /\ \E l \in {"stopped", "accept", "asking"} : rpc' = [rpc EXCEPT ![r] = l]
        /\ UNCHANGED <<spc, sfile, spos, slen, up, reply, rfile, left, disk, delivered, drifted>>
    BY <1>3 DEF Loop, Accept, Goto
  <2>2. \A q \in Receivers : rpc[q] \notin Busy /\ rpc'[q] \notin Receiving
                             /\ (rpc'[q] \in Busy => q = r /\ rpc'[r] = "asking")
    BY <2>1, OneBusy, ShareTypes DEF DInv, TInv, Busy, Holding, Receiving
  <2>3. rfile = 1
    BY <2>2 DEF DInv, Once, Receiving, Busy
  <2>4. \A o \in Offers : \/ conn'[o] = conn[o]
                          \/ conn[o] = "backlog" /\ conn'[o] \in {"open", "closed"}
    BY <1>3, ShareTypes DEF DInv, Loop, Accept
  <2>5. rpc'[r] = "asking" => conn'[cur'] = "open" /\ reply[cur'] = "none"
    <3> SUFFICES ASSUME rpc'[r] = "asking"
                 PROVE  conn'[cur'] = "open" /\ reply[cur'] = "none"
      OBVIOUS
    <3>1. PICK o \in Offers : Accept(r, o)
      BY <1>3, ShareTypes DEF DInv, Loop, Goto
    <3> QED  BY <3>1, ShareTypes DEF DInv, Accept, Once
  <2>6. Once'
    <3>1. \A o \in Offers :
            /\ spc'[o] \in {"next", "send"} \/ up'[o] # <<>> => reply'[o] = "yes"
            /\ spc'[o] = "idle" => conn'[o] = "none"
            /\ conn'[o] \in {"none", "backlog"} => reply'[o] = "none"
      BY <2>1, <2>4 DEF DInv, Once
    <3>2. delivered' \subseteq Offers /\ \A o \in delivered' : conn'[o] = "closed"
      BY <2>1, <2>4 DEF DInv, Once
    <3>3. \A q \in Receivers : rpc'[q] = "asking" => rpc'[q] \in Busy
      BY DEF Busy
    <3> QED  BY <2>1, <2>2, <2>3, <2>5, <3>1, <3>2, <3>3 DEF Once
  <2>7. Place' /\ DeliveredIsWhole'
    BY <2>1 DEF DInv, Place, DeliveredIsWhole
  <2>8. Stream' /\ Filed'
    BY <2>2 DEF Stream, Filed, Regular
  <2> QED  BY <1>1, <2>6, <2>7, <2>8 DEF DInv
<1>4. CASE Answered(r) /\ answer = "yes"
  BY <1>1, <1>4, AnsweredDelivery
<1>5. CASE \/ Answered(r) /\ answer # "yes"
           \/ TimedOut(r) \/ ReceiveStops(r) \/ ReceiverFails(r)
  <2>1. rpc[r] \in Busy /\ Close(r, "no") /\ UNCHANGED <<sendVars, disk, delivered, drifted>>
    BY <1>5 DEF Answered, TimedOut, ReceiveStops, ReceiverFails, Busy
  <2>2. DeliveredIsWhole'
    BY <2>1 DEF DInv, DeliveredIsWhole
  <2> QED  BY <1>1, <2>1, <2>2, CloseDelivery
<1> QED  BY <1>1, <1>2, <1>3, <1>4, <1>5, NextFileDelivery, NextChunkDelivery, ReadChunkDelivery,
            FinishedDelivery DEF Receiver

LEMMA NextDInv == DInv /\ [Next]_vars => DInv'
<1> SUFFICES ASSUME DInv, [Next]_vars PROVE DInv'
  OBVIOUS
<1>1. TInv'
  BY NextTInv DEF DInv
<1>2. CASE UNCHANGED vars
  BY <1>1, <1>2, StillDelivery DEF vars, sendVars, wireVars, recvVars, histVars
<1>3. CASE Tab
  <2>1. /\ UNCHANGED <<spc, sfile, spos, slen, conn, up, reply, cur, rfile, left, disk, delivered,
                       drifted>>
        /\ rpc' = rpc \/ \E q \in Receivers : rpc[q] = "off" /\ rpc' = [rpc EXCEPT ![q] = "bind"]
    BY <1>3 DEF Tab, Frame, Click, SwitchOn, SwitchOff, Goto, sendVars, wireVars, recvVars,
                tabVars, histVars
  <2>2. \A r \in Receivers : rpc'[r] = rpc[r] \/ (rpc[r] \notin Busy /\ rpc'[r] \notin Busy)
    BY <2>1, ShareTypes DEF DInv, Busy
  <2> QED  BY <1>1, <2>1, <2>2, StillDelivery
<1> QED  BY <1>2, <1>3, SenderDelivery, ReceiverDelivery DEF Next

\* What the receiver reports as Finished is on its disk, every file whole and in its place,
\* unless a file changed its length after it was listed, a name was refused, or another
\* file goes to the same place.
THEOREM ShareDeliversWhole == Spec => []DeliveredIsWhole
<1>1. DInv => DeliveredIsWhole
  BY DEF DInv
<1> QED  BY <1>1, InitDInv, NextDInv, PTL DEF Spec
=============================================================================
