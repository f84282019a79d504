--------------------------- MODULE SessionProofs ---------------------------
(***************************************************************************)
(* Proofs about CopySession, for any finite set of paths, any number of    *)
(* launches, additions, jobs and sessions.                                 *)
(*                                                                         *)
(* SInv is about what is handed over and what is asked for; Books, which   *)
(* rests on its types, about what the jobs and the tab count. The sums of  *)
(* the model are folds over finite sets: their laws come first in that     *)
(* part, by induction on the cardinality.                                  *)
(***************************************************************************)
EXTENDS CopySession, SelectionLemmas, FiniteSetTheorems

\* Jobs are only told apart by their places.
JobsInOrder == Len(jobs) \in Nat /\ jobs \in Seq({jobs[i] : i \in 1..Len(jobs)})

Typed ==
  /\ conns \in Seq(Seq(Line)) /\ inbox \in Seq(Line)
  /\ stage \in {"messages", "poll", "gather", "absorb", "buttons"}
  /\ dest \in BOOLEAN /\ picked \in BOOLEAN
  /\ JobsInOrder
  /\ handed \in [Paths -> 0..1]

\* While a session runs, `queued` is what has been handed to a batch or forgotten in Rename
\* mode; when none does, it is empty.
Batches ==
  /\ Running => dest
  /\ ~Running => queued = {}
  /\ Running => \A p \in Paths : handed[p] = 1 => p \in queued
  /\ \A p \in queued : p \in Paths /\ (handed[p] = 1 \/ p \in lost)
  /\ Running /\ stage = "buttons" => Listed(sources) \subseteq queued

\* The tab moves, or the user has picked a mode since it was told to.
Known == mode = "Move" \/ picked

\* In lines that are read when `known` holds, every path that was launched for moving comes
\* after a --move.
Marked(lines, known) ==
  \A k \in 1..Len(lines) :
    lines[k] # MoveFlag /\ lines[k].forMove =>
      known \/ \E l \in 1..k : lines[l] = MoveFlag

MoveInInbox == \E k \in 1..Len(inbox) : inbox[k] = MoveFlag

\* The rest of a connection that was read in part is as good as a whole one.
Requests ==
  /\ Marked(inbox, Known)
  /\ \A c \in 1..Len(conns) :
       Len(conns[c]) >= 1 /\ Marked(conns[c], c = 1 /\ (Known \/ MoveInInbox))
  /\ asked # {} => mode = "Move"

SInv == Typed /\ Batches /\ Requests

-----------------------------------------------------------------------------
(* What the totals add up to.                                              *)

\* A job has its number of files announced, and it counts each that it is done with.
Announced(j) == j.phase \notin {"planning", "dead"}

Size(j) == IF Announced(j) THEN SumOf(j.bag) ELSE 0

Sizes(list) == [i \in 1..Len(list) |-> Size(list[i])]

JobCounts(j) ==
  /\ j \in JobType /\ j.bag \in [Paths -> 0..1]
  /\ ~Announced(j) => j.started = 0 /\ j.done = 0 /\ j.copied = 0 /\ j.failed = 0
  /\ j.phase \in {"planning", "renaming"} => j.left = j.bag /\ j.copied = 0 /\ j.failed = 0
  /\ Announced(j) => j.copied + j.failed + SumOf(j.left) = SumOf(j.bag)
  /\ j.verdict = "Finished" => j.phase = "ended" /\ SumOf(j.left) = 0

Zeros == [copied |-> 0, failed |-> 0]

\* The totals so far.
Told == IF totals = NoTotals THEN Zeros ELSE totals

\* What has been announced is what the finished jobs had and the others have; what the
\* progress line counts, and has still to count, is what the totals and the jobs count.
Balance ==
  /\ totalFiles + SumFunction(Started(jobs))
       = (Told.copied + Told.failed) + SumFunction(Sizes(jobs))
  /\ filesDone + SumFunction(Done(jobs)) = Told.copied + SumFunction(Copied(jobs))

TotalsTyped ==
  /\ filesDone \in Nat /\ totalFiles \in Nat
  /\ totals \in {NoTotals} \union [copied : Nat, failed : Nat]

Listing ==
  /\ sources \in [Paths -> Nat] /\ dropped \in Seq(Paths)
  /\ mode \in {"Copy", "Move", "Rename"} /\ cut \in BOOLEAN

Counting == (\A i \in 1..Len(jobs) : JobCounts(jobs[i])) /\ TotalsTyped /\ Balance

Books == Listing /\ (~cut => Counting)

-----------------------------------------------------------------------------
(* The list of jobs.                                                       *)

LEMMA FunctionIsSeq ==
  ASSUME NEW n \in Nat, NEW f, f = [k \in 1..n |-> f[k]]
  PROVE  f \in Seq({f[k] : k \in 1..n}) /\ Len(f) = n
<1> DEFINE S == {f[k] : k \in 1..n}
<1>1. f \in [1..n -> S]
  OBVIOUS
<1> HIDE DEF S
<1> QED  BY <1>1, IsASeq

\* No job is there exactly when the list is empty.
LEMMA EmptyByLength ==
  ASSUME JobsInOrder
  PROVE  (jobs = <<>>) <=> (Len(jobs) = 0)
  BY EmptySeq DEF JobsInOrder

LEMMA JobsOfLength ==
  ASSUME NEW n \in Nat, jobs' = [k \in 1..n |-> jobs'[k]]
  PROVE  JobsInOrder' /\ Len(jobs') = n /\ (Running' <=> n # 0)
<1>1. jobs' \in Seq({jobs'[k] : k \in 1..n}) /\ Len(jobs') = n
  BY FunctionIsSeq
<1>2. JobsInOrder'
  BY <1>1 DEF JobsInOrder
<1>3. (jobs' = <<>>) <=> (Len(jobs') = 0)
  BY <1>1, EmptySeq
<1> QED  BY <1>1, <1>2, <1>3 DEF Running

LEMMA JobsExcept ==
  ASSUME JobsInOrder, NEW i \in 1..Len(jobs), NEW job, jobs' = [jobs EXCEPT ![i] = job]
  PROVE  JobsInOrder' /\ Len(jobs') = Len(jobs) /\ (Running' <=> Running)
<1>1. Len(jobs) \in Nat /\ jobs = [k \in 1..Len(jobs) |-> jobs[k]]
  BY LenProperties DEF JobsInOrder
<1>2. jobs' = [k \in 1..Len(jobs) |-> jobs'[k]]
  BY <1>1
<1> QED  BY <1>1, <1>2, JobsOfLength, EmptyByLength DEF Running

LEMMA JobsAppend ==
  ASSUME JobsInOrder, NEW job, jobs' = Append(jobs, job)
  PROVE  /\ JobsInOrder' /\ Len(jobs') = Len(jobs) + 1 /\ Running'
         /\ jobs'[Len(jobs')] = job
<1> DEFINE S == {jobs[i] : i \in 1..Len(jobs)} \union {job}
<1>1. jobs \in Seq(S) /\ job \in S /\ Len(jobs) \in Nat
  BY SeqMonotonic DEF JobsInOrder
<1> HIDE DEF S
<1>2. /\ jobs' \in Seq(S) /\ Len(jobs') = Len(jobs) + 1 /\ jobs'[Len(jobs')] = job
  BY <1>1, AppendProperties
<1>3. jobs' = [k \in 1..(Len(jobs) + 1) |-> jobs'[k]]
  BY <1>2, LenProperties
<1>4. Len(jobs) + 1 \in Nat /\ Len(jobs) + 1 # 0
  BY <1>1
<1> QED  BY <1>2, <1>3, <1>4, JobsOfLength

\* poll keeps some of them.
LEMMA JobsLeft ==
  ASSUME JobsInOrder, Poll
  PROVE  JobsInOrder' /\ Len(jobs') <= Len(jobs) /\ (Running' => Running)
<1> DEFINE S == {jobs[i] : i \in 1..Len(jobs)}
           left == Only(jobs, StillRunning)
<1>1. jobs \in Seq(S) /\ Len(jobs) \in Nat
  BY DEF JobsInOrder
<1>2. left \in Seq(S) /\ Drawn(left, jobs, StillRunning)
  <2> HIDE DEF S
  <2> QED  BY <1>1, OnlyIsDrawn
<1>3. Len(left) \in Nat /\ Len(left) <= Len(jobs)
  <2> HIDE DEF S, left
  <2> QED  BY <1>2, LenProperties DEF Drawn
<1>4. jobs' = [i \in 1..Len(left) |-> [left[i] EXCEPT !.started = 0, !.done = 0]]
  BY DEF Poll
<1> HIDE DEF left
<1>5. jobs' = [i \in 1..Len(left) |-> jobs'[i]]
  BY <1>4
<1>6. JobsInOrder' /\ Len(jobs') = Len(left) /\ (Running' <=> Len(left) # 0)
  BY <1>3, <1>5, JobsOfLength
<1> QED  BY <1>1, <1>3, <1>6, EmptyByLength DEF Running

-----------------------------------------------------------------------------
(* What is handed to the batches.                                          *)

\* What the steps of a job thread leave alone.
LEMMA ThreadSteps ==
  ASSUME JobsInOrder, NEW i \in 1..Len(jobs), Work(i) \/ NoDestination(i)
  PROVE  /\ JobsInOrder' /\ Len(jobs') = Len(jobs) /\ (Running' <=> Running)
         /\ UNCHANGED <<ipcVars, stage, tab, dropped, listVars, queued, totalVars, starts,
                        histVars>>
<1>1. \E job : Sends(i, job)
  BY DEF Work, NoDestination, Plan, PlanFails, Dies, RenameSources, StopOnCancel, Finish,
         FileDone, FileError
<1> QED  BY <1>1, JobsExcept DEF Sends

LEMMA BatchesStep ==
  ASSUME Typed, Batches, [Next]_vars
  PROVE  JobsInOrder' /\ handed' \in [Paths -> 0..1] /\ Batches'
<1> USE DEF Typed, Batches
<1>0. ASSUME UNCHANGED <<jobs, handed, queued, lost, dest>>,
             stage' # "buttons" \/ UNCHANGED <<stage, sources>>
      PROVE  JobsInOrder' /\ handed' \in [Paths -> 0..1] /\ Batches'
  BY <1>0 DEF JobsInOrder, Running, Listed
<1>1. CASE UNCHANGED vars
  BY <1>0, <1>1 DEF vars, listVars, histVars
<1>2. ASSUME NEW p \in First, NEW move \in BOOLEAN, Launch(p, move)
      PROVE  JobsInOrder' /\ handed' \in [Paths -> 0..1] /\ Batches'
  BY <1>0, <1>2 DEF Launch, listVars, histVars
<1>3. CASE Listen
  BY <1>0, <1>3 DEF Listen, listVars, histVars
<1>4. ASSUME NEW i \in 1..Len(jobs), Work(i) \/ NoDestination(i)
      PROVE  JobsInOrder' /\ handed' \in [Paths -> 0..1] /\ Batches'
  <2>1. /\ JobsInOrder' /\ (Running' <=> Running)
        /\ UNCHANGED <<handed, queued, lost, dest, stage, sources>>
    BY <1>4, ThreadSteps DEF listVars, histVars
  <2> QED  BY <2>1 DEF Listed
<1>5. CASE TakeMessages
  BY <1>0, <1>5 DEF TakeMessages
<1>6. CASE Poll
  <2>1. JobsInOrder' /\ (Running' => Running)
    BY <1>6, JobsLeft
  <2>2. UNCHANGED <<handed, lost, dest>> /\ stage' = "gather"
    BY <1>6 DEF Poll, listVars
  <2>3. queued' = IF Running /\ ~Running' THEN {} ELSE queued
    BY <1>6 DEF Poll, QueuedWhen, Running
  <2> QED  BY <2>1, <2>2, <2>3
<1>7. CASE Gather
  <2>1. UNCHANGED <<jobs, handed, queued, lost>> /\ stage' = "absorb" /\ dest' \in {dest, TRUE}
    BY <1>7 DEF Gather
  <2> QED  BY <2>1 DEF JobsInOrder, Running
<1>8. CASE Absorb
  <2>1. stage' = "buttons" /\ UNCHANGED <<sources, dest, mode>>
    BY <1>8 DEF Absorb, listVars
  <2>2. \A p \in Paths : NewSources[p] > 0 => p \notin queued /\ sources[p] > 0
    BY DEF NewSources
  <2>3. \A p \in Paths : sources[p] > 0 => p \in queued \/ p \in Listed(NewSources)
    BY DEF NewSources, Listed
  <2>4. CASE ~(Running /\ dest /\ Listed(NewSources) # {})
    <3>1. UNCHANGED <<jobs, queued, handed, lost>>
      BY <1>8, <2>4 DEF Absorb
    <3>2. Running => Listed(sources) \subseteq queued
      BY <2>3, <2>4 DEF Listed
    <3> QED  BY <2>1, <3>1, <3>2 DEF JobsInOrder, Running, Listed
  <2>5. CASE Running /\ dest /\ Listed(NewSources) # {}
    <3>1. SpawnBatch(NewSources) /\ queued' = queued \union Listed(NewSources)
      BY <1>8, <2>5 DEF Absorb
    <3>2. Listed(sources)' \subseteq queued'
      BY <2>1, <2>3, <3>1 DEF Listed
    <3>3. CASE mode = "Rename"
      <4>1. UNCHANGED <<jobs, handed>> /\ lost' = lost \union Listed(NewSources)
        BY <3>1, <3>3 DEF SpawnBatch
      <4> QED  BY <2>1, <2>5, <3>1, <3>2, <4>1 DEF JobsInOrder, Running, Listed
    <3>4. CASE mode # "Rename"
      <4>1. /\ handed' = [p \in Paths |-> handed[p] + (IF NewSources[p] > 0 THEN 1 ELSE 0)]
            /\ lost' = lost /\ JobsInOrder' /\ Running'
        BY <3>1, <3>4, JobsAppend DEF SpawnBatch
      <4>2. \A p \in Paths : handed[p] = 1 => ~(NewSources[p] > 0)
        BY <2>2, <2>5
      <4>3. handed' \in [Paths -> 0..1]
        BY <4>1, <4>2
      <4>4. \A p \in Paths : handed'[p] = 1 => p \in queued'
        BY <3>1, <4>1, <2>5 DEF Listed
      <4>5. \A p \in queued' : p \in Paths /\ (handed'[p] = 1 \/ p \in lost')
        BY <3>1, <4>1, <4>2 DEF Listed
      <4> QED  BY <2>1, <2>5, <3>2, <4>1, <4>3, <4>4, <4>5
    <3> QED  BY <3>3, <3>4
  <2> QED  BY <2>4, <2>5
<1>9. CASE Start
  <2>1. /\ stage' = "messages" /\ dest' = dest /\ dest
        /\ queued' = Listed(sources)
        /\ handed' = [p \in Paths |-> IF sources[p] > 0 THEN 1 ELSE 0]
        /\ jobs' = <<NewJob(mode, sources)>>
    BY <1>9 DEF Start, EndFrame
  <2>2. jobs' = [k \in 1..1 |-> jobs'[k]]
    BY <2>1
  <2>3. JobsInOrder' /\ Running'
    <3> HIDE DEF Typed, Batches
    <3>1. 1 \in Nat /\ 1 # 0
      OBVIOUS
    <3>2. JobsInOrder' /\ (Running' <=> 1 # 0)
      BY <2>2, <3>1, JobsOfLength
    <3> QED  BY <3>1, <3>2
  <2> QED  BY <2>1, <2>3 DEF Listed
<1>10. CASE CancelAll
  <2>1. /\ stage' = "messages" /\ UNCHANGED <<handed, queued, lost, dest>>
        /\ jobs' = [i \in 1..Len(jobs) |-> [jobs[i] EXCEPT !.cancel = TRUE]]
    BY <1>10 DEF CancelAll, EndFrame, histVars
  <2>2. jobs' = [k \in 1..Len(jobs) |-> jobs'[k]] /\ Len(jobs) \in Nat
    BY <2>1 DEF JobsInOrder
  <2>3. JobsInOrder' /\ (Running' <=> Running)
    BY <2>2, JobsOfLength, EmptyByLength DEF Running
  <2> QED  BY <2>1, <2>3
<1>11. CASE Clear \/ Rename \/ RenameStops \/ NoClick \/ \E p \in Paths : RemoveEntry(p)
  BY <1>0, <1>11 DEF Clear, Rename, RenameStops, NoClick, RemoveEntry, EndFrame, histVars
<1> HIDE DEF Typed, Batches
<1>12. CASE Frame
  BY <1>5, <1>6, <1>7, <1>8, <1>9, <1>10, <1>11, <1>12 DEF Frame, Buttons
<1> QED  BY <1>1, <1>2, <1>3, <1>4, <1>12 DEF Next

-----------------------------------------------------------------------------
(* What is asked to be moved.                                              *)

LEMMA LinesOfALaunch ==
  ASSUME NEW p \in Paths, NEW move \in BOOLEAN
  PROVE  /\ Lines(p, move) \in Seq(Line) /\ Len(Lines(p, move)) >= 1
         /\ Marked(Lines(p, move), FALSE)
<1>1. PathLine(p, move) \in Line /\ MoveFlag \in Line /\ PathLine(p, move).forMove = move
  BY DEF PathLine, Line
<1>2. CASE move
  <2> DEFINE flag == <<MoveFlag>>
             rest == <<PathLine(p, move)>>
             lines == flag \o rest
  <2>1. Lines(p, move) = lines
    BY <1>2 DEF Lines
  <2>2. flag \in Seq(Line) /\ rest \in Seq(Line) /\ Len(flag) = 1 /\ Len(rest) = 1
    BY <1>1
  <2>3. /\ lines \in Seq(Line) /\ Len(lines) = 2
        /\ lines[1] = flag[1] /\ flag[1] = MoveFlag
    <3>1. flag[1] = MoveFlag
      OBVIOUS
    <3> HIDE DEF flag, rest
    <3> QED  BY <2>2, <3>1, ConcatProperties
  <2> HIDE DEF lines
  <2>4. ASSUME NEW k \in 1..2, lines[k] # MoveFlag PROVE \E l \in 1..k : lines[l] = MoveFlag
    BY <2>3
  <2> QED  BY <2>1, <2>3, <2>4 DEF Marked
<1>3. CASE ~move
  <2>1. Lines(p, move) = <<PathLine(p, move)>>
    BY <1>3 DEF Lines
  <2> QED  BY <1>1, <1>3, <2>1 DEF Marked
<1> QED  BY <1>2, <1>3

\* Once it is known, it stays so: only another --move takes back what the user picked.
LEMMA KnownStays ==
  ASSUME Typed, Requests, [Next]_vars
  PROVE  Known => Known'
<1> USE DEF Typed, Known
<1>1. CASE UNCHANGED <<mode, picked>>
  BY <1>1
<1>2. CASE TakeMessages
  BY <1>2 DEF TakeMessages
<1>3. CASE Gather
  BY <1>3 DEF Gather
<1>4. ASSUME NEW i \in 1..Len(jobs), Work(i) \/ NoDestination(i) PROVE UNCHANGED <<mode, picked>>
  BY <1>4, ThreadSteps DEF listVars, histVars
<1>5. ASSUME Poll \/ Absorb \/ Buttons \/ Listen \/ \E p \in First, move \in BOOLEAN : Launch(p, move)
      PROVE  UNCHANGED <<mode, picked>>
  BY <1>5 DEF Poll, Absorb, Buttons, Start, CancelAll, Clear, Rename, RenameStops, NoClick,
              RemoveEntry, EndFrame, Listen, Launch, listVars, histVars
<1>6. CASE UNCHANGED vars
  BY <1>6 DEF vars, listVars, histVars
<1> HIDE DEF Typed, Known
<1> QED  BY <1>1, <1>2, <1>3, <1>4, <1>5, <1>6 DEF Next, Frame

\* What is asked for.
LEMMA AskedIsMoved ==
  ASSUME Typed, Requests, [Next]_vars
  PROVE  (asked # {} => mode = "Move")'
<1> USE DEF Typed
<1>0. asked # {} => mode = "Move"
  BY DEF Requests
<1>1. ASSUME UNCHANGED <<mode, asked>> PROVE (asked # {} => mode = "Move")'
  BY <1>0, <1>1
<1>2. ASSUME TakeMessages PROVE (asked # {} => mode = "Move")'
  <2> DEFINE lines == Only(inbox, {inbox[k] : k \in 1..Len(inbox)} \ {MoveFlag})
  <2>1. /\ mode' = IF MoveInInbox THEN "Move" ELSE mode
        /\ picked' = (picked /\ ~MoveInInbox)
        /\ asked' = IF tab' # "Copy" \/ picked' THEN asked
                    ELSE asked \union {lines[k].path :
                                         k \in {l \in 1..Len(lines) : lines[l].forMove}}
    BY <1>2 DEF TakeMessages, MoveInInbox
  <2>2. lines \in Seq(Line) /\ Drawn(lines, inbox, {inbox[k] : k \in 1..Len(inbox)} \ {MoveFlag})
    BY OnlyIsDrawn
  <2> HIDE DEF lines
  <2>3. ASSUME NEW l \in 1..Len(lines), lines[l].forMove PROVE Known \/ MoveInInbox
    <3>1. PICK k \in 1..Len(inbox) : lines[l] = inbox[k]
      BY <2>2 DEF Drawn
    <3>2. inbox[k] # MoveFlag /\ inbox[k].forMove
      BY <2>2, <2>3, <3>1 DEF Drawn
    <3>3. Known \/ \E m \in 1..k : inbox[m] = MoveFlag
      BY <3>2 DEF Requests, Marked
    <3>4. k \in Nat /\ Len(inbox) \in Nat /\ k <= Len(inbox)
      BY LenProperties
    <3> QED  BY <3>3, <3>4 DEF MoveInInbox
  <2>4. CASE tab' # "Copy" \/ picked'
    BY <1>0, <2>1, <2>4
  <2>5. CASE ~(tab' # "Copy" \/ picked') /\ \E l \in 1..Len(lines) : lines[l].forMove
    BY <2>1, <2>3, <2>5 DEF Known
  <2>6. CASE ~(tab' # "Copy" \/ picked') /\ ~\E l \in 1..Len(lines) : lines[l].forMove
    BY <1>0, <2>1, <2>6
  <2> QED  BY <2>4, <2>5, <2>6
<1>3. ASSUME Gather PROVE (asked # {} => mode = "Move")'
  BY <1>0, <1>3 DEF Gather
<1>4. ASSUME NEW i \in 1..Len(jobs), Work(i) \/ NoDestination(i) PROVE UNCHANGED <<mode, asked>>
  BY <1>4, ThreadSteps DEF listVars, histVars
<1>5. ASSUME Poll \/ Absorb \/ Buttons \/ Listen \/ \E p \in First, move \in BOOLEAN : Launch(p, move)
      PROVE  UNCHANGED <<mode, asked>>
  BY <1>5 DEF Poll, Absorb, Buttons, Start, CancelAll, Clear, Rename, RenameStops, NoClick,
              RemoveEntry, EndFrame, Listen, Launch, listVars, histVars
<1>6. ASSUME UNCHANGED vars PROVE UNCHANGED <<mode, asked>>
  BY <1>6 DEF vars, listVars, histVars
<1> HIDE DEF Typed
<1> QED  BY <1>1, <1>2, <1>3, <1>4, <1>5, <1>6 DEF Next, Frame

\* Marked is about the lines one by one, and more so the more is known.
LEMMA MarkedMore ==
  ASSUME NEW lines, NEW known, NEW more, Marked(lines, known), known => more
  PROVE  Marked(lines, more)
  BY DEF Marked

\* One more line that is marked by itself or by what is known or was read before.
LEMMA MarkedAppend ==
  ASSUME NEW lines \in Seq(Line), NEW line \in Line, NEW known, Marked(lines, known),
         line # MoveFlag /\ line.forMove =>
           known \/ \E k \in 1..Len(lines) : lines[k] = MoveFlag
  PROVE  Marked(Append(lines, line), known)
<1> DEFINE more == Append(lines, line)
<1>1. /\ Len(lines) \in Nat /\ Len(more) = Len(lines) + 1 /\ more[Len(lines) + 1] = line
      /\ \A k \in 1..Len(lines) : more[k] = lines[k]
  BY AppendProperties, LenProperties
<1> HIDE DEF more
<1> SUFFICES ASSUME NEW k \in 1..Len(more), more[k] # MoveFlag, more[k].forMove
             PROVE  known \/ \E l \in 1..k : more[l] = MoveFlag
  BY DEF Marked, more
<1>2. CASE k = Len(lines) + 1
  BY <1>1, <1>2
<1>3. CASE k \in 1..Len(lines)
  <2>1. known \/ \E l \in 1..k : lines[l] = MoveFlag
    BY <1>1, <1>3 DEF Marked
  <2> QED  BY <2>1, <1>1, <1>3
<1> QED  BY <1>1, <1>2, <1>3

\* The first line of a connection is read.
LEMMA MarkedTail ==
  ASSUME NEW lines \in Seq(Line), Len(lines) >= 1, NEW known, Marked(lines, known)
  PROVE  /\ Marked(Tail(lines), known \/ Head(lines) = MoveFlag)
         /\ Head(lines) # MoveFlag /\ Head(lines).forMove => known
<1>1. /\ Len(lines) \in Nat /\ lines # <<>> /\ Head(lines) = lines[1]
      /\ Len(Tail(lines)) = Len(lines) - 1
      /\ \A k \in 1..(Len(lines) - 1) : Tail(lines)[k] = lines[k + 1]
  BY HeadTailProperties, LenProperties, EmptySeq
<1>2. Head(lines) # MoveFlag /\ Head(lines).forMove => known
  BY <1>1 DEF Marked
<1>3. ASSUME NEW k \in 1..Len(Tail(lines)), Tail(lines)[k] # MoveFlag, Tail(lines)[k].forMove
      PROVE  \/ known \/ Head(lines) = MoveFlag
             \/ \E l \in 1..k : Tail(lines)[l] = MoveFlag
  <2>1. k + 1 \in 1..Len(lines) /\ Tail(lines)[k] = lines[k + 1]
    BY <1>1
  <2>2. known \/ \E l \in 1..(k + 1) : lines[l] = MoveFlag
    BY <1>3, <2>1 DEF Marked
  <2>3. ASSUME NEW l \in 1..(k + 1), lines[l] = MoveFlag, l # 1
        PROVE  \E m \in 1..k : Tail(lines)[m] = MoveFlag
    <3>1. l - 1 \in 1..k /\ l - 1 \in 1..(Len(lines) - 1) /\ (l - 1) + 1 = l
      BY <1>1, <2>1, <2>3
    <3> QED  BY <1>1, <2>3, <3>1
  <2> QED  BY <1>1, <2>2, <2>3
<1> QED  BY <1>2, <1>3 DEF Marked

\* What is on its way: the lines of the connections, and of the inbox.
LinesMarked ==
  /\ Marked(inbox, Known)
  /\ \A c \in 1..Len(conns) :
       Len(conns[c]) >= 1 /\ Marked(conns[c], c = 1 /\ (Known \/ MoveInInbox))

LineTypes == conns \in Seq(Seq(Line)) /\ inbox \in Seq(Line)

LEMMA ListenMarks ==
  ASSUME Typed, Requests, Listen
  PROVE  LineTypes' /\ LinesMarked'
<1> DEFINE conn == Head(conns)
           line == Head(conn)
<1>1. /\ conns \in Seq(Seq(Line)) /\ inbox \in Seq(Line) /\ Len(conns) \in Nat
      /\ conns # <<>> /\ Len(conns) >= 1
      /\ conn = conns[1] /\ conn \in Seq(Line) /\ Len(conn) >= 1
  BY HeadTailProperties, LenProperties, EmptySeq DEF Typed, Listen, Requests
<1>2. Len(conn) \in Nat /\ conn # <<>> /\ line \in Line /\ Tail(conn) \in Seq(Line)
      /\ Len(Tail(conn)) = Len(conn) - 1
  BY <1>1, HeadTailProperties, LenProperties, EmptySeq
<1>3. /\ Tail(conns) \in Seq(Seq(Line)) /\ Len(Tail(conns)) = Len(conns) - 1
      /\ \A k \in 1..(Len(conns) - 1) : Tail(conns)[k] = conns[k + 1]
  BY <1>1, HeadTailProperties
<1>4. Marked(inbox, Known) /\ Marked(conn, Known \/ MoveInInbox)
  <2>1. 1 \in 1..Len(conns)
    BY <1>1
  <2>2. Marked(conns[1], 1 = 1 /\ (Known \/ MoveInInbox))
    BY <2>1 DEF Requests
  <2> QED  BY <1>1, <2>2, MarkedMore DEF Requests
<1>5. /\ inbox' = Append(inbox, line)
      /\ conns' = IF Len(conn) = 1 THEN Tail(conns) ELSE <<Tail(conn)>> \o Tail(conns)
      /\ UNCHANGED <<mode, picked>>
  BY DEF Listen, listVars, histVars
<1>6. /\ Marked(Tail(conn), (Known \/ MoveInInbox) \/ line = MoveFlag)
      /\ line # MoveFlag /\ line.forMove => Known \/ MoveInInbox
  <2> HIDE DEF conn
  <2> QED  BY <1>1, <1>4, MarkedTail
<1> HIDE DEF conn, line
<1>7. inbox' \in Seq(Line) /\ Marked(inbox', Known')
  <2>1. Known' <=> Known
    BY <1>5 DEF Known
  <2>2. Marked(Append(inbox, line), Known)
    BY <1>1, <1>2, <1>4, <1>6, MarkedAppend DEF MoveInInbox
  <2>3. Append(inbox, line) \in Seq(Line)
    BY <1>1, <1>2, AppendProperties
  <2> QED  BY <1>5, <2>1, <2>2, <2>3, MarkedMore
<1>8. (Known \/ MoveInInbox) \/ line = MoveFlag => (Known \/ MoveInInbox)'
  <2>1. /\ Len(inbox) \in Nat /\ Len(inbox') = Len(inbox) + 1
        /\ inbox'[Len(inbox) + 1] = line /\ \A k \in 1..Len(inbox) : inbox'[k] = inbox[k]
    BY <1>1, <1>2, <1>5, AppendProperties, LenProperties
  <2> QED  BY <2>1, <1>5 DEF Known, MoveInInbox
<1>9. ASSUME NEW c \in 2..Len(conns)
      PROVE  Len(conns[c]) >= 1 /\ Marked(conns[c], FALSE)
  <2>1. c \in 1..Len(conns)
    BY <1>1
  <2>2. Len(conns[c]) >= 1 /\ Marked(conns[c], c = 1 /\ (Known \/ MoveInInbox))
    BY <2>1 DEF Requests
  <2> QED  BY <2>2 DEF Marked
<1>10. CASE Len(conn) = 1
  <2>1. conns' = Tail(conns)
    BY <1>5, <1>10
  <2>2. ASSUME NEW c \in 1..Len(conns')
        PROVE  Len(conns'[c]) >= 1 /\ Marked(conns'[c], c = 1 /\ (Known \/ MoveInInbox)')
    <3>1. c + 1 \in 2..Len(conns) /\ conns'[c] = conns[c + 1]
      BY <1>1, <1>3, <2>1
    <3>2. Len(conns[c + 1]) >= 1 /\ Marked(conns[c + 1], FALSE)
      BY <1>9, <3>1
    <3> QED  BY <3>1, <3>2, MarkedMore
  <2> QED  BY <1>3, <1>7, <2>1, <2>2 DEF LineTypes, LinesMarked
<1>11. CASE Len(conn) # 1
  <2>1. conns' = <<Tail(conn)>> \o Tail(conns)
    BY <1>5, <1>11
  <2>2. /\ <<Tail(conn)>> \in Seq(Seq(Line)) /\ Len(<<Tail(conn)>>) = 1
        /\ <<Tail(conn)>>[1] = Tail(conn)
    BY <1>2
  <2>3. /\ conns' \in Seq(Seq(Line)) /\ Len(conns') = Len(conns)
        /\ conns'[1] = Tail(conn)
        /\ \A k \in 2..Len(conns) : conns'[k] = conns[k]
    <3>1. /\ conns' \in Seq(Seq(Line)) /\ Len(conns') = 1 + Len(Tail(conns))
          /\ \A k \in 1..(1 + Len(Tail(conns))) :
               conns'[k] = IF k <= 1 THEN <<Tail(conn)>>[k] ELSE Tail(conns)[k - 1]
      <4> DEFINE one == <<Tail(conn)>>
      <4>1. one \in Seq(Seq(Line)) /\ Len(one) = 1 /\ conns' = one \o Tail(conns)
        BY <2>1, <2>2
      <4> HIDE DEF one
      <4> QED  BY <4>1, <1>3, ConcatProperties DEF one
    <3>2. ASSUME NEW k \in 2..Len(conns) PROVE conns'[k] = conns[k]
      <4>1. /\ k \in 1..(1 + Len(Tail(conns))) /\ ~(k <= 1)
            /\ k - 1 \in 1..(Len(conns) - 1) /\ (k - 1) + 1 = k
        BY <1>1, <1>3
      <4> QED  BY <1>3, <3>1, <4>1
    <3>3. 1 \in 1..(1 + Len(Tail(conns)))
      BY <1>1, <1>3
    <3> QED  BY <1>1, <1>3, <2>2, <3>1, <3>2, <3>3
  <2>4. ASSUME NEW c \in 1..Len(conns')
        PROVE  Len(conns'[c]) >= 1 /\ Marked(conns'[c], c = 1 /\ (Known \/ MoveInInbox)')
    <3>1. CASE c = 1
      <4>1. Len(Tail(conn)) >= 1
        <5> DEFINE n == Len(conn)
        <5>1. n \in Nat /\ n >= 1 /\ n # 1 /\ Len(Tail(conn)) = n - 1
          BY <1>1, <1>2, <1>11
        <5> HIDE DEF n
        <5> QED  BY <5>1
      <4>2. Marked(Tail(conn), 1 = 1 /\ (Known \/ MoveInInbox)')
        BY <1>6, <1>8, MarkedMore
      <4> QED  BY <3>1, <4>1, <4>2, <2>3
    <3>2. CASE c \in 2..Len(conns)
      <4>1. Marked(conns[c], c = 1 /\ (Known \/ MoveInInbox)')
        BY <1>9, <3>2, MarkedMore
      <4> QED  BY <1>9, <3>2, <4>1, <2>3
    <3> QED  BY <1>1, <2>3, <3>1, <3>2
  <2> QED  BY <1>7, <2>3, <2>4 DEF LineTypes, LinesMarked
<1> QED  BY <1>10, <1>11

LEMMA RequestsStep ==
  ASSUME Typed, Requests, [Next]_vars
  PROVE  LineTypes' /\ LinesMarked'
<1>0. LineTypes /\ LinesMarked
  BY DEF Typed, Requests, LineTypes, LinesMarked
<1>1. ASSUME UNCHANGED <<conns, inbox>> PROVE LineTypes' /\ LinesMarked'
  <2>1. Known => Known'
    BY KnownStays
  <2>2. Marked(inbox', Known')
    BY <1>0, <1>1, <2>1, MarkedMore DEF LinesMarked
  <2>3. ASSUME NEW c \in 1..Len(conns')
        PROVE  Len(conns'[c]) >= 1 /\ Marked(conns'[c], c = 1 /\ (Known \/ MoveInInbox)')
    <3>1. Len(conns[c]) >= 1 /\ Marked(conns[c], c = 1 /\ (Known \/ MoveInInbox))
      BY <1>0, <1>1 DEF LinesMarked
    <3>2. (Known \/ MoveInInbox) => (Known \/ MoveInInbox)'
      BY <1>1, <2>1 DEF MoveInInbox
    <3>3. Marked(conns[c], c = 1 /\ (Known \/ MoveInInbox)')
      BY <3>1, <3>2 DEF Marked
    <3> QED  BY <1>1, <3>1, <3>3
  <2> QED  BY <1>0, <1>1, <2>2, <2>3 DEF LineTypes, LinesMarked
<1>2. ASSUME NEW p \in First, NEW move \in BOOLEAN, Launch(p, move)
      PROVE  LineTypes' /\ LinesMarked'
  <2> DEFINE lines == Lines(p, move)
  <2>1. lines \in Seq(Line) /\ Len(lines) >= 1 /\ Marked(lines, FALSE)
    BY LinesOfALaunch, SessionConstants
  <2>2. /\ conns' = Append(conns, lines) /\ UNCHANGED <<inbox, mode, picked>>
    BY <1>2 DEF Launch, listVars, histVars
  <2> HIDE DEF lines
  <2>3. /\ conns' \in Seq(Seq(Line)) /\ Len(conns) \in Nat /\ Len(conns') = Len(conns) + 1
        /\ conns'[Len(conns) + 1] = lines
        /\ \A c \in 1..Len(conns) : conns'[c] = conns[c]
    BY <1>0, <2>1, <2>2, AppendProperties, LenProperties DEF LineTypes
  <2>4. (Known' <=> Known) /\ (MoveInInbox' <=> MoveInInbox)
    BY <2>2 DEF Known, MoveInInbox
  <2>5. ASSUME NEW c \in 1..Len(conns')
        PROVE  Len(conns'[c]) >= 1 /\ Marked(conns'[c], c = 1 /\ (Known \/ MoveInInbox)')
    <3>1. CASE c = Len(conns) + 1
      BY <2>1, <2>3, <3>1 DEF Marked
    <3>2. CASE c \in 1..Len(conns)
      <4>1. Len(conns[c]) >= 1 /\ Marked(conns[c], c = 1 /\ (Known \/ MoveInInbox))
        BY <1>0, <3>2 DEF LinesMarked
      <4>2. Marked(conns[c], c = 1 /\ (Known \/ MoveInInbox)')
        BY <2>4, <4>1, MarkedMore
      <4> QED  BY <2>3, <3>2, <4>1, <4>2
    <3> QED  BY <2>3, <3>1, <3>2
  <2>6. Marked(inbox', Known')
    BY <1>0, <2>2, <2>4, MarkedMore DEF LinesMarked
  <2> QED  BY <1>0, <2>2, <2>3, <2>5, <2>6 DEF LineTypes, LinesMarked
<1>3. ASSUME Listen PROVE LineTypes' /\ LinesMarked'
  BY <1>3, ListenMarks
<1>4. ASSUME TakeMessages PROVE LineTypes' /\ LinesMarked'
  <2>1. inbox' = <<>> /\ conns' = conns
    BY <1>4 DEF TakeMessages
  <2>2. inbox' \in Seq(Line) /\ Marked(inbox', Known')
    BY <2>1, EmptySeq DEF Marked
  <2>3. MoveInInbox => Known'
    BY <1>4 DEF TakeMessages, MoveInInbox, Known
  <2>4. (Known \/ MoveInInbox) => (Known \/ MoveInInbox)'
    BY <2>3, KnownStays
  <2>5. ASSUME NEW c \in 1..Len(conns')
        PROVE  Len(conns'[c]) >= 1 /\ Marked(conns'[c], c = 1 /\ (Known \/ MoveInInbox)')
    <3>1. Len(conns[c]) >= 1 /\ Marked(conns[c], c = 1 /\ (Known \/ MoveInInbox))
      BY <1>0, <2>1 DEF LinesMarked
    <3>2. Marked(conns[c], c = 1 /\ (Known \/ MoveInInbox)')
      BY <2>4, <3>1 DEF Marked
    <3> QED  BY <2>1, <3>1, <3>2
  <2> QED  BY <1>0, <2>1, <2>2, <2>5 DEF LineTypes, LinesMarked
<1>5. ASSUME NEW i \in 1..Len(jobs), Work(i) \/ NoDestination(i)
      PROVE  LineTypes' /\ LinesMarked'
  <2>1. UNCHANGED <<conns, inbox>>
    BY <1>5, ThreadSteps DEF Typed, ipcVars
  <2> QED  BY <1>1, <2>1
<1>6. ASSUME Poll \/ Gather \/ Absorb \/ Buttons PROVE UNCHANGED <<conns, inbox>>
  BY <1>6 DEF Poll, Gather, Absorb, Buttons, Start, CancelAll, Clear, Rename, RenameStops,
              NoClick, RemoveEntry, EndFrame, ipcVars
<1>7. ASSUME UNCHANGED vars PROVE UNCHANGED <<conns, inbox>>
  BY <1>7 DEF vars, ipcVars
<1> QED  BY <1>1, <1>2, <1>3, <1>4, <1>5, <1>6, <1>7 DEF Next, Frame

-----------------------------------------------------------------------------
(* The invariant and what follows from it.                                 *)

LEMMA StageStep ==
  ASSUME Typed, [Next]_vars
  PROVE  /\ stage' \in {"messages", "poll", "gather", "absorb", "buttons"}
         /\ dest' \in BOOLEAN /\ picked' \in BOOLEAN
<1> USE DEF Typed
<1>1. ASSUME UNCHANGED <<stage, dest, picked>>
      PROVE  /\ stage' \in {"messages", "poll", "gather", "absorb", "buttons"}
             /\ dest' \in BOOLEAN /\ picked' \in BOOLEAN
  BY <1>1
<1>2. ASSUME NEW i \in 1..Len(jobs), Work(i) \/ NoDestination(i)
      PROVE  UNCHANGED <<stage, dest, picked>>
  BY <1>2, ThreadSteps DEF listVars, histVars
<1>3. ASSUME Listen \/ UNCHANGED vars \/ \E p \in First, move \in BOOLEAN : Launch(p, move)
      PROVE  UNCHANGED <<stage, dest, picked>>
  BY <1>3 DEF Listen, Launch, vars, listVars, histVars
<1>4. ASSUME TakeMessages \/ Poll \/ Gather \/ Absorb
      PROVE  /\ stage' \in {"messages", "poll", "gather", "absorb", "buttons"}
             /\ dest' \in BOOLEAN /\ picked' \in BOOLEAN
  BY <1>4 DEF TakeMessages, Poll, Gather, Absorb, listVars
<1>5. ASSUME Buttons
      PROVE  /\ stage' \in {"messages", "poll", "gather", "absorb", "buttons"}
             /\ dest' \in BOOLEAN /\ picked' \in BOOLEAN
  BY <1>5 DEF Buttons, Start, CancelAll, Clear, Rename, RenameStops, NoClick, RemoveEntry,
              EndFrame, histVars
<1> HIDE DEF Typed
<1> QED  BY <1>1, <1>2, <1>3, <1>4, <1>5 DEF Next, Frame

LEMMA InitSInv ==
  ASSUME Init
  PROVE  SInv
<1> USE DEF Init
<1>1. jobs = [k \in 1..0 |-> jobs[k]]
  OBVIOUS
<1>2. JobsInOrder
  <2>1. 0 \in Nat
    OBVIOUS
  <2>2. jobs \in Seq({jobs[k] : k \in 1..0}) /\ Len(jobs) = 0
    BY <1>1, <2>1, FunctionIsSeq
  <2> QED  BY <2>1, <2>2 DEF JobsInOrder
<1>3. conns \in Seq(Seq(Line)) /\ inbox \in Seq(Line) /\ Len(conns) = 0 /\ Len(inbox) = 0
  BY EmptySeq
<1>4. Typed
  <2>1. handed \in [Paths -> 0..1]
    BY DEF None
  <2>2. stage = "messages" /\ dest = FALSE /\ picked = FALSE
    OBVIOUS
  <2> HIDE DEF Init
  <2> QED  BY <1>2, <1>3, <2>1, <2>2 DEF Typed
<1>5. Batches
  BY DEF Batches, Running
<1>6. Requests
  BY <1>3 DEF Requests, Marked
<1> QED  BY <1>4, <1>5, <1>6 DEF SInv

LEMMA NextSInv ==
  ASSUME SInv, [Next]_vars
  PROVE  SInv'
<1>1. Typed /\ Batches /\ Requests
  BY DEF SInv
<1>2. JobsInOrder' /\ handed' \in [Paths -> 0..1] /\ Batches'
  BY <1>1, BatchesStep
<1>3. LineTypes' /\ LinesMarked'
  BY <1>1, RequestsStep
<1>4. (asked # {} => mode = "Move")'
  BY <1>1, AskedIsMoved
<1>5. Typed'
  BY <1>1, <1>2, <1>3, StageStep DEF Typed, LineTypes
<1>6. Requests'
  BY <1>3, <1>4 DEF Requests, LinesMarked
<1> QED  BY <1>2, <1>5, <1>6 DEF SInv

LEMMA SessionInvariant == Spec => []SInv
<1>1. Init => SInv
  BY InitSInv
<1>2. SInv /\ [Next]_vars => SInv'
  BY NextSInv
<1> QED  BY <1>1, <1>2, PTL DEF Spec

\* However sources are added, renamed and named again, no path is in two batches of one
\* session, and at the end of each frame of a running one every listed path has been handed
\* to a batch, unless it came while the tab was in Rename mode.
THEOREM PathsAreHandedOnce == Spec => []HandedExactlyOnce
<1>1. SInv => HandedExactlyOnce
  BY DEF SInv, Typed, Batches, HandedExactlyOnce, Listed
<1> QED  BY <1>1, SessionInvariant, PTL

\* A new job is of the tab's mode, and there are new ones only in two steps.
LEMMA NewJobs ==
  ASSUME Typed, Batches, [Next]_vars,
         NEW i \in 1..Len(jobs'), i > Len(jobs)
  PROVE  jobs'[i].kind = mode
<1>0. JobsInOrder /\ Len(jobs) \in Nat
  BY DEF Typed, JobsInOrder
<1>1. ASSUME Len(jobs') <= Len(jobs) PROVE FALSE
  <2>1. Len(jobs') \in Nat
    BY BatchesStep DEF JobsInOrder
  <2> QED  BY <1>0, <1>1, <2>1
<1>2. ASSUME NEW k \in 1..Len(jobs), Work(k) \/ NoDestination(k) PROVE FALSE
  BY <1>0, <1>1, <1>2, ThreadSteps
<1>3. ASSUME Poll PROVE FALSE
  BY <1>0, <1>1, <1>3, JobsLeft
<1>4. ASSUME jobs' = jobs PROVE FALSE
  BY <1>0, <1>1, <1>4
<1>5. ASSUME CancelAll PROVE FALSE
  <2>1. jobs' = [k \in 1..Len(jobs) |-> [jobs[k] EXCEPT !.cancel = TRUE]]
    BY <1>5 DEF CancelAll
  <2>2. Len(jobs') = Len(jobs)
    BY <1>0, <2>1
  <2> QED  BY <1>0, <1>1, <2>2
<1>6. CASE Absorb
  <2>1. jobs' = Append(jobs, NewJob(mode, NewSources))
    BY <1>4, <1>6 DEF Absorb, SpawnBatch
  <2>2. Len(jobs') = Len(jobs) + 1 /\ jobs'[Len(jobs')] = NewJob(mode, NewSources)
    BY <1>0, <2>1, JobsAppend
  <2>3. i = Len(jobs')
    BY <1>0, <2>2
  <2> QED  BY <2>2, <2>3 DEF NewJob
<1>7. CASE Start
  <2>1. jobs' = <<NewJob(mode, sources)>>
    BY <1>7 DEF Start
  <2>2. Len(jobs') = 1 /\ jobs'[1] = NewJob(mode, sources)
    BY <2>1
  <2>3. i = 1
    BY <2>2
  <2> QED  BY <2>2, <2>3 DEF NewJob
<1>8. ASSUME \/ UNCHANGED vars \/ Listen \/ TakeMessages \/ Gather \/ Clear \/ Rename
             \/ RenameStops \/ NoClick \/ \E p \in Paths : RemoveEntry(p)
             \/ \E p \in First, move \in BOOLEAN : Launch(p, move)
      PROVE  FALSE
  BY <1>4, <1>8 DEF vars, Listen, TakeMessages, Gather, Clear, Rename, RenameStops, NoClick,
                    RemoveEntry, Launch
<1> QED  BY <1>2, <1>3, <1>5, <1>6, <1>7, <1>8 DEF Next, Frame, Buttons

\* A path launched for moving is never handed to a copy, unless the user has picked a mode
\* in the meantime: --move stays before its path on the way from the launch to the tab.
THEOREM MovesAreNotCopied == Spec => MoveRequestsMove
<1> DEFINE A == \A i \in 1..Len(jobs') :
                  i > Len(jobs) /\ jobs'[i].kind = "Copy" =>
                    Listed(jobs'[i].bag) \intersect asked = {}
<1>1. SInv /\ [Next]_vars => A
  <2> SUFFICES ASSUME SInv, [Next]_vars,
                      NEW i \in 1..Len(jobs'), i > Len(jobs), jobs'[i].kind = "Copy"
               PROVE  Listed(jobs'[i].bag) \intersect asked = {}
    OBVIOUS
  <2>1. jobs'[i].kind = mode
    BY NewJobs DEF SInv
  <2>2. asked = {}
    BY <2>1 DEF SInv, Requests
  <2> QED  BY <2>2
<1>2. SInv /\ [Next]_vars => [A]_vars
  BY <1>1
<1> QED  BY <1>2, SessionInvariant, PTL DEF Spec, MoveRequestsMove

-----------------------------------------------------------------------------
(* Sums over finite sets. SumFunctionOnSet takes the elements in an order  *)
(* of its own; what a reader knows of a sum holds whatever it is.          *)

Counts(f, S) == \A x \in S : f[x] \in Nat

Some(S) == CHOOSE x \in S : TRUE

\* The subsets of S with at most n elements.
Upto(n, S) == {s \in SUBSET S : Cardinality(s) <= n}

\* h has the sums of f over the sets in D.
IsSum(h, f, D) == \A s \in D : h[s] = IF s = {} THEN 0 ELSE f[Some(s)] + h[s \ {Some(s)}]

\* A subset of a finite set, and what is left of it.
LEMMA SubsetOfFinite ==
  ASSUME NEW S, IsFiniteSet(S), NEW s \in SUBSET S
  PROVE  /\ IsFiniteSet(s) /\ Cardinality(s) \in Nat
         /\ (s = {}) <=> (Cardinality(s) = 0)
         /\ \A x \in s : /\ s \ {x} \in SUBSET S /\ Cardinality(s \ {x}) = Cardinality(s) - 1
                         /\ IsFiniteSet(s \ {x})
         /\ s # {} => Some(s) \in s
<1>1. IsFiniteSet(s) /\ Cardinality(s) \in Nat /\ ((s = {}) <=> (Cardinality(s) = 0))
  BY FS_Subset, FS_CardinalityType, FS_EmptySet
<1>2. ASSUME NEW x \in s
      PROVE  /\ s \ {x} \in SUBSET S /\ Cardinality(s \ {x}) = Cardinality(s) - 1
             /\ IsFiniteSet(s \ {x})
  BY <1>1, FS_RemoveElement
<1>3. s # {} => Some(s) \in s
  BY DEF Some
<1> QED  BY <1>1, <1>2, <1>3

\* Induction over a finite set, element by element.
LEMMA FiniteInSet ==
  ASSUME NEW S, IsFiniteSet(S), NEW P, {} \in P,
         \A T \in SUBSET S, x \in S : x \notin T /\ T \in P => T \union {x} \in P
  PROVE  S \in P
<1> DEFINE Reached == {n \in Nat : \A T \in SUBSET S : Cardinality(T) = n => T \in P}
<1>1. 0 \in Reached
  BY SubsetOfFinite
<1>2. ASSUME NEW n \in Nat, n \in Reached PROVE n + 1 \in Reached
  <2> SUFFICES ASSUME NEW T \in SUBSET S, Cardinality(T) = n + 1 PROVE T \in P
    OBVIOUS
  <2>1. T # {} /\ Some(T) \in T
    BY SubsetOfFinite
  <2> DEFINE x == Some(T)
  <2>2. T \ {x} \in SUBSET S /\ Cardinality(T \ {x}) = n
    BY <2>1, SubsetOfFinite
  <2>3. T \ {x} \in P
    BY <1>2, <2>2
  <2>4. T = (T \ {x}) \union {x} /\ x \in S /\ x \notin T \ {x}
    BY <2>1
  <2> HIDE DEF x
  <2> QED  BY <2>2, <2>3, <2>4
<1> HIDE DEF Reached
<1>3. Nat \subseteq Reached
  BY <1>1, <1>2, NaturalsInSet
<1> QED  BY <1>3, FS_CardinalityType DEF Reached

\* There are such sums, for sets of any size.
LEMMA SumExists ==
  ASSUME NEW S, IsFiniteSet(S), NEW f, Counts(f, S)
  PROVE  \E h \in [SUBSET S -> Nat] : IsSum(h, f, SUBSET S)
<1> DEFINE Reached == {n \in Nat : \E h \in [Upto(n, S) -> Nat] : IsSum(h, f, Upto(n, S))}
<1>1. 0 \in Reached
  <2> DEFINE h == [s \in Upto(0, S) |-> 0]
  <2>1. \A s \in Upto(0, S) : s = {}
    BY SubsetOfFinite DEF Upto
  <2>2. h \in [Upto(0, S) -> Nat] /\ IsSum(h, f, Upto(0, S))
    BY <2>1 DEF IsSum
  <2> QED  BY <2>2
<1>2. ASSUME NEW n \in Nat, n \in Reached PROVE n + 1 \in Reached
  <2>1. PICK h \in [Upto(n, S) -> Nat] : IsSum(h, f, Upto(n, S))
    BY <1>2
  <2> DEFINE g == [s \in Upto(n + 1, S) |-> IF s = {} THEN 0 ELSE f[Some(s)] + h[s \ {Some(s)}]]
  <2>2. ASSUME NEW s \in Upto(n + 1, S), s # {}
        PROVE  Some(s) \in s /\ f[Some(s)] \in Nat /\ s \ {Some(s)} \in Upto(n, S)
    <3>1. /\ Some(s) \in s /\ Cardinality(s) \in Nat /\ Cardinality(s) <= n + 1 /\ s \in SUBSET S
          /\ s \ {Some(s)} \in SUBSET S /\ Cardinality(s \ {Some(s)}) = Cardinality(s) - 1
      BY <2>2, SubsetOfFinite DEF Upto
    <3>2. f[Some(s)] \in Nat
      BY <3>1 DEF Counts
    <3> QED  BY <3>1, <3>2 DEF Upto
  <2>3. g \in [Upto(n + 1, S) -> Nat]
    BY <2>2
  <2>4. \A s \in Upto(n, S) : s \in Upto(n + 1, S) /\ g[s] = h[s]
    <3>1. \A s \in Upto(n, S) : s \in Upto(n + 1, S)
      BY SubsetOfFinite DEF Upto
    <3> QED  BY <2>1, <3>1 DEF IsSum
  <2>5. IsSum(g, f, Upto(n + 1, S))
    BY <2>2, <2>4 DEF IsSum
  <2> HIDE DEF g
  <2> QED  BY <2>3, <2>5
<1> HIDE DEF Reached
<1>3. Nat \subseteq Reached
  BY <1>1, <1>2, NaturalsInSet
<1>4. Cardinality(S) \in Nat /\ Upto(Cardinality(S), S) = SUBSET S
  BY FS_Subset, FS_CardinalityType DEF Upto
<1> QED  BY <1>3, <1>4 DEF Reached

\* They depend on f and the set only.
LEMMA SumsAgree ==
  ASSUME NEW S, IsFiniteSet(S), NEW f, NEW g, \A x \in S : f[x] = g[x],
         NEW h, NEW k, NEW D, NEW E, SUBSET S \subseteq D, SUBSET S \subseteq E,
         IsSum(h, f, D), IsSum(k, g, E)
  PROVE  h[S] = k[S]
<1> DEFINE Agree == {n \in Nat : \A s \in SUBSET S : Cardinality(s) = n => h[s] = k[s]}
<1>1. 0 \in Agree
  BY SubsetOfFinite DEF IsSum
<1>2. ASSUME NEW n \in Nat, n \in Agree PROVE n + 1 \in Agree
  <2> SUFFICES ASSUME NEW s \in SUBSET S, Cardinality(s) = n + 1 PROVE h[s] = k[s]
    OBVIOUS
  <2>1. /\ s # {} /\ Some(s) \in s
        /\ s \ {Some(s)} \in SUBSET S /\ Cardinality(s \ {Some(s)}) = n
    BY SubsetOfFinite
  <2>2. h[s \ {Some(s)}] = k[s \ {Some(s)}] /\ f[Some(s)] = g[Some(s)]
    BY <1>2, <2>1
  <2> QED  BY <2>1, <2>2 DEF IsSum
<1> HIDE DEF Agree
<1>3. Nat \subseteq Agree
  BY <1>1, <1>2, NaturalsInSet
<1> QED  BY <1>3, FS_CardinalityType DEF Agree

\* SumFunctionOnSet is one of them.
LEMMA SumIsSum ==
  ASSUME NEW S, IsFiniteSet(S), NEW f, Counts(f, S),
         NEW h \in [SUBSET S -> Nat], IsSum(h, f, SUBSET S)
  PROVE  SumFunctionOnSet(f, S) = h[S]
<1> DEFINE Step(k) ==
      [s \in SUBSET S |-> IF s = {} THEN 0 ELSE f[Some(s)] + k[s \ {Some(s)}]]
<1>1. h = Step(h)
  BY DEF IsSum
<1> DEFINE g == CHOOSE k : k = Step(k)
<1>2. g = Step(g)
  <2> HIDE DEF Step
  <2> QED  BY <1>1
<1>3. SumFunctionOnSet(f, S) = g[S]
  BY DEF SumFunctionOnSet, FoldFunctionOnSet, MapThenFoldSet, Some
<1> HIDE DEF g
<1>4. IsSum(g, f, SUBSET S)
  BY <1>2 DEF IsSum
<1> QED  BY <1>3, <1>4, SumsAgree

\* Sums are naturals, that of nothing is 0, and they depend on f and the set only.
LEMMA SumType ==
  ASSUME NEW S, IsFiniteSet(S), NEW f, Counts(f, S)
  PROVE  /\ SumFunctionOnSet(f, S) \in Nat
         /\ S = {} => SumFunctionOnSet(f, S) = 0
<1>1. PICK h \in [SUBSET S -> Nat] : IsSum(h, f, SUBSET S)
  BY SumExists
<1>2. SumFunctionOnSet(f, S) = h[S]
  BY <1>1, SumIsSum
<1> QED  BY <1>1, <1>2 DEF IsSum

LEMMA SumSame ==
  ASSUME NEW S, IsFiniteSet(S), NEW f, Counts(f, S), NEW g, \A x \in S : g[x] = f[x]
  PROVE  SumFunctionOnSet(f, S) = SumFunctionOnSet(g, S)
<1>0. Counts(g, S)
  BY DEF Counts
<1>1. PICK h \in [SUBSET S -> Nat] : IsSum(h, f, SUBSET S)
  BY SumExists
<1>2. PICK k \in [SUBSET S -> Nat] : IsSum(k, g, SUBSET S)
  BY <1>0, SumExists
<1>3. SumFunctionOnSet(f, S) = h[S]
  BY <1>1, SumIsSum
<1>4. SumFunctionOnSet(g, S) = k[S]
  BY <1>0, <1>2, SumIsSum
<1> QED  BY <1>1, <1>2, <1>3, <1>4, SumsAgree

\* The element that is taken first.
LEMMA SumFirst ==
  ASSUME NEW S, IsFiniteSet(S), S # {}, NEW f, Counts(f, S)
  PROVE  SumFunctionOnSet(f, S) = f[Some(S)] + SumFunctionOnSet(f, S \ {Some(S)})
<1> DEFINE R == S \ {Some(S)}
<1>0. R \in SUBSET S /\ IsFiniteSet(R) /\ Counts(f, R)
  BY SubsetOfFinite DEF Counts
<1>1. PICK h \in [SUBSET S -> Nat] : IsSum(h, f, SUBSET S)
  BY SumExists
<1>2. PICK k \in [SUBSET R -> Nat] : IsSum(k, f, SUBSET R)
  BY <1>0, SumExists
<1>3. SumFunctionOnSet(f, S) = h[S]
  BY <1>1, SumIsSum
<1>4. SumFunctionOnSet(f, R) = k[R]
  BY <1>0, <1>2, SumIsSum
<1>5. h[R] = k[R]
  <2>1. SUBSET R \subseteq SUBSET S
    BY <1>0
  <2> HIDE DEF R
  <2> QED  BY <1>0, <1>1, <1>2, <2>1, SumsAgree
<1>6. h[S] = f[Some(S)] + h[R]
  BY <1>1 DEF IsSum
<1> QED  BY <1>3, <1>4, <1>5, <1>6

\* Any element can be taken first.
LEMMA SumRemove ==
  ASSUME NEW S, IsFiniteSet(S), NEW f, Counts(f, S), NEW x \in S
  PROVE  SumFunctionOnSet(f, S) = f[x] + SumFunctionOnSet(f, S \ {x})
<1> DEFINE Sum(T) == SumFunctionOnSet(f, T)
           Any == {n \in Nat : \A T \in SUBSET S :
                     Cardinality(T) = n => \A y \in T : Sum(T) = f[y] + Sum(T \ {y})}
<1>0. \A T \in SUBSET S : Counts(f, T) /\ IsFiniteSet(T) /\ Sum(T) \in Nat
  <2>1. \A T \in SUBSET S : Counts(f, T) /\ IsFiniteSet(T)
    BY SubsetOfFinite DEF Counts
  <2> QED  BY <2>1, SumType
<1>1. 0 \in Any
  BY SubsetOfFinite
<1>2. ASSUME NEW n \in Nat, n \in Any PROVE n + 1 \in Any
  <2> SUFFICES ASSUME NEW T \in SUBSET S, Cardinality(T) = n + 1, NEW y \in T
               PROVE  Sum(T) = f[y] + Sum(T \ {y})
    OBVIOUS
  <2> DEFINE z == Some(T)
  <2>1. /\ T # {} /\ z \in T /\ T \ {z} \in SUBSET S /\ T \ {y} \in SUBSET S
        /\ Cardinality(T \ {z}) = n /\ Cardinality(T \ {y}) = n
    BY SubsetOfFinite
  <2>2. Sum(T) = f[z] + Sum(T \ {z})
    BY <1>0, <2>1, SumFirst
  <2> HIDE DEF z, Sum
  <2>3. CASE y # z
    <3>1. y \in T \ {z} /\ z \in T \ {y}
      BY <2>1, <2>3
    <3>2. Sum(T \ {z}) = f[y] + Sum((T \ {z}) \ {y})
      BY <1>2, <2>1, <3>1
    <3>3. Sum(T \ {y}) = f[z] + Sum((T \ {y}) \ {z})
      BY <1>2, <2>1, <3>1
    <3>4. (T \ {z}) \ {y} = (T \ {y}) \ {z} /\ (T \ {z}) \ {y} \in SUBSET S
      OBVIOUS
    <3>5. f[y] \in Nat /\ f[z] \in Nat /\ Sum((T \ {z}) \ {y}) \in Nat
      BY <1>0, <2>1, <3>4 DEF Counts
    <3> DEFINE R == (T \ {z}) \ {y}
    <3>6. Sum(T \ {y}) = f[z] + Sum(R)
      BY <3>3, <3>4
    <3>7. Sum(T) = f[z] + (f[y] + Sum(R))
      BY <2>2, <3>2
    <3>8. f[z] + (f[y] + Sum(R)) = f[y] + (f[z] + Sum(R))
      <4> HIDE DEF R
      <4> QED  BY <3>5 DEF R
    <3> QED  BY <3>6, <3>7, <3>8
  <2>4. CASE y = z
    BY <2>2, <2>4
  <2> QED  BY <2>3, <2>4
<1> HIDE DEF Any
<1>3. Nat \subseteq Any
  BY <1>1, <1>2, NaturalsInSet
<1>4. Cardinality(S) \in Nat
  BY FS_CardinalityType
<1> QED  BY <1>3, <1>4 DEF Any

LEMMA SumAdd ==
  ASSUME NEW S, IsFiniteSet(S), NEW f, NEW x, x \notin S, Counts(f, S), f[x] \in Nat
  PROVE  /\ IsFiniteSet(S \union {x}) /\ Counts(f, S \union {x})
         /\ SumFunctionOnSet(f, S \union {x}) = f[x] + SumFunctionOnSet(f, S)
<1>1. IsFiniteSet(S \union {x}) /\ Counts(f, S \union {x})
  BY FS_AddElement DEF Counts
<1>2. (S \union {x}) \ {x} = S
  OBVIOUS
<1> QED  BY <1>1, <1>2, SumRemove

\* Where f is increased, its sum is.
LEMMA SumChange ==
  ASSUME NEW S, IsFiniteSet(S), NEW f, NEW g, Counts(f, S), Counts(g, S),
         NEW x \in S, \A y \in S \ {x} : g[y] = f[y]
  PROVE  SumFunctionOnSet(g, S) + f[x] = SumFunctionOnSet(f, S) + g[x]
<1> DEFINE R == S \ {x}
<1>1. IsFiniteSet(R) /\ Counts(f, R) /\ Counts(g, R) /\ f[x] \in Nat /\ g[x] \in Nat
  BY SubsetOfFinite DEF Counts
<1>2. /\ SumFunctionOnSet(f, S) = f[x] + SumFunctionOnSet(f, R)
      /\ SumFunctionOnSet(g, S) = g[x] + SumFunctionOnSet(g, R)
  BY SumRemove
<1>3. SumFunctionOnSet(f, R) = SumFunctionOnSet(g, R) /\ SumFunctionOnSet(f, R) \in Nat
  <2> HIDE DEF R
  <2>1. \A y \in R : g[y] = f[y]
    BY DEF R
  <2> QED  BY <1>1, <2>1, SumSame, SumType
<1> QED  BY <1>1, <1>2, <1>3

\* Two functions increase alike, at one place.
LEMMA SumsKeepStep ==
  ASSUME NEW S, IsFiniteSet(S), NEW f, NEW g, NEW F, NEW G,
         Counts(f, S), Counts(g, S), Counts(F, S), Counts(G, S),
         NEW x \in S, \A y \in S \ {x} : F[y] = f[y] /\ G[y] = g[y],
         F[x] + g[x] = f[x] + G[x]
  PROVE  SumFunctionOnSet(F, S) + SumFunctionOnSet(g, S)
           = SumFunctionOnSet(f, S) + SumFunctionOnSet(G, S)
<1> DEFINE a == SumFunctionOnSet(f, S)
           b == SumFunctionOnSet(g, S)
           A == SumFunctionOnSet(F, S)
           B == SumFunctionOnSet(G, S)
<1>1. A + f[x] = a + F[x]
  BY SumChange
<1>2. B + g[x] = b + G[x]
  BY SumChange
<1>3. a \in Nat /\ b \in Nat /\ A \in Nat /\ B \in Nat
  BY SumType
<1>4. f[x] \in Nat /\ g[x] \in Nat /\ F[x] \in Nat /\ G[x] \in Nat
  BY DEF Counts
<1> HIDE DEF a, b, A, B
<1>5. A + b = a + B
  BY <1>1, <1>2, <1>3, <1>4
<1> QED  BY <1>5 DEF a, b, A, B

\* The sum of sums.
LEMMA SumPlus ==
  ASSUME NEW S, IsFiniteSet(S), NEW f, NEW g, NEW h, Counts(f, S), Counts(g, S),
         \A x \in S : h[x] = f[x] + g[x]
  PROVE  SumFunctionOnSet(h, S) = SumFunctionOnSet(f, S) + SumFunctionOnSet(g, S)
<1> DEFINE P == {T \in SUBSET S : SumFunctionOnSet(h, T)
                                    = SumFunctionOnSet(f, T) + SumFunctionOnSet(g, T)}
<1>0. \A T \in SUBSET S : IsFiniteSet(T) /\ Counts(f, T) /\ Counts(g, T) /\ Counts(h, T)
  BY SubsetOfFinite DEF Counts
<1>1. {} \in P
  <2>1. /\ SumFunctionOnSet(h, {}) = 0 /\ SumFunctionOnSet(f, {}) = 0
        /\ SumFunctionOnSet(g, {}) = 0
    BY <1>0, SumType
  <2> QED  BY <2>1
<1>2. ASSUME NEW T \in SUBSET S, NEW x \in S, x \notin T, T \in P PROVE T \union {x} \in P
  <2>1. IsFiniteSet(T) /\ Counts(f, T) /\ Counts(g, T) /\ Counts(h, T)
    BY <1>0
  <2>2. f[x] \in Nat /\ g[x] \in Nat /\ h[x] = f[x] + g[x] /\ h[x] \in Nat
    BY DEF Counts
  <2>3. /\ SumFunctionOnSet(f, T \union {x}) = f[x] + SumFunctionOnSet(f, T)
        /\ SumFunctionOnSet(g, T \union {x}) = g[x] + SumFunctionOnSet(g, T)
        /\ SumFunctionOnSet(h, T \union {x}) = h[x] + SumFunctionOnSet(h, T)
    BY <1>2, <2>1, <2>2, SumAdd
  <2>4. SumFunctionOnSet(f, T) \in Nat /\ SumFunctionOnSet(g, T) \in Nat
    BY <2>1, SumType
  <2> QED  BY <1>2, <2>2, <2>3, <2>4
<1> HIDE DEF P
<1>3. S \in P
  BY <1>1, <1>2, FiniteInSet
<1> QED  BY <1>3 DEF P

\* What is 0 does not count.
LEMMA SumOfPart ==
  ASSUME NEW S, IsFiniteSet(S), NEW f, Counts(f, S), NEW R \in SUBSET S,
         \A x \in S \ R : f[x] = 0
  PROVE  SumFunctionOnSet(f, S) = SumFunctionOnSet(f, R)
<1> DEFINE P == {T \in SUBSET S : SumFunctionOnSet(f, T) = SumFunctionOnSet(f, T \intersect R)}
<1>1. {} \in P
  OBVIOUS
<1>2. ASSUME NEW T \in SUBSET S, NEW x \in S, x \notin T, T \in P PROVE T \union {x} \in P
  <2> DEFINE Q == T \intersect R
  <2>1. /\ IsFiniteSet(T) /\ Counts(f, T) /\ IsFiniteSet(Q) /\ Counts(f, Q) /\ f[x] \in Nat
        /\ x \notin Q
    BY <1>2, SubsetOfFinite DEF Counts
  <2>2. SumFunctionOnSet(f, T \union {x}) = f[x] + SumFunctionOnSet(f, T)
    BY <1>2, <2>1, SumAdd
  <2>3. SumFunctionOnSet(f, T) = SumFunctionOnSet(f, Q)
    BY <1>2
  <2>4. CASE x \in R
    <3>1. (T \union {x}) \intersect R = Q \union {x}
      BY <2>4
    <3> HIDE DEF Q
    <3>2. SumFunctionOnSet(f, Q \union {x}) = f[x] + SumFunctionOnSet(f, Q)
      BY <2>1, SumAdd
    <3> QED  BY <2>2, <2>3, <3>1, <3>2
  <2>5. CASE x \notin R
    <3>1. (T \union {x}) \intersect R = Q /\ f[x] = 0
      BY <2>5
    <3> HIDE DEF Q
    <3>2. SumFunctionOnSet(f, T) \in Nat
      BY <2>1, SumType
    <3>3. SumFunctionOnSet(f, T \union {x}) = SumFunctionOnSet(f, Q)
      BY <2>2, <2>3, <3>1, <3>2
    <3> QED  BY <3>1, <3>3
  <2> QED  BY <2>4, <2>5
<1> HIDE DEF P
<1>3. S \in P
  BY <1>1, <1>2, FiniteInSet
<1>4. S \intersect R = R
  OBVIOUS
<1> QED  BY <1>3, <1>4 DEF P

LEMMA SumOfNothing ==
  ASSUME NEW S, IsFiniteSet(S), NEW f, \A x \in S : f[x] = 0
  PROVE  SumFunctionOnSet(f, S) = 0
<1>1. Counts(f, S) /\ {} \in SUBSET S
  BY DEF Counts
<1>2. SumFunctionOnSet(f, S) = SumFunctionOnSet(f, {})
  BY <1>1, SumOfPart
<1>3. SumFunctionOnSet(f, {}) = 0
  BY FS_EmptySet, SumType DEF Counts
<1> QED  BY <1>2, <1>3

-----------------------------------------------------------------------------
(* The sums over the jobs.                                                 *)

LEMMA SumOfBag ==
  ASSUME NEW bag \in [Paths -> Nat]
  PROVE  SumOf(bag) \in Nat /\ Counts(bag, Paths) /\ IsFiniteSet(Paths)
<1>1. Counts(bag, Paths) /\ IsFiniteSet(Paths)
  BY SessionConstants DEF Counts
<1>2. SumFunctionOnSet(bag, Paths) \in Nat
  BY <1>1, SumType
<1> QED  BY <1>1, <1>2 DEF SumOf

LEMMA JobIsCounted ==
  ASSUME NEW j, JobCounts(j)
  PROVE  /\ j.started \in Nat /\ j.done \in Nat /\ j.copied \in Nat /\ j.failed \in Nat
         /\ Size(j) \in Nat /\ SumOf(j.bag) \in Nat /\ SumOf(j.left) \in Nat
<1>1. j \in JobType
  BY DEF JobCounts
<1>2. /\ j.started \in Nat /\ j.done \in Nat /\ j.copied \in Nat /\ j.failed \in Nat
      /\ j.bag \in [Paths -> Nat] /\ j.left \in [Paths -> Nat]
  BY <1>1 DEF JobType
<1>3. SumOf(j.bag) \in Nat /\ SumOf(j.left) \in Nat
  BY <1>2, SumOfBag
<1> QED  BY <1>2, <1>3 DEF Size

\* The jobs of list, each counted.
AllCount(list) == Len(list) \in Nat /\ \A i \in 1..Len(list) : JobCounts(list[i])

LEMMA JobSums ==
  ASSUME NEW list, AllCount(list)
  PROVE  LET J == 1..Len(list) IN
         /\ IsFiniteSet(J)
         /\ Counts(Started(list), J) /\ Counts(Done(list), J) /\ Counts(Copied(list), J)
         /\ Counts(Failed(list), J) /\ Counts(Sizes(list), J)
         /\ SumFunction(Started(list)) = SumFunctionOnSet(Started(list), J)
         /\ SumFunction(Done(list)) = SumFunctionOnSet(Done(list), J)
         /\ SumFunction(Copied(list)) = SumFunctionOnSet(Copied(list), J)
         /\ SumFunction(Sizes(list)) = SumFunctionOnSet(Sizes(list), J)
         /\ SumFunction(Started(list)) \in Nat /\ SumFunction(Done(list)) \in Nat
         /\ SumFunction(Copied(list)) \in Nat /\ SumFunction(Sizes(list)) \in Nat
<1> DEFINE J == 1..Len(list)
<1>1. IsFiniteSet(J)
  BY FS_Interval DEF AllCount
<1>2. /\ Counts(Started(list), J) /\ Counts(Done(list), J) /\ Counts(Copied(list), J)
      /\ Counts(Failed(list), J) /\ Counts(Sizes(list), J)
  BY JobIsCounted DEF AllCount, Counts, Started, Done, Copied, Failed, Sizes
<1>3. /\ SumFunction(Started(list)) = SumFunctionOnSet(Started(list), J)
      /\ SumFunction(Done(list)) = SumFunctionOnSet(Done(list), J)
      /\ SumFunction(Copied(list)) = SumFunctionOnSet(Copied(list), J)
      /\ SumFunction(Sizes(list)) = SumFunctionOnSet(Sizes(list), J)
  <2>1. /\ DOMAIN Started(list) = J /\ DOMAIN Done(list) = J /\ DOMAIN Copied(list) = J
        /\ DOMAIN Sizes(list) = J
    BY DEF Started, Done, Copied, Sizes
  <2> HIDE DEF J
  <2> QED  BY <2>1 DEF SumFunction
<1> HIDE DEF J
<1>4. /\ SumFunctionOnSet(Started(list), J) \in Nat /\ SumFunctionOnSet(Done(list), J) \in Nat
      /\ SumFunctionOnSet(Copied(list), J) \in Nat /\ SumFunctionOnSet(Sizes(list), J) \in Nat
  BY <1>1, <1>2, SumType
<1> QED  BY <1>1, <1>2, <1>3, <1>4 DEF J

\* One job of list has gone on in more, and has counted what it announced or copied.
GoesOn(list, more, i) ==
  /\ Len(more) = Len(list) /\ i \in 1..Len(list)
  /\ \A k \in 1..Len(list) : k # i => more[k] = list[k]
  /\ more[i].started + Size(list[i]) = list[i].started + Size(more[i])
  /\ more[i].done + list[i].copied = list[i].done + more[i].copied

LEMMA OneJobSums ==
  ASSUME NEW list, NEW more, NEW i, AllCount(list), AllCount(more), GoesOn(list, more, i)
  PROVE  /\ SumFunction(Started(more)) + SumFunction(Sizes(list))
              = SumFunction(Started(list)) + SumFunction(Sizes(more))
         /\ SumFunction(Done(more)) + SumFunction(Copied(list))
              = SumFunction(Done(list)) + SumFunction(Copied(more))
<1> DEFINE J == 1..Len(list)
<1>1. /\ IsFiniteSet(J)
      /\ Counts(Started(list), J) /\ Counts(Done(list), J) /\ Counts(Copied(list), J)
      /\ Counts(Sizes(list), J)
      /\ Counts(Started(more), J) /\ Counts(Done(more), J) /\ Counts(Copied(more), J)
      /\ Counts(Sizes(more), J)
  BY JobSums DEF GoesOn
<1>2. \A k \in J \ {i} : /\ Started(more)[k] = Started(list)[k] /\ Done(more)[k] = Done(list)[k]
                         /\ Copied(more)[k] = Copied(list)[k] /\ Sizes(more)[k] = Sizes(list)[k]
  BY DEF GoesOn, Started, Done, Copied, Sizes
<1>3. /\ Started(list)[i] = list[i].started /\ Started(more)[i] = more[i].started
      /\ Done(list)[i] = list[i].done /\ Done(more)[i] = more[i].done
      /\ Copied(list)[i] = list[i].copied /\ Copied(more)[i] = more[i].copied
      /\ Sizes(list)[i] = Size(list[i]) /\ Sizes(more)[i] = Size(more[i])
  BY DEF GoesOn, Started, Done, Copied, Sizes
<1>4. i \in J
  BY DEF GoesOn
<1> HIDE DEF J
<1>5. SumFunctionOnSet(Started(more), J) + SumFunctionOnSet(Sizes(list), J)
        = SumFunctionOnSet(Started(list), J) + SumFunctionOnSet(Sizes(more), J)
  <2> DEFINE f == Started(list)
             F == Started(more)
             g == Sizes(list)
             G == Sizes(more)
  <2>1. F[i] + g[i] = f[i] + G[i]
    BY <1>3 DEF GoesOn
  <2>2. \A k \in J \ {i} : F[k] = f[k] /\ G[k] = g[k]
    BY <1>2
  <2>3. Counts(f, J) /\ Counts(F, J) /\ Counts(g, J) /\ Counts(G, J) /\ IsFiniteSet(J)
    BY <1>1
  <2> HIDE DEF f, F, g, G
  <2>4. SumFunctionOnSet(F, J) + SumFunctionOnSet(g, J)
          = SumFunctionOnSet(f, J) + SumFunctionOnSet(G, J)
    BY <1>4, <2>1, <2>2, <2>3, SumsKeepStep
  <2> QED  BY <2>4 DEF f, F, g, G
<1>6. SumFunctionOnSet(Done(more), J) + SumFunctionOnSet(Copied(list), J)
        = SumFunctionOnSet(Done(list), J) + SumFunctionOnSet(Copied(more), J)
  <2> DEFINE f == Done(list)
             F == Done(more)
             g == Copied(list)
             G == Copied(more)
  <2>1. F[i] + g[i] = f[i] + G[i]
    BY <1>3 DEF GoesOn
  <2>2. \A k \in J \ {i} : F[k] = f[k] /\ G[k] = g[k]
    BY <1>2
  <2>3. Counts(f, J) /\ Counts(F, J) /\ Counts(g, J) /\ Counts(G, J) /\ IsFiniteSet(J)
    BY <1>1
  <2> HIDE DEF f, F, g, G
  <2>4. SumFunctionOnSet(F, J) + SumFunctionOnSet(g, J)
          = SumFunctionOnSet(f, J) + SumFunctionOnSet(G, J)
    BY <1>4, <2>1, <2>2, <2>3, SumsKeepStep
  <2> QED  BY <2>4 DEF f, F, g, G
<1>7. /\ SumFunction(Started(list)) = SumFunctionOnSet(Started(list), J)
      /\ SumFunction(Done(list)) = SumFunctionOnSet(Done(list), J)
      /\ SumFunction(Copied(list)) = SumFunctionOnSet(Copied(list), J)
      /\ SumFunction(Sizes(list)) = SumFunctionOnSet(Sizes(list), J)
      /\ SumFunction(Started(more)) = SumFunctionOnSet(Started(more), J)
      /\ SumFunction(Done(more)) = SumFunctionOnSet(Done(more), J)
      /\ SumFunction(Copied(more)) = SumFunctionOnSet(Copied(more), J)
      /\ SumFunction(Sizes(more)) = SumFunctionOnSet(Sizes(more), J)
  BY JobSums DEF J, GoesOn
<1> QED  BY <1>5, <1>6, <1>7

LEMMA KeepsBalance ==
  ASSUME NEW a \in Nat, NEW b \in Nat, NEW c \in Nat, NEW d \in Nat, NEW x \in Nat, NEW y \in Nat,
         a + b = c + d, x + d = b + y
  PROVE  a + x = c + y
  OBVIOUS

LEMMA OneJobCounts ==
  ASSUME JobsInOrder, Counting, NEW i \in 1..Len(jobs), NEW job,
         jobs' = [jobs EXCEPT ![i] = job], JobCounts(job),
         job.started + Size(jobs[i]) = jobs[i].started + Size(job),
         job.done + jobs[i].copied = jobs[i].done + job.copied,
         UNCHANGED totalVars
  PROVE  Counting'
<1>1. /\ Len(jobs) \in Nat /\ Len(jobs') = Len(jobs)
      /\ \A k \in 1..Len(jobs) : jobs'[k] = IF k = i THEN job ELSE jobs[k]
  <2>1. jobs = [k \in 1..Len(jobs) |-> jobs[k]] /\ Len(jobs) \in Nat
    BY LenProperties DEF JobsInOrder
  <2> QED  BY <2>1, JobsExcept
<1>2. AllCount(jobs) /\ AllCount(jobs')
  BY <1>1 DEF Counting, AllCount
<1>3. GoesOn(jobs, jobs', i)
  BY <1>1 DEF GoesOn
<1>4. /\ SumFunction(Started(jobs')) + SumFunction(Sizes(jobs))
           = SumFunction(Started(jobs)) + SumFunction(Sizes(jobs'))
      /\ SumFunction(Done(jobs')) + SumFunction(Copied(jobs))
           = SumFunction(Done(jobs)) + SumFunction(Copied(jobs'))
  BY <1>2, <1>3, OneJobSums
<1>5. /\ SumFunction(Started(jobs)) \in Nat /\ SumFunction(Done(jobs)) \in Nat
      /\ SumFunction(Copied(jobs)) \in Nat /\ SumFunction(Sizes(jobs)) \in Nat
      /\ SumFunction(Started(jobs')) \in Nat /\ SumFunction(Done(jobs')) \in Nat
      /\ SumFunction(Copied(jobs')) \in Nat /\ SumFunction(Sizes(jobs')) \in Nat
  BY <1>2, JobSums
<1>6. TotalsTyped /\ TotalsTyped' /\ Told' = Told
  BY DEF Counting, TotalsTyped, totalVars, Told
<1>7. Told.copied \in Nat /\ Told.failed \in Nat /\ totalFiles \in Nat /\ filesDone \in Nat
      /\ totalFiles' = totalFiles /\ filesDone' = filesDone
  BY <1>6 DEF Told, Zeros, TotalsTyped, totalVars
<1>8. Balance
  BY DEF Counting
<1>9. Balance'
  <2> DEFINE s == SumFunction(Started(jobs))
             z == SumFunction(Sizes(jobs))
             d == SumFunction(Done(jobs))
             c == SumFunction(Copied(jobs))
             ss == SumFunction(Started(jobs'))
             zz == SumFunction(Sizes(jobs'))
             dd == SumFunction(Done(jobs'))
             cc == SumFunction(Copied(jobs'))
             t == Told.copied + Told.failed
             tc == Told.copied
             files == totalFiles
             done == filesDone
  <2>1. files + s = t + z /\ ss + z = s + zz
    BY <1>4, <1>8 DEF Balance
  <2>2. done + d = tc + c /\ dd + c = d + cc
    BY <1>4, <1>8 DEF Balance
  <2>3. /\ s \in Nat /\ z \in Nat /\ d \in Nat /\ c \in Nat
        /\ ss \in Nat /\ zz \in Nat /\ dd \in Nat /\ cc \in Nat
    BY <1>5
  <2>4. t \in Nat /\ tc \in Nat /\ files \in Nat /\ done \in Nat
    BY <1>7
  <2> HIDE DEF s, z, d, c, ss, zz, dd, cc, t, tc, files, done
  <2>5. files + ss = t + zz
    BY <2>1, <2>3, <2>4, KeepsBalance
  <2>6. done + dd = tc + cc
    BY <2>2, <2>3, <2>4, KeepsBalance
  <2>7. /\ Told'.copied = tc /\ Told'.copied + Told'.failed = t
        /\ totalFiles' = files /\ filesDone' = done
    BY <1>6, <1>7 DEF t, tc, files, done
  <2>8. totalFiles' + ss = (Told'.copied + Told'.failed) + zz /\ filesDone' + dd = Told'.copied + cc
    BY <2>5, <2>6, <2>7
  <2> QED  BY <2>8 DEF Balance, ss, zz, dd, cc
<1> QED  BY <1>2, <1>6, <1>9 DEF Counting, AllCount

\* What a rename loop has renamed is copied, and only the rest is left.
LEMMA RenamesCount ==
  ASSUME NEW j, JobCounts(j), j.phase = "renaming", NEW renamed \in SUBSET Listed(j.bag)
  PROVE  LET r == Renames(j, renamed) IN
         /\ r \in JobType /\ r.bag = j.bag /\ r.started = j.started /\ r.phase = j.phase
         /\ r.verdict = j.verdict
         /\ r.done = j.done + r.copied /\ r.failed = 0 /\ j.copied = 0
         /\ r.copied + SumOf(r.left) = SumOf(r.bag)
<1> DEFINE n == SumFunctionOnSet(j.bag, renamed)
           left == [p \in Paths |-> IF p \in renamed THEN 0 ELSE j.bag[p]]
           gone == [p \in Paths |-> IF p \in renamed THEN j.bag[p] ELSE 0]
           r == Renames(j, renamed)
<1>1. /\ j \in JobType /\ j.bag \in [Paths -> 0..1] /\ j.copied = 0 /\ j.failed = 0
      /\ renamed \in SUBSET Paths
  BY DEF JobCounts, Listed
<1>2. j.bag \in [Paths -> Nat] /\ j.done \in Nat
  BY <1>1 DEF JobType
<1>3. /\ left \in [Paths -> Nat] /\ Counts(left, Paths) /\ Counts(gone, Paths)
      /\ Counts(j.bag, Paths) /\ Counts(j.bag, renamed) /\ Counts(gone, renamed)
      /\ IsFiniteSet(Paths) /\ IsFiniteSet(renamed)
  BY <1>1, <1>2, SessionConstants, SubsetOfFinite DEF Counts
<1>4. SumFunctionOnSet(j.bag, Paths) = SumFunctionOnSet(gone, Paths) + SumFunctionOnSet(left, Paths)
  <2>1. \A p \in Paths : j.bag[p] = gone[p] + left[p]
    BY <1>2
  <2> HIDE DEF gone, left
  <2> QED  BY <1>3, <2>1, SumPlus
<1>5. SumFunctionOnSet(gone, Paths) = n
  <2>1. SumFunctionOnSet(gone, Paths) = SumFunctionOnSet(gone, renamed)
    <3>1. \A p \in Paths \ renamed : gone[p] = 0
      OBVIOUS
    <3> HIDE DEF gone
    <3> QED  BY <1>1, <1>3, <3>1, SumOfPart
  <2>2. SumFunctionOnSet(gone, renamed) = n
    <3>1. \A p \in renamed : j.bag[p] = gone[p]
      BY <1>1
    <3> HIDE DEF gone
    <3> QED  BY <1>3, <3>1, SumSame
  <2> QED  BY <2>1, <2>2
<1>6. n \in Nat /\ SumFunctionOnSet(left, Paths) \in Nat
  BY <1>3, SumType
<1>7. r = [j EXCEPT !.done = j.done + n, !.copied = j.copied + n, !.left = left]
  <2>1. [p \in Paths |-> j.bag[p] * (IF p \in renamed THEN j.bag[p] - 1 ELSE j.bag[p])] = left
    BY <1>1
  <2> HIDE DEF left
  <2> QED  BY <2>1 DEF Renames
<1> HIDE DEF r, n, left
<1>8. /\ r.bag = j.bag /\ r.started = j.started /\ r.phase = j.phase /\ r.verdict = j.verdict
      /\ r.done = j.done + n /\ r.copied = j.copied + n /\ r.failed = j.failed /\ r.left = left
  BY <1>1, <1>7 DEF JobType
<1>9. r \in JobType
  <2>1. left \in [Paths -> Nat] /\ j.done + n \in Nat /\ j.copied + n \in Nat
    BY <1>1, <1>2, <1>3, <1>6
  <2> QED  BY <1>1, <1>7, <2>1 DEF JobType
<1>10. j.copied + n = n
  BY <1>1, <1>6
<1>11. n + SumOf(left) = SumOf(j.bag)
  BY <1>4, <1>5, <1>6 DEF SumOf
<1> QED  BY <1>1, <1>8, <1>9, <1>10, <1>11 DEF r

LEMMA OneMore ==
  ASSUME NEW a \in Nat, NEW b \in Nat, NEW c \in Nat, NEW d \in Nat, NEW s,
         a + b + c = s, d + 1 = c
  PROVE  (a + 1) + b + d = s /\ a + (b + 1) + d = s
  OBVIOUS

\* One file fewer is left.
LEMMA OneFileLess ==
  ASSUME NEW left \in [Paths -> Nat], NEW p \in Paths, left[p] > 0
  PROVE  LET less == [left EXCEPT ![p] = left[p] - 1] IN
         less \in [Paths -> Nat] /\ SumOf(less) + 1 = SumOf(left)
<1> DEFINE less == [left EXCEPT ![p] = left[p] - 1]
<1>1. /\ less \in [Paths -> Nat] /\ less[p] = left[p] - 1 /\ left[p] \in Nat
      /\ \A q \in Paths \ {p} : less[q] = left[q]
  OBVIOUS
<1> HIDE DEF less
<1>2. Counts(left, Paths) /\ Counts(less, Paths) /\ IsFiniteSet(Paths)
      /\ SumOf(left) \in Nat /\ SumOf(less) \in Nat
  BY <1>1, SumOfBag
<1>3. SumFunctionOnSet(less, Paths) + left[p] = SumFunctionOnSet(left, Paths) + less[p]
  BY <1>1, <1>2, SumChange
<1>4. SumOf(less) + left[p] = SumOf(left) + (left[p] - 1)
  BY <1>1, <1>3 DEF SumOf
<1>5. SumOf(less) + 1 = SumOf(left)
  <2> DEFINE x == SumOf(less)
             y == SumOf(left)
             z == left[p]
  <2>1. x \in Nat /\ y \in Nat /\ z \in Nat /\ x + z = y + (z - 1)
    BY <1>1, <1>2, <1>4
  <2> HIDE DEF x, y, z
  <2>2. x + 1 = y
    BY <2>1
  <2> QED  BY <2>2 DEF x, y
<1> QED  BY <1>1, <1>5 DEF less

LEMMA ThreadCounts ==
  ASSUME JobsInOrder, Counting, NEW i \in 1..Len(jobs), Work(i) \/ NoDestination(i)
  PROVE  Counting'
<1> DEFINE j == jobs[i]
<1>0. /\ JobCounts(j) /\ j \in JobType /\ j.bag \in [Paths -> 0..1] /\ j.left \in [Paths -> Nat]
      /\ j.started \in Nat /\ j.done \in Nat /\ j.copied \in Nat /\ j.failed \in Nat
      /\ SumOf(j.bag) \in Nat /\ SumOf(j.left) \in Nat
  <2>1. JobCounts(j)
    BY DEF Counting
  <2>2. j \in JobType /\ j.bag \in [Paths -> 0..1]
    BY <2>1 DEF JobCounts
  <2> HIDE DEF j
  <2> QED  BY <2>1, <2>2, JobIsCounted DEF JobType
<1>1. ASSUME NEW job, Sends(i, job), JobCounts(job),
             job.started + Size(j) = j.started + Size(job),
             job.done + j.copied = j.done + job.copied
      PROVE  Counting'
  BY <1>1, OneJobCounts DEF Sends
<1> HIDE DEF j
<1>2. ASSUME Dies(i), j.phase = "planning" PROVE Counting'
  <2> DEFINE job == [j EXCEPT !.phase = "dead"]
  <2>1. /\ job \in JobType /\ job.bag = j.bag /\ job.phase = "dead" /\ job.started = j.started
        /\ job.done = j.done /\ job.copied = j.copied /\ job.failed = j.failed
        /\ job.verdict = j.verdict
    BY <1>0 DEF JobType
  <2>2. Sends(i, job)
    BY <1>2 DEF Dies, j
  <2> HIDE DEF job
  <2>3. JobCounts(job)
    BY <1>0, <1>2, <2>1 DEF JobCounts, Announced
  <2>4. Size(job) = 0 /\ Size(j) = 0
    BY <1>2, <2>1 DEF Size, Announced
  <2> QED  BY <1>0, <1>1, <2>1, <2>2, <2>3, <2>4
<1>3. CASE Plan(i)
  <2> DEFINE job == [j EXCEPT !.phase = IF j.kind = "Move" THEN "renaming" ELSE "copying",
                              !.started = SumOf(j.bag)]
  <2>1. /\ job \in JobType /\ job.bag = j.bag /\ job.phase \in {"renaming", "copying"}
        /\ job.started = SumOf(j.bag) /\ job.left = j.left
        /\ job.done = j.done /\ job.copied = j.copied /\ job.failed = j.failed
        /\ job.verdict = j.verdict
    BY <1>0 DEF JobType
  <2>2. Sends(i, job) /\ j.phase = "planning"
    BY <1>3 DEF Plan, j
  <2> HIDE DEF job
  <2>3. j.started = 0 /\ j.done = 0 /\ j.copied = 0 /\ j.failed = 0 /\ j.left = j.bag
        /\ j.verdict # "Finished"
    BY <1>0, <2>2 DEF JobCounts, Announced
  <2>4. JobCounts(job)
    BY <1>0, <2>1, <2>3 DEF JobCounts, Announced
  <2>5. Size(job) = SumOf(j.bag) /\ Size(j) = 0
    BY <2>1, <2>2 DEF Size, Announced
  <2> QED  BY <1>0, <1>1, <2>1, <2>2, <2>3, <2>4, <2>5
<1>4. ASSUME NEW renamed \in SUBSET Listed(j.bag), j.phase = "renaming",
             NEW phase \in {"copying", "ended"}, NEW verdict \in {"none", "Cancelled"},
             NEW job, job = [Renames(j, renamed) EXCEPT !.phase = phase, !.verdict = verdict],
             Sends(i, job)
      PROVE  Counting'
  <2> DEFINE r == Renames(j, renamed)
  <2>1. /\ r \in JobType /\ r.bag = j.bag /\ r.started = j.started
        /\ r.done = j.done + r.copied /\ r.failed = 0 /\ j.copied = 0
        /\ r.copied + SumOf(r.left) = SumOf(r.bag)
    BY <1>0, <1>4, RenamesCount
  <2> HIDE DEF r
  <2>2. /\ job \in JobType /\ job.bag = j.bag /\ job.phase = phase /\ job.started = j.started
        /\ job.left = r.left /\ job.verdict = verdict
        /\ job.done = r.done /\ job.copied = r.copied /\ job.failed = 0
    BY <1>4, <2>1 DEF JobType, r
  <2>3. r.copied \in Nat
    BY <2>1 DEF JobType
  <2>6. Announced(job) /\ Announced(j) /\ phase \notin {"planning", "renaming"}
    BY <1>4, <2>2 DEF Announced
  <2>7. r.copied + 0 = r.copied
    BY <2>3
  <2>4. JobCounts(job)
    <3>1. job.copied + job.failed + SumOf(job.left) = SumOf(job.bag)
      BY <2>1, <2>2, <2>7
    <3>2. job.verdict # "Finished"
      BY <2>2
    <3>3. job.phase \notin {"planning", "renaming"}
      BY <2>2, <2>6
    <3> QED  BY <1>0, <2>2, <2>6, <3>1, <3>2, <3>3 DEF JobCounts
  <2>5. Size(job) = Size(j)
    BY <2>2, <2>6 DEF Size
  <2>8. job.done + j.copied = j.done + job.copied
    BY <1>0, <2>1, <2>2, <2>3
  <2>9. job.started + Size(j) = j.started + Size(job)
    BY <2>2, <2>5
  <2> QED  BY <1>1, <1>4, <2>4, <2>8, <2>9
<1>5. CASE RenameSources(i)
  <2>1. PICK renamed \in SUBSET (Listed(j.bag) \intersect disk) :
          Sends(i, [Renames(j, renamed) EXCEPT !.phase = "copying"])
    BY <1>5 DEF RenameSources, j
  <2>2. j.phase = "renaming"
    BY <1>5 DEF RenameSources, j
  <2> DEFINE r == Renames(j, renamed)
             job == [r EXCEPT !.phase = "copying"]
  <2>3. renamed \in SUBSET Listed(j.bag) /\ r \in JobType /\ r.verdict = j.verdict
    BY <1>0, <2>1, <2>2, RenamesCount
  <2>4. r.verdict \in {"none", "Cancelled"}
    BY <1>0, <2>2, <2>3 DEF JobCounts, JobType
  <2>5. Sends(i, job)
    BY <2>1
  <2> HIDE DEF r
  <2>6. job = [r EXCEPT !.phase = "copying", !.verdict = r.verdict]
    BY <2>3 DEF JobType
  <2> HIDE DEF job
  <2> QED  BY <1>4, <2>2, <2>3, <2>4, <2>5, <2>6 DEF r
<1>6. ASSUME NEW p \in Paths, FileDone(i, p) PROVE Counting'
  <2> DEFINE less == [j.left EXCEPT ![p] = j.left[p] - 1]
             job == [j EXCEPT !.left = less, !.done = j.done + 1, !.copied = j.copied + 1]
  <2>1. j.phase = "copying" /\ j.left[p] > 0 /\ Sends(i, job)
    BY <1>0, <1>6 DEF FileDone, j
  <2>2. less \in [Paths -> Nat] /\ SumOf(less) + 1 = SumOf(j.left) /\ SumOf(less) \in Nat
    BY <1>0, <2>1, OneFileLess, SumOfBag
  <2> HIDE DEF less
  <2>0. j.done + 1 \in Nat /\ j.copied + 1 \in Nat /\ j.failed + 1 \in Nat
    BY <1>0
  <2>3. /\ job \in JobType /\ job.bag = j.bag /\ job.phase = j.phase /\ job.started = j.started
        /\ job.left = less /\ job.verdict = j.verdict
        /\ job.done = j.done + 1 /\ job.copied = j.copied + 1 /\ job.failed = j.failed
    BY <1>0, <2>0, <2>2 DEF JobType
  <2> HIDE DEF job
  <2>4. Announced(job) /\ Announced(j) /\ j.verdict # "Finished"
    BY <1>0, <2>1, <2>3 DEF Announced, JobCounts
  <2>5. j.copied + j.failed + SumOf(j.left) = SumOf(j.bag)
    BY <1>0, <2>4 DEF JobCounts
  <2>6. job.copied + job.failed + SumOf(job.left) = SumOf(job.bag)
    <3> DEFINE a == j.copied
               b == j.failed
               c == SumOf(j.left)
               d == SumOf(less)
               s == SumOf(j.bag)
    <3>1. a \in Nat /\ b \in Nat /\ c \in Nat /\ d \in Nat /\ a + b + c = s /\ d + 1 = c
      BY <1>0, <2>2, <2>5
    <3> HIDE DEF a, b, c, d, s
    <3>2. (a + 1) + b + d = s /\ a + (b + 1) + d = s
      BY <3>1, OneMore
    <3> QED  BY <2>3, <3>2 DEF a, b, d, s
  <2>7. JobCounts(job)
    BY <1>0, <2>1, <2>3, <2>4, <2>6 DEF JobCounts
  <2>8. Size(job) = Size(j)
    BY <2>3, <2>4 DEF Size
  <2>9. job.done + j.copied = j.done + job.copied
    <3> DEFINE a == j.copied
               b == j.done
    <3>1. a \in Nat /\ b \in Nat /\ job.done = b + 1 /\ job.copied = a + 1
      BY <1>0, <2>3
    <3> HIDE DEF a, b
    <3>2. job.done + a = b + job.copied
      BY <3>1
    <3> QED  BY <3>2 DEF a, b
  <2> QED  BY <1>1, <2>1, <2>3, <2>7, <2>8, <2>9
<1>7. ASSUME NEW p \in Paths, FileError(i, p) PROVE Counting'
  <2> DEFINE less == [j.left EXCEPT ![p] = j.left[p] - 1]
             job == [j EXCEPT !.left = less, !.failed = j.failed + 1]
  <2>1. j.phase = "copying" /\ j.left[p] > 0 /\ Sends(i, job)
    BY <1>0, <1>7 DEF FileError, j
  <2>2. less \in [Paths -> Nat] /\ SumOf(less) + 1 = SumOf(j.left) /\ SumOf(less) \in Nat
    BY <1>0, <2>1, OneFileLess, SumOfBag
  <2> HIDE DEF less
  <2>0. j.done + 1 \in Nat /\ j.copied + 1 \in Nat /\ j.failed + 1 \in Nat
    BY <1>0
  <2>3. /\ job \in JobType /\ job.bag = j.bag /\ job.phase = j.phase /\ job.started = j.started
        /\ job.left = less /\ job.verdict = j.verdict
        /\ job.done = j.done /\ job.copied = j.copied /\ job.failed = j.failed + 1
    BY <1>0, <2>0, <2>2 DEF JobType
  <2> HIDE DEF job
  <2>4. Announced(job) /\ Announced(j) /\ j.verdict # "Finished"
    BY <1>0, <2>1, <2>3 DEF Announced, JobCounts
  <2>5. j.copied + j.failed + SumOf(j.left) = SumOf(j.bag)
    BY <1>0, <2>4 DEF JobCounts
  <2>6. job.copied + job.failed + SumOf(job.left) = SumOf(job.bag)
    <3> DEFINE a == j.copied
               b == j.failed
               c == SumOf(j.left)
               d == SumOf(less)
               s == SumOf(j.bag)
    <3>1. a \in Nat /\ b \in Nat /\ c \in Nat /\ d \in Nat /\ a + b + c = s /\ d + 1 = c
      BY <1>0, <2>2, <2>5
    <3> HIDE DEF a, b, c, d, s
    <3>2. (a + 1) + b + d = s /\ a + (b + 1) + d = s
      BY <3>1, OneMore
    <3> QED  BY <2>3, <3>2 DEF a, b, d, s
  <2>7. JobCounts(job)
    BY <1>0, <2>1, <2>3, <2>4, <2>6 DEF JobCounts
  <2>8. Size(job) = Size(j)
    BY <2>3, <2>4 DEF Size
  <2> QED  BY <1>1, <2>1, <2>3, <2>7, <2>8
\* What ends is as it was, but for its verdict.
<1>8. ASSUME j.phase = "copying", NEW verdict \in {"Finished", "Cancelled"},
             verdict = "Finished" => SumOf(j.left) = 0,
             Sends(i, [j EXCEPT !.phase = "ended", !.verdict = verdict])
      PROVE  Counting'
  <2> DEFINE job == [j EXCEPT !.phase = "ended", !.verdict = verdict]
  <2>1. /\ job \in JobType /\ job.bag = j.bag /\ job.phase = "ended" /\ job.started = j.started
        /\ job.left = j.left /\ job.verdict = verdict
        /\ job.done = j.done /\ job.copied = j.copied /\ job.failed = j.failed
    BY <1>0 DEF JobType
  <2>2. Sends(i, job)
    BY <1>8
  <2> HIDE DEF job
  <2>3. Announced(job) /\ Announced(j)
    BY <1>8, <2>1 DEF Announced
  <2>4. JobCounts(job)
    BY <1>0, <1>8, <2>1, <2>3 DEF JobCounts
  <2>5. Size(job) = Size(j)
    BY <2>1, <2>3 DEF Size
  <2> QED  BY <1>1, <2>1, <2>2, <2>4, <2>5
<1>9. CASE StopOnCancel(i)
  <2> DEFINE ended == [j EXCEPT !.phase = "ended", !.verdict = "Cancelled"]
  <2>1. \/ /\ j.phase = "renaming"
           /\ \E renamed \in SUBSET (Listed(j.bag) \intersect disk) : Sends(i, Renames(ended, renamed))
        \/ j.phase = "copying" /\ Sends(i, ended)
    BY <1>9 DEF StopOnCancel, j
  <2>2. ASSUME j.phase = "renaming", NEW renamed \in SUBSET Listed(j.bag),
               Sends(i, Renames(ended, renamed))
        PROVE  Counting'
    <3>1. Renames(ended, renamed)
            = [Renames(j, renamed) EXCEPT !.phase = "ended", !.verdict = "Cancelled"]
      BY <1>0 DEF Renames, JobType
    <3> HIDE DEF ended
    <3> QED  BY <1>4, <2>2, <3>1
  <2>3. CASE j.phase = "copying" /\ Sends(i, ended)
    BY <1>8, <2>3
  <2> HIDE DEF ended
  <2> QED  BY <2>1, <2>2, <2>3
<1>10. CASE Finish(i)
  <2>1. /\ j.phase = "copying" /\ SumOf(j.left) = 0
        /\ Sends(i, [j EXCEPT !.phase = "ended", !.verdict = "Finished"])
    BY <1>10 DEF Finish, j
  <2> QED  BY <1>8, <2>1
<1>11. CASE PlanFails(i) \/ NoDestination(i)
  BY <1>2, <1>11 DEF PlanFails, NoDestination, j
<1> QED  BY <1>3, <1>5, <1>6, <1>7, <1>9, <1>10, <1>11 DEF Work

-----------------------------------------------------------------------------
(* Sums along a list.                                                      *)

Along(s, a) == SumFunctionOnSet([k \in 1..Len(s) |-> a[s[k]]], 1..Len(s))

LEMMA AlongIsSum ==
  ASSUME NEW T, NEW s \in Seq(T), NEW a, Counts(a, T)
  PROVE  /\ Along(s, a) \in Nat /\ Len(s) \in Nat /\ IsFiniteSet(1..Len(s))
         /\ Counts([k \in 1..Len(s) |-> a[s[k]]], 1..Len(s))
<1>1. Len(s) \in Nat /\ \A k \in 1..Len(s) : s[k] \in T
  BY LenProperties
<1>2. Counts([k \in 1..Len(s) |-> a[s[k]]], 1..Len(s)) /\ IsFiniteSet(1..Len(s))
  <2>1. IsFiniteSet(1..Len(s))
    BY <1>1, FS_Interval
  <2>2. Counts([k \in 1..Len(s) |-> a[s[k]]], 1..Len(s))
    BY <1>1 DEF Counts
  <2> QED  BY <2>1, <2>2
<1>3. Along(s, a) \in Nat
  <2> DEFINE f == [k \in 1..Len(s) |-> a[s[k]]]
             J == 1..Len(s)
  <2>1. Counts(f, J) /\ IsFiniteSet(J) /\ Along(s, a) = SumFunctionOnSet(f, J)
    BY <1>2 DEF Along
  <2> HIDE DEF f, J
  <2> QED  BY <2>1, SumType
<1> QED  BY <1>1, <1>2, <1>3

LEMMA AlongAppend ==
  ASSUME NEW T, NEW s \in Seq(T), NEW x \in T, NEW a, Counts(a, T)
  PROVE  Along(Append(s, x), a) = Along(s, a) + a[x]
<1> DEFINE t == Append(s, x)
           n == Len(s)
           f == [k \in 1..n |-> a[s[k]]]
           F == [k \in 1..(n + 1) |-> a[t[k]]]
<1>1. /\ t \in Seq(T) /\ n \in Nat /\ Len(t) = n + 1 /\ t[n + 1] = x
      /\ \A k \in 1..n : t[k] = s[k] /\ s[k] \in T
  BY AppendProperties, LenProperties
<1> HIDE DEF t, n
<1>2. 1..(n + 1) = (1..n) \union {n + 1} /\ n + 1 \notin 1..n /\ IsFiniteSet(1..n)
  <2>1. IsFiniteSet(1..n)
    BY <1>1, FS_Interval
  <2>2. n \in Nat
    BY <1>1
  <2>3. 1..(n + 1) = (1..n) \union {n + 1} /\ n + 1 \notin 1..n
    BY <2>2
  <2> QED  BY <2>1, <2>3
<1>3. Counts(f, 1..n) /\ \A k \in 1..n : F[k] = f[k]
  BY <1>1, <1>2 DEF Counts
<1>4. F[n + 1] = a[x] /\ a[x] \in Nat
  BY <1>1, <1>2 DEF Counts
<1> HIDE DEF f, F
<1>5. Counts(F, 1..n)
  BY <1>3 DEF Counts
<1>6. SumFunctionOnSet(F, 1..(n + 1)) = F[n + 1] + SumFunctionOnSet(F, 1..n)
  BY <1>2, <1>4, <1>5, SumAdd
<1>7. SumFunctionOnSet(F, 1..n) = SumFunctionOnSet(f, 1..n) /\ SumFunctionOnSet(f, 1..n) \in Nat
  BY <1>2, <1>3, SumSame, SumType
<1>8. SumFunctionOnSet(F, 1..(n + 1)) = SumFunctionOnSet(f, 1..n) + a[x]
  BY <1>4, <1>6, <1>7
<1>9. Along(t, a) = SumFunctionOnSet(F, 1..(n + 1)) /\ Along(s, a) = SumFunctionOnSet(f, 1..n)
  BY <1>1 DEF Along, F, f, n
<1> QED  BY <1>8, <1>9 DEF t

\* What is taken out of a list is missing in the sum.
LEMMA AlongOnly ==
  ASSUME NEW T, NEW s \in Seq(T), NEW S, NEW a, Counts(a, T), NEW b, Counts(b, T),
         \A x \in T : b[x] = IF x \in S THEN 0 ELSE a[x]
  PROVE  Along(s, a) = Along(Only(s, S), a) + Along(s, b)
<1> DEFINE Good == {t \in Seq(T) : Along(t, a) = Along(Only(t, S), a) + Along(t, b)}
<1>1. <<>> \in Good
  <2>1. <<>> \in Seq(T) /\ Len(<<>>) = 0 /\ Only(<<>>, S) = <<>>
    BY OnlyOfEmpty, EmptySeq
  <2>2. 1..Len(<<>>) = {} /\ \A f : SumFunctionOnSet(f, {}) = 0
    <3>1. IsFiniteSet({})
      BY FS_EmptySet
    <3> QED  BY <2>1, <3>1, SumType DEF Counts
  <2>3. Along(<<>>, a) = 0 /\ Along(<<>>, b) = 0
    BY <2>2 DEF Along
  <2> QED  BY <2>1, <2>3
<1>2. ASSUME NEW t \in Seq(T), NEW x \in T, t \in Good PROVE Append(t, x) \in Good
  <2> DEFINE u == Append(t, x)
             o == Only(t, S)
  <2>1. u \in Seq(T) /\ o \in Seq(T)
    BY AppendProperties, OnlyIsDrawn
  <2>2. Along(u, a) = Along(t, a) + a[x] /\ Along(u, b) = Along(t, b) + b[x]
    BY AlongAppend
  <2>3. Only(u, S) = IF x \in S THEN Append(o, x) ELSE o
    BY OnlyOfAppend DEF Taken
  <2>4. Along(t, a) = Along(o, a) + Along(t, b)
    BY <1>2
  <2> HIDE DEF u, o
  <2>5. Along(Append(o, x), a) = Along(o, a) + a[x]
    BY <2>1, AlongAppend
  <2>6. /\ Along(t, a) \in Nat /\ Along(o, a) \in Nat /\ Along(t, b) \in Nat
        /\ a[x] \in Nat
    BY <2>1, AlongIsSum DEF Counts
  <2>7. CASE x \in S
    <3>1. Along(Only(u, S), a) = Along(o, a) + a[x] /\ Along(u, b) = Along(t, b) + 0
      BY <2>2, <2>3, <2>5, <2>7
    <3>2. Along(t, a) + a[x] = (Along(o, a) + a[x]) + (Along(t, b) + 0)
      BY <2>4, <2>6
    <3>3. Along(u, a) = Along(Only(u, S), a) + Along(u, b)
      BY <2>2, <3>1, <3>2
    <3> QED  BY <2>1, <3>3 DEF u
  <2>8. CASE x \notin S
    <3>1. Along(Only(u, S), a) = Along(o, a) /\ Along(u, b) = Along(t, b) + a[x]
      BY <2>2, <2>3, <2>8
    <3>2. Along(t, a) + a[x] = Along(o, a) + (Along(t, b) + a[x])
      BY <2>4, <2>6
    <3>3. Along(u, a) = Along(Only(u, S), a) + Along(u, b)
      BY <2>2, <3>1, <3>2
    <3> QED  BY <2>1, <3>3 DEF u
  <2> QED  BY <2>7, <2>8
<1> HIDE DEF Good
<1>3. Seq(T) \subseteq Good
  BY <1>1, <1>2, SequencesInSet
<1> QED  BY <1>3 DEF Good

\* What is taken out of a list, by its places.
LEMMA AlongPart ==
  ASSUME NEW T, NEW s \in Seq(T), NEW R \in SUBSET (1..Len(s)), NEW b, Counts(b, T),
         NEW f, \A k \in R : f[k] = b[s[k]], \A k \in (1..Len(s)) \ R : b[s[k]] = 0
  PROVE  Along(s, b) = SumFunctionOnSet(f, R)
<1> DEFINE J == 1..Len(s)
           g == [k \in J |-> b[s[k]]]
<1>1. IsFiniteSet(J) /\ Counts(g, J) /\ Along(s, b) = SumFunctionOnSet(g, J)
  BY AlongIsSum DEF Along
<1>2. R \in SUBSET J /\ (\A k \in J \ R : g[k] = 0) /\ (\A k \in R : g[k] = f[k])
  OBVIOUS
<1> HIDE DEF J, g
<1>3. IsFiniteSet(R) /\ Counts(g, R)
  BY <1>1, <1>2, SubsetOfFinite DEF Counts
<1>4. SumFunctionOnSet(g, J) = SumFunctionOnSet(g, R)
  BY <1>1, <1>2, SumOfPart
<1>5. SumFunctionOnSet(g, R) = SumFunctionOnSet(f, R)
  BY <1>2, <1>3, SumSame
<1> QED  BY <1>1, <1>4, <1>5

LEMMA AlongPlus ==
  ASSUME NEW T, NEW s \in Seq(T), NEW a, NEW b, NEW c, Counts(a, T), Counts(b, T),
         \A x \in T : c[x] = a[x] + b[x]
  PROVE  Along(s, c) = Along(s, a) + Along(s, b)
<1> DEFINE J == 1..Len(s)
           f == [k \in J |-> a[s[k]]]
           g == [k \in J |-> b[s[k]]]
           h == [k \in J |-> c[s[k]]]
<1>1. IsFiniteSet(J) /\ Counts(f, J) /\ Counts(g, J)
  BY AlongIsSum
<1>2. \A k \in J : s[k] \in T
  BY LenProperties
<1>3. \A k \in J : h[k] = f[k] + g[k]
  BY <1>2
<1> HIDE DEF f, g, h, J
<1>4. SumFunctionOnSet(h, J) = SumFunctionOnSet(f, J) + SumFunctionOnSet(g, J)
  BY <1>1, <1>3, SumPlus
<1> QED  BY <1>4 DEF Along, f, g, h, J

\* What poll takes off the list has all been counted by then.
LEMMA EndedSums ==
  ASSUME NEW T, NEW list \in Seq(T), \A x \in T : JobCounts(x) /\ x.verdict # "Cancelled",
         NEW S, \A x \in T : x \in S <=> x.verdict = "none",
         NEW R, R = {i \in 1..Len(list) : list[i].verdict = "Finished"}
  PROVE  LET left == Only(list, S)
             c == SumFunctionOnSet(Copied(list), R)
             f == SumFunctionOnSet(Failed(list), R)
         IN  /\ c \in Nat /\ f \in Nat
             /\ AllCount(list) /\ AllCount(left)
             /\ SumFunction(Copied(list)) = SumFunction(Copied(left)) + c
             /\ SumFunction(Sizes(list)) = SumFunction(Sizes(left)) + (c + f)
<1> DEFINE left == Only(list, S)
           c == SumFunctionOnSet(Copied(list), R)
           f == SumFunctionOnSet(Failed(list), R)
           copied == [x \in T |-> x.copied]
           size == [x \in T |-> Size(x)]
           endedCopied == [x \in T |-> IF x \in S THEN 0 ELSE x.copied]
           endedFailed == [x \in T |-> IF x \in S THEN 0 ELSE x.failed]
           endedSize == [x \in T |-> IF x \in S THEN 0 ELSE Size(x)]
<1>1. left \in Seq(T)
  BY OnlyIsDrawn
<1> HIDE DEF left
<1>2. /\ Len(list) \in Nat /\ \A k \in 1..Len(list) : list[k] \in T
      /\ Len(left) \in Nat /\ \A k \in 1..Len(left) : left[k] \in T
  BY <1>1, LenProperties
<1>3. AllCount(list) /\ AllCount(left)
  BY <1>2 DEF AllCount
<1>4. \A x \in T : /\ x.copied \in Nat /\ x.failed \in Nat /\ Size(x) \in Nat
                   /\ x \notin S => Size(x) = x.copied + x.failed
  <2> SUFFICES ASSUME NEW x \in T
               PROVE  /\ x.copied \in Nat /\ x.failed \in Nat /\ Size(x) \in Nat
                      /\ x \notin S => Size(x) = x.copied + x.failed
    OBVIOUS
  <2>1. /\ JobCounts(x) /\ x.copied \in Nat /\ x.failed \in Nat /\ Size(x) \in Nat
        /\ x.verdict \in {"none", "Finished", "Cancelled"} /\ x.verdict # "Cancelled"
    BY JobIsCounted DEF JobCounts, JobType
  <2>2. ASSUME x \notin S PROVE Size(x) = x.copied + x.failed
    <3>1. x.verdict = "Finished"
      BY <2>1, <2>2
    <3>2. x.phase = "ended" /\ SumOf(x.left) = 0
      BY <2>1, <3>1 DEF JobCounts
    <3>3. Announced(x)
      BY <3>2 DEF Announced
    <3>4. x.copied + x.failed + SumOf(x.left) = SumOf(x.bag) /\ Size(x) = SumOf(x.bag)
      BY <2>1, <3>3 DEF JobCounts, Size
    <3> QED  BY <2>1, <3>2, <3>4
  <2> QED  BY <2>1, <2>2
<1>5. /\ Counts(copied, T) /\ Counts(size, T) /\ Counts(endedCopied, T)
      /\ Counts(endedFailed, T) /\ Counts(endedSize, T)
  BY <1>4 DEF Counts
<1>6. /\ \A x \in T : endedCopied[x] = IF x \in S THEN 0 ELSE copied[x]
      /\ \A x \in T : endedSize[x] = IF x \in S THEN 0 ELSE size[x]
      /\ \A x \in T : endedSize[x] = endedCopied[x] + endedFailed[x]
  BY <1>4
<1>7. R \in SUBSET (1..Len(list)) /\ \A k \in 1..Len(list) : k \in R <=> list[k] \notin S
  <2>1. \A x \in T : x.verdict \in {"none", "Finished"}
    BY DEF JobCounts, JobType
  <2> QED  BY <1>2, <2>1
<1>8. /\ \A k \in R : Copied(list)[k] = endedCopied[list[k]] /\ Failed(list)[k] = endedFailed[list[k]]
      /\ \A k \in (1..Len(list)) \ R : endedCopied[list[k]] = 0 /\ endedFailed[list[k]] = 0
  BY <1>2, <1>7 DEF Copied, Failed
<1>9. /\ SumFunction(Copied(list)) = Along(list, copied)
      /\ SumFunction(Copied(left)) = Along(left, copied)
      /\ SumFunction(Sizes(list)) = Along(list, size)
      /\ SumFunction(Sizes(left)) = Along(left, size)
  <2>1. /\ Copied(list) = [k \in 1..Len(list) |-> copied[list[k]]]
        /\ Copied(left) = [k \in 1..Len(left) |-> copied[left[k]]]
        /\ Sizes(list) = [k \in 1..Len(list) |-> size[list[k]]]
        /\ Sizes(left) = [k \in 1..Len(left) |-> size[left[k]]]
    BY <1>2 DEF Copied, Sizes
  <2> HIDE DEF copied, size
  <2> QED  BY <1>3, <2>1, JobSums DEF Along
<1> HIDE DEF copied, size, endedCopied, endedFailed, endedSize
<1>10. Along(list, copied) = Along(left, copied) + Along(list, endedCopied)
  BY <1>5, <1>6, AlongOnly DEF left
<1>11. Along(list, size) = Along(left, size) + Along(list, endedSize)
  BY <1>5, <1>6, AlongOnly DEF left
<1>12. Along(list, endedSize) = Along(list, endedCopied) + Along(list, endedFailed)
  BY <1>5, <1>6, AlongPlus
<1>13. Along(list, endedCopied) = c /\ Along(list, endedFailed) = f
  BY <1>5, <1>7, <1>8, AlongPart
<1>14. Along(list, endedCopied) \in Nat /\ Along(list, endedFailed) \in Nat
  BY <1>5, AlongIsSum
<1> HIDE DEF c, f
<1>15. /\ SumFunction(Copied(list)) = SumFunction(Copied(left)) + c
       /\ SumFunction(Sizes(list)) = SumFunction(Sizes(left)) + (c + f)
  BY <1>9, <1>10, <1>11, <1>12, <1>13
<1>16. c \in Nat /\ f \in Nat
  BY <1>13, <1>14
<1> QED  BY <1>3, <1>15, <1>16 DEF left, c, f

\* What is left has been looked at.
LEMMA SeenSums ==
  ASSUME NEW list, AllCount(list), NEW seen,
         seen = [i \in 1..Len(list) |-> [list[i] EXCEPT !.started = 0, !.done = 0]],
         Len(seen) = Len(list)
  PROVE  /\ AllCount(seen)
         /\ SumFunction(Started(seen)) = 0 /\ SumFunction(Done(seen)) = 0
         /\ SumFunction(Copied(seen)) = SumFunction(Copied(list))
         /\ SumFunction(Sizes(seen)) = SumFunction(Sizes(list))
<1> DEFINE J == 1..Len(list)
<1>1. \A k \in J :
        /\ JobCounts(seen[k]) /\ seen[k].started = 0 /\ seen[k].done = 0
        /\ seen[k].copied = list[k].copied /\ Size(seen[k]) = Size(list[k])
  <2> SUFFICES ASSUME NEW k \in J
               PROVE  /\ JobCounts(seen[k]) /\ seen[k].started = 0 /\ seen[k].done = 0
                      /\ seen[k].copied = list[k].copied /\ Size(seen[k]) = Size(list[k])
    OBVIOUS
  <2> DEFINE x == list[k]
             y == [x EXCEPT !.started = 0, !.done = 0]
  <2>1. JobCounts(x) /\ seen[k] = y
    BY DEF AllCount
  <2> HIDE DEF x
  <2>2. x \in JobType
    BY <2>1 DEF JobCounts
  <2>3. /\ y \in JobType /\ y.started = 0 /\ y.done = 0 /\ y.copied = x.copied
        /\ y.failed = x.failed /\ y.phase = x.phase /\ y.bag = x.bag /\ y.left = x.left
        /\ y.verdict = x.verdict
    BY <2>2 DEF JobType
  <2> HIDE DEF y
  <2>4. JobCounts(y)
    BY <2>1, <2>3 DEF JobCounts, Announced
  <2>5. Size(y) = Size(x)
    BY <2>3 DEF Size, Announced
  <2> QED  BY <2>1, <2>3, <2>4, <2>5 DEF x
<1>2. AllCount(seen)
  BY <1>1 DEF AllCount
<1>3. /\ \A k \in J : Started(seen)[k] = 0 /\ Done(seen)[k] = 0
      /\ \A k \in J : Copied(seen)[k] = Copied(list)[k]
      /\ \A k \in J : Sizes(seen)[k] = Sizes(list)[k]
  BY <1>1 DEF Started, Done, Copied, Sizes
<1>4. /\ IsFiniteSet(J) /\ {} \in SUBSET J /\ Counts(Started(seen), J) /\ Counts(Done(seen), J)
      /\ Counts(Copied(seen), J) /\ Counts(Sizes(seen), J)
      /\ SumFunction(Started(seen)) = SumFunctionOnSet(Started(seen), J)
      /\ SumFunction(Done(seen)) = SumFunctionOnSet(Done(seen), J)
      /\ SumFunction(Copied(seen)) = SumFunctionOnSet(Copied(seen), J)
      /\ SumFunction(Sizes(seen)) = SumFunctionOnSet(Sizes(seen), J)
      /\ SumFunction(Copied(list)) = SumFunctionOnSet(Copied(list), J)
      /\ SumFunction(Sizes(list)) = SumFunctionOnSet(Sizes(list), J)
  BY <1>2, JobSums
<1> HIDE DEF J
<1>5. SumFunctionOnSet(Copied(seen), J) = SumFunctionOnSet(Copied(list), J)
  <2> DEFINE f == Copied(seen)
             g == Copied(list)
  <2>1. IsFiniteSet(J) /\ Counts(f, J) /\ \A k \in J : g[k] = f[k]
    BY <1>3, <1>4
  <2> HIDE DEF f, g
  <2>2. SumFunctionOnSet(f, J) = SumFunctionOnSet(g, J)
    BY <2>1, SumSame
  <2> QED  BY <2>2 DEF f, g
<1>6. SumFunctionOnSet(Sizes(seen), J) = SumFunctionOnSet(Sizes(list), J)
  <2> DEFINE f == Sizes(seen)
             g == Sizes(list)
  <2>1. IsFiniteSet(J) /\ Counts(f, J) /\ \A k \in J : g[k] = f[k]
    BY <1>3, <1>4
  <2> HIDE DEF f, g
  <2>2. SumFunctionOnSet(f, J) = SumFunctionOnSet(g, J)
    BY <2>1, SumSame
  <2> QED  BY <2>2 DEF f, g
<1>7. SumFunctionOnSet(Started(seen), J) = 0 /\ SumFunctionOnSet(Done(seen), J) = 0
  BY <1>3, <1>4, SumOfNothing
<1> QED  BY <1>2, <1>4, <1>5, <1>6, <1>7

-----------------------------------------------------------------------------
(* The steps of the tab.                                                   *)

LEMMA PollCounts ==
  ASSUME JobsInOrder, Counting, Poll, ~cut'
  PROVE  Counting'
<1> DEFINE T == {jobs[i] : i \in 1..Len(jobs)}
           left == Only(jobs, StillRunning)
           R == {i \in 1..Len(jobs) : jobs[i].verdict = "Finished"}
           c == SumFunctionOnSet(Copied(jobs), R)
           f == SumFunctionOnSet(Failed(jobs), R)
<1>1. /\ totalFiles' = totalFiles + SumFunction(Started(jobs))
      /\ filesDone' = filesDone + SumFunction(Done(jobs))
      /\ totals' = NewTotals({i \in Ended : jobs[i].verdict = "Finished"})
      /\ jobs' = [i \in 1..Len(left) |-> [left[i] EXCEPT !.started = 0, !.done = 0]]
      /\ \A i \in Ended : jobs[i].verdict # "Cancelled"
  BY DEF Poll
<1>2. {i \in Ended : jobs[i].verdict = "Finished"} = R
  BY DEF Ended
<1>3. \A x \in T : JobCounts(x) /\ x.verdict # "Cancelled"
  BY <1>1 DEF Counting, Ended
<1>4. \A x \in T : x \in StillRunning <=> x.verdict = "none"
  BY DEF StillRunning, Ended
<1>5. jobs \in Seq(T)
  BY DEF JobsInOrder
<1>6. left \in Seq(T)
  <2> HIDE DEF T
  <2> QED  BY <1>5, OnlyIsDrawn
<1>7. /\ c \in Nat /\ f \in Nat
      /\ AllCount(jobs) /\ AllCount(left)
      /\ SumFunction(Copied(jobs)) = SumFunction(Copied(left)) + c
      /\ SumFunction(Sizes(jobs)) = SumFunction(Sizes(left)) + (c + f)
  <2> HIDE DEF T
  <2> QED  BY <1>3, <1>4, <1>5, EndedSums
<1> HIDE DEF T, left, c, f
<1>8. Len(left) \in Nat
  BY <1>6, LenProperties
<1>9. Len(jobs') = Len(left)
  <2>1. jobs' = [i \in 1..Len(left) |-> jobs'[i]]
    BY <1>1
  <2> QED  BY <1>8, <2>1, FunctionIsSeq
<1>10. /\ AllCount(jobs')
       /\ SumFunction(Started(jobs')) = 0 /\ SumFunction(Done(jobs')) = 0
       /\ SumFunction(Copied(jobs')) = SumFunction(Copied(left))
       /\ SumFunction(Sizes(jobs')) = SumFunction(Sizes(left))
  BY <1>1, <1>7, <1>9, SeenSums
<1>11. /\ SumFunction(Started(jobs)) \in Nat /\ SumFunction(Done(jobs)) \in Nat
       /\ SumFunction(Copied(left)) \in Nat /\ SumFunction(Sizes(left)) \in Nat
  BY <1>7, JobSums
<1>12. /\ totalFiles \in Nat /\ filesDone \in Nat /\ Told.copied \in Nat /\ Told.failed \in Nat
       /\ (totals = NoTotals \/ (totals \in [copied : Nat, failed : Nat] /\ totals # NoTotals))
  BY SessionConstants DEF Counting, TotalsTyped, Told, Zeros
<1>13. /\ Told'.copied = Told.copied + c /\ Told'.failed = Told.failed + f
       /\ totals' \in {NoTotals} \union [copied : Nat, failed : Nat]
  <2>1. CASE R = {}
    <3>1. totals' = totals
      BY <1>1, <1>2, <2>1 DEF NewTotals
    <3>2. c = 0 /\ f = 0
      <4>1. \A g : SumFunctionOnSet(g, {}) = 0
        BY FS_EmptySet, SumOfNothing
      <4> QED  BY <2>1, <4>1 DEF c, f
    <3>3. Told' = Told
      BY <3>1 DEF Told
    <3> QED  BY <1>12, <3>1, <3>2, <3>3
  <2>2. CASE R # {}
    <3>1. totals' = [copied |-> Told.copied + c, failed |-> Told.failed + f]
      BY <1>1, <1>2, <2>2 DEF NewTotals, Told, Zeros, c, f
    <3>2. Told.copied + c \in Nat /\ Told.failed + f \in Nat
      BY <1>7, <1>12
    <3>3. totals' \in [copied : Nat, failed : Nat]
      BY <3>1, <3>2
    <3>4. Told' = totals'
      BY <3>3, SessionConstants DEF Told
    <3> QED  BY <3>1, <3>3, <3>4
  <2> QED  BY <2>1, <2>2
<1>14. TotalsTyped'
  <2>1. totalFiles' \in Nat /\ filesDone' \in Nat
    <3> DEFINE s == SumFunction(Started(jobs))
               d == SumFunction(Done(jobs))
    <3>1. totalFiles' = totalFiles + s /\ filesDone' = filesDone + d
      BY <1>1
    <3>2. totalFiles \in Nat /\ filesDone \in Nat /\ s \in Nat /\ d \in Nat
      BY <1>11, <1>12
    <3> HIDE DEF s, d
    <3> QED  BY <3>1, <3>2
  <2> QED  BY <1>13, <2>1 DEF TotalsTyped
<1>15. Balance'
  <2> DEFINE s == SumFunction(Started(jobs))
             d == SumFunction(Done(jobs))
             k == SumFunction(Copied(left))
             z == SumFunction(Sizes(left))
             tc == Told.copied
             tf == Told.failed
  <2>1. totalFiles + s = (tc + tf) + (z + (c + f)) /\ filesDone + d = tc + (k + c)
    BY <1>7 DEF Counting, Balance
  <2>2. s \in Nat /\ d \in Nat /\ k \in Nat /\ z \in Nat /\ tc \in Nat /\ tf \in Nat
    BY <1>11, <1>12
  <2>3. /\ totalFiles' = totalFiles + s /\ filesDone' = filesDone + d
        /\ Told'.copied = tc + c /\ Told'.failed = tf + f
        /\ SumFunction(Started(jobs')) = 0 /\ SumFunction(Done(jobs')) = 0
        /\ SumFunction(Copied(jobs')) = k /\ SumFunction(Sizes(jobs')) = z
    BY <1>1, <1>10, <1>13
  <2> HIDE DEF s, d, k, z, tc, tf
  <2>4. (totalFiles + s) + 0 = ((tc + c) + (tf + f)) + z
    BY <1>7, <1>12, <2>1, <2>2
  <2>5. (filesDone + d) + 0 = (tc + c) + k
    BY <1>7, <1>12, <2>1, <2>2
  <2> QED  BY <2>3, <2>4, <2>5 DEF Balance
<1> QED  BY <1>10, <1>14, <1>15 DEF Counting, AllCount

\* A new job has counted nothing.
LEMMA NewJobCounts ==
  ASSUME NEW kind \in {"Copy", "Move"}, NEW bag \in [Paths -> 0..1]
  PROVE  LET j == NewJob(kind, bag) IN
         JobCounts(j) /\ j.started = 0 /\ j.done = 0 /\ j.copied = 0 /\ Size(j) = 0
<1> DEFINE j == NewJob(kind, bag)
<1>1. /\ j.phase = "planning" /\ j.started = 0 /\ j.done = 0 /\ j.copied = 0 /\ j.failed = 0
      /\ j.bag = bag /\ j.left = bag /\ j.verdict = "none"
  BY DEF NewJob
<1>2. j \in JobType
  <2>1. bag \in [Paths -> Nat]
    OBVIOUS
  <2> QED  BY <2>1 DEF NewJob, JobType
<1> HIDE DEF j
<1>3. JobCounts(j) /\ Size(j) = 0
  BY <1>1, <1>2 DEF JobCounts, Announced, Size
<1> QED  BY <1>1, <1>3 DEF j

\* One more job that has counted nothing.
LEMMA MoreSums ==
  ASSUME NEW list, NEW more, AllCount(list), Len(more) = Len(list) + 1,
         \A k \in 1..Len(list) : more[k] = list[k],
         NEW j, j = more[Len(list) + 1], JobCounts(j),
         j.started = 0, j.done = 0, j.copied = 0, Size(j) = 0
  PROVE  /\ AllCount(more)
         /\ SumFunction(Started(more)) = SumFunction(Started(list))
         /\ SumFunction(Done(more)) = SumFunction(Done(list))
         /\ SumFunction(Copied(more)) = SumFunction(Copied(list))
         /\ SumFunction(Sizes(more)) = SumFunction(Sizes(list))
<1> DEFINE J == 1..Len(list)
           K == 1..Len(more)
<1>1. AllCount(more) /\ J \in SUBSET K /\ K \ J = {Len(list) + 1}
  BY DEF AllCount
<1>2. /\ \A k \in J : /\ Started(more)[k] = Started(list)[k] /\ Done(more)[k] = Done(list)[k]
                      /\ Copied(more)[k] = Copied(list)[k] /\ Sizes(more)[k] = Sizes(list)[k]
      /\ \A k \in K \ J : /\ Started(more)[k] = 0 /\ Done(more)[k] = 0
                          /\ Copied(more)[k] = 0 /\ Sizes(more)[k] = 0
  BY <1>1 DEF AllCount, Started, Done, Copied, Sizes
<1>3. ASSUME NEW f, NEW g, Counts(f, J), Counts(g, K), IsFiniteSet(J), IsFiniteSet(K),
             \A k \in J : g[k] = f[k], \A k \in K \ J : g[k] = 0
      PROVE  SumFunctionOnSet(g, K) = SumFunctionOnSet(f, J)
  <2> HIDE DEF J, K
  <2>1. SumFunctionOnSet(g, K) = SumFunctionOnSet(g, J)
    BY <1>1, <1>3, SumOfPart
  <2>2. SumFunctionOnSet(g, J) = SumFunctionOnSet(f, J)
    BY <1>3, SumSame
  <2> QED  BY <2>1, <2>2
<1>4. /\ IsFiniteSet(J) /\ Counts(Started(list), J) /\ Counts(Done(list), J)
      /\ Counts(Copied(list), J) /\ Counts(Sizes(list), J)
      /\ SumFunction(Started(list)) = SumFunctionOnSet(Started(list), J)
      /\ SumFunction(Done(list)) = SumFunctionOnSet(Done(list), J)
      /\ SumFunction(Copied(list)) = SumFunctionOnSet(Copied(list), J)
      /\ SumFunction(Sizes(list)) = SumFunctionOnSet(Sizes(list), J)
  BY JobSums
<1>5. /\ IsFiniteSet(K) /\ Counts(Started(more), K) /\ Counts(Done(more), K)
      /\ Counts(Copied(more), K) /\ Counts(Sizes(more), K)
      /\ SumFunction(Started(more)) = SumFunctionOnSet(Started(more), K)
      /\ SumFunction(Done(more)) = SumFunctionOnSet(Done(more), K)
      /\ SumFunction(Copied(more)) = SumFunctionOnSet(Copied(more), K)
      /\ SumFunction(Sizes(more)) = SumFunctionOnSet(Sizes(more), K)
  BY <1>1, JobSums
<1> HIDE DEF J, K
<1>6. SumFunctionOnSet(Started(more), K) = SumFunctionOnSet(Started(list), J)
  BY <1>2, <1>3, <1>4, <1>5
<1>7. SumFunctionOnSet(Done(more), K) = SumFunctionOnSet(Done(list), J)
  BY <1>2, <1>3, <1>4, <1>5
<1>8. SumFunctionOnSet(Copied(more), K) = SumFunctionOnSet(Copied(list), J)
  BY <1>2, <1>3, <1>4, <1>5
<1>9. SumFunctionOnSet(Sizes(more), K) = SumFunctionOnSet(Sizes(list), J)
  BY <1>2, <1>3, <1>4, <1>5
<1> QED  BY <1>1, <1>4, <1>5, <1>6, <1>7, <1>8, <1>9

\* The same sums, and the same totals.
LEMMA SameSums ==
  ASSUME Counting, AllCount(jobs'), UNCHANGED totalVars,
         SumFunction(Started(jobs')) = SumFunction(Started(jobs)),
         SumFunction(Done(jobs')) = SumFunction(Done(jobs)),
         SumFunction(Copied(jobs')) = SumFunction(Copied(jobs)),
         SumFunction(Sizes(jobs')) = SumFunction(Sizes(jobs))
  PROVE  Counting'
  BY DEF Counting, AllCount, TotalsTyped, Balance, Told, totalVars

LEMMA BatchCounts ==
  ASSUME JobsInOrder, Counting, NEW kind \in {"Copy", "Move"}, NEW bag \in [Paths -> 0..1],
         jobs' = Append(jobs, NewJob(kind, bag)), UNCHANGED totalVars
  PROVE  Counting'
<1> DEFINE j == NewJob(kind, bag)
<1>1. /\ Len(jobs) \in Nat /\ Len(jobs') = Len(jobs) + 1
      /\ j = jobs'[Len(jobs) + 1] /\ \A k \in 1..Len(jobs) : jobs'[k] = jobs[k]
  <2> DEFINE T == {jobs[i] : i \in 1..Len(jobs)} \union {j}
  <2>1. jobs \in Seq(T) /\ j \in T /\ Len(jobs) \in Nat
    BY SeqMonotonic DEF JobsInOrder
  <2> HIDE DEF T, j
  <2> QED  BY <2>1, AppendProperties, LenProperties DEF j
<1>2. AllCount(jobs)
  BY <1>1 DEF Counting, AllCount
<1>3. JobCounts(j) /\ j.started = 0 /\ j.done = 0 /\ j.copied = 0 /\ Size(j) = 0
  BY NewJobCounts
<1> HIDE DEF j
<1> QED  BY <1>1, <1>2, <1>3, MoreSums, SameSums

LEMMA StartCounts ==
  ASSUME NEW kind \in {"Copy", "Move"}, NEW bag \in [Paths -> 0..1],
         jobs' = <<NewJob(kind, bag)>>,
         totalFiles' = 0, filesDone' = 0, totals' = NoTotals
  PROVE  Counting'
<1> DEFINE j == NewJob(kind, bag)
<1>1. /\ Len(jobs') = 1 /\ jobs'[1] = j
  OBVIOUS
<1>2. JobCounts(j) /\ j.started = 0 /\ j.done = 0 /\ j.copied = 0 /\ Size(j) = 0
  BY NewJobCounts
<1> HIDE DEF j
<1>3. AllCount(jobs')
  BY <1>1, <1>2 DEF AllCount
<1>4. /\ \A k \in 1..Len(jobs') : Started(jobs')[k] = 0 /\ Done(jobs')[k] = 0
      /\ \A k \in 1..Len(jobs') : Copied(jobs')[k] = 0 /\ Sizes(jobs')[k] = 0
  BY <1>1, <1>2 DEF Started, Done, Copied, Sizes
<1>5. /\ SumFunction(Started(jobs')) = 0 /\ SumFunction(Done(jobs')) = 0
      /\ SumFunction(Copied(jobs')) = 0 /\ SumFunction(Sizes(jobs')) = 0
  BY <1>3, <1>4, JobSums, SumOfNothing
<1>6. Told'.copied = 0 /\ Told'.failed = 0
  BY DEF Told, Zeros
<1> QED  BY <1>3, <1>5, <1>6 DEF Counting, AllCount, TotalsTyped, Balance

LEMMA CancelCounts ==
  ASSUME JobsInOrder, Counting, UNCHANGED totalVars,
         jobs' = [i \in 1..Len(jobs) |-> [jobs[i] EXCEPT !.cancel = TRUE]]
  PROVE  Counting'
<1> DEFINE J == 1..Len(jobs)
<1>1. Len(jobs) \in Nat /\ Len(jobs') = Len(jobs)
  <2>1. jobs' = [i \in 1..Len(jobs) |-> jobs'[i]] /\ Len(jobs) \in Nat
    BY DEF JobsInOrder
  <2> QED  BY <2>1, FunctionIsSeq
<1>2. \A k \in J :
        /\ JobCounts(jobs'[k]) /\ jobs'[k].started = jobs[k].started
        /\ jobs'[k].done = jobs[k].done
        /\ jobs'[k].copied = jobs[k].copied /\ Size(jobs'[k]) = Size(jobs[k])
  <2> SUFFICES ASSUME NEW k \in J
               PROVE  /\ JobCounts(jobs'[k]) /\ jobs'[k].started = jobs[k].started
                      /\ jobs'[k].done = jobs[k].done
                      /\ jobs'[k].copied = jobs[k].copied /\ Size(jobs'[k]) = Size(jobs[k])
    OBVIOUS
  <2> DEFINE x == jobs[k]
             y == [x EXCEPT !.cancel = TRUE]
  <2>1. JobCounts(x) /\ jobs'[k] = y
    BY DEF Counting
  <2> HIDE DEF x
  <2>2. x \in JobType
    BY <2>1 DEF JobCounts
  <2>3. /\ y \in JobType /\ y.started = x.started /\ y.done = x.done /\ y.copied = x.copied
        /\ y.failed = x.failed /\ y.phase = x.phase /\ y.bag = x.bag /\ y.left = x.left
        /\ y.verdict = x.verdict
    BY <2>2 DEF JobType
  <2> HIDE DEF y
  <2>4. JobCounts(y)
    BY <2>1, <2>3 DEF JobCounts, Announced
  <2>5. Size(y) = Size(x)
    BY <2>3 DEF Size, Announced
  <2> QED  BY <2>1, <2>3, <2>4, <2>5 DEF x
<1>3. AllCount(jobs) /\ AllCount(jobs')
  BY <1>1, <1>2 DEF AllCount, Counting
<1>4. /\ Started(jobs') = Started(jobs) /\ Done(jobs') = Done(jobs)
      /\ Copied(jobs') = Copied(jobs) /\ Sizes(jobs') = Sizes(jobs)
  BY <1>1, <1>2 DEF Started, Done, Copied, Sizes
<1> QED  BY <1>3, <1>4, SameSums

\* What is dropped or picked is a sequence of paths.
LEMMA ListingStep ==
  ASSUME Typed, Listing, [Next]_vars
  PROVE  Listing'
<1> USE DEF Typed, Listing
<1>0. ASSUME UNCHANGED <<sources, dropped, mode>>, cut' \in BOOLEAN PROVE Listing'
  BY <1>0
<1>1. CASE UNCHANGED vars
  BY <1>0, <1>1 DEF vars, listVars, histVars
<1>2. ASSUME NEW i \in 1..Len(jobs), Work(i) \/ NoDestination(i) PROVE Listing'
  <2>1. UNCHANGED <<sources, dropped, mode, cut>>
    BY <1>2, ThreadSteps DEF listVars, histVars
  <2> QED  BY <1>0, <2>1
<1>3. CASE Listen \/ \E p \in First, move \in BOOLEAN : Launch(p, move)
  BY <1>0, <1>3 DEF Listen, Launch, listVars, histVars
<1>4. CASE TakeMessages
  <2> DEFINE lines == Only(inbox, {inbox[k] : k \in 1..Len(inbox)} \ {MoveFlag})
  <2>1. /\ mode' \in {"Move", mode} /\ UNCHANGED <<sources, cut>>
        /\ \/ dropped' = [k \in 1..Len(lines) |-> lines[k].path]
           \/ dropped' = <<>>
    BY <1>4 DEF TakeMessages
  <2>2. lines \in Seq(Line) /\ Drawn(lines, inbox, {inbox[k] : k \in 1..Len(inbox)} \ {MoveFlag})
    BY OnlyIsDrawn
  <2> HIDE DEF lines
  <2>3. Len(lines) \in Nat
    BY <2>2, LenProperties
  <2>4. \A k \in 1..Len(lines) : lines[k].path \in Paths
    <3> SUFFICES ASSUME NEW k \in 1..Len(lines) PROVE lines[k].path \in Paths
      OBVIOUS
    <3>1. lines[k] \in Line /\ lines[k] # MoveFlag
      BY <2>2, LenProperties DEF Drawn
    <3> QED  BY <3>1 DEF Line
  <2>5. [k \in 1..Len(lines) |-> lines[k].path] \in [1..Len(lines) -> Paths]
    BY <2>4
  <2>6. [k \in 1..Len(lines) |-> lines[k].path] \in Seq(Paths)
    BY <2>3, <2>5, IsASeq
  <2>7. dropped' \in Seq(Paths)
    BY <2>1, <2>6, EmptySeq
  <2> QED  BY <2>1, <2>7
<1>5. CASE Gather
  <2>1. PICK browsed \in {<<>>} \union {<<p>> : p \in disk} :
          \E clicked \in {"Copy", "Move", "Rename"}, overDest \in BOOLEAN :
            /\ sources' = [p \in Paths |->
                             sources[p] + Occurrences(browsed \o (IF overDest THEN <<>> ELSE dropped), p)]
            /\ mode' = clicked
    BY <1>5 DEF Gather
  <2>2. PICK clicked \in {"Copy", "Move", "Rename"}, overDest \in BOOLEAN :
            /\ sources' = [p \in Paths |->
                             sources[p] + Occurrences(browsed \o (IF overDest THEN <<>> ELSE dropped), p)]
            /\ mode' = clicked
    BY <2>1
  <2> DEFINE rest == IF overDest THEN <<>> ELSE dropped
             new == browsed \o rest
             T == Paths \union disk
  <2>3. browsed \in Seq(T)
    <3>1. CASE browsed = <<>>
      BY <3>1, EmptySeq
    <3>2. ASSUME NEW p \in disk, browsed = <<p>> PROVE browsed \in Seq(T)
      <4>1. p \in T
        OBVIOUS
      <4> HIDE DEF T
      <4> QED  BY <3>2, <4>1
    <3> QED  BY <2>1, <3>1, <3>2
  <2>4. rest \in Seq(T)
    <3>1. dropped \in Seq(T)
      BY SeqMonotonic
    <3> QED  BY <3>1, EmptySeq
  <2>5. Len(new) \in Nat
    <3> HIDE DEF rest, T
    <3>1. new \in Seq(T)
      BY <2>3, <2>4, ConcatProperties
    <3> QED  BY <3>1, LenProperties
  <2> HIDE DEF new
  <2>6. \A p \in Paths : Occurrences(new, p) \in Nat
    <3> SUFFICES ASSUME NEW p \in Paths PROVE Occurrences(new, p) \in Nat
      OBVIOUS
    <3>1. IsFiniteSet(1..Len(new))
      BY <2>5, FS_Interval
    <3>2. {k \in 1..Len(new) : new[k] = p} \in SUBSET (1..Len(new))
      OBVIOUS
    <3>3. IsFiniteSet({k \in 1..Len(new) : new[k] = p})
      BY <3>1, <3>2, FS_Subset
    <3> QED  BY <3>3, FS_CardinalityType DEF Occurrences
  <2>7. sources' \in [Paths -> Nat]
    <3>1. sources' = [p \in Paths |-> sources[p] + Occurrences(new, p)]
      BY <2>2 DEF new
    <3>2. \A p \in Paths : sources[p] + Occurrences(new, p) \in Nat
      BY <2>6
    <3> QED  BY <3>1, <3>2
  <2>8. dropped' = <<>> /\ cut' = cut
    BY <1>5 DEF Gather
  <2> QED  BY <2>2, <2>7, <2>8, EmptySeq
<1>6. CASE Poll
  BY <1>0, <1>6 DEF Poll, listVars
<1>7. CASE Absorb
  BY <1>0, <1>7 DEF Absorb, SpawnBatch, listVars
<1>8. CASE Start \/ CancelAll \/ RenameStops \/ NoClick
  BY <1>0, <1>8 DEF Start, CancelAll, RenameStops, NoClick, EndFrame, histVars
<1>9. CASE Clear
  BY <1>9 DEF Clear, EndFrame, histVars, None
<1>10. ASSUME NEW p \in Paths, RemoveEntry(p) PROVE Listing'
  <2>1. sources' = [sources EXCEPT ![p] = sources[p] - 1] /\ sources[p] > 0
        /\ UNCHANGED <<dropped, mode, cut>>
    BY <1>10 DEF RemoveEntry, EndFrame, histVars
  <2> QED  BY <2>1
<1>11. CASE Rename
  <2>1. UNCHANGED <<dropped, mode, cut>> /\ sources' \in [Paths -> Nat]
    BY <1>11 DEF Rename, EndFrame, histVars
  <2> QED  BY <2>1
<1> HIDE DEF Typed, Listing
<1> QED  BY <1>1, <1>2, <1>3, <1>4, <1>5, <1>6, <1>7, <1>8, <1>9, <1>10, <1>11
         DEF Next, Frame, Buttons

LEMMA BooksStep ==
  ASSUME Typed, Books, [Next]_vars
  PROVE  Books'
<1>1. Listing /\ (~cut => Counting) /\ JobsInOrder
  BY DEF Books, Typed
<1>2. Listing'
  BY <1>1, ListingStep
<1>3. ASSUME ~cut' PROVE Counting'
  <2>0. ASSUME UNCHANGED <<jobs, totalVars>>, ~cut PROVE Counting'
    BY <1>1, <2>0 DEF Counting, TotalsTyped, Balance, Told, totalVars
  <2>1. CASE UNCHANGED vars
    BY <1>3, <2>0, <2>1 DEF vars, histVars
  <2>2. ASSUME NEW i \in 1..Len(jobs), Work(i) \/ NoDestination(i) PROVE Counting'
    <3>1. cut' = cut
      BY <1>1, <2>2, ThreadSteps DEF histVars
    <3> QED  BY <1>1, <1>3, <2>2, <3>1, ThreadCounts
  <2>3. CASE \/ Listen \/ TakeMessages \/ Gather \/ Clear \/ Rename \/ RenameStops \/ NoClick
             \/ \E p \in Paths : RemoveEntry(p)
             \/ \E p \in First, move \in BOOLEAN : Launch(p, move)
    <3>1. UNCHANGED <<jobs, totalVars, cut>>
      BY <2>3 DEF Listen, TakeMessages, Gather, Clear, Rename, RenameStops, NoClick,
                  RemoveEntry, Launch, histVars
    <3> QED  BY <1>3, <2>0, <3>1
  <2>4. CASE Poll
    <3>1. ~cut
      BY <1>1, <1>3, <2>4 DEF Poll, Listing
    <3> QED  BY <1>1, <1>3, <2>4, <3>1, PollCounts
  <2>5. CASE Absorb
    <3>1. CASE jobs' = jobs /\ cut' = cut
      <4>1. UNCHANGED totalVars
        BY <2>5 DEF Absorb
      <4> QED  BY <1>3, <2>0, <3>1, <4>1
    <3>2. CASE ~(jobs' = jobs /\ cut' = cut)
      <4>1. /\ SpawnBatch(NewSources) /\ UNCHANGED totalVars
        BY <2>5, <3>2 DEF Absorb
      <4>2. CASE mode = "Rename"
        BY <3>2, <4>1, <4>2 DEF SpawnBatch
      <4>3. CASE mode # "Rename"
        <5>1. /\ jobs' = Append(jobs, NewJob(mode, NewSources)) /\ mode \in {"Copy", "Move"}
              /\ ~cut /\ \A p \in Paths : ~(NewSources[p] > 1)
          BY <1>1, <1>3, <4>1, <4>3 DEF SpawnBatch, Listing
        <5>2. NewSources \in [Paths -> Nat]
          BY <1>1 DEF NewSources, Listing
        <5>3. NewSources \in [Paths -> 0..1]
          BY <5>1, <5>2
        <5> QED  BY <1>1, <4>1, <5>1, <5>3, BatchCounts
      <4> QED  BY <4>2, <4>3
    <3> QED  BY <3>1, <3>2
  <2>6. CASE Start
    <3>1. /\ jobs' = <<NewJob(mode, sources)>> /\ mode \in {"Copy", "Move"}
          /\ totalFiles' = 0 /\ filesDone' = 0 /\ totals' = NoTotals
          /\ \A p \in Paths : ~(sources[p] > 1)
      BY <1>1, <1>3, <2>6 DEF Start, Listing
    <3>2. sources \in [Paths -> 0..1]
      BY <1>1, <3>1 DEF Listing
    <3> QED  BY <3>1, <3>2, StartCounts
  <2>7. CASE CancelAll
    <3>1. /\ jobs' = [i \in 1..Len(jobs) |-> [jobs[i] EXCEPT !.cancel = TRUE]]
          /\ UNCHANGED totalVars /\ cut' = cut
      BY <2>7 DEF CancelAll, histVars
    <3> QED  BY <1>1, <1>3, <3>1, CancelCounts
  <2> QED  BY <2>1, <2>2, <2>3, <2>4, <2>5, <2>6, <2>7 DEF Next, Frame, Buttons
<1> QED  BY <1>2, <1>3 DEF Books

LEMMA InitBooks ==
  ASSUME Init
  PROVE  Books
<1>1. Listing
  BY EmptySeq DEF Init, Listing, None
<1>2. jobs = <<>> /\ Len(<<>>) = 0 /\ filesDone = 0 /\ totalFiles = 0 /\ totals = NoTotals
  BY EmptySeq DEF Init
<1>3. AllCount(jobs)
  BY <1>2 DEF AllCount
<1>4. /\ \A k \in 1..Len(jobs) : Started(jobs)[k] = 0 /\ Done(jobs)[k] = 0
      /\ \A k \in 1..Len(jobs) : Copied(jobs)[k] = 0 /\ Sizes(jobs)[k] = 0
  BY <1>2
<1>5. /\ SumFunction(Started(jobs)) = 0 /\ SumFunction(Done(jobs)) = 0
      /\ SumFunction(Copied(jobs)) = 0 /\ SumFunction(Sizes(jobs)) = 0
  BY <1>3, <1>4, JobSums, SumOfNothing
<1>6. Told.copied = 0 /\ Told.failed = 0
  BY <1>2 DEF Told, Zeros
<1>7. Counting
  BY <1>2, <1>3, <1>5, <1>6 DEF Counting, AllCount, TotalsTyped, Balance
<1> QED  BY <1>1, <1>7 DEF Books

\* No job is left: nothing is to be counted.
LEMMA BooksAddUp ==
  ASSUME Books
  PROVE  TotalsAddUp
<1> SUFFICES ASSUME jobs = <<>>, totals # NoTotals, ~cut
             PROVE  totals.copied = filesDone /\ filesDone + totals.failed = totalFiles
  BY DEF TotalsAddUp, Running
<1>1. Counting /\ AllCount(jobs) /\ Len(jobs) = 0
  BY EmptySeq DEF Books, Counting, AllCount
<1>2. /\ \A k \in 1..Len(jobs) : Started(jobs)[k] = 0 /\ Done(jobs)[k] = 0
      /\ \A k \in 1..Len(jobs) : Copied(jobs)[k] = 0 /\ Sizes(jobs)[k] = 0
  BY <1>1
<1>3. /\ SumFunction(Started(jobs)) = 0 /\ SumFunction(Done(jobs)) = 0
      /\ SumFunction(Copied(jobs)) = 0 /\ SumFunction(Sizes(jobs)) = 0
  BY <1>1, <1>2, JobSums, SumOfNothing
<1>4. /\ totalFiles + 0 = (totals.copied + totals.failed) + 0 /\ filesDone + 0 = totals.copied + 0
      /\ totals.copied \in Nat /\ totals.failed \in Nat /\ totalFiles \in Nat /\ filesDone \in Nat
  BY <1>1, <1>3 DEF Counting, Balance, Told, TotalsTyped
<1> QED  BY <1>4

\* When a session is over that had no cancelled job and no path twice in a batch, the files
\* announced are those counted as done and the failed ones, and the totals say the same as
\* the progress line, however its batches overlap and however often poll looks.
THEOREM TotalsAreRight == Spec => []TotalsAddUp
<1>1. Init => Books
  BY InitBooks
<1>2. SInv /\ Books /\ [Next]_vars => Books'
  BY BooksStep DEF SInv
<1>3. Books => TotalsAddUp
  BY BooksAddUp
<1> QED  BY <1>1, <1>2, <1>3, SessionInvariant, PTL DEF Spec
=============================================================================
