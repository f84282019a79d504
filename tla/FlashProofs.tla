---------------------------- MODULE FlashProofs ----------------------------
(***************************************************************************)
(* Proofs about FlashHelper, for drives, images, sectors and chunks of any *)
(* size.                                                                   *)
(***************************************************************************)
EXTENDS FlashHelper, SelectionLemmas

\* The helper has nothing more to do with the drive, and never will have.
Ended == gui # "idle" /\ hpc \in {"exit", "off"}

Says(seq, ev) == \E k \in 1..Len(seq) : seq[k] = ev

ImageIsThere == \A k \in 0..(image - 1) : drive[k] = "image"

\* What a Finished line means.
Good == verify \/ ~Faulty => ImageIsThere

\* Where the job is.
Scheduled ==
  /\ image \in ImageSizes /\ verify \in BOOLEAN
  /\ gui = "idle" => /\ hpc = "off" /\ mpc = "off" /\ exit = "none"
                     /\ chan = <<>> /\ sent = <<>> /\ file = <<>> /\ done = 0
  /\ hpc \in {"prompt", "check"} => done = 0
  /\ exit # "none" => hpc = "off"
  /\ mpc \in {"final", "report", "done"} => exit # "none" /\ gui # "idle"

\* A terminal event is the last the helper writes, but for the end of its line.
Written ==
  /\ \A k \in 1..Len(file) :
       file[k] \in Terminal =>
         Ended /\ (k = Len(file) \/ (k = Len(file) - 1 /\ file[Len(file)] = NL))
  /\ Says(file, "Finished") => Good

\* What the monitor holds back is the half line it has read.
Read ==
  partial = IF offset > 0 /\ file[offset] # NL THEN <<file[offset]>> ELSE <<>>

\* It has seen the end when it has read all there will ever be, and has sent no verdict
\* before.
Heard ==
  /\ sawEnd => /\ Len(file) >= 2 /\ offset = Len(file)
               /\ file[Len(file) - 1] \in Terminal /\ file[Len(file)] = NL
  /\ ~sawEnd /\ mpc \notin {"done", "dead"} => \A k \in 1..Len(sent) : sent[k] \notin Terminal
  /\ OneVerdict
  /\ \A k \in 1..Len(sent) : sent[k] \in Terminal => Ended
  /\ Says(sent, "Finished") => Says(file, "Finished")

\* What the tab shows was sent.
Shown ==
  /\ \A k \in 1..Len(chan) : Says(sent, chan[k])
  /\ gui \in Verdicts => Ended
  /\ gui = "success" => Says(file, "Finished")

\* What is on the drive.
OnDrive ==
  /\ \A k \in DOMAIN drive : k >= RoundUp(image) => drive[k] = "old"
  /\ hpc \in {"write", "verify", "finish"} => RoundUp(image) <= DeviceSize
  /\ hpc = "write" => done = image \/ \E q \in Nat : done = q * Chunk
  /\ hpc = "write" /\ ~Faulty => \A k \in 0..(done - 1) : drive[k] = "image"
  /\ hpc = "verify" => \A k \in 0..(done - 1) : drive[k] = "image"
  /\ hpc = "finish" => Good

FInv == TypeOK /\ Scheduled /\ Written /\ Read /\ Heard /\ Shown /\ OnDrive

-----------------------------------------------------------------------------
(* Sectors.                                                                *)

LEMMA Multiples ==
  ASSUME NEW a \in Int, NEW b \in Int, NEW s \in Nat, a < b
  PROVE  a * s + s <= b * s
<1>1. PICK d \in Nat : b = a + 1 + d
  <2>1. b - a - 1 \in Nat /\ b = a + 1 + (b - a - 1)
    OBVIOUS
  <2> QED  BY <2>1
<1>2. b * s = a * s + s + d * s
  BY <1>1
<1>3. d * s >= 0
  OBVIOUS
<1>4. a * s \in Int /\ b * s \in Int /\ d * s \in Int
  OBVIOUS
<1> QED  BY <1>2, <1>3, <1>4

LEMMA QuotientBounds ==
  ASSUME NEW n \in Nat, NEW s \in Nat \ {0}
  PROVE  /\ n \div s \in Nat
         /\ (n \div s) * s <= n /\ n < (n \div s) * s + s
         /\ n % s = 0 => n = (n \div s) * s
  OBVIOUS

LEMMA RoundUpProperties ==
  ASSUME NEW n \in Nat
  PROVE  /\ \E q \in Nat : RoundUp(n) = q * Sector
         /\ RoundUp(n) \in Nat /\ n <= RoundUp(n) /\ RoundUp(n) < n + Sector
<1> DEFINE m == n + Sector - 1
           q == m \div Sector
<1>1. Sector \in Nat \ {0} /\ m \in Nat
  BY FlashConstants
<1>2. RoundUp(n) = q * Sector
  BY DEF RoundUp
<1>3. q \in Nat /\ q * Sector <= m /\ m < q * Sector + Sector
  <2> HIDE DEF m
  <2> QED  BY <1>1, QuotientBounds
<1> HIDE DEF q
<1> DEFINE p == q * Sector
<1>4. p \in Nat
  BY <1>1, <1>3
<1>5. p <= m /\ m < p + Sector
  BY <1>3
<1> HIDE DEF p
<1>6. n <= p /\ p < n + Sector
  BY <1>1, <1>4, <1>5
<1> QED  BY <1>2, <1>3, <1>4, <1>6 DEF p

\* A multiple of the sector size that is less than a whole sector above n is no more than
\* n rounded up.
LEMMA RoundUpIsLeast ==
  ASSUME NEW n \in Nat, NEW k \in Nat, k * Sector < n + Sector
  PROVE  k * Sector <= RoundUp(n)
<1>0. Sector \in Nat
  BY FlashConstants
<1>1. PICK q \in Nat : RoundUp(n) = q * Sector
  BY RoundUpProperties
<1>2. n <= q * Sector
  BY <1>1, RoundUpProperties
<1>3. CASE k <= q
  <2>1. CASE k = q
    BY <1>0, <1>1, <2>1
  <2>2. CASE k < q
    <3>1. k * Sector + Sector <= q * Sector
      BY <1>0, <2>2, Multiples
    <3>2. k * Sector \in Nat /\ q * Sector \in Nat
      BY <1>0
    <3> QED  BY <1>0, <1>1, <3>1, <3>2
  <2> QED  BY <1>3, <2>1, <2>2
<1>4. CASE q < k
  <2>1. q * Sector + Sector <= k * Sector
    BY <1>0, <1>4, Multiples
  <2>2. k * Sector \in Nat /\ q * Sector \in Nat
    BY <1>0
  <2> QED  BY <1>0, <1>2, <2>1, <2>2
<1> QED  BY <1>3, <1>4

\* A write that begins at the end of a sector ends before the image's last one does.
LEMMA WriteStaysInside ==
  ASSUME NEW d \in Nat, NEW w \in Nat, NEW n \in Nat, d + w <= n,
         NEW p \in Nat, d = p * Sector
  PROVE  d + RoundUp(w) <= RoundUp(n)
<1>0. Sector \in Nat
  BY FlashConstants
<1>1. PICK q \in Nat : RoundUp(w) = q * Sector
  BY RoundUpProperties
<1>2. RoundUp(w) \in Nat /\ RoundUp(w) < w + Sector
  BY RoundUpProperties
<1>3. (p + q) * Sector = d + RoundUp(w) /\ p + q \in Nat
  BY <1>0, <1>1
<1>4. d + RoundUp(w) < n + Sector
  BY <1>0, <1>2
<1> QED  BY <1>3, <1>4, RoundUpIsLeast

LEMMA ChunksAreSectors ==
  ASSUME NEW q \in Nat
  PROVE  \E p \in Nat : q * Chunk = p * Sector
<1> DEFINE c == Chunk \div Sector
<1>1. c \in Nat /\ Chunk = c * Sector
  BY FlashConstants, QuotientBounds
<1>2. Sector \in Nat
  BY FlashConstants
<1> HIDE DEF c
<1>3. q * Chunk = (q * c) * Sector /\ q * c \in Nat
  BY <1>1, <1>2
<1> QED  BY <1>3

-----------------------------------------------------------------------------
(* The lines of a text.                                                    *)

Text == Events \union {NL}

LEMMA BodyOfText ==
  ASSUME NEW t \in Seq(Text)
  PROVE  LET body == SubSeq(t, 1, Len(t) - Len(HalfLine(t))) IN
         /\ body \in Seq(Text) /\ Lines(t) = Only(body, Events)
         /\ Len(body) = IF t # <<>> /\ t[Len(t)] # NL THEN Len(t) - 1 ELSE Len(t)
         /\ \A k \in 1..Len(body) : body[k] = t[k]
<1>1. Len(t) \in Nat /\ (t # <<>> => Len(t) >= 1)
  BY LenProperties, EmptySeq
<1>2. Len(HalfLine(t)) = IF t # <<>> /\ t[Len(t)] # NL THEN 1 ELSE 0
  BY DEF HalfLine
<1> DEFINE n == Len(t) - Len(HalfLine(t))
<1>3. n \in Nat /\ n <= Len(t)
      /\ n = IF t # <<>> /\ t[Len(t)] # NL THEN Len(t) - 1 ELSE Len(t)
  BY <1>1, <1>2
<1>4. Lines(t) = Only(SubSeq(t, 1, n), Events)
  BY DEF Lines
<1> HIDE DEF n
<1>5. /\ SubSeq(t, 1, n) \in Seq(Text) /\ Len(SubSeq(t, 1, n)) = n
      /\ \A k \in 1..n : SubSeq(t, 1, n)[k] = t[k]
  BY <1>1, <1>3, SubSeqProperties
<1> QED  BY <1>3, <1>4, <1>5 DEF n

LEMMA LinesAreEvents ==
  ASSUME NEW t \in Seq(Text)
  PROVE  /\ Lines(t) \in Seq(Events)
         /\ \A i \in 1..Len(Lines(t)) : \E j \in 1..Len(t) : Lines(t)[i] = t[j]
<1> DEFINE body == SubSeq(t, 1, Len(t) - Len(HalfLine(t)))
           lines == Lines(t)
<1>1. /\ body \in Seq(Text) /\ lines = Only(body, Events) /\ Len(body) <= Len(t)
      /\ \A k \in 1..Len(body) : body[k] = t[k]
  BY BodyOfText, LenProperties
<1> HIDE DEF body, lines
<1>2. lines \in Seq(Text) /\ Drawn(lines, body, Events)
  BY <1>1, OnlyIsDrawn
<1>3. Len(lines) \in Nat /\ lines \in [1..Len(lines) -> Text]
      /\ Len(body) \in Nat /\ Len(t) \in Nat
  BY <1>1, <1>2, LenProperties
<1>4. lines \in [1..Len(lines) -> Events]
  BY <1>2, <1>3 DEF Drawn
<1>5. lines \in Seq(Events)
  BY <1>3, <1>4, IsASeq
<1>6. ASSUME NEW i \in 1..Len(lines) PROVE \E j \in 1..Len(t) : lines[i] = t[j]
  <2>1. PICK j \in 1..Len(body) : lines[i] = body[j]
    BY <1>2 DEF Drawn
  <2> QED  BY <1>1, <1>3, <2>1
<1> QED  BY <1>5, <1>6 DEF lines

\* When a terminal event can only be the last of a text, it is its last line, and complete.
LEMMA TerminalIsLast ==
  ASSUME NEW t \in Seq(Text),
         \A k \in 1..Len(t) :
           t[k] \in Terminal => k = Len(t) \/ (k = Len(t) - 1 /\ t[Len(t)] = NL),
         NEW i \in 1..Len(Lines(t)), Lines(t)[i] \in Terminal
  PROVE  /\ i = Len(Lines(t))
         /\ Len(t) >= 2 /\ t[Len(t) - 1] \in Terminal /\ t[Len(t)] = NL
<1> DEFINE body == SubSeq(t, 1, Len(t) - Len(HalfLine(t)))
           lines == Lines(t)
<1>0. Len(t) \in Nat
  BY LenProperties
<1>1. /\ body \in Seq(Text) /\ lines = Only(body, Events)
      /\ Len(body) = IF t # <<>> /\ t[Len(t)] # NL THEN Len(t) - 1 ELSE Len(t)
      /\ \A k \in 1..Len(body) : body[k] = t[k]
  BY BodyOfText
<1>2. i \in 1..Len(lines) /\ lines[i] \in Terminal
  OBVIOUS
<1>3. (t = <<>>) <=> (Len(t) = 0)
  BY EmptySeq
<1> HIDE DEF body, lines
<1>4. lines \in Seq(Text) /\ Drawn(lines, body, Events)
  BY <1>1, OnlyIsDrawn
<1>5. PICK j \in 1..Len(body) : lines[i] = body[j]
  BY <1>2, <1>4 DEF Drawn
<1>6. j \in 1..Len(t) /\ t[j] \in Terminal
  BY <1>0, <1>1, <1>2, <1>5
<1>7. j # Len(t)
  BY <1>0, <1>1, <1>3, <1>5, <1>6 DEF Terminal, NL
<1>8. j = Len(t) - 1 /\ t[Len(t)] = NL /\ Len(t) >= 2
  BY <1>0, <1>6, <1>7
<1>9. Len(body) = Len(t) /\ body = t
  BY <1>0, <1>1, <1>8, SeqEqual
<1> DEFINE front == SubSeq(t, 1, Len(t) - 2)
           most == Append(front, t[Len(t) - 1])
<1>10. /\ front \in Seq(Text) /\ Len(front) = Len(t) - 2
       /\ \A k \in 1..(Len(t) - 2) : front[k] = t[k]
  <2> DEFINE n == Len(t) - 2
  <2>1. n \in Nat /\ n <= Len(t)
    BY <1>0, <1>8
  <2> HIDE DEF n
  <2>2. /\ SubSeq(t, 1, n) \in Seq(Text) /\ Len(SubSeq(t, 1, n)) = n
        /\ \A k \in 1..n : SubSeq(t, 1, n)[k] = t[k]
    BY <1>0, <2>1, SubSeqProperties
  <2> QED  BY <2>2 DEF n
<1>11. t[Len(t) - 1] \in Text /\ t[Len(t)] \in Text
  BY <1>0, <1>8, LenProperties
<1> HIDE DEF front
<1>12. /\ most \in Seq(Text) /\ Len(most) = Len(t) - 1 /\ most[Len(t) - 1] = t[Len(t) - 1]
       /\ \A k \in 1..(Len(t) - 2) : most[k] = t[k]
  BY <1>0, <1>8, <1>10, <1>11, AppendProperties
<1> HIDE DEF most
<1>13. t = Append(most, t[Len(t)])
  <2>1. /\ Append(most, t[Len(t)]) \in Seq(Text)
        /\ Len(Append(most, t[Len(t)])) = Len(t)
        /\ Append(most, t[Len(t)])[Len(t)] = t[Len(t)]
        /\ \A k \in 1..(Len(t) - 1) : Append(most, t[Len(t)])[k] = most[k]
    BY <1>0, <1>8, <1>11, <1>12, AppendProperties
  <2>2. ASSUME NEW k \in 1..Len(t) PROVE Append(most, t[Len(t)])[k] = t[k]
    <3>1. k \in 1..(Len(t) - 2) \/ k = Len(t) - 1 \/ k = Len(t)
      BY <1>0
    <3>2. 1..(Len(t) - 2) \subseteq 1..(Len(t) - 1) /\ Len(t) - 1 \in 1..(Len(t) - 1)
      BY <1>0, <1>8
    <3> QED  BY <1>12, <2>1, <3>1, <3>2
  <2> QED  BY <2>1, <2>2, SeqEqual
<1>14. lines = Only(most, Events)
  <2>1. lines = Taken(Only(most, Events), t[Len(t)], Events)
    BY <1>1, <1>9, <1>11, <1>12, <1>13, OnlyOfAppend
  <2> QED  BY <2>1, <1>8 DEF Taken, NL, Events, Terminal
<1>15. lines = Append(Only(front, Events), t[Len(t) - 1])
  <2>1. Only(most, Events) = Taken(Only(front, Events), t[Len(t) - 1], Events)
    BY <1>10, <1>11, OnlyOfAppend DEF most
  <2>2. t[Len(t) - 1] \in Events
    BY <1>6, <1>8 DEF Events
  <2> QED  BY <1>14, <2>1, <2>2 DEF Taken
<1> DEFINE before == Only(front, Events)
<1>16. before \in Seq(Text) /\ Drawn(before, front, Events) /\ Len(before) \in Nat
  BY <1>10, OnlyIsDrawn, LenProperties
<1> HIDE DEF before
<1>17. Len(lines) = Len(before) + 1 /\ \A k \in 1..Len(before) : lines[k] = before[k]
  BY <1>11, <1>15, <1>16, AppendProperties DEF before
<1>18. ASSUME NEW k \in 1..Len(before), before[k] \in Terminal PROVE FALSE
  <2>1. PICK l \in 1..(Len(t) - 2) : before[k] = t[l]
    BY <1>10, <1>16 DEF Drawn
  <2>2. l \in 1..Len(t) /\ l # Len(t) /\ l # Len(t) - 1
    BY <1>0
  <2> QED  BY <1>18, <2>1, <2>2
<1>19. i = Len(lines)
  BY <1>2, <1>16, <1>17, <1>18
<1> QED  BY <1>6, <1>8, <1>19 DEF lines

-----------------------------------------------------------------------------
(* What the monitor reads.                                                 *)

\* With what it holds back, the monitor has the end of the progress file at hand.
LEMMA FreshIsSuffix ==
  ASSUME TypeOK, Read
  PROVE  /\ Fresh \in Seq(Text)
         /\ \E m \in Nat : /\ Len(file) = m + Len(Fresh)
                           /\ \A k \in 1..Len(Fresh) : Fresh[k] = file[m + k]
         /\ offset = Len(file) =>
              Len(Fresh) = IF offset > 0 /\ file[offset] # NL THEN 1 ELSE 0
         /\ offset < Len(file) => Len(Fresh) >= 1
<1> DEFINE rest == SubSeq(file, offset + 1, Len(file))
           n == Len(file)
<1>1. file \in Seq(Text) /\ offset \in 0..n /\ n \in Nat
  BY LenProperties DEF TypeOK, Text
<1>2. /\ rest \in Seq(Text) /\ Len(rest) = n - offset
      /\ \A k \in 1..(n - offset) : rest[k] = file[offset + k]
  <2> DEFINE from == offset + 1
  <2>1. /\ from \in 1..(Len(file) + 1) /\ Len(file) \in from - 1..Len(file)
        /\ n - from + 1 = n - offset
    BY <1>1
  <2>2. /\ rest \in Seq(Text)
        /\ Len(rest) = IF from <= n THEN n - from + 1 ELSE 0
        /\ \A k \in 1..(n - from + 1) : rest[k] = file[from + k - 1]
    BY <1>1, <2>1, SubSeqProperties
  <2>3. Len(rest) = n - offset
    <3>1. from <= n \/ n - offset = 0
      BY <1>1
    <3>2. from \in Nat /\ offset \in Nat
      BY <1>1
    <3> HIDE DEF rest, from, n
    <3> QED  BY <1>1, <2>1, <2>2, <3>1, <3>2
  <2>4. ASSUME NEW k \in 1..(n - offset) PROVE rest[k] = file[offset + k]
    <3>1. from + k - 1 = offset + k /\ k \in 1..(n - from + 1)
      BY <1>1
    <3> HIDE DEF rest, from
    <3> QED  BY <2>2, <3>1
  <2> HIDE DEF rest
  <2> QED  BY <2>2, <2>3, <2>4
<1>3. Fresh = partial \o rest
  BY DEF Fresh
<1> HIDE DEF rest
<1>4. CASE offset > 0 /\ file[offset] # NL
  <2>1. /\ partial \in Seq(Text) /\ Len(partial) = 1 /\ partial[1] = file[offset]
    <3>1. partial = <<file[offset]>> /\ file[offset] \in Text
      BY <1>1, <1>4, LenProperties DEF Read
    <3> QED  BY <3>1
  <2>2. /\ Fresh \in Seq(Text) /\ Len(Fresh) = 1 + (n - offset)
        /\ \A k \in 1..(1 + (n - offset)) :
             Fresh[k] = IF k <= 1 THEN partial[k] ELSE rest[k - 1]
    <3> DEFINE whole == partial \o rest
    <3>1. /\ whole \in Seq(Text) /\ Len(whole) = Len(partial) + Len(rest)
          /\ \A k \in 1..(Len(partial) + Len(rest)) :
               whole[k] = IF k <= Len(partial) THEN partial[k] ELSE rest[k - Len(partial)]
      BY <1>2, <2>1, ConcatProperties
    <3>2. Len(partial) = 1 /\ Len(rest) = n - offset /\ Fresh = whole
      BY <1>2, <1>3, <2>1
    <3> HIDE DEF whole, n
    <3> QED  BY <3>1, <3>2
  <2>3. offset - 1 \in Nat /\ n = (offset - 1) + Len(Fresh)
    BY <1>1, <1>4, <2>2
  <2>4. ASSUME NEW k \in 1..Len(Fresh) PROVE Fresh[k] = file[(offset - 1) + k]
    <3>1. CASE k = 1
      BY <1>1, <2>1, <2>2, <3>1
    <3>2. CASE k # 1
      <4>1. k - 1 \in 1..(n - offset) /\ offset + (k - 1) = (offset - 1) + k /\ ~(k <= 1)
        BY <1>1, <2>2, <3>2
      <4> QED  BY <1>2, <2>2, <4>1
    <3> QED  BY <3>1, <3>2
  <2>5. /\ offset = n => Len(Fresh) = 1
        /\ offset < n => Len(Fresh) >= 1
    <3> HIDE DEF n
    <3> QED  BY <1>1, <2>2
  <2>6. \E m \in Nat : Len(file) = m + Len(Fresh) /\ \A k \in 1..Len(Fresh) : Fresh[k] = file[m + k]
    BY <2>3, <2>4
  <2> QED  BY <1>4, <2>2, <2>5, <2>6
<1>5. CASE ~(offset > 0 /\ file[offset] # NL)
  <2>1. partial = <<>>
    BY <1>5 DEF Read
  <2>2. Fresh = rest
    BY <1>2, <1>3, <2>1, ConcatEmptySeq
  <2>3. offset \in Nat /\ n = offset + Len(Fresh)
    BY <1>1, <1>2, <2>2
  <2> QED  BY <1>1, <1>2, <1>5, <2>2, <2>3
<1> QED  BY <1>4, <1>5

\* A poll leaves the half line at the end of the file.
LEMMA PollReads ==
  ASSUME TypeOK, Read, NEW l, Poll(l), file' = file
  PROVE  Read' /\ offset' \in 0..Len(file') /\ Len(partial') <= 1
<1>1. PICK m \in Nat : /\ Len(file) = m + Len(Fresh)
                       /\ \A k \in 1..Len(Fresh) : Fresh[k] = file[m + k]
  BY FreshIsSuffix
<1>2. /\ Fresh \in Seq(Text) /\ Len(file) \in Nat /\ offset \in 0..Len(file)
      /\ Len(Fresh) \in Nat /\ ((Fresh = <<>>) <=> (Len(Fresh) = 0))
  BY FreshIsSuffix, LenProperties, EmptySeq DEF TypeOK
<1>3. offset' = Len(file) /\ partial' = HalfLine(Fresh)
  BY DEF Poll
<1>4. Fresh # <<>> => Fresh[Len(Fresh)] = file[Len(file)]
  BY <1>1, <1>2
<1>5. CASE Fresh # <<>>
  <2>1. Len(file) > 0
    BY <1>1, <1>2, <1>5
  <2>2. partial' = IF file[Len(file)] # NL THEN <<file[Len(file)]>> ELSE <<>>
    BY <1>3, <1>4, <1>5 DEF HalfLine
  <2> QED  BY <1>2, <1>3, <2>1, <2>2 DEF Read
<1>6. CASE Fresh = <<>>
  <2>1. offset = Len(file)
    BY <1>2, <1>6, FreshIsSuffix
  <2>2. ~(offset > 0 /\ file[offset] # NL)
    BY <1>2, <1>6, <2>1, FreshIsSuffix
  <2>3. partial' = <<>>
    BY <1>3, <1>6 DEF HalfLine
  <2> QED  BY <1>2, <1>3, <2>1, <2>2, <2>3 DEF Read
<1> QED  BY <1>5, <1>6

\* What a poll sends: nothing after a verdict, and a verdict last.
LEMMA PollSends ==
  ASSUME TypeOK, Read, Written, Heard
  PROVE  /\ Lines(Fresh) \in Seq(Events)
         /\ \A k \in 1..Len(Lines(Fresh)) : Says(file, Lines(Fresh)[k])
         /\ sawEnd => Lines(Fresh) = <<>>
         /\ \A k \in 1..Len(Lines(Fresh)) :
              Lines(Fresh)[k] \in Terminal =>
                /\ k = Len(Lines(Fresh)) /\ Ended
                /\ Len(file) >= 2 /\ file[Len(file) - 1] \in Terminal /\ file[Len(file)] = NL
<1>1. PICK m \in Nat : /\ Len(file) = m + Len(Fresh)
                       /\ \A k \in 1..Len(Fresh) : Fresh[k] = file[m + k]
  BY FreshIsSuffix
<1>2. /\ Fresh \in Seq(Text) /\ Len(file) \in Nat /\ offset \in 0..Len(file)
      /\ Len(Fresh) \in Nat /\ ((Fresh = <<>>) <=> (Len(Fresh) = 0))
  BY FreshIsSuffix, LenProperties, EmptySeq DEF TypeOK
<1>3. /\ Lines(Fresh) \in Seq(Events)
      /\ \A i \in 1..Len(Lines(Fresh)) : \E j \in 1..Len(Fresh) : Lines(Fresh)[i] = Fresh[j]
  BY <1>2, LinesAreEvents
<1>4. ASSUME NEW i \in 1..Len(Lines(Fresh))
      PROVE  \E j \in 1..Len(file) : Lines(Fresh)[i] = file[j]
  <2>1. PICK j \in 1..Len(Fresh) : Lines(Fresh)[i] = Fresh[j]
    BY <1>3
  <2>2. m + j \in 1..Len(file) /\ Fresh[j] = file[m + j]
    BY <1>1, <1>2
  <2> QED  BY <2>1, <2>2
<1>5. ASSUME sawEnd PROVE Lines(Fresh) = <<>>
  <2>1. offset = Len(file) /\ file[offset] = NL
    BY <1>5 DEF Heard
  <2>2. Len(Fresh) = 0
    BY <1>2, <2>1, FreshIsSuffix
  <2>3. Len(Lines(Fresh)) = 0
    BY <1>2, <1>3, <2>2, LenProperties
  <2> QED  BY <1>3, <2>3, EmptySeq
<1>6. ASSUME NEW k \in 1..Len(Fresh), Fresh[k] \in Terminal
      PROVE  k = Len(Fresh) \/ (k = Len(Fresh) - 1 /\ Fresh[Len(Fresh)] = NL)
  <2>1. m + k \in 1..Len(file) /\ file[m + k] \in Terminal
    BY <1>1, <1>2, <1>6
  <2>2. m + k = Len(file) \/ (m + k = Len(file) - 1 /\ file[Len(file)] = NL)
    BY <2>1 DEF Written
  <2>3. Len(Fresh) \in 1..Len(Fresh) /\ Fresh[Len(Fresh)] = file[Len(file)]
    BY <1>1, <1>2
  <2> QED  BY <1>1, <1>2, <2>2, <2>3
<1>7. ASSUME NEW k \in 1..Len(Lines(Fresh)), Lines(Fresh)[k] \in Terminal
      PROVE  /\ k = Len(Lines(Fresh)) /\ Ended
             /\ Len(file) >= 2 /\ file[Len(file) - 1] \in Terminal /\ file[Len(file)] = NL
  <2>1. /\ k = Len(Lines(Fresh)) /\ Len(Fresh) >= 2
        /\ Fresh[Len(Fresh) - 1] \in Terminal /\ Fresh[Len(Fresh)] = NL
    BY <1>2, <1>6, <1>7, TerminalIsLast
  <2>2. /\ Len(Fresh) \in 1..Len(Fresh) /\ Len(Fresh) - 1 \in 1..Len(Fresh)
        /\ m + Len(Fresh) = Len(file) /\ m + (Len(Fresh) - 1) = Len(file) - 1
        /\ Len(file) >= 2 /\ Len(file) - 1 \in 1..Len(file)
    BY <1>1, <1>2, <2>1
  <2>3. file[Len(file) - 1] \in Terminal /\ file[Len(file)] = NL
    BY <1>1, <2>1, <2>2
  <2>4. Ended
    BY <2>2, <2>3 DEF Written
  <2> QED  BY <2>1, <2>2, <2>3, <2>4
<1> QED  BY <1>3, <1>4, <1>5, <1>7 DEF Says

-----------------------------------------------------------------------------
(* Steps of the helper, of the monitor and of the tab.                     *)

HelperStep == Helper \/ BadJob \/ HelperFails \/ HelperDies

TabStep == Start \/ Cancel \/ TabPolls \/ Quit

LEMMA Steps ==
  ASSUME [Next]_vars
  PROVE  HelperStep \/ Monitor \/ TabStep \/ UNCHANGED vars
  BY DEF Next, HelperStep, TabStep

\* The helper has the progress file and the drive for itself; and nothing else.
LEMMA HelperKeeps ==
  ASSUME HelperStep
  PROVE  UNCHANGED <<gui, chan, token, sent, mpc, offset, partial, sawEnd, dir, image, verify>>
  BY DEF HelperStep, Helper, Prompt, WatchCancel, EndLine, CheckTarget, WriteChunk, EndWrite,
         VerifyChunk, EndVerify, StopOnCancel, EmitFinished, Exit, BadJob, HelperFails,
         HelperDies, guiVars, monitorVars

LEMMA MonitorKeeps ==
  ASSUME Monitor
  PROVE  UNCHANGED <<gui, token, exit, hpc, hcancel, file, done, drive, image, verify>>
  BY DEF Monitor, MonitorPolls, MonitorCancels, MonitorWaits, LastPoll, Report, guiVars,
         helperVars

LEMMA TabKeeps ==
  ASSUME TabStep
  PROVE  /\ UNCHANGED <<sent, offset, partial, sawEnd, exit, hcancel, file, done, drive,
                        image, verify>>
         /\ UNCHANGED hpc \/ (gui = "idle" /\ hpc' = "prompt")
  BY DEF TabStep, Start, Cancel, TabPolls, Quit, monitorVars, helperVars

\* What happens to the progress file.
LEMMA FileSteps ==
  ASSUME [Next]_vars
  PROVE  \/ file' = file
         \/ /\ HalfWritten /\ hpc' = hpc /\ UNCHANGED <<drive, gui>>
            /\ file' = Append(file, NL)
         \/ /\ ~HalfWritten /\ hpc \in {"check", "write", "verify", "finish"}
            /\ UNCHANGED <<drive, gui>>
            /\ \E ev \in Events :
                 /\ file' = Append(file, ev)
                 /\ ev \in Terminal => hpc' = "exit"
                 /\ ev = "Finished" => hpc = "finish"
<1>1. CASE Monitor \/ TabStep \/ UNCHANGED vars
  BY <1>1, MonitorKeeps, TabKeeps DEF vars, helperVars
<1>2. CASE EndLine
  BY <1>2 DEF EndLine, guiVars
<1>3. CASE CheckTarget \/ EndWrite \/ VerifyChunk \/ StopOnCancel \/ HelperFails \/ EmitFinished
  BY <1>3 DEF CheckTarget, EndWrite, VerifyChunk, StopOnCancel, HelperFails, EmitFinished,
              HelperAt, Emit, Events, Terminal, guiVars
<1>4. CASE Prompt \/ WatchCancel \/ WriteChunk \/ EndVerify \/ Exit \/ BadJob \/ HelperDies
  BY <1>4 DEF Prompt, WatchCancel, WriteChunk, EndVerify, Exit, BadJob, HelperDies
<1> QED  BY <1>1, <1>2, <1>3, <1>4, Steps DEF HelperStep, Helper

\* The end is the end: nothing is written on the drive any more.
LEMMA EndedStays ==
  ASSUME Scheduled, Ended, [Next]_vars
  PROVE  Ended' /\ drive' = drive
<1>1. CASE HelperStep
  BY <1>1, HelperKeeps
     DEF Ended, HelperStep, Helper, Prompt, WatchCancel, EndLine, CheckTarget, WriteChunk,
         EndWrite, VerifyChunk, EndVerify, StopOnCancel, EmitFinished, Exit, BadJob,
         HelperFails, HelperDies, HelperAt
<1>2. CASE Monitor \/ UNCHANGED vars
  BY <1>2, MonitorKeeps DEF Ended, vars, guiVars, helperVars
<1>3. CASE TabStep
  <2>1. UNCHANGED <<hpc, drive>>
    BY <1>3, TabKeeps DEF Ended
  <2>2. gui' # "idle"
    BY <1>3 DEF Ended, TabStep, Start, Cancel, TabPolls, Quit
  <2> QED  BY <2>1, <2>2 DEF Ended
<1> QED  BY <1>1, <1>2, <1>3, Steps

LEMMA ScheduledStep ==
  ASSUME TypeOK, Scheduled, [Next]_vars
  PROVE  Scheduled'
<1> USE DEF Scheduled
<1>1. CASE HelperStep
  <2>1. UNCHANGED <<gui, chan, sent, mpc, image, verify>>
    BY <1>1, HelperKeeps
  <2> QED  BY <1>1, <2>1
     DEF HelperStep, Helper, Prompt, WatchCancel, EndLine, CheckTarget, WriteChunk,
         EndWrite, VerifyChunk, EndVerify, StopOnCancel, EmitFinished, Exit, BadJob,
         HelperFails, HelperDies, HelperAt
<1>2. CASE Monitor
  <2>1. UNCHANGED <<gui, exit, hpc, file, done, image, verify>>
    BY <1>2, MonitorKeeps
  <2>2. mpc # "off" /\ (mpc' \in {"final", "report", "done"} => exit # "none")
    BY <1>2 DEF Monitor, MonitorPolls, MonitorCancels, MonitorWaits, LastPoll, Report, Poll
  <2>3. exit # "none" => gui # "idle"
    OBVIOUS
  <2> QED  BY <2>1, <2>2, <2>3
<1>3. CASE TabStep
  BY <1>3 DEF TabStep, Start, Cancel, TabPolls, Quit, monitorVars, helperVars
<1>4. CASE UNCHANGED vars
  BY <1>4 DEF vars, guiVars, monitorVars, helperVars
<1> HIDE DEF Scheduled
<1> QED  BY <1>1, <1>2, <1>3, <1>4, Steps

-----------------------------------------------------------------------------
(* The progress file and its reader.                                       *)

LEMMA HalfWrittenIsNoEnd ==
  ASSUME TypeOK, HalfWritten
  PROVE  Len(file) > 0 /\ file[Len(file)] # NL
  BY EmptySeq, LenProperties DEF TypeOK, HalfWritten

\* What was in the file stays in it.
LEMMA FileStays ==
  ASSUME TypeOK, [Next]_vars
  PROVE  /\ file' \in Seq(Text) /\ Len(file) <= Len(file')
         /\ Len(file) \in Nat /\ Len(file') \in Nat
         /\ \A k \in 1..Len(file) : file'[k] = file[k]
         /\ \A ev : Says(file, ev) => Says(file', ev)
<1>1. file \in Seq(Text) /\ Len(file) \in Nat
  BY LenProperties DEF TypeOK, Text
<1>2. CASE file' = file
  BY <1>1, <1>2 DEF Says
<1>3. CASE \E x \in Text : file' = Append(file, x)
  <2>1. PICK x \in Text : file' = Append(file, x)
    BY <1>3
  <2>2. /\ file' \in Seq(Text) /\ Len(file') = Len(file) + 1
        /\ \A k \in 1..Len(file) : file'[k] = file[k]
    BY <1>1, <2>1, AppendProperties
  <2> QED  BY <1>1, <2>2 DEF Says
<1> QED  BY <1>2, <1>3, FileSteps DEF Text

LEMMA GoodStays ==
  ASSUME Scheduled, Written, [Next]_vars, Says(file, "Finished")
  PROVE  Good'
<1>1. Ended
  BY DEF Written, Says, Terminal
<1>2. drive' = drive
  BY <1>1, EndedStays
<1>3. UNCHANGED <<image, verify>>
  BY HelperKeeps, MonitorKeeps, TabKeeps, Steps DEF vars
<1> QED  BY <1>2, <1>3 DEF Written, Good, ImageIsThere

LEMMA WrittenStep ==
  ASSUME FInv, [Next]_vars
  PROVE  Written'
<1>0. TypeOK /\ Scheduled /\ Written /\ OnDrive
  BY DEF FInv
<1>1. /\ file \in Seq(Text) /\ Len(file) \in Nat /\ NL \in Text /\ Events \subseteq Text
      /\ NL \notin Terminal
  BY <1>0, LenProperties DEF TypeOK, Text, Terminal, NL
<1>2. Ended => Ended'
  BY <1>0, EndedStays
<1>3. CASE file' = file
  <2>1. Says(file', "Finished") => Good'
    BY <1>0, <1>3, GoodStays
  <2> QED  BY <1>0, <1>2, <1>3, <2>1 DEF Written
<1>4. CASE HalfWritten /\ UNCHANGED <<drive, gui, hpc>> /\ file' = Append(file, NL)
  <2>1. /\ Len(file') = Len(file) + 1 /\ file'[Len(file) + 1] = NL
        /\ \A k \in 1..Len(file) : file'[k] = file[k]
    BY <1>1, <1>4, AppendProperties
  <2>2. Len(file) > 0 /\ file[Len(file)] # NL
    BY <1>0, <1>4, HalfWrittenIsNoEnd
  <2>3. ASSUME NEW k \in 1..Len(file'), file'[k] \in Terminal
        PROVE  Ended' /\ (k = Len(file') \/ (k = Len(file') - 1 /\ file'[Len(file')] = NL))
    <3>1. k \in 1..Len(file) /\ file[k] \in Terminal
      BY <1>1, <2>1, <2>3
    <3>2. Ended /\ k = Len(file)
      BY <1>0, <2>2, <3>1 DEF Written
    <3> QED  BY <1>1, <1>2, <2>1, <3>2
  <2>4. Says(file', "Finished") => Says(file, "Finished")
    BY <1>1, <2>1 DEF Says, NL
  <2>5. Says(file', "Finished") => Good'
    BY <1>0, <2>4, GoodStays
  <2> QED  BY <2>3, <2>5 DEF Written
<1>5. CASE /\ ~HalfWritten /\ hpc \in {"check", "write", "verify", "finish"}
           /\ UNCHANGED <<drive, gui>>
           /\ \E ev \in Events :
                /\ file' = Append(file, ev)
                /\ ev \in Terminal => hpc' = "exit"
                /\ ev = "Finished" => hpc = "finish"
  <2>1. PICK ev \in Events : /\ file' = Append(file, ev)
                             /\ ev \in Terminal => hpc' = "exit"
                             /\ ev = "Finished" => hpc = "finish"
    BY <1>5
  <2>2. /\ Len(file') = Len(file) + 1 /\ file'[Len(file) + 1] = ev
        /\ \A k \in 1..Len(file) : file'[k] = file[k]
    BY <1>1, <2>1, AppendProperties
  <2>3. \A k \in 1..Len(file) : file[k] \notin Terminal
    BY <1>0, <1>5 DEF Written, Ended
  <2>4. gui' # "idle"
    BY <1>0, <1>5 DEF Scheduled
  <2>5. ASSUME NEW k \in 1..Len(file'), file'[k] \in Terminal
        PROVE  Ended' /\ k = Len(file')
    <3>1. k = Len(file) + 1
      BY <1>1, <2>2, <2>3, <2>5
    <3> QED  BY <2>1, <2>2, <2>4, <2>5, <3>1 DEF Ended
  <2>6. ASSUME Says(file', "Finished") PROVE Good'
    <3>1. hpc = "finish"
      BY <1>1, <2>1, <2>2, <2>3, <2>6 DEF Says, Terminal
    <3>2. UNCHANGED <<image, verify, drive>>
      BY <1>5, HelperKeeps, MonitorKeeps, TabKeeps, Steps DEF vars
    <3> QED  BY <1>0, <3>1, <3>2 DEF OnDrive, Good, ImageIsThere
  <2> QED  BY <2>5, <2>6 DEF Written
<1> QED  BY <1>3, <1>4, <1>5, FileSteps

LEMMA MonitorSteps ==
  ASSUME [Next]_vars
  PROVE  \/ UNCHANGED <<offset, partial, sawEnd, sent>>
         \/ /\ mpc \in {"poll", "final"} /\ UNCHANGED <<file, hpc, gui>>
            /\ \E l \in {"cancel", "report"} : Poll(l)
         \/ /\ mpc = "report" /\ mpc' = "done" /\ UNCHANGED <<offset, partial, sawEnd, file>>
            /\ sent' = sent \o (IF sawEnd THEN <<>> ELSE <<"Failed">>)
            /\ chan' = chan \o (IF sawEnd THEN <<>> ELSE <<"Failed">>)
<1>1. CASE HelperStep \/ TabStep \/ UNCHANGED vars
  BY <1>1, HelperKeeps, TabKeeps DEF vars, monitorVars
<1>2. CASE MonitorPolls \/ LastPoll
  <2>1. mpc \in {"poll", "final"} /\ \E l \in {"cancel", "report"} : Poll(l)
    BY <1>2 DEF MonitorPolls, LastPoll
  <2> QED  BY <1>2, <2>1, MonitorKeeps DEF Monitor
<1>3. CASE Report
  BY <1>3 DEF Report, helperVars
<1>4. CASE MonitorCancels \/ MonitorWaits
  BY <1>4 DEF MonitorCancels, MonitorWaits
<1> QED  BY <1>1, <1>2, <1>3, <1>4, Steps DEF Monitor

LEMMA ReadStep ==
  ASSUME TypeOK, Read, [Next]_vars
  PROVE  Read' /\ offset' \in 0..Len(file') /\ Len(partial') <= 1
<1>1. CASE UNCHANGED <<offset, partial>>
  <2>1. /\ Len(file) \in Nat /\ Len(file') \in Nat /\ Len(file) <= Len(file')
        /\ offset \in 0..Len(file) /\ \A k \in 1..Len(file) : file'[k] = file[k]
    BY FileStays DEF TypeOK
  <2>2. offset > 0 => file'[offset] = file[offset]
    BY <2>1
  <2>3. Len(partial) <= 1
    BY DEF TypeOK
  <2> QED  BY <1>1, <2>1, <2>2, <2>3 DEF Read
<1>2. CASE file' = file /\ \E l \in {"cancel", "report"} : Poll(l)
  BY <1>2, PollReads
<1> QED  BY <1>1, <1>2, MonitorSteps

-----------------------------------------------------------------------------
(* Verdicts.                                                               *)

\* sent is typed, and grows by what was not there before.
LEMMA SentStays ==
  ASSUME FInv, [Next]_vars
  PROVE  /\ sent' \in Seq(Events) /\ Len(sent) \in Nat /\ Len(sent) <= Len(sent')
         /\ \A k \in 1..Len(sent) : sent'[k] = sent[k]
<1>0. TypeOK /\ Read /\ Written /\ Heard
  BY DEF FInv
<1>1. sent \in Seq(Events) /\ Len(sent) \in Nat
  BY <1>0, LenProperties DEF TypeOK
<1>2. ASSUME NEW new \in Seq(Events), sent' = sent \o new
      PROVE  /\ sent' \in Seq(Events) /\ Len(sent) <= Len(sent')
             /\ \A k \in 1..Len(sent) : sent'[k] = sent[k]
  <2>1. /\ sent' \in Seq(Events) /\ Len(sent') = Len(sent) + Len(new) /\ Len(new) \in Nat
        /\ \A k \in 1..(Len(sent) + Len(new)) :
             sent'[k] = IF k <= Len(sent) THEN sent[k] ELSE new[k - Len(sent)]
    BY <1>1, <1>2, ConcatProperties, LenProperties
  <2> QED  BY <1>1, <2>1
<1>3. CASE sent' = sent
  BY <1>1, <1>3
<1>4. CASE \E l \in {"cancel", "report"} : Poll(l)
  <2>1. sent' = sent \o Lines(Fresh) /\ Lines(Fresh) \in Seq(Events)
    BY <1>0, <1>4, PollSends DEF Poll
  <2> QED  BY <1>1, <1>2, <2>1
<1>5. CASE sent' = sent \o (IF sawEnd THEN <<>> ELSE <<"Failed">>)
  <2>1. (IF sawEnd THEN <<>> ELSE <<"Failed">>) \in Seq(Events)
    <3>1. <<>> \in Seq(Events) /\ <<"Failed">> \in Seq(Events)
      BY DEF Events, Terminal
    <3> QED  BY <3>1
  <2> QED  BY <1>1, <1>2, <1>5, <2>1
<1> QED  BY <1>3, <1>4, <1>5, MonitorSteps

\* What is appended to events without a verdict, with a verdict at most at its end.
LEMMA OneVerdictAppended ==
  ASSUME NEW s \in Seq(Events), NEW new \in Seq(Events),
         \A k \in 1..Len(s) : s[k] \notin Terminal,
         \A k \in 1..Len(new) : new[k] \in Terminal => k = Len(new)
  PROVE  \A k \in 1..Len(s \o new) :
           (s \o new)[k] \in Terminal =>
             k = Len(s \o new) /\ Says(new, (s \o new)[k])
<1> DEFINE all == s \o new
<1>1. /\ Len(s) \in Nat /\ Len(new) \in Nat /\ Len(all) = Len(s) + Len(new)
      /\ \A k \in 1..(Len(s) + Len(new)) :
           all[k] = IF k <= Len(s) THEN s[k] ELSE new[k - Len(s)]
  BY ConcatProperties, LenProperties
<1> HIDE DEF all
<1> SUFFICES ASSUME NEW k \in 1..Len(all), all[k] \in Terminal
             PROVE  k = Len(all) /\ Says(new, all[k])
  BY DEF all
<1>2. CASE k <= Len(s)
  BY <1>1, <1>2
<1>3. CASE ~(k <= Len(s))
  <2>1. k - Len(s) \in 1..Len(new) /\ all[k] = new[k - Len(s)]
    BY <1>1, <1>3
  <2>2. k - Len(s) = Len(new)
    BY <2>1
  <2> QED  BY <1>1, <2>1, <2>2 DEF Says
<1> QED  BY <1>2, <1>3

LEMMA HeardStep ==
  ASSUME FInv, [Next]_vars
  PROVE  Heard'
<1>0. TypeOK /\ Scheduled /\ Read /\ Written /\ Heard
  BY DEF FInv
<1>1. sent \in Seq(Events) /\ Len(sent) \in Nat
  BY <1>0, LenProperties DEF TypeOK
<1>2. Ended => Ended'
  BY <1>0, EndedStays
<1>3. \A ev : Says(file, ev) => Says(file', ev)
  BY <1>0, FileStays
<1>4. sawEnd => file' = file
  <2> SUFFICES ASSUME sawEnd PROVE file' = file
    OBVIOUS
  <2>1. /\ Len(file) >= 2 /\ file[Len(file) - 1] \in Terminal /\ file[Len(file)] = NL
    BY <1>0 DEF Heard
  <2>2. Len(file) \in Nat
    BY <1>0, FileStays
  <2>3. Len(file) - 1 \in 1..Len(file)
    BY <2>1, <2>2
  <2>4. Ended
    BY <1>0, <2>1, <2>3 DEF Written
  <2>5. ~HalfWritten
    BY <1>0, <2>1, HalfWrittenIsNoEnd
  <2> QED  BY <2>4, <2>5, FileSteps DEF Ended
<1>5. CASE UNCHANGED <<offset, partial, sawEnd, sent>>
  <2>1. mpc' \notin {"done", "dead"} => mpc \notin {"done", "dead"}
    <3>1. CASE HelperStep \/ UNCHANGED vars
      BY <3>1, HelperKeeps DEF vars, monitorVars
    <3>2. CASE TabStep
      BY <1>0, <3>2
         DEF Scheduled, TabStep, Start, Cancel, TabPolls, Quit, monitorVars
    <3>3. CASE Monitor
      BY <3>3 DEF Monitor, MonitorPolls, MonitorCancels, MonitorWaits, LastPoll, Report, Poll
    <3> QED  BY <3>1, <3>2, <3>3, Steps
  <2>2. sawEnd' => /\ Len(file') >= 2 /\ offset' = Len(file')
                   /\ file'[Len(file') - 1] \in Terminal /\ file'[Len(file')] = NL
    BY <1>0, <1>4, <1>5 DEF Heard
  <2>3. OneVerdict'
    BY <1>0, <1>5 DEF Heard, OneVerdict
  <2>4. Says(sent', "Finished") => Says(file', "Finished")
    BY <1>0, <1>3, <1>5 DEF Heard
  <2>5. \A k \in 1..Len(sent') : sent'[k] \in Terminal => Ended'
    BY <1>0, <1>2, <1>5 DEF Heard
  <2>6. ~sawEnd' /\ mpc' \notin {"done", "dead"} => \A k \in 1..Len(sent') : sent'[k] \notin Terminal
    BY <1>0, <1>5, <2>1 DEF Heard
  <2> QED  BY <2>2, <2>3, <2>4, <2>5, <2>6 DEF Heard
<1>6. CASE /\ mpc \in {"poll", "final"} /\ UNCHANGED <<file, hpc, gui>>
           /\ \E l \in {"cancel", "report"} : Poll(l)
  <2> DEFINE lines == Lines(Fresh)
  <2>1. /\ lines \in Seq(Events)
        /\ \A k \in 1..Len(lines) : Says(file, lines[k])
        /\ sawEnd => lines = <<>>
        /\ \A k \in 1..Len(lines) :
             lines[k] \in Terminal =>
               /\ k = Len(lines) /\ Ended
               /\ Len(file) >= 2 /\ file[Len(file) - 1] \in Terminal /\ file[Len(file)] = NL
    BY <1>0, PollSends
  <2>2. /\ offset' = Len(file) /\ sent' = sent \o lines
        /\ sawEnd' = (sawEnd \/ \E i \in 1..Len(lines) : lines[i] \in Terminal)
    BY <1>6 DEF Poll
  <2> HIDE DEF lines
  <2>3. CASE sawEnd
    <3>1. sent' = sent
      BY <1>1, <2>1, <2>2, <2>3, ConcatEmptySeq
    <3>2. sawEnd' /\ offset' = offset
      BY <1>0, <2>2, <2>3 DEF Heard
    <3>3. OneVerdict'
      BY <1>0, <3>1 DEF Heard, OneVerdict
    <3>4. \A k \in 1..Len(sent') : sent'[k] \in Terminal => Ended'
      BY <1>0, <1>2, <3>1 DEF Heard
    <3> QED  BY <1>0, <1>6, <2>3, <3>1, <3>2, <3>3, <3>4 DEF Heard
  <2>4. CASE ~sawEnd
    <3>1. \A k \in 1..Len(sent) : sent[k] \notin Terminal
      BY <1>0, <1>6, <2>4 DEF Heard
    <3>2. \A k \in 1..Len(sent') : sent'[k] \in Terminal =>
            k = Len(sent') /\ Says(lines, sent'[k])
      BY <1>1, <2>1, <2>2, <3>1, OneVerdictAppended
    <3>3. OneVerdict'
      BY <3>2 DEF OneVerdict
    <3>4. ASSUME NEW k \in 1..Len(sent'), sent'[k] \in Terminal PROVE Ended' /\ sawEnd'
      <4>1. PICK i \in 1..Len(lines) : lines[i] = sent'[k]
        BY <3>2, <3>4 DEF Says
      <4> QED  BY <1>2, <2>1, <2>2, <3>4, <4>1
    <3>5. Says(sent', "Finished") => Says(file', "Finished")
      <4> SUFFICES ASSUME Says(sent', "Finished") PROVE Says(file', "Finished")
        OBVIOUS
      <4>1. PICK k \in 1..Len(sent') : sent'[k] = "Finished"
        BY DEF Says
      <4>2. Says(lines, "Finished")
        BY <3>2, <4>1 DEF Terminal
      <4> QED  BY <1>6, <2>1, <4>2 DEF Says
    <3>6. sawEnd' => /\ Len(file') >= 2 /\ offset' = Len(file')
                     /\ file'[Len(file') - 1] \in Terminal /\ file'[Len(file')] = NL
      BY <1>6, <2>1, <2>2, <2>4
    <3> QED  BY <3>3, <3>4, <3>5, <3>6 DEF Heard
  <2> QED  BY <2>3, <2>4
<1>7. CASE /\ mpc = "report" /\ mpc' = "done" /\ UNCHANGED <<offset, partial, sawEnd, file>>
           /\ sent' = sent \o (IF sawEnd THEN <<>> ELSE <<"Failed">>)
  <2>1. Ended /\ Ended'
    BY <1>0, <1>2, <1>7 DEF Scheduled, Ended
  <2>2. CASE sawEnd
    <3>1. sent' = sent
      BY <1>1, <1>7, <2>2, ConcatEmptySeq
    <3>2. OneVerdict'
      BY <1>0, <3>1 DEF Heard, OneVerdict
    <3> QED  BY <1>0, <1>7, <2>1, <2>2, <3>1, <3>2 DEF Heard
  <2>3. CASE ~sawEnd
    <3> DEFINE new == <<"Failed">>
    <3>1. new \in Seq(Events) /\ Len(new) = 1 /\ new[1] = "Failed" /\ sent' = sent \o new
      BY <1>7, <2>3 DEF Events, Terminal
    <3> HIDE DEF new
    <3>2. \A k \in 1..Len(sent) : sent[k] \notin Terminal
      BY <1>0, <1>7, <2>3 DEF Heard
    <3>3. \A k \in 1..Len(new) : new[k] \in Terminal => k = Len(new)
      BY <3>1
    <3>4. \A k \in 1..Len(sent') : sent'[k] \in Terminal =>
            k = Len(sent') /\ Says(new, sent'[k])
      BY <1>1, <3>1, <3>2, <3>3, OneVerdictAppended
    <3>5. OneVerdict'
      BY <3>4 DEF OneVerdict
    <3>6. ~Says(sent', "Finished")
      BY <3>1, <3>4 DEF Says, Terminal
    <3> QED  BY <1>7, <2>1, <2>3, <3>5, <3>6 DEF Heard
  <2> QED  BY <2>2, <2>3
<1> QED  BY <1>5, <1>6, <1>7, MonitorSteps

LEMMA ChanStays ==
  ASSUME FInv, [Next]_vars
  PROVE  chan' \in Seq(Events) /\ \A k \in 1..Len(chan') : Says(sent', chan'[k])
<1>0. TypeOK /\ Read /\ Written /\ Heard /\ Shown
  BY DEF FInv
<1>1. chan \in Seq(Events) /\ Len(chan) \in Nat /\ \A k \in 1..Len(chan) : Says(sent, chan[k])
  BY <1>0, LenProperties DEF TypeOK, Shown
<1>2. \A ev : Says(sent, ev) => Says(sent', ev)
  BY SentStays DEF Says
<1>3. ASSUME NEW new \in Seq(Events), sent' = sent \o new, chan' = chan \o new
      PROVE  chan' \in Seq(Events) /\ \A k \in 1..Len(chan') : Says(sent', chan'[k])
  <2>1. /\ chan' \in Seq(Events) /\ Len(chan') = Len(chan) + Len(new) /\ Len(new) \in Nat
        /\ \A k \in 1..(Len(chan) + Len(new)) :
             chan'[k] = IF k <= Len(chan) THEN chan[k] ELSE new[k - Len(chan)]
    BY <1>1, <1>3, ConcatProperties, LenProperties
  <2>2. ASSUME NEW ev, Says(new, ev) PROVE Says(sent', ev)
    <3>1. /\ sent \in Seq(Events) /\ Len(sent) \in Nat /\ Len(sent') = Len(sent) + Len(new)
          /\ \A k \in 1..(Len(sent) + Len(new)) :
               sent'[k] = IF k <= Len(sent) THEN sent[k] ELSE new[k - Len(sent)]
      BY <1>0, <1>3, ConcatProperties, LenProperties DEF TypeOK
    <3>2. PICK k \in 1..Len(new) : new[k] = ev
      BY <2>2 DEF Says
    <3>3. Len(sent) + k \in 1..Len(sent') /\ sent'[Len(sent) + k] = ev
      BY <2>1, <3>1, <3>2
    <3> QED  BY <3>3 DEF Says
  <2>3. ASSUME NEW k \in 1..Len(chan') PROVE Says(sent', chan'[k])
    <3>1. CASE k <= Len(chan)
      BY <1>1, <1>2, <2>1, <3>1
    <3>2. CASE ~(k <= Len(chan))
      <4>1. k - Len(chan) \in 1..Len(new) /\ chan'[k] = new[k - Len(chan)]
        BY <1>1, <2>1, <3>2
      <4> QED  BY <2>2, <4>1 DEF Says
    <3> QED  BY <3>1, <3>2
  <2> QED  BY <2>1, <2>3
<1>4. CASE chan' = chan
  BY <1>1, <1>2, <1>4
<1>5. CASE chan # <<>> /\ chan' = Tail(chan)
  <2>1. /\ chan' \in Seq(Events) /\ Len(chan') = Len(chan) - 1
        /\ \A k \in 1..(Len(chan) - 1) : chan'[k] = chan[k + 1]
    BY <1>1, <1>5, HeadTailProperties
  <2>2. ASSUME NEW k \in 1..Len(chan') PROVE k + 1 \in 1..Len(chan) /\ chan'[k] = chan[k + 1]
    BY <1>1, <2>1
  <2> QED  BY <1>1, <1>2, <2>1, <2>2
<1>6. CASE \E l \in {"cancel", "report"} : Poll(l)
  <2>1. /\ sent' = sent \o Lines(Fresh) /\ chan' = chan \o Lines(Fresh)
        /\ Lines(Fresh) \in Seq(Events)
    BY <1>0, <1>6, PollSends DEF Poll
  <2> QED  BY <1>3, <2>1
<1>7. CASE Report
  <2> DEFINE new == IF sawEnd THEN <<>> ELSE <<"Failed">>
  <2>1. new \in Seq(Events)
    <3>1. <<>> \in Seq(Events) /\ <<"Failed">> \in Seq(Events)
      BY DEF Events, Terminal
    <3> QED  BY <3>1
  <2>2. sent' = sent \o new /\ chan' = chan \o new
    BY <1>7 DEF Report
  <2> HIDE DEF new
  <2> QED  BY <1>3, <2>1, <2>2
<1>8. HelperStep \/ UNCHANGED vars => chan' = chan
  BY HelperKeeps DEF vars, guiVars
<1>9. TabStep => chan' = chan \/ (chan # <<>> /\ chan' = Tail(chan))
  BY DEF TabStep, Start, Cancel, TabPolls, Quit
<1>10. Monitor => chan' = chan \/ Report \/ \E l \in {"cancel", "report"} : Poll(l)
  BY DEF Monitor, MonitorPolls, LastPoll, MonitorCancels, MonitorWaits, guiVars
<1> QED  BY <1>4, <1>5, <1>6, <1>7, <1>8, <1>9, <1>10, Steps

LEMMA ShownStep ==
  ASSUME FInv, [Next]_vars
  PROVE  Shown' /\ gui' \in {"idle", "running", "gone"} \union Verdicts
<1>0. TypeOK /\ Scheduled /\ Heard /\ Shown
  BY DEF FInv
<1>1. \A k \in 1..Len(chan') : Says(sent', chan'[k])
  BY ChanStays
<1>2. Ended => Ended'
  BY <1>0, EndedStays
<1>3. \A ev : Says(file, ev) => Says(file', ev)
  BY <1>0, FileStays
<1>4. CASE TabPolls
  <2>1. chan \in Seq(Events) /\ Len(chan) \in Nat /\ Len(chan) # 0 /\ Head(chan) = chan[1]
    BY <1>0, <1>4, HeadTailProperties, LenProperties, EmptySeq DEF TypeOK, TabPolls
  <2>2. Says(sent, Head(chan))
    BY <1>0, <2>1 DEF Shown
  <2>3. Head(chan) \in Terminal => Ended
    BY <1>0, <2>2 DEF Heard, Says
  <2>4. Head(chan) = "Finished" => Says(file, "Finished")
    BY <1>0, <2>2 DEF Heard
  <2>5. /\ gui = "running"
        /\ gui' = CASE Head(chan) = "Finished"  -> "success"
                    [] Head(chan) = "Failed"    -> "failed"
                    [] Head(chan) = "Cancelled" -> "cancelled"
                    [] OTHER                    -> gui
    BY <1>4 DEF TabPolls
  <2>6. \/ Head(chan) = "Finished" /\ gui' = "success"
        \/ Head(chan) = "Failed" /\ gui' = "failed"
        \/ Head(chan) = "Cancelled" /\ gui' = "cancelled"
        \/ Head(chan) \notin Terminal /\ gui' = "running"
    BY <2>5 DEF Terminal
  <2>7. gui' \in Verdicts => Ended
    BY <2>3, <2>6 DEF Verdicts, Terminal
  <2>8. gui' = "success" => Says(file', "Finished")
    BY <1>3, <2>4, <2>6
  <2>9. gui' \in {"idle", "running", "gone"} \union Verdicts
    BY <2>6 DEF Verdicts
  <2> QED  BY <1>1, <1>2, <2>7, <2>8, <2>9 DEF Shown
<1>5. CASE gui' = gui \/ gui' \in {"running", "gone"}
  <2>1. gui' \in {"idle", "running", "gone"} \union Verdicts
    BY <1>0, <1>5 DEF TypeOK
  <2>2. gui' \in Verdicts => gui' = gui
    BY <1>5 DEF Verdicts
  <2>3. gui' = "success" => gui' = gui
    BY <1>5
  <2> QED  BY <1>0, <1>1, <1>2, <1>3, <2>1, <2>2, <2>3 DEF Shown
<1>6. TabPolls \/ gui' = gui \/ gui' \in {"running", "gone"}
  BY Steps, HelperKeeps, MonitorKeeps DEF TabStep, Start, Cancel, Quit, vars, guiVars
<1> QED  BY <1>4, <1>5, <1>6

-----------------------------------------------------------------------------
(* The drive.                                                              *)

DriveType == [0..(DeviceSize - 1) -> {"old", "image", "zero", "bad"}]

LEMMA WriteChunkWrites ==
  ASSUME TypeOK, Scheduled, OnDrive, WriteChunk
  PROVE  /\ done' \in 0..image /\ drive' \in DriveType
         /\ \A k \in DOMAIN drive' : k >= RoundUp(image) => drive'[k] = "old"
         /\ done' = image \/ \E q \in Nat : done' = q * Chunk
         /\ ~Faulty => \A k \in 0..(done' - 1) : drive'[k] = "image"
<1>0. /\ image \in Nat /\ done \in 0..image /\ drive \in DriveType /\ Chunk \in Nat \ {0}
      /\ DeviceSize \in Nat
  BY FlashConstants DEF TypeOK, Scheduled, DriveType
<1>1. done < image /\ hpc = "write" /\ done' = done + Want
  BY DEF WriteChunk, HelperAt
<1>2. Want \in Nat /\ done + Want <= image /\ (done + Want = image \/ Want = Chunk)
  BY <1>0, <1>1 DEF Want, Smaller
<1>3. PICK bad \in {{}} \union IF Faulty THEN {{done}} ELSE {} :
        drive' = [k \in DOMAIN drive |->
          IF k \in bad THEN "bad" ELSE IF k < done \/ k >= done + RoundUp(Want) THEN drive[k]
          ELSE IF k < done + Want THEN "image" ELSE "zero"]
  BY DEF WriteChunk, Write
<1>4. DOMAIN drive = 0..(DeviceSize - 1) /\ DOMAIN drive' = DOMAIN drive
  BY <1>0, <1>3 DEF DriveType
<1>5. PICK q \in Nat : done = q * Chunk
  BY <1>0, <1>1 DEF OnDrive
<1>6. done + RoundUp(Want) <= RoundUp(image)
  <2>1. PICK p \in Nat : q * Chunk = p * Sector
    BY ChunksAreSectors
  <2>2. done \in Nat /\ done = p * Sector
    BY <1>0, <1>5, <2>1
  <2> QED  BY <1>0, <1>2, <2>2, WriteStaysInside
<1>7. /\ RoundUp(Want) \in Nat /\ Want <= RoundUp(Want)
      /\ RoundUp(image) \in Nat /\ image <= RoundUp(image)
  BY <1>0, <1>2, RoundUpProperties
<1>8. drive' \in DriveType
  BY <1>0, <1>3, <1>4 DEF DriveType
<1>9. ASSUME NEW k \in DOMAIN drive', k >= RoundUp(image) PROVE drive'[k] = "old"
  <2>1. k \in Nat /\ k >= done + RoundUp(Want) /\ k # done
    BY <1>0, <1>1, <1>4, <1>6, <1>7, <1>9
  <2>2. drive'[k] = drive[k]
    BY <1>3, <1>4, <2>1
  <2> QED  BY <1>4, <1>9, <2>2 DEF OnDrive
<1>10. ASSUME ~Faulty, NEW k \in 0..(done' - 1) PROVE drive'[k] = "image"
  <2>1. k \in DOMAIN drive
    <3>1. RoundUp(image) <= DeviceSize
      BY <1>1 DEF OnDrive
    <3> QED  BY <1>0, <1>1, <1>2, <1>4, <1>7, <3>1
  <2>2. bad = {}
    BY <1>3, <1>10
  <2>3. CASE k < done
    <3>1. drive[k] = "image"
      BY <1>0, <1>1, <1>10, <2>3 DEF OnDrive
    <3> QED  BY <1>3, <2>1, <2>2, <2>3, <3>1
  <2>4. CASE ~(k < done)
    <3>1. k < done + Want /\ ~(k >= done + RoundUp(Want))
      BY <1>0, <1>1, <1>2, <1>7, <2>4
    <3> QED  BY <1>3, <2>1, <2>2, <2>4, <3>1
  <2> QED  BY <2>3, <2>4
<1>11. done' = image \/ \E r \in Nat : done' = r * Chunk
  <2>1. CASE done + Want = image
    BY <1>1, <2>1
  <2>2. CASE Want = Chunk
    <3>1. done' = (q + 1) * Chunk /\ q + 1 \in Nat
      BY <1>0, <1>1, <1>5, <2>2
    <3> QED  BY <3>1
  <2> QED  BY <1>2, <2>1, <2>2
<1> QED  BY <1>0, <1>1, <1>2, <1>8, <1>9, <1>10, <1>11

LEMMA DriveStep ==
  ASSUME TypeOK, Scheduled, OnDrive, [Next]_vars
  PROVE  OnDrive' /\ done' \in 0..image' /\ drive' \in DriveType
<1>0. /\ image \in Nat /\ done \in 0..image /\ drive \in DriveType
      /\ UNCHANGED <<image, verify>>
  BY FlashConstants, HelperKeeps, MonitorKeeps, TabKeeps, Steps
     DEF TypeOK, Scheduled, DriveType, vars
<1>1. RoundUp(image)' = RoundUp(image)
  BY <1>0 DEF RoundUp
<1>2. ASSUME drive' = drive, done' = done,
             hpc' = hpc \/ hpc' \notin {"write", "verify", "finish"}
      PROVE  OnDrive' /\ done' \in 0..image' /\ drive' \in DriveType
  BY <1>0, <1>1, <1>2 DEF OnDrive, Good, ImageIsThere
<1>3. CASE Monitor \/ UNCHANGED vars
  BY <1>2, <1>3, MonitorKeeps DEF vars, helperVars
<1>4. CASE TabStep
  BY <1>2, <1>4, TabKeeps
<1>5. CASE Prompt \/ WatchCancel \/ EndLine \/ StopOnCancel \/ EmitFinished \/ Exit \/ BadJob
           \/ HelperFails \/ HelperDies
  <2>1. drive' = drive /\ done' = done
    BY <1>5 DEF Prompt, WatchCancel, EndLine, StopOnCancel, EmitFinished, Exit, BadJob,
                HelperFails, HelperDies
  <2>2. hpc' = hpc \/ hpc' \notin {"write", "verify", "finish"}
    BY <1>5 DEF Prompt, WatchCancel, EndLine, StopOnCancel, EmitFinished, Exit, BadJob,
                HelperFails, HelperDies
  <2> QED  BY <1>2, <2>1, <2>2
<1>6. CASE CheckTarget
  <2>1. UNCHANGED <<drive, done>> /\ hpc = "check" /\ done = 0
    BY <1>6 DEF CheckTarget, HelperAt, Scheduled
  <2>2. \/ hpc' = "write" /\ RoundUp(image) <= DeviceSize
        \/ hpc' = "exit"
    BY <1>6 DEF CheckTarget
  <2>3. 0 \in Nat /\ done = 0 * Chunk /\ 0..(done - 1) = {}
    BY <2>1, FlashConstants
  <2>4. \E q \in Nat : done' = q * Chunk
    BY <2>1, <2>3
  <2>5. \A k \in DOMAIN drive : k >= RoundUp(image) => drive[k] = "old"
    BY DEF OnDrive
  <2> QED  BY <1>0, <1>1, <2>1, <2>2, <2>3, <2>4, <2>5 DEF OnDrive
<1>7. CASE WriteChunk
  <2>1. /\ done' \in 0..image /\ drive' \in DriveType
        /\ \A k \in DOMAIN drive' : k >= RoundUp(image) => drive'[k] = "old"
        /\ done' = image \/ \E q \in Nat : done' = q * Chunk
        /\ ~Faulty => \A k \in 0..(done' - 1) : drive'[k] = "image"
    BY <1>7, WriteChunkWrites
  <2>2. hpc' = "write" /\ RoundUp(image) <= DeviceSize
    BY <1>7 DEF WriteChunk, HelperAt, OnDrive
  <2> QED  BY <1>0, <1>1, <2>1, <2>2 DEF OnDrive
<1>8. CASE EndWrite
  <2>1. UNCHANGED drive /\ hpc = "write" /\ done = image /\ done' = 0
    BY <1>0, <1>8 DEF EndWrite, HelperAt
  <2>2. \/ hpc' = "verify" /\ verify
        \/ hpc' = "finish" /\ ~verify
    BY <1>8 DEF EndWrite
  <2>3. RoundUp(image) <= DeviceSize /\ (~Faulty => ImageIsThere)
    BY <2>1 DEF OnDrive, ImageIsThere
  <2>4. (~verify => Good)'
    BY <1>0, <2>1, <2>3 DEF Good, ImageIsThere
  <2>5. 0..(done' - 1) = {}
    BY <2>1
  <2>6. \A k \in DOMAIN drive : k >= RoundUp(image) => drive[k] = "old"
    BY DEF OnDrive
  <2> QED  BY <1>0, <1>1, <2>1, <2>2, <2>3, <2>4, <2>5, <2>6 DEF OnDrive
<1>9. CASE VerifyChunk
  <2>0. UNCHANGED drive /\ hpc = "verify" /\ done < image
    BY <1>9 DEF VerifyChunk, HelperAt
  <2>1. CASE hpc' = "exit" /\ done' = done
    BY <1>2, <2>0, <2>1
  <2>2. CASE /\ \A k \in done..(done + Want - 1) : drive[k] = "image"
             /\ done' = done + Want /\ hpc' = hpc
    <3>1. Want \in Nat /\ done + Want <= image
      BY <1>0, <2>0, FlashConstants DEF Want, Smaller
    <3>2. \A k \in 0..(done - 1) : drive[k] = "image"
      BY <2>0 DEF OnDrive
    <3>3. \A k \in 0..(done' - 1) : k \in 0..(done - 1) \/ k \in done..(done + Want - 1)
      BY <1>0, <2>2, <3>1
    <3>4. \A k \in 0..(done' - 1) : drive'[k] = "image"
      BY <2>0, <2>2, <3>2, <3>3
    <3>5. done' \in 0..image'
      BY <1>0, <2>2, <3>1
    <3>6. /\ RoundUp(image) <= DeviceSize
          /\ \A k \in DOMAIN drive : k >= RoundUp(image) => drive[k] = "old"
      BY <2>0 DEF OnDrive
    <3> QED  BY <1>0, <1>1, <2>0, <2>2, <3>4, <3>5, <3>6 DEF OnDrive
  <2> QED  BY <1>9, <2>1, <2>2 DEF VerifyChunk
<1>10. CASE EndVerify
  <2>1. UNCHANGED <<drive, done>> /\ hpc = "verify" /\ done = image /\ hpc' = "finish"
    BY <1>0, <1>10 DEF EndVerify, HelperAt
  <2>2. ImageIsThere /\ RoundUp(image) <= DeviceSize
    BY <2>1 DEF OnDrive, ImageIsThere
  <2>3. Good'
    BY <1>0, <2>1, <2>2 DEF Good, ImageIsThere
  <2>4. \A k \in DOMAIN drive : k >= RoundUp(image) => drive[k] = "old"
    BY DEF OnDrive
  <2> QED  BY <1>0, <1>1, <2>1, <2>2, <2>3, <2>4 DEF OnDrive
<1> QED  BY <1>3, <1>4, <1>5, <1>6, <1>7, <1>8, <1>9, <1>10, Steps DEF HelperStep, Helper

-----------------------------------------------------------------------------
(* The invariant and what follows from it.                                 *)

\* The rest of the type invariant: the small state.
LEMMA SmallTypes ==
  ASSUME FInv, [Next]_vars
  PROVE  /\ mpc' \in {"off", "poll", "cancel", "wait", "final", "report", "done", "dead"}
         /\ sawEnd' \in BOOLEAN
         /\ dir' \in {"none", "job", "cancel"} /\ exit' \in {"none", "code", "denied"}
         /\ hpc' \in {"off", "prompt", "check", "write", "verify", "finish", "exit"}
<1>0. /\ mpc \in {"off", "poll", "cancel", "wait", "final", "report", "done", "dead"}
      /\ sawEnd \in BOOLEAN
      /\ dir \in {"none", "job", "cancel"} /\ exit \in {"none", "code", "denied"}
      /\ hpc \in {"off", "prompt", "check", "write", "verify", "finish", "exit"}
  BY DEF FInv, TypeOK
<1>1. CASE HelperStep
  BY <1>0, <1>1, HelperKeeps
     DEF HelperStep, Helper, Prompt, WatchCancel, EndLine, CheckTarget, WriteChunk, EndWrite,
         VerifyChunk, EndVerify, StopOnCancel, EmitFinished, Exit, BadJob, HelperFails,
         HelperDies
<1>2. CASE Monitor
  BY <1>0, <1>2, MonitorKeeps
     DEF Monitor, MonitorPolls, MonitorCancels, MonitorWaits, LastPoll, Report, Poll
<1>3. CASE TabStep
  BY <1>0, <1>3 DEF TabStep, Start, Cancel, TabPolls, Quit, monitorVars, helperVars
<1>4. CASE UNCHANGED vars
  BY <1>0, <1>4 DEF vars, monitorVars, helperVars
<1> QED  BY <1>1, <1>2, <1>3, <1>4, Steps

LEMMA InitFInv ==
  ASSUME Init
  PROVE  FInv
<1> USE DEF Init
<1>1. /\ chan \in Seq(Events) /\ sent \in Seq(Events) /\ file \in Seq(Text)
      /\ Len(chan) = 0 /\ Len(sent) = 0 /\ Len(file) = 0 /\ Len(partial) = 0
  BY EmptySeq
<1>2. image \in Nat /\ image \in ImageSizes /\ verify \in BOOLEAN /\ done \in 0..image
  BY FlashConstants
<1>3. drive \in DriveType /\ \A k \in DOMAIN drive : drive[k] = "old"
  BY DEF DriveType
<1>4. TypeOK
  <2>1. /\ gui = "idle" /\ mpc = "off" /\ offset = 0 /\ sawEnd = FALSE
        /\ dir = "none" /\ exit = "none" /\ hpc = "off"
    OBVIOUS
  <2>2. offset \in 0..Len(file)
    BY <1>1, <2>1
  <2>3. drive \in [0..(DeviceSize - 1) -> {"old", "image", "zero", "bad"}]
    BY <1>3 DEF DriveType
  <2>4. file \in Seq(Events \union {NL}) /\ Len(partial) <= 1
    BY <1>1 DEF Text
  <2> HIDE DEF Init
  <2> QED  BY <1>1, <1>2, <2>1, <2>2, <2>3, <2>4 DEF TypeOK
<1>5. Scheduled
  BY <1>2 DEF Scheduled
<1>6. Written /\ Heard /\ Read /\ Shown
  BY <1>1 DEF Written, Heard, Read, Shown, Says, OneVerdict, Verdicts
<1>7. OnDrive
  BY <1>3 DEF OnDrive
<1> QED  BY <1>4, <1>5, <1>6, <1>7 DEF FInv

LEMMA NextFInv ==
  ASSUME FInv, [Next]_vars
  PROVE  FInv'
<1>0. TypeOK /\ Scheduled /\ Written /\ Read /\ Heard /\ Shown /\ OnDrive
  BY DEF FInv
<1>1. Scheduled' /\ Written' /\ Heard' /\ Shown'
  BY <1>0, ScheduledStep, WrittenStep, HeardStep, ShownStep
<1>2. Read' /\ offset' \in 0..Len(file') /\ Len(partial') <= 1
  BY <1>0, ReadStep
<1>3. OnDrive' /\ done' \in 0..image' /\ drive' \in DriveType
  BY <1>0, DriveStep
<1>4. file' \in Seq(Text) /\ sent' \in Seq(Events) /\ chan' \in Seq(Events)
  BY <1>0, FileStays, SentStays, ChanStays
<1>5. TypeOK'
  BY <1>2, <1>3, <1>4, SmallTypes, ShownStep DEF TypeOK, DriveType, Text
<1> QED  BY <1>1, <1>2, <1>3, <1>5 DEF FInv

LEMMA FlashInvariant == Spec => []FInv
<1>1. Init => FInv
  BY InitFInv
<1>2. FInv /\ [Next]_vars => FInv'
  BY NextFInv
<1> QED  BY <1>1, <1>2, PTL DEF Spec

\* Every variable has values of its kind: the monitor never reads past the end of the
\* progress file, and the helper never counts more bytes than the image has.
THEOREM TypeCorrect == Spec => []TypeOK
<1>1. FInv => TypeOK
  BY DEF FInv
<1> QED  BY <1>1, FlashInvariant, PTL

\* The tab is sent at most one final event, and nothing after it, whether the helper reports
\* one, loses it, dies over it, or never runs.
THEOREM OneVerdictIsSent == Spec => []OneVerdict
<1>1. FInv => OneVerdict
  BY DEF FInv, Heard
<1> QED  BY <1>1, FlashInvariant, PTL

\* When the tab says the drive is ready, the whole image is on it; and whatever the end,
\* nothing behind the image's last sector is touched.
THEOREM SuccessMeansWritten == Spec => []SuccessIsWritten
<1>1. FInv => SuccessIsWritten
  <2> SUFFICES ASSUME FInv PROVE SuccessIsWritten
    OBVIOUS
  <2>1. gui = "success" /\ (verify \/ ~Faulty) => ImageIsThere
    BY DEF FInv, Shown, Written, Good
  <2>2. \A k \in DOMAIN drive : k >= RoundUp(image) => drive[k] = "old"
    BY DEF FInv, OnDrive
  <2> QED  BY <2>1, <2>2 DEF SuccessIsWritten, ImageIsThere
<1> QED  BY <1>1, FlashInvariant, PTL

\* Once the tab shows a verdict, the drive is written no more: it may be unplugged.
THEOREM NothingIsWrittenAfterVerdict == Spec => QuietAfterVerdict
<1>1. FInv /\ [Next]_vars => [(gui \in Verdicts) => (drive' = drive)]_vars
  BY EndedStays DEF FInv, Shown
<1> QED  BY <1>1, FlashInvariant, PTL DEF Spec, QuietAfterVerdict
=============================================================================
