------------------------ MODULE ResponseWriterProofs ------------------------
(***************************************************************************)
(* Theorems of ResponseWriter, for any request ids, channel capacity,      *)
(* cooldown and number of responses.                                       *)
(***************************************************************************)
EXTENDS ResponseWriter, SequenceTheorems, TLAPS

-----------------------------------------------------------------------------
(* Sequences of entries that tile a range of positions *)

\* An entry has natural bounds.
LEMMA EntryBounds ==
    ASSUME NEW es \in Seq(Entries), NEW i \in 1..Len(es)
    PROVE  /\ es[i] \in Entries
           /\ es[i].lo \in Nat \ {0}
           /\ es[i].hi \in Nat \ {0}
<1>1. es[i] \in Entries
  BY ElementOfSeq
<1> QED
  BY <1>1, BoundsAssumption DEF Entries

\* The end of a tiling is a position, or where it started from.
LEMMA LastHiNat ==
    ASSUME NEW es \in Seq(Entries), NEW b \in Nat
    PROVE  /\ LastHi(es, b) \in Nat
           /\ Len(es) = 0 => LastHi(es, b) = b
           /\ Len(es) # 0 => LastHi(es, b) = es[Len(es)].hi
<1>1. CASE es = <<>>
  BY <1>1 DEF LastHi
<1>2. CASE es # <<>>
  <2>1. Len(es) \in 1..Len(es)
    BY <1>2, EmptySeq
  <2> QED
    BY <1>2, <2>1, EntryBounds DEF LastHi
<1> QED
  BY <1>1, <1>2

\* A tiling may be extended by the entry that follows it.
LEMMA TilesAppend ==
    ASSUME NEW es \in Seq(Entries), NEW b \in Nat, NEW e \in Entries,
           Tiles(es, b), e.lo = LastHi(es, b) + 1, e.lo <= e.hi
    PROVE  /\ Append(es, e) \in Seq(Entries)
           /\ Tiles(Append(es, e), b)
           /\ LastHi(Append(es, e), b) = e.hi
<1> DEFINE fs == Append(es, e)
<1>1. /\ fs \in Seq(Entries)
      /\ Len(fs) = Len(es) + 1
      /\ \A i \in 1..Len(es) : fs[i] = es[i]
      /\ fs[Len(fs)] = e
      /\ Len(es) \in Nat
  BY AppendProperties, LenProperties
<1> HIDE DEF fs
<1>2. LastHi(fs, b) = e.hi
  <2>1. Len(fs) # 0 => LastHi(fs, b) = fs[Len(fs)].hi
    BY <1>1, LastHiNat, Zenon
  <2>2. Len(fs) # 0
    BY <1>1
  <2> QED
    BY <1>1, <2>1, <2>2
<1>3. /\ LastHi(es, b) \in Nat
      /\ Len(es) = 0 => LastHi(es, b) = b
      /\ Len(es) # 0 => LastHi(es, b) = es[Len(es)].hi
  BY LastHiNat, Zenon
<1>4. ASSUME NEW i \in 1..Len(fs)
      PROVE  /\ fs[i].lo <= fs[i].hi
             /\ fs[i].lo = 1 + (IF i = 1 THEN b ELSE fs[i - 1].hi)
  <2>1. CASE i \in 1..Len(es)
    <3>1. i # 1 => i - 1 \in 1..Len(es)
      BY <1>1, <2>1
    <3> QED
      BY <1>1, <2>1, <3>1, LenProperties DEF Tiles
  <2>2. CASE i = Len(fs)
    <3>1. i = 1 => LastHi(es, b) = b
      BY <1>1, <1>3, <2>2
    <3>2. i # 1 => LastHi(es, b) = fs[i - 1].hi
      <4>1. i # 1 => i - 1 = Len(es) /\ i - 1 \in 1..Len(es)
        BY <1>1, <2>2
      <4> QED
        BY <1>1, <1>3, <4>1
    <3>3. fs[i] = e
      BY <1>1, <2>2
    <3>4. LastHi(es, b) = IF i = 1 THEN b ELSE fs[i - 1].hi
      BY <3>1, <3>2
    <3> QED
      BY <1>3, <3>3, <3>4
  <2> QED
    BY <1>1, <2>1, <2>2
<1>5. Tiles(fs, b)
  BY <1>1, <1>4, LenProperties DEF Tiles
<1> QED
  BY <1>1, <1>2, <1>5 DEF fs

\* Two tilings that meet make one.
LEMMA TilesConcat ==
    ASSUME NEW es \in Seq(Entries), NEW fs \in Seq(Entries), NEW b \in Nat,
           Tiles(es, b), Tiles(fs, LastHi(es, b))
    PROVE  /\ es \o fs \in Seq(Entries)
           /\ Tiles(es \o fs, b)
           /\ LastHi(es \o fs, b) = LastHi(fs, LastHi(es, b))
<1> DEFINE gs == es \o fs
           m == Len(es)
           n == Len(fs)
<1>1. /\ gs \in Seq(Entries)
      /\ Len(gs) = m + n
      /\ \A i \in 1..m : gs[i] = es[i]
      /\ \A i \in 1..n : gs[m + i] = fs[i]
      /\ m \in Nat /\ n \in Nat
  BY ConcatProperties, LenProperties
<1> HIDE DEF gs
<1>2. /\ LastHi(es, b) \in Nat
      /\ m = 0 => LastHi(es, b) = b
      /\ m # 0 => LastHi(es, b) = es[m].hi
  BY LastHiNat, Zenon
<1>3. LastHi(gs, b) = LastHi(fs, LastHi(es, b))
  <2>1. /\ n = 0 => LastHi(fs, LastHi(es, b)) = LastHi(es, b)
        /\ n # 0 => LastHi(fs, LastHi(es, b)) = fs[n].hi
    BY <1>2, LastHiNat, Zenon
  <2>2. /\ Len(gs) = 0 => LastHi(gs, b) = b
        /\ Len(gs) # 0 => LastHi(gs, b) = gs[Len(gs)].hi
    BY <1>1, LastHiNat, Zenon
  <2>3. CASE n = 0
    <3>1. Len(gs) = m /\ (m # 0 => gs[m] = es[m])
      BY <1>1, <2>3
    <3> QED
      BY <1>2, <2>1, <2>2, <2>3, <3>1
  <2>4. CASE n # 0
    <3>1. Len(gs) # 0 /\ gs[Len(gs)] = fs[n]
      BY <1>1, <2>4
    <3> QED
      BY <2>1, <2>2, <2>4, <3>1
  <2> QED
    BY <2>3, <2>4
<1>4. ASSUME NEW i \in 1..Len(gs)
      PROVE  /\ gs[i].lo <= gs[i].hi
             /\ gs[i].lo = 1 + (IF i = 1 THEN b ELSE gs[i - 1].hi)
  <2>1. CASE i \in 1..m
    <3>1. i # 1 => i - 1 \in 1..m
      BY <1>1, <2>1
    <3> QED
      BY <1>1, <2>1, <3>1, LenProperties DEF Tiles
  <2>2. CASE i = m + 1
    <3>1. gs[i].lo <= gs[i].hi /\ gs[i].lo = 1 + LastHi(es, b)
      <4>1. gs[i] = fs[1] /\ 1 \in 1..n
        BY <1>1, <2>2
      <4> QED
        BY <4>1, LenProperties DEF Tiles
    <3>2. LastHi(es, b) = IF i = 1 THEN b ELSE gs[i - 1].hi
      <4>1. i # 1 => gs[i - 1] = es[m] /\ m # 0
        BY <1>1, <2>2
      <4>2. i = 1 => m = 0
        BY <1>1, <2>2
      <4> QED
        BY <1>2, <4>1, <4>2
    <3> QED
      BY <3>1, <3>2
  <2>3. CASE i \in (m + 2)..(m + n)
    <3>1. PICK j \in 2..n : i = m + j
      <4>1. i - m \in 2..n /\ i = m + (i - m)
        BY <1>1, <2>3
      <4> QED
        BY <4>1
    <3>2. gs[i] = fs[j] /\ gs[i - 1] = fs[j - 1] /\ i # 1 /\ j # 1 /\ j \in 1..n
      <4>1. j \in 1..n /\ j - 1 \in 1..n /\ i - 1 = m + (j - 1)
        BY <1>1, <3>1
      <4>2. gs[m + j] = fs[j] /\ gs[m + (j - 1)] = fs[j - 1]
        BY <1>1, <4>1
      <4> QED
        BY SMTT(30), <1>1, <3>1, <4>1, <4>2
    <3> QED
      BY <3>2, LenProperties DEF Tiles
  <2> QED
    BY <1>1, <2>1, <2>2, <2>3
<1>5. Tiles(gs, b)
  BY <1>1, <1>4, LenProperties DEF Tiles
<1> QED
  BY <1>1, <1>3, <1>5 DEF gs

\* The beginning of a tiling is a tiling.
LEMMA TilesPrefix ==
    ASSUME NEW es \in Seq(Entries), NEW b \in Nat, Tiles(es, b), NEW n \in 0..Len(es)
    PROVE  /\ SubSeq(es, 1, n) \in Seq(Entries)
           /\ Tiles(SubSeq(es, 1, n), b)
           /\ LastHi(SubSeq(es, 1, n), b) = IF n = 0 THEN b ELSE es[n].hi
<1> DEFINE fs == SubSeq(es, 1, n)
<1>1. /\ fs \in Seq(Entries)
      /\ Len(fs) = n
      /\ \A i \in 1..n : fs[i] = es[i]
      /\ Len(es) \in Nat
  BY SubSeqProperties, LenProperties
<1> HIDE DEF fs
<1>2. LastHi(fs, b) = IF n = 0 THEN b ELSE es[n].hi
  <2>1. /\ Len(fs) = 0 => LastHi(fs, b) = b
        /\ Len(fs) # 0 => LastHi(fs, b) = fs[Len(fs)].hi
    BY <1>1, LastHiNat, Zenon
  <2>2. n # 0 => fs[n] = es[n]
    BY <1>1
  <2> QED
    BY <1>1, <2>1, <2>2
<1>3. ASSUME NEW i \in 1..n
      PROVE  /\ fs[i].lo <= fs[i].hi
             /\ fs[i].lo = 1 + (IF i = 1 THEN b ELSE fs[i - 1].hi)
  <2>1. i \in 1..Len(es) /\ (i # 1 => i - 1 \in 1..n)
    BY <1>1
  <2> QED
    BY <1>1, <2>1, LenProperties DEF Tiles
<1>4. Tiles(fs, b)
  BY <1>1, <1>3, LenProperties DEF Tiles
<1> QED
  BY <1>1, <1>2, <1>4 DEF fs

\* Lengthening the last entry of a tiling keeps it one.
LEMMA TilesExtend ==
    ASSUME NEW es \in Seq(Entries), NEW b \in Nat, Tiles(es, b), es # <<>>,
           NEW k \in 1..MaxSent, LastHi(es, b) <= k
    PROVE  LET fs == [es EXCEPT ![Len(es)] = Entry(@.lo, k)]
           IN  /\ fs \in Seq(Entries)
               /\ Tiles(fs, b)
               /\ LastHi(fs, b) = k
               /\ Len(fs) = Len(es)
               /\ \A i \in 1..Len(es) :
                     /\ fs[i].lo = es[i].lo
                     /\ fs[i].hi = IF i = Len(es) THEN k ELSE es[i].hi
<1> DEFINE n == Len(es)
           e == Entry(es[n].lo, k)
           fs == [es EXCEPT ![n] = e]
<1>1. n \in 1..n
  BY EmptySeq
<1>2. es[n] \in Entries
  BY <1>1, EntryBounds
<1>3. [es EXCEPT ![n] = Entry(@.lo, k)] = fs
  OBVIOUS
<1>4. e \in Entries
  BY <1>2 DEF Entries, Entry
<1>5. /\ fs \in Seq(Entries)
      /\ Len(fs) = n
      /\ \A i \in 1..n : fs[i] = IF i = n THEN e ELSE es[i]
  BY <1>1, <1>4, ExceptSeq
<1> HIDE DEF fs
<1>6. \A i \in 1..n : /\ fs[i].lo = es[i].lo
                      /\ fs[i].hi = IF i = n THEN k ELSE es[i].hi
  BY <1>5 DEF Entry
<1>7. LastHi(fs, b) = k
  <2>1. Len(fs) # 0 => LastHi(fs, b) = fs[Len(fs)].hi
    BY <1>5, LastHiNat, Zenon
  <2> QED
    BY <1>1, <1>5, <1>6, <2>1
<1>8. ASSUME NEW i \in 1..n
      PROVE  /\ fs[i].lo <= fs[i].hi
             /\ fs[i].lo = 1 + (IF i = 1 THEN b ELSE fs[i - 1].hi)
  <2>1. es[i].lo <= es[i].hi /\ es[i].lo = 1 + (IF i = 1 THEN b ELSE es[i - 1].hi)
    BY LenProperties DEF Tiles
  <2>2. i # 1 => fs[i - 1].hi = es[i - 1].hi
    BY <1>6
  <2>3. n # 0 => LastHi(es, b) = es[n].hi
    BY LastHiNat, Zenon
  <2>4. es[i].lo \in Nat /\ es[i].hi \in Nat
    BY EntryBounds
  <2>5. fs[i].lo <= fs[i].hi
    BY <1>1, <1>6, <2>1, <2>3, <2>4
  <2>6. fs[i].lo = es[i].lo
    BY <1>6
  <2> QED
    BY <2>1, <2>2, <2>5, <2>6
<1>9. Tiles(fs, b)
  BY <1>5, <1>8, LenProperties DEF Tiles
<1> QED
  BY <1>3, <1>5, <1>6, <1>7, <1>9

-----------------------------------------------------------------------------
(* The inductive invariant *)

\* The entries lie beyond lo and within hi.
Within(es, lo, hi) == \A i \in 1..Len(es) : lo < es[i].lo /\ es[i].hi <= hi

\* What OnlyStreamsMerged says of one sequence of entries.
Pure(es) ==
    \A i \in 1..Len(es) :
        es[i].lo # es[i].hi =>
            \A k \in es[i].lo..es[i].hi :
                IsBatchable(sent[k]) /\ SameStream(es[i].lo, k)

AllText(es) ==
    \A i \in 1..Len(es) : \A k \in es[i].lo..es[i].hi : IsBatchable(sent[k])

\* No entry begins before position 1.
LEMMA WithinZero ==
    ASSUME NEW es \in Seq(Entries), NEW lo, NEW hi, Within(es, lo, hi)
    PROVE  Within(es, 0, hi)
<1> SUFFICES ASSUME NEW i \in 1..Len(es) PROVE 0 < es[i].lo /\ es[i].hi <= hi
  BY DEF Within
<1>1. es[i].hi <= hi
  BY DEF Within
<1>2. es[i].lo \in Nat \ {0}
  BY EntryBounds
<1> QED
  BY <1>1, <1>2

FramesInv ==
    /\ Tiles(frames, 0)
    /\ Within(frames, 0, taken)
    /\ Pure(frames)

BufferInv ==
    /\ Tiles(buf, Written)
    /\ Within(buf, Written, taken)
    /\ Pure(buf)
    /\ AllText(buf)
    /\ LastHi(buf, Written) = taken
    /\ TimerMatchesBuffer

WriterInv ==
    /\ TypeOK
    /\ FramesInv
    /\ IF writer = "running" THEN BufferInv ELSE buf = <<>>

\* What has been written was taken from the channel before.
LEMMA WrittenNat == TypeOK /\ FramesInv => Written \in 0..taken
<1> SUFFICES ASSUME TypeOK, FramesInv PROVE Written \in 0..taken
  OBVIOUS
<1>1. /\ Len(frames) = 0 => Written = 0
      /\ Len(frames) # 0 => Written = frames[Len(frames)].hi
      /\ Written \in Nat
  <2>1. frames \in Seq(Entries) /\ 0 \in Nat
    BY DEF TypeOK
  <2> QED
    BY <2>1, LastHiNat DEF Written
<1>2. Len(frames) \in Nat /\ taken \in Nat
  BY LenProperties DEF TypeOK
<1>3. CASE Len(frames) # 0
  BY <1>1, <1>2, <1>3 DEF FramesInv, Within
<1> QED
  BY <1>1, <1>2, <1>3

\* The inductive invariant contains the properties that the runs check.
LEMMA InvImplies ==
    WriterInv => TypeOK /\ FramesInOrder /\ OnlyStreamsMerged /\ TimerMatchesBuffer
<1> SUFFICES ASSUME WriterInv
             PROVE  FramesInOrder /\ OnlyStreamsMerged /\ TimerMatchesBuffer
  BY DEF WriterInv
<1>1. FramesInOrder
  BY WrittenNat DEF WriterInv, FramesInv, BufferInv, FramesInOrder, TypeOK
<1>2. DOMAIN frames = 1..Len(frames) /\ DOMAIN buf = 1..Len(buf)
  BY LenProperties DEF WriterInv, TypeOK
<1>3. Pure(frames) /\ Pure(buf)
  BY EmptySeq DEF WriterInv, FramesInv, BufferInv, Pure
<1>4. OnlyStreamsMerged
  BY <1>2, <1>3 DEF OnlyStreamsMerged, Pure
<1>5. TimerMatchesBuffer
  BY DEF WriterInv, BufferInv, TimerMatchesBuffer
<1> QED
  BY <1>1, <1>4, <1>5

-----------------------------------------------------------------------------
(* The steps *)

\* What is known about entries depends on the responses they hold, which later
\* sends do not change.  (The entries themselves are rigid here.)
LEMMA PureStable ==
    ASSUME NEW es \in Seq(Entries), NEW t \in Nat, Within(es, 0, t),
           \A k \in 1..t : sent'[k] = sent[k]
    PROVE  /\ Pure(es) => \A i \in 1..Len(es) :
                 es[i].lo # es[i].hi =>
                     \A k \in es[i].lo..es[i].hi :
                        /\ IsBatchable(sent'[k])
                        /\ sent'[es[i].lo].id = sent'[k].id
                        /\ sent'[es[i].lo].variant = sent'[k].variant
           /\ AllText(es) => \A i \in 1..Len(es) :
                 \A k \in es[i].lo..es[i].hi : IsBatchable(sent'[k])
<1>1. ASSUME NEW i \in 1..Len(es), NEW k \in es[i].lo..es[i].hi
      PROVE  /\ sent'[k] = sent[k]
             /\ sent'[es[i].lo] = sent[es[i].lo]
  <2>1. es[i].lo \in Nat \ {0} /\ es[i].hi \in Nat \ {0} /\ es[i].hi <= t
    BY EntryBounds DEF Within
  <2>2. k \in 1..t /\ es[i].lo \in 1..t
    BY <2>1
  <2> QED
    BY <2>2
<1>2. Pure(es) => \A i \in 1..Len(es) :
          es[i].lo # es[i].hi =>
              \A k \in es[i].lo..es[i].hi :
                 /\ IsBatchable(sent'[k])
                 /\ sent'[es[i].lo].id = sent'[k].id
                 /\ sent'[es[i].lo].variant = sent'[k].variant
  BY <1>1 DEF Pure, SameStream
<1>3. AllText(es) => \A i \in 1..Len(es) :
          \A k \in es[i].lo..es[i].hi : IsBatchable(sent'[k])
  BY <1>1 DEF AllText
<1> QED
  BY <1>2, <1>3

\* A step that leaves the frames, the buffer and the writer alone, and takes
\* nothing, keeps the invariant if it keeps the types and the timer.
LEMMA QuietInv ==
    ASSUME WriterInv, TypeOK', UNCHANGED <<taken, buf, frames, writer>>,
           \A k \in 1..taken : sent'[k] = sent[k],
           TimerMatchesBuffer'
    PROVE  WriterInv'
<1>1. frames \in Seq(Entries) /\ buf \in Seq(Entries) /\ taken \in Nat
  BY LenProperties DEF WriterInv, TypeOK
<1>2. UNCHANGED Written
  BY DEF Written
<1>3. FramesInv'
  <2>1. Within(frames, 0, taken)' /\ Tiles(frames, 0)'
    BY DEF WriterInv, FramesInv, Within, Tiles
  <2>2. Pure(frames)'
    BY <1>1, PureStable, SMTT(30) DEF WriterInv, FramesInv, Pure, SameStream
  <2> QED
    BY <2>1, <2>2 DEF FramesInv
<1>4. CASE writer = "running"
  <2>1. Within(buf, 0, taken)
    <3>1. Within(buf, Written, taken)
      BY <1>4 DEF WriterInv, BufferInv
    <3> QED
      BY <1>1, <3>1, WithinZero
  <2>3. Pure(buf) /\ AllText(buf)
    BY <1>4 DEF WriterInv, BufferInv
  <2>4. Pure(buf)'
    BY SMTT(30), <1>1, <2>1, <2>3, PureStable DEF Pure, SameStream
  <2>5. AllText(buf)'
    BY <1>1, <2>1, <2>3, PureStable DEF AllText
  <2>2. Pure(buf)' /\ AllText(buf)'
    BY <2>4, <2>5
  <2>6. /\ Tiles(buf, Written)' /\ Within(buf, Written, taken)'
        /\ LastHi(buf, Written)' = taken'
    BY <1>2, <1>4 DEF WriterInv, BufferInv, Within, Tiles, LastHi
  <2> QED
    BY <1>3, <1>4, <2>2, <2>6 DEF WriterInv, BufferInv
<1> QED
  BY <1>3, <1>4 DEF WriterInv

\* The senders, the socket and the clock.
LEMMA EnvironmentInv ==
    ASSUME WriterInv,
           \/ \E response \in Responses : Send(response)
           \/ DropSenders \/ SocketGone \/ Clock \/ UNCHANGED vars
    PROVE  WriterInv'
<1> USE DEF bufferVars, channelVars
<1>1. ASSUME NEW response \in Responses, Send(response) PROVE WriterInv'
  <2>1. /\ sent \in Seq(Responses) /\ Len(sent) \in Nat
        /\ sent' \in Seq(Responses)
        /\ Len(sent') = Len(sent) + 1
        /\ \A k \in 1..Len(sent) : sent'[k] = sent[k]
    BY <1>1, AppendProperties, LenProperties DEF Send, WriterInv, TypeOK
  <2>2. TypeOK'
    BY <1>1, <2>1, BoundsAssumption DEF Send, WriterInv, TypeOK
  <2>3. \A k \in 1..taken : sent'[k] = sent[k]
    BY SMTT(30), <2>1 DEF WriterInv, TypeOK
  <2>4. TimerMatchesBuffer'
    BY <1>1, InvImplies DEF Send, TimerMatchesBuffer
  <2> QED
    BY <1>1, <2>2, <2>3, <2>4, QuietInv DEF Send
<1>2. CASE DropSenders \/ SocketGone \/ UNCHANGED vars
  <2>1. UNCHANGED <<sent, taken, buf, wait, age, frames, writer>> /\ TypeOK'
    BY <1>2 DEF DropSenders, SocketGone, vars, WriterInv, TypeOK
  <2>2. TimerMatchesBuffer'
    BY <2>1, InvImplies DEF TimerMatchesBuffer
  <2> QED
    BY <2>1, <2>2, QuietInv
<1>3. CASE Clock
  <2>1. TimerMatchesBuffer /\ writer = "running" /\ wait # None /\ wait > 0
        /\ wait \in 0..Cooldown /\ age \in 0..Cooldown
    BY <1>3, InvImplies DEF Clock, WriterInv, TypeOK
  <2>2. wait' = wait - 1 /\ age' = age + 1 /\ UNCHANGED <<sent, taken, buf, frames, writer>>
    BY <1>3 DEF Clock
  <2>3. wait + age = Cooldown /\ buf # <<>>
    BY <2>1 DEF TimerMatchesBuffer
  <2>4. wait' \in 0..Cooldown /\ age' \in 0..Cooldown /\ wait' + age' = Cooldown
    BY <2>1, <2>2, <2>3, BoundsAssumption
  <2>5. TypeOK'
    BY <1>3, <2>4 DEF Clock, WriterInv, TypeOK
  <2>6. TimerMatchesBuffer'
    BY <2>2, <2>3, <2>4, BoundsAssumption DEF TimerMatchesBuffer
  <2> QED
    BY <2>2, <2>5, <2>6, QuietInv
<1> QED
  BY <1>1, <1>2, <1>3

\* Entries that follow the frames are written, in full or in part.
LEMMA WriteInv ==
    ASSUME WriterInv, NEW es \in Seq(Entries), NEW w \in {"running", "finished"},
           writer = "running", UNCHANGED sent,
           taken' \in Nat, Written <= taken', taken <= taken',
           Tiles(es, Written), Within(es, Written, taken'), Pure(es),
           LastHi(es, Written) = taken',
           Write(es, w)
    PROVE  /\ FramesInv'
           /\ frames' \in Seq(Entries)
           /\ buf' = <<>> /\ wait' = None /\ age' = 0
           /\ writer' \in {"running", "finished", "failed"}
           /\ Written' \in Written..taken'
           /\ writer' = "running" => Written' = taken'
<1>1. /\ frames \in Seq(Entries) /\ Written \in Nat /\ Len(frames) \in Nat
      /\ Tiles(frames, 0) /\ Within(frames, 0, taken) /\ Pure(frames)
      /\ Len(es) \in Nat /\ taken \in Nat
  BY WrittenNat, LenProperties DEF WriterInv, TypeOK, FramesInv
<1>2. PICK n \in 0..Len(es) :
         /\ frames' = frames \o SubSeq(es, 1, n)
         /\ (writer' = w /\ n = Len(es)) \/ writer' \in {"finished", "failed"}
  <2>1. CASE frames' = frames \o es /\ writer' = w
    <3>1. SubSeq(es, 1, Len(es)) = es
      BY SubSeqFull
    <3>2. Len(es) \in 0..Len(es)
      BY <1>1
    <3> QED
      BY <2>1, <3>1, <3>2
  <2>2. ASSUME NEW m \in 0..(Len(es) - 1), frames' = frames \o SubSeq(es, 1, m),
               writer' \in {"finished", "failed"}
        PROVE  \E n \in 0..Len(es) :
                  /\ frames' = frames \o SubSeq(es, 1, n)
                  /\ (writer' = w /\ n = Len(es)) \/ writer' \in {"finished", "failed"}
    <3>1. m \in 0..Len(es)
      BY <1>1
    <3> QED
      BY <2>2, <3>1
  <2>3. \/ frames' = frames \o es /\ writer' = w
        \/ /\ \E m \in 0..(Len(es) - 1) : frames' = frames \o SubSeq(es, 1, m)
           /\ writer' \in {"finished", "failed"}
    BY DEF Write
  <2> QED
    BY <2>1, <2>2, <2>3
<1> DEFINE ws == SubSeq(es, 1, n)
<1>3. /\ ws \in Seq(Entries)
      /\ Tiles(ws, Written)
      /\ LastHi(ws, Written) = IF n = 0 THEN Written ELSE es[n].hi
  BY <1>1, TilesPrefix
<1>4. Len(ws) = n /\ \A i \in 1..n : ws[i] = es[i]
  BY <1>1, SubSeqProperties
<1> HIDE DEF ws
<1>5. /\ frames' \in Seq(Entries)
      /\ Tiles(frames', 0)
      /\ LastHi(frames', 0) = LastHi(ws, Written)
  <2>1. frames' = frames \o ws
    BY <1>2 DEF ws
  <2>2. LastHi(frames, 0) = Written
    BY DEF Written
  <2> QED
    BY <1>1, <1>3, <2>1, <2>2, TilesConcat
<1>6. /\ Len(frames') = Len(frames) + n
      /\ \A i \in 1..Len(frames) : frames'[i] = frames[i]
      /\ \A i \in (Len(frames) + 1)..(Len(frames) + n) :
            /\ i - Len(frames) \in 1..Len(es)
            /\ frames'[i] = es[i - Len(frames)]
  <2>1. frames' = frames \o ws
    BY <1>2 DEF ws
  <2>2. /\ Len(frames') = Len(frames) + n
        /\ \A i \in 1..(Len(frames) + n) :
              frames'[i] = IF i <= Len(frames) THEN frames[i] ELSE ws[i - Len(frames)]
    BY <1>1, <1>3, <1>4, <2>1, ConcatProperties
  <2>3. \A i \in (Len(frames) + 1)..(Len(frames) + n) : i - Len(frames) \in 1..n
    BY <1>1
  <2> QED
    BY <1>1, <1>4, <2>2, <2>3, SMTT(30)
<1>7. ASSUME NEW i \in 1..Len(frames')
      PROVE  \/ \E j \in 1..Len(frames) : frames'[i] = frames[j]
             \/ \E j \in 1..Len(es) : frames'[i] = es[j]
  <2>1. CASE i \in 1..Len(frames)
    BY <1>6, <2>1
  <2>2. CASE i \notin 1..Len(frames)
    <3>1. i \in (Len(frames) + 1)..(Len(frames) + n)
      BY <1>1, <1>6, <2>2
    <3>2. PICK j \in 1..Len(es) : j = i - Len(frames)
      BY <1>6, <3>1
    <3> QED
      BY <1>6, <3>1, <3>2
  <2> QED
    BY <2>1, <2>2
<1>8. Within(frames', 0, taken')
  <2>1. Within(es, 0, taken')
    BY WithinZero
  <2>2. Within(frames, 0, taken')
    <3>1. \A j \in 1..Len(frames) : frames[j].hi \in Nat
      BY <1>1, EntryBounds
    <3> QED
      BY <1>1, <3>1 DEF Within
  <2> QED
    BY <1>7, <2>1, <2>2 DEF Within
<1>9. Pure(frames)'
  <2>1. ASSUME NEW fs \in {frames, es}, NEW j \in 1..Len(fs), fs[j].lo # fs[j].hi,
               NEW k \in fs[j].lo..fs[j].hi
        PROVE  IsBatchable(sent[k]) /\ SameStream(fs[j].lo, k)
    BY <1>1, <2>1 DEF Pure
  <2>2. ASSUME NEW i \in 1..Len(frames'), frames'[i].lo # frames'[i].hi,
               NEW k \in frames'[i].lo..frames'[i].hi
        PROVE  IsBatchable(sent[k]) /\ SameStream(frames'[i].lo, k)
    BY <1>7, <2>1, <2>2
  <2>3. ASSUME NEW i \in 1..Len(frames'), frames'[i].lo # frames'[i].hi,
               NEW k \in frames'[i].lo..frames'[i].hi
        PROVE  (IsBatchable(sent[k]) /\ SameStream(frames[i].lo, k))'
    BY <2>2, <2>3 DEF SameStream
  <2> QED
    BY <2>3 DEF Pure
<1>10. Written' \in Written..taken' /\ (n = Len(es) => Written' = taken')
  <2>1. Written' = IF n = 0 THEN Written ELSE es[n].hi
    BY <1>3, <1>5 DEF Written
  <2>2. n # 0 => /\ es[n].lo \in Nat /\ es[n].hi \in Nat
                 /\ es[n].lo <= es[n].hi
                 /\ Written < es[n].lo /\ es[n].hi <= taken'
    <3>1. n # 0 => n \in 1..Len(es)
      BY <1>1
    <3> QED
      BY <3>1, EntryBounds, LenProperties DEF Tiles, Within
  <2>3. n = Len(es) => Written' = LastHi(es, Written)
    <3>1. /\ Len(es) = 0 => LastHi(es, Written) = Written
          /\ Len(es) # 0 => LastHi(es, Written) = es[Len(es)].hi
      BY <1>1, LastHiNat, Zenon
    <3> QED
      BY <2>1, <3>1
  <2> QED
    BY <1>1, <2>1, <2>2, <2>3
<1>11. buf' = <<>> /\ wait' = None /\ age' = 0
  BY DEF Write, Disarm
<1>12. FramesInv'
  BY <1>5, <1>8, <1>9 DEF FramesInv, Within
<1> QED
  BY <1>2, <1>5, <1>10, <1>11, <1>12

\* Held text grows by the response taken, as part of the last entry or after it.
LEMMA PushInv ==
    ASSUME WriterInv, writer = "running", NEW k \in 1..Len(sent), k = taken + 1,
           IsBatchable(sent[k])
    PROVE  LET es == PushCoalesced(buf, k)
           IN  /\ es \in Seq(Entries) /\ es # <<>>
               /\ Tiles(es, Written) /\ LastHi(es, Written) = k
               /\ Within(es, Written, k)
               /\ Pure(es) /\ AllText(es)
<1> DEFINE n == Len(buf)
<1>1. /\ buf \in Seq(Entries) /\ n \in Nat /\ taken \in Nat /\ Written \in Nat
      /\ Tiles(buf, Written) /\ LastHi(buf, Written) = taken
      /\ Within(buf, Written, taken) /\ Pure(buf) /\ AllText(buf)
      /\ Written <= taken
  BY WrittenNat, LenProperties DEF WriterInv, BufferInv, TypeOK
<1>2. k \in 1..MaxSent /\ Entry(k, k) \in Entries
  BY LenProperties, BoundsAssumption DEF WriterInv, TypeOK, Entry, Entries
<1>3. CASE Joins(buf, k)
  <2> DEFINE es == [buf EXCEPT ![n] = Entry(@.lo, k)]
  <2>1. PushCoalesced(buf, k) = es
    BY <1>3 DEF PushCoalesced
  <2>2. buf # <<>> /\ SameStream(buf[n].hi, k)
    BY <1>3 DEF Joins
  <2>3. /\ es \in Seq(Entries)
        /\ Tiles(es, Written)
        /\ LastHi(es, Written) = k
        /\ Len(es) = n
        /\ \A i \in 1..n : /\ es[i].lo = buf[i].lo
                           /\ es[i].hi = IF i = n THEN k ELSE buf[i].hi
    BY <1>1, <1>2, <2>2, TilesExtend
  <2> HIDE DEF es
  <2>4. n \in 1..n /\ es # <<>> /\ buf[n].hi = taken
    <3>1. n # 0 => LastHi(buf, Written) = buf[n].hi
      BY <1>1, LastHiNat, Zenon
    <3> QED
      BY <1>1, <2>2, <2>3, <3>1, EmptySeq
  <2>5. \A i \in 1..n : /\ buf[i].lo \in Nat /\ buf[i].hi \in Nat
                        /\ buf[i].lo <= buf[i].hi
    BY <1>1, EntryBounds, LenProperties DEF Tiles
  <2>6. Within(es, Written, k)
    BY SMTT(30), <1>1, <2>3, <2>5 DEF Within
  <2>7. AllText(es)
    <3> SUFFICES ASSUME NEW i \in 1..n, NEW j \in es[i].lo..es[i].hi
                 PROVE  IsBatchable(sent[j])
      BY <2>3 DEF AllText
    <3>1. j \in buf[i].lo..buf[i].hi \/ j = k
      BY <1>1, <2>3, <2>4, <2>5
    <3> QED
      BY <1>1, <3>1 DEF AllText
  <2>8. ASSUME NEW j \in buf[n].lo..buf[n].hi PROVE SameStream(j, k)
    <3>1. CASE buf[n].lo = buf[n].hi
      BY <2>2, <2>4, <2>5, <2>8, <3>1
    <3>2. CASE buf[n].lo # buf[n].hi
      <4>1. buf[n].hi \in buf[n].lo..buf[n].hi
        BY <2>4, <2>5
      <4>2. SameStream(buf[n].lo, j) /\ SameStream(buf[n].lo, buf[n].hi)
        BY <1>1, <2>4, <2>8, <3>2, <4>1 DEF Pure
      <4> QED
        BY <2>2, <4>2 DEF SameStream
    <3> QED
      BY <3>1, <3>2
  <2>9. Pure(es)
    <3> SUFFICES ASSUME NEW i \in 1..n, es[i].lo # es[i].hi, NEW j \in es[i].lo..es[i].hi
                 PROVE  SameStream(es[i].lo, j)
      BY <2>3, <2>7 DEF AllText, Pure
    <3>1. CASE i # n
      BY <1>1, <2>3, <3>1 DEF Pure
    <3>2. CASE i = n
      <4>1. buf[n].lo \in buf[n].lo..buf[n].hi /\ es[i].lo = buf[n].lo
        BY <2>3, <2>4, <2>5, <3>2
      <4>2. SameStream(buf[n].lo, k)
        BY <2>8, <4>1
      <4>3. j = k \/ j \in buf[n].lo..buf[n].hi
        BY <1>1, <2>3, <2>4, <2>5, <3>2
      <4> QED
        BY <2>8, <4>1, <4>2, <4>3 DEF SameStream
    <3> QED
      BY <3>1, <3>2
  <2> QED
    BY <2>1, <2>3, <2>4, <2>6, <2>7, <2>9
<1>4. CASE ~Joins(buf, k)
  <2> DEFINE es == Append(buf, Entry(k, k))
  <2>1. PushCoalesced(buf, k) = es
    BY <1>4 DEF PushCoalesced
  <2>2. es \in Seq(Entries) /\ Tiles(es, Written) /\ LastHi(es, Written) = k
    <3>1. /\ Entry(k, k).lo = LastHi(buf, Written) + 1
          /\ Entry(k, k).lo <= Entry(k, k).hi /\ Entry(k, k).hi = k
      BY <1>1 DEF Entry
    <3> QED
      BY <1>1, <1>2, <3>1, TilesAppend
  <2>3. Len(es) = n + 1 /\ es[n + 1] = Entry(k, k) /\ \A i \in 1..n : es[i] = buf[i]
    BY <1>1, <1>2, AppendProperties
  <2> HIDE DEF es
  <2>4. \A i \in 1..Len(es) : (i \in 1..n /\ es[i] = buf[i]) \/ es[i] = Entry(k, k)
    BY <1>1, <2>3
  <2>5. es # <<>>
    BY <1>1, <2>3
  <2>6. Within(es, Written, k)
    <3>1. \A i \in 1..n : buf[i].hi \in Nat
      BY <1>1, EntryBounds
    <3> QED
      BY <1>1, <2>4, <3>1 DEF Within, Entry
  <2>7. AllText(es)
    BY <1>1, <2>4 DEF AllText, Entry
  <2>8. Pure(es)
    BY <1>1, <2>4 DEF Pure, Entry
  <2> QED
    BY <2>1, <2>2, <2>5, <2>6, <2>7, <2>8
<1> QED
  BY <1>3, <1>4

\* An empty buffer is in order behind any frames.
LEMMA EmptyBuffer ==
    /\ <<>> \in Seq(Entries)
    /\ \A b : Tiles(<<>>, b) /\ LastHi(<<>>, b) = b
    /\ \A lo, hi : Within(<<>>, lo, hi)
    /\ Pure(<<>>) /\ AllText(<<>>)
BY EmptySeq DEF Tiles, LastHi, Within, Pure, AllText

\* Holding back a chunk of text keeps the invariant.
LEMMA TakeTextInv == WriterInv /\ TakeText => WriterInv'
<1> SUFFICES ASSUME WriterInv, TakeText PROVE WriterInv'
  OBVIOUS
<1> DEFINE k == taken + 1
           es == PushCoalesced(buf, k)
<1>1. /\ writer = "running" /\ ~Due /\ k \in 1..Len(sent) /\ IsBatchable(sent[k])
      /\ taken' = k /\ buf' = es
      /\ wait' = IF wait = None THEN Cooldown ELSE wait
      /\ UNCHANGED <<sent, senders, age, frames, socket, writer>>
  BY LenProperties DEF TakeText, Recv, channelVars, WriterInv, TypeOK
<1>2. /\ es \in Seq(Entries) /\ es # <<>>
      /\ Tiles(es, Written) /\ LastHi(es, Written) = k
      /\ Within(es, Written, k)
      /\ Pure(es) /\ AllText(es)
  BY <1>1, PushInv
<1> HIDE DEF es
<1>3. TypeOK'
  BY <1>1, <1>2, BoundsAssumption, LenProperties DEF WriterInv, TypeOK
<1>4. TimerMatchesBuffer'
  <2>1. TimerMatchesBuffer
    BY InvImplies
  <2>2. CASE buf = <<>>
    BY <1>1, <1>2, <2>1, <2>2, BoundsAssumption DEF TimerMatchesBuffer
  <2>3. CASE buf # <<>>
    BY <1>1, <1>2, <2>1, <2>3 DEF TimerMatchesBuffer
  <2> QED
    BY <2>2, <2>3
<1>5. UNCHANGED Written
  BY <1>1 DEF Written
<1>6. FramesInv'
  <2>1. frames \in Seq(Entries) /\ taken \in Nat
    BY LenProperties DEF WriterInv, TypeOK
  <2>2. \A i \in 1..Len(frames) : frames[i].hi \in Nat
    BY <2>1, EntryBounds
  <2>3. Within(frames, 0, taken)'
    BY <1>1, <2>1, <2>2 DEF WriterInv, FramesInv, Within
  <2>4. Tiles(frames, 0)' /\ Pure(frames)'
    BY <1>1 DEF WriterInv, FramesInv, Tiles, Pure, SameStream
  <2> QED
    BY <2>3, <2>4 DEF FramesInv
<1>7. BufferInv'
  <2>1. Tiles(buf, Written)' /\ LastHi(buf, Written)' = taken' /\ Within(buf, Written, taken)'
    BY <1>1, <1>2, <1>5 DEF Tiles, LastHi, Within
  <2>2. Pure(buf)' /\ AllText(buf)'
    BY <1>1, <1>2 DEF Pure, AllText, SameStream
  <2> QED
    BY <1>4, <2>1, <2>2 DEF BufferInv
<1> QED
  BY <1>1, <1>3, <1>6, <1>7 DEF WriterInv

\* After a write the buffer is empty, whoever wrote.
LEMMA WrittenInv ==
    ASSUME WriterInv, writer = "running", NEW es \in Seq(Entries),
           NEW w \in {"running", "finished"}, Write(es, w),
           UNCHANGED <<channelVars, socket>>,
           taken' \in taken..Len(sent),
           Tiles(es, Written), Within(es, Written, taken'), Pure(es),
           LastHi(es, Written) = taken'
    PROVE  WriterInv' /\ Written' \in Written..taken'
<1>1. taken' \in Nat /\ Written <= taken' /\ taken <= taken' /\ Len(sent) \in Nat
  BY WrittenNat, LenProperties DEF WriterInv, TypeOK
<1>2. /\ FramesInv'
      /\ frames' \in Seq(Entries)
      /\ buf' = <<>> /\ wait' = None /\ age' = 0
      /\ writer' \in {"running", "finished", "failed"}
      /\ Written' \in Written..taken'
      /\ writer' = "running" => Written' = taken'
  BY <1>1, WriteInv DEF channelVars
<1>3. TypeOK'
  BY <1>1, <1>2, EmptyBuffer, BoundsAssumption DEF WriterInv, TypeOK, channelVars
<1>4. CASE writer' = "running"
  <2>1. TimerMatchesBuffer'
    BY <1>2 DEF TimerMatchesBuffer
  <2>2. Tiles(buf, Written)' /\ LastHi(buf, Written)' = taken' /\ Within(buf, Written, taken)'
    BY <1>2, <1>4, EmptySeq DEF Tiles, LastHi, Within
  <2>3. Pure(buf)' /\ AllText(buf)'
    BY <1>2, EmptySeq DEF Pure, AllText
  <2>4. BufferInv'
    BY <2>1, <2>2, <2>3 DEF BufferInv
  <2> QED
    BY <1>2, <1>3, <1>4, <2>4 DEF WriterInv
<1>5. CASE writer' # "running"
  BY <1>2, <1>3, <1>5 DEF WriterInv
<1> QED
  BY <1>2, <1>4, <1>5

\* Every step that writes to the socket keeps the invariant and only adds to
\* what has been written.
LEMMA WriterStepInv ==
    ASSUME WriterInv, Tick \/ TakeOther \/ Finish
    PROVE  WriterInv' /\ Written' \in Written..taken'
<1>1. /\ buf \in Seq(Entries) /\ taken \in Nat /\ Written \in Nat /\ Len(sent) \in Nat
      /\ taken <= Len(sent) /\ Written <= taken
  BY WrittenNat, LenProperties DEF WriterInv, TypeOK
<1>2. ASSUME writer = "running"
      PROVE  /\ Tiles(buf, Written) /\ LastHi(buf, Written) = taken
             /\ Within(buf, Written, taken) /\ Pure(buf)
  BY <1>2 DEF WriterInv, BufferInv
<1>3. CASE Tick
  BY <1>1, <1>2, <1>3, WrittenInv DEF Tick
<1>4. CASE Finish
  BY <1>1, <1>2, <1>4, WrittenInv DEF Finish
<1>5. CASE TakeOther
  <2> DEFINE k == taken + 1
             es == Append(buf, Entry(k, k))
  <2>1. writer = "running" /\ k \in 1..Len(sent) /\ taken' = k
    BY <1>1, <1>5 DEF TakeOther, Recv
  <2>2. Entry(k, k) \in Entries
    BY <2>1, LenProperties, BoundsAssumption DEF WriterInv, TypeOK, Entry, Entries
  <2>3. es \in Seq(Entries) /\ Tiles(es, Written) /\ LastHi(es, Written) = k
    <3>1. /\ Entry(k, k).lo = LastHi(buf, Written) + 1
          /\ Entry(k, k).lo <= Entry(k, k).hi /\ Entry(k, k).hi = k
      BY <1>1, <1>2, <2>1 DEF Entry
    <3> QED
      BY <1>1, <1>2, <2>1, <2>2, <3>1, TilesAppend
  <2>4. /\ Len(es) = Len(buf) + 1 /\ Len(buf) \in Nat
        /\ \A i \in 1..Len(es) : (i \in 1..Len(buf) /\ es[i] = buf[i]) \/ es[i] = Entry(k, k)
    <3>1. /\ Len(es) = Len(buf) + 1 /\ Len(buf) \in Nat
          /\ es[Len(buf) + 1] = Entry(k, k)
          /\ \A i \in 1..Len(buf) : es[i] = buf[i]
      BY <1>1, <2>2, AppendProperties, LenProperties
    <3> QED
      BY <3>1
  <2>5. Write(es, "running") /\ UNCHANGED <<channelVars, socket>>
    BY <1>5 DEF TakeOther, Recv
  <2> HIDE DEF es
  <2>6. Within(es, Written, k)
    <3>1. \A i \in 1..Len(buf) : buf[i].hi \in Nat
      BY <1>1, EntryBounds
    <3> QED
      BY SMTT(30), <1>1, <1>2, <2>1, <2>4, <3>1 DEF Within, Entry
  <2>7. Pure(es)
    BY <1>2, <2>1, <2>4 DEF Pure, Entry
  <2>8. taken' \in taken..Len(sent)
    BY <1>1, <2>1
  <2> QED
    BY <2>1, <2>3, <2>5, <2>6, <2>7, <2>8, WrittenInv
<1> QED
  BY <1>3, <1>4, <1>5

-----------------------------------------------------------------------------
(* The theorems *)

\* At the start nothing has been sent, held or written.
LEMMA InitInv == Init => WriterInv
<1> SUFFICES ASSUME Init PROVE WriterInv
  OBVIOUS
<1>1. Len(sent) = 0 /\ sent \in Seq(Responses) /\ frames \in Seq(Entries)
  BY EmptySeq DEF Init
<1>2. TypeOK
  BY <1>1, BoundsAssumption DEF Init, TypeOK
<1>3. Written = 0
  BY DEF Init, Written, LastHi
<1> QED
  BY <1>2, <1>3, EmptyBuffer
  DEF Init, WriterInv, FramesInv, BufferInv, TimerMatchesBuffer

\* Every step keeps the invariant.
LEMMA NextInv == WriterInv /\ [Next]_vars => WriterInv'
<1> SUFFICES ASSUME WriterInv, [Next]_vars PROVE WriterInv'
  OBVIOUS
<1>1. CASE \/ \E response \in Responses : Send(response)
           \/ DropSenders \/ SocketGone \/ Clock \/ UNCHANGED vars
  BY <1>1, EnvironmentInv
<1>2. CASE TakeText
  BY <1>2, TakeTextInv
<1>3. CASE Tick \/ TakeOther \/ Finish
  BY <1>3, WriterStepInv
<1> QED
  BY <1>1, <1>2, <1>3 DEF Next, Terminated

\* The invariant holds throughout, for any ids, capacity, cooldown and bound.
LEMMA WriterInvariant == Spec => []WriterInv
BY InitInv, NextInv, PTL DEF Spec

\* The channel never holds more than Capacity responses, and the writer never
\* takes what was not sent (session.rs, the channel of Session::run).
THEOREM WriterTypes == Spec => []TypeOK
BY WriterInvariant, InvImplies, PTL

\* Nothing the writer takes is lost, written twice or overtaken, and only
\* neighbouring text of one request and variant is merged: the frames followed by
\* the held text are what was taken, in the order of sending.
THEOREM FramesAreFaithful == Spec => []FramesFaithful
<1>1. WriterInv => FramesFaithful
  BY InvImplies DEF FramesFaithful
<1> QED
  BY <1>1, WriterInvariant, PTL

\* The timer is armed exactly while text is held, and counts from the oldest
\* chunk however many follow it (session.rs, flush_at).
THEOREM TimerIsOldest == Spec => []TimerMatchesBuffer
BY WriterInvariant, InvImplies, PTL

\* At the start the abstract connection is at its start.
LEMMA InitDelivery == Init => Delivery!Init
BY EmptySeq DEF Init, Delivery!Init, Written, LastHi

\* A write delivers, breaks the connection or writes nothing.
LEMMA WriteDelivers ==
    ASSUME WriterInv, WriterInv', Tick \/ TakeOther \/ Finish
    PROVE  Delivery!Deliver \/ Delivery!Break \/ UNCHANGED Delivery!vars
<1> DEFINE broken == \/ writer = "failed"
                     \/ writer = "finished" /\ Written < Len(sent)
<1>1. writer = "running" /\ UNCHANGED sent
  BY DEF Tick, TakeOther, Finish, Recv, channelVars
<1>2. Written' \in Written..Len(sent)
  <2>1. Written' \in Written..taken'
    BY WriterStepInv
  <2>2. taken' \in Nat /\ taken' <= Len(sent)
    BY <1>1, LenProperties DEF WriterInv, TypeOK
  <2>3. Written \in Nat /\ Len(sent) \in Nat
    BY WrittenNat, LenProperties DEF WriterInv, TypeOK
  <2> QED
    BY <2>1, <2>2, <2>3
<1>3. Written \in Nat /\ Len(sent) \in Nat
  BY WrittenNat, LenProperties DEF WriterInv, TypeOK
<1>4. broken = FALSE
  BY <1>1
<1>5. CASE broken'
  BY <1>1, <1>2, <1>5 DEF Delivery!Break
<1>6. CASE ~broken' /\ Written' # Written
  <2>1. broken' = FALSE
    BY <1>6
  <2>2. Written < Len(sent) /\ Written' \in (Written + 1)..Len(sent)
    BY <1>2, <1>3, <1>6
  <2> QED
    BY <1>1, <1>4, <2>1, <2>2 DEF Delivery!Deliver
<1>7. CASE ~broken' /\ Written' = Written
  <2>1. broken' = FALSE
    BY <1>7
  <2> QED
    BY <1>1, <1>4, <1>7, <2>1 DEF Delivery!vars
<1> QED
  BY <1>5, <1>6, <1>7

\* Every step of the writer is a step of OrderedDelivery or leaves it alone.
LEMMA DeliveryStep ==
    ASSUME WriterInv, WriterInv', [Next]_vars
    PROVE  [Delivery!Next]_Delivery!vars
<1>1. CASE \E response \in Responses : Send(response)
  <2>1. PICK response \in Responses : Send(response)
    BY <1>1
  <2>2. Len(sent') = Len(sent) + 1
    BY <2>1, AppendProperties DEF Send, WriterInv, TypeOK
  <2>3. UNCHANGED Written /\ writer = "running" /\ writer' = "running"
    BY <2>1 DEF Send, Written
  <2> QED
    BY <2>2, <2>3 DEF Delivery!Next, Delivery!Send
<1>2. CASE \/ DropSenders \/ SocketGone \/ Clock \/ TakeText \/ UNCHANGED vars
  <2>1. UNCHANGED <<sent, frames, writer>>
    BY <1>2 DEF DropSenders, SocketGone, Clock, TakeText, Recv, vars, channelVars
  <2> QED
    BY <2>1 DEF Written, Delivery!vars
<1>3. CASE Tick \/ TakeOther \/ Finish
  BY <1>3, WriteDelivers DEF Delivery!Next
<1> QED
  BY <1>1, <1>2, <1>3 DEF Next, Terminated

\* The writer implements the safety part of OrderedDelivery: the browser has
\* received a prefix of what was sent, which only grows and only a broken
\* connection cuts short.
THEOREM DeliveryRefined == Spec => DeliverySafe
BY InitDelivery, DeliveryStep, WriterInvariant, PTL
DEF Spec, DeliverySafe, Delivery!Safe
=============================================================================
