--------------------------- MODULE DocStreamProofs ---------------------------
(***************************************************************************)
(* Proofs about module DocStream, for documents of every length, any       *)
(* amount of push back, any lag of tee and any client.                     *)
(***************************************************************************)
EXTENDS DocStream, SequenceTheorems, TLAPS

-----------------------------------------------------------------------------
(* In the background the stream never reads ahead of the converter.         *)

\* Before the stream is open its offsets are at the start of the document.
Unopened == phase \in {"closed", "popened", "fopened"} => file_off = 0 /\ bg_off = 0

Offsets ==
  /\ file_off \in Nat /\ bg_off \in Nat /\ pipe_pos \in Nat
  /\ bgMode \in BOOLEAN

BackgroundInv == Offsets /\ Unopened /\ NoReadAhead

LEMMA BackgroundInit == Init => BackgroundInv
<1> SUFFICES ASSUME Init PROVE BackgroundInv
    OBVIOUS
<1>1. bgMode = FALSE
      BY DEF Init
<1>2. file_off = 0 /\ bg_off = 0 /\ pipe_pos = 0
      BY DEF Init
<1>3. Offsets
      BY <1>1, <1>2 DEF Offsets
<1>4. Unopened
      BY <1>2 DEF Unopened
<1>5. NoReadAhead
      BY <1>1 DEF NoReadAhead
<1> QED BY <1>3, <1>4, <1>5 DEF BackgroundInv

\* GetChar: a byte from the file lies behind bg_off, one from the pipe moves
\* the pipe too.
LEMMA ReadByteBehindPipe == BackgroundInv /\ ReadByte => BackgroundInv'
<1> SUFFICES ASSUME BackgroundInv, ReadByte PROVE BackgroundInv'
    OBVIOUS
<1>1. /\ phase = "open" /\ phase' = phase /\ bgMode' = bgMode /\ bg_off' = bg_off
      /\ file_off' = file_off + 1
      BY DEF ReadByte, MayRead
<1>2. CASE ReadFd = "pipe" /\ pipe_pos' = pipe_pos + 1
      BY <1>1, <1>2 DEF BackgroundInv, Offsets, Unopened, NoReadAhead
<1>3. CASE ReadFd = "file" /\ pipe_pos' = pipe_pos
      BY <1>1, <1>3 DEF BackgroundInv, Offsets, Unopened, NoReadAhead, ReadFd
<1> QED BY <1>2, <1>3 DEF ReadByte

LEMMA SetOffsetBehindPipe == BackgroundInv /\ SetOffset => BackgroundInv'
<1> SUFFICES ASSUME BackgroundInv, NEW off \in 0 .. MaxLen,
                    SeekForeground(off) \/ SeekBack(off) \/ SeekRefused(off)
             PROVE  BackgroundInv'
    BY DEF SetOffset
<1> USE StreamAssumption DEF BackgroundInv, Offsets, Unopened, NoReadAhead, StreamAssumption
<1>1. off \in Nat
      OBVIOUS
<1>2. CASE SeekForeground(off)
      BY <1>1, <1>2 DEF SeekForeground, Restores
<1>3. CASE SeekBack(off)
      BY <1>1, <1>3 DEF SeekBack, Restores
<1>4. CASE SeekRefused(off)
      BY <1>4 DEF SeekRefused, Restores
<1> QED BY <1>2, <1>3, <1>4

LEMMA BackgroundStep == BackgroundInv /\ [Next]_vars => BackgroundInv'
<1> SUFFICES ASSUME BackgroundInv, [Next]_vars PROVE BackgroundInv'
    OBVIOUS
<1>1. CASE Producer
  <2>1. UNCHANGED <<file_off, bg_off, pipe_pos, bgMode, phase>>
        BY <1>1 DEF Producer, TeeOpens, TeeToPipe, TeeToFile, offsets, handles
  <2> QED BY <2>1 DEF BackgroundInv, Offsets, Unopened, NoReadAhead
<1>2. CASE OpenForeground \/ Popen \/ FopenTmp
  <2>1. UNCHANGED <<file_off, bg_off, pipe_pos>> /\ bgMode' \in BOOLEAN
        BY <1>2 DEF OpenForeground, Popen, FopenTmp, offsets, BackgroundInv, Offsets
  <2>2. file_off = 0 /\ bg_off = 0
        BY <1>2 DEF OpenForeground, Popen, FopenTmp, BackgroundInv, Unopened
  <2> QED BY <2>1, <2>2 DEF BackgroundInv, Offsets, Unopened, NoReadAhead
<1>3. CASE SyncFirst
  <2>1. file_off = 0 /\ bg_off = 0 /\ bg_off' = 0
        BY <1>3 DEF SyncFirst, BackgroundInv, Unopened
  <2>2. CASE phase' = "open" /\ file_off' = 1 /\ pipe_pos' = 1 /\ bgMode' = bgMode
        BY <2>1, <2>2 DEF BackgroundInv, Offsets, Unopened, NoReadAhead
  <2>3. CASE phase' = "exited" /\ bgMode' = FALSE /\ UNCHANGED <<file_off, pipe_pos>>
    <3>1. Offsets' /\ Unopened'
          BY <2>1, <2>3 DEF BackgroundInv, Offsets, Unopened
    <3>2. NoReadAhead'
          BY <2>3 DEF NoReadAhead
    <3> QED BY <3>1, <3>2 DEF BackgroundInv
  <2> QED BY <1>3, <2>2, <2>3 DEF SyncFirst
<1>4. CASE ReadEof
  <2>1. UNCHANGED <<phase, file_off, bg_off, pipe_pos>> /\ bgMode' = FALSE
        BY <1>4 DEF ReadEof, offsets
  <2>2. Offsets' /\ Unopened'
        BY <2>1 DEF BackgroundInv, Offsets, Unopened
  <2>3. NoReadAhead'
        BY <2>1 DEF NoReadAhead
  <2> QED BY <2>2, <2>3 DEF BackgroundInv
<1>5. CASE ReadTerm \/ ReadPushed \/ UnGet \/ CloseFile
  <2>1. UNCHANGED <<file_off, bg_off, pipe_pos, bgMode>>
        BY <1>5 DEF ReadTerm, ReadPushed, UnGet, CloseFile, offsets, handles
  <2>2. phase' = phase \/ phase' = "done"
        BY <1>5 DEF ReadTerm, ReadPushed, UnGet, CloseFile, offsets, handles
  <2> QED BY <2>1, <2>2 DEF BackgroundInv, Offsets, Unopened, NoReadAhead
<1>6. CASE ReadByte
      BY <1>6, ReadByteBehindPipe
<1>7. CASE SetOffset
      BY <1>7, SetOffsetBehindPipe
<1>8. CASE UNCHANGED vars
      BY <1>8 DEF vars, handles, offsets, BackgroundInv, Offsets, Unopened, NoReadAhead
<1> QED BY <1>1, <1>2, <1>3, <1>4, <1>5, <1>6, <1>7, <1>8 DEF Next, GetChar, Opening

\* While the converter runs, the stream's position never passes what has been
\* taken from the pipe, whatever the parser pushes back and wherever it seeks
\* (DocStream::GetChar, SetOffset).
THEOREM NeverReadsAhead == Spec => []NoReadAhead
<1>1. BackgroundInv => NoReadAhead
      BY DEF BackgroundInv
<1> QED BY <1>1, BackgroundInit, BackgroundStep, PTL DEF Spec

-----------------------------------------------------------------------------
(* In the foreground the stream is the cursor the parser expects.           *)

LEMMA PopProperties ==
  ASSUME NEW s \in Seq(Nat), s # <<>>
  PROVE  /\ Len(s) > 0 /\ Top(s) = s[Len(s)]
         /\ Pop(s) \in Seq(Nat) /\ Len(Pop(s)) = Len(s) - 1
         /\ \A k \in 1 .. Len(s) - 1 : Pop(s)[k] = s[k]
<1>1. Len(s) \in Nat /\ Len(s) > 0 /\ \A k \in 1 .. Len(s) - 1 : s[k] \in Nat
      BY EmptySeq, LenProperties
<1>2. Top(s) = s[Len(s)]
      BY DEF Top
<1> DEFINE n == Len(s) - 1
<1>3. n \in Int /\ 1 \in Int /\ \A k \in 1 .. n : s[k] \in Nat
      BY <1>1
<1>4. /\ SubSeq(s, 1, n) \in Seq(Nat)
      /\ Len(SubSeq(s, 1, n)) = IF 1 <= n THEN n - 1 + 1 ELSE 0
      /\ \A k \in 1 .. n - 1 + 1 : SubSeq(s, 1, n)[k] = s[1 + k - 1]
  <2> HIDE DEF n
  <2> QED BY <1>3, SubSeqProperties
<1>5. Len(SubSeq(s, 1, n)) = n /\ \A k \in 1 .. n : SubSeq(s, 1, n)[k] = s[k]
  <2>1. n \in Nat /\ n - 1 + 1 = n
        BY <1>1
  <2>2. \A k \in 1 .. n : 1 + k - 1 = k
        OBVIOUS
  <2> HIDE DEF n
  <2> QED BY <1>4, <2>1, <2>2
<1> QED BY <1>1, <1>2, <1>4, <1>5 DEF Pop

LEMMA PushProperties ==
  ASSUME NEW s \in Seq(Nat), NEW b \in Nat
  PROVE  /\ Append(s, b) \in Seq(Nat) /\ Len(Append(s, b)) = Len(s) + 1
         /\ \A k \in 1 .. Len(s) : Append(s, b)[k] = s[k]
         /\ Append(s, b)[Len(s) + 1] = b
OBVIOUS

\* The stream stands in the one file, which holds the whole document once it
\* is open; the pushed back bytes are the last ones read, in order, and what
\* the parser holds are the bytes before them.
FileState ==
  /\ bgMode = FALSE /\ fd = "file" /\ pg_based = FALSE
  /\ total \in 0 .. MaxLen /\ file_off \in Nat /\ file_pos = file_off
  /\ file_off <= total
  /\ phase \in {"closed", "open", "done", "exited"}
  /\ phase = "open" => produced = total /\ saved = total

Pushed ==
  /\ ch_buf \in Seq(Nat) /\ Len(ch_buf) <= file_off
  /\ \A k \in 1 .. Len(ch_buf) : ch_buf[k] = file_off - k + 1

Held ==
  /\ hist \in Seq(Nat) /\ Len(hist) <= CurOffset
  /\ \A k \in 1 .. Len(hist) : hist[k] = CurOffset - Len(hist) + k

ForegroundInv == FileState /\ Pushed /\ Held

\* The parser's steps on the bytes it holds and those it pushed back.

LEMMA PushedByteTaken ==
  ASSUME file_off \in Nat, Pushed, Held, ReadPushed
  PROVE  /\ CurOffset \in Nat /\ CurOffset < file_off
         /\ got' = CurOffset + 1 /\ CurOffset' = CurOffset + 1
         /\ Pushed' /\ Held'
<1>0. ch_buf \in Seq(Nat)
      BY DEF Pushed
<1>1. /\ ch_buf # <<>> /\ ch_buf' = Pop(ch_buf) /\ got' = Top(ch_buf)
      /\ hist' = Append(hist, Top(ch_buf)) /\ file_off' = file_off
      BY DEF ReadPushed, Deliver
<1>2. /\ Len(ch_buf) \in Nat /\ Len(ch_buf) > 0
      /\ Len(ch_buf') = Len(ch_buf) - 1 /\ ch_buf' \in Seq(Nat)
      /\ \A k \in 1 .. Len(ch_buf) - 1 : ch_buf'[k] = ch_buf[k]
      BY <1>0, <1>1, PopProperties, SMTT(30)
<1>3. got' = file_off - Len(ch_buf) + 1
  <2>1. got' = ch_buf[Len(ch_buf)]
        BY <1>1 DEF Top
  <2> QED BY <1>2, <2>1 DEF Pushed
<1> USE DEF Pushed, Held, CurOffset
<1>4. got' \in Nat
      BY <1>2, <1>3
<1>5. /\ hist' \in Seq(Nat) /\ Len(hist') = Len(hist) + 1
      /\ \A k \in 1 .. Len(hist) : hist'[k] = hist[k]
      /\ hist'[Len(hist) + 1] = got'
      BY <1>1, <1>4, PushProperties
<1>6. CurOffset' = CurOffset + 1 /\ got' = CurOffset + 1
      BY <1>1, <1>2, <1>3
<1>7. Held'
  <2>1. \A k \in 1 .. Len(hist) + 1 : hist'[k] = CurOffset - Len(hist) + k
    <3>1. Len(hist) \in Nat /\ CurOffset \in Nat
          BY <1>2, LenProperties
    <3>2. \A k \in 1 .. Len(hist) + 1 : k \in 1 .. Len(hist) \/ k = Len(hist) + 1
          BY <3>1
    <3>3. CurOffset - Len(hist) + (Len(hist) + 1) = CurOffset + 1
          BY <3>1
    <3> QED BY <1>5, <1>6, <3>2, <3>3
  <2>2. Len(hist) \in Nat /\ Len(hist') = Len(hist) + 1 /\ Len(hist) + 1 <= CurOffset + 1
        BY <1>5, LenProperties
  <2>3. CurOffset' - Len(hist') = CurOffset - Len(hist)
        BY <1>2, <1>6, <2>2
  <2> HIDE DEF CurOffset
  <2> QED BY <1>5, <1>6, <2>1, <2>2, <2>3
<1>8. Pushed'
      BY <1>1, <1>2, SMTT(30)
<1>9. CurOffset \in Nat /\ CurOffset < file_off
      BY <1>2
<1> QED BY <1>6, <1>7, <1>8, <1>9

\* A byte from the descriptor, if it is the next one of the document.
LEMMA ByteTaken ==
  ASSUME file_off \in Nat, Pushed, Held, ReadByte, got' = file_off + 1
  PROVE  CurOffset = file_off /\ CurOffset' = file_off + 1 /\ Pushed' /\ Held'
<1> USE DEF Pushed, Held, CurOffset
<1>2. /\ ch_buf = <<>> /\ ch_buf' = <<>> /\ file_off' = file_off + 1
      /\ hist' = Append(hist, got')
      BY DEF ReadByte, Deliver
<1>3. CurOffset = file_off /\ CurOffset' = file_off + 1 /\ got' \in Nat
      BY <1>2
<1>4. /\ hist' \in Seq(Nat) /\ Len(hist') = Len(hist) + 1
      /\ \A k \in 1 .. Len(hist) : hist'[k] = hist[k]
      /\ hist'[Len(hist) + 1] = got'
      BY <1>2, <1>3, PushProperties
<1>5. Held'
  <2>1. Len(hist) \in Nat /\ Len(hist) <= file_off
        BY <1>3, LenProperties
  <2>2. \A k \in 1 .. Len(hist) + 1 : hist'[k] = file_off - Len(hist) + k
    <3>1. \A k \in 1 .. Len(hist) : hist'[k] = file_off - Len(hist) + k
          BY <1>3, <1>4
    <3>2. hist'[Len(hist) + 1] = file_off - Len(hist) + (Len(hist) + 1)
          BY <1>4, <2>1
    <3>3. \A k \in 1 .. Len(hist) + 1 : k \in 1 .. Len(hist) \/ k = Len(hist) + 1
          BY <2>1
    <3> QED BY <3>1, <3>2, <3>3
  <2>3. /\ Len(hist') = Len(hist) + 1
        /\ CurOffset' - Len(hist') = file_off - Len(hist) /\ Len(hist') <= CurOffset'
        BY <1>3, <1>4, <2>1
  <2> HIDE DEF CurOffset
  <2> QED BY <1>4, <2>2, <2>3
<1>6. Pushed'
      BY <1>2
<1> QED BY <1>3, <1>5, <1>6

LEMMA ByteGivenBack ==
  ASSUME file_off \in Nat, Pushed, Held, UnGet
  PROVE  CurOffset > 0 /\ CurOffset' = CurOffset - 1 /\ Pushed' /\ Held'
<1>0. hist \in Seq(Nat)
      BY DEF Held
<1>1. /\ hist # <<>> /\ hist' = Pop(hist) /\ ch_buf' = Append(ch_buf, Top(hist))
      /\ file_off' = file_off
      BY DEF UnGet
<1>2. /\ Len(hist) \in Nat /\ Len(hist) > 0
      /\ Len(hist') = Len(hist) - 1 /\ hist' \in Seq(Nat)
      /\ \A k \in 1 .. Len(hist) - 1 : hist'[k] = hist[k]
      /\ Top(hist) = hist[Len(hist)]
      BY <1>0, <1>1, PopProperties, SMTT(30)
<1> USE DEF Pushed, Held, CurOffset
<1>3. Top(hist) = file_off - Len(ch_buf) /\ Top(hist) \in Nat /\ CurOffset > 0
      BY <1>2
<1>4. /\ ch_buf' \in Seq(Nat) /\ Len(ch_buf') = Len(ch_buf) + 1
      /\ \A k \in 1 .. Len(ch_buf) : ch_buf'[k] = ch_buf[k]
      /\ ch_buf'[Len(ch_buf) + 1] = Top(hist)
      BY <1>1, <1>3, PushProperties
<1>5. Pushed'
  <2>1. \A k \in 1 .. Len(ch_buf) + 1 : ch_buf'[k] = file_off - k + 1
    <3>1. Len(ch_buf) \in Nat /\ Len(hist) \in Nat
          BY EmptySeq, LenProperties
    <3>2. \A k \in 1 .. Len(ch_buf) + 1 : k \in 1 .. Len(ch_buf) \/ k = Len(ch_buf) + 1
          BY <3>1
    <3>3. file_off - (Len(ch_buf) + 1) + 1 = file_off - Len(ch_buf)
          BY <3>1
    <3> QED BY <1>3, <1>4, <3>2, <3>3
  <2>2. Len(ch_buf) + 1 <= file_off
        BY <1>3
  <2> QED BY <1>1, <1>4, <2>1, <2>2
<1>6. Held' /\ CurOffset' = CurOffset - 1
      BY <1>1, <1>2, <1>4
<1> QED BY <1>3, <1>5, <1>6

LEMMA ForegroundInit ==
  ASSUME PgBased = {FALSE}, Init
  PROVE  ForegroundInv
<1> USE StreamAssumption DEF StreamAssumption
<1>1. FileState
      BY DEF Init, FileState
<1>2. Pushed /\ Held
      BY DEF Init, Pushed, Held, CurOffset
<1> QED BY <1>1, <1>2 DEF ForegroundInv

\* Steps that move the position, one by one.

LEMMA PushedByteIsNext ==
  ASSUME ForegroundInv, ReadPushed
  PROVE  /\ got' = CurOffset + 1 /\ CurOffset' = CurOffset + 1 /\ CurOffset < total
         /\ ForegroundInv'
<1>1. /\ CurOffset < file_off /\ CurOffset \in Nat /\ got' = CurOffset + 1
      /\ CurOffset' = CurOffset + 1 /\ Pushed' /\ Held'
      BY PushedByteTaken DEF ForegroundInv, FileState
<1>2. FileState'
      BY DEF ForegroundInv, FileState, ReadPushed, external, given, handles
<1> QED BY <1>1, <1>2 DEF ForegroundInv, FileState

LEMMA FileByteIsNext ==
  ASSUME ForegroundInv, ReadByte
  PROVE  /\ got' = CurOffset + 1 /\ CurOffset' = CurOffset + 1 /\ CurOffset < total
         /\ ForegroundInv'
<1> USE DEF ForegroundInv, FileState
<1>1. ReadFd = "file"
      BY DEF ReadFd
<1>2. /\ phase = "open" /\ fd' = "file"
      /\ file_pos < saved /\ file_pos' = file_pos + 1 /\ file_off' = file_off + 1
      /\ got' = file_pos + 1
      /\ UNCHANGED <<total, pg_based, produced, saved, phase, bgMode>>
      BY <1>1 DEF ReadByte, Deliver, MayRead, external, given
<1>3. CurOffset = file_off /\ CurOffset' = file_off + 1 /\ Pushed' /\ Held'
      BY <1>2, ByteTaken
<1>4. FileState' /\ file_off < total
      BY <1>2
<1> QED BY <1>2, <1>3, <1>4

LEMMA UnGetGivesBackLast ==
  ASSUME ForegroundInv, UnGet
  PROVE  CurOffset' = CurOffset - 1 /\ CurOffset > 0 /\ ForegroundInv'
<1>1. CurOffset' = CurOffset - 1 /\ CurOffset > 0 /\ Pushed' /\ Held'
      BY ByteGivenBack DEF ForegroundInv, FileState
<1>2. FileState'
      BY DEF ForegroundInv, FileState, UnGet, external, given, handles
<1> QED BY <1>1, <1>2 DEF ForegroundInv

\* Seeking sets the position.
LEMMA SeekMovesThere ==
  ASSUME Background = {FALSE}, PgBased = {FALSE}, ForegroundInv, SetOffset
  PROVE  /\ CurOffset' \in 0 .. total /\ total' = total /\ got' = 0 /\ ended' = FALSE
         /\ ForegroundInv'
<1>1. PICK off \in 0 .. MaxLen : SeekForeground(off)
      BY DEF SetOffset, SeekBack, SeekRefused, ForegroundInv, FileState
<1>2. off \in 0 .. total
      BY <1>1 DEF SeekForeground, Restores, Restorable
<1>3. /\ phase' = "open" /\ phase \in {"open", "unset"} /\ hist' = <<>> /\ ch_buf' = <<>>
      /\ file_off' = off /\ file_pos' = off /\ got' = 0 /\ ended' = FALSE
      /\ UNCHANGED <<total, pg_based, produced, saved, bgMode, fd>>
      BY <1>1 DEF SeekForeground, Restores, external, given, ForegroundInv, FileState
<1>4. total \in Nat /\ off \in Nat /\ off <= total
      BY <1>2, StreamAssumption DEF ForegroundInv, FileState, StreamAssumption
<1>5. CurOffset' = off
      BY <1>3, <1>4 DEF CurOffset
<1>6. FileState'
      BY <1>3, <1>4 DEF ForegroundInv, FileState
<1>7. Pushed' /\ Held'
      BY <1>3, <1>4, <1>5 DEF Pushed, Held
<1> QED BY <1>2, <1>3, <1>5, <1>6, <1>7 DEF ForegroundInv

\* The other steps leave the position alone.
LEMMA OtherStepsStay ==
  ASSUME Background = {FALSE}, PgBased = {FALSE}, ForegroundInv,
         Producer \/ Opening \/ ReadTerm \/ CloseFile
  PROVE  /\ UNCHANGED <<total, CurOffset, got, ended>>
         /\ ForegroundInv'
<1>1. /\ UNCHANGED <<client, offsets, bgMode, fd, file_pos, total, pg_based>>
      /\ phase' \in {"closed", "open", "done", "exited"}
      /\ phase' = "open" => produced' = total /\ saved' = total
  <2> USE DEF ForegroundInv, FileState
  <2>1. CASE Producer
        BY <2>1 DEF Producer, TeeOpens, TeeToPipe, TeeToFile, handles, given
  <2>2. CASE OpenForeground
        BY <2>2 DEF OpenForeground, given
  <2>3. CASE CloseFile
        BY <2>3 DEF CloseFile, external, given
  <2>4. ~Popen /\ ~FopenTmp /\ ~SyncFirst /\ ~ReadTerm
        BY DEF Popen, FopenTmp, SyncFirst, ReadTerm
  <2> QED BY <2>1, <2>2, <2>3, <2>4 DEF Opening
<1>2. CurOffset' = CurOffset
      BY <1>1 DEF CurOffset, offsets
<1>3. FileState'
      BY <1>1 DEF ForegroundInv, FileState, offsets
<1>4. Pushed' /\ Held'
      BY <1>1, <1>2 DEF ForegroundInv, Pushed, Held, client, offsets
<1> QED BY <1>1, <1>2, <1>3, <1>4 DEF ForegroundInv, client

\* The end is reported at the end.
LEMMA EofAtTheEnd ==
  ASSUME ForegroundInv, ReadEof
  PROVE  /\ CurOffset = total /\ CurOffset' = CurOffset /\ total' = total
         /\ got' = 0 /\ ended' = TRUE /\ ForegroundInv'
<1>1. /\ ch_buf = <<>> /\ phase = "open" /\ file_pos >= saved /\ ReadFd = "file"
      BY DEF ReadEof, MayRead, ReadFd, ForegroundInv, FileState
<1>2. /\ UNCHANGED <<hist, total, pg_based, produced, saved, file_off, ch_buf, phase, file_pos>>
      /\ fd' = "file" /\ bgMode' = FALSE /\ got' = 0 /\ ended' = TRUE
      BY <1>1 DEF ReadEof, external, given, offsets
<1>3. total \in Nat
      BY StreamAssumption DEF StreamAssumption, ForegroundInv, FileState
<1>4. CurOffset = total
      BY <1>1, <1>3 DEF ForegroundInv, FileState, CurOffset
<1>5. CurOffset' = CurOffset
      BY <1>2 DEF CurOffset
<1>6. ForegroundInv'
      BY <1>2, <1>5 DEF ForegroundInv, FileState, Pushed, Held
<1> QED BY <1>2, <1>4, <1>5, <1>6

LEMMA ForegroundStep ==
  ASSUME Background = {FALSE}, PgBased = {FALSE}, ForegroundInv, [Next]_vars
  PROVE  ForegroundInv' /\ [Document!Next]_(Document!cursorVars)
<1>0. CurOffset \in Nat /\ total \in Nat
      BY LenProperties, StreamAssumption
      DEF StreamAssumption, ForegroundInv, FileState, Pushed, CurOffset
<1> USE DEF Document!Next, Document!cursorVars
<1>1. CASE ReadPushed
  <2>1. total' = total /\ ended' = FALSE
        BY <1>1 DEF ReadPushed, Deliver, external, given
  <2> QED BY <1>1, <2>1, PushedByteIsNext DEF Document!Read
<1>2. CASE ReadByte
  <2>1. total' = total /\ ended' = FALSE
        BY <1>2 DEF ReadByte, Deliver, external, given
  <2> QED BY <1>2, <2>1, FileByteIsNext DEF Document!Read
<1>3. CASE UnGet
  <2>1. total' = total /\ ended' = FALSE /\ got' = 0
        BY <1>3 DEF UnGet, external, given
  <2> QED BY <1>3, <2>1, UnGetGivesBackLast DEF Document!Unread
<1>4. CASE SetOffset
      BY <1>4, SeekMovesThere DEF Document!Seek
<1>5. CASE ReadEof
      BY <1>5, EofAtTheEnd DEF Document!End
<1>6. CASE Producer \/ Opening \/ ReadTerm \/ CloseFile
      BY <1>6, OtherStepsStay
<1>7. CASE UNCHANGED vars
  <2>1. UNCHANGED <<client, external, offsets, handles>>
        BY <1>7 DEF vars
  <2>2. CurOffset' = CurOffset
        BY <2>1 DEF CurOffset, offsets
  <2>3. ForegroundInv'
        BY <2>1, <2>2
        DEF ForegroundInv, FileState, Pushed, Held, client, external, given, offsets, handles
  <2> QED BY <2>1, <2>2, <2>3 DEF client, external, given
<1> QED BY <1>1, <1>2, <1>3, <1>4, <1>5, <1>6, <1>7 DEF Next, GetChar

LEMMA CursorInit ==
  ASSUME Init PROVE Document!Init
<1>1. file_off = 0 /\ Len(ch_buf) = 0
      BY EmptySeq DEF Init
<1>2. CurOffset = 0
      BY <1>1 DEF CurOffset
<1> QED BY <1>2 DEF Init, Document!Init

\* Opened in the foreground and not page based, DocStream is the cursor the
\* parser expects: bytes come in document order, pushing back and seeking
\* move the position exactly, and the end is reported at the end only.
THEOREM ForegroundIsCursor ==
  ASSUME Background = {FALSE}, PgBased = {FALSE}
  PROVE  Spec => IsCursor
<1>1. Init => ForegroundInv /\ Document!Init
      BY ForegroundInit, CursorInit
<1>2. ForegroundInv /\ [Next]_vars => ForegroundInv' /\ [Document!Next]_(Document!cursorVars)
      BY ForegroundStep
<1> QED BY <1>1, <1>2, PTL DEF Spec, IsCursor, Document!Spec

-----------------------------------------------------------------------------
(* In every mode the stream can only skip bytes.  The descriptor that is    *)
(* read stands at file_off or behind it in the document, and so do the      *)
(* bytes that were pushed back and those that may be.                       *)

DescriptorAhead ==
  /\ file_pos \in Nat /\ produced \in Nat /\ total \in Nat
  /\ phase \in {"closed", "popened", "fopened"} => hist = <<>> /\ got = 0
  /\ phase \in {"popened", "fopened"} => bgMode
  /\ phase = "fopened" => fd = "pipe"
  /\ fd = "file" => file_off <= file_pos
  /\ phase \in {"open", "unset"} /\ fd = "pipe" /\ ~bgMode =>
       pipe_pos = produced /\ produced = total

PushedAhead == ch_buf \in Seq(Nat) /\ \A k \in 1 .. Len(ch_buf) : ch_buf[k] >= file_off - k + 1

HeldAhead ==
  hist \in Seq(Nat) /\ \A k \in 1 .. Len(hist) : hist[k] >= CurOffset - Len(hist) + k

AheadInv == DescriptorAhead /\ PushedAhead /\ HeldAhead /\ NeverBehind

LEMMA AheadInit == Init => AheadInv
BY StreamAssumption
DEF StreamAssumption, Init, AheadInv, DescriptorAhead, PushedAhead, HeldAhead, NeverBehind, CurOffset

\* A byte that is not before the next offset is handed out and kept.
LEMMA DeliverAhead ==
  ASSUME NEW b \in Nat, NEW off \in Int, hist \in Seq(Nat), hist' = Append(hist, b),
         \A k \in 1 .. Len(hist) : hist[k] >= off - Len(hist) + k, b >= off + 1
  PROVE  /\ hist' \in Seq(Nat)
         /\ \A k \in 1 .. Len(hist') : hist'[k] >= (off + 1) - Len(hist') + k
<1>1. /\ hist' \in Seq(Nat) /\ Len(hist') = Len(hist) + 1 /\ Len(hist) \in Nat
      /\ \A k \in 1 .. Len(hist) : hist'[k] = hist[k]
      /\ hist'[Len(hist) + 1] = b
      BY PushProperties, LenProperties
<1>2. ASSUME NEW k \in 1 .. Len(hist') PROVE hist'[k] >= (off + 1) - Len(hist') + k
  <2>1. k \in 1 .. Len(hist) \/ k = Len(hist) + 1
        BY <1>1
  <2>2. CASE k \in 1 .. Len(hist)
    <3>1. hist'[k] >= off - Len(hist) + k
          BY <1>1, <2>2
    <3>2. (off + 1) - Len(hist') + k = off - Len(hist) + k
          BY <1>1
    <3> QED BY <3>1, <3>2
  <2>3. CASE k = Len(hist) + 1
    <3>1. hist'[k] = b /\ (off + 1) - Len(hist') + k = off + 1
          BY <1>1, <2>3
    <3> QED BY <3>1
  <2> QED BY <2>1, <2>2, <2>3
<1> QED BY <1>1, <1>2

LEMMA PushedByteAhead == ASSUME BackgroundInv, AheadInv, ReadPushed PROVE AheadInv'
<1>1. /\ ch_buf \in Seq(Nat) /\ file_off \in Nat /\ Len(ch_buf) \in Nat /\ CurOffset \in Int
      /\ \A k \in 1 .. Len(ch_buf) : ch_buf[k] >= file_off - k + 1
      BY LenProperties DEF AheadInv, PushedAhead, BackgroundInv, Offsets, CurOffset
<1>2. /\ ch_buf # <<>> /\ ch_buf' = Pop(ch_buf) /\ got' = Top(ch_buf)
      /\ hist' = Append(hist, Top(ch_buf))
      /\ UNCHANGED <<total, produced, file_off, file_pos, pipe_pos, phase, bgMode, fd>>
      BY DEF ReadPushed, Deliver, external, given, handles
<1>3. /\ Len(ch_buf) > 0 /\ Len(ch_buf') = Len(ch_buf) - 1 /\ ch_buf' \in Seq(Nat)
      /\ \A k \in 1 .. Len(ch_buf) - 1 : ch_buf'[k] = ch_buf[k]
      /\ got' = ch_buf[Len(ch_buf)]
      BY <1>1, <1>2, PopProperties
<1>4. CurOffset' = CurOffset + 1 /\ CurOffset = file_off - Len(ch_buf)
      BY <1>1, <1>2, <1>3 DEF CurOffset
<1>5. got' >= CurOffset + 1 /\ got' \in Nat
      BY <1>1, <1>3, <1>4
<1>6. PushedAhead'
  <2>1. ASSUME NEW k \in 1 .. Len(ch_buf') PROVE ch_buf'[k] >= file_off' - k + 1
        BY <1>1, <1>2, <1>3
  <2> QED BY <1>3, <2>1 DEF PushedAhead
<1>7. /\ hist' \in Seq(Nat)
      /\ \A k \in 1 .. Len(hist') : hist'[k] >= (CurOffset + 1) - Len(hist') + k
  <2>1. hist' = Append(hist, got') /\ hist \in Seq(Nat)
        BY <1>2 DEF AheadInv, HeldAhead
  <2>2. \A k \in 1 .. Len(hist) : hist[k] >= CurOffset - Len(hist) + k
        BY DEF AheadInv, HeldAhead
  <2> QED BY <1>1, <1>5, <2>1, <2>2, DeliverAhead
<1>8. HeldAhead' /\ NeverBehind'
      BY <1>4, <1>5, <1>7 DEF HeldAhead, NeverBehind
<1>9. DescriptorAhead'
  <2>1. phase = "open"
        BY DEF ReadPushed, MayRead
  <2> QED BY <1>2, <2>1 DEF AheadInv, DescriptorAhead
<1> QED BY <1>6, <1>8, <1>9 DEF AheadInv

LEMMA FileByteAhead == ASSUME BackgroundInv, AheadInv, ReadByte PROVE AheadInv'
<1>1. /\ file_off \in Nat /\ file_pos \in Nat /\ pipe_pos \in Nat /\ bgMode \in BOOLEAN
      /\ bgMode => file_off <= pipe_pos
      /\ fd = "file" => file_off <= file_pos
      BY DEF AheadInv, DescriptorAhead, BackgroundInv, Offsets, NoReadAhead
<1>2. /\ phase = "open" /\ ch_buf = <<>> /\ ch_buf' = <<>> /\ fd' = ReadFd
      /\ file_off' = file_off + 1 /\ hist' = Append(hist, got')
      /\ UNCHANGED <<total, produced, phase, bgMode>>
      /\ \/ /\ ReadFd = "pipe" /\ pipe_pos < produced /\ got' = pipe_pos + 1
            /\ pipe_pos' = pipe_pos + 1 /\ file_pos' = file_pos
         \/ /\ ReadFd = "file" /\ got' = file_pos + 1
            /\ file_pos' = file_pos + 1 /\ pipe_pos' = pipe_pos
      BY DEF ReadByte, Deliver, MayRead, external, given
<1>3. CurOffset = file_off /\ CurOffset' = file_off + 1
      BY <1>1, <1>2 DEF CurOffset
\* The pipe is not read once its end was seen.
<1>4. ReadFd = "pipe" => bgMode
  <2>1. ReadFd = "pipe" /\ ~bgMode => fd = "pipe"
        BY DEF ReadFd
  <2>2. phase = "open" /\ fd = "pipe" /\ ~bgMode => pipe_pos = produced
        BY DEF AheadInv, DescriptorAhead
  <2>3. ReadFd = "pipe" => pipe_pos < produced
        BY <1>2
  <2> QED BY <1>1, <1>2, <2>1, <2>2, <2>3
<1>5. ReadFd = "file" => fd = "file"
      BY DEF ReadFd
<1>6. got' \in Nat /\ got' >= file_off + 1
      BY <1>1, <1>2, <1>4, <1>5
<1>7. /\ hist' \in Seq(Nat)
      /\ \A k \in 1 .. Len(hist') : hist'[k] >= (file_off + 1) - Len(hist') + k
  <2>1. /\ hist \in Seq(Nat)
        /\ \A k \in 1 .. Len(hist) : hist[k] >= file_off - Len(hist) + k
        BY <1>3 DEF AheadInv, HeldAhead
  <2>2. file_off \in Int /\ hist' = Append(hist, got')
        BY <1>1, <1>2
  <2> QED BY <1>6, <2>1, <2>2, DeliverAhead
<1>8. HeldAhead' /\ NeverBehind'
      BY <1>3, <1>6, <1>7 DEF HeldAhead, NeverBehind
<1>9. PushedAhead'
      BY <1>2 DEF PushedAhead
<1>10. DescriptorAhead'
  <2>1. fd' = "file" => file_off' <= file_pos'
        BY <1>1, <1>2, <1>5
  <2>2. fd' = "pipe" => bgMode'
        BY <1>2, <1>4
  <2>3. file_pos' \in Nat /\ produced' \in Nat /\ total' \in Nat
        BY <1>1, <1>2 DEF AheadInv, DescriptorAhead
  <2> QED BY <1>2, <2>1, <2>2, <2>3 DEF DescriptorAhead
<1> QED BY <1>8, <1>9, <1>10 DEF AheadInv

LEMMA UnGetAhead == ASSUME BackgroundInv, AheadInv, UnGet PROVE AheadInv'
<1>1. /\ hist \in Seq(Nat) /\ ch_buf \in Seq(Nat) /\ file_off \in Nat
      /\ Len(ch_buf) \in Nat /\ Len(hist) \in Nat /\ CurOffset \in Int
      /\ CurOffset = file_off - Len(ch_buf)
      /\ \A k \in 1 .. Len(hist) : hist[k] >= CurOffset - Len(hist) + k
      /\ \A k \in 1 .. Len(ch_buf) : ch_buf[k] >= file_off - k + 1
      /\ \A k \in 1 .. Len(hist) : hist[k] \in Nat
      BY LenProperties, ElementOfSeq
      DEF AheadInv, PushedAhead, HeldAhead, BackgroundInv, Offsets, CurOffset
<1>2. /\ hist # <<>> /\ hist' = Pop(hist) /\ ch_buf' = Append(ch_buf, Top(hist)) /\ got' = 0
      /\ UNCHANGED <<total, produced, file_off, file_pos, pipe_pos, phase, bgMode, fd>>
      BY DEF UnGet, external, given, handles
<1>3. /\ Len(hist) > 0 /\ Len(hist') = Len(hist) - 1 /\ hist' \in Seq(Nat)
      /\ \A k \in 1 .. Len(hist) - 1 : hist'[k] = hist[k]
      /\ Top(hist) = hist[Len(hist)]
      BY <1>1, <1>2, PopProperties
<1>4. Top(hist) \in Nat /\ Top(hist) >= CurOffset
  <2>1. Len(hist) \in 1 .. Len(hist) /\ CurOffset - Len(hist) + Len(hist) = CurOffset
        BY <1>1, <1>3
  <2> QED BY <1>1, <1>3, <2>1
<1>5. /\ ch_buf' \in Seq(Nat) /\ Len(ch_buf') = Len(ch_buf) + 1
      /\ \A k \in 1 .. Len(ch_buf) : ch_buf'[k] = ch_buf[k]
      /\ ch_buf'[Len(ch_buf) + 1] = Top(hist)
      BY <1>1, <1>2, <1>4, PushProperties
<1>6. CurOffset' = CurOffset - 1
      BY <1>1, <1>2, <1>5 DEF CurOffset
<1>7. PushedAhead'
  <2>1. ASSUME NEW k \in 1 .. Len(ch_buf') PROVE ch_buf'[k] >= file_off' - k + 1
    <3>1. k \in 1 .. Len(ch_buf) \/ k = Len(ch_buf) + 1
          BY <1>1, <1>5
    <3>2. CASE k \in 1 .. Len(ch_buf)
          BY <1>1, <1>2, <1>5, <3>2
    <3>3. CASE k = Len(ch_buf) + 1
      <4>1. file_off - k + 1 = CurOffset
            BY <1>1, <3>3
      <4> QED BY <1>2, <1>4, <1>5, <3>3, <4>1
    <3> QED BY <3>1, <3>2, <3>3
  <2> QED BY <1>5, <2>1 DEF PushedAhead
<1>8. HeldAhead'
  <2>1. ASSUME NEW k \in 1 .. Len(hist') PROVE hist'[k] >= CurOffset' - Len(hist') + k
    <3>1. k \in 1 .. Len(hist) /\ hist'[k] = hist[k]
          BY <1>1, <1>3, SMTT(30)
    <3>2. CurOffset' - Len(hist') + k = CurOffset - Len(hist) + k
          BY <1>1, <1>3, <1>6
    <3> QED BY <1>1, <3>1, <3>2
  <2> QED BY <1>3, <2>1 DEF HeldAhead
<1>9. DescriptorAhead' /\ NeverBehind'
      BY <1>2 DEF AheadInv, DescriptorAhead, NeverBehind
<1> QED BY <1>7, <1>8, <1>9 DEF AheadInv

LEMMA SeekAhead == ASSUME BackgroundInv, AheadInv, SetOffset PROVE AheadInv'
<1>1. PICK off \in 0 .. MaxLen : SeekForeground(off) \/ SeekBack(off) \/ SeekRefused(off)
      BY DEF SetOffset
<1>2. off \in Nat
      BY StreamAssumption DEF StreamAssumption
<1>3. /\ phase \in {"open", "unset"} /\ phase' = "open" /\ hist' = <<>> /\ got' = 0
      /\ UNCHANGED <<total, produced, pipe_pos, bgMode>>
      BY <1>1 DEF SeekForeground, SeekBack, SeekRefused, Restores, external, given
<1>4. HeldAhead' /\ NeverBehind'
      BY <1>3 DEF HeldAhead, NeverBehind
<1>5. DescriptorAhead /\ PushedAhead
      BY DEF AheadInv
<1>6. CASE SeekRefused(off)
  <2>1. UNCHANGED <<fd, file_pos, file_off, ch_buf>>
        BY <1>6 DEF SeekRefused
  <2> QED BY <1>3, <1>4, <1>5, <2>1 DEF AheadInv, DescriptorAhead, PushedAhead
<1>7. CASE SeekForeground(off) \/ SeekBack(off)
  <2>1. /\ ch_buf' = <<>> /\ file_off' = off
        /\ \/ fd' = "file" /\ file_pos' = off
           \/ fd' = fd /\ fd # "file" /\ file_pos' = file_pos
        BY <1>7 DEF SeekForeground, SeekBack
  <2>2. PushedAhead'
        BY <2>1 DEF PushedAhead
  <2>3. DescriptorAhead'
        BY <1>2, <1>3, <1>5, <2>1 DEF DescriptorAhead
  <2> QED BY <1>4, <2>2, <2>3 DEF AheadInv
<1> QED BY <1>1, <1>6, <1>7

LEMMA AheadStep == ASSUME BackgroundInv, AheadInv, [Next]_vars PROVE AheadInv'
<1>0. DescriptorAhead /\ PushedAhead /\ HeldAhead /\ NeverBehind
      BY DEF AheadInv
\* Steps that touch neither the bytes nor the position.
<1>1. ASSUME UNCHANGED <<hist, ch_buf, file_off>>, got' \in {got, 0}
      PROVE  PushedAhead' /\ HeldAhead' /\ NeverBehind'
  <2>1. CurOffset' = CurOffset
        BY <1>1 DEF CurOffset
  <2> QED BY <1>0, <1>1, <2>1 DEF PushedAhead, HeldAhead, NeverBehind
<1>2. CASE Producer
  <2>1. /\ UNCHANGED <<hist, got, ch_buf, file_off, file_pos, pipe_pos, phase, bgMode, fd, total>>
        /\ produced' \in Nat /\ (produced' = produced \/ produced # total)
        BY <1>0, <1>2 DEF DescriptorAhead, Producer, TeeOpens, TeeToPipe, TeeToFile, client, offsets, handles, given
  <2>2. DescriptorAhead'
        BY <1>0, <2>1 DEF DescriptorAhead
  <2> QED BY <1>1, <2>1, <2>2 DEF AheadInv
<1>3. CASE OpenForeground \/ Popen \/ FopenTmp
  <2>1. /\ UNCHANGED <<hist, got, ch_buf, file_off, file_pos, total>>
        /\ file_off = 0 /\ hist = <<>> /\ got = 0 /\ produced' \in Nat
        BY <1>0, <1>3 DEF OpenForeground, Popen, FopenTmp, client, external, given, offsets,
                          BackgroundInv, Unopened, DescriptorAhead
  <2>2. \/ phase' \in {"open", "unset", "exited"} /\ fd' = "file"
        \/ phase' = "exited"
        \/ phase' = "popened" /\ bgMode'
        \/ phase' = "fopened" /\ fd' = "pipe" /\ bgMode'
        BY <1>0, <1>3 DEF OpenForeground, Popen, FopenTmp, DescriptorAhead
  <2>3. DescriptorAhead'
        BY <1>0, <2>1, <2>2 DEF DescriptorAhead
  <2> QED BY <1>1, <2>1, <2>3 DEF AheadInv
<1>4. CASE SyncFirst
  <2>1. /\ UNCHANGED <<hist, got, fd, file_pos, total, produced>> /\ phase = "fopened"
        /\ \/ /\ phase' = "open" /\ file_off' = 1 /\ ch_buf' = <<1>> /\ bgMode' = bgMode
           \/ phase' = "exited" /\ UNCHANGED <<file_off, ch_buf>>
        BY <1>4 DEF SyncFirst, client, external, given
  <2>2. file_off = 0 /\ fd = "pipe" /\ bgMode /\ hist = <<>> /\ got = 0
        BY <1>0, <2>1 DEF DescriptorAhead, BackgroundInv, Unopened
  <2>3. DescriptorAhead'
        BY <1>0, <2>1, <2>2 DEF DescriptorAhead
  <2>4. CASE phase' = "exited" /\ UNCHANGED <<file_off, ch_buf>>
        BY <1>1, <2>1, <2>3, <2>4 DEF AheadInv
  <2>5. CASE file_off' = 1 /\ ch_buf' = <<1>>
    <3>1. PushedAhead'
          BY <2>5 DEF PushedAhead
    <3>2. HeldAhead' /\ NeverBehind'
          BY <2>1, <2>2 DEF HeldAhead, NeverBehind
    <3> QED BY <2>3, <3>1, <3>2 DEF AheadInv
  <2> QED BY <2>1, <2>4, <2>5
<1>5. CASE ReadTerm \/ CloseFile
  <2>1. /\ UNCHANGED <<hist, ch_buf, file_off, file_pos, pipe_pos, produced, total, bgMode, fd>>
        /\ got' \in {got, 0} /\ phase' \in {phase, "done"}
        BY <1>5 DEF ReadTerm, CloseFile, client, external, given, offsets, handles
  <2>2. DescriptorAhead'
        BY <1>0, <2>1 DEF DescriptorAhead
  <2> QED BY <1>1, <2>1, <2>2 DEF AheadInv
<1>6. CASE ReadEof
  <2>1. /\ UNCHANGED <<hist, ch_buf, file_off, file_pos, pipe_pos, produced, total, phase>>
        /\ got' = 0 /\ bgMode' = FALSE /\ fd' = ReadFd /\ phase = "open"
        /\ ReadFd = "pipe" => pipe_pos = produced /\ produced = total
        BY <1>6 DEF ReadEof, MayRead, external, given, offsets
  <2>2. DescriptorAhead'
        BY <1>0, <2>1 DEF DescriptorAhead, ReadFd
  <2> QED BY <1>1, <2>1, <2>2 DEF AheadInv
<1>7. CASE UNCHANGED vars
  <2>1. UNCHANGED <<hist, got, ch_buf, file_off, file_pos, pipe_pos, produced, total, bgMode, fd, phase>>
        BY <1>7 DEF vars, client, external, given, offsets, handles
  <2>2. DescriptorAhead'
        BY <1>0, <2>1 DEF DescriptorAhead
  <2> QED BY <1>1, <2>1, <2>2 DEF AheadInv
<1> QED BY <1>2, <1>3, <1>4, <1>5, <1>6, <1>7, PushedByteAhead, FileByteAhead, UnGetAhead, SeekAhead
        DEF Next, GetChar, Opening

\* However far tee's copy is behind, whatever the parser pushes back and
\* wherever it seeks, also with the pipe's end seen too early: the stream
\* never hands out a byte from before the offset it reports.
THEOREM StreamIsNeverBehind == Spec => []NeverBehind
<1>1. AheadInv => NeverBehind
      BY DEF AheadInv
<1>2. BackgroundInv /\ AheadInv /\ [Next]_vars => AheadInv'
      BY AheadStep
<1> QED BY <1>1, <1>2, AheadInit, BackgroundInit, BackgroundStep, PTL DEF Spec
-----------------------------------------------------------------------------
(* The reported offset is exact where nothing is read in the background,    *)
(* and in the background if tee's copy is never behind its pipe and the     *)
(* parser looks back only while it reads the pipe.                          *)

CaughtUp == Lag = 0 /\ SeekFrom \subseteq {"pipe"}
OneFile  == pg_based \/ TRUE \notin Background
InStep   == OneFile \/ CaughtUp

\* Where the stream stands: in the one file, in the pipe, or in the copy of
\* what the pipe has delivered.
Standing ==
  /\ furthest \in Nat /\ term_off \in Nat /\ pipe_pos <= produced
  /\ OneFile => ~bgMode /\ fd = "file"
  /\ phase \in {"closed", "popened", "fopened"} => pipe_pos = 0 /\ furthest = 0
  /\ phase = "closed" => fd = "file" /\ ~bgMode
  /\ phase \in {"open", "done"} \/ got = 0
  /\ phase = "closed" \/ bgMode => saved = produced
  /\ fd = "file" => file_pos = file_off
  /\ bgMode /\ fd = "pipe" => pipe_pos = file_off
  /\ bgMode => furthest <= pipe_pos
  /\ pg_based /\ phase \in {"open", "done"} => file_off <= term_off

Exact == Standing /\ Pushed /\ Held /\ BgOffIsParsingOffset /\ Faithful

LEMMA ExactInit == Init => Exact
<1> SUFFICES ASSUME Init PROVE Exact
    OBVIOUS
<1> USE StreamAssumption DEF StreamAssumption
<1>1. Standing
  <2>1. /\ phase = "closed" /\ bgMode = FALSE /\ fd = "file" /\ file_off = 0 /\ file_pos = 0
        /\ pipe_pos = 0 /\ produced = 0 /\ saved = 0 /\ furthest = 0 /\ got = 0
        /\ term_off \in Nat
        BY DEF Init
  <2> QED BY <2>1 DEF Standing
<1>2. Pushed /\ Held
      BY DEF Init, Pushed, Held, CurOffset
<1>3. BgOffIsParsingOffset /\ Faithful
      BY DEF Init, BgOffIsParsingOffset, Faithful
<1> QED BY <1>1, <1>2, <1>3 DEF Exact

\* What the steps below need of the earlier invariants.
LEMMA ExactTypes ==
  ASSUME BackgroundInv, AheadInv, Exact
  PROVE  /\ file_off \in Nat /\ bg_off \in Nat /\ pipe_pos \in Nat /\ file_pos \in Nat
         /\ produced \in Nat /\ total \in Nat /\ furthest \in Nat /\ term_off \in Nat
         /\ bgMode \in BOOLEAN /\ CurOffset \in Nat /\ CurOffset <= file_off
         /\ Len(ch_buf) \in Nat /\ CurOffset = file_off - Len(ch_buf)
         /\ bgMode => file_off <= pipe_pos
<1>1. /\ file_off \in Nat /\ bg_off \in Nat /\ pipe_pos \in Nat /\ file_pos \in Nat
      /\ produced \in Nat /\ total \in Nat /\ furthest \in Nat /\ term_off \in Nat
      /\ bgMode \in BOOLEAN /\ (bgMode => file_off <= pipe_pos)
      BY DEF BackgroundInv, Offsets, NoReadAhead, AheadInv, DescriptorAhead, Exact, Standing
<1>2. Len(ch_buf) \in Nat /\ Len(ch_buf) <= file_off
      BY LenProperties DEF Exact, Pushed
<1> QED BY <1>1, <1>2 DEF CurOffset

\* In the background the pipe is read exactly where the stream stands.
LEMMA ReadsInPlace ==
  ASSUME InStep, BackgroundInv, AheadInv, Exact
  PROVE  /\ bgMode => ~OneFile /\ CaughtUp
         /\ bgMode /\ ReadFd = "pipe" => pipe_pos = file_off
         /\ ReadFd = "file" => fd = "file" /\ file_pos = file_off
         /\ bgMode /\ ReadFd = "file" => bg_off = pipe_pos /\ file_off < pipe_pos
         /\ ReadFd = "pipe" /\ ~bgMode => fd = "pipe"
         /\ fd = "file" => ReadFd = "file" \/ bgMode
<1>1. Standing /\ BgOffIsParsingOffset
      BY DEF Exact
<1>2. bgMode => ~OneFile /\ CaughtUp
      BY <1>1 DEF Standing, InStep
<1>3. /\ fd = "file" => file_pos = file_off
      /\ bgMode /\ fd = "pipe" => pipe_pos = file_off
      /\ bgMode /\ fd = "file" => bg_off = pipe_pos
      BY <1>1 DEF Standing, BgOffIsParsingOffset
<1>4. ReadFd = "file" => fd = "file" /\ ~(bgMode /\ file_off >= bg_off)
      BY DEF ReadFd
<1>5. ReadFd = "pipe" => fd = "pipe" \/ (bgMode /\ fd = "file" /\ file_off >= bg_off)
      BY DEF ReadFd
<1>6. fd = "file" => ReadFd = "file" \/ bgMode
      BY DEF ReadFd
<1>7. bgMode /\ ReadFd = "pipe" => pipe_pos = file_off
      BY <1>3, <1>5, ExactTypes
<1>8. bgMode /\ ReadFd = "file" => bg_off = pipe_pos /\ file_off < pipe_pos
      BY <1>3, <1>4, ExactTypes
<1> QED BY <1>2, <1>3, <1>4, <1>5, <1>6, <1>7, <1>8

LEMMA ReadPushedExact ==
  ASSUME InStep, BackgroundInv, AheadInv, Exact, ReadPushed
  PROVE  Exact'
<1>1. Pushed /\ Held /\ Standing /\ BgOffIsParsingOffset
      BY DEF Exact
<1>2. /\ CurOffset < file_off /\ got' = CurOffset + 1 /\ CurOffset' = CurOffset + 1
      /\ Pushed' /\ Held'
      BY <1>1, ExactTypes, PushedByteTaken
<1>3. /\ UNCHANGED <<phase, bgMode, fd, file_off, bg_off, term_off, pipe_pos, file_pos>>
      /\ UNCHANGED <<pg_based, produced, saved>> /\ phase = "open" /\ (OneFile' <=> OneFile)
      /\ furthest' = IF CurOffset + 1 > furthest THEN CurOffset + 1 ELSE furthest
      BY DEF ReadPushed, Deliver, MayRead, external, given, handles, OneFile
<1>4. furthest' \in Nat /\ (furthest' = furthest \/ furthest' <= file_off)
      BY <1>2, <1>3, ExactTypes
<1>5. Standing'
      BY <1>1, <1>3, <1>4, ExactTypes DEF Standing
<1>6. BgOffIsParsingOffset' /\ Faithful'
      BY <1>1, <1>2, <1>3 DEF BgOffIsParsingOffset, Faithful
<1> QED BY <1>2, <1>5, <1>6 DEF Exact

LEMMA ReadByteExact ==
  ASSUME InStep, BackgroundInv, AheadInv, Exact, ReadByte
  PROVE  Exact'
<1>1. Pushed /\ Held /\ Standing /\ BgOffIsParsingOffset
      BY DEF Exact
<1>2. /\ phase = "open" /\ ch_buf = <<>> /\ fd' = ReadFd /\ file_off' = file_off + 1
      /\ UNCHANGED <<phase, bgMode, bg_off, term_off, pg_based, produced, saved>>
      /\ ~(pg_based /\ file_off >= term_off)
      /\ furthest' = IF CurOffset + 1 > furthest THEN CurOffset + 1 ELSE furthest
      /\ \/ /\ ReadFd = "pipe" /\ pipe_pos < produced /\ got' = pipe_pos + 1
            /\ pipe_pos' = pipe_pos + 1 /\ file_pos' = file_pos
         \/ /\ ReadFd = "file" /\ got' = file_pos + 1
            /\ file_pos' = file_pos + 1 /\ pipe_pos' = pipe_pos
      BY DEF ReadByte, Deliver, MayRead, external, given
\* The pipe is not read once its end was seen.
<1>3. ReadFd = "pipe" => bgMode
  <2>1. phase = "open" /\ fd = "pipe" /\ ~bgMode => pipe_pos = produced
        BY DEF AheadInv, DescriptorAhead
  <2> QED BY <1>2, <2>1, ReadsInPlace, ExactTypes
<1>4. got' = file_off + 1
      BY <1>2, <1>3, ReadsInPlace
<1>5. CurOffset = file_off /\ CurOffset' = file_off + 1 /\ Pushed' /\ Held'
      BY <1>1, <1>4, ByteTaken, ExactTypes
<1>6. /\ furthest' \in Nat
      /\ bgMode' => furthest' <= pipe_pos'
      /\ bgMode' /\ fd' = "pipe" => pipe_pos' = file_off'
      /\ fd' = "file" => file_pos' = file_off'
      /\ pipe_pos' <= produced'
      /\ pg_based' => file_off' <= term_off'
  <2>1. bgMode => furthest <= pipe_pos /\ pipe_pos <= produced
        BY <1>1 DEF Standing
  <2>2. pipe_pos <= produced
        BY <1>1 DEF Standing
  <2>3. bgMode /\ ReadFd = "file" => file_off + 1 <= pipe_pos
        BY ReadsInPlace, ExactTypes
  <2>4. furthest' = furthest \/ furthest' = file_off + 1
        BY <1>2, <1>5
  <2> QED BY <1>2, <1>3, <2>1, <2>2, <2>3, <2>4, ReadsInPlace, ExactTypes
<1>7. Standing'
  <2>1. OneFile' => ~bgMode' /\ fd' = "file"
        BY <1>1, <1>2, ReadsInPlace DEF Standing, OneFile
  <2>2. phase' = "open" /\ term_off' \in Nat /\ (bgMode' => saved' = produced')
        BY <1>1, <1>2, ExactTypes DEF Standing
  <2> QED BY <1>6, <2>1, <2>2 DEF Standing
<1>8. BgOffIsParsingOffset'
  <2>1. bgMode' /\ fd' = "file" => bg_off' = pipe_pos'
        BY <1>2, ReadsInPlace
  <2> QED BY <2>1 DEF BgOffIsParsingOffset
<1>9. Faithful'
      BY <1>4, <1>5 DEF Faithful
<1> QED BY <1>5, <1>7, <1>8, <1>9 DEF Exact

\* A seek is taken where it is asked for; none is refused.
LEMMA NoSeekRefused ==
  ASSUME InStep, BackgroundInv, AheadInv, Exact, NEW off \in 0 .. MaxLen, SeekRefused(off)
  PROVE  FALSE
<1>1. bgMode /\ off > file_off /\ off \in Restorable /\ ReadFd \in SeekFrom
      BY DEF SeekRefused, Restores
<1>2. ReadFd = "pipe" /\ pipe_pos = file_off /\ ~pg_based /\ TRUE \in Background
      BY <1>1, ReadsInPlace DEF CaughtUp, OneFile
<1>3. off \in 0 .. furthest /\ furthest <= pipe_pos
      BY <1>1, <1>2 DEF Restorable, Exact, Standing
<1> QED BY <1>1, <1>2, <1>3, ExactTypes

LEMMA SetOffsetExact ==
  ASSUME InStep, BackgroundInv, AheadInv, Exact, SetOffset
  PROVE  Exact'
<1>1. PICK off \in 0 .. MaxLen : SeekForeground(off) \/ SeekBack(off)
      BY NoSeekRefused DEF SetOffset
<1>2. Standing /\ BgOffIsParsingOffset
      BY DEF Exact
<1>3. off \in Nat
      BY StreamAssumption DEF StreamAssumption
<1>4. /\ phase' = "open" /\ hist' = <<>> /\ got' = 0 /\ ch_buf' = <<>> /\ file_off' = off
      /\ UNCHANGED <<pg_based, produced, saved, total, furthest, pipe_pos, bgMode>>
      /\ pg_based => term_off' \in off .. total
      /\ ~pg_based => term_off' = term_off
      BY <1>1 DEF SeekForeground, SeekBack, Restores, external, given
<1>5. /\ OneFile' => ~bgMode' /\ fd' = "file"
      /\ fd' = "file" => file_pos' = file_off'
      /\ bgMode' => fd' = "file" /\ bg_off' = pipe_pos'
  <2>1. CASE SeekForeground(off)
        BY <1>2, <1>4, <2>1 DEF SeekForeground, Standing, OneFile
  <2>2. CASE SeekBack(off)
    <3>1. fd' = "file" /\ file_pos' = off /\ bg_off' = file_off /\ bgMode /\ ReadFd \in SeekFrom
          BY <2>2 DEF SeekBack, Restores
    <3>2. pipe_pos = file_off
          BY <3>1, ReadsInPlace DEF CaughtUp
    <3>3. ~OneFile'
          BY <1>4, <3>1, ReadsInPlace DEF OneFile
    <3> QED BY <1>4, <3>1, <3>2, <3>3
  <2> QED BY <1>1, <2>1, <2>2
<1>6. Standing'
  <2>1. term_off' \in Nat /\ (pg_based' => file_off' <= term_off')
        BY <1>3, <1>4, ExactTypes
  <2>2. furthest' \in Nat /\ pipe_pos' <= produced' /\ (bgMode' => saved' = produced' /\ furthest' <= pipe_pos')
        BY <1>2, <1>4 DEF Standing
  <2> QED BY <1>4, <1>5, <2>1, <2>2 DEF Standing
<1>7. BgOffIsParsingOffset' /\ Faithful'
      BY <1>4, <1>5 DEF BgOffIsParsingOffset, Faithful
<1>8. Pushed' /\ Held'
  <2>1. CurOffset' = off
        BY <1>3, <1>4 DEF CurOffset
  <2> QED BY <1>3, <1>4, <2>1 DEF Pushed, Held
<1> QED BY <1>6, <1>7, <1>8 DEF Exact

LEMMA SyncFirstExact ==
  ASSUME InStep, BackgroundInv, AheadInv, Exact, SyncFirst
  PROVE  Exact'
<1>1. Standing /\ Pushed /\ Held
      BY DEF Exact
<1>2. /\ phase = "fopened" /\ UNCHANGED <<client, external, bg_off, term_off, fd, file_pos>>
      /\ \/ /\ produced > 0 /\ phase' = "open" /\ file_off' = 1 /\ pipe_pos' = 1
            /\ ch_buf' = <<1>> /\ bgMode' = bgMode
         \/ /\ phase' = "exited" /\ bgMode' = FALSE /\ UNCHANGED <<file_off, pipe_pos, ch_buf>>
      BY DEF SyncFirst
<1>3. /\ fd = "pipe" /\ bgMode /\ hist = <<>> /\ got = 0 /\ file_off = 0 /\ pipe_pos = 0
      /\ furthest = 0
      BY <1>1, <1>2 DEF AheadInv, DescriptorAhead, BackgroundInv, Unopened, Standing
<1>4. ~OneFile /\ ~pg_based
      BY <1>3, ReadsInPlace DEF OneFile
<1>5. UNCHANGED <<hist, got, furthest, produced, saved, pg_based, total>> /\ (OneFile' <=> OneFile)
      BY <1>2 DEF client, external, given, OneFile
<1>6. Standing'
  <2>1. furthest' = 0 /\ term_off' \in Nat /\ fd' = "pipe" /\ got' = 0 /\ ~OneFile' /\ ~pg_based'
        BY <1>2, <1>3, <1>4, <1>5, ExactTypes
  <2>2. pipe_pos' \in Nat /\ pipe_pos' <= produced' /\ saved' = produced'
    <3>1. saved = produced /\ produced \in Nat
          BY <1>1, <1>3, ExactTypes DEF Standing
    <3>2. (produced > 0 /\ pipe_pos' = 1) \/ pipe_pos' = 0
          BY <1>2, <1>3, Zenon
    <3>3. pipe_pos' \in Nat /\ pipe_pos' <= produced
          BY <3>1, <3>2
    <3> QED BY <1>5, <3>1, <3>3
  <2>3. phase' \in {"open", "exited"} /\ (bgMode' => pipe_pos' = file_off')
        BY <1>2
  <2> QED BY <2>1, <2>2, <2>3 DEF Standing
<1>7. BgOffIsParsingOffset' /\ Faithful'
      BY <1>2, <1>3, <1>5 DEF BgOffIsParsingOffset, Faithful
<1>8. CASE file_off' = 1 /\ ch_buf' = <<1>>
  <2>1. Pushed'
        BY <1>8 DEF Pushed
  <2>2. Held'
        BY <1>3, <1>5, <1>8 DEF Held, CurOffset
  <2> QED BY <1>6, <1>7, <2>1, <2>2 DEF Exact
<1>9. CASE UNCHANGED <<file_off, ch_buf>>
  <2>1. Pushed' /\ Held'
        BY <1>1, <1>5, <1>9 DEF Pushed, Held, CurOffset
  <2> QED BY <1>6, <1>7, <2>1 DEF Exact
<1> QED BY <1>2, <1>8, <1>9

\* The other steps leave the bytes and the position alone.
LEMMA StaysExact ==
  ASSUME Exact, UNCHANGED <<hist, ch_buf, file_off>>, got' \in {got, 0},
         Standing', BgOffIsParsingOffset'
  PROVE  Exact'
<1>1. CurOffset' = CurOffset
      BY DEF CurOffset
<1> QED BY <1>1 DEF Exact, Pushed, Held, Faithful

\* The document decides once whether it is read page based.
LEMMA OneFileStays == [Next]_vars => (OneFile' <=> OneFile)
<1>1. [Next]_vars => pg_based' = pg_based
      BY DEF Next, Producer, Opening, GetChar, TeeOpens, TeeToPipe, TeeToFile, OpenForeground,
             Popen, FopenTmp, SyncFirst, ReadTerm, ReadPushed, ReadByte, ReadEof, UnGet,
             SetOffset, SeekForeground, SeekBack, SeekRefused, Restores, CloseFile,
             external, given, vars
<1> QED BY <1>1 DEF OneFile

LEMMA ExactStep ==
  ASSUME InStep, BackgroundInv, AheadInv, Exact, [Next]_vars
  PROVE  Exact'
<1>1. Standing /\ BgOffIsParsingOffset /\ (OneFile' <=> OneFile)
      BY OneFileStays DEF Exact
<1>2. CASE Producer
  <2>1. /\ UNCHANGED <<hist, got, furthest, ch_buf, file_off, bg_off, term_off>>
        /\ UNCHANGED <<file_pos, pipe_pos, phase, bgMode, fd, pg_based>>
        BY <1>2 DEF Producer, TeeOpens, TeeToPipe, TeeToFile, client, offsets, handles, given
  <2>2. /\ produced' \in {produced, produced + 1}
        /\ phase' = "closed" \/ bgMode' => saved' = produced'
    <3>1. CASE TeeOpens
          BY <1>1, <2>1, <3>1 DEF TeeOpens, Standing
    <3>2. CASE TeeToPipe
      <4>1. produced' = produced + 1 /\ phase # "closed" /\ (Lag = 0 => saved' = produced + 1)
            BY <3>2 DEF TeeToPipe
      <4>2. bgMode => Lag = 0
            BY ReadsInPlace DEF CaughtUp
      <4> QED BY <2>1, <4>1, <4>2
    <3>3. CASE TeeToFile
      <4>1. produced' = produced /\ saved < produced
            BY <3>3 DEF TeeToFile
      <4>2. phase = "closed" \/ bgMode => saved = produced
            BY <1>1 DEF Standing
      <4>3. ~(phase = "closed" \/ bgMode)
            BY <4>1, <4>2, ExactTypes
      <4> QED BY <2>1, <4>1, <4>3
    <3> QED BY <1>2, <3>1, <3>2, <3>3 DEF Producer
  <2>3. pipe_pos' <= produced'
        BY <1>1, <2>1, <2>2, ExactTypes DEF Standing
  <2>4. Standing' /\ BgOffIsParsingOffset'
        BY <1>1, <2>1, <2>2, <2>3 DEF Standing, BgOffIsParsingOffset
  <2> QED BY <2>1, <2>4, StaysExact
<1>3. CASE OpenForeground \/ Popen \/ FopenTmp
  <2>1. /\ UNCHANGED <<hist, got, furthest, ch_buf, file_off, bg_off, term_off>>
        /\ UNCHANGED <<file_pos, pipe_pos, pg_based, total>>
        BY <1>3 DEF OpenForeground, Popen, FopenTmp, client, offsets, external, given
  <2>2. phase \in {"closed", "popened"} /\ file_off = 0 /\ bg_off = 0 /\ pipe_pos = 0 /\ furthest = 0
        BY <1>1, <1>3 DEF OpenForeground, Popen, FopenTmp, BackgroundInv, Unopened, Standing
  <2>3. CASE OpenForeground
    <3>1. /\ bgMode' = FALSE /\ fd' = "file" /\ fd = "file"
          /\ produced' \in {produced, total} /\ (pg_based => phase' \in {"unset", "exited"})
          /\ phase' \in {"open", "unset", "exited"}
          BY <1>1, <2>3 DEF OpenForeground, Standing
    <3>2. Standing'
          BY <1>1, <2>1, <2>2, <3>1, ExactTypes DEF Standing
    <3> QED BY <2>1, <3>1, <3>2, StaysExact DEF BgOffIsParsingOffset
  <2>4. CASE Popen
    <3>1. /\ bgMode' = TRUE /\ fd' = fd /\ fd = "file" /\ UNCHANGED <<produced, saved>>
          /\ ~OneFile /\ ~pg_based /\ phase' = "popened" /\ phase = "closed"
          BY <1>1, <2>4 DEF Popen, Standing, external, OneFile
    <3>2. Standing' /\ BgOffIsParsingOffset'
          BY <1>1, <2>1, <2>2, <3>1, ExactTypes DEF Standing, BgOffIsParsingOffset
    <3> QED BY <2>1, <3>2, StaysExact
  <2>5. CASE FopenTmp
    <3>1. /\ bgMode /\ bgMode' = bgMode /\ UNCHANGED <<produced, saved>>
          /\ \/ phase' = "fopened" /\ fd' = "pipe"
             \/ phase' = "exited" /\ fd' = fd
          BY <2>5 DEF FopenTmp, external, AheadInv, DescriptorAhead
    <3>2. ~OneFile /\ ~pg_based
          BY <3>1, ReadsInPlace DEF OneFile
    <3>3. Standing' /\ BgOffIsParsingOffset'
          BY <1>1, <2>1, <2>2, <3>1, <3>2, ExactTypes DEF Standing, BgOffIsParsingOffset
    <3> QED BY <2>1, <3>3, StaysExact
  <2> QED BY <1>3, <2>3, <2>4, <2>5
<1>4. CASE ReadTerm \/ CloseFile
  <2>1. /\ UNCHANGED <<hist, furthest, ch_buf, file_off, bg_off, term_off, pg_based>>
        /\ UNCHANGED <<file_pos, pipe_pos, bgMode, fd, produced, saved>>
        /\ got' \in {got, 0} /\ phase = "open" /\ phase' \in {"open", "done"}
        BY <1>4 DEF ReadTerm, CloseFile, client, external, given, offsets, handles
  <2>2. Standing' /\ BgOffIsParsingOffset'
        BY <1>1, <2>1 DEF Standing, BgOffIsParsingOffset
  <2> QED BY <2>1, <2>2, StaysExact
<1>5. CASE ReadEof
  <2>1. /\ UNCHANGED <<hist, furthest, ch_buf, file_off, bg_off, term_off, pg_based>>
        /\ UNCHANGED <<file_pos, pipe_pos, phase, produced, saved>>
        /\ got' = 0 /\ bgMode' = FALSE /\ fd' = ReadFd /\ phase = "open"
        BY <1>5 DEF ReadEof, MayRead, external, given, offsets
  <2>2. OneFile' => fd' = "file"
        BY <1>1, <2>1, ReadsInPlace DEF Standing
  <2>3. fd' = "file" => file_pos' = file_off'
        BY <2>1, ReadsInPlace
  <2>4. Standing' /\ BgOffIsParsingOffset'
        BY <1>1, <2>1, <2>2, <2>3 DEF Standing, BgOffIsParsingOffset
  <2> QED BY <2>1, <2>4, StaysExact
<1>6. CASE UnGet
  <2>1. /\ CurOffset' = CurOffset - 1 /\ Pushed' /\ Held'
        BY <1>6, ByteGivenBack, ExactTypes DEF Exact
  <2>2. /\ UNCHANGED <<furthest, file_off, bg_off, term_off, pg_based, file_pos, pipe_pos>>
        /\ UNCHANGED <<bgMode, fd, phase, produced, saved>> /\ got' = 0
        BY <1>6 DEF UnGet, external, given, handles
  <2>3. Standing' /\ BgOffIsParsingOffset' /\ Faithful'
        BY <1>1, <2>2 DEF Standing, BgOffIsParsingOffset, Faithful
  <2> QED BY <2>1, <2>3 DEF Exact
<1>7. CASE UNCHANGED vars
  <2>1. /\ UNCHANGED <<hist, got, furthest, ch_buf, file_off, bg_off, term_off, pg_based>>
        /\ UNCHANGED <<file_pos, pipe_pos, bgMode, fd, produced, saved, phase>>
        BY <1>7 DEF vars, client, external, given, offsets, handles
  <2>2. Standing' /\ BgOffIsParsingOffset'
        BY <1>1, <2>1 DEF Standing, BgOffIsParsingOffset
  <2> QED BY <2>1, <2>2, StaysExact
<1> QED BY <1>2, <1>3, <1>4, <1>5, <1>6, <1>7, ReadPushedExact, ReadByteExact, SyncFirstExact,
           SetOffsetExact
        DEF Next, GetChar, Opening

StreamInv == BackgroundInv /\ AheadInv /\ (InStep => Exact)

LEMMA StreamInvariant == Spec => []StreamInv
<1>1. Init => StreamInv
      BY BackgroundInit, AheadInit, ExactInit DEF StreamInv
<1>2. StreamInv /\ [Next]_vars => StreamInv'
      BY BackgroundStep, AheadStep, ExactStep, OneFileStays DEF StreamInv, InStep
<1> QED BY <1>1, <1>2, PTL DEF Spec

\* The byte GetChar returns is the one at the offset that GetCurOffset
\* reports, the only trace of the stream a .pg file keeps: in the foreground,
\* and in the background if tee's copy is never behind and the parser looks
\* back only from the pipe.
THEOREM StreamIsFaithful ==
  ASSUME TRUE \notin Background \/ CaughtUp
  PROVE  Spec => []Faithful
<1>1. StreamInv => Faithful
      BY DEF StreamInv, InStep, OneFile, Exact
<1> QED BY <1>1, StreamInvariant, PTL

\* Under the same condition bg_off is what DocStream.h calls it, the offset
\* the background parsing has reached.
THEOREM BgOffIsWhereThePipeStands ==
  ASSUME TRUE \notin Background \/ CaughtUp
  PROVE  Spec => []BgOffIsParsingOffset
<1>1. StreamInv => BgOffIsParsingOffset
      BY DEF StreamInv, InStep, OneFile, Exact
<1> QED BY <1>1, StreamInvariant, PTL

\* Page based, no byte beyond term_off is handed out, however the bytes of the
\* page are pushed back, read again and sought (DocStream::GetChar).
THEOREM PagesKeepToThemselves == Spec => []StaysInPage
<1>1. ASSUME StreamInv PROVE StaysInPage
  <2>1. SUFFICES ASSUME pg_based, got # 0 PROVE got <= term_off
        BY DEF StaysInPage
  <2>2. Exact /\ BackgroundInv /\ AheadInv
        BY <1>1, <2>1 DEF StreamInv, InStep, OneFile
  <2>3. phase \in {"open", "done"}
        BY <2>1, <2>2 DEF Exact, Standing
  <2> QED BY <2>1, <2>2, <2>3, ExactTypes DEF Exact, Faithful, Standing
<1> QED BY <1>1, StreamInvariant, PTL

\* The step that leaves the background mode has consumed the whole document.
THEOREM EndIsFoundAtEnd ==
  ASSUME TRUE \notin Background \/ CaughtUp
  PROVE  Spec => EndDiscoveredAtEnd
<1>1. ASSUME StreamInv, [Next]_vars
      PROVE  [bgMode /\ ~bgMode' => CurOffset' = total]_vars
  <2>1. SUFFICES ASSUME bgMode, ~bgMode', Next PROVE CurOffset' = total
        BY <1>1 DEF vars, handles
  <2>2. InStep /\ Exact /\ BackgroundInv /\ AheadInv
        BY <1>1 DEF StreamInv, InStep, OneFile
  <2>3. CASE ReadEof
    <3>1. /\ ch_buf = <<>> /\ UNCHANGED <<file_off, ch_buf>>
          /\ \/ ReadFd = "pipe" /\ pipe_pos = produced /\ produced = total
             \/ ReadFd = "file" /\ file_pos >= saved
          BY <2>3 DEF ReadEof, offsets
    <3>2. saved = produced /\ pipe_pos <= produced
          BY <2>1, <2>2 DEF Exact, Standing
    <3>3. ReadFd = "pipe" /\ pipe_pos = total
          BY <2>1, <2>2, <3>1, <3>2, ReadsInPlace, ExactTypes
    <3>4. file_off = total /\ file_off \in Nat
          BY <2>1, <2>2, <3>3, ReadsInPlace, ExactTypes
    <3> QED BY <3>1, <3>4 DEF CurOffset
  <2>4. CASE SyncFirst
    <3>1. total = 0 /\ UNCHANGED <<file_off, ch_buf>> /\ phase = "fopened"
          BY <2>1, <2>4 DEF SyncFirst
    <3>2. file_off = 0
          BY <2>2, <3>1 DEF BackgroundInv, Unopened
    <3>3. Len(ch_buf) = 0
          BY <2>2, <3>2, LenProperties DEF Exact, Pushed
    <3> QED BY <3>1, <3>2, <3>3 DEF CurOffset
  <2>5. CASE OpenForeground
        BY <2>1, <2>2, <2>5 DEF OpenForeground, Exact, Standing
  <2>6. CASE Producer \/ Popen \/ FopenTmp \/ ReadTerm \/ ReadPushed \/ ReadByte \/ UnGet \/ SetOffset \/ CloseFile
        BY <2>1, <2>6
        DEF Producer, TeeOpens, TeeToPipe, TeeToFile, Popen, FopenTmp, ReadTerm, ReadPushed, ReadByte,
            UnGet, SetOffset, SeekForeground, SeekBack, SeekRefused, Restores, CloseFile, handles
  <2> QED BY <2>1, <2>3, <2>4, <2>5, <2>6 DEF Next, GetChar, Opening
<1> QED BY <1>1, StreamInvariant, PTL DEF Spec, EndDiscoveredAtEnd

\* Under the same condition the parser is never refused an offset it saved
\* ("this really should not happen", DocStream::SetOffset).
THEOREM NoSeekIsRefused ==
  ASSUME TRUE \notin Background \/ CaughtUp
  PROVE  Spec => SeekNeverRefused
<1>1. ASSUME StreamInv, [Next]_vars
      PROVE  [~ \E off \in 0 .. MaxLen : SeekRefused(off)]_vars
      BY <1>1, NoSeekRefused DEF StreamInv, InStep, OneFile
<1> QED BY <1>1, StreamInvariant, PTL DEF Spec, SeekNeverRefused
-----------------------------------------------------------------------------
(* Types, and the bounds the external processes keep.                       *)

\* What no earlier invariant says.
Rest ==
  /\ phase \in {"closed", "popened", "fopened", "unset", "open", "done", "exited"}
  /\ ended \in BOOLEAN /\ tmpExists \in BOOLEAN /\ pg_based \in PgBased
  /\ fd \in {"pipe", "file"}
  /\ total \in 0 .. MaxLen /\ produced \in 0 .. total /\ saved \in 0 .. produced
  /\ term_off \in Nat /\ got \in Nat /\ furthest \in Nat

LEMMA RestStep ==
  ASSUME BackgroundInv, AheadInv, Rest, [Next]_vars
  PROVE  Rest'
<1>1. /\ file_off \in Nat /\ pipe_pos \in Nat /\ file_pos \in Nat
      /\ CurOffset \in Int /\ total \in Nat /\ produced \in Nat /\ saved \in Nat
  <2>1. file_off \in Nat /\ pipe_pos \in Nat /\ file_pos \in Nat /\ Len(ch_buf) \in Nat
        BY LenProperties DEF BackgroundInv, Offsets, AheadInv, DescriptorAhead, PushedAhead
  <2> QED BY <2>1, StreamAssumption DEF StreamAssumption, Rest, CurOffset
\* GetChar hands out bytes, and keeps the largest offset.
<1>2. ASSUME NEW b \in Nat, Deliver(b), UNCHANGED <<external, phase, term_off>>, fd' \in {fd, ReadFd}
      PROVE  Rest'
  <2>1. got' = b /\ ended' = FALSE /\ furthest' \in {furthest, CurOffset + 1}
        /\ (furthest' = furthest \/ CurOffset + 1 > furthest)
        BY <1>2 DEF Deliver
  <2>2. furthest' \in Nat
        BY <1>1, <2>1 DEF Rest
  <2>3. fd' \in {"pipe", "file"}
        BY <1>2 DEF Rest, ReadFd
  <2> QED BY <1>2, <2>1, <2>2, <2>3 DEF Rest, external, given
<1>3. CASE Producer
  <2>1. UNCHANGED <<phase, ended, pg_based, fd, total, term_off, got, furthest>>
        BY <1>3 DEF Producer, TeeOpens, TeeToPipe, TeeToFile, client, offsets, handles, given
  <2>2. tmpExists' \in BOOLEAN
        BY <1>3 DEF Producer, TeeOpens, TeeToPipe, TeeToFile, given, Rest
  <2>3. produced' \in 0 .. total /\ saved' \in 0 .. produced'
    <3>1. CASE TeeOpens
          BY <3>1 DEF TeeOpens, Rest
    <3>2. CASE TeeToPipe
          BY <1>1, <3>2 DEF TeeToPipe, Rest
    <3>3. CASE TeeToFile
          BY <1>1, <3>3 DEF TeeToFile, Rest
    <3> QED BY <1>3, <3>1, <3>2, <3>3 DEF Producer
  <2> QED BY <2>1, <2>2, <2>3 DEF Rest
<1>4. CASE OpenForeground
  <2>1. /\ UNCHANGED <<ended, pg_based, total, term_off, got, furthest>> /\ fd' = "file"
        /\ \/ produced' = total /\ saved' = total /\ tmpExists' = TRUE
           \/ UNCHANGED <<produced, saved, tmpExists>>
        /\ phase' \in {"unset", "open", "exited"}
        BY <1>4 DEF OpenForeground, client, offsets, given, external
  <2>2. produced' \in 0 .. total /\ saved' \in 0 .. produced'
        BY <1>1, <2>1 DEF Rest
  <2> QED BY <2>1, <2>2 DEF Rest
<1>5. CASE Popen \/ FopenTmp \/ SyncFirst
  <2>1. /\ UNCHANGED <<ended, tmpExists, pg_based, total, produced, saved, term_off, got, furthest>>
        /\ fd' \in {fd, "pipe"} /\ phase' \in {"popened", "fopened", "exited", "open"}
        BY <1>5 DEF Popen, FopenTmp, SyncFirst, client, external, given, offsets
  <2> QED BY <2>1 DEF Rest
<1>6. CASE ReadTerm
  <2>1. /\ UNCHANGED <<phase, fd, tmpExists, pg_based, total, produced, saved, term_off, furthest>>
        /\ got' = 0 /\ ended' = TRUE
        BY <1>6 DEF ReadTerm, external, given, offsets, handles
  <2> QED BY <2>1 DEF Rest
<1>7. CASE ReadPushed
  <2>1. Top(ch_buf) \in Nat
    <3>1. ch_buf \in Seq(Nat) /\ ch_buf # <<>>
          BY <1>7 DEF ReadPushed, AheadInv, PushedAhead
    <3>2. Len(ch_buf) \in 1 .. Len(ch_buf)
          BY <3>1, PopProperties, LenProperties
    <3> QED BY <3>1, <3>2, ElementOfSeq DEF Top
  <2> QED BY <1>2, <1>7, <2>1 DEF ReadPushed, handles
<1>8. CASE ReadByte
  <2>1. PICK b \in Nat : Deliver(b)
        BY <1>1, <1>8 DEF ReadByte
  <2> QED BY <1>2, <1>8, <2>1 DEF ReadByte
<1>9. CASE ReadEof
  <2>1. /\ UNCHANGED <<phase, tmpExists, pg_based, total, produced, saved, term_off, furthest>>
        /\ got' = 0 /\ ended' = TRUE /\ fd' \in {fd, "pipe"}
        BY <1>9 DEF ReadEof, external, given, offsets, ReadFd
  <2> QED BY <2>1 DEF Rest
<1>10. CASE UnGet
  <2>1. /\ UNCHANGED <<phase, fd, tmpExists, pg_based, total, produced, saved, term_off, furthest>>
        /\ got' = 0 /\ ended' = FALSE
        BY <1>10 DEF UnGet, external, given, handles
  <2> QED BY <2>1 DEF Rest
<1>11. CASE SetOffset
  <2>1. PICK off \in 0 .. MaxLen : SeekForeground(off) \/ SeekBack(off) \/ SeekRefused(off)
        BY <1>11 DEF SetOffset
  <2>2. off \in Nat
        BY StreamAssumption DEF StreamAssumption
  <2>3. Restores(off) /\ fd' \in {fd, "file"}
        BY <2>1 DEF SeekForeground, SeekBack, SeekRefused
  <2>4. /\ UNCHANGED <<tmpExists, pg_based, total, produced, saved, furthest>>
        /\ phase' = "open" /\ got' = 0 /\ ended' = FALSE
        /\ term_off' = term_off \/ term_off' \in off .. total
        BY <2>3 DEF Restores, external, given
  <2>5. term_off' \in Nat
        BY <1>1, <2>2, <2>4 DEF Rest
  <2> QED BY <2>3, <2>4, <2>5 DEF Rest
<1>12. CASE CloseFile \/ UNCHANGED vars
  <2>1. /\ UNCHANGED <<ended, tmpExists, pg_based, fd, total, produced, saved, term_off, got, furthest>>
        /\ phase' \in {phase, "done"}
        BY <1>12 DEF CloseFile, vars, client, external, given, offsets, handles
  <2> QED BY <2>1 DEF Rest
<1> QED BY <1>3, <1>4, <1>5, <1>6, <1>7, <1>8, <1>9, <1>10, <1>11, <1>12 DEF Next, GetChar, Opening

\* The stream keeps its types, and tee's two outputs stay within the
\* document, the file behind the pipe.
THEOREM StreamTypes == Spec => []TypeOK
<1>1. ASSUME Init PROVE Rest
  <2>1. term_off \in Nat /\ total \in 0 .. MaxLen /\ total \in Nat
        BY <1>1, StreamAssumption DEF StreamAssumption, Init
  <2>2. produced \in 0 .. total /\ saved \in 0 .. produced
        BY <1>1, <2>1 DEF Init
  <2> QED BY <1>1, <2>1, <2>2 DEF Init, Rest
<1>2. StreamInv /\ Rest /\ [Next]_vars => Rest'
      BY RestStep DEF StreamInv
<1>3. StreamInv /\ Rest => TypeOK
      BY DEF StreamInv, BackgroundInv, Offsets, AheadInv, DescriptorAhead, PushedAhead, HeldAhead,
             Rest, TypeOK
<1> QED BY <1>1, <1>2, <1>3, StreamInvariant, PTL DEF Spec
=============================================================================
