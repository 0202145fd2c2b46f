----------------------------- MODULE DocStream -----------------------------
(***************************************************************************)
(* lib/DocStream.cpp: the parser's character stream.                       *)
(*                                                                         *)
(* In the foreground (bgMode false) it reads one file.  In the background  *)
(* it reads the pipe of `wvWare ... | tee tmp` while the conversion is     *)
(* still running; a page that was shown before is read again from the      *)
(* growing copy tee leaves in the tmp file, up to the offset (bg_off) the  *)
(* pipe had been read to, and then from the pipe again.                    *)
(*                                                                         *)
(* A byte is identified by its position 1..total in the document.  The     *)
(* converter and tee are external processes: tee writes every byte to the  *)
(* pipe first and to the file after it, at most Lag bytes later.           *)
(*                                                                         *)
(* The parser is the client: it reads, pushes back what it read (last in,  *)
(* first out), and restores saved offsets.  Two of its scanners push back  *)
(* otherwise: match_b drops blanks it skipped inside a partial match, and  *)
(* procTableWord pushes back the '&' of an entity it has read.  No offset  *)
(* is saved before that is read again, and it is left out here.            *)
(*                                                                         *)
(* Definitions marked "mutant" are plausible mistakes in the definition    *)
(* that follows: each is used to check that some property notices it.      *)
(***************************************************************************)
EXTENDS Naturals, Sequences

CONSTANTS
  MaxLen,        \* longest document
  MaxPush,       \* most bytes the parser pushes back at once
  Lag,           \* most bytes tee's file is behind its pipe
  Background,    \* the OpenFile argument: which modes to start in
  PgBased,       \* values pg_based_render may have
  SeekFrom       \* descriptors from which the parser looks back

ASSUME StreamAssumption ==
  /\ MaxLen \in Nat /\ MaxPush \in Nat /\ Lag \in Nat
  /\ Background \subseteq BOOLEAN /\ PgBased \subseteq BOOLEAN
  /\ SeekFrom \subseteq {"pipe", "file"}

VARIABLES
  phase,         \* "closed", "popened", "fopened", "open", "done";
                 \* "unset": page based, HG_PB_SetPage not called yet;
                 \* "exited": opening failed
  bgMode,        \* reading while the converter runs
  fd,            \* the descriptor getc reads: "pipe" or "file"
  file_off,      \* bytes taken from the descriptors
  bg_off,        \* where the pipe had been read to at the last seek
  term_off,      \* end of the page, pg_based_render only
  ch_buf,        \* pushed back bytes, the top of the stack last
  pipe_pos,      \* bytes of the pipe consumed
  file_pos,      \* stdio position of the tmp file
  total,         \* bytes the converter will produce
  pg_based,      \* pg_based_render: reading stops at term_off
  produced,      \* bytes tee has written to the pipe
  saved,         \* bytes tee has written to the tmp file
  tmpExists,     \* the tmp file exists
  hist,          \* bytes the parser holds since the last seek
  got,           \* byte returned by the last step, 0 if none
  ended,         \* Except_EOF was thrown by the last read
  furthest       \* largest offset the parser has seen: what it may restore

client   == <<hist, got, ended, furthest>>
given    == <<total, pg_based>>
external == <<given, produced, saved, tmpExists>>
offsets  == <<file_off, bg_off, term_off, ch_buf>>
handles  == <<phase, bgMode, fd, pipe_pos, file_pos>>
vars     == <<client, external, offsets, handles>>

\* GetCurOffset(): pushed back bytes count as unread.
CurOffset == file_off - Len(ch_buf)

Bottom(s) == s[1]                                                         \* mutant
Top(s) == s[Len(s)]
Pop(s) == SubSeq(s, 1, Len(s) - 1)

Init ==
  /\ phase = "closed" /\ bgMode = FALSE /\ fd = "file"
  /\ file_off = 0 /\ bg_off = 0 /\ ch_buf = <<>>
  /\ term_off \in 0 .. MaxLen              \* not initialised by the constructor
  /\ pipe_pos = 0 /\ file_pos = 0
  /\ total \in 0 .. MaxLen /\ pg_based \in PgBased /\ produced = 0 /\ saved = 0
  /\ tmpExists \in BOOLEAN                 \* work_dir is never cleaned
  /\ hist = <<>> /\ got = 0 /\ ended = FALSE /\ furthest = 0

-----------------------------------------------------------------------------
(* Opening.                                                                 *)

\* The whole document is in the file: it was there, or system() waited for
\* wvWare to write it.  A missing file is retried and then given up.
OpenForeground ==
  /\ phase = "closed" /\ FALSE \in Background
  /\ bgMode' = FALSE /\ fd' = "file"
  /\ \/ /\ phase' = IF pg_based THEN "unset" ELSE "open"
        /\ produced' = total /\ saved' = total /\ tmpExists' = TRUE
     \/ /\ ~tmpExists /\ phase' = "exited"
        /\ UNCHANGED <<produced, saved, tmpExists>>
  /\ UNCHANGED <<client, offsets, pipe_pos, file_pos, given>>

\* popen() starts the shell and returns at once.  Page based, the file is
\* there already (StartForeGroundSerializedNoConv).
Popen ==
  /\ phase = "closed" /\ TRUE \in Background /\ ~pg_based
  /\ phase' = "popened" /\ bgMode' = TRUE
  /\ UNCHANGED <<client, external, offsets, fd, pipe_pos, file_pos>>

\* The tmp file is opened once: the retry is an `if`, not a loop.  A failure
\* makes OpenFile return false, on which May12th::Init calls exit(0).
FopenTmp ==
  /\ phase = "popened"
  /\ IF tmpExists THEN phase' = "fopened" /\ fd' = "pipe"
                  ELSE phase' = "exited" /\ UNCHANGED fd
  /\ UNCHANGED <<client, external, offsets, bgMode, pipe_pos, file_pos>>

\* "Sync for the first word": one byte is read and pushed back.  With an
\* empty document Except_EOF leaves OpenFile and nothing catches it.
SyncFirst ==
  /\ phase = "fopened"
  /\ \/ /\ produced > 0
        /\ phase' = "open" /\ file_off' = 1 /\ pipe_pos' = 1 /\ ch_buf' = <<1>>
        /\ UNCHANGED bgMode
     \/ /\ total = 0 /\ tmpExists
        /\ phase' = "exited" /\ bgMode' = FALSE
        /\ UNCHANGED <<file_off, pipe_pos, ch_buf>>
  /\ UNCHANGED <<client, external, bg_off, term_off, fd, file_pos>>

\* The shell starts tee, which creates or truncates the tmp file ...
TeeOpens ==
  /\ bgMode /\ phase \in {"popened", "fopened"} /\ ~tmpExists
  /\ tmpExists' = TRUE
  /\ UNCHANGED <<client, offsets, handles, given, produced, saved>>

\* ... and then copies: to its standard output first, to the file after it.
TeeToPipe ==
  /\ phase \in {"popened", "fopened", "open"} /\ tmpExists
  /\ produced < total
  /\ Lag # 0 => produced - saved < Lag
  /\ produced' = produced + 1
  /\ saved' = IF Lag = 0 THEN produced + 1 ELSE saved
  /\ UNCHANGED <<client, offsets, handles, given, tmpExists>>

TeeToFile ==
  /\ saved < produced
  /\ saved' = saved + 1
  /\ UNCHANGED <<client, offsets, handles, given, produced, tmpExists>>

-----------------------------------------------------------------------------
(* GetChar.                                                                 *)

\* The byte is handed to the parser.
Deliver(b) ==
  /\ got' = b /\ hist' = Append(hist, b) /\ ended' = FALSE
  /\ furthest' = IF CurOffset + 1 > furthest THEN CurOffset + 1 ELSE furthest

ReadFdTooLate ==                                                          \* mutant
  IF bgMode /\ fd = "file" /\ file_off > bg_off THEN "pipe" ELSE fd
ReadFdStays == fd                                                         \* mutant

\* The descriptor getc uses: the pipe again once the copy has been read up
\* to where the pipe stands.
ReadFd ==
  IF bgMode /\ fd = "file" /\ file_off >= bg_off THEN "pipe" ELSE fd

\* pg_based_render: the page ends at term_off, whatever was pushed back.
ReadTerm ==
  /\ phase = "open" /\ pg_based /\ file_off >= term_off
  /\ ended' = TRUE /\ got' = 0
  /\ UNCHANGED <<hist, furthest, external, offsets, handles>>

MayReadOn == phase = "open"                                               \* mutant
MayRead == phase = "open" /\ ~(pg_based /\ file_off >= term_off)

ReadPushed ==
  /\ MayRead /\ ch_buf # <<>>
  /\ Deliver(Top(ch_buf))
  /\ ch_buf' = Pop(ch_buf)
  /\ UNCHANGED <<external, handles, file_off, bg_off, term_off>>

ReadByte ==
  /\ MayRead /\ ch_buf = <<>>
  /\ fd' = ReadFd
  /\ \/ /\ ReadFd = "pipe" /\ pipe_pos < produced
        /\ pipe_pos' = pipe_pos + 1
        /\ Deliver(pipe_pos + 1)
        /\ UNCHANGED file_pos
     \/ /\ ReadFd = "file" /\ file_pos < saved
        /\ file_pos' = file_pos + 1
        /\ Deliver(file_pos + 1)
        /\ UNCHANGED pipe_pos
  /\ file_off' = file_off + 1
  /\ UNCHANGED <<external, phase, bgMode, bg_off, term_off, ch_buf>>

\* getc returned EOF: the pipe is closed, or the file has no more bytes now.
ReadEof ==
  /\ MayRead /\ ch_buf = <<>>
  /\ \/ ReadFd = "pipe" /\ pipe_pos = produced /\ produced = total
     \/ ReadFd = "file" /\ file_pos >= saved
  /\ fd' = ReadFd
  /\ bgMode' = FALSE
  /\ ended' = TRUE /\ got' = 0
  /\ UNCHANGED <<hist, furthest, external, offsets, phase, pipe_pos, file_pos>>

\* UnGetChar: the parser gives back the last byte it took.
UnGet ==
  /\ phase = "open" /\ hist # <<>> /\ Len(ch_buf) < MaxPush
  /\ ch_buf' = Append(ch_buf, Top(hist))
  /\ hist' = Pop(hist)
  /\ got' = 0 /\ ended' = FALSE
  /\ UNCHANGED <<furthest, external, handles, file_off, bg_off, term_off>>

-----------------------------------------------------------------------------
(* SetOffset and SetTermOff, called by DocParser::RestoreDocState.          *)

Restorable == IF TRUE \in Background /\ ~pg_based THEN 0 .. furthest ELSE 0 .. total

\* The parser forgets what it had read and asks for offset off.
Restores(off) ==
  /\ phase \in {"open", "unset"} /\ phase' = "open"
  /\ off \in Restorable
  /\ bgMode => ReadFd \in SeekFrom
  /\ IF pg_based THEN \E t \in off .. total : term_off' = t ELSE UNCHANGED term_off
  /\ hist' = <<>> /\ got' = 0 /\ ended' = FALSE
  /\ UNCHANGED <<furthest, external, pipe_pos, bgMode>>

SeekForegroundOffByOne(off) ==                                            \* mutant
  /\ Restores(off) /\ ~bgMode
  /\ file_pos' = IF fd = "file" THEN off ELSE file_pos
  /\ ch_buf' = <<>> /\ file_off' = off - 1
  /\ UNCHANGED <<bg_off, fd>>

\* fseek fails on a pipe, and file_off moves all the same.
SeekForeground(off) ==
  /\ Restores(off) /\ ~bgMode
  /\ file_pos' = IF fd = "file" THEN off ELSE file_pos
  /\ ch_buf' = <<>> /\ file_off' = off
  /\ UNCHANGED <<bg_off, fd>>

SeekBackToTarget(off) ==                                                  \* mutant
  /\ Restores(off) /\ bgMode /\ off <= file_off
  /\ fd' = "file" /\ file_pos' = off /\ bg_off' = off
  /\ ch_buf' = <<>> /\ file_off' = off

\* Switch to the copy, remembering where the pipe stands.
SeekBack(off) ==
  /\ Restores(off) /\ bgMode /\ off <= file_off
  /\ fd' = "file" /\ file_pos' = off /\ bg_off' = file_off
  /\ ch_buf' = <<>> /\ file_off' = off

\* "This really should not happen": logged, and nothing changes.
SeekRefused(off) ==
  /\ Restores(off) /\ bgMode /\ off > file_off
  /\ UNCHANGED <<fd, file_pos, file_off, bg_off, ch_buf>>

SetOffset == \E off \in 0 .. MaxLen :
               SeekForeground(off) \/ SeekBack(off) \/ SeekRefused(off)

CloseFile ==
  /\ phase = "open"
  /\ phase' = "done"
  /\ UNCHANGED <<client, external, offsets, bgMode, fd, pipe_pos, file_pos>>

Producer == TeeOpens \/ TeeToPipe \/ TeeToFile
Opening  == OpenForeground \/ Popen \/ FopenTmp \/ SyncFirst
GetChar  == ReadTerm \/ ReadPushed \/ ReadByte \/ ReadEof

Next == Producer \/ Opening \/ GetChar \/ UnGet \/ SetOffset \/ CloseFile

Spec == Init /\ [][Next]_vars
-----------------------------------------------------------------------------
(* Properties.                                                              *)

\* Types, and the bounds the external processes keep.
TypeOK ==
  /\ phase \in {"closed", "popened", "fopened", "unset", "open", "done", "exited"}
  /\ bgMode \in BOOLEAN /\ ended \in BOOLEAN /\ tmpExists \in BOOLEAN
  /\ pg_based \in PgBased
  /\ fd \in {"pipe", "file"}
  /\ file_off \in Nat /\ bg_off \in Nat /\ term_off \in Nat
  /\ pipe_pos \in Nat /\ file_pos \in Nat
  /\ total \in 0 .. MaxLen /\ produced \in 0 .. total /\ saved \in 0 .. produced
  /\ ch_buf \in Seq(Nat) /\ hist \in Seq(Nat) /\ got \in Nat /\ furthest \in Nat

\* The byte GetChar returns is the one at the offset GetCurOffset reports:
\* what a saved offset is worth, since DocState keeps nothing else of the
\* stream (DocStream::GetCurOffset, DocParser::ShadowDocState).
Faithful == got # 0 => got = CurOffset

\* While the converter runs, the stream's idea of its position never passes
\* what has been taken from the pipe, however the parser seeks and pushes back
\* ("to avoid reading ahead of generating", DocStream::GetChar).
NoReadAhead == bgMode => file_off <= pipe_pos /\ bg_off <= pipe_pos

\* Whatever the stream gets wrong in the background, it can only skip bytes:
\* it never hands out one that lies before the offset it reports.
NeverBehind == got # 0 => got >= CurOffset

\* The end of the document is discovered only where it is: the step that
\* leaves the background mode has consumed every byte (DocStream::GetChar).
EndDiscoveredAtEnd == [][bgMode /\ ~bgMode' => CurOffset' = total]_vars

\* The parser is told that the document ends only at its end.
EndIsTheEnd == ended => CurOffset = total

\* DocStream.h: bg_off is the "current background parsing offset".
BgOffIsParsingOffset == bgMode /\ fd = "file" => bg_off = pipe_pos

\* DocStream::SetOffset: being asked for an offset ahead of the stream
\* "really should not happen".
SeekNeverRefused == [][~ \E off \in 0 .. MaxLen : SeekRefused(off)]_vars

\* A document that is not empty can be opened (DocStream::OpenFile).
OpenSucceeds == phase = "exited" => total = 0

\* Page based: a page that is shown again never runs into the next one, even
\* when its bytes are pushed back and read again (DocStream::GetChar).
StaysInPage == pg_based /\ got # 0 => got <= term_off

\* Page based: reading stops at term_off and not before it (DocStream.h).
PageReadToTermOff == pg_based /\ ended => CurOffset >= term_off \/ CurOffset = total

\* In the foreground the stream is the cursor the parser expects.
Document == INSTANCE Cursor WITH pos <- CurOffset
IsCursor == Document!Spec
=============================================================================
