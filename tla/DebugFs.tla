------------------------------ MODULE DebugFs ------------------------------
(***************************************************************************)
(* The write-only partition through which the system hands files to the   *)
(* host: asmg/debugfs.g writes it, extract_debugfs.py reads it after the   *)
(* machine has stopped, at whatever point that was.                        *)
(* The program that writes is debugfs_copy_file: it begins a file, writes  *)
(* its bytes and finishes it.                                              *)
(***************************************************************************)
EXTENDS Prefixes

CONSTANTS
  Filenames,  \* sequences of bytes other than 0, shorter than a sector
  Chars,      \* bytes of the files; none is 0, which the host strips
  SECT,       \* 512: bytes of a sector
  SIZE,       \* sectors of the partition, the first one with the magic number
  MaxLen,     \* bound: bytes of a file
  MaxBoots    \* bound: times the machine is started with this disk

VARIABLES
  disk,     \* the sectors 1 .. SIZE - 1
  pos,      \* DEBUGFS_POS, from the start of the partition
  buf,      \* DEBUGFS_BUF: the bytes put into it, or NoBuf
  ending,   \* debugfsinst_finish_file is about to write the empty sector
  files,    \* the files that were finished since the machine was started
  current,  \* the file that is being written
  boots, panicked

vars == <<disk, pos, buf, ending, files, current, boots, panicked>>

NoBuf == <<-1>>
NoFile == [name |-> <<>>, body |-> <<>>]
Zeros == [i \in 1 .. SECT |-> 0]

\* Mutant: the rest of the buffer is not cleared.
Padded_Dirty(b) == [i \in 1 .. SECT |-> IF i <= Len(b) THEN b[i] ELSE 1]

\* calloc, and the bytes that were put into the buffer.
Padded(b) == [i \in 1 .. SECT |-> IF i <= Len(b) THEN b[i] ELSE 0]

Init ==
  /\ disk = [k \in 1 .. SIZE - 1 |-> Zeros]
  /\ pos = 1 /\ buf = NoBuf /\ ending = FALSE
  /\ files = <<>> /\ current = NoFile
  /\ boots = 1 /\ panicked = FALSE

\* atapio_write_sect at the current position, after the check of the limit.
WriteSector(content) ==
  /\ panicked' = (pos = SIZE)
  /\ IF pos = SIZE THEN UNCHANGED <<disk, pos>>
     ELSE disk' = [disk EXCEPT ![pos] = content] /\ pos' = pos + 1

\* debugfsinst_begin_file, which asserts that no file is open.
begin_file(f) ==
  /\ buf = NoBuf
  /\ buf' = <<>>
  /\ WriteSector(Padded(f))
  /\ current' = [name |-> f, body |-> <<>>]
  /\ UNCHANGED <<ending, files, boots>>

write_char(c) ==
  /\ buf # NoBuf /\ ~ending /\ Len(current.body) < MaxLen
  /\ IF Len(buf) = SECT - 1 THEN WriteSector(Append(buf, c)) /\ buf' = <<>>
     ELSE buf' = Append(buf, c) /\ UNCHANGED <<disk, pos, panicked>>
  /\ current' = [current EXCEPT !.body = Append(@, c)]
  /\ UNCHANGED <<ending, files, boots>>

\* debugfsinst_finish_file, up to the first sector it writes.
finish_file ==
  /\ buf # NoBuf /\ ~ending
  /\ IF buf = <<>> THEN UNCHANGED <<disk, pos, panicked>> ELSE WriteSector(Padded(buf))
  /\ buf' = <<>> /\ ending' = TRUE
  /\ UNCHANGED <<files, current, boots>>

\* Mutant: no sector separates the file from the next one.
write_empty_sector_Skip ==
  /\ ending
  /\ buf' = NoBuf /\ ending' = FALSE
  /\ files' = Append(files, current) /\ current' = NoFile
  /\ UNCHANGED <<disk, pos, boots, panicked>>

\* The rest of it.
write_empty_sector ==
  /\ ending
  /\ WriteSector(Zeros)
  /\ IF panicked' THEN UNCHANGED <<buf, ending, files, current>>
     ELSE /\ buf' = NoBuf /\ ending' = FALSE
          /\ files' = Append(files, current) /\ current' = NoFile
  /\ UNCHANGED boots

\* The machine is started again, on purpose or after a panic; debugfsinst_init.
boot ==
  /\ boots < MaxBoots
  /\ boots' = boots + 1
  /\ pos' = 1 /\ buf' = NoBuf /\ ending' = FALSE /\ panicked' = FALSE
  /\ files' = <<>> /\ current' = NoFile
  /\ UNCHANGED disk

Next ==
  \/ boot
  \/ /\ ~panicked
     /\ \/ \E f \in Filenames : begin_file(f)
        \/ \E c \in Chars : write_char(c)
        \/ finish_file \/ write_empty_sector

Spec == Init /\ [][Next]_vars

----------------------------------------------------------------------------
(* extract_debugfs.py *)

\* The bytes that are not 0.
Stripped(sector) == Joins([i \in DOMAIN sector |-> IF sector[i] = 0 THEN <<>> ELSE <<sector[i]>>])[Len(sector)]

\* The state of the script after a sector: the files it wrote, and the one it
\* is writing, if any.  An empty name ends it.
Reading(found, name, body, done) == [found |-> found, name |-> name, body |-> body, done |-> done]

Sector(r, sector) ==
  CASE r.done -> r
    [] ~r.done /\ r.name = <<>> ->
         Reading(r.found, Stripped(sector), <<>>, Stripped(sector) = <<>>)
    [] ~r.done /\ r.name # <<>> /\ sector = Zeros ->
         Reading(Append(r.found, [name |-> r.name, body |-> r.body]), <<>>, <<>>, FALSE)
    [] OTHER -> Reading(r.found, r.name, r.body \o Stripped(sector), FALSE)

\* Its state after each sector, and at the end.
extracting(sectors) ==
  LET R[k \in 0 .. SIZE - 1] ==
        IF k = 0 THEN Reading(<<>>, <<>>, <<>>, FALSE) ELSE Sector(R[k - 1], sectors[k])
  IN  R
extract == extracting(disk)[SIZE - 1]

----------------------------------------------------------------------------
(* Properties *)

\* Wherever the machine stops, the host finds every file that was finished,
\* whole and in order, also on a disk that an earlier run left full of files.
FinishedFilesSurvive ==
  LET found == extract.found
  IN  Len(files) <= Len(found) /\ SubSeq(found, 1, Len(files)) = files

\* On a new disk it finds nothing else than these and the file that was being
\* written, of which it has a beginning.
IsPrefix(a, b) == Len(a) <= Len(b) /\ SubSeq(b, 1, Len(a)) = a

NothingElse ==
  LET found == extract.found
      last == found[Len(found)]
  IN  boots = 1 =>
        \/ Len(found) = Len(files)
        \/ /\ Len(found) = Len(files) + 1
           /\ last.name = current.name
           /\ IsPrefix(last.body, current.body)
=============================================================================
