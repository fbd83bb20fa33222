------------------------------- MODULE RamFs -------------------------------
(***************************************************************************)
(* The file system in memory (asmg/ramfs.g) behind the calls of            *)
(* asmg/vfs.g.  The bytes of a file are kept in a vector of words; its     *)
(* size is a field of its own.  Files are created by the first open and    *)
(* live until the mount is destroyed.                                      *)
(***************************************************************************)
EXTENDS Integers, Sequences

CONSTANTS
  Names,       \* file names, below the mount point
  Bytes,
  Fds,         \* descriptors, as the addresses malloc returns
  Offsets,     \* what programs pass to vfs_seek
  MaxSize,     \* bound: bytes of a file
  WORD         \* 4: bytes of a word

EOF == -1
SEEK_SET == 0
SEEK_CUR == 1
SEEK_END == 2

VARIABLES
  files,    \* the files that exist: size, and the bytes of the vector
  fds,      \* open descriptors: file and position
  out,      \* what the last call returned
  panicked  \* the assertion that failed, or "no"

vars == <<files, fds, out, panicked>>

With(g, x, y) == [z \in DOMAIN g \union {x} |-> IF z = x THEN y ELSE g[z]]

ramfile_init == [size |-> 0, data |-> <<>>]
ramfd_init(f) == [file |-> f, pos |-> 0]

Init ==
  /\ files = [f \in {} |-> ramfile_init]
  /\ fds = [d \in {} |-> 0]
  /\ out = 0 /\ panicked = "no"

Panic(msg) == panicked' = msg /\ UNCHANGED <<files, fds, out>>

rammount_open(f) == IF f \in DOMAIN files THEN files ELSE With(files, f, ramfile_init)

vfs_open(f, d) ==
  /\ files' = rammount_open(f)
  /\ fds' = With(fds, d, ramfd_init(f))
  /\ UNCHANGED <<out, panicked>>

vfs_close(d) ==
  /\ fds' = [e \in DOMAIN fds \ {d} |-> fds[e]]
  /\ UNCHANGED <<files, out, panicked>>

File(d) == files[fds[d].file]
Pos(d) == fds[d].pos

ramfile_read(file, pos) == IF pos = file.size THEN EOF ELSE file.data[pos + 1]

\* The assertion that a read of d fails, or "no".
ReadPanic(d) ==
  CASE Pos(d) > File(d).size -> "ramfile_read: invalid read position"
    [] Pos(d) < File(d).size /\ Pos(d) >= Len(File(d).data) -> "ramfile_read: error 1"
    [] OTHER -> "no"

ramfd_read(d) ==
  IF ReadPanic(d) # "no" THEN Panic(ReadPanic(d))
  ELSE /\ out' = ramfile_read(File(d), Pos(d))
       /\ fds' = [fds EXCEPT ![d].pos = @ + 1]
       /\ UNCHANGED <<files, panicked>>

\* Mutant: the vector grows one byte late.
Grown_Late(file, pos) ==
  IF pos # file.size THEN file
  ELSE [size |-> file.size + 1,
        data |-> IF pos = Len(file.data) + 1 THEN file.data \o [i \in 1 .. WORD |-> 0] ELSE file.data]

\* The file when the byte at pos is about to be written.
Grown(file, pos) ==
  IF pos # file.size THEN file
  ELSE [size |-> file.size + 1,
        data |-> IF pos = Len(file.data) THEN file.data \o [i \in 1 .. WORD |-> 0] ELSE file.data]

WritePanic(d, g) ==
  CASE Pos(d) > File(d).size -> "ramfile_write: invalid write position"
    [] Pos(d) <= File(d).size /\ Pos(d) >= g.size -> "ramfile_write: error 1"
    [] Pos(d) < g.size /\ Pos(d) >= Len(g.data) -> "ramfile_write: error 2"
    [] OTHER -> "no"

ramfd_write(d, c) ==
  LET g == Grown(File(d), Pos(d))
  IN  /\ Pos(d) < MaxSize
      /\ IF WritePanic(d, g) # "no" THEN Panic(WritePanic(d, g))
         ELSE /\ files' = [files EXCEPT ![fds[d].file] = [g EXCEPT !.data[Pos(d) + 1] = c]]
              /\ fds' = [fds EXCEPT ![d].pos = @ + 1]
              /\ UNCHANGED <<out, panicked>>

ramfd_truncate(d) ==
  /\ files' = [files EXCEPT ![fds[d].file] = ramfile_init]
  /\ UNCHANGED <<fds, out, panicked>>

Target(d, off, whence) ==
  LET to == CASE whence = SEEK_CUR -> off + Pos(d)
              [] whence = SEEK_END -> off + File(d).size
              [] OTHER -> off
  IN  IF to > File(d).size THEN File(d).size ELSE to

\* The code limits the position at the end of the file only; programs that
\* seek to before the start, and then read or write other memory, are excluded.
ramfd_seek(d, off, whence) ==
  LET to == Target(d, off, whence)
  IN  /\ to >= 0
      /\ fds' = [fds EXCEPT ![d].pos = to]
      /\ out' = to
      /\ UNCHANGED <<files, panicked>>

Next ==
  /\ panicked = "no"
  /\ \/ \E f \in Names, d \in Fds \ DOMAIN fds : vfs_open(f, d)
     \/ \E d \in DOMAIN fds :
          \/ vfs_close(d) \/ ramfd_read(d) \/ ramfd_truncate(d)
          \/ \E c \in Bytes : ramfd_write(d, c)
          \/ \E off \in Offsets, whence \in {SEEK_SET, SEEK_CUR, SEEK_END} : ramfd_seek(d, off, whence)

Spec == Init /\ [][Next]_vars

----------------------------------------------------------------------------
(* Properties *)

\* Descriptors refer to files that exist.
TypeOK == \A d \in DOMAIN fds : fds[d].file \in DOMAIN files /\ Pos(d) \in Int

\* The vector of a file has room for its size and less than a word more, and the
\* internal assertions ("error 1", "error 2") never fail, whatever is read,
\* written, truncated and sought through several descriptors of a file.
InternalAssertions ==
  /\ TypeOK
  /\ \A f \in DOMAIN files :
       /\ files[f].size \in 0 .. Len(files[f].data)
       /\ Len(files[f].data) < files[f].size + WORD
       /\ Len(files[f].data) % WORD = 0
  /\ panicked \notin {"ramfile_read: error 1", "ramfile_write: error 1", "ramfile_write: error 2"}

\* The bytes of a file.
Stored(f) == IF f \in DOMAIN files THEN SubSeq(files[f].data, 1, files[f].size) ELSE <<>>

\* A program that reads until EOF, and writes and seeks within the file, never
\* fails the assertions on the position.
PositionsValid ==
  panicked \notin {"ramfile_read: invalid read position", "ramfile_write: invalid write position"}
=============================================================================
