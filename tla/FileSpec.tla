------------------------------ MODULE FileSpec ------------------------------
(***************************************************************************)
(* What the file systems behind vfs.g promise to a program that opens,     *)
(* reads, writes and seeks: a file is a sequence of bytes shared by all    *)
(* its descriptors, and a descriptor is a file with a position.  What is   *)
(* read is the byte at the position; EOF comes at the end only.  A read at *)
(* the end may or may not move the position, and a call at a position      *)
(* outside the file may stop the system.                                   *)
(***************************************************************************)
EXTENDS Integers, Sequences

CONSTANTS
  Names, Bytes, Fds, EOF,
  Volatile   \* the files that are in memory only

VARIABLES
  content,  \* for every file, its bytes
  fds,      \* for every open descriptor, its file and its position
  out       \* what the last call returned

Open(f) == [file |-> f, pos |-> 0]
With(g, x, y) == [z \in DOMAIN g \union {x} |-> IF z = x THEN y ELSE g[z]]

Init == fds = [d \in {} |-> 0] /\ out = 0

vfs_open ==
  /\ \E d \in Fds \ DOMAIN fds, f \in Names : fds' = With(fds, d, Open(f))
  /\ UNCHANGED <<content, out>>

vfs_close ==
  /\ \E d \in DOMAIN fds : fds' = [e \in DOMAIN fds \ {d} |-> fds[e]]
  /\ UNCHANGED <<content, out>>

vfs_read(d) ==
  LET f == fds[d].file
      p == fds[d].pos
  IN  /\ 0 <= p /\ p <= Len(content[f])
      /\ out' = IF p = Len(content[f]) THEN EOF ELSE content[f][p + 1]
      /\ \/ fds' = [fds EXCEPT ![d].pos = p + 1]
         \/ p = Len(content[f]) /\ UNCHANGED fds
      /\ UNCHANGED content

vfs_write(d) ==
  LET f == fds[d].file
      p == fds[d].pos
  IN  /\ 0 <= p /\ p <= Len(content[f])
      /\ fds' = [fds EXCEPT ![d].pos = p + 1]
      /\ \E c \in Bytes :
           content' = [content EXCEPT ![f] = IF p = Len(@) THEN Append(@, c) ELSE [@ EXCEPT ![p + 1] = c]]
      /\ UNCHANGED out

vfs_truncate(d) == content' = [content EXCEPT ![fds[d].file] = <<>>] /\ UNCHANGED <<fds, out>>

\* The position that is returned is the one the next call finds, and it is
\* never past the end.
vfs_seek(d) ==
  /\ out' <= Len(content[fds[d].file])
  /\ fds' = [fds EXCEPT ![d].pos = out']
  /\ UNCHANGED content

\* The machine is started again.
restart ==
  /\ fds' = [d \in {} |-> 0] /\ out' = 0
  /\ content' = [f \in DOMAIN content |-> IF f \in Volatile THEN <<>> ELSE content[f]]

Next ==
  \/ restart
  \/ vfs_open \/ vfs_close
  \/ \E d \in DOMAIN fds : vfs_read(d) \/ vfs_write(d) \/ vfs_truncate(d) \/ vfs_seek(d)

Spec == Init /\ [][Next]_<<content, fds, out>>
=============================================================================
