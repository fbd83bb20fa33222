------------------------------- MODULE InitFs -------------------------------
(***************************************************************************)
(* The files that come with the kernel: an archive behind it in memory,    *)
(* which lib/ar.asm walks, the table of open files of lib/kernel.asm, and  *)
(* the descriptors that asmg/vfs.g makes of it for /init.  The archive is  *)
(* written by ar: a magic number, and for every file a header with its     *)
(* name and size, its bytes, and a newline if they are odd in number.      *)
(***************************************************************************)
EXTENDS Prefixes

CONSTANTS
  Archive,            \* what ar was given: records of a name and a body (bytes)
  Fds,
  MAGIC_LEN,          \* 8
  HEADER_LEN,         \* 60
  MAX_OPEN_FILE_NUM   \* 1024

EOF == -1

VARIABLES
  open_files,   \* for every file that was opened: begin, pos and end in memory
  fds,          \* descriptors: their place in that table
  out           \* what the last call returned

vars == <<open_files, fds, out>>

With(g, x, y) == [z \in DOMAIN g \union {x} |-> IF z = x THEN y ELSE g[z]]

----------------------------------------------------------------------------
(* The archive; a header is one cell with what is in it, and empty cells *)

IsArchive ==
  /\ Archive \in Seq([name : Seq(1 .. 255), body : Seq(0 .. 255)])
  /\ \A i, j \in DOMAIN Archive : Archive[i].name = Archive[j].name => i = j

Member(file) ==
  <<[name |-> file.name, size |-> Len(file.body)]>> \o [i \in 1 .. HEADER_LEN - 1 |-> 0]
  \o file.body \o (IF Len(file.body) % 2 = 1 THEN <<10>> ELSE <<>>)

initrd ==
  [i \in 1 .. MAGIC_LEN |-> 0] \o Joins([i \in DOMAIN Archive |-> Member(Archive[i])])[Len(Archive)]
Cell(a) == initrd[a + 1]

\* `sub esi, 1', `or esi, 1', `add esi, 1'.
NextHeader(a, size) == LET b == a + HEADER_LEN + size - 1 IN (IF b % 2 = 0 THEN b + 1 ELSE b) + 1

\* The headers, in the order in which the walk comes to them.
HeaderAt[k \in 1 .. Len(Archive)] ==
  IF k = 1 THEN MAGIC_LEN ELSE NextHeader(HeaderAt[k - 1], Cell(HeaderAt[k - 1]).size)

\* The walk ends at the first header with the name.  A file that is not in the
\* archive is sought beyond its end: programs open only those that are.
walk_initrd(name) ==
  LET k == CHOOSE k \in DOMAIN HeaderAt :
             /\ Cell(HeaderAt[k]).name = name
             /\ \A j \in 1 .. k - 1 : Cell(HeaderAt[j]).name # name
      begin == HeaderAt[k] + HEADER_LEN
  IN  [begin |-> begin, end |-> begin + Cell(HeaderAt[k]).size]

----------------------------------------------------------------------------
(* The kernel's calls and the descriptors of /init *)

Init == open_files = <<>> /\ fds = [d \in {} |-> 0] /\ out = 0

FileNames == {Archive[i].name : i \in DOMAIN Archive}
Body(name) == Archive[CHOOSE i \in DOMAIN Archive : Archive[i].name = name].body

\* platform_open_file has no check of the table of files: it is a bound here.
initfd_init(name, d) ==
  LET f == walk_initrd(name)
  IN  /\ Len(open_files) < MAX_OPEN_FILE_NUM
      /\ open_files' = Append(open_files, [name |-> name, begin |-> f.begin, pos |-> f.begin, end |-> f.end])
      /\ fds' = With(fds, d, Len(open_files) + 1)
      /\ UNCHANGED out

\* The file remains in the table.
initfd_destroy(d) == fds' = [e \in DOMAIN fds \ {d} |-> fds[e]] /\ UNCHANGED <<open_files, out>>

File(d) == open_files[fds[d]]

platform_read_char(d) ==
  /\ out' = IF File(d).pos = File(d).end THEN EOF ELSE Cell(File(d).pos)
  /\ open_files' = [open_files EXCEPT ![fds[d]].pos = IF @ = File(d).end THEN @ ELSE @ + 1]
  /\ UNCHANGED fds

\* The only seek is the one to the beginning; initfd_seek stops the system for
\* any other.
initfd_seek(d) ==
  /\ open_files' = [open_files EXCEPT ![fds[d]].pos = File(d).begin]
  /\ out' = 0
  /\ UNCHANGED fds

Next ==
  \/ \E d \in Fds \ DOMAIN fds, name \in FileNames : initfd_init(name, d)
  \/ \E d \in DOMAIN fds : initfd_destroy(d) \/ platform_read_char(d) \/ initfd_seek(d)

Spec == Init /\ [][Next]_vars
=============================================================================
