--------------------------------- MODULE Vfs ---------------------------------
(***************************************************************************)
(* The virtual file system (asmg/vfs.g) over its three file systems:       *)
(* /init, the files that come with the kernel (InitFs); /ram, files in     *)
(* memory (RamFs); /disk1, a read-only partition (DiskFs).  Descriptors    *)
(* are addresses that malloc returns, whatever the file system.            *)
(*                                                                         *)
(* Two kinds of users: programs, which make any sequence of calls and use  *)
(* the functions of the C library that make several (fcntl.h, stdio.h);    *)
(* and debugfs_copy_file, which copies files to the partition of DebugFs   *)
(* for the host, while the machine may stop and be started again.          *)
(***************************************************************************)
EXTENDS Integers, Sequences, FiniteSets

CONSTANTS
  Names, Bytes, MaxSize, WORD,                          \* RamFs
  Archive, MAGIC_LEN, HEADER_LEN, MAX_OPEN_FILE_NUM,    \* InitFs
  Images, SECT, BASE, PART, HUGE, MAGIC,                \* DiskFs
  Filenames, SIZE, MaxLen, MaxBoots,                    \* DebugFs
  Fds,
  Offsets,     \* what programs pass to vfs_seek
  Texts        \* what programs pass to fputs and fwrite

ASSUME RamConstants == Bytes \subseteq 0 .. 255 /\ MaxSize \in Nat /\ WORD \in Nat \ {0}
ASSUME ProgramConstants == Offsets \subseteq Int /\ Texts \subseteq Seq(Bytes)

VARIABLES
  user,                                             \* "programs" or "copies"
  out,                                              \* what the last call returned
  doing,                                            \* the function that makes several calls
  halted,                                           \* a call that is not supported was made
  files, ramfds, rampanic,                          \* RamFs
  open_files, initfds,                              \* InitFs
  image, disk, table, scan, diskfds, diskpanic,     \* DiskFs
  sectors, pos, buf, ending, copied, current, boots, debugpanic   \* DebugFs

ramVars == <<files, ramfds, rampanic>>
initVars == <<open_files, initfds>>
diskVars == <<image, disk, table, scan, diskfds, diskpanic>>
debugVars == <<sectors, pos, buf, ending, copied, current, boots, debugpanic>>
vars == <<user, out, doing, halted, ramVars, initVars, diskVars, debugVars>>

Ram == INSTANCE RamFs WITH fds <- ramfds, panicked <- rampanic
InitFiles == INSTANCE InitFs WITH fds <- initfds
Disk == INSTANCE DiskFs WITH fds <- diskfds, panicked <- diskpanic
Debug == INSTANCE DebugFs
  WITH Chars <- Bytes \ {0}, disk <- sectors, files <- copied, panicked <- debugpanic

\* The archive has even sizes and a name for every file; an image is one that
\* create_diskfs.py writes, on sectors of more than a byte.
ASSUME InitConstants ==
  /\ InitFiles!IsArchive /\ MAX_OPEN_FILE_NUM \in Nat
  /\ MAGIC_LEN \in Nat /\ MAGIC_LEN % 2 = 0
  /\ HEADER_LEN \in Nat \ {0} /\ HEADER_LEN % 2 = 0
ASSUME DiskConstants ==
  /\ SECT \in Nat \ {0, 1} /\ BASE \in Nat \ {0} /\ MAGIC \in Nat \ {0} /\ HUGE \in Nat
  /\ PART \in Nat /\ PART % SECT = 0
  /\ \A im \in Images : Disk!IsImage(im)

\* Names of copies fit in a sector; the host strips zeros.
ASSUME DebugConstants ==
  /\ SIZE \in Nat \ {0} /\ MaxLen \in Nat /\ MaxBoots \in Nat
  /\ Filenames \subseteq Seq(1 .. 255) /\ \A f \in Filenames : Len(f) \in 1 .. SECT - 1
  /\ \A im \in Images \union {Archive} : \A i \in DOMAIN im :
       im[i].name \in Filenames => \A j \in DOMAIN im[i].body : im[i].body[j] # 0

EOF == -1
Idle == [op |-> "none"]

Init ==
  /\ user \in {"programs", "copies"} /\ doing = Idle /\ halted = FALSE
  /\ Ram!Init /\ InitFiles!Init /\ Disk!Init /\ Debug!Init

----------------------------------------------------------------------------
(* vfs.g *)

Used == DOMAIN ramfds \union DOMAIN initfds \union DOMAIN diskfds
Mounted == scan.phase = "done"

\* The files that can be opened.  /ram has every name; open returns 0 for one
\* that /disk1 does not have.
Path(mount, name) == [mount |-> mount, name |-> name]
RamPaths == {Path("ram", n) : n \in Names}
Paths == RamPaths \union {Path("init", n) : n \in InitFiles!FileNames}
         \union {Path("disk1", n) : n \in DOMAIN table}

\* vfsinst_open: the mount point decides.
vfs_open(path, d) ==
  CASE path.mount = "ram" -> Ram!vfs_open(path.name, d) /\ UNCHANGED <<initVars, diskVars>>
    [] path.mount = "init" -> InitFiles!initfd_init(path.name, d) /\ UNCHANGED <<ramVars, diskVars>>
    [] path.mount = "disk1" -> Disk!diskmount_open(path.name, d) /\ UNCHANGED <<ramVars, initVars>>

vfs_close(d) ==
  CASE d \in DOMAIN ramfds -> Ram!vfs_close(d) /\ UNCHANGED <<initVars, diskVars>>
    [] d \in DOMAIN initfds -> InitFiles!initfd_destroy(d) /\ UNCHANGED <<ramVars, diskVars>>
    [] d \in DOMAIN diskfds -> Disk!diskfd_destroy(d) /\ UNCHANGED <<ramVars, initVars>>

vfs_read(d) ==
  CASE d \in DOMAIN ramfds -> Ram!ramfd_read(d) /\ UNCHANGED <<initVars, diskVars>>
    [] d \in DOMAIN initfds -> InitFiles!platform_read_char(d) /\ UNCHANGED <<ramVars, diskVars>>
    [] d \in DOMAIN diskfds -> Disk!diskfd_read(d) /\ UNCHANGED <<ramVars, initVars>>

\* "not supported": the assertion of initfd_write, diskfd_truncate and others.
NotSupported == halted' = TRUE /\ UNCHANGED <<out, ramVars, initVars, diskVars>>

vfs_write(d, c) ==
  IF d \in DOMAIN ramfds
  THEN Ram!ramfd_write(d, c) /\ UNCHANGED <<halted, initVars, diskVars>> ELSE NotSupported
vfs_truncate(d) ==
  IF d \in DOMAIN ramfds
  THEN Ram!ramfd_truncate(d) /\ UNCHANGED <<halted, initVars, diskVars>> ELSE NotSupported

\* One call of one file system, with a descriptor that no other one has.
RamCall == Ram!Next /\ DOMAIN ramfds' \intersect (Used \ DOMAIN ramfds) = {} /\ UNCHANGED <<initVars, diskVars>>
InitCall ==
  InitFiles!Next /\ DOMAIN initfds' \intersect (Used \ DOMAIN initfds) = {} /\ UNCHANGED <<ramVars, diskVars>>
DiskCall == Disk!Calls /\ DOMAIN diskfds' \intersect (Used \ DOMAIN diskfds) = {} /\ UNCHANGED <<ramVars, initVars>>
Refused == \E d \in DOMAIN initfds \union DOMAIN diskfds : NotSupported

\* diskmount_init, which vfs_init calls.
Mounting == Disk!ScanByte /\ UNCHANGED <<user, doing, halted, ramVars, initVars, debugVars>>

----------------------------------------------------------------------------
(* The C library of programs *)

Writing(op, d, text) == [op |-> op, d |-> d, text |-> text, left |-> text, from |-> ramfds[d].pos]

\* open with anything but O_RDONLY (which O_RDWR is equal to): it truncates.
open(path, d) == vfs_open(path, d) /\ doing' = [op |-> "open", d |-> d] /\ UNCHANGED halted
Truncate ==
  /\ doing.op = "open"
  /\ vfs_truncate(doing.d) /\ doing' = Idle

\* fwrite and fputs on a stream.
BeginWrite ==
  \E d \in DOMAIN ramfds, op \in {"fputs", "fwrite"}, text \in Texts :
    /\ ramfds[d].pos + Len(text) <= MaxSize
    /\ doing' = Writing(op, d, text)
    /\ UNCHANGED <<out, halted, ramVars, initVars, diskVars>>

\* Mutant: fwrite stops as well.
Stops_Both(op, c) == c = 255

\* fputc returns its argument; as a char, 255 is EOF, at which fputs stops.
Stops(op, c) == op = "fputs" /\ c = 255
fputc ==
  /\ doing.op \in {"fputs", "fwrite"} /\ doing.left # <<>>
  /\ LET c == Head(doing.left)
     IN  /\ vfs_write(doing.d, c)
         /\ doing' = [doing EXCEPT !.left = IF Stops(doing.op, c) THEN <<>> ELSE Tail(@)]
EndWrite ==
  /\ doing.op \in {"fputs", "fwrite"} /\ doing.left = <<>>
  /\ doing' = Idle
  /\ UNCHANGED <<out, halted, ramVars, initVars, diskVars>>

Program ==
  /\ user = "programs" /\ Mounted
  /\ \/ doing = Idle /\ UNCHANGED <<doing, halted>> /\ (RamCall \/ InitCall \/ DiskCall)
     \/ doing = Idle /\ Refused /\ UNCHANGED doing
     \/ doing = Idle /\ \E path \in Paths, d \in Fds \ Used : open(path, d)
     \/ doing = Idle /\ BeginWrite
     \/ Truncate \/ fputc \/ EndWrite
  /\ UNCHANGED <<user, debugVars>>

----------------------------------------------------------------------------
(* debugfs_copy_file, under the name that the file has *)

Sources == {p \in Paths : p.mount # "ram" /\ p.name \in Filenames}
CopyBegins ==
  \E path \in Sources, d \in Fds :
    /\ doing = Idle /\ vfs_open(path, d) /\ Debug!begin_file(path.name)
    /\ doing' = [op |-> "copy", d |-> d, path |-> path]
CopyReads ==
  /\ doing.op = "copy" /\ ~ending /\ buf # Debug!NoBuf
  /\ vfs_read(doing.d)
  /\ IF out' = EOF THEN Debug!finish_file ELSE Debug!write_char(out')
  /\ UNCHANGED doing
CopyFinishes == Debug!write_empty_sector /\ UNCHANGED <<out, doing, ramVars, initVars, diskVars>>
CopyCloses ==
  /\ doing.op = "copy" /\ buf = Debug!NoBuf
  /\ vfs_close(doing.d) /\ doing' = Idle
  /\ UNCHANGED <<out, debugVars>>

\* The machine is started again: only the disks remain.
Boot ==
  /\ Debug!boot
  /\ doing' = Idle /\ out' = 0
  /\ files' = [f \in {} |-> 0] /\ ramfds' = [d \in {} |-> 0] /\ rampanic' = "no"
  /\ open_files' = <<>> /\ initfds' = ramfds'
  /\ diskfds' = ramfds'
  /\ UNCHANGED <<image, disk, table, scan, diskpanic>>

Copy ==
  /\ user = "copies" /\ Mounted
  /\ \/ Boot
     \/ ~debugpanic /\ (CopyBegins \/ CopyReads \/ CopyFinishes \/ CopyCloses)
  /\ UNCHANGED <<user, halted>>

----------------------------------------------------------------------------
Running == ~halted /\ rampanic = "no" /\ ~diskpanic
Next ==
  \/ Running /\ Mounting
  \/ Running /\ Program
  \/ Running /\ Copy
Spec == Init /\ [][Next]_vars

----------------------------------------------------------------------------
(* Properties *)

\* Programs see files and positions, whatever the file system and whatever
\* other descriptors there are: what is read is the byte at the position.
AllPaths ==
  RamPaths \union {Path("init", n) : n \in InitFiles!FileNames}
  \union {Path("disk1", n) : n \in UNION {{im[i].name : i \in DOMAIN im} : im \in Images}}
Content(p) ==
  CASE p.mount = "ram" -> Ram!Stored(p.name) [] p.mount = "init" -> InitFiles!Body(p.name)
    [] p.mount = "disk1" -> IF p.name \in Disk!FileNames THEN Disk!BodyOf(p.name) ELSE <<>>
OpenFile(d) ==
  CASE d \in DOMAIN ramfds -> [file |-> Path("ram", ramfds[d].file), pos |-> ramfds[d].pos]
    [] d \in DOMAIN initfds -> LET f == InitFiles!File(d)
                               IN  [file |-> Path("init", f.name), pos |-> f.pos - f.begin]
    [] d \in DOMAIN diskfds -> [file |-> Path("disk1", Disk!FileAt(diskfds[d].start, diskfds[d].size)),
                                pos |-> diskfds[d].pos]

Abstract == INSTANCE FileSpec
  WITH Names <- AllPaths, Volatile <- RamPaths, content <- [p \in AllPaths |-> Content(p)], fds <- [d \in Used |-> OpenFile(d)]
ImplementsFiles == Abstract!Spec

\* The vector behind a file in memory, the sector that a descriptor keeps, and
\* the table that mounting fills (see RamFs and DiskFs).
InternalAssertions == Ram!InternalAssertions
CacheIsCurrent == Disk!CacheIsCurrent
TableIsImage == Disk!TableIsImage

\* What fwrite and fputs leave in the file from where they started: all of the
\* text, or for fputs the text up to the first character that is EOF as a char.
UpToEOF(text) ==
  LET stops == {i \in DOMAIN text : text[i] = 255}
  IN  IF stops = {} THEN text ELSE SubSeq(text, 1, CHOOSE i \in stops : \A j \in stops : i <= j)
TextWritten ==
  Running /\ doing.op \in {"fputs", "fwrite"} /\ doing.left = <<>> =>
    LET f == ramfds[doing.d]
    IN  SubSeq(Ram!Stored(f.file), doing.from + 1, f.pos)
        = IF doing.op = "fputs" THEN UpToEOF(doing.text) ELSE doing.text

\* Wherever the machine stops, the host finds every file whose copy was
\* finished, with the bytes of the source, in order, also on a disk that is
\* full of the files of an earlier run.
CopiesArrive ==
  /\ Debug!FinishedFilesSurvive
  /\ \A i \in DOMAIN copied :
       \E p \in AllPaths : p.name = copied[i].name /\ copied[i].body = Content(p)

\* On a new disk it finds nothing else, but for the beginning of the file that
\* was being copied.
NothingElse == Debug!NothingElse

\* A program that reads until EOF, and writes and seeks within files, never
\* fails the assertions of ramfs.g on the position.
PositionsValid == Ram!PositionsValid
=============================================================================
