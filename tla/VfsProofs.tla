----------------------------- MODULE VfsProofs -----------------------------
(***************************************************************************)
(* Proofs about Vfs: what goes on between programs, the copies and the     *)
(* three file systems (Control), the files in memory, and the disk: what   *)
(* create_diskfs.py wrote is what mounting reads back.                     *)
(***************************************************************************)
EXTENDS Vfs, ProofLibrary

----------------------------------------------------------------------------
(* Who has which descriptor *)

\* What the function that makes several calls can be.
Opening == [op : {"open"}, d : Fds]
WritingText == [op : {"fputs", "fwrite"}, d : Fds, text : Seq(Bytes), left : Seq(Bytes), from : Nat]
Copying == [op : {"copy"}, d : Fds, path : [mount : {"init", "disk1"}, name : Filenames]]

\* A descriptor belongs to one file system.  Programs write to descriptors of
\* /ram; copies have no descriptor but the one of the file they read.
Control ==
  /\ user \in {"programs", "copies"}
  /\ doing \in {Idle} \union Opening \union WritingText \union Copying
  /\ user = "programs" => doing \notin Copying
  /\ user = "copies" => doing \notin Opening \union WritingText
  /\ doing \in WritingText => doing.d \in DOMAIN ramfds
  /\ doing \in Copying => Used = {doing.d}
  /\ user = "copies" => DOMAIN ramfds = {}
  /\ user = "copies" /\ doing = Idle => Used = {}
  /\ DOMAIN ramfds \intersect DOMAIN initfds = {}
  /\ DOMAIN ramfds \intersect DOMAIN diskfds = {}
  /\ DOMAIN initfds \intersect DOMAIN diskfds = {}
  /\ Used \subseteq Fds

\* Files in memory: the vector has room for the size and less than a word more;
\* a descriptor refers to a file that exists.
RamFile == [size : Nat, data : Seq(0 .. 255)]
Sized(file) ==
  /\ file.size <= Len(file.data) /\ Len(file.data) < file.size + WORD
  /\ Len(file.data) % WORD = 0
RamInv ==
  /\ DOMAIN files \subseteq Names /\ files \in [DOMAIN files -> RamFile]
  /\ \A f \in DOMAIN files : Sized(files[f])
  /\ ramfds \in [DOMAIN ramfds -> [file : DOMAIN files, pos : Nat]]
  /\ rampanic \notin {"ramfile_read: error 1", "ramfile_write: error 1", "ramfile_write: error 2"}

\* What a step of the whole is to each file system.
RamStep ==
  \/ UNCHANGED ramVars
  \/ \E f \in Names, d \in Fds \ DOMAIN ramfds : Ram!vfs_open(f, d)
  \/ \E d \in DOMAIN ramfds :
       \/ Ram!vfs_close(d) \/ Ram!ramfd_read(d) \/ Ram!ramfd_truncate(d)
       \/ \E c \in Bytes : Ram!ramfd_write(d, c)
       \/ \E off \in Offsets, whence \in {Ram!SEEK_SET, Ram!SEEK_CUR, Ram!SEEK_END} : Ram!ramfd_seek(d, off, whence)
  \/ ramfds' = [d \in {} |-> 0] /\ files' = [f \in {} |-> 0] /\ rampanic' = "no"

InitStep ==
  \/ UNCHANGED initVars
  \/ \E d \in Fds \ DOMAIN initfds, name \in InitFiles!FileNames : InitFiles!initfd_init(name, d)
  \/ \E d \in DOMAIN initfds :
       InitFiles!initfd_destroy(d) \/ InitFiles!platform_read_char(d) \/ InitFiles!initfd_seek(d)
  \/ open_files' = <<>> /\ initfds' = [d \in {} |-> 0]

DiskStep ==
  \/ UNCHANGED diskVars
  \/ Disk!ScanByte
  \/ Mounted /\ \E n \in DOMAIN table, d \in Fds \ DOMAIN diskfds : Disk!diskmount_open(n, d)
  \/ Mounted /\ \E d \in DOMAIN diskfds :
       \/ Disk!diskfd_destroy(d) \/ Disk!diskfd_read(d)
       \/ \E off \in Offsets, whence \in {Disk!SEEK_SET, Disk!SEEK_CUR, Disk!SEEK_END} : Disk!diskfd_seek(d, off, whence)
  \/ diskfds' = [d \in {} |-> 0] /\ UNCHANGED <<image, disk, table, scan, diskpanic>>

\* A call is one of the file system that has the descriptor.
LEMMA CallSteps ==
  ASSUME Control, Mounted, NEW d \in Used
  PROVE  /\ vfs_close(d) => RamStep /\ InitStep /\ DiskStep
         /\ vfs_read(d) => RamStep /\ InitStep /\ DiskStep
<1>1. CASE d \in DOMAIN ramfds
  <2>1. vfs_close(d) => Ram!vfs_close(d) /\ UNCHANGED <<initVars, diskVars>>
    BY <1>1 DEF Control, vfs_close
  <2>2. vfs_read(d) => Ram!ramfd_read(d) /\ UNCHANGED <<initVars, diskVars>>
    BY <1>1 DEF Control, vfs_read
  <2>3. QED BY <1>1, <2>1, <2>2 DEF RamStep, InitStep, DiskStep
<1>2. CASE d \in DOMAIN initfds
  <2>1. vfs_close(d) => InitFiles!initfd_destroy(d) /\ UNCHANGED <<ramVars, diskVars>>
    BY <1>2 DEF Control, vfs_close
  <2>2. vfs_read(d) => InitFiles!platform_read_char(d) /\ UNCHANGED <<ramVars, diskVars>>
    BY <1>2 DEF Control, vfs_read
  <2>3. QED BY <1>2, <2>1, <2>2 DEF RamStep, InitStep, DiskStep
<1>3. CASE d \in DOMAIN diskfds
  <2>1. vfs_close(d) => Disk!diskfd_destroy(d) /\ UNCHANGED <<ramVars, initVars>>
    BY <1>3 DEF Control, vfs_close
  <2>2. vfs_read(d) => Disk!diskfd_read(d) /\ UNCHANGED <<ramVars, initVars>>
    BY <1>3 DEF Control, vfs_read
  <2>3. QED BY <1>3, <2>1, <2>2 DEF RamStep, InitStep, DiskStep
<1>4. QED BY <1>1, <1>2, <1>3 DEF Used

\* A path says which file system opens it.
LEMMA WhereOpened ==
  ASSUME NEW path \in Paths, NEW d, vfs_open(path, d)
  PROVE  \/ /\ path \in RamPaths /\ path.mount = "ram" /\ path.name \in Names
            /\ Ram!vfs_open(path.name, d) /\ UNCHANGED <<initVars, diskVars>>
         \/ /\ path.mount = "init" /\ path.name \in InitFiles!FileNames
            /\ InitFiles!initfd_init(path.name, d) /\ UNCHANGED <<ramVars, diskVars>>
         \/ /\ path.mount = "disk1" /\ path.name \in DOMAIN table
            /\ Disk!diskmount_open(path.name, d) /\ UNCHANGED <<ramVars, initVars>>
<1>1. CASE path \in RamPaths
  <2>1. path.mount = "ram" /\ path.name \in Names
    BY <1>1 DEF RamPaths, Path
  <2>2. Ram!vfs_open(path.name, d) /\ UNCHANGED <<initVars, diskVars>>
    BY <2>1 DEF vfs_open
  <2>3. QED BY <1>1, <2>1, <2>2
<1>2. CASE path \in {Path("init", n) : n \in InitFiles!FileNames}
  <2>1. path.mount = "init" /\ path.name \in InitFiles!FileNames
    BY <1>2 DEF Path
  <2>2. InitFiles!initfd_init(path.name, d) /\ UNCHANGED <<ramVars, diskVars>>
    BY <2>1 DEF vfs_open
  <2>3. QED BY <2>1, <2>2
<1>3. CASE path \in {Path("disk1", n) : n \in DOMAIN table}
  <2>1. path.mount = "disk1" /\ path.name \in DOMAIN table
    BY <1>3 DEF Path
  <2>2. Disk!diskmount_open(path.name, d) /\ UNCHANGED <<ramVars, initVars>>
    BY <2>1 DEF vfs_open
  <2>3. QED BY <2>1, <2>2
<1>4. QED BY <1>1, <1>2, <1>3 DEF Paths

\* Opening is a step of each file system.
LEMMA OpenSteps ==
  ASSUME Control, Mounted, NEW path \in Paths, NEW d \in Fds \ Used, vfs_open(path, d)
  PROVE  RamStep /\ InitStep /\ DiskStep
BY WhereOpened DEF RamStep, InitStep, DiskStep, Used

\* Whatever programs and copies do, each file system makes one of its steps.
LEMMA Steps ==
  ASSUME Control, Next
  PROVE  RamStep /\ InitStep /\ DiskStep
<1>1. CASE Mounting
  BY <1>1 DEF Mounting, RamStep, InitStep, DiskStep
<1>2. CASE Program
  <2>1. Mounted
    BY <1>2 DEF Program
  <2>2. CASE RamCall
    BY <2>2 DEF RamCall, Ram!Next, RamStep, InitStep, DiskStep
  <2>3. CASE InitCall
    BY <2>3 DEF InitCall, InitFiles!Next, RamStep, InitStep, DiskStep
  <2>4. CASE DiskCall
    BY <2>1, <2>4 DEF DiskCall, Disk!Calls, RamStep, InitStep, DiskStep
  <2>5. CASE Refused
    BY <2>5 DEF Refused, NotSupported, RamStep, InitStep, DiskStep
  <2>6. CASE \E path \in Paths, d \in Fds \ Used : open(path, d)
    BY <2>1, <2>6, OpenSteps DEF open
  <2>7. CASE BeginWrite
    BY <2>7 DEF BeginWrite, RamStep, InitStep, DiskStep
  <2>8. CASE Truncate
    BY <2>8 DEF Truncate, vfs_truncate, NotSupported, RamStep, InitStep, DiskStep
  <2>9. CASE fputc
    <3>1. doing \in WritingText /\ doing.left # <<>>
      BY <2>9 DEF Control, fputc, Idle, Opening, WritingText, Copying
    <3>2. Head(doing.left) \in Bytes
      BY <3>1 DEF WritingText
    <3>3. QED BY <2>9, <3>2 DEF fputc, vfs_write, NotSupported, RamStep, InitStep, DiskStep
  <2>10. CASE EndWrite
    BY <2>10 DEF EndWrite, RamStep, InitStep, DiskStep
  <2>11. QED
    BY <1>2, <2>2, <2>3, <2>4, <2>5, <2>6, <2>7, <2>8, <2>9, <2>10 DEF Program
<1>3. CASE Copy
  <2>1. Mounted
    BY <1>3 DEF Copy
  <2>2. CASE Boot
    BY <2>2 DEF Boot, RamStep, InitStep, DiskStep
  <2>3. CASE CopyBegins
    <3>1. PICK path \in Sources, d \in Fds : doing = Idle /\ vfs_open(path, d)
      BY <2>3 DEF CopyBegins
    <3>2. Used = {}
      BY <1>3, <3>1 DEF Copy, Control
    <3>3. QED BY <2>1, <3>1, <3>2, OpenSteps DEF Sources
  <2>4. CASE CopyReads \/ CopyCloses
    <3>1. doing \in Copying
      BY <2>4 DEF Control, CopyReads, CopyCloses, Idle, Opening, WritingText
    <3>2. doing.d \in Used
      BY <3>1 DEF Control
    <3>3. QED BY <2>1, <2>4, <3>2, CallSteps DEF CopyReads, CopyCloses
  <2>5. CASE CopyFinishes
    BY <2>5 DEF CopyFinishes, RamStep, InitStep, DiskStep
  <2>6. QED BY <1>3, <2>2, <2>3, <2>4, <2>5 DEF Copy
<1>4. QED BY <1>1, <1>2, <1>3 DEF Next

\* The descriptors after a step of a file system.
LEMMA Domains ==
  /\ RamStep => DOMAIN ramfds' \subseteq DOMAIN ramfds \union Fds
  /\ InitStep => DOMAIN initfds' \subseteq DOMAIN initfds \union Fds
  /\ DiskStep => DOMAIN diskfds' \subseteq DOMAIN diskfds \union Fds
<1>1. ASSUME RamStep PROVE DOMAIN ramfds' \subseteq DOMAIN ramfds \union Fds
  BY <1>1 DEF RamStep, ramVars, Ram!vfs_open, Ram!With, Ram!vfs_close, Ram!ramfd_read, Ram!ramfd_truncate, Ram!ramfd_write,
              Ram!ramfd_seek, Ram!Panic
<1>2. ASSUME InitStep PROVE DOMAIN initfds' \subseteq DOMAIN initfds \union Fds
  BY <1>2 DEF InitStep, initVars, InitFiles!initfd_init, InitFiles!With, InitFiles!initfd_destroy,
              InitFiles!platform_read_char, InitFiles!initfd_seek
<1>3. ASSUME DiskStep PROVE DOMAIN diskfds' \subseteq DOMAIN diskfds \union Fds
  BY <1>3 DEF DiskStep, diskVars, Disk!ScanByte, Disk!diskmount_open, Disk!With, Disk!diskfd_destroy, Disk!diskfd_read,
              Disk!diskfd_seek
<1>4. QED BY <1>1, <1>2, <1>3

\* Opening adds a descriptor to one file system.
LEMMA Opened ==
  ASSUME NEW path \in Paths, NEW d, vfs_open(path, d)
  PROVE  \/ /\ DOMAIN ramfds' = DOMAIN ramfds \union {d} /\ path \in RamPaths
            /\ DOMAIN initfds' = DOMAIN initfds /\ DOMAIN diskfds' = DOMAIN diskfds
         \/ /\ DOMAIN initfds' = DOMAIN initfds \union {d}
            /\ DOMAIN ramfds' = DOMAIN ramfds /\ DOMAIN diskfds' = DOMAIN diskfds
         \/ /\ DOMAIN diskfds' = DOMAIN diskfds \union {d}
            /\ DOMAIN ramfds' = DOMAIN ramfds /\ DOMAIN initfds' = DOMAIN initfds
<1>1. ASSUME Ram!vfs_open(path.name, d) PROVE DOMAIN ramfds' = DOMAIN ramfds \union {d}
  BY <1>1 DEF Ram!vfs_open, Ram!With
<1>2. ASSUME InitFiles!initfd_init(path.name, d) PROVE DOMAIN initfds' = DOMAIN initfds \union {d}
  BY <1>2 DEF InitFiles!initfd_init, InitFiles!With
<1>3. ASSUME Disk!diskmount_open(path.name, d) PROVE DOMAIN diskfds' = DOMAIN diskfds \union {d}
  BY <1>3 DEF Disk!diskmount_open, Disk!With
<1>4. QED BY <1>1, <1>2, <1>3, WhereOpened DEF ramVars, initVars, diskVars

\* Reading keeps the descriptors.
LEMMA ReadDomains ==
  ASSUME Control, NEW d \in Used, vfs_read(d)
  PROVE  /\ DOMAIN ramfds' = DOMAIN ramfds /\ DOMAIN initfds' = DOMAIN initfds
         /\ DOMAIN diskfds' = DOMAIN diskfds
<1>1. CASE d \in DOMAIN ramfds
  BY <1>1 DEF Control, vfs_read, initVars, diskVars, Ram!ramfd_read, Ram!Panic
<1>2. CASE d \in DOMAIN initfds
  BY <1>2 DEF Control, vfs_read, ramVars, diskVars, InitFiles!platform_read_char
<1>3. CASE d \in DOMAIN diskfds
  BY <1>3 DEF Control, vfs_read, ramVars, initVars, Disk!diskfd_read
<1>4. QED BY <1>1, <1>2, <1>3 DEF Used

\* Closing removes the descriptor.
LEMMA Closed ==
  ASSUME Control, NEW d \in Used, vfs_close(d)
  PROVE  Used' = Used \ {d}
<1>1. CASE d \in DOMAIN ramfds
  BY <1>1 DEF Control, Used, vfs_close, initVars, diskVars, Ram!vfs_close
<1>2. CASE d \in DOMAIN initfds
  BY <1>2 DEF Control, Used, vfs_close, ramVars, diskVars, InitFiles!initfd_destroy
<1>3. CASE d \in DOMAIN diskfds
  BY <1>3 DEF Control, Used, vfs_close, ramVars, initVars, Disk!diskfd_destroy
<1>4. QED BY <1>1, <1>2, <1>3 DEF Used

\* Nothing is going on when doing is Idle.
LEMMA IdleIsIdle == Idle \notin Opening \union WritingText \union Copying
  BY DEF Idle, Opening, WritingText, Copying

\* Programs and copies keep to their descriptors.
LEMMA ControlInductive ==
  ASSUME Control, RamInv, Next
  PROVE  Control'
<1>1. CASE Mounting
  BY <1>1 DEF Mounting, Disk!ScanByte, ramVars, initVars, Control, Used
<1>2. CASE Program
  <2>1. user = "programs" /\ user' = user
    BY <1>2 DEF Program
  <2>2. Used' \subseteq Fds
    BY Steps, Domains DEF Used, Control
  <2>3. CASE doing = Idle /\ UNCHANGED doing /\ (RamCall \/ InitCall \/ DiskCall \/ Refused)
    <3>1. CASE RamCall
      <4>1. /\ initfds' = initfds /\ diskfds' = diskfds /\ doing' = doing /\ doing = Idle
            /\ DOMAIN ramfds' \intersect ((DOMAIN initfds \union DOMAIN diskfds) \ DOMAIN ramfds) = {}
        BY <2>3, <3>1 DEF RamCall, initVars, diskVars, Used
      <4>2. QED BY <2>1, <2>2, <4>1, IdleIsIdle DEF Control
    <3>2. CASE InitCall
      BY <2>1, <2>2, <2>3, <3>2 DEF InitCall, Control, Used, ramVars, diskVars
    <3>3. CASE DiskCall
      BY <2>1, <2>2, <2>3, <3>3 DEF DiskCall, Control, Used, ramVars, initVars
    <3>4. CASE Refused
      BY <2>1, <2>2, <2>3, <3>4 DEF Refused, NotSupported, Control, Used, ramVars, initVars, diskVars
    <3>5. QED BY <2>3, <3>1, <3>2, <3>3, <3>4
  <2>4. ASSUME NEW path \in Paths, NEW d \in Fds \ Used, open(path, d)
        PROVE  Control'
    <3>1. vfs_open(path, d) /\ doing' = [op |-> "open", d |-> d]
      BY <2>4 DEF open
    <3>2. doing' \in Opening /\ doing' \notin WritingText \union Copying
      BY <2>4, <3>1 DEF Opening, WritingText, Copying
    <3>3. /\ DOMAIN ramfds' \intersect DOMAIN initfds' = {}
          /\ DOMAIN ramfds' \intersect DOMAIN diskfds' = {}
          /\ DOMAIN initfds' \intersect DOMAIN diskfds' = {}
      <4>1. d \notin DOMAIN ramfds /\ d \notin DOMAIN initfds /\ d \notin DOMAIN diskfds
        BY DEF Used
      <4>2. /\ DOMAIN ramfds \intersect DOMAIN initfds = {}
            /\ DOMAIN ramfds \intersect DOMAIN diskfds = {}
            /\ DOMAIN initfds \intersect DOMAIN diskfds = {}
        BY DEF Control
      <4>3. \/ DOMAIN ramfds' = DOMAIN ramfds \union {d} /\ DOMAIN initfds' = DOMAIN initfds /\ DOMAIN diskfds' = DOMAIN diskfds
            \/ DOMAIN initfds' = DOMAIN initfds \union {d} /\ DOMAIN ramfds' = DOMAIN ramfds /\ DOMAIN diskfds' = DOMAIN diskfds
            \/ DOMAIN diskfds' = DOMAIN diskfds \union {d} /\ DOMAIN ramfds' = DOMAIN ramfds /\ DOMAIN initfds' = DOMAIN initfds
        BY <3>1, Opened
      <4>4. QED BY <4>1, <4>2, <4>3
    <3>4. QED BY <2>1, <2>2, <3>2, <3>3 DEF Control
  <2>5. CASE BeginWrite
    <3>1. PICK d \in DOMAIN ramfds, op \in {"fputs", "fwrite"}, text \in Texts : doing' = Writing(op, d, text)
      BY <2>5 DEF BeginWrite
    <3>2. UNCHANGED <<ramVars, initVars, diskVars>>
      BY <2>5 DEF BeginWrite
    <3>3. ramfds[d].pos \in Nat
      BY DEF RamInv
    <3>4. doing' \in WritingText /\ doing' \notin Opening \union Copying /\ doing'.d \in DOMAIN ramfds
      BY <3>1, <3>3, ProgramConstants DEF Writing, WritingText, Opening, Copying, Control, Used
    <3>5. QED BY <2>1, <3>2, <3>4 DEF Control, Used, ramVars, initVars, diskVars
  <2>6. CASE Truncate
    <3>1. /\ doing' = Idle /\ DOMAIN ramfds' = DOMAIN ramfds /\ DOMAIN initfds' = DOMAIN initfds
          /\ DOMAIN diskfds' = DOMAIN diskfds
      BY <2>6 DEF Truncate, vfs_truncate, NotSupported, Ram!ramfd_truncate, ramVars, initVars, diskVars
    <3>2. QED BY <2>1, <3>1, IdleIsIdle DEF Control, Used
  <2>7. CASE fputc
    <3>1. doing \in WritingText /\ doing.left # <<>>
      BY <2>7 DEF Control, fputc, Idle, Opening, WritingText, Copying
    <3>2. /\ doing' \in WritingText /\ doing' \notin Opening \union Copying
          /\ doing'.d = doing.d
      <4>1. PICK op \in {"fputs", "fwrite"}, d \in Fds, text \in Seq(Bytes), left \in Seq(Bytes), from \in Nat :
               doing = [op |-> op, d |-> d, text |-> text, left |-> left, from |-> from]
        BY <3>1 DEF WritingText
      <4>2. PICK rest \in Seq(Bytes) : doing' = [op |-> op, d |-> d, text |-> text, left |-> rest, from |-> from]
        <5>1. Tail(left) \in Seq(Bytes) /\ <<>> \in Seq(Bytes)
          BY <3>1, <4>1
        <5>2. doing' = [doing EXCEPT !.left = IF Stops(doing.op, Head(doing.left)) THEN <<>> ELSE Tail(@)]
          BY <2>7 DEF fputc
        <5>3. CASE Stops(doing.op, Head(doing.left))
          BY <4>1, <5>1, <5>2, <5>3
        <5>4. CASE ~Stops(doing.op, Head(doing.left))
          BY <4>1, <5>1, <5>2, <5>4
        <5>5. QED BY <5>3, <5>4
      <4>3. QED BY <4>1, <4>2 DEF WritingText, Opening, Copying
    <3>3. /\ DOMAIN ramfds' = DOMAIN ramfds /\ DOMAIN initfds' = DOMAIN initfds
          /\ DOMAIN diskfds' = DOMAIN diskfds
      BY <2>7 DEF fputc, vfs_write, NotSupported, Ram!ramfd_write, Ram!Panic, ramVars, initVars, diskVars
    <3>4. QED BY <2>1, <3>1, <3>2, <3>3 DEF Control, Used
  <2>8. CASE EndWrite
    BY <2>1, <2>8, IdleIsIdle DEF EndWrite, Control, Used, ramVars, initVars, diskVars
  <2>9. QED BY <1>2, <2>3, <2>4, <2>5, <2>6, <2>7, <2>8 DEF Program
<1>3. CASE Copy
  <2>1. user = "copies" /\ user' = user /\ DOMAIN ramfds = {}
    BY <1>3 DEF Copy, Control
  <2>2. CASE Boot
    BY <2>1, <2>2, IdleIsIdle DEF Boot, Control, Used
  <2>3. ASSUME NEW path \in Sources, NEW d \in Fds, doing = Idle, vfs_open(path, d),
               doing' = [op |-> "copy", d |-> d, path |-> path]
        PROVE  Control'
    <3>1. Used = {}
      BY <2>1, <2>3 DEF Control
    <3>2. path \in Paths /\ path \notin RamPaths /\ path \in [mount : {"init", "disk1"}, name : Filenames]
      BY DEF Sources, Paths, RamPaths, Path
    <3>3. DOMAIN ramfds' = {} /\ Used' = {d} /\ DOMAIN initfds' \intersect DOMAIN diskfds' = {}
      BY <2>3, <3>1, <3>2, Opened DEF Used
    <3>4. doing' \in Copying /\ doing' \notin Opening \union WritingText /\ doing' # Idle /\ doing'.d = d
      BY <2>3, <3>2 DEF Copying, Opening, WritingText, Idle
    <3>5. QED BY <2>1, <3>3, <3>4 DEF Control, Used
  <2>4. CASE CopyReads
    <3>1. doing \in Copying /\ doing' = doing /\ doing.d \in Used
      BY <2>4 DEF Control, CopyReads, Idle, Opening, WritingText
    <3>2. /\ DOMAIN ramfds' = DOMAIN ramfds /\ DOMAIN initfds' = DOMAIN initfds
          /\ DOMAIN diskfds' = DOMAIN diskfds
      BY <2>4, <3>1, ReadDomains DEF CopyReads
    <3>3. QED BY <2>1, <3>1, <3>2 DEF Control, Used
  <2>5. CASE CopyFinishes
    BY <2>1, <2>5 DEF CopyFinishes, Control, Used, ramVars, initVars, diskVars
  <2>6. CASE CopyCloses
    <3>1. doing \in Copying /\ doing' = Idle /\ Used = {doing.d} /\ vfs_close(doing.d)
      BY <2>6 DEF Control, CopyCloses, Idle, Opening, WritingText
    <3>2. Used' = {}
      BY <2>1, <3>1, Closed DEF Used
    <3>3. QED BY <2>1, <3>1, <3>2, IdleIsIdle DEF Control, Used
  <2>7. QED BY <1>3, <2>2, <2>3, <2>4, <2>5, <2>6 DEF Copy, CopyBegins
<1>4. QED BY <1>1, <1>2, <1>3 DEF Next

----------------------------------------------------------------------------
(* Files in memory *)

\* What the invariant says of an open descriptor.
LEMMA RamDescriptor ==
  ASSUME RamInv, NEW d \in DOMAIN ramfds
  PROVE  /\ ramfds[d].pos \in Nat /\ ramfds[d].file \in DOMAIN files
         /\ files[ramfds[d].file] \in RamFile /\ Sized(files[ramfds[d].file])
         /\ files[ramfds[d].file].size \in Nat /\ Len(files[ramfds[d].file].data) \in Nat
<1>1. ramfds[d].pos \in Nat /\ ramfds[d].file \in DOMAIN files
  BY DEF RamInv
<1>2. files[ramfds[d].file] \in RamFile /\ Sized(files[ramfds[d].file])
  BY <1>1 DEF RamInv
<1>3. QED BY <1>1, <1>2 DEF RamFile

\* Writing a byte within the file or at its end: the vector grows by a word when
\* it is full, and there is room for the byte.
LEMMA Growing ==
  ASSUME NEW file \in RamFile, Sized(file), NEW p \in 0 .. file.size, NEW c \in 0 .. 255
  PROVE  LET g == Ram!Grown(file, p)
             h == [g EXCEPT !.data[p + 1] = c]
         IN  /\ g \in RamFile /\ p < g.size /\ g.size <= Len(g.data)
             /\ h \in RamFile /\ Sized(h)
<1> DEFINE g == Ram!Grown(file, p)
           h == [g EXCEPT !.data[p + 1] = c]
           word == [i \in 1 .. WORD |-> 0]
           bigger == file.data \o word
<1>1. WORD \in Nat \ {0} /\ file.size \in Nat /\ file.data \in Seq(0 .. 255) /\ Len(file.data) \in Nat
  BY RamConstants DEF RamFile
<1>2. word \in Seq(0 .. 255) /\ Len(word) = WORD
  BY <1>1, IsASeq
<1>3. bigger \in Seq(0 .. 255) /\ Len(bigger) = Len(file.data) + WORD
  BY <1>1, <1>2
<1>4. g \in RamFile /\ p < g.size /\ Sized(g)
  <2>1. CASE p # file.size
    BY <2>1, <1>1 DEF Ram!Grown, RamFile
  <2>2. CASE p = file.size /\ p # Len(file.data)
    BY <2>2, <1>1 DEF Ram!Grown, RamFile, Sized
  <2>3. CASE p = file.size /\ p = Len(file.data)
    <3>1. g.size = file.size + 1 /\ g.data = bigger /\ g \in RamFile
      BY <2>3, <1>1, <1>3 DEF Ram!Grown, RamFile
    <3>2. Len(bigger) % WORD = 0
      <4>1. Len(file.data) % WORD = 0
        BY DEF Sized
      <4> HIDE DEF bigger
      <4>2. (Len(file.data) + WORD) % WORD = Len(file.data) % WORD
        <5> DEFINE n == Len(file.data)
        <5>1. n \in Int
          BY <1>1
        <5> HIDE DEF n
        <5>2. (n + WORD) % WORD = n % WORD
          BY <1>1, <5>1, ModPlus
        <5>3. QED BY <5>2 DEF n
      <4>3. QED BY <1>3, <4>1, <4>2
    <3>3. QED
      <4> HIDE DEF bigger, g
      <4>1. p < g.size /\ g.size <= Len(g.data) /\ Len(g.data) < g.size + WORD
        <5>1. g.size = p + 1 /\ Len(g.data) = p + WORD /\ p \in Nat
          BY <2>3, <3>1, <1>1, <1>3
        <5>2. QED BY <5>1, <1>1
      <4>2. QED BY <3>1, <3>2, <4>1 DEF Sized
  <2>4. QED BY <2>1, <2>2, <2>3
<1>5. h \in RamFile /\ h.size = g.size /\ Len(h.data) = Len(g.data)
  <2> HIDE DEF g
  <2>1. p + 1 \in 1 .. Len(g.data) /\ g.data \in Seq(0 .. 255)
    BY <1>1, <1>4 DEF RamFile, Sized
  <2>2. [g.data EXCEPT ![p + 1] = c] \in Seq(0 .. 255) /\ Len([g.data EXCEPT ![p + 1] = c]) = Len(g.data)
    BY <2>1, ExceptSeq
  <2>3. QED BY <1>4, <2>2 DEF RamFile
<1>6. QED BY <1>1, <1>4, <1>5 DEF Sized

----------------------------------------------------------------------------
(* The bytes of a file in memory *)

\* What is stored is the beginning of the vector.
LEMMA StoredBytes ==
  ASSUME NEW file \in RamFile, Sized(file)
  PROVE  LET s == SubSeq(file.data, 1, file.size)
         IN  /\ s \in Seq(0 .. 255) /\ Len(s) = file.size /\ file.size \in Nat
             /\ \A r \in 1 .. file.size : s[r] = file.data[r]
<1>1. file.size \in Nat /\ file.data \in Seq(0 .. 255) /\ Len(file.data) \in Nat /\ file.size <= Len(file.data)
  BY LenProperties DEF RamFile, Sized
<1> DEFINE n == file.size
           t == file.data
<1> HIDE DEF n, t
<1>2. n \in Nat /\ t \in Seq(0 .. 255) /\ Len(t) \in Nat /\ n <= Len(t)
  BY <1>1 DEF n, t
<1>3. /\ SubSeq(t, 1, n) \in Seq(0 .. 255) /\ Len(SubSeq(t, 1, n)) = n
      /\ \A r \in 1 .. n : SubSeq(t, 1, n)[r] = t[r]
  <2>1. 1 \in Int /\ n \in Int /\ \A i \in 1 .. n : t[i] \in 0 .. 255
    <3>1. \A i \in 1 .. n : i \in 1 .. Len(t)
      BY <1>2
    <3>2. \A i \in 1 .. Len(t) : t[i] \in 0 .. 255
      BY <1>2, ElementOfSeq
    <3>3. QED BY <1>2, <3>1, <3>2
  <2>2. /\ SubSeq(t, 1, n) \in Seq(0 .. 255)
        /\ Len(SubSeq(t, 1, n)) = IF 1 <= n THEN n - 1 + 1 ELSE 0
        /\ \A i \in 1 .. n - 1 + 1 : SubSeq(t, 1, n)[i] = t[1 + i - 1]
    BY <2>1, SubSeqProperties
  <2>3. (IF 1 <= n THEN n - 1 + 1 ELSE 0) = n /\ n - 1 + 1 = n /\ \A i \in 1 .. n : 1 + i - 1 = i
    BY <1>2
  <2>4. QED
    <3> DEFINE u == SubSeq(t, 1, n)
    <3> HIDE DEF u
    <3>1. QED BY <2>2, <2>3 DEF u
<1>4. QED BY <1>2, <1>3 DEF n, t

\* Writing a byte within the file replaces it, and at the end adds it; all other
\* bytes stay, also when the vector grows.
LEMMA WritingByte ==
  ASSUME NEW file \in RamFile, Sized(file), NEW p \in 0 .. file.size, NEW c \in 0 .. 255
  PROVE  LET h == [Ram!Grown(file, p) EXCEPT !.data[p + 1] = c]
             s == SubSeq(file.data, 1, file.size)
         IN  /\ h.size = IF p = file.size THEN file.size + 1 ELSE file.size
             /\ SubSeq(h.data, 1, h.size) = IF p = file.size THEN Append(s, c) ELSE [s EXCEPT ![p + 1] = c]
<1> DEFINE n == file.size
           t == file.data
           g == Ram!Grown(file, p)
           h == [g EXCEPT !.data[p + 1] = c]
           s == SubSeq(t, 1, n)
           s2 == SubSeq(h.data, 1, h.size)
           s3 == IF p = n THEN Append(s, c) ELSE [s EXCEPT ![p + 1] = c]
           m == IF p = n THEN n + 1 ELSE n
<1>1. n \in Nat /\ t \in Seq(0 .. 255) /\ Len(t) \in Nat /\ n <= Len(t) /\ WORD \in Nat \ {0}
  BY RamConstants, LenProperties DEF RamFile, Sized
<1>2. g \in RamFile /\ p < g.size /\ g.size <= Len(g.data) /\ h \in RamFile /\ Sized(h)
  BY Growing, ZenonT(60)
<1>3. g.size = m /\ g.data \in Seq(0 .. 255) /\ \A r \in 1 .. n : g.data[r] = t[r]
  <2>1. CASE p = n /\ p = Len(t)
    <3> DEFINE word == [i \in 1 .. WORD |-> 0]
    <3>1. word \in Seq(0 .. 255)
      BY <1>1
    <3> HIDE DEF word
    <3>2. \A r \in 1 .. Len(t) : (t \o word)[r] = t[r]
      BY <1>1, <3>1, ConcatPlaces
    <3>3. g = [size |-> n + 1, data |-> t \o word]
      BY <2>1 DEF Ram!Grown, word
    <3> HIDE DEF n, t
    <3>4. g.size = n + 1 /\ g.data = t \o word
      <4> DEFINE a == n + 1
                 b == t \o word
      <4> HIDE DEF a, b, g
      <4>1. QED BY <3>3 DEF a, b
    <3>5. QED BY <1>2, <2>1, <3>2, <3>4 DEF RamFile
  <2>2. CASE p = n /\ p # Len(t)
    BY <1>1, <2>2 DEF Ram!Grown
  <2>3. CASE p # n
    BY <1>1, <2>3 DEF Ram!Grown
  <2>4. QED BY <2>1, <2>2, <2>3
<1> HIDE DEF g
<1>4. /\ h.size = m /\ h.data = [g.data EXCEPT ![p + 1] = c]
  BY <1>2, <1>3 DEF RamFile
<1>5. p + 1 \in 1 .. Len(g.data) /\ m \in Nat /\ m <= Len(g.data) /\ Len(g.data) \in Nat
  BY <1>1, <1>2, <1>3, LenProperties
<1>6. \A r \in 1 .. Len(g.data) : h.data[r] = IF r = p + 1 THEN c ELSE g.data[r]
  <2> DEFINE u == g.data
             q == p + 1
  <2> HIDE DEF u, q
  <2>1. u \in Seq(0 .. 255) /\ q \in 1 .. Len(u) /\ h.data = [u EXCEPT ![q] = c]
    BY <1>3, <1>4, <1>5 DEF u, q
  <2>2. \A r \in 1 .. Len(u) : [u EXCEPT ![q] = c][r] = IF r = q THEN c ELSE u[r]
    BY <2>1, ExceptSeq
  <2>3. QED BY <2>1, <2>2 DEF u, q
<1> HIDE DEF h
<1>7. s2 \in Seq(0 .. 255) /\ Len(s2) = m /\ \A r \in 1 .. m : s2[r] = h.data[r]
  BY <1>2, <1>4, StoredBytes
<1>8. s \in Seq(0 .. 255) /\ Len(s) = n /\ \A r \in 1 .. n : s[r] = t[r]
  BY StoredBytes
<1> HIDE DEF s, s2, t
<1>9. s3 \in Seq(0 .. 255) /\ Len(s3) = m /\ \A r \in 1 .. m : s3[r] = IF r = p + 1 THEN c ELSE s[r]
  <2>1. CASE p = n
    <3>1. Append(s, c) \in Seq(0 .. 255) /\ Len(Append(s, c)) = n + 1
          /\ \A r \in 1 .. n + 1 : Append(s, c)[r] = IF r = n + 1 THEN c ELSE s[r]
      BY <1>1, <1>8
    <3>2. QED BY <2>1, <3>1
  <2>2. CASE p # n
    <3>1. p + 1 \in 1 .. Len(s)
      BY <1>1, <1>8, <2>2
    <3>2. s3 = [s EXCEPT ![p + 1] = c] /\ m = n
      BY <2>2
    <3>3. [s EXCEPT ![p + 1] = c] \in Seq(0 .. 255) /\ Len([s EXCEPT ![p + 1] = c]) = n
          /\ \A r \in 1 .. n : [s EXCEPT ![p + 1] = c][r] = IF r = p + 1 THEN c ELSE s[r]
      BY <1>8, <3>1, ExceptSeq
    <3> DEFINE e == [s EXCEPT ![p + 1] = c]
    <3> HIDE DEF e
    <3>4. s3 = e /\ m = n
      BY <3>2 DEF e
    <3>5. e \in Seq(0 .. 255) /\ Len(e) = n /\ \A r \in 1 .. Len(s) : e[r] = IF r = p + 1 THEN c ELSE s[r]
      BY <1>8, <3>1, ExceptSeq DEF e
    <3> HIDE DEF s3, m
    <3>6. QED BY <1>8, <3>4, <3>5
  <2>3. QED BY <2>1, <2>2
<1> HIDE DEF s3
<1>10. \A r \in 1 .. m : s2[r] = s3[r]
  <2>1. ASSUME NEW r \in 1 .. m PROVE s2[r] = s3[r]
    <3>1. r \in 1 .. Len(g.data)
      BY <1>5
    <3>2. r = p + 1 \/ r \in 1 .. n
      BY <1>1
    <3>3. s2[r] = (IF r = p + 1 THEN c ELSE g.data[r]) /\ s3[r] = (IF r = p + 1 THEN c ELSE s[r])
      BY <1>6, <1>7, <1>9, <3>1
    <3>4. r \in 1 .. n => g.data[r] = s[r]
      BY <1>3, <1>8
    <3>5. QED BY <3>2, <3>3, <3>4
  <2>2. QED BY <2>1
<1>11. s2 = s3
  BY <1>7, <1>9, <1>10, SeqEqual
<1>12. QED BY <1>4, <1>11 DEF s, s2, s3, h, g, t

----------------------------------------------------------------------------
(* What holds in every state *)

\* Each call of /ram preserves the invariant.
LEMMA RamInductive ==
  ASSUME RamInv, RamStep
  PROVE  RamInv'
<1>1. CASE UNCHANGED ramVars
  BY <1>1 DEF ramVars, RamInv
<1>2. ASSUME NEW f \in Names, NEW d \in Fds, Ram!vfs_open(f, d) PROVE RamInv'
  <2> DEFINE empty == [size |-> 0, data |-> <<>>]
  <2>1. empty \in RamFile /\ Sized(empty)
    BY RamConstants DEF RamFile, Sized
  <2>2. files' \in [DOMAIN files' -> RamFile] /\ f \in DOMAIN files' /\ DOMAIN files \subseteq DOMAIN files'
        /\ \A g \in DOMAIN files' : Sized(files'[g])
    BY <1>2, <2>1 DEF RamInv, Ram!vfs_open, Ram!rammount_open, Ram!With, Ram!ramfile_init
  <2>3. ramfds' \in [DOMAIN ramfds' -> [file : DOMAIN files', pos : Nat]]
    BY <1>2, <2>2 DEF RamInv, Ram!vfs_open, Ram!ramfd_init, Ram!With
  <2>4. DOMAIN files' \subseteq Names
    BY <1>2 DEF RamInv, Ram!vfs_open, Ram!rammount_open, Ram!With
  <2>5. rampanic' = rampanic
    BY <1>2 DEF Ram!vfs_open
  <2>6. QED BY <2>2, <2>3, <2>4, <2>5 DEF RamInv
<1>3. ASSUME NEW d \in DOMAIN ramfds, Ram!vfs_close(d) PROVE RamInv'
  BY <1>3 DEF RamInv, Ram!vfs_close
<1>4. ASSUME NEW d \in DOMAIN ramfds, Ram!ramfd_read(d) PROVE RamInv'
  <2> DEFINE to == ramfds[d].pos + 1
  <2>1. /\ ramfds[d].pos \in Nat /\ files[ramfds[d].file].size \in Nat /\ to \in Nat
        /\ files[ramfds[d].file].size <= Len(files[ramfds[d].file].data)
        /\ Len(files[ramfds[d].file].data) \in Nat
    BY RamDescriptor DEF Sized
  <2>2. CASE Ram!ReadPanic(d) # "no"
    <3>1. Ram!ReadPanic(d) = "ramfile_read: invalid read position"
      BY <2>1, <2>2 DEF Ram!ReadPanic, Ram!Pos, Ram!File
    <3>2. rampanic' = "ramfile_read: invalid read position" /\ UNCHANGED <<files, ramfds>>
      BY <1>4, <3>1 DEF Ram!ramfd_read, Ram!Panic
    <3>3. QED BY <3>2 DEF RamInv
  <2>3. CASE Ram!ReadPanic(d) = "no"
    <3>1. ramfds' = [ramfds EXCEPT ![d].pos = to] /\ UNCHANGED <<files, rampanic>>
      BY <1>4, <2>3 DEF Ram!ramfd_read
    <3>2. QED
      <4> HIDE DEF to
      <4> QED BY <2>1, <3>1 DEF RamInv
  <2>4. QED BY <2>2, <2>3
<1>5. ASSUME NEW d \in DOMAIN ramfds, Ram!ramfd_truncate(d) PROVE RamInv'
  <2>1. Ram!ramfile_init \in RamFile /\ Sized(Ram!ramfile_init)
    BY RamConstants DEF Ram!ramfile_init, RamFile, Sized
  <2>2. QED BY <1>5, <2>1 DEF RamInv, Ram!ramfd_truncate
<1>6. ASSUME NEW d \in DOMAIN ramfds, NEW c \in Bytes, Ram!ramfd_write(d, c) PROVE RamInv'
  <2> DEFINE p == ramfds[d].pos
             f == ramfds[d].file
             g == Ram!Grown(files[f], p)
             h == [g EXCEPT !.data[p + 1] = c]
             to == p + 1
  <2>1. /\ p \in Nat /\ to \in Nat /\ f \in DOMAIN files /\ files[f] \in RamFile /\ Sized(files[f])
        /\ c \in 0 .. 255 /\ files[f].size \in Nat
    BY RamConstants, RamDescriptor
  <2>2. CASE p > files[f].size
    <3>1. g = files[f]
      BY <2>1, <2>2 DEF Ram!Grown
    <3>2. Ram!WritePanic(d, g) = "ramfile_write: invalid write position"
      <4> HIDE DEF g
      <4> QED BY <2>1, <2>2, <3>1 DEF Ram!WritePanic, Ram!Pos, Ram!File, RamFile
    <3>3. rampanic' = "ramfile_write: invalid write position" /\ UNCHANGED <<files, ramfds>>
      <4> HIDE DEF g
      <4> QED BY <1>6, <3>2 DEF Ram!ramfd_write, Ram!Panic, Ram!Pos, Ram!File, g
    <3>4. QED BY <3>3 DEF RamInv
  <2>3. CASE p <= files[f].size
    <3>1. p \in 0 .. files[f].size
      BY <2>1, <2>3
    <3>2. g \in RamFile /\ p < g.size /\ g.size <= Len(g.data) /\ h \in RamFile /\ Sized(h)
      BY <2>1, <3>1, Growing, ZenonT(60)
    <3>3. Ram!WritePanic(d, g) = "no"
      <4> HIDE DEF g
      <4> QED BY <2>1, <2>3, <3>2 DEF Ram!WritePanic, Ram!Pos, Ram!File, RamFile, p, f
    <3>4. files' = [files EXCEPT ![f] = h] /\ ramfds' = [ramfds EXCEPT ![d].pos = to] /\ rampanic' = rampanic
      BY <1>6, <3>3 DEF Ram!ramfd_write, Ram!Pos, Ram!File
    <3>5. QED
      <4> HIDE DEF h, f, to
      <4>1. /\ files' \in [DOMAIN files' -> RamFile] /\ DOMAIN files' = DOMAIN files
            /\ \A e \in DOMAIN files' : Sized(files'[e])
        BY <2>1, <3>2, <3>4 DEF RamInv
      <4>2. ramfds' \in [DOMAIN ramfds' -> [file : DOMAIN files, pos : Nat]]
        BY <2>1, <3>4, ZenonT(60) DEF RamInv
      <4>3. QED BY <3>4, <4>1, <4>2 DEF RamInv
  <2>4. QED BY <2>1, <2>2, <2>3
<1>7. ASSUME NEW d \in DOMAIN ramfds, NEW off \in Offsets,
             NEW whence \in {Ram!SEEK_SET, Ram!SEEK_CUR, Ram!SEEK_END}, Ram!ramfd_seek(d, off, whence)
      PROVE  RamInv'
  <2> DEFINE to == Ram!Target(d, off, whence)
  <2>1. off \in Int /\ ramfds[d].pos \in Nat /\ files[ramfds[d].file].size \in Nat
    BY ProgramConstants DEF RamInv, RamFile
  <2>2. to \in Int
    BY <2>1 DEF Ram!Target, Ram!Pos, Ram!File, Ram!SEEK_SET, Ram!SEEK_CUR, Ram!SEEK_END
  <2>3. to \in Nat /\ ramfds' = [ramfds EXCEPT ![d].pos = to] /\ UNCHANGED <<files, rampanic>>
    BY <1>7, <2>2 DEF Ram!ramfd_seek
  <2>4. QED
    <3> HIDE DEF to
    <3> QED BY <2>3 DEF RamInv
<1>8. CASE ramfds' = [d \in {} |-> 0] /\ files' = [f \in {} |-> 0] /\ rampanic' = "no"
  BY <1>8 DEF RamInv
<1>9. QED BY <1>1, <1>2, <1>3, <1>4, <1>5, <1>6, <1>7, <1>8 DEF RamStep

\* Nothing is open and nothing goes on at first.
LEMMA InitialControl ==
  ASSUME Init
  PROVE  Control /\ RamInv
BY IdleIsIdle DEF Init, Control, Used, RamInv, Ram!Init, InitFiles!Init, Disk!Init, Ram!ramfile_init

\* Control and the invariant of /ram in every state.
LEMMA ControlAndRam == Spec => [](Control /\ RamInv)
<1>1. ASSUME Control, RamInv, [Next]_vars PROVE Control' /\ RamInv'
  <2>1. CASE Next
    BY <1>1, <2>1, ControlInductive, Steps, RamInductive
  <2>2. CASE UNCHANGED vars
    BY <1>1, <2>2 DEF vars, ramVars, initVars, diskVars, Control, Used, RamInv
  <2>3. QED BY <1>1, <2>1, <2>2
<1>2. QED BY <1>1, InitialControl, PTL DEF Spec

\* The internal assertions of ramfs.g never fail, whatever is read, written,
\* truncated and sought through several descriptors of a file, by programs and
\* by the functions of the C library: the vector of a file has room for its
\* size and less than a word more.
THEOREM InternalAssertionsHold == Spec => []InternalAssertions
<1>1. RamInv => InternalAssertions
  <2> SUFFICES ASSUME RamInv PROVE InternalAssertions
    OBVIOUS
  <2>1. \A f \in DOMAIN files : files[f] \in RamFile /\ Sized(files[f])
    BY DEF RamInv
  <2>2. \A f \in DOMAIN files : /\ files[f].size \in 0 .. Len(files[f].data)
                                /\ Len(files[f].data) < files[f].size + WORD /\ Len(files[f].data) % WORD = 0
    BY <2>1 DEF RamFile, Sized
  <2>3. Ram!TypeOK
    BY RamDescriptor DEF Ram!TypeOK, Ram!Pos
  <2>4. QED BY <2>2, <2>3 DEF RamInv, InternalAssertions, Ram!InternalAssertions
<1>2. QED BY <1>1, ControlAndRam, PTL

----------------------------------------------------------------------------
(* What fwrite and fputs leave in a file *)

\* g is what is being written, p where the descriptor is, s the bytes of the
\* file: what was written is a beginning of the text, and the rest is left, or
\* fputs has stopped.
Written(g, p, s) ==
  LET n == p - g.from
  IN  /\ g.from <= p /\ n <= Len(g.text) /\ (p = g.from \/ p <= Len(s))
      /\ \A r \in 1 .. n : s[g.from + r] = g.text[r]
      /\ \A r \in 1 .. n - 1 : ~ Stops(g.op, g.text[r])
      /\ \/ /\ n = 0 \/ ~ Stops(g.op, g.text[n])
            /\ Len(g.left) = Len(g.text) - n
            /\ \A r \in 1 .. Len(g.left) : g.left[r] = g.text[n + r]
         \/ g.left = <<>> /\ n >= 1 /\ Stops(g.op, g.text[n])

TextInv ==
  rampanic = "no" /\ ~ halted /\ doing \in WritingText =>
    Written(doing, ramfds[doing.d].pos, Ram!Stored(ramfds[doing.d].file))

\* One more byte.
LEMMA OneMore ==
  ASSUME NEW g \in WritingText, NEW p \in Nat, NEW s \in Seq(0 .. 255), Written(g, p, s), p <= Len(s),
         g.left # <<>>, NEW s2, NEW g2,
         s2 = IF p = Len(s) THEN Append(s, Head(g.left)) ELSE [s EXCEPT ![p + 1] = Head(g.left)],
         g2 = [g EXCEPT !.left = IF Stops(g.op, Head(g.left)) THEN <<>> ELSE Tail(@)]
  PROVE  Written(g2, p + 1, s2)
<1>1. PICK from, text, left, op : from = g.from /\ text = g.text /\ left = g.left /\ op = g.op
  OBVIOUS
<1>2. from \in Nat /\ text \in Seq(Bytes) /\ left \in Seq(Bytes)
  BY <1>1 DEF WritingText
<1>3. PICK n, c, rest : n = p - from /\ c = Head(left) /\ rest = IF Stops(op, c) THEN <<>> ELSE Tail(left)
  OBVIOUS
<1>4. g2.from = from /\ g2.text = text /\ g2.op = op /\ g2.left = rest
  BY <1>1, <1>3 DEF WritingText
<1>5. Len(text) \in Nat /\ Len(left) \in Nat /\ Len(s) \in Nat /\ Len(left) >= 1
  BY <1>1, <1>2, LenProperties
<1>6. /\ from <= p /\ n <= Len(text) /\ n \in Nat
      /\ \A r \in 1 .. n : s[from + r] = text[r]
      /\ \A r \in 1 .. n - 1 : ~ Stops(op, text[r])
      /\ n = 0 \/ ~ Stops(op, text[n])
      /\ Len(left) = Len(text) - n
      /\ \A r \in 1 .. Len(left) : left[r] = text[n + r]
  BY <1>1, <1>2, <1>3 DEF Written
<1>7. c = text[n + 1] /\ c \in Bytes /\ c \in 0 .. 255
  <2>1. 1 \in 1 .. Len(left) /\ c = left[1]
    BY <1>1, <1>2, <1>3, <1>5
  <2>2. QED BY <1>2, <1>6, <2>1, ElementOfSeq, RamConstants
<1>8. Tail(left) \in Seq(Bytes) /\ Len(Tail(left)) = Len(left) - 1 /\ \A r \in 1 .. Len(left) - 1 : Tail(left)[r] = left[r + 1]
  BY <1>1, <1>2, <1>5, HeadTailProperties
<1>9. /\ Len(s2) >= p + 1 /\ Len(s2) \in Nat /\ s2[p + 1] = c /\ \A r \in 1 .. p : s2[r] = s[r]
  <2>1. CASE p = Len(s)
    <3>1. s2 = Append(s, c)
      BY <1>1, <1>3, <2>1
    <3>2. QED BY <1>7, <2>1, <3>1, AppendProperties
  <2>2. CASE p # Len(s)
    <3>1. p + 1 \in 1 .. Len(s) /\ s2 = [s EXCEPT ![p + 1] = c]
      BY <1>1, <1>3, <1>5, <2>2
    <3>2. Len(s2) = Len(s) /\ \A r \in 1 .. Len(s) : s2[r] = IF r = p + 1 THEN c ELSE s[r]
      BY <1>7, <3>1, ExceptSeq
    <3>3. \A r \in 1 .. p : r \in 1 .. Len(s) /\ r # p + 1
      BY <1>5
    <3>4. QED BY <1>5, <2>2, <3>1, <3>2, <3>3
  <2>3. QED BY <2>1, <2>2
<1>10. /\ (p + 1) - from = n + 1 /\ n + 1 <= Len(text) /\ from <= p + 1
  BY <1>2, <1>3, <1>5, <1>6
<1>11. \A r \in 1 .. n + 1 : s2[from + r] = text[r]
  <2>1. ASSUME NEW r \in 1 .. n + 1 PROVE s2[from + r] = text[r]
    <3>1. CASE r = n + 1
      <4>1. from + r = p + 1
        BY <1>2, <1>3, <1>6, <3>1
      <4>2. QED BY <1>7, <1>9, <3>1, <4>1
    <3>2. CASE r # n + 1
      <4>1. r \in 1 .. n /\ from + r \in 1 .. p
        BY <1>2, <1>3, <1>6, <3>2, SMTT(30)
      <4>2. QED BY <1>6, <1>9, <4>1
    <3>3. QED BY <3>1, <3>2
  <2>2. QED BY <2>1
<1>12. \A r \in 1 .. (n + 1) - 1 : ~ Stops(op, text[r])
  <2>1. \A r \in 1 .. (n + 1) - 1 : r \in 1 .. n - 1 \/ r = n
    BY <1>6
  <2>2. n = 0 => \A r \in 1 .. (n + 1) - 1 : FALSE
    OBVIOUS
  <2>3. QED BY <1>6, <2>1, <2>2
<1>13. \/ /\ ~ Stops(op, text[n + 1])
          /\ Len(rest) = Len(text) - (n + 1)
          /\ \A r \in 1 .. Len(rest) : rest[r] = text[(n + 1) + r]
       \/ rest = <<>> /\ n + 1 >= 1 /\ Stops(op, text[n + 1])
  <2>1. CASE Stops(op, c)
    BY <1>3, <1>6, <1>7, <2>1
  <2>2. CASE ~ Stops(op, c)
    <3>1. rest = Tail(left)
      BY <1>3, <2>2
    <3>2. Len(rest) = Len(text) - (n + 1) /\ Len(rest) = Len(left) - 1
      BY <1>5, <1>6, <1>8, <3>1
    <3>3. \A r \in 1 .. Len(left) - 1 : r + 1 \in 1 .. Len(left) /\ n + (r + 1) = (n + 1) + r
      <4>1. PICK l : l = Len(left)
        OBVIOUS
      <4>2. n \in Nat /\ l \in Nat
        BY <1>5, <1>6, <4>1
      <4>3. \A r \in 1 .. l - 1 : r + 1 \in 1 .. l /\ n + (r + 1) = (n + 1) + r
        BY <4>2
      <4>4. QED BY <4>1, <4>3
    <3>4. \A r \in 1 .. Len(rest) : rest[r] = text[(n + 1) + r]
      BY <1>6, <1>8, <3>1, <3>2, <3>3, SMTT(30)
    <3>5. QED BY <1>7, <2>2, <3>2, <3>4
  <2>3. QED BY <2>1, <2>2
<1>14. QED BY <1>4, <1>9, <1>10, <1>11, <1>12, <1>13, ZenonT(60) DEF Written

\* A call that writes a byte within the file.
LEMMA WriteStores ==
  ASSUME RamInv, NEW d \in DOMAIN ramfds, NEW c \in Bytes, Ram!ramfd_write(d, c), rampanic = "no", rampanic' = "no"
  PROVE  LET f == ramfds[d].file
             p == ramfds[d].pos
             s == Ram!Stored(f)
         IN  /\ p \in Nat /\ s \in Seq(0 .. 255) /\ p <= Len(s) /\ d \in DOMAIN ramfds'
             /\ ramfds'[d].file = f /\ ramfds'[d].pos = p + 1
             /\ Ram!Stored(f)' = IF p = Len(s) THEN Append(s, c) ELSE [s EXCEPT ![p + 1] = c]
<1>1. PICK f, p, y, g : f = ramfds[d].file /\ p = ramfds[d].pos /\ y = files[f] /\ g = Ram!Grown(y, p)
  OBVIOUS
<1>2. PICK h, s : h = [g EXCEPT !.data[p + 1] = c] /\ s = SubSeq(y.data, 1, y.size)
  OBVIOUS
<1>3. /\ f \in DOMAIN files /\ p \in Nat /\ y \in RamFile /\ Sized(y) /\ y.size \in Nat /\ c \in 0 .. 255
  BY <1>1, RamDescriptor, RamConstants
<1>4. s \in Seq(0 .. 255) /\ Len(s) = y.size /\ s = Ram!Stored(f)
  BY <1>1, <1>2, <1>3, StoredBytes DEF Ram!Stored
<1>5. Ram!WritePanic(d, g) = "no"
  <2>1. CASE Ram!WritePanic(d, g) # "no"
    <3>1. rampanic' = Ram!WritePanic(d, g)
      BY <1>1, <2>1 DEF Ram!ramfd_write, Ram!Panic, Ram!File, Ram!Pos
    <3>2. QED BY <2>1, <3>1
  <2>2. QED BY <2>1
<1>6. p <= y.size
  BY <1>1, <1>3, <1>5 DEF Ram!WritePanic, Ram!Pos, Ram!File
<1>7. files' = [files EXCEPT ![f] = h] /\ ramfds' = [ramfds EXCEPT ![d].pos = @ + 1]
  BY <1>1, <1>2, <1>5 DEF Ram!ramfd_write, Ram!File, Ram!Pos
<1>8. ramfds'[d].file = f /\ ramfds'[d].pos = p + 1 /\ d \in DOMAIN ramfds'
  <2>1. ramfds \in [DOMAIN ramfds -> [file : DOMAIN files, pos : Nat]]
    BY DEF RamInv
  <2>2. QED BY <1>1, <1>7, <2>1
<1>9. SubSeq(h.data, 1, h.size) = IF p = Len(s) THEN Append(s, c) ELSE [s EXCEPT ![p + 1] = c]
  <2>1. y \in RamFile /\ Sized(y) /\ p \in 0 .. y.size /\ c \in 0 .. 255
    BY <1>3, <1>6
  <2> DEFINE t == SubSeq(y.data, 1, y.size)
             w == [Ram!Grown(y, p) EXCEPT !.data[p + 1] = c]
  <2>2. SubSeq(w.data, 1, w.size) = IF p = y.size THEN Append(t, c) ELSE [t EXCEPT ![p + 1] = c]
    BY <2>1, WritingByte, ZenonT(60)
  <2> HIDE DEF w, t
  <2>3. h = w /\ t = s /\ y.size = Len(s)
    BY <1>1, <1>2, <1>4 DEF w, t
  <2>4. QED BY <2>2, <2>3
<1>10. Ram!Stored(f)' = SubSeq(h.data, 1, h.size)
  BY <1>3, <1>7 DEF Ram!Stored
<1>11. QED BY <1>1, <1>3, <1>4, <1>6, <1>8, <1>9, <1>10

\* The invariant holds while the function makes its calls.
LEMMA TextInductive ==
  ASSUME Control, RamInv, TextInv, Next
  PROVE  TextInv'
<1> SUFFICES ASSUME rampanic' = "no", ~ halted', doing' \in WritingText
             PROVE  Written(doing, ramfds[doing.d].pos, Ram!Stored(ramfds[doing.d].file))'
  BY DEF TextInv
<1> DEFINE Goal == Written(doing, ramfds[doing.d].pos, Ram!Stored(ramfds[doing.d].file))'
<1>1. doing' # Idle /\ doing'.op \in {"fputs", "fwrite"}
  BY DEF WritingText, Idle
<1>2. CASE Mounting
  <2>1. UNCHANGED <<doing, halted, ramVars>>
    BY <1>2 DEF Mounting
  <2>2. Written(doing, ramfds[doing.d].pos, Ram!Stored(ramfds[doing.d].file))
    BY <2>1 DEF TextInv, ramVars
  <2>3. QED BY <2>1, <2>2 DEF ramVars, Ram!Stored, Written
<1>3. CASE Program
  <2>1. CASE BeginWrite
    <3>1. PICK d \in DOMAIN ramfds, op \in {"fputs", "fwrite"}, text \in Texts :
            doing' = Writing(op, d, text) /\ UNCHANGED ramVars
      BY <2>1 DEF BeginWrite
    <3>2. PICK p : p = ramfds[d].pos
      OBVIOUS
    <3>3. p \in Nat /\ text \in Seq(Bytes) /\ Len(text) \in Nat
      BY <3>2, RamDescriptor, ProgramConstants, LenProperties
    <3>4. PICK g : g = Writing(op, d, text)
      OBVIOUS
    <3>5. g.d = d /\ g.op = op /\ g.text = text /\ g.left = text /\ g.from = p
      BY <3>2, <3>4 DEF Writing
    <3>6. PICK s : s = Ram!Stored(ramfds[d].file)
      OBVIOUS
    <3>7. Written(g, p, s)
      <4>1. p - p = 0 /\ p <= p /\ 0 <= Len(text) /\ Len(text) - 0 = Len(text)
        BY <3>3
      <4>2. \A r \in 1 .. Len(text) : 0 + r = r
        BY <3>3
      <4>3. (\A r \in 1 .. 0 : FALSE) /\ (\A r \in 1 .. 0 - 1 : FALSE)
        OBVIOUS
      <4>4. QED BY <3>5, <4>1, <4>2, <4>3 DEF Written
    <3>8. doing' = g /\ ramfds'[g.d].pos = p /\ Ram!Stored(ramfds[d].file)' = s
      BY <3>1, <3>2, <3>4, <3>5, <3>6 DEF ramVars, Ram!Stored
    <3>9. QED
      <4>1. ramfds' = ramfds /\ files' = files
        BY <3>1 DEF ramVars
      <4>2. Ram!Stored(ramfds[doing.d].file)' = s
        BY <3>4, <3>5, <3>6, <3>8, <4>1 DEF Ram!Stored
      <4>3. QED BY <3>5, <3>7, <3>8, <4>1, <4>2 DEF Written
  <2>2. CASE fputc
    <3>1. doing.op \in {"fputs", "fwrite"} /\ doing.left # <<>>
      BY <2>2 DEF fputc
    <3>2. doing \in WritingText /\ doing.d \in DOMAIN ramfds
      BY <3>1 DEF Control, Idle, Opening, Copying
    <3>3. PICK g, d, c, f, p : g = doing /\ d = doing.d /\ c = Head(doing.left) /\ f = ramfds[d].file /\ p = ramfds[d].pos
      OBVIOUS
    <3>4. PICK s, s2, g2 : s = Ram!Stored(f) /\ s2 = Ram!Stored(f)' /\ g2 = doing'
      OBVIOUS
    <3>5. c \in Bytes
      <4>1. doing.left \in Seq(Bytes)
        BY <3>2 DEF WritingText
      <4>2. QED BY <3>1, <3>3, <4>1
    <3>6. Ram!ramfd_write(d, c) /\ halted' = halted
      BY <2>2, <3>2, <3>3 DEF fputc, vfs_write
    <3>7. rampanic = "no"
      BY DEF Next, Running
    <3>8. /\ p \in Nat /\ s \in Seq(0 .. 255) /\ p <= Len(s)
          /\ ramfds'[d].file = f /\ ramfds'[d].pos = p + 1
          /\ s2 = IF p = Len(s) THEN Append(s, c) ELSE [s EXCEPT ![p + 1] = c]
      BY <3>2, <3>3, <3>4, <3>5, <3>6, <3>7, WriteStores
    <3>9. g2 = [g EXCEPT !.left = IF Stops(g.op, c) THEN <<>> ELSE Tail(@)]
      BY <2>2, <3>3, <3>4 DEF fputc
    <3>10. Written(g, p, s)
      BY <3>2, <3>3, <3>4, <3>6, <3>7 DEF TextInv
    <3>11. Written(g2, p + 1, s2)
      BY <3>1, <3>2, <3>3, <3>8, <3>9, <3>10, OneMore, ZenonT(60)
    <3>12. g2.d = d
      BY <3>2, <3>3, <3>9 DEF WritingText
    <3>13. doing' = g2 /\ ramfds'[g2.d].pos = p + 1 /\ Ram!Stored(ramfds[doing.d].file)' = s2
      BY <3>4, <3>8, <3>12 DEF Ram!Stored
    <3>14. QED BY <3>11, <3>13 DEF Written
  <2>3. CASE doing' = doing /\ doing = Idle
    BY <1>1, <2>3
  <2>4. CASE EndWrite \/ Truncate
    BY <1>1, <2>4 DEF EndWrite, Truncate
  <2>5. CASE \E path \in Paths, d \in Fds \ Used : open(path, d)
    BY <1>1, <2>5 DEF open
  <2>6. QED BY <1>3, <2>1, <2>2, <2>3, <2>4, <2>5 DEF Program
<1>4. CASE Copy
  <2>1. user = "copies" /\ user' = user
    BY <1>4 DEF Copy
  <2>2. Control'
    BY ControlInductive
  <2>3. doing' \notin WritingText
    BY <2>1, <2>2 DEF Control
  <2>4. QED BY <2>3
<1>5. QED BY <1>2, <1>3, <1>4 DEF Next

\* fwrite leaves the whole text in the file from where it began, and fputs the
\* text up to the first character that is EOF as a char: for every text, every
\* file and every position in it that they begin at.
THEOREM TextIsWritten == Spec => []TextWritten
<1>1. ASSUME Control, RamInv, TextInv PROVE TextWritten
  <2> SUFFICES ASSUME Running, doing.op \in {"fputs", "fwrite"}, doing.left = <<>>
               PROVE  SubSeq(Ram!Stored(ramfds[doing.d].file), doing.from + 1, ramfds[doing.d].pos)
                      = IF doing.op = "fputs" THEN UpToEOF(doing.text) ELSE doing.text
    BY DEF TextWritten
  <2>1. doing \in WritingText /\ doing.d \in DOMAIN ramfds
    BY <1>1 DEF Control, Idle, Opening, Copying
  <2>2. PICK op, text, from, d, p, s : /\ op = doing.op /\ text = doing.text /\ from = doing.from /\ d = doing.d
                                       /\ p = ramfds[d].pos /\ s = Ram!Stored(ramfds[d].file)
    OBVIOUS
  <2>3. Written(doing, p, s)
    BY <1>1, <2>1, <2>2 DEF TextInv, Running
  <2>4. /\ op \in {"fputs", "fwrite"} /\ text \in Seq(Bytes) /\ from \in Nat /\ Len(text) \in Nat
        /\ Bytes \subseteq 0 .. 255
    BY <2>1, <2>2, RamConstants, LenProperties DEF WritingText
  <2>5. p \in Nat
    BY <1>1, <2>1, <2>2, RamDescriptor
  <2>6. PICK n : n = p - from
    OBVIOUS
  <2>7. /\ n \in Nat /\ from <= p /\ n <= Len(text)
        /\ \A r \in 1 .. n : s[from + r] = text[r]
        /\ \A r \in 1 .. n - 1 : ~ Stops(op, text[r])
        /\ \/ (n = 0 \/ ~ Stops(op, text[n])) /\ Len(doing.left) = Len(text) - n
           \/ n >= 1 /\ Stops(op, text[n])
    BY <2>2, <2>3, <2>4, <2>5, <2>6, SMTT(30) DEF Written
  <2>8. Len(doing.left) = 0
    OBVIOUS
  <2>9. \/ (n = 0 \/ ~ Stops(op, text[n])) /\ n = Len(text)
        \/ n >= 1 /\ Stops(op, text[n])
    BY <2>4, <2>7, <2>8
  <2> DEFINE w == SubSeq(s, from + 1, p)
  <2>10. w \in Seq(Bytes) /\ Len(w) = n /\ \A r \in 1 .. n : w[r] = text[r]
    <3>1. \A i \in from + 1 .. p : i - from \in 1 .. n /\ from + (i - from) = i
      BY <2>4, <2>5, <2>6
    <3>2. \A r \in 1 .. n : text[r] \in Bytes
      <4>1. \A r \in 1 .. n : r \in 1 .. Len(text)
        BY <2>4, <2>7
      <4>2. QED BY <2>4, <4>1, ElementOfSeq
    <3>3. \A i \in from + 1 .. p : s[i] \in Bytes
      BY <2>7, <3>1, <3>2
    <3>4. from + 1 \in Int /\ p \in Int
      BY <2>4, <2>5
    <3>5. /\ w \in Seq(Bytes)
          /\ Len(w) = IF from + 1 <= p THEN p - (from + 1) + 1 ELSE 0
          /\ \A i \in 1 .. p - (from + 1) + 1 : w[i] = s[(from + 1) + i - 1]
      BY <3>3, <3>4, SubSeqProperties
    <3>6. /\ p - (from + 1) + 1 = n /\ (IF from + 1 <= p THEN p - (from + 1) + 1 ELSE 0) = n
          /\ \A i \in 1 .. n : (from + 1) + i - 1 = from + i
      BY <2>4, <2>5, <2>6, <2>7
    <3> HIDE DEF w
    <3>7. QED BY <2>7, <3>5, <3>6
  <2> HIDE DEF w
  <2>11. CASE op = "fwrite"
    <3>1. n = Len(text)
      BY <2>9, <2>11 DEF Stops
    <3>2. w = text
      BY <2>4, <2>10, <3>1, SeqEqual
    <3>3. QED BY <2>2, <2>11, <3>2 DEF w
  <2>12. CASE op = "fputs"
    <3> DEFINE stops == {i \in DOMAIN text : text[i] = 255}
    <3>1. DOMAIN text = 1 .. Len(text)
      BY <2>4, LenProperties
    <3>5. \A r \in 1 .. n - 1 : text[r] # 255
      <4>1. \A x : Stops(op, x) <=> x = 255
        BY <2>12 DEF Stops
      <4>2. QED BY <2>7, <4>1
    <3>2. CASE n = Len(text) /\ (n = 0 \/ text[n] # 255)
      <4>1. \A r \in 1 .. n : r \in 1 .. n - 1 \/ (r = n /\ n # 0)
        BY <2>7
      <4>2. stops = {}
        <5>1. ASSUME NEW i \in DOMAIN text, text[i] = 255 PROVE FALSE
          <6>1. i \in 1 .. n
            BY <3>1, <3>2
          <6>2. CASE i \in 1 .. n - 1
            BY <3>5, <5>1, <6>2
          <6>3. CASE i = n /\ n # 0
            BY <3>2, <5>1, <6>3
          <6>4. QED BY <4>1, <6>1, <6>2, <6>3
        <5>2. QED BY <5>1
      <4>3. UpToEOF(text) = text
        BY <4>2 DEF UpToEOF
      <4>4. w = text
        BY <2>4, <2>10, <3>2, SeqEqual
      <4>5. QED BY <2>2, <2>12, <4>3, <4>4 DEF w
    <3>3. CASE n >= 1 /\ text[n] = 255
      <4>1. n \in stops /\ \A j \in stops : n <= j
        <5>1. \A j \in 1 .. Len(text) : j \in 1 .. n - 1 \/ n <= j
          BY <2>4, <2>7
        <5>2. n \in 1 .. Len(text)
          BY <2>4, <2>7, <3>3
        <5>3. QED BY <3>1, <3>3, <3>5, <5>1, <5>2
      <4>2. \A i \in stops : (\A j \in stops : i <= j) => i = n
        <5>1. \A i \in stops : i \in Int
          BY <3>1
        <5> HIDE DEF stops
        <5>2. QED BY <2>7, <4>1, <5>1
      <4>3. (CHOOSE i \in stops : \A j \in stops : i <= j) = n
        <5> HIDE DEF stops
        <5>1. QED BY <4>1, <4>2
      <4>4. UpToEOF(text) = SubSeq(text, 1, n)
        <5>1. stops # {}
          BY <4>1
        <5>2. UpToEOF(text) = IF stops = {} THEN text ELSE SubSeq(text, 1, CHOOSE i \in stops : \A j \in stops : i <= j)
          BY DEF UpToEOF
        <5> HIDE DEF stops
        <5>3. QED BY <4>3, <5>1, <5>2
      <4>5. /\ SubSeq(text, 1, n) \in Seq(Bytes) /\ Len(SubSeq(text, 1, n)) = n
            /\ \A r \in 1 .. n : SubSeq(text, 1, n)[r] = text[r]
        <5>1. 1 \in Int /\ n \in Int /\ \A i \in 1 .. n : text[i] \in Bytes
          <6>1. \A i \in 1 .. n : i \in 1 .. Len(text)
            BY <2>4, <2>7
          <6>2. QED BY <2>4, <2>7, <6>1, ElementOfSeq
        <5> DEFINE v == SubSeq(text, 1, n)
        <5>2. /\ v \in Seq(Bytes) /\ Len(v) = IF 1 <= n THEN n - 1 + 1 ELSE 0
              /\ \A i \in 1 .. n - 1 + 1 : v[i] = text[1 + i - 1]
          BY <5>1, SubSeqProperties
        <5>3. (IF 1 <= n THEN n - 1 + 1 ELSE 0) = n /\ n - 1 + 1 = n /\ \A i \in 1 .. n : 1 + i - 1 = i
          BY <2>7
        <5> HIDE DEF v
        <5>4. QED BY <5>2, <5>3 DEF v
      <4>6. w = SubSeq(text, 1, n)
        <5> DEFINE v == SubSeq(text, 1, n)
        <5> HIDE DEF v
        <5>1. v \in Seq(Bytes) /\ Len(v) = n /\ \A r \in 1 .. n : v[r] = text[r]
          BY <4>5 DEF v
        <5>2. QED BY <2>10, <5>1, SeqEqual DEF v
      <4>7. QED BY <2>2, <2>12, <4>4, <4>6 DEF w
    <3>4. QED BY <2>9, <2>12, <3>2, <3>3 DEF Stops
  <2>13. QED BY <2>4, <2>11, <2>12
<1>2. Init => TextInv
  BY IdleIsIdle DEF Init, TextInv
<1>3. ASSUME Control, RamInv, TextInv, [Next]_vars PROVE TextInv'
  <2>1. CASE Next
    BY <1>3, <2>1, TextInductive
  <2>2. CASE UNCHANGED vars
    BY <1>3, <2>2 DEF vars, ramVars, TextInv, Written, Ram!Stored
  <2>3. QED BY <1>3, <2>1, <2>2
<1>4. QED BY <1>1, <1>2, <1>3, ControlAndRam, PTL DEF Spec

----------------------------------------------------------------------------
(* What create_diskfs.py writes *)

\* Sums and Joins are the same in DiskFs.
LEMMA SamePrefixes ==
  /\ \A s : Disk!Sums(s) = Sums(s)
  /\ \A parts : Disk!Joins(parts) = Joins(parts)
BY Zenon DEF Disk!Sums, Sums, Disk!Joins, Joins

\* Four bytes are four bytes, and the number they stand for is read from the
\* most significant one on.
Word(x, k) ==
  CASE k = 0 -> 0
    [] k = 1 -> ((x \div BASE) \div BASE) \div BASE
    [] k = 2 -> (x \div BASE) \div BASE
    [] k = 3 -> x \div BASE
    [] k = 4 -> x

\* A quotient of a number below m * t is below t.
LEMMA DivBelow ==
  ASSUME NEW m \in Nat \ {0}, NEW x \in Nat, NEW t \in Nat, x < m * t
  PROVE  x \div m \in 0 .. t - 1
<1>1. x = m * (x \div m) + (x % m) /\ x % m \in 0 .. m - 1 /\ x \div m \in Int
  BY DivModDef
<1> DEFINE q == x \div m
<1>2. ~ (t <= q)
  <2>1. SUFFICES ASSUME t <= q PROVE m * t <= m * q
    BY <1>1
  <2>2. CASE t = q
    BY <2>2, <1>1
  <2>3. CASE t + 1 <= q
    BY <2>3, <1>1, MulMono
  <2>4. QED BY <1>1, <2>1, <2>2, <2>3
<1>3. ~ (q + 1 <= 0)
  <2>1. SUFFICES ASSUME q + 1 <= 0 PROVE m * q + m <= m * 0
    BY <1>1
  <2>2. QED BY <1>1, <2>1, MulMono
<1>4. QED BY <1>1, <1>2, <1>3

\* The last byte of a number, and the rest.
LEMMA LastByte ==
  ASSUME NEW x \in Nat, NEW t \in Nat, x < BASE * t
  PROVE  /\ x = BASE * (x \div BASE) + (x % BASE)
         /\ x % BASE \in Nat /\ x % BASE < BASE /\ x \div BASE \in Nat /\ x \div BASE < t
<1>1. BASE \in Nat \ {0}
  BY DiskConstants
<1>2. x \div BASE \in 0 .. t - 1
  BY <1>1, DivBelow
<1>3. x = BASE * (x \div BASE) + (x % BASE) /\ x % BASE \in 0 .. BASE - 1
  BY <1>1, DivModDef
<1>4. QED BY <1>1, <1>2, <1>3

\* Packing a number that fits in four bytes, and putting it together again byte
\* by byte as diskmount_init does.
LEMMA PackWord ==
  ASSUME NEW x \in Nat, x < BASE * BASE * BASE * BASE
  PROVE  /\ Disk!Pack(x) \in Seq(Nat) /\ Len(Disk!Pack(x)) = 4
         /\ \A k \in 0 .. 3 : Disk!Shifted(Word(x, k), k, Disk!Pack(x)[k + 1]) = Word(x, k + 1)
         /\ Word(x, 0) = 0 /\ Word(x, 4) = x
<1> DEFINE y == x \div BASE
           z == y \div BASE
           w == z \div BASE
           B2 == BASE * BASE
           B3 == BASE * B2
<1>1. BASE \in Nat \ {0} /\ B2 \in Nat /\ B3 \in Nat /\ x < BASE * B3
  BY DiskConstants
<1> HIDE DEF B3
<1>2. x = BASE * y + (x % BASE) /\ x % BASE \in Nat /\ y \in Nat /\ y < B3
  BY <1>1, LastByte
<1> HIDE DEF y, B2
<1>3. y = BASE * z + (y % BASE) /\ y % BASE \in Nat /\ z \in Nat /\ z < B2
  BY <1>1, <1>2, LastByte DEF B3
<1> HIDE DEF z
<1>4. z = BASE * w + (z % BASE) /\ z % BASE \in Nat /\ w \in Nat /\ w < BASE
  BY <1>1, <1>3, LastByte DEF B2
<1> HIDE DEF w
<1>5. w % BASE = w
  <2>1. w = BASE * 0 + w /\ w \in 0 .. BASE - 1
    BY <1>1, <1>4
  <2>2. QED BY <1>1, <2>1, DivModUnique
<1>6. Disk!Pack(x) = <<w % BASE, z % BASE, y % BASE, x % BASE>>
  BY DEF Disk!Pack, w, z, y
<1>7. Word(x, 0) = 0 /\ Word(x, 1) = w /\ Word(x, 2) = z /\ Word(x, 3) = y /\ Word(x, 4) = x
  BY DEF Word, w, z, y
<1> DEFINE xb == x % BASE
           yb == y % BASE
           zb == z % BASE
<1> HIDE DEF xb, yb, zb
<1>8. /\ Disk!Pack(x) = <<w, zb, yb, xb>> /\ xb \in Nat /\ yb \in Nat /\ zb \in Nat
      /\ x = y * BASE + xb /\ y = z * BASE + yb /\ z = w * BASE + zb /\ w = 0 * BASE + w
  BY <1>1, <1>2, <1>3, <1>4, <1>5, <1>6 DEF xb, yb, zb
<1>9. /\ Disk!Pack(x) \in Seq(Nat) /\ Len(Disk!Pack(x)) = 4
      /\ Disk!Pack(x)[0 + 1] = w /\ Disk!Pack(x)[1 + 1] = zb /\ Disk!Pack(x)[2 + 1] = yb /\ Disk!Pack(x)[3 + 1] = xb
  BY <1>4, <1>8
<1>10. /\ Disk!Shifted(Word(x, 0), 0, w) = Word(x, 0 + 1) /\ Disk!Shifted(Word(x, 1), 1, zb) = Word(x, 1 + 1)
       /\ Disk!Shifted(Word(x, 2), 2, yb) = Word(x, 2 + 1) /\ Disk!Shifted(Word(x, 3), 3, xb) = Word(x, 3 + 1)
  BY <1>7, <1>8 DEF Disk!Shifted
<1>11. \A k \in 0 .. 3 : k = 0 \/ k = 1 \/ k = 2 \/ k = 3
  OBVIOUS
<1>12. QED BY <1>7, <1>9, <1>10, <1>11

\* Where the table has the entry of a file, and where its bytes are.
EntryAt(im, i) == MAGIC + Sums(Disk!EntrySizes(im))[i - 1]

LaidOut(im, b) ==
  /\ b \in Seq(Nat)
  /\ Len(b) \in Nat /\ Disk!TableLen(im) <= Len(b)
  /\ \A i \in 1 .. Len(im) :
       /\ \A r \in 1 .. Len(im[i].name) : b[EntryAt(im, i) + r] = im[i].name[r]
       /\ b[EntryAt(im, i) + Len(im[i].name) + 1] = 0
       /\ \A r \in 1 .. 4 : b[EntryAt(im, i) + Len(im[i].name) + 1 + r] = Disk!Pack(Disk!StartOf(im, i))[r]
       /\ \A r \in 1 .. 4 : b[EntryAt(im, i) + Len(im[i].name) + 5 + r] = Disk!Pack(Len(im[i].body))[r]
       /\ EntryAt(im, i + 1) <= EntryAt(im, Len(im) + 1)
       /\ \A r \in 1 .. Len(im[i].body) :
            Disk!StartOf(im, i) + r \in 1 .. Len(b) /\ b[Disk!StartOf(im, i) + r] = im[i].body[r]
  /\ b[EntryAt(im, Len(im) + 1) + 1] = 0

\* Sizes and positions of an image are numbers, and the entries follow each other.
LEMMA ImageNumbers ==
  ASSUME NEW im, Disk!IsImage(im)
  PROVE  /\ Len(im) \in Nat /\ DOMAIN im = 1 .. Len(im)
         /\ Disk!EntrySizes(im) \in Seq(Nat) /\ Len(Disk!EntrySizes(im)) = Len(im)
         /\ Disk!BodySizes(im) \in Seq(Nat) /\ Len(Disk!BodySizes(im)) = Len(im)
         /\ \A i \in 1 .. Len(im) :
              /\ im[i].name \in Seq(1 .. BASE - 1) /\ im[i].name # <<>> /\ im[i].body \in Seq(0 .. BASE - 1)
              /\ Len(im[i].name) \in Nat /\ Len(im[i].body) \in Nat
              /\ Disk!EntrySizes(im)[i] = 9 + Len(im[i].name)
              /\ Disk!BodySizes(im)[i] = Len(im[i].body)
         /\ EntryAt(im, 1) = MAGIC
         /\ \A i \in 1 .. Len(im) :
              /\ EntryAt(im, i) \in Nat /\ EntryAt(im, i + 1) \in Nat
              /\ EntryAt(im, i + 1) = EntryAt(im, i) + Len(im[i].name) + 9
              /\ Disk!StartOf(im, i) \in Nat /\ Disk!StartOf(im, i) < BASE * BASE * BASE * BASE
              /\ Len(im[i].body) < BASE * BASE * BASE * BASE
         /\ Disk!TableLen(im) = EntryAt(im, Len(im) + 1) + 1
         /\ Disk!TableLen(im) \in Nat /\ EntryAt(im, Len(im) + 1) \in Nat
<1> DEFINE n == Len(im)
           es == Disk!EntrySizes(im)
           bs == Disk!BodySizes(im)
<1> DEFINE Rec == [name : Seq(1 .. BASE - 1) \ {<<>>}, body : Seq(0 .. BASE - 1)]
<1>1. im \in Seq(Rec)
  BY DEF Disk!IsImage
<1>2. n \in Nat /\ DOMAIN im = 1 .. n /\ MAGIC \in Nat
  <2> HIDE DEF Rec
  <2>1. QED BY <1>1, DiskConstants, LenProperties
<1>3. ASSUME NEW i \in 1 .. n
      PROVE  /\ im[i].name \in Seq(1 .. BASE - 1) /\ im[i].name # <<>> /\ im[i].body \in Seq(0 .. BASE - 1)
             /\ Len(im[i].name) \in Nat /\ Len(im[i].body) \in Nat
  <2>1. im[i] \in Rec
    <3> HIDE DEF Rec
    <3>1. QED BY <1>1, <1>2, ElementOfSeq
  <2>2. im[i].name \in Seq(1 .. BASE - 1) /\ im[i].name # <<>> /\ im[i].body \in Seq(0 .. BASE - 1)
    BY <2>1
  <2>3. QED BY <2>2, LenProperties
<1>4. /\ es \in Seq(Nat) /\ Len(es) = n /\ \A i \in 1 .. n : es[i] = 9 + Len(im[i].name)
      /\ bs \in Seq(Nat) /\ Len(bs) = n /\ \A i \in 1 .. n : bs[i] = Len(im[i].body)
  BY <1>2, <1>3 DEF Disk!EntrySizes, Disk!BodySizes
<1> HIDE DEF es, bs
<1>5. /\ Sums(es) \in [0 .. n -> Nat] /\ Sums(es)[0] = 0
      /\ \A k \in 1 .. n : Sums(es)[k] = Sums(es)[k - 1] + es[k]
      /\ Sums(bs) \in [0 .. n -> Nat]
  BY <1>4, SumsDef
<1>6. Disk!TableLen(im) = Sums(es)[n] + MAGIC + 1 /\ \A i : Disk!StartOf(im, i) = Disk!TableLen(im) + Sums(bs)[i - 1]
  BY SamePrefixes DEF Disk!TableLen, Disk!StartOf, es, bs
<1>7. \A i : EntryAt(im, i) = MAGIC + Sums(es)[i - 1]
  BY DEF EntryAt, es
<1>8. EntryAt(im, 1) = MAGIC
  BY <1>2, <1>5, <1>7
<1>9. /\ EntryAt(im, n + 1) = MAGIC + Sums(es)[n] /\ Sums(es)[n] \in Nat
  <2>1. (n + 1) - 1 = n /\ n \in 0 .. n
    BY <1>2
  <2>2. QED BY <1>5, <1>7, <2>1
<1>10. ASSUME NEW i \in 1 .. n
       PROVE  /\ EntryAt(im, i) \in Nat /\ EntryAt(im, i + 1) \in Nat
              /\ EntryAt(im, i + 1) = EntryAt(im, i) + Len(im[i].name) + 9
              /\ Disk!StartOf(im, i) \in Nat
  <2>1. i - 1 \in 0 .. n /\ i \in 0 .. n /\ (i + 1) - 1 = i
    BY <1>2
  <2>2. Sums(es)[i - 1] \in Nat /\ Sums(es)[i] \in Nat /\ Sums(bs)[i - 1] \in Nat /\ Sums(es)[n] \in Nat
    BY <1>5, <1>9, <2>1
  <2> DEFINE u == Sums(es)[i]
             v == Sums(es)[i - 1]
             l == Len(im[i].name)
  <2>3. u = v + es[i]
    BY <1>5
  <2>4. es[i] = 9 + l /\ l \in Nat /\ u \in Nat /\ v \in Nat
    BY <1>3, <1>4, <2>2
  <2>5. EntryAt(im, i) = MAGIC + v /\ EntryAt(im, i + 1) = MAGIC + u
    BY <1>7, <2>1
  <2>6. Disk!StartOf(im, i) = (Sums(es)[n] + MAGIC + 1) + Sums(bs)[i - 1]
    BY <1>6
  <2>7. Disk!StartOf(im, i) \in Nat
    BY <1>2, <2>2, <2>6
  <2> HIDE DEF u, v, l
  <2>8. EntryAt(im, i) \in Nat /\ EntryAt(im, i + 1) \in Nat /\ EntryAt(im, i + 1) = EntryAt(im, i) + l + 9
    BY <1>2, <2>3, <2>4, <2>5
  <2>9. QED BY <2>7, <2>8 DEF l
<1>11. \A i \in 1 .. n : Disk!StartOf(im, i) < BASE * BASE * BASE * BASE /\ Len(im[i].body) < BASE * BASE * BASE * BASE
  BY <1>2 DEF Disk!IsImage
<1>12. Disk!TableLen(im) = EntryAt(im, n + 1) + 1 /\ Disk!TableLen(im) \in Nat /\ EntryAt(im, n + 1) \in Nat
  BY <1>2, <1>6, <1>9
<1>13. /\ Disk!EntrySizes(im) \in Seq(Nat) /\ Len(Disk!EntrySizes(im)) = n
       /\ Disk!BodySizes(im) \in Seq(Nat) /\ Len(Disk!BodySizes(im)) = n
       /\ \A i \in 1 .. n : Disk!EntrySizes(im)[i] = 9 + Len(im[i].name) /\ Disk!BodySizes(im)[i] = Len(im[i].body)
  BY <1>4 DEF es, bs
<1>14. QED BY <1>2, <1>3, <1>8, <1>10, <1>11, <1>12, <1>13

\* Where the parts of an entry of the table are.
LEMMA EntryPlaces ==
  ASSUME NEW im, Disk!IsImage(im), NEW i \in 1 .. Len(im)
  PROVE  LET e == Disk!Entry(im, i)
             l == Len(im[i].name)
         IN  /\ e \in Seq(Nat) /\ Len(e) = Disk!EntrySizes(im)[i]
             /\ \A r \in 1 .. l : e[r] = im[i].name[r]
             /\ e[l + 1] = 0
             /\ \A r \in 1 .. 4 : e[l + 1 + r] = Disk!Pack(Disk!StartOf(im, i))[r]
             /\ \A r \in 1 .. 4 : e[l + 5 + r] = Disk!Pack(Len(im[i].body))[r]
<1> DEFINE a == im[i].name
           b == <<0>>
           c == Disk!Pack(Disk!StartOf(im, i))
           d == Disk!Pack(Len(im[i].body))
           l == Len(a)
           e == a \o b \o c \o d
<1>1. /\ a \in Seq(1 .. BASE - 1) /\ l \in Nat
      /\ Disk!StartOf(im, i) \in Nat /\ Disk!StartOf(im, i) < BASE * BASE * BASE * BASE
      /\ Len(im[i].body) \in Nat /\ Len(im[i].body) < BASE * BASE * BASE * BASE
      /\ Disk!EntrySizes(im)[i] = 9 + l
  BY ImageNumbers
<1>2. a \in Seq(Nat) /\ b \in Seq(Nat) /\ Len(b) = 1 /\ b[1] = 0
  <2>1. \A r \in 1 .. l : a[r] \in 1 .. BASE - 1
    BY <1>1, ElementOfSeq
  <2>2. \A x \in 1 .. BASE - 1 : x \in Nat
    BY DiskConstants
  <2>3. QED BY <1>1, <2>1, <2>2, SeqDef, SMTT(30)
<1>3. c \in Seq(Nat) /\ Len(c) = 4 /\ d \in Seq(Nat) /\ Len(d) = 4
  BY <1>1, PackWord
<1>4. Disk!Entry(im, i) = e
  BY DEF Disk!Entry
<1> HIDE DEF a, b, c, d
<1>5. /\ e \in Seq(Nat) /\ Len(e) = ((Len(a) + Len(b)) + Len(c)) + Len(d)
      /\ \A r \in 1 .. Len(a) : e[r] = a[r]
      /\ \A r \in 1 .. Len(b) : e[Len(a) + r] = b[r]
      /\ \A r \in 1 .. Len(c) : e[(Len(a) + Len(b)) + r] = c[r]
      /\ \A r \in 1 .. Len(d) : e[((Len(a) + Len(b)) + Len(c)) + r] = d[r]
  <2>1. a \in Seq(Nat) /\ b \in Seq(Nat) /\ c \in Seq(Nat) /\ d \in Seq(Nat)
    BY <1>2, <1>3
  <2>2. AreJoined(e, Nat, a, b, c, d)
    BY <2>1, FourPlaces
  <2>3. QED BY <2>2 DEF AreJoined
<1> HIDE DEF e
<1>6. l \in Nat
  BY <1>1
<1>7. /\ e \in Seq(Nat) /\ Len(e) = 9 + l
      /\ \A r \in 1 .. l : e[r] = a[r]
      /\ e[l + 1] = 0
      /\ \A r \in 1 .. 4 : e[l + 1 + r] = c[r]
      /\ \A r \in 1 .. 4 : e[l + 5 + r] = d[r]
  <2>1. /\ (l + 1) + 4 = l + 5 /\ ((l + 1) + 4) + 4 = 9 + l /\ 1 \in 1 .. 1
    BY <1>6
  <2>2. /\ e \in Seq(Nat) /\ Len(e) = ((l + 1) + 4) + 4
        /\ \A r \in 1 .. l : e[r] = a[r]
        /\ \A r \in 1 .. 1 : e[l + r] = b[r]
        /\ \A r \in 1 .. 4 : e[l + 1 + r] = c[r]
        /\ \A r \in 1 .. 4 : e[((l + 1) + 4) + r] = d[r]
    BY <1>2, <1>3, <1>5
  <2>3. e[l + 1] = b[1]
    BY <2>1, <2>2
  <2>4. QED BY <1>2, <2>1, <2>2, <2>3
<1>8. QED BY <1>1, <1>4, <1>7 DEF a, c, d

\* create_diskfs.py puts everything where LaidOut says.
LEMMA LayoutPlaces ==
  ASSUME NEW im, Disk!IsImage(im)
  PROVE  LaidOut(im, Disk!Layout(im))
<1> DEFINE n == Len(im)
           es == Disk!EntrySizes(im)
           bs == Disk!BodySizes(im)
           ent == [i \in DOMAIN im |-> Disk!Entry(im, i)]
           bod == [i \in DOMAIN im |-> im[i].body]
           a == [i \in 1 .. MAGIC |-> 1]
           b == Joins(ent)[n]
           c == <<0>>
           d == Joins(bod)[n]
           lay == a \o b \o c \o d
           se == Sums(es)
           sb == Sums(bs)
<1>1. /\ n \in Nat /\ DOMAIN im = 1 .. n /\ MAGIC \in Nat
      /\ es \in Seq(Nat) /\ Len(es) = n /\ bs \in Seq(Nat) /\ Len(bs) = n
      /\ \A i \in 1 .. n : im[i].body \in Seq(0 .. BASE - 1) /\ bs[i] = Len(im[i].body)
  <2>1. MAGIC \in Nat
    BY DiskConstants
  <2>2. QED BY <2>1, ImageNumbers
<1>2. \A i \in 1 .. n : Disk!Entry(im, i) \in Seq(Nat) /\ es[i] = Len(Disk!Entry(im, i))
  BY EntryPlaces
<1>3. ent \in Seq(Seq(Nat)) /\ Len(ent) = n /\ \A i \in 1 .. n : es[i] = Len(ent[i])
  BY <1>1, <1>2
<1>4. bod \in Seq(Seq(Nat)) /\ Len(bod) = n /\ \A i \in 1 .. n : bs[i] = Len(bod[i])
  <2>1. ASSUME NEW i \in 1 .. n PROVE im[i].body \in Seq(Nat)
    <3> DEFINE f == im[i].body
    <3>1. f \in Seq(0 .. BASE - 1)
      BY <1>1
    <3> HIDE DEF f
    <3>2. Len(f) \in Nat /\ \A r \in 1 .. Len(f) : f[r] \in 0 .. BASE - 1
      BY <3>1, ElementOfSeq, LenProperties
    <3>3. \A x \in 0 .. BASE - 1 : x \in Nat
      BY DiskConstants
    <3>4. f \in Seq(Nat)
      BY <3>1, <3>2, <3>3, SeqDef
    <3>5. QED BY <3>4 DEF f
  <2>2. QED BY <1>1, <2>1
<1>5. Disk!Layout(im) = lay
  BY SamePrefixes DEF Disk!Layout
<1>6. a \in Seq(Nat) /\ Len(a) = MAGIC /\ c \in Seq(Nat) /\ Len(c) = 1 /\ c[1] = 0
  BY <1>1
<1>7. /\ b \in Seq(Nat) /\ Len(b) = se[n]
      /\ \A j \in 1 .. n : \A r \in 1 .. es[j] : se[j - 1] + r \in 1 .. se[n] /\ b[se[j - 1] + r] = ent[j][r]
  <2> HIDE DEF ent, es
  <2>1. /\ \A k \in 0 .. n : Joins(ent)[k] \in Seq(Nat) /\ Len(Joins(ent)[k]) = se[k]
        /\ \A j, k \in 1 .. n : \A r \in 1 .. es[j] : j <= k =>
             se[j - 1] + r \in 1 .. se[k] /\ Joins(ent)[k][se[j - 1] + r] = ent[j][r]
    <3>1. es \in Seq(Nat) /\ Len(es) = n /\ ent \in Seq(Seq(Nat)) /\ Len(ent) = n
          /\ \A k \in 1 .. n : es[k] = Len(ent[k])
      BY <1>1, <1>3
    <3>2. PICK N, q, w, cc, ll : N = n /\ q = es /\ w = ent /\ cc = Joins(w) /\ ll = Sums(q)
      OBVIOUS
    <3>3. /\ q \in Seq(Nat) /\ Len(q) = N /\ w \in Seq(Seq(Nat)) /\ N = Len(w)
          /\ \A k \in 1 .. N : q[k] = Len(w[k])
      BY <3>1, <3>2
    <3>4. ArePlaced(Nat, w, q, N, cc, ll)
      BY <3>2, <3>3, JoinsPlaces
    <3>5. QED BY <3>2, <3>4 DEF ArePlaced
  <2>2. n \in 0 .. n /\ \A j \in 1 .. n : n \in 1 .. n /\ j <= n
    BY <1>1
  <2>3. QED BY <2>1, <2>2
<1>8. /\ d \in Seq(Nat) /\ Len(d) = sb[n]
      /\ \A j \in 1 .. n : \A r \in 1 .. bs[j] : sb[j - 1] + r \in 1 .. sb[n] /\ d[sb[j - 1] + r] = bod[j][r]
  <2> HIDE DEF bod, bs
  <2>1. /\ \A k \in 0 .. n : Joins(bod)[k] \in Seq(Nat) /\ Len(Joins(bod)[k]) = sb[k]
        /\ \A j, k \in 1 .. n : \A r \in 1 .. bs[j] : j <= k =>
             sb[j - 1] + r \in 1 .. sb[k] /\ Joins(bod)[k][sb[j - 1] + r] = bod[j][r]
    <3>1. bs \in Seq(Nat) /\ Len(bs) = n /\ bod \in Seq(Seq(Nat)) /\ Len(bod) = n
          /\ \A k \in 1 .. n : bs[k] = Len(bod[k])
      BY <1>1, <1>4
    <3>2. PICK N, q, w, cc, ll : N = n /\ q = bs /\ w = bod /\ cc = Joins(w) /\ ll = Sums(q)
      OBVIOUS
    <3>3. /\ q \in Seq(Nat) /\ Len(q) = N /\ w \in Seq(Seq(Nat)) /\ N = Len(w)
          /\ \A k \in 1 .. N : q[k] = Len(w[k])
      BY <3>1, <3>2
    <3>4. ArePlaced(Nat, w, q, N, cc, ll)
      BY <3>2, <3>3, JoinsPlaces
    <3>5. QED BY <3>2, <3>4 DEF ArePlaced
  <2>2. n \in 0 .. n /\ \A j \in 1 .. n : n \in 1 .. n /\ j <= n
    BY <1>1
  <2>3. QED BY <2>1, <2>2
<1> HIDE DEF a, b, c, d
<1>9. /\ lay \in Seq(Nat) /\ Len(lay) = ((MAGIC + se[n]) + 1) + sb[n]
      /\ \A r \in 1 .. se[n] : lay[MAGIC + r] = b[r]
      /\ \A r \in 1 .. 1 : lay[(MAGIC + se[n]) + r] = c[r]
      /\ \A r \in 1 .. sb[n] : lay[((MAGIC + se[n]) + 1) + r] = d[r]
  <2>1. /\ lay \in Seq(Nat) /\ Len(lay) = ((Len(a) + Len(b)) + Len(c)) + Len(d)
        /\ \A r \in 1 .. Len(b) : lay[Len(a) + r] = b[r]
        /\ \A r \in 1 .. Len(c) : lay[(Len(a) + Len(b)) + r] = c[r]
        /\ \A r \in 1 .. Len(d) : lay[((Len(a) + Len(b)) + Len(c)) + r] = d[r]
    <3>1. a \in Seq(Nat) /\ b \in Seq(Nat) /\ c \in Seq(Nat) /\ d \in Seq(Nat)
      BY <1>6, <1>7, <1>8
    <3>2. AreJoined(lay, Nat, a, b, c, d)
      BY <3>1, FourPlaces
    <3>3. QED BY <3>2 DEF AreJoined
  <2>2. Len(a) = MAGIC /\ Len(b) = se[n] /\ Len(c) = 1 /\ Len(d) = sb[n]
    BY <1>6, <1>7, <1>8
  <2> HIDE DEF lay
  <2>3. QED BY <2>1, <2>2
<1> HIDE DEF lay
<1>10. /\ se \in [0 .. n -> Nat] /\ sb \in [0 .. n -> Nat]
       /\ Disk!TableLen(im) = (se[n] + MAGIC) + 1
       /\ \A i : Disk!StartOf(im, i) = Disk!TableLen(im) + sb[i - 1] /\ EntryAt(im, i) = MAGIC + se[i - 1]
  BY <1>1, SumsDef, SamePrefixes DEF Disk!TableLen, Disk!StartOf, EntryAt
<1> HIDE DEF se, sb
<1>11. se[n] \in Nat /\ sb[n] \in Nat
  BY <1>1, <1>10
<1>12. ASSUME NEW i \in 1 .. n
       PROVE  /\ \A r \in 1 .. es[i] : lay[EntryAt(im, i) + r] = ent[i][r]
              /\ \A r \in 1 .. bs[i] :
                   Disk!StartOf(im, i) + r \in 1 .. Len(lay) /\ lay[Disk!StartOf(im, i) + r] = bod[i][r]
  <2> DEFINE x == se[i - 1]
             y == sb[i - 1]
             t == Disk!TableLen(im)
  <2>1. x \in Nat /\ y \in Nat
    <3>1. i - 1 \in 0 .. n
      BY <1>1
    <3>2. QED BY <1>10, <3>1
  <2>2. /\ \A r \in 1 .. es[i] : x + r \in 1 .. se[n] /\ b[x + r] = ent[i][r]
        /\ \A r \in 1 .. bs[i] : y + r \in 1 .. sb[n] /\ d[y + r] = bod[i][r]
    BY <1>7, <1>8
  <2>3. EntryAt(im, i) = MAGIC + x /\ Disk!StartOf(im, i) = t + y /\ t = (MAGIC + se[n]) + 1
    <3>1. EntryAt(im, i) = MAGIC + x /\ Disk!StartOf(im, i) = t + y /\ t = (se[n] + MAGIC) + 1
      BY <1>10
    <3>2. QED BY <1>1, <1>11, <3>1
  <2> HIDE DEF x, y, t, ent, bod, es, bs
  <2>4. ASSUME NEW r \in 1 .. es[i] PROVE lay[EntryAt(im, i) + r] = ent[i][r]
    <3>1. (MAGIC + x) + r = MAGIC + (x + r)
      BY <1>1, <2>1
    <3>2. QED BY <1>9, <2>2, <2>3, <3>1
  <2>5. ASSUME NEW r \in 1 .. bs[i]
        PROVE  Disk!StartOf(im, i) + r \in 1 .. Len(lay) /\ lay[Disk!StartOf(im, i) + r] = bod[i][r]
    <3>1. (t + y) + r = ((MAGIC + se[n]) + 1) + (y + r)
      BY <1>1, <1>11, <2>1, <2>3, SMTT(30)
    <3>2. y + r \in 1 .. sb[n] /\ d[y + r] = bod[i][r]
      BY <2>2
    <3>3. (t + y) + r \in 1 .. Len(lay)
      <4> DEFINE u == y + r
                 v == (MAGIC + se[n]) + 1
      <4>1. u \in 1 .. sb[n] /\ (t + y) + r = v + u
        BY <3>1, <3>2
      <4>2. v \in Nat
        <5>1. PICK k : k = se[n]
          OBVIOUS
        <5>2. MAGIC \in Nat /\ k \in Nat
          BY <1>1, <1>11, <5>1
        <5>3. v = (MAGIC + k) + 1
          BY <5>1
        <5> HIDE DEF v
        <5>4. QED BY <5>2, <5>3
      <4>3. Len(lay) = v + sb[n]
        BY <1>9
      <4> HIDE DEF u, v
      <4>4. v + u \in 1 .. Len(lay)
        BY <1>11, <4>1, <4>2, <4>3
      <4>5. QED BY <4>1, <4>4
    <3>4. QED BY <1>9, <2>3, <3>1, <3>2, <3>3
  <2>6. QED BY <2>4, <2>5
<1>13. Disk!TableLen(im) <= Len(lay) /\ Len(lay) \in Nat
  <2>1. Len(lay) = ((MAGIC + se[n]) + 1) + sb[n]
    BY <1>9
  <2>2. Disk!TableLen(im) = (se[n] + MAGIC) + 1
    BY <1>10
  <2>3. QED BY <1>1, <1>11, <2>1, <2>2
<1>14. lay[EntryAt(im, n + 1) + 1] = 0
  <2>1. (n + 1) - 1 = n
    BY <1>1
  <2>2. EntryAt(im, n + 1) = MAGIC + se[n]
    BY <1>10, <2>1
  <2>3. QED BY <1>6, <1>9, <2>2
<1>15. ASSUME NEW i \in 1 .. n
       PROVE  /\ \A r \in 1 .. Len(im[i].name) : lay[EntryAt(im, i) + r] = im[i].name[r]
              /\ lay[EntryAt(im, i) + Len(im[i].name) + 1] = 0
              /\ \A r \in 1 .. 4 : lay[EntryAt(im, i) + Len(im[i].name) + 1 + r] = Disk!Pack(Disk!StartOf(im, i))[r]
              /\ \A r \in 1 .. 4 : lay[EntryAt(im, i) + Len(im[i].name) + 5 + r] = Disk!Pack(Len(im[i].body))[r]
              /\ EntryAt(im, i + 1) <= EntryAt(im, n + 1)
              /\ \A r \in 1 .. Len(im[i].body) :
                   Disk!StartOf(im, i) + r \in 1 .. Len(lay) /\ lay[Disk!StartOf(im, i) + r] = im[i].body[r]
  <2> DEFINE e == Disk!Entry(im, i)
             l == Len(im[i].name)
             p == EntryAt(im, i)
             P1 == Disk!Pack(Disk!StartOf(im, i))
             P2 == Disk!Pack(Len(im[i].body))
  <2>1. /\ p \in Nat /\ l \in Nat /\ es[i] = 9 + l /\ bs[i] = Len(im[i].body) /\ ent[i] = e /\ bod[i] = im[i].body
    BY <1>1, ImageNumbers
  <2>2. /\ \A r \in 1 .. l : e[r] = im[i].name[r]
        /\ e[l + 1] = 0
        /\ \A r \in 1 .. 4 : e[l + 1 + r] = P1[r]
        /\ \A r \in 1 .. 4 : e[l + 5 + r] = P2[r]
    BY EntryPlaces
  <2> HIDE DEF e, l, p, P1, P2, ent, bod, es, bs
  <2>3. \A r \in 1 .. 9 + l : lay[p + r] = e[r]
    BY <1>12, <2>1 DEF p
  <2>4. /\ \A r \in 1 .. l : r \in 1 .. 9 + l
        /\ l + 1 \in 1 .. 9 + l /\ p + (l + 1) = p + l + 1
        /\ \A r \in 1 .. 4 : /\ l + 1 + r \in 1 .. 9 + l /\ p + (l + 1 + r) = p + l + 1 + r
                             /\ l + 5 + r \in 1 .. 9 + l /\ p + (l + 5 + r) = p + l + 5 + r
    BY <2>1
  <2>5. /\ \A r \in 1 .. l : lay[p + r] = im[i].name[r]
        /\ lay[p + l + 1] = 0
        /\ \A r \in 1 .. 4 : lay[p + l + 1 + r] = P1[r]
        /\ \A r \in 1 .. 4 : lay[p + l + 5 + r] = P2[r]
    <3>1. \A r \in 1 .. l : lay[p + r] = im[i].name[r]
      BY <2>2, <2>3, <2>4
    <3>2. lay[p + l + 1] = 0
      BY <2>2, <2>3, <2>4
    <3>3. \A r \in 1 .. 4 : lay[p + (l + 1 + r)] = P1[r] /\ lay[p + (l + 5 + r)] = P2[r]
      BY <2>2, <2>3, <2>4
    <3>4. QED BY <2>4, <3>1, <3>2, <3>3
  <2>6. \A r \in 1 .. Len(im[i].body) :
          Disk!StartOf(im, i) + r \in 1 .. Len(lay) /\ lay[Disk!StartOf(im, i) + r] = im[i].body[r]
    BY <1>12, <2>1
  <2>7. EntryAt(im, i + 1) <= EntryAt(im, n + 1)
    <3> DEFINE x == se[i - 1]
    <3>1. i - 1 \in 0 .. n /\ 9 + l \in 1 .. 9 + l /\ (n + 1) - 1 = n
      BY <1>1, <2>1, SMTT(30)
    <3>2. x + (9 + l) \in 1 .. se[n]
      BY <1>7, <2>1, <3>1
    <3>3. EntryAt(im, i + 1) = p + l + 9 /\ p = MAGIC + x /\ EntryAt(im, n + 1) = MAGIC + se[n] /\ x \in Nat
      BY <1>10, <3>1, ImageNumbers DEF p, l
    <3> HIDE DEF x
    <3>4. QED BY <1>1, <1>11, <2>1, <3>2, <3>3, SMTT(30)
  <2>8. QED BY <2>5, <2>6, <2>7 DEF l, p, P1, P2
<1>16. QED BY <1>5, <1>9, <1>13, <1>14, <1>15 DEF LaidOut

----------------------------------------------------------------------------
(* Descriptors *)

\* A descriptor is in its file, and keeps the sector of its position.
Current(fd) ==
  /\ fd \in [start : Nat, size : Nat, pos : Nat, cache : Int]
  /\ fd.pos <= fd.size
  /\ fd.cache # Disk!NoCache => fd.cache = Disk!At(fd) \div SECT

\* A new descriptor keeps nothing.
LEMMA InitialDescriptor ==
  ASSUME NEW start \in Nat, NEW size \in Nat
  PROVE  Current(Disk!diskfd_init(start, size))
BY DEF Current, Disk!diskfd_init, Disk!NoCache

\* Reading gives the byte at the position, and goes to the next; the sector that
\* is kept is the one of the new position, because the last byte of a sector
\* makes the descriptor forget it.
LEMMA Reading ==
  ASSUME NEW fd, Current(fd)
  PROVE  /\ Disk!Got(fd) = IF fd.pos = fd.size THEN Disk!EOF ELSE Disk!Byte(Disk!At(fd))
         /\ Current(Disk!Advanced(fd))
         /\ Disk!Advanced(fd).start = fd.start /\ Disk!Advanced(fd).size = fd.size
         /\ Disk!Advanced(fd).pos = IF fd.pos = fd.size THEN fd.pos ELSE fd.pos + 1
<1> DEFINE a == Disk!At(fd)
           q == a \div SECT
           r == a % SECT
<1>1. SECT \in Nat \ {0} /\ 0 \in Nat
  BY DiskConstants
<1>2. /\ fd \in [start : Nat, size : Nat, pos : Nat, cache : Int] /\ fd.pos <= fd.size
      /\ a = fd.pos + fd.start /\ a \in Nat
  BY DEF Current, Disk!At
<1> HIDE DEF a
<1>3. a = SECT * q + r /\ r \in 0 .. SECT - 1 /\ q \in Int
  <2>1. a \in Int
    BY <1>2
  <2>2. QED BY <1>1, <2>1, DivModDef
<1>4. Disk!Loaded(fd) = q
  BY DEF Current, Disk!Loaded, a
<1>5. CASE fd.pos = fd.size
  BY <1>5 DEF Disk!Got, Disk!Advanced
<1>6. CASE fd.pos # fd.size
  <2>1. Disk!Got(fd) = Disk!Byte(a)
    <3>1. Disk!Got(fd) = Disk!Sector(q)[r]
      BY <1>4, <1>6 DEF Disk!Got, a
    <3>2. Disk!Sector(q)[r] = Disk!Byte(q * SECT + r)
      BY <1>3 DEF Disk!Sector
    <3>3. q * SECT + r = a
      <4> HIDE DEF q, r
      <4> QED BY <1>1, <1>3
    <3>4. QED BY <3>1, <3>2, <3>3
  <2> DEFINE cache == IF r = SECT - 1 THEN Disk!NoCache ELSE q
             up == fd.pos + 1
             next == [fd EXCEPT !.pos = up, !.cache = cache]
  <2>2. Disk!Advanced(fd) = next
    BY <1>4, <1>6 DEF Disk!Advanced, a
  <2>3. cache \in Int
    BY <1>3 DEF Disk!NoCache
  <2>4. cache # Disk!NoCache => cache = (a + 1) \div SECT
    <3>1. r # SECT - 1 => (a + 1) \div SECT = q
      BY <1>1, <1>2, DivNext
    <3>2. QED BY <3>1
  <2>5. up \in Nat /\ up <= fd.size /\ up + fd.start = a + 1
    BY <1>2, <1>6
  <2> HIDE DEF cache, up
  <2>6. /\ next \in [start : Nat, size : Nat, pos : Nat, cache : Int] /\ next.pos = up
        /\ next.start = fd.start /\ next.size = fd.size /\ next.cache = cache /\ next.pos <= next.size
    BY <1>2, <2>3, <2>5
  <2>7. Disk!At(next) = a + 1
    BY <2>5, <2>6 DEF Disk!At
  <2> HIDE DEF next
  <2>8. Current(next)
    BY <2>4, <2>6, <2>7 DEF Current
  <2>9. QED BY <1>6, <2>1, <2>2, <2>6, <2>8 DEF a, up
<1>7. QED BY <1>5, <1>6

\* Seeking within the file makes the descriptor forget its sector.
LEMMA Seeking ==
  ASSUME NEW fd, Current(fd), NEW off \in Int, NEW whence, Disk!Target(fd, off, whence) >= 0
  PROVE  Current(Disk!Sought(fd, Disk!Target(fd, off, whence)))
<1> DEFINE to == Disk!Target(fd, off, whence)
<1>1. fd \in [start : Nat, size : Nat, pos : Nat, cache : Int] /\ fd.size \in Nat /\ fd.pos \in Nat
  BY DEF Current
<1>2. to \in Nat /\ to <= fd.size
  BY <1>1 DEF Disk!Target, Disk!SEEK_CUR, Disk!SEEK_END
<1> HIDE DEF to
<1>3. Current(Disk!Sought(fd, to))
  <2> DEFINE none == Disk!NoCache
             next == [fd EXCEPT !.pos = to, !.cache = none]
  <2>1. none \in Int /\ Disk!Sought(fd, to) = next
    BY DEF Disk!NoCache, Disk!Sought
  <2> HIDE DEF none
  <2>2. /\ next \in [start : Nat, size : Nat, pos : Nat, cache : Int] /\ next.pos <= next.size
        /\ next.cache = none
    BY <1>1, <1>2, <2>1
  <2>3. QED BY <2>1, <2>2 DEF Current, none
<1>4. QED BY <1>3 DEF to

----------------------------------------------------------------------------
(* Mounting *)

DiskFd == [start : Nat, size : Nat, pos : Nat, cache : Int]
ScanState ==
  [fd : DiskFd, phase : {"magic", "name", "pos", "size", "done"}, k : Nat, name : Seq(Nat), pos : Nat, size : Nat]

\* The table has the first i files.
TableUpTo(i) ==
  /\ DOMAIN table = {image[j].name : j \in 1 .. i}
  /\ \A j \in 1 .. i :
       table[image[j].name] = [start |-> PART + Disk!StartOf(image, j), size |-> Len(image[j].body)]

\* s is the beginning of t of length l.
Begins(s, t, l) == s \in Seq(Nat) /\ Len(s) = l /\ \A r \in 1 .. l : s[r] = t[r]

\* Where mounting is, when the table has the first i files: in the magic number,
\* in a name or after the last file, in a position, in a size, or at the end.
AtMagic(i) ==
  scan.phase = "magic" /\ i = 0 /\ scan.k \in 0 .. MAGIC - 1 /\ scan.fd.pos = scan.k
InName(i) ==
  /\ i + 1 \in 1 .. Len(image)
  /\ \E l \in 0 .. Len(image[i + 1].name) :
       Begins(scan.name, image[i + 1].name, l) /\ scan.fd.pos = EntryAt(image, i + 1) + l
AfterLast(i) == i = Len(image) /\ scan.name = <<>> /\ scan.fd.pos = EntryAt(image, i + 1)
AtName(i) ==
  /\ scan.phase = "name" /\ scan.k = 0 /\ scan.pos = 0 /\ scan.size = 0
  /\ InName(i) \/ AfterLast(i)
AtPos(i) ==
  /\ scan.phase = "pos" /\ i + 1 \in 1 .. Len(image) /\ scan.k \in 0 .. 3
  /\ scan.name = image[i + 1].name /\ scan.pos = Word(Disk!StartOf(image, i + 1), scan.k) /\ scan.size = 0
  /\ scan.fd.pos = EntryAt(image, i + 1) + Len(image[i + 1].name) + 1 + scan.k
AtSize(i) ==
  /\ scan.phase = "size" /\ i + 1 \in 1 .. Len(image) /\ scan.k \in 0 .. 3
  /\ scan.name = image[i + 1].name /\ scan.pos = Disk!StartOf(image, i + 1)
  /\ scan.size = Word(Len(image[i + 1].body), scan.k)
  /\ scan.fd.pos = EntryAt(image, i + 1) + Len(image[i + 1].name) + 5 + scan.k
AtEnd(i) == scan.phase = "done" /\ i = Len(image)

Scanned(i) == TableUpTo(i) /\ (AtMagic(i) \/ AtName(i) \/ AtPos(i) \/ AtSize(i) \/ AtEnd(i))

\* A descriptor reads a file of the image.
OfImage(im, fd) ==
  \E j \in 1 .. Len(im) : fd.start = PART + Disk!StartOf(im, j) /\ fd.size = Len(im[j].body)

DiskInv ==
  /\ image \in Images /\ disk = Disk!Layout(image) /\ diskpanic = FALSE
  /\ scan \in ScanState /\ Current(scan.fd) /\ scan.fd.start = PART /\ scan.fd.size = HUGE
  /\ \A d \in DOMAIN diskfds : Current(diskfds[d]) /\ OfImage(image, diskfds[d])
  /\ \E i \in 0 .. Len(image) : Scanned(i)

\* Mounting reads the bytes of the table, never the end of the descriptor.
LEMMA ScanReads ==
  ASSUME DiskInv, scan.fd.pos < Disk!TableLen(image)
  PROVE  LET fd == Disk!Advanced(scan.fd)
         IN  /\ Disk!Got(scan.fd) = disk[scan.fd.pos + 1] /\ Disk!Got(scan.fd) \in Nat
             /\ Current(fd) /\ fd \in DiskFd /\ fd.start = PART /\ fd.size = HUGE /\ fd.pos = scan.fd.pos + 1
<1> DEFINE p == scan.fd.pos
<1>1. /\ Disk!IsImage(image) /\ LaidOut(image, disk) /\ PART \in Nat /\ HUGE \in Nat
      /\ Disk!TableLen(image) <= HUGE
  BY LayoutPlaces, DiskConstants DEF DiskInv, Disk!IsImage
<1>2. Disk!TableLen(image) \in Nat
  BY <1>1, ImageNumbers
<1>3. disk \in Seq(Nat) /\ Len(disk) \in Nat /\ Disk!TableLen(image) <= Len(disk)
  BY <1>1 DEF LaidOut
<1>4. p \in Nat /\ scan.fd.start = PART /\ scan.fd.size = HUGE /\ Current(scan.fd)
  BY DEF DiskInv, Current
<1>5. p # HUGE /\ p + 1 \in 1 .. Len(disk) /\ (p + PART) - PART = p /\ p \in 0 .. Len(disk) - 1
  BY <1>1, <1>2, <1>3, <1>4, SMTT(30)
<1>6. Disk!Byte(Disk!At(scan.fd)) = disk[p + 1]
  BY <1>4, <1>5 DEF Disk!Byte, Disk!At
<1>7. disk[p + 1] \in Nat
  BY <1>3, <1>5
<1>8. QED BY <1>4, <1>5, <1>6, <1>7, Reading DEF Current, DiskFd

\* After the magic number and after an entry the next name begins.
LEMMA NextName ==
  ASSUME DiskInv, NEW i \in 0 .. Len(image), UNCHANGED image,
         scan'.phase = "name", scan'.k = 0, scan'.name = <<>>, scan'.pos = 0, scan'.size = 0,
         scan'.fd.pos = EntryAt(image, i + 1)
  PROVE  AtName(i)'
<1>1. Disk!IsImage(image)
  BY DiskConstants DEF DiskInv
<1>2. Len(image) \in Nat /\ EntryAt(image, i + 1) \in Nat
  <2>1. Len(image) \in Nat
    BY <1>1, ImageNumbers
  <2>2. i \in 1 .. Len(image) \/ i = 0
    BY <2>1
  <2>3. EntryAt(image, 0 + 1) \in Nat
    BY <1>1, DiskConstants, ImageNumbers
  <2>4. QED BY <1>1, <2>1, <2>2, <2>3, ImageNumbers
<1>3. CASE i = Len(image)
  BY <1>3 DEF AtName, AfterLast
<1>4. CASE i # Len(image)
  <2>1. i + 1 \in 1 .. Len(image)
    BY <1>2, <1>4
  <2>2. Len(image[i + 1].name) \in Nat
    BY <1>1, <2>1, ImageNumbers
  <2>3. 0 \in 0 .. Len(image[i + 1].name) /\ EntryAt(image, i + 1) + 0 = EntryAt(image, i + 1)
    BY <1>2, <2>2
  <2>4. Begins(<<>>, image[i + 1].name, 0)
    BY DEF Begins
  <2>5. InName(i)'
    BY <2>1, <2>3, <2>4 DEF InName
  <2>6. QED BY <2>5 DEF AtName
<1>5. QED BY <1>3, <1>4

\* The magic number is skipped.
LEMMA MagicStep ==
  ASSUME DiskInv, NEW i \in 0 .. Len(image), AtMagic(i), Disk!ScanByte
  PROVE  /\ scan' \in ScanState /\ scan'.fd = Disk!Advanced(scan.fd) /\ UNCHANGED <<table, diskpanic>>
         /\ AtMagic(i)' \/ AtName(i)'
<1> DEFINE fd == Disk!Advanced(scan.fd)
<1>1. /\ scan \in ScanState /\ scan.phase = "magic" /\ i = 0 /\ scan.k \in 0 .. MAGIC - 1 /\ scan.fd.pos = scan.k
      /\ MAGIC \in Nat \ {0} /\ UNCHANGED image /\ UNCHANGED <<table, diskpanic>>
  BY DiskConstants DEF DiskInv, AtMagic, Disk!ScanByte
<1>2. scan' = IF scan.k = MAGIC - 1 THEN Disk!Scanning(fd, "name", 0, <<>>, 0, 0) ELSE [scan EXCEPT !.fd = fd, !.k = @ + 1]
  BY <1>1 DEF Disk!ScanByte
<1>3. /\ Disk!IsImage(image) /\ EntryAt(image, 1) = MAGIC /\ Len(image) \in Nat
      /\ Disk!TableLen(image) = EntryAt(image, Len(image) + 1) + 1 /\ Disk!TableLen(image) \in Nat
      /\ EntryAt(image, Len(image) + 1) \in Nat
  BY ImageNumbers, DiskConstants DEF DiskInv
<1>4. MAGIC < Disk!TableLen(image)
  <2>1. CASE Len(image) = 0
    BY <1>1, <1>3, <2>1
  <2>2. CASE Len(image) # 0
    <3>1. 1 \in 1 .. Len(image)
      BY <1>3, <2>2
    <3>2. EntryAt(image, 1 + 1) <= EntryAt(image, Len(image) + 1)
      BY <1>3, <3>1, LayoutPlaces DEF LaidOut
    <3>3. /\ EntryAt(image, 1 + 1) = EntryAt(image, 1) + Len(image[1].name) + 9 /\ Len(image[1].name) \in Nat
          /\ EntryAt(image, 1 + 1) \in Nat
      BY <1>3, <3>1, ImageNumbers
    <3>4. QED BY <1>1, <1>3, <3>2, <3>3, SMTT(30)
  <2>3. QED BY <2>1, <2>2
<1>5. fd \in DiskFd /\ fd.pos = scan.k + 1
  <2>1. scan.fd.pos < Disk!TableLen(image)
    BY <1>1, <1>3, <1>4
  <2>2. QED BY <1>1, <2>1, ScanReads
<1> HIDE DEF fd
<1>6. CASE scan.k = MAGIC - 1
  <2>1. scan' = Disk!Scanning(fd, "name", 0, <<>>, 0, 0)
    BY <1>2, <1>6
  <2>2. /\ scan' \in ScanState /\ scan'.fd = fd /\ scan'.phase = "name" /\ scan'.k = 0 /\ scan'.name = <<>>
        /\ scan'.pos = 0 /\ scan'.size = 0
    BY <1>5, <2>1 DEF Disk!Scanning, ScanState
  <2>3. scan'.fd.pos = EntryAt(image, i + 1)
    BY <1>1, <1>3, <1>5, <1>6, <2>2
  <2>4. QED BY <1>1, <2>2, <2>3, NextName DEF fd
<1>7. CASE scan.k # MAGIC - 1
  <2> DEFINE k == scan.k + 1
  <2>1. scan' = [scan EXCEPT !.fd = fd, !.k = k]
    BY <1>2, <1>7
  <2>2. k \in Nat /\ k \in 0 .. MAGIC - 1 /\ fd.pos = k
    BY <1>1, <1>5, <1>7
  <2> HIDE DEF k
  <2>3. scan' \in ScanState /\ scan'.fd = fd /\ scan'.k = k /\ scan'.phase = "magic"
    BY <1>1, <1>5, <2>1, <2>2 DEF ScanState
  <2>4. QED BY <1>1, <2>2, <2>3 DEF AtMagic, fd
<1>8. QED BY <1>6, <1>7

\* A name is read up to its zero; the name that is empty is the end.
LEMMA NameStep ==
  ASSUME DiskInv, NEW i \in 0 .. Len(image), AtName(i), Disk!ScanByte
  PROVE  /\ scan' \in ScanState /\ scan'.fd = Disk!Advanced(scan.fd) /\ UNCHANGED <<table, diskpanic>>
         /\ AtName(i)' \/ AtPos(i)' \/ AtEnd(i)'
<1> DEFINE fd == Disk!Advanced(scan.fd)
           c == Disk!Got(scan.fd)
           n == Len(image)
           e == EntryAt(image, i + 1)
           name == image[i + 1].name
<1>1. /\ scan \in ScanState /\ scan.phase = "name" /\ scan.k = 0 /\ scan.pos = 0 /\ scan.size = 0
      /\ UNCHANGED image /\ UNCHANGED <<table, diskpanic>>
  BY DEF DiskInv, AtName, Disk!ScanByte
<1>2. \/ c # 0 /\ scan' = [scan EXCEPT !.fd = fd, !.name = Append(@, c)]
      \/ c = 0 /\ scan' = [scan EXCEPT !.fd = fd, !.phase = IF scan.name = <<>> THEN "done" ELSE "pos"]
  BY <1>1 DEF Disk!ScanByte
<1>3. /\ Disk!IsImage(image) /\ n \in Nat /\ LaidOut(image, disk)
      /\ Disk!TableLen(image) = EntryAt(image, n + 1) + 1 /\ Disk!TableLen(image) \in Nat
      /\ EntryAt(image, n + 1) \in Nat
  BY ImageNumbers, LayoutPlaces, DiskConstants DEF DiskInv
<1>4. CASE AfterLast(i)
  <2>1. i = n /\ scan.fd.pos = e /\ scan.name = <<>>
    BY <1>4 DEF AfterLast
  <2>2. scan.fd.pos < Disk!TableLen(image)
    BY <1>3, <2>1
  <2>3. c = 0 /\ fd \in DiskFd
    BY <1>3, <2>1, <2>2, ScanReads DEF LaidOut
  <2>4. scan' = [scan EXCEPT !.fd = fd, !.phase = "done"]
    BY <1>2, <2>1, <2>3
  <2> HIDE DEF fd
  <2>5. scan' \in ScanState /\ scan'.fd = fd /\ scan'.phase = "done"
    BY <1>1, <2>3, <2>4 DEF ScanState
  <2>6. QED BY <1>1, <2>1, <2>5 DEF AtEnd, fd
<1>5. CASE InName(i)
  <2>1. i + 1 \in 1 .. n
    BY <1>5 DEF InName
  <2>2. PICK l \in 0 .. Len(name) : Begins(scan.name, name, l) /\ scan.fd.pos = e + l
    BY <1>5 DEF InName
  <2>3. /\ name \in Seq(1 .. BASE - 1) /\ name # <<>> /\ Len(name) \in Nat
        /\ e \in Nat /\ EntryAt(image, (i + 1) + 1) = e + Len(name) + 9 /\ EntryAt(image, (i + 1) + 1) \in Nat
    BY <1>3, <2>1, ImageNumbers
  <2>4. /\ EntryAt(image, (i + 1) + 1) <= EntryAt(image, n + 1)
        /\ \A r \in 1 .. Len(name) : disk[e + r] = name[r]
        /\ disk[e + Len(name) + 1] = 0
    BY <1>3, <2>1 DEF LaidOut
  <2> HIDE DEF e, name
  <2>5. scan.fd.pos < Disk!TableLen(image) /\ l \in Nat
    BY <1>3, <2>2, <2>3, <2>4
  <2>6. c = disk[scan.fd.pos + 1] /\ c \in Nat /\ fd \in DiskFd /\ fd.pos = scan.fd.pos + 1
    BY <2>5, ScanReads
  <2>7. scan.name \in Seq(Nat) /\ Len(scan.name) = l /\ \A r \in 1 .. l : scan.name[r] = name[r]
    BY <2>2 DEF Begins
  <2> HIDE DEF c, fd
  <2>8. CASE l # Len(name)
    <3> DEFINE l2 == l + 1
               s2 == Append(scan.name, c)
    <3>1. l2 \in 1 .. Len(name) /\ l2 \in 0 .. Len(name) /\ (e + l) + 1 = e + l2
      BY <2>2, <2>3, <2>5, <2>8
    <3>2. c = name[l2]
      BY <2>2, <2>4, <2>6, <3>1
    <3>3. \A x \in 1 .. BASE - 1 : x # 0
      BY DiskConstants
    <3>4. c # 0
      <4>1. name[l2] \in 1 .. BASE - 1
        BY <2>3, <3>1, ElementOfSeq
      <4>2. QED BY <3>2, <3>3, <4>1
    <3>5. scan' = [scan EXCEPT !.fd = fd, !.name = s2]
      BY <1>2, <3>4
    <3>6. /\ s2 \in Seq(Nat) /\ Len(s2) = l2 /\ s2[l2] = c
          /\ \A r \in 1 .. l : s2[r] = scan.name[r]
      BY <2>5, <2>6, <2>7
    <3>7. \A r \in 1 .. l2 : s2[r] = name[r]
      <4>1. \A r \in 1 .. l2 : r \in 1 .. l \/ r = l2
        BY <2>5
      <4> HIDE DEF s2, l2
      <4>2. QED BY <2>7, <3>2, <3>6, <4>1
    <3> HIDE DEF s2, l2
    <3>8. Begins(s2, name, l2)
      BY <3>6, <3>7 DEF Begins
    <3>9. /\ scan' \in ScanState /\ scan'.fd = fd /\ scan'.name = s2 /\ scan'.phase = "name" /\ scan'.k = 0
          /\ scan'.pos = 0 /\ scan'.size = 0
      BY <1>1, <2>6, <3>5, <3>6 DEF ScanState
    <3>10. scan'.fd.pos = e + l2
      BY <2>2, <2>6, <3>1, <3>9
    <3>11. InName(i)'
      BY <1>1, <2>1, <3>1, <3>8, <3>9, <3>10 DEF InName, name, e
    <3>12. QED BY <1>1, <3>9, <3>11 DEF AtName, fd
  <2>9. CASE l = Len(name)
    <3>1. c = 0
      BY <2>2, <2>4, <2>6, <2>9
    <3>2. scan.name = name
      <4>1. name \in Seq(1 .. BASE - 1) /\ scan.name \in Seq(Nat) /\ Len(scan.name) = Len(name)
            /\ \A r \in 1 .. Len(name) : scan.name[r] = name[r]
        BY <2>3, <2>7, <2>9
      <4>2. QED BY <4>1, SeqEqual, SMTT(30)
    <3>3. scan' = [scan EXCEPT !.fd = fd, !.phase = "pos"]
      BY <1>2, <2>3, <3>1, <3>2
    <3>4. /\ scan' \in ScanState /\ scan'.fd = fd /\ scan'.name = name /\ scan'.phase = "pos" /\ scan'.k = 0
          /\ scan'.pos = 0 /\ scan'.size = 0
      BY <1>1, <2>6, <3>2, <3>3 DEF ScanState
    <3>5. scan'.fd.pos = e + Len(name) + 1 + 0
      BY <2>2, <2>3, <2>6, <2>9, <3>4
    <3>6. Word(Disk!StartOf(image, i + 1), 0) = 0 /\ 0 \in 0 .. 3
      BY DEF Word
    <3>7. AtPos(i)'
      BY <1>1, <2>1, <3>4, <3>5, <3>6 DEF AtPos, name, e
    <3>8. QED BY <1>1, <3>4, <3>7 DEF fd
  <2>10. QED BY <2>8, <2>9
<1>6. QED BY <1>4, <1>5 DEF AtName

\* The position of a file is read, four bytes.
LEMMA PosStep ==
  ASSUME DiskInv, NEW i \in 0 .. Len(image), AtPos(i), Disk!ScanByte
  PROVE  /\ scan' \in ScanState /\ scan'.fd = Disk!Advanced(scan.fd) /\ UNCHANGED <<table, diskpanic>>
         /\ AtPos(i)' \/ AtSize(i)'
<1> DEFINE fd == Disk!Advanced(scan.fd)
           c == Disk!Got(scan.fd)
           n == Len(image)
           j == i + 1
           e == EntryAt(image, j)
           l == Len(image[j].name)
           x == Disk!StartOf(image, j)
           k == scan.k
           k2 == k + 1
           y == Word(x, k2)
<1>1. /\ scan \in ScanState /\ scan.phase = "pos" /\ k \in 0 .. 3 /\ scan.name = image[j].name
      /\ scan.pos = Word(x, k) /\ scan.size = 0 /\ scan.fd.pos = e + l + 1 + k /\ j \in 1 .. n
      /\ UNCHANGED image /\ UNCHANGED <<table, diskpanic>>
  BY DEF DiskInv, AtPos, Disk!ScanByte
<1>2. scan' = [scan EXCEPT !.fd = fd, !.pos = Disk!Shifted(@, k, c), !.k = IF k = 3 THEN 0 ELSE @ + 1,
                           !.phase = IF k = 3 THEN "size" ELSE "pos"]
  BY <1>1 DEF Disk!ScanByte
<1>3. /\ Disk!IsImage(image) /\ n \in Nat /\ LaidOut(image, disk)
      /\ Disk!TableLen(image) = EntryAt(image, n + 1) + 1 /\ Disk!TableLen(image) \in Nat
      /\ EntryAt(image, n + 1) \in Nat
  BY ImageNumbers, LayoutPlaces, DiskConstants DEF DiskInv
<1>4. /\ l \in Nat /\ e \in Nat /\ EntryAt(image, j + 1) = e + l + 9 /\ EntryAt(image, j + 1) \in Nat
      /\ EntryAt(image, j + 1) <= EntryAt(image, n + 1)
      /\ x \in Nat /\ x < BASE * BASE * BASE * BASE
  <2>1. EntryAt(image, j + 1) <= EntryAt(image, n + 1)
    BY <1>1, <1>3 DEF LaidOut
  <2>2. QED BY <1>1, <1>3, <2>1, ImageNumbers
<1>5. disk[e + l + 1 + k2] = Disk!Pack(x)[k2]
  <2>1. \A r \in 1 .. 4 : disk[e + l + 1 + r] = Disk!Pack(x)[r]
    BY <1>1, <1>3 DEF LaidOut
  <2>2. k2 \in 1 .. 4
    BY <1>1
  <2>3. QED BY <2>1, <2>2
<1>6. y = Disk!Shifted(Word(x, k), k, Disk!Pack(x)[k2]) /\ Word(x, 4) = x /\ Word(Len(image[j].body), 0) = 0
  <2>1. Word(Len(image[j].body), 0) = 0 /\ Word(x, 4) = x
    BY DEF Word
  <2> HIDE DEF x
  <2>2. \A a \in 0 .. 3 : Disk!Shifted(Word(x, a), a, Disk!Pack(x)[a + 1]) = Word(x, a + 1)
    BY <1>4, PackWord
  <2>3. QED BY <1>1, <2>1, <2>2
<1>7. y \in Nat
  <2>1. /\ x \div BASE \in Nat /\ (x \div BASE) \div BASE \in Nat
        /\ ((x \div BASE) \div BASE) \div BASE \in Nat
    <3>1. BASE \in Nat \ {0}
      BY DiskConstants
    <3>2. \A a \in Nat : a \div BASE \in Nat
      BY <3>1
    <3>3. QED BY <1>4, <3>2
  <2>2. k2 \in {1, 2, 3, 4}
    BY <1>1
  <2>3. QED BY <1>4, <2>1, <2>2 DEF Word
<1> HIDE DEF fd, c, e, l, x, y, j
<1>8. c = disk[e + l + 1 + k2] /\ fd \in DiskFd /\ fd.pos = e + l + 1 + k2
  <2>1. scan.fd.pos < Disk!TableLen(image)
    BY <1>1, <1>3, <1>4, SMTT(30)
  <2>2. c = disk[scan.fd.pos + 1] /\ fd \in DiskFd /\ fd.pos = scan.fd.pos + 1
    BY <2>1, ScanReads DEF fd, c
  <2>3. (e + l + 1 + k) + 1 = e + l + 1 + k2
    BY <1>1, <1>4
  <2>4. QED BY <1>1, <2>2, <2>3
<1>9. Disk!Shifted(scan.pos, k, c) = y
  BY <1>1, <1>5, <1>6, <1>8
<1>10. CASE k = 3
  <2>1. scan' = [scan EXCEPT !.fd = fd, !.pos = y, !.k = 0, !.phase = "size"]
    BY <1>2, <1>9, <1>10
  <2>2. y = x
    BY <1>6, <1>10 DEF y
  <2>3. /\ scan' \in ScanState /\ scan'.fd = fd /\ scan'.phase = "size" /\ scan'.k = 0 /\ scan'.name = image[j].name
        /\ scan'.pos = x /\ scan'.size = 0
    BY <1>1, <1>7, <1>8, <2>1, <2>2 DEF ScanState
  <2>4. scan'.fd.pos = e + l + 5 + 0
    BY <1>4, <1>8, <1>10, <2>3
  <2>5. AtSize(i)'
    BY <1>1, <1>6, <2>3, <2>4 DEF AtSize, e, l, x, j
  <2>6. QED BY <1>1, <2>3, <2>5 DEF fd
<1>11. CASE k # 3
  <2>1. scan' = [scan EXCEPT !.fd = fd, !.pos = y, !.k = k2, !.phase = "pos"]
    BY <1>2, <1>9, <1>11
  <2>2. k2 \in 0 .. 3 /\ k2 \in Nat
    BY <1>1, <1>11
  <2> HIDE DEF k2
  <2>3. /\ scan' \in ScanState /\ scan'.fd = fd /\ scan'.phase = "pos" /\ scan'.k = k2 /\ scan'.name = image[j].name
        /\ scan'.pos = y /\ scan'.size = 0
    BY <1>1, <1>7, <1>8, <2>1, <2>2 DEF ScanState
  <2>4. AtPos(i)'
    BY <1>1, <1>8, <2>2, <2>3 DEF AtPos, e, l, x, y, j
  <2>5. QED BY <1>1, <2>3, <2>4 DEF fd
<1>12. QED BY <1>10, <1>11

\* The size of a file is read, four bytes; with the last one the file is stored,
\* under a name that the table does not have.
LEMMA SizeStep ==
  ASSUME DiskInv, NEW i \in 0 .. Len(image), TableUpTo(i), AtSize(i), Disk!ScanByte
  PROVE  /\ scan' \in ScanState /\ scan'.fd = Disk!Advanced(scan.fd) /\ UNCHANGED diskpanic
         /\ \/ UNCHANGED table /\ AtSize(i)'
            \/ i + 1 \in 0 .. Len(image) /\ TableUpTo(i + 1)' /\ AtName(i + 1)'
<1> DEFINE fd == Disk!Advanced(scan.fd)
           c == Disk!Got(scan.fd)
           n == Len(image)
           j == i + 1
           e == EntryAt(image, j)
           l == Len(image[j].name)
           x == Len(image[j].body)
           start == Disk!StartOf(image, j)
           k == scan.k
           k2 == k + 1
           y == Word(x, k2)
<1>1. /\ scan \in ScanState /\ scan.phase = "size" /\ k \in 0 .. 3 /\ scan.name = image[j].name
      /\ scan.pos = start /\ scan.size = Word(x, k) /\ scan.fd.pos = e + l + 5 + k /\ j \in 1 .. n
      /\ UNCHANGED image /\ diskpanic = FALSE
  BY DEF DiskInv, AtSize, Disk!ScanByte
<1>2. /\ scan' = IF k = 3 THEN Disk!Scanning(fd, "name", 0, <<>>, 0, 0)
                 ELSE [scan EXCEPT !.fd = fd, !.size = Disk!Shifted(@, k, c), !.k = @ + 1]
      /\ IF k = 3 THEN Disk!Store(scan.name, scan.pos, Disk!Shifted(scan.size, k, c))
         ELSE UNCHANGED <<table, diskpanic>>
  BY <1>1 DEF Disk!ScanByte
<1>3. /\ Disk!IsImage(image) /\ n \in Nat /\ LaidOut(image, disk)
      /\ Disk!TableLen(image) = EntryAt(image, n + 1) + 1 /\ Disk!TableLen(image) \in Nat
      /\ EntryAt(image, n + 1) \in Nat
  BY ImageNumbers, LayoutPlaces, DiskConstants DEF DiskInv
<1>4. /\ l \in Nat /\ e \in Nat /\ EntryAt(image, j + 1) = e + l + 9 /\ EntryAt(image, j + 1) \in Nat
      /\ EntryAt(image, j + 1) <= EntryAt(image, n + 1)
      /\ x \in Nat /\ x < BASE * BASE * BASE * BASE
  BY <1>1, <1>3, ImageNumbers DEF LaidOut
<1>5. disk[e + l + 5 + k2] = Disk!Pack(x)[k2]
  <2>1. \A r \in 1 .. 4 : disk[e + l + 5 + r] = Disk!Pack(x)[r]
    BY <1>1, <1>3 DEF LaidOut
  <2>2. k2 \in 1 .. 4
    BY <1>1
  <2>3. QED BY <2>1, <2>2
<1>6. y = Disk!Shifted(Word(x, k), k, Disk!Pack(x)[k2]) /\ Word(x, 4) = x
  BY <1>1, <1>4, PackWord DEF Word
<1>7. y \in Nat
  <2>1. /\ x \div BASE \in Nat /\ (x \div BASE) \div BASE \in Nat
        /\ ((x \div BASE) \div BASE) \div BASE \in Nat
    <3>1. BASE \in Nat \ {0}
      BY DiskConstants
    <3>2. \A a \in Nat : a \div BASE \in Nat
      BY <3>1
    <3>3. QED BY <1>4, <3>2
  <2>2. k2 \in {1, 2, 3, 4}
    BY <1>1
  <2>3. QED BY <1>4, <2>1, <2>2 DEF Word
<1>8. /\ \A a, b \in 1 .. n : image[a].name = image[b].name => a = b
      /\ image[j].name # <<>>
  BY <1>1, <1>3, ImageNumbers DEF Disk!IsImage
<1> HIDE DEF fd, c, e, l, x, y, j, start
<1>9. c = disk[e + l + 5 + k2] /\ fd \in DiskFd /\ fd.pos = e + l + 5 + k2
  <2>1. scan.fd.pos < Disk!TableLen(image)
    BY <1>1, <1>3, <1>4
  <2>2. c = disk[scan.fd.pos + 1] /\ fd \in DiskFd /\ fd.pos = scan.fd.pos + 1
    BY <2>1, ScanReads DEF fd, c
  <2>3. (e + l + 5 + k) + 1 = e + l + 5 + k2
    BY <1>1, <1>4
  <2>4. QED BY <1>1, <2>2, <2>3
<1>10. Disk!Shifted(scan.size, k, c) = y
  BY <1>1, <1>5, <1>6, <1>9
<1>11. CASE k = 3
  <2> DEFINE name == image[j].name
             rec == [start |-> PART + start, size |-> x]
  <2>1. y = x
    BY <1>6, <1>11 DEF y
  <2>2. scan' = Disk!Scanning(fd, "name", 0, <<>>, 0, 0) /\ Disk!Store(name, start, x)
    BY <1>1, <1>2, <1>10, <1>11, <2>1
  <2>3. i \in Nat /\ j = i + 1 /\ j \in 0 .. n /\ \A a \in 1 .. i : a \in 1 .. n /\ a # j
    BY <1>1, <1>3 DEF j
  <2>4. name \notin DOMAIN table
    <3>1. DOMAIN table = {image[a].name : a \in 1 .. i}
      BY DEF TableUpTo
    <3>2. \A a \in 1 .. i : image[a].name # name
      BY <1>1, <1>8, <2>3
    <3>3. QED BY <3>1, <3>2
  <2>5. table' = Disk!With(table, name, rec) /\ diskpanic' = FALSE
    <3>1. diskpanic' = (name \in DOMAIN table)
      BY <2>2, Zenon DEF Disk!Store
    <3>2. (name \in DOMAIN table) = FALSE
      <4> HIDE DEF name
      <4>1. QED BY <2>4
    <3>3. table' = IF name \in DOMAIN table THEN table ELSE Disk!With(table, name, rec)
      BY <2>2, Zenon DEF Disk!Store
    <3>4. table' = Disk!With(table, name, rec)
      BY <2>4, <3>3, Zenon
    <3>5. QED BY <3>1, <3>2, <3>4, Zenon
  <2>6. TableUpTo(j)'
    <3>1. DOMAIN table' = DOMAIN table \union {name} /\ table'[name] = rec
          /\ \A z \in DOMAIN table : table'[z] = table[z]
      BY <2>4, <2>5 DEF Disk!With
    <3>2. \A a \in 1 .. j : a \in 1 .. i \/ a = j
      BY <2>3
    <3>3. \A a \in 1 .. i : a \in 1 .. j
      BY <2>3
    <3>4. DOMAIN table = {image[a].name : a \in 1 .. i}
          /\ \A a \in 1 .. i : table[image[a].name] = [start |-> PART + Disk!StartOf(image, a), size |-> Len(image[a].body)]
      BY DEF TableUpTo
    <3>5. rec = [start |-> PART + Disk!StartOf(image, j), size |-> Len(image[j].body)]
      BY DEF start, x
    <3>6. j \in 1 .. j
      BY <2>3
    <3> HIDE DEF rec
    <3>7. DOMAIN table' = {image[a].name : a \in 1 .. j}
      BY <3>1, <3>2, <3>3, <3>4, <3>6
    <3>8. ASSUME NEW a \in 1 .. j
          PROVE  table'[image[a].name] = [start |-> PART + Disk!StartOf(image, a), size |-> Len(image[a].body)]
      <4>1. CASE a = j
        BY <3>1, <3>5, <4>1
      <4>2. CASE a \in 1 .. i
        <5>1. image[a].name \in DOMAIN table
          BY <3>4, <4>2
        <5>2. table'[image[a].name] = table[image[a].name]
          BY <3>1, <5>1
        <5>3. QED BY <3>4, <4>2, <5>2
      <4>3. QED BY <3>2, <4>1, <4>2
    <3>9. QED BY <1>1, <3>7, <3>8 DEF TableUpTo
  <2>7. /\ scan' \in ScanState /\ scan'.fd = fd /\ scan'.phase = "name" /\ scan'.k = 0 /\ scan'.name = <<>>
        /\ scan'.pos = 0 /\ scan'.size = 0
    BY <1>9, <2>2 DEF Disk!Scanning, ScanState
  <2>8. scan'.fd.pos = EntryAt(image, j + 1)
    BY <1>4, <1>9, <1>11, <2>7
  <2>9. AtName(j)'
    BY <1>1, <2>3, <2>7, <2>8, NextName
  <2>10. QED BY <1>1, <2>3, <2>5, <2>6, <2>7, <2>9 DEF fd
<1>12. CASE k # 3
  <2>1. scan' = [scan EXCEPT !.fd = fd, !.size = y, !.k = k2] /\ UNCHANGED <<table, diskpanic>>
    BY <1>2, <1>10, <1>12
  <2>2. k2 \in 0 .. 3 /\ k2 \in Nat
    BY <1>1, <1>12
  <2> HIDE DEF k2
  <2>3. /\ scan' \in ScanState /\ scan'.fd = fd /\ scan'.phase = "size" /\ scan'.k = k2 /\ scan'.name = image[j].name
        /\ scan'.pos = start /\ scan'.size = y
    BY <1>1, <1>7, <1>9, <2>1, <2>2 DEF ScanState
  <2>4. AtSize(i)'
    BY <1>1, <1>9, <2>2, <2>3 DEF AtSize, e, l, x, y, j, start
  <2>5. QED BY <2>1, <2>3, <2>4 DEF fd
<1>13. QED BY <1>11, <1>12

\* What the state of mounting depends on.
LEMMA StillScanned ==
  ASSUME NEW i, UNCHANGED <<image, table, scan>>, Scanned(i)
  PROVE  Scanned(i)'
<1>1. TableUpTo(i)'
  BY DEF Scanned, TableUpTo
<1>2. /\ AtMagic(i) => AtMagic(i)'
      /\ AtName(i) => AtName(i)'
      /\ AtPos(i) => AtPos(i)'
      /\ AtSize(i) => AtSize(i)'
      /\ AtEnd(i) => AtEnd(i)'
  BY DEF AtMagic, AtName, InName, AfterLast, AtPos, AtSize, AtEnd
<1>3. QED BY <1>1, <1>2 DEF Scanned

\* Mounting preserves the invariant.
LEMMA MountingInductive ==
  ASSUME DiskInv, Disk!ScanByte
  PROVE  DiskInv'
<1>1. PICK i \in 0 .. Len(image) : Scanned(i)
  BY DEF DiskInv
<1>2. UNCHANGED <<image, disk, diskfds>> /\ diskpanic = FALSE /\ scan.phase # "done"
  BY DEF DiskInv, Disk!ScanByte
<1>3. /\ scan' \in ScanState /\ scan'.fd = Disk!Advanced(scan.fd) /\ UNCHANGED diskpanic
      /\ \E j \in 0 .. Len(image) : TableUpTo(j)' /\ (AtMagic(j)' \/ AtName(j)' \/ AtPos(j)' \/ AtSize(j)' \/ AtEnd(j)')
  <2>1. UNCHANGED table => TableUpTo(i)'
    BY <1>1, <1>2 DEF Scanned, TableUpTo
  <2>2. CASE AtMagic(i)
    BY <2>1, <2>2, MagicStep
  <2>3. CASE AtName(i)
    BY <2>1, <2>3, NameStep
  <2>4. CASE AtPos(i)
    BY <2>1, <2>4, PosStep
  <2>5. CASE AtSize(i)
    BY <1>1, <2>1, <2>5, SizeStep DEF Scanned
  <2>6. QED BY <1>1, <1>2, <2>2, <2>3, <2>4, <2>5 DEF Scanned, AtEnd
<1>4. \E j \in 0 .. Len(image)' : Scanned(j)'
  BY <1>2, <1>3 DEF Scanned
<1>5. Current(scan'.fd) /\ scan'.fd.start = PART /\ scan'.fd.size = HUGE
  BY <1>3, Reading DEF DiskInv
<1>6. \A d \in DOMAIN diskfds' : Current(diskfds'[d]) /\ OfImage(image', diskfds'[d])
  BY <1>2 DEF DiskInv, OfImage
<1>7. QED BY <1>2, <1>3, <1>4, <1>5, <1>6 DEF DiskInv, Current, Disk!At

\* A file of the table is one of the image.
LEMMA TableEntry ==
  ASSUME DiskInv, NEW n \in DOMAIN table
  PROVE  \E j \in 1 .. Len(image) :
           /\ image[j].name = n
           /\ table[n] = [start |-> PART + Disk!StartOf(image, j), size |-> Len(image[j].body)]
           /\ PART + Disk!StartOf(image, j) \in Nat /\ Len(image[j].body) \in Nat
<1>1. PICK i \in 0 .. Len(image) : TableUpTo(i)
  BY DEF DiskInv, Scanned
<1>2. Disk!IsImage(image) /\ PART \in Nat
  BY DiskConstants DEF DiskInv
<1>3. PICK j \in 1 .. i : n = image[j].name
  BY <1>1 DEF TableUpTo
<1>4. j \in 1 .. Len(image)
  BY <1>2, ImageNumbers
<1>5. table[n] = [start |-> PART + Disk!StartOf(image, j), size |-> Len(image[j].body)]
  BY <1>1, <1>3 DEF TableUpTo
<1>6. Disk!StartOf(image, j) \in Nat /\ Len(image[j].body) \in Nat
  BY <1>2, <1>4, ImageNumbers
<1>7. QED BY <1>2, <1>3, <1>4, <1>5, <1>6

\* Each call preserves the invariant, and none panics.
LEMMA DiskInductive ==
  ASSUME DiskInv, DiskStep
  PROVE  DiskInv'
<1>1. ASSUME UNCHANGED <<image, disk, table, scan, diskpanic>>,
             \A d \in DOMAIN diskfds' : Current(diskfds'[d]) /\ OfImage(image, diskfds'[d])
      PROVE  DiskInv'
  <2>1. PICK i \in 0 .. Len(image) : Scanned(i)
    BY DEF DiskInv
  <2>2. \E j \in 0 .. Len(image)' : Scanned(j)'
    BY <1>1, <2>1, StillScanned
  <2>3. \A d \in DOMAIN diskfds' : OfImage(image', diskfds'[d])
    BY <1>1
  <2>4. scan' \in ScanState /\ Current(scan'.fd) /\ scan'.fd.start = PART /\ scan'.fd.size = HUGE
    BY <1>1 DEF DiskInv
  <2>5. QED BY <1>1, <2>2, <2>3, <2>4 DEF DiskInv, Current, Disk!At
<1>2. CASE UNCHANGED diskVars
  BY <1>1, <1>2 DEF diskVars, DiskInv
<1>3. CASE Disk!ScanByte
  BY <1>3, MountingInductive
<1>4. ASSUME NEW n \in DOMAIN table, NEW d \in Fds, Disk!diskmount_open(n, d) PROVE DiskInv'
  <2> DEFINE fd == Disk!diskfd_init(table[n].start, table[n].size)
  <2>1. PICK j \in 1 .. Len(image) :
           /\ table[n] = [start |-> PART + Disk!StartOf(image, j), size |-> Len(image[j].body)]
           /\ PART + Disk!StartOf(image, j) \in Nat /\ Len(image[j].body) \in Nat
    BY TableEntry
  <2>2. Current(fd)
    BY <2>1, InitialDescriptor
  <2>3. OfImage(image, fd)
    BY <2>1 DEF OfImage, Disk!diskfd_init
  <2>4. diskfds' = Disk!With(diskfds, d, fd) /\ UNCHANGED <<image, disk, table, scan, diskpanic>>
    BY <1>4 DEF Disk!diskmount_open
  <2> HIDE DEF fd
  <2>5. \A e \in DOMAIN diskfds' : diskfds'[e] = fd \/ (e \in DOMAIN diskfds /\ diskfds'[e] = diskfds[e])
    BY <2>4 DEF Disk!With
  <2>6. \A e \in DOMAIN diskfds' : Current(diskfds'[e]) /\ OfImage(image, diskfds'[e])
    BY <2>2, <2>3, <2>5 DEF DiskInv
  <2>7. QED BY <1>1, <2>4, <2>6
<1>5. ASSUME NEW d \in DOMAIN diskfds, Disk!diskfd_destroy(d) PROVE DiskInv'
  BY <1>1, <1>5 DEF Disk!diskfd_destroy, DiskInv
<1>6. ASSUME NEW d \in DOMAIN diskfds, NEW fd, Current(fd), fd.start = diskfds[d].start, fd.size = diskfds[d].size,
             diskfds' = [diskfds EXCEPT ![d] = fd], UNCHANGED <<image, disk, table, scan, diskpanic>>
      PROVE  DiskInv'
  <2>1. OfImage(image, fd)
    BY <1>6 DEF DiskInv, OfImage
  <2>2. \A e \in DOMAIN diskfds' : diskfds'[e] = fd \/ (e \in DOMAIN diskfds /\ diskfds'[e] = diskfds[e])
    BY <1>6
  <2>3. \A e \in DOMAIN diskfds' : Current(diskfds'[e]) /\ OfImage(image, diskfds'[e])
    BY <1>6, <2>1, <2>2 DEF DiskInv
  <2>4. QED BY <1>1, <1>6, <2>3
<1>7. ASSUME NEW d \in DOMAIN diskfds, Disk!diskfd_read(d) PROVE DiskInv'
  <2> DEFINE fd == Disk!Advanced(diskfds[d])
  <2>1. Current(diskfds[d])
    BY DEF DiskInv
  <2>2. Current(fd) /\ fd.start = diskfds[d].start /\ fd.size = diskfds[d].size
    BY <2>1, Reading
  <2>3. ~(diskfds[d].pos > diskfds[d].size)
    BY <2>1 DEF Current
  <2>4. diskpanic' = (diskfds[d].pos > diskfds[d].size)
    BY <1>7, Zenon DEF Disk!diskfd_read
  <2>5. diskpanic' = FALSE
    <3> DEFINE x == diskfds[d].pos > diskfds[d].size
    <3>1. x = FALSE
      BY <2>3
    <3> HIDE DEF x
    <3>2. diskpanic' = x
      BY <2>4, Zenon DEF x
    <3>3. QED BY <3>1, <3>2, Zenon
  <2>6. diskfds' = [diskfds EXCEPT ![d] = fd] /\ UNCHANGED <<image, disk, table, scan>>
    BY <1>7, <2>5 DEF Disk!diskfd_read
  <2> HIDE DEF fd
  <2>7. QED BY <1>6, <2>2, <2>5, <2>6 DEF DiskInv
<1>8. ASSUME NEW d \in DOMAIN diskfds, NEW off \in Offsets, NEW whence, Disk!diskfd_seek(d, off, whence) PROVE DiskInv'
  <2> DEFINE to == Disk!Target(diskfds[d], off, whence)
             fd == Disk!Sought(diskfds[d], to)
  <2>1. Current(diskfds[d]) /\ off \in Int
    BY ProgramConstants DEF DiskInv
  <2>2. to >= 0 /\ diskfds' = [diskfds EXCEPT ![d] = fd] /\ UNCHANGED <<image, disk, table, scan, diskpanic>>
    BY <1>8 DEF Disk!diskfd_seek
  <2>3. Current(fd)
    BY <2>1, <2>2, Seeking
  <2>4. fd.start = diskfds[d].start /\ fd.size = diskfds[d].size
    BY <2>1 DEF Disk!Sought, Current
  <2> HIDE DEF fd
  <2>5. QED BY <1>6, <2>2, <2>3, <2>4
<1>9. CASE diskfds' = [d \in {} |-> 0] /\ UNCHANGED <<image, disk, table, scan, diskpanic>>
  BY <1>1, <1>9
<1>10. QED BY <1>2, <1>3, <1>4, <1>5, <1>7, <1>8, <1>9 DEF DiskStep

\* At first nothing is mounted.
LEMMA InitialDisk ==
  ASSUME Init
  PROVE  DiskInv
<1>1. /\ image \in Images /\ disk = Disk!Layout(image) /\ table = [n \in {} |-> 0] /\ diskpanic = FALSE
      /\ scan = Disk!Scanning(Disk!diskfd_init(PART, HUGE), "magic", 0, <<>>, 0, 0) /\ diskfds = [d \in {} |-> 0]
  BY DEF Init, Disk!Init
<1> DEFINE fd == Disk!diskfd_init(PART, HUGE)
<1>2. Current(fd) /\ fd \in DiskFd /\ fd.start = PART /\ fd.size = HUGE /\ fd.pos = 0
  BY DiskConstants, InitialDescriptor DEF Disk!diskfd_init, DiskFd, Disk!NoCache
<1> HIDE DEF fd
<1>3. scan = Disk!Scanning(fd, "magic", 0, <<>>, 0, 0)
  BY <1>1 DEF fd
<1>4. scan \in ScanState /\ scan.fd = fd /\ scan.phase = "magic" /\ scan.k = 0
  BY <1>2, <1>3 DEF Disk!Scanning, ScanState
<1>5. Scanned(0)
  <2>1. \A j \in 1 .. 0 : FALSE
    OBVIOUS
  <2>2. 0 \in 0 .. MAGIC - 1
    BY DiskConstants
  <2>3. TableUpTo(0)
    BY <1>1, <2>1 DEF TableUpTo
  <2>4. AtMagic(0)
    BY <1>2, <1>4, <2>2 DEF AtMagic
  <2>5. QED BY <2>3, <2>4 DEF Scanned
<1>6. 0 \in 0 .. Len(image)
  <2>1. Len(image) \in Nat
    BY <1>1, DiskConstants, ImageNumbers
  <2>2. QED BY <2>1
<1>7. QED BY <1>1, <1>2, <1>4, <1>5, <1>6 DEF DiskInv

\* The invariant of the disk, whatever programs and copies do.
LEMMA DiskAlways == Spec => [](Control /\ RamInv /\ DiskInv)
<1>1. ASSUME Control, RamInv, DiskInv, [Next]_vars PROVE DiskInv'
  <2>1. CASE Next
    BY <1>1, <2>1, Steps, DiskInductive
  <2>2. CASE UNCHANGED vars
    BY <1>1, <2>2, DiskInductive DEF vars, DiskStep
  <2>3. QED BY <1>1, <2>1, <2>2
<1>2. QED BY <1>1, InitialDisk, ControlAndRam, PTL DEF Spec

\* The sector that a descriptor keeps is the one of its position, after the last
\* byte of a sector and after a seek as well, for every size of sectors and
\* wherever the partition and the files begin.
THEOREM CacheStaysCurrent == Spec => []CacheIsCurrent
<1>1. DiskInv => CacheIsCurrent
  <2> SUFFICES ASSUME DiskInv, NEW fd \in Disk!Descriptors
               PROVE  fd.pos \in 0 .. fd.size /\ (fd.cache # Disk!NoCache => fd.cache = Disk!At(fd) \div SECT)
    BY DEF CacheIsCurrent, Disk!CacheIsCurrent
  <2>1. Current(fd)
    BY DEF DiskInv, Disk!Descriptors
  <2>2. QED BY <2>1 DEF Current
<1>2. QED BY <1>1, DiskAlways, PTL

\* diskmount_init reads from the disk, byte by byte and word by word, the table
\* that create_diskfs.py wrote there: every file with where its bytes are and how
\* many, for every number of files and every length of names and files.
THEOREM TableIsRead == Spec => []TableIsImage
<1>1. DiskInv => TableIsImage
  <2> SUFFICES ASSUME DiskInv, Mounted
               PROVE  /\ DOMAIN table = Disk!FileNames
                      /\ \A i \in DOMAIN image : /\ table[image[i].name].size = Len(image[i].body)
                                                 /\ table[image[i].name].start = PART + Disk!StartOf(image, i)
    BY DEF TableIsImage, Disk!TableIsImage, DiskInv, Mounted
  <2>1. TableUpTo(Len(image))
    BY DEF DiskInv, Scanned, Mounted, AtMagic, AtName, AtPos, AtSize, AtEnd
  <2>2. DOMAIN image = 1 .. Len(image)
    BY ImageNumbers, DiskConstants DEF DiskInv
  <2>3. DOMAIN table = Disk!FileNames
    BY <2>1, <2>2 DEF TableUpTo, Disk!FileNames
  <2>4. ASSUME NEW i \in DOMAIN image
        PROVE  table[image[i].name].size = Len(image[i].body) /\ table[image[i].name].start = PART + Disk!StartOf(image, i)
    <3> DEFINE start == PART + Disk!StartOf(image, i)
               size == Len(image[i].body)
    <3>1. table[image[i].name] = [start |-> start, size |-> size]
      BY <2>1, <2>2 DEF TableUpTo
    <3> HIDE DEF start, size
    <3>2. table[image[i].name].size = size /\ table[image[i].name].start = start
      BY <3>1
    <3>3. QED BY <3>2 DEF start, size
  <2>5. QED BY <2>3, <2>4
<1>2. QED BY <1>1, DiskAlways, PTL
=============================================================================
