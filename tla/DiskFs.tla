------------------------------- MODULE DiskFs -------------------------------
(***************************************************************************)
(* The read-only file system on a disk partition (asmg/diskfs.g), as       *)
(* create_diskfs.py writes it.  A descriptor keeps the sector it is        *)
(* reading in memory.  diskmount_init reads the table of files through     *)
(* such a descriptor, one byte at a time, and fills two maps; then files   *)
(* are opened, read and sought.                                            *)
(***************************************************************************)
EXTENDS Prefixes

CONSTANTS
  Images,    \* what create_diskfs.py is given: sequences of records of a name
             \* (a sequence of bytes other than 0) and a body (bytes)
  Fds,
  Offsets,   \* what programs pass to vfs_seek
  SECT,      \* 512: bytes of a sector
  BASE,      \* 256: values of a byte
  PART,      \* where the partition starts, in bytes
  HUGE,      \* 0x7fffffff: the size of the descriptor of the table
  MAGIC      \* 8: bytes of the magic number

EOF == -1
SEEK_SET == 0
SEEK_CUR == 1
SEEK_END == 2
NoCache == -1

VARIABLES
  image,    \* the files of the partition
  disk,     \* its bytes
  table,    \* DISKMOUNT_STARTS and DISKMOUNT_SIZES
  scan,     \* the descriptor and the locals of diskmount_init
  fds,      \* open descriptors
  out,      \* what the last call returned
  panicked

vars == <<image, disk, table, scan, fds, out, panicked>>

With(g, x, y) == [z \in DOMAIN g \union {x} |-> IF z = x THEN y ELSE g[z]]

----------------------------------------------------------------------------
(* create_diskfs.py *)

EntrySizes(files) == [i \in DOMAIN files |-> 9 + Len(files[i].name)]
BodySizes(files) == [i \in DOMAIN files |-> Len(files[i].body)]

\* struct.pack('!I'): four bytes, the most significant one first.
Pack(x) ==
  LET y == x \div BASE
      z == y \div BASE
  IN  <<(z \div BASE) % BASE, z % BASE, y % BASE, x % BASE>>

TableLen(files) == Sums(EntrySizes(files))[Len(files)] + MAGIC + 1
StartOf(files, i) == TableLen(files) + Sums(BodySizes(files))[i - 1]

Entry(files, i) == files[i].name \o <<0>> \o Pack(StartOf(files, i)) \o Pack(Len(files[i].body))

Layout(files) ==
  [i \in 1 .. MAGIC |-> 1] \o Joins([i \in DOMAIN files |-> Entry(files, i)])[Len(files)] \o <<0>>
  \o Joins([i \in DOMAIN files |-> files[i].body])[Len(files)]

\* What the script can be given: the files of directories, which have different
\* names, and numbers that fit in four bytes; the table fits below HUGE.
IsImage(files) ==
  /\ files \in Seq([name : Seq(1 .. BASE - 1) \ {<<>>}, body : Seq(0 .. BASE - 1)])
  /\ \A i, j \in DOMAIN files : files[i].name = files[j].name => i = j
  /\ \A i \in DOMAIN files :
       StartOf(files, i) < BASE * BASE * BASE * BASE /\ Len(files[i].body) < BASE * BASE * BASE * BASE
  /\ TableLen(files) <= HUGE

\* atapio_read_sect: a sector of the disk; the partition is padded with zeros.
Byte(a) == IF a - PART \in 0 .. Len(disk) - 1 THEN disk[a - PART + 1] ELSE 0
Sector(n) == [i \in 0 .. SECT - 1 |-> Byte(n * SECT + i)]

----------------------------------------------------------------------------
(* Descriptors *)

diskfd_init(start, size) == [start |-> start, size |-> size, pos |-> 0, cache |-> NoCache]

At(fd) == fd.pos + fd.start

\* The sector that is in memory when the byte is taken.
Loaded(fd) == IF fd.cache = NoCache THEN At(fd) \div SECT ELSE fd.cache

Got(fd) == IF fd.pos = fd.size THEN EOF ELSE Sector(Loaded(fd))[At(fd) % SECT]

\* Mutant: the sector is kept after its last byte.
Advanced_Keep(fd) ==
  IF fd.pos = fd.size THEN fd ELSE [fd EXCEPT !.pos = @ + 1, !.cache = Loaded(fd)]

\* diskfd_read: the descriptor after the call.
Advanced(fd) ==
  IF fd.pos = fd.size THEN fd
  ELSE [fd EXCEPT !.pos = @ + 1,
                  !.cache = IF At(fd) % SECT = SECT - 1 THEN NoCache ELSE Loaded(fd)]

Target(fd, off, whence) ==
  LET to == CASE whence = SEEK_CUR -> off + fd.pos
              [] whence = SEEK_END -> off + fd.size
              [] OTHER -> off
  IN  IF to > fd.size THEN fd.size ELSE to

\* Mutant: the sector stays in memory.
Sought_Keep(fd, to) == [fd EXCEPT !.pos = to]

Sought(fd, to) == [fd EXCEPT !.pos = to, !.cache = NoCache]

----------------------------------------------------------------------------
(* diskmount_init *)

\* phase says what the next byte is: of the magic number (k have been read), of
\* a file name, of a position or of a size.
Scanning(fd, phase, k, name, pos, size) ==
  [fd |-> fd, phase |-> phase, k |-> k, name |-> name, pos |-> pos, size |-> size]

Init ==
  /\ image \in Images /\ disk = Layout(image)
  /\ table = [n \in {} |-> 0]
  /\ scan = Scanning(diskfd_init(PART, HUGE), "magic", 0, <<>>, 0, 0)
  /\ fds = [d \in {} |-> 0]
  /\ out = 0
  /\ panicked = FALSE

\* A file name is stored with a duplicate check.
Store(name, pos, size) ==
  /\ panicked' = (name \in DOMAIN table)
  /\ table' = IF name \in DOMAIN table THEN table
              ELSE With(table, name, [start |-> PART + pos, size |-> size])

\* Mutant: the least significant byte comes first.
Shifted_Little(x, k, c) == x + c * BASE ^ k

\* The word read so far, of which k bytes are known, and the next byte.
Shifted(x, k, c) == x * BASE + c

\* One turn of the loops of diskmount_init.
ScanByte ==
  LET c == Got(scan.fd)
      fd == Advanced(scan.fd)
      last == scan.k = 3
  IN
  /\ scan.phase # "done"
  /\ \/ /\ scan.phase = "magic"
        /\ scan' = IF scan.k = MAGIC - 1 THEN Scanning(fd, "name", 0, <<>>, 0, 0)
                   ELSE [scan EXCEPT !.fd = fd, !.k = @ + 1]
        /\ UNCHANGED <<table, panicked>>
     \/ /\ scan.phase = "name" /\ c # 0
        /\ scan' = [scan EXCEPT !.fd = fd, !.name = Append(@, c)]
        /\ UNCHANGED <<table, panicked>>
     \/ /\ scan.phase = "name" /\ c = 0
        /\ scan' = [scan EXCEPT !.fd = fd, !.phase = IF scan.name = <<>> THEN "done" ELSE "pos"]
        /\ UNCHANGED <<table, panicked>>
     \/ /\ scan.phase = "pos"
        /\ scan' = [scan EXCEPT !.fd = fd, !.pos = Shifted(@, scan.k, c), !.k = IF last THEN 0 ELSE @ + 1,
                                !.phase = IF last THEN "size" ELSE "pos"]
        /\ UNCHANGED <<table, panicked>>
     \/ /\ scan.phase = "size"
        /\ scan' = IF last THEN Scanning(fd, "name", 0, <<>>, 0, 0)
                   ELSE [scan EXCEPT !.fd = fd, !.size = Shifted(@, scan.k, c), !.k = @ + 1]
        /\ IF last THEN Store(scan.name, scan.pos, Shifted(scan.size, scan.k, c))
           ELSE UNCHANGED <<table, panicked>>
  /\ UNCHANGED <<image, disk, fds, out>>

----------------------------------------------------------------------------
(* The calls of the virtual file system *)

FileNames == {image[i].name : i \in DOMAIN image}

\* diskmount_open: a name that is not in the table gives 0, no descriptor.
diskmount_open(n, d) ==
  /\ fds' = With(fds, d, diskfd_init(table[n].start, table[n].size))
  /\ UNCHANGED <<image, disk, table, scan, out, panicked>>

diskfd_destroy(d) ==
  /\ fds' = [e \in DOMAIN fds \ {d} |-> fds[e]]
  /\ UNCHANGED <<image, disk, table, scan, out, panicked>>

diskfd_read(d) ==
  /\ panicked' = (fds[d].pos > fds[d].size)
  /\ IF panicked' THEN UNCHANGED <<fds, out>>
     ELSE out' = Got(fds[d]) /\ fds' = [fds EXCEPT ![d] = Advanced(@)]
  /\ UNCHANGED <<image, disk, table, scan>>

\* Programs do not seek to before the start of a file.
diskfd_seek(d, off, whence) ==
  LET to == Target(fds[d], off, whence)
  IN  /\ to >= 0
      /\ fds' = [fds EXCEPT ![d] = Sought(@, to)]
      /\ out' = to
      /\ UNCHANGED <<image, disk, table, scan, panicked>>

Calls ==
  /\ scan.phase = "done"
  /\ \/ \E n \in DOMAIN table, d \in Fds \ DOMAIN fds : diskmount_open(n, d)
     \/ \E d \in DOMAIN fds :
          \/ diskfd_destroy(d) \/ diskfd_read(d)
          \/ \E off \in Offsets, whence \in {SEEK_SET, SEEK_CUR, SEEK_END} : diskfd_seek(d, off, whence)

Next == ~panicked /\ (ScanByte \/ Calls)
Spec == Init /\ [][Next]_vars

----------------------------------------------------------------------------
(* Properties *)

Descriptors == {scan.fd} \union {fds[d] : d \in DOMAIN fds}

\* The sector that a descriptor has in memory is the one of its position, also
\* after the last byte of a sector and after a seek; and a position is one in
\* the file.
CacheIsCurrent ==
  \A fd \in Descriptors :
    /\ fd.pos \in 0 .. fd.size
    /\ fd.cache # NoCache => fd.cache = At(fd) \div SECT

\* Once it is mounted, the table lists the files of the image and where their
\* bytes are; and mounting never comes upon a name that is there already.
TableIsImage ==
  /\ ~panicked
  /\ scan.phase = "done" =>
       /\ DOMAIN table = FileNames
       /\ \A i \in DOMAIN image :
            /\ table[image[i].name].size = Len(image[i].body)
            /\ table[image[i].name].start = PART + StartOf(image, i)

\* The file of a descriptor, and the bytes of a file.
FileAt(start, size) ==
  CHOOSE n \in FileNames : table[n].start = start /\ table[n].size = size
BodyOf(n) == image[CHOOSE i \in DOMAIN image : image[i].name = n].body
=============================================================================
