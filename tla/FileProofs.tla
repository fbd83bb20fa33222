----------------------------- MODULE FileProofs -----------------------------
(***************************************************************************)
(* Proofs that programs see files and positions, whatever the file system: *)
(* where the archive of /init has what, and that Vfs implements FileSpec.  *)
(***************************************************************************)
EXTENDS VfsProofs

----------------------------------------------------------------------------
(* The archive *)

Cells == 0 .. 255 \union [name : Seq(1 .. 255), size : Nat]
MemberLen(file) == HEADER_LEN + Len(file.body) + (Len(file.body) % 2)
MemberSizes == [i \in DOMAIN Archive |-> MemberLen(Archive[i])]

\* Sums, Joins are the same in InitFs.
LEMMA SamePrefixesInit ==
  /\ \A s : InitFiles!Sums(s) = Sums(s)
  /\ \A parts : InitFiles!Joins(parts) = Joins(parts)
BY Zenon DEF InitFiles!Sums, Sums, InitFiles!Joins, Joins

\* What is in the archive.
LEMMA ArchiveFiles ==
  /\ Len(Archive) \in Nat /\ DOMAIN Archive = 1 .. Len(Archive)
  /\ \A i \in 1 .. Len(Archive) :
       /\ Archive[i].name \in Seq(1 .. 255) /\ Archive[i].body \in Seq(0 .. 255)
       /\ Len(Archive[i].body) \in Nat
  /\ \A i, j \in 1 .. Len(Archive) : Archive[i].name = Archive[j].name => i = j
  /\ MAGIC_LEN \in Nat /\ MAGIC_LEN % 2 = 0
  /\ HEADER_LEN \in Nat \ {0} /\ HEADER_LEN % 2 = 0
<1> DEFINE Rec == [name : Seq(1 .. 255), body : Seq(0 .. 255)]
<1>1. Archive \in Seq(Rec) /\ \A i, j \in DOMAIN Archive : Archive[i].name = Archive[j].name => i = j
  BY InitConstants DEF InitFiles!IsArchive
<1>2. Len(Archive) \in Nat /\ DOMAIN Archive = 1 .. Len(Archive)
  <2> HIDE DEF Rec
  <2>1. QED BY <1>1, LenProperties
<1>3. ASSUME NEW i \in 1 .. Len(Archive)
      PROVE  Archive[i].name \in Seq(1 .. 255) /\ Archive[i].body \in Seq(0 .. 255) /\ Len(Archive[i].body) \in Nat
  <2>1. Archive[i] \in Rec
    <3> HIDE DEF Rec
    <3>1. QED BY <1>1, <1>2, ElementOfSeq
  <2>2. Archive[i].name \in Seq(1 .. 255) /\ Archive[i].body \in Seq(0 .. 255)
    BY <2>1
  <2>3. QED BY <2>2, LenProperties
<1>4. QED BY <1>1, <1>2, <1>3, InitConstants

\* A member of the archive: the header, the bytes of the file, and a newline if
\* they are odd in number.
LEMMA MemberPlaces ==
  ASSUME NEW i \in 1 .. Len(Archive)
  PROVE  LET file == Archive[i]
             m == InitFiles!Member(file)
         IN  /\ m \in Seq(Cells) /\ Len(m) = MemberLen(file) /\ MemberLen(file) \in Nat
             /\ 1 <= MemberLen(file) /\ HEADER_LEN + Len(file.body) <= MemberLen(file)
             /\ m[1] = [name |-> file.name, size |-> Len(file.body)]
             /\ \A r \in 1 .. Len(file.body) : m[HEADER_LEN + r] = file.body[r]
<1> DEFINE file == Archive[i]
           l == Len(file.body)
           h == [name |-> file.name, size |-> l]
           a == <<h>>
           b == [k \in 1 .. HEADER_LEN - 1 |-> 0]
           c == file.body
           d == IF l % 2 = 1 THEN <<10>> ELSE <<>>
           m == a \o b \o c \o d
<1>1. /\ file.name \in Seq(1 .. 255) /\ c \in Seq(0 .. 255) /\ l \in Nat /\ HEADER_LEN \in Nat \ {0}
  BY ArchiveFiles
<1>2. l % 2 \in {0, 1}
  <2>1. \A x \in Nat : x % 2 \in {0, 1}
    OBVIOUS
  <2>2. QED BY <1>1, <2>1
<1>3. h \in Cells
  BY <1>1 DEF Cells
<1>4. a \in Seq(Cells) /\ Len(a) = 1 /\ a[1] = h
  <2> HIDE DEF h
  <2>1. QED BY <1>3
<1>5. b \in Seq(Cells) /\ Len(b) = HEADER_LEN - 1
  <2>1. 0 \in Cells /\ HEADER_LEN - 1 \in Nat
    BY <1>1 DEF Cells
  <2>2. QED BY <2>1
<1>6. c \in Seq(Cells)
  BY <1>1, SeqOfMore, SMTT(30) DEF Cells
<1>7. d \in Seq(Cells) /\ Len(d) = l % 2
  <2>1. 10 \in Cells
    BY DEF Cells
  <2>2. <<10>> \in Seq(Cells) /\ <<>> \in Seq(Cells) /\ Len(<<10>>) = 1 /\ Len(<<>>) = 0
    BY <2>1
  <2>3. QED BY <1>2, <2>2
<1>8. InitFiles!Member(file) = m
  BY DEF InitFiles!Member
<1>9. AreJoined(m, Cells, a, b, c, d)
  <2> HIDE DEF a, b, c, d
  <2>1. QED BY <1>4, <1>5, <1>6, <1>7, FourPlaces
<1> HIDE DEF a, b, c, d, m, h
<1>10. /\ m \in Seq(Cells) /\ Len(m) = ((1 + (HEADER_LEN - 1)) + l) + (l % 2)
       /\ \A r \in 1 .. 1 : m[r] = a[r]
       /\ \A r \in 1 .. l : m[(1 + (HEADER_LEN - 1)) + r] = c[r]
  BY <1>4, <1>5, <1>7, <1>9 DEF AreJoined, c
<1>11. 1 + (HEADER_LEN - 1) = HEADER_LEN /\ 1 \in 1 .. 1
  BY <1>1
<1>12. m[1] = h /\ \A r \in 1 .. l : m[HEADER_LEN + r] = c[r]
  BY <1>4, <1>10, <1>11
<1>13. Len(m) = HEADER_LEN + l + (l % 2)
  BY <1>10, <1>11
<1>14. /\ MemberLen(file) = HEADER_LEN + l + (l % 2) /\ MemberLen(file) \in Nat
       /\ 1 <= MemberLen(file) /\ HEADER_LEN + l <= MemberLen(file)
  <2>1. MemberLen(file) = HEADER_LEN + l + (l % 2)
    BY DEF MemberLen
  <2> HIDE DEF l, file
  <2>2. QED BY <1>1, <1>2, <2>1
<1>15. QED BY <1>8, <1>10, <1>12, <1>13, <1>14 DEF h, c

\* The walk goes from header to header, whatever the sizes: a header is where
\* the magic number and the members before it end.
LEMMA HeaderPlaces ==
  /\ MemberSizes \in Seq(Nat) /\ Len(MemberSizes) = Len(Archive)
  /\ DOMAIN InitFiles!HeaderAt = 1 .. Len(Archive)
  /\ \A k \in 1 .. Len(Archive) :
       LET h == InitFiles!HeaderAt[k]
           file == Archive[k]
       IN  /\ h = MAGIC_LEN + Sums(MemberSizes)[k - 1] /\ h \in Nat
           /\ InitFiles!Cell(h) = [name |-> file.name, size |-> Len(file.body)]
           /\ \A r \in 1 .. Len(file.body) : InitFiles!Cell(h + HEADER_LEN + r - 1) = file.body[r]
<1> DEFINE n == Len(Archive)
           ms == MemberSizes
           parts == [i \in DOMAIN Archive |-> InitFiles!Member(Archive[i])]
           l == Sums(ms)
           a == [i \in 1 .. MAGIC_LEN |-> 0]
           b == Joins(parts)[n]
           place(k) == MAGIC_LEN + l[k - 1]
<1>1. /\ n \in Nat /\ DOMAIN Archive = 1 .. n
      /\ MAGIC_LEN \in Nat /\ MAGIC_LEN % 2 = 0 /\ HEADER_LEN \in Nat \ {0} /\ HEADER_LEN % 2 = 0
  BY ArchiveFiles
<1>2. ms \in Seq(Nat) /\ Len(ms) = n /\ \A i \in 1 .. n : ms[i] = MemberLen(Archive[i]) /\ ms[i] \in Nat
  <2>1. \A i \in 1 .. n : MemberLen(Archive[i]) \in Nat
    BY MemberPlaces
  <2>2. QED BY <1>1, <2>1 DEF MemberSizes
<1>3. parts \in Seq(Seq(Cells)) /\ Len(parts) = n /\ \A i \in 1 .. n : ms[i] = Len(parts[i])
  <2>1. \A i \in 1 .. n : /\ InitFiles!Member(Archive[i]) \in Seq(Cells)
                          /\ MemberLen(Archive[i]) = Len(InitFiles!Member(Archive[i]))
    BY MemberPlaces
  <2>2. QED BY <1>1, <1>2, <2>1
<1>4. /\ l \in [0 .. n -> Nat] /\ l[0] = 0 /\ \A k \in 1 .. n : l[k] = l[k - 1] + ms[k]
  BY <1>2, SumsDef
<1>5. /\ b \in Seq(Cells)
      /\ \A j \in 1 .. n : \A r \in 1 .. ms[j] : b[l[j - 1] + r] = parts[j][r] /\ l[j - 1] + r \in 1 .. Len(b)
  <2> HIDE DEF parts, ms
  <2>1. /\ \A k \in 0 .. n : Joins(parts)[k] \in Seq(Cells) /\ Len(Joins(parts)[k]) = l[k]
        /\ \A j, k \in 1 .. n : \A r \in 1 .. ms[j] : j <= k =>
             l[j - 1] + r \in 1 .. l[k] /\ Joins(parts)[k][l[j - 1] + r] = parts[j][r]
    <3>1. ms \in Seq(Nat) /\ Len(ms) = n /\ parts \in Seq(Seq(Cells)) /\ Len(parts) = n
          /\ \A k \in 1 .. n : ms[k] = Len(parts[k])
      BY <1>2, <1>3
    <3>2. PICK N, q, w, cc, ll : N = n /\ q = ms /\ w = parts /\ cc = Joins(w) /\ ll = Sums(q)
      OBVIOUS
    <3>3. /\ q \in Seq(Nat) /\ Len(q) = N /\ w \in Seq(Seq(Cells)) /\ N = Len(w)
          /\ \A k \in 1 .. N : q[k] = Len(w[k])
      BY <3>1, <3>2
    <3>4. ArePlaced(Cells, w, q, N, cc, ll)
      BY <3>2, <3>3, JoinsPlaces
    <3>5. QED BY <3>2, <3>4 DEF ArePlaced
  <2>2. n \in 0 .. n /\ \A j \in 1 .. n : n \in 1 .. n /\ j <= n
    BY <1>1
  <2>3. QED BY <2>1, <2>2
<1>6. /\ InitFiles!initrd = a \o b
  BY SamePrefixesInit DEF InitFiles!initrd
<1>7. a \in Seq(Cells) /\ Len(a) = MAGIC_LEN
  BY <1>1 DEF Cells
<1>8. ASSUME NEW j \in 1 .. n, NEW r \in 1 .. ms[j]
      PROVE  InitFiles!Cell(place(j) + (r - 1)) = parts[j][r]
  <2> HIDE DEF a, b, parts, ms
  <2>1. Len(a) \in Nat /\ \A i \in 1 .. Len(b) : (a \o b)[Len(a) + i] = b[i]
    BY <1>5, <1>7, ConcatPlaces
  <2> DEFINE x == l[j - 1]
  <2>2. x + r \in 1 .. Len(b) /\ b[x + r] = parts[j][r]
    BY <1>5
  <2>3. x \in Nat /\ r \in Int
    <3>1. j - 1 \in 0 .. n
      BY <1>1
    <3>2. ms[j] \in Nat
      BY <1>1, <1>2
    <3>3. QED BY <1>4, <3>1, <3>2
  <2>4. (MAGIC_LEN + x + (r - 1)) + 1 = MAGIC_LEN + (x + r)
    BY <1>1, <2>3
  <2>5. (a \o b)[MAGIC_LEN + (x + r)] = parts[j][r]
    BY <1>7, <2>1, <2>2
  <2>6. QED BY <1>6, <2>4, <2>5 DEF InitFiles!Cell
<1> HIDE DEF a, b, parts, ms
<1>9. ASSUME NEW k \in 1 .. n
      PROVE  /\ place(k) \in Nat
             /\ InitFiles!Cell(place(k)) = [name |-> Archive[k].name, size |-> Len(Archive[k].body)]
             /\ \A r \in 1 .. Len(Archive[k].body) :
                  InitFiles!Cell(place(k) + HEADER_LEN + r - 1) = Archive[k].body[r]
  <2> DEFINE s == Len(Archive[k].body)
             m == InitFiles!Member(Archive[k])
             p == place(k)
  <2>1. /\ s \in Nat /\ 1 <= ms[k] /\ HEADER_LEN + s <= ms[k] /\ ms[k] \in Nat
        /\ m[1] = [name |-> Archive[k].name, size |-> s]
        /\ \A r \in 1 .. s : m[HEADER_LEN + r] = Archive[k].body[r]
    BY <1>1, <1>2, MemberPlaces, ArchiveFiles
  <2>2. p \in Nat
    <3>1. k - 1 \in 0 .. n
      BY <1>1
    <3>2. l[k - 1] \in Nat
      BY <1>4, <3>1
    <3> HIDE DEF l
    <3>3. QED BY <1>1, <3>2
  <2>3. parts[k] = m
    BY <1>1 DEF parts
  <2>4. \A r \in 1 .. ms[k] : InitFiles!Cell(p + (r - 1)) = m[r]
    BY <1>8, <2>3
  <2> HIDE DEF p, m, s
  <2>5. InitFiles!Cell(p) = m[1]
    <3>1. 1 \in 1 .. ms[k] /\ p + (1 - 1) = p
      BY <2>1, <2>2
    <3>2. QED BY <2>4, <3>1
  <2>6. \A r \in 1 .. s : InitFiles!Cell(p + HEADER_LEN + r - 1) = m[HEADER_LEN + r]
    <3>1. \A r \in 1 .. s : /\ HEADER_LEN + r \in 1 .. ms[k]
                            /\ p + ((HEADER_LEN + r) - 1) = p + HEADER_LEN + r - 1
      BY <1>1, <2>1, <2>2
    <3>2. QED BY <2>4, <3>1
  <2>7. QED BY <2>1, <2>2, <2>5, <2>6 DEF p, s

<1>10. ASSUME NEW x \in Nat, x % 2 = 0, NEW s \in Nat
       PROVE  InitFiles!NextHeader(x, s) = x + (HEADER_LEN + s + (s % 2)) /\ (HEADER_LEN + s + (s % 2)) % 2 = 0
  BY <1>1, <1>10 DEF InitFiles!NextHeader
<1> HIDE DEF l
<1>11. \A k \in 1 .. n : l[k - 1] % 2 = 0
  <2> DEFINE T == {k \in Nat : k <= n => l[k] % 2 = 0}
  <2>1. 0 \in T
    BY <1>4
  <2>2. ASSUME NEW k \in Nat, k \in T PROVE k + 1 \in T
    <3>1. SUFFICES ASSUME k + 1 <= n PROVE l[k + 1] % 2 = 0
      OBVIOUS
    <3> DEFINE s == Len(Archive[k + 1].body)
               y == HEADER_LEN + s + (s % 2)
    <3>2. k + 1 \in 1 .. n /\ (k + 1) - 1 = k /\ k \in 0 .. n /\ l[k] % 2 = 0
      BY <1>1, <2>2, <3>1
    <3>3. s \in Nat /\ ms[k + 1] = y
      BY <1>1, <1>2, <3>2, ArchiveFiles DEF MemberLen
    <3>4. y % 2 = 0
      <4>1. 0 \in Nat /\ 0 % 2 = 0
        OBVIOUS
      <4>2. QED BY <1>10, <3>3, <4>1
    <3>5. y \in Nat
      <4>1. ms[k + 1] \in Nat
        BY <1>2, <3>2
      <4>2. QED BY <3>3, <4>1
    <3>6. l[k + 1] = l[k] + y /\ l[k] \in Nat
      BY <1>4, <3>2, <3>3
    <3> HIDE DEF y
    <3>7. QED BY <3>2, <3>4, <3>5, <3>6
  <2>3. \A k \in Nat : k \in T
    <3> HIDE DEF T
    <3> QED BY <2>1, <2>2, SetInduction
  <2>4. \A k \in 1 .. n : k - 1 \in T /\ k - 1 <= n
    BY <1>1, <2>3
  <2>5. QED BY <2>4
<1>12. ASSUME NEW k \in 1 .. n, k # 1
       PROVE  place(k) = InitFiles!NextHeader(place(k - 1), InitFiles!Cell(place(k - 1)).size)
  <2> DEFINE j == k - 1
             s == Len(Archive[j].body)
             x == place(j)
  <2>1. j \in 1 .. n /\ j \in 0 .. n /\ j - 1 \in 0 .. n
    BY <1>1, <1>12
  <2>2. x \in Nat /\ InitFiles!Cell(x).size = s /\ s \in Nat
    <3>1. InitFiles!Cell(x) = [name |-> Archive[j].name, size |-> s]
      BY <1>9, <2>1
    <3>2. [name |-> Archive[j].name, size |-> s].size = s
      OBVIOUS
    <3>3. QED BY <1>1, <1>9, <2>1, <3>1, <3>2, ArchiveFiles
  <2>3. x % 2 = 0
    <3> DEFINE y == l[j - 1]
    <3>1. y % 2 = 0 /\ y \in Nat /\ x = MAGIC_LEN + y
      BY <1>4, <1>11, <2>1
    <3> HIDE DEF y, x
    <3>2. QED BY <1>1, <3>1
  <2>4. l[k - 1] = l[j - 1] + (HEADER_LEN + s + (s % 2))
    BY <1>2, <1>4, <2>1 DEF MemberLen
  <2>5. InitFiles!NextHeader(x, s) = x + (HEADER_LEN + s + (s % 2))
    <3> HIDE DEF x, s
    <3>1. QED BY <1>10, <2>2, <2>3
  <2>6. place(k) = x + (HEADER_LEN + s + (s % 2))
    <3> DEFINE y == l[j - 1]
               t == HEADER_LEN + s + (s % 2)
    <3>1. y \in Nat /\ l[k - 1] = y + t /\ x = MAGIC_LEN + y
      BY <1>4, <2>1, <2>4
    <3>2. t \in Nat
      <4>1. ms[j] = MemberLen(Archive[j]) /\ ms[j] \in Nat
        BY <1>2, <2>1
      <4>2. QED BY <4>1 DEF MemberLen
    <3> HIDE DEF y, t, x
    <3>3. MAGIC_LEN + (y + t) = (MAGIC_LEN + y) + t
      BY <1>1, <3>1, <3>2
    <3>4. QED BY <3>1, <3>3 DEF t
  <2>7. QED BY <2>2, <2>5, <2>6
<1> DEFINE F(f) == [k \in 1 .. n |-> IF k = 1 THEN MAGIC_LEN ELSE InitFiles!NextHeader(f[k - 1], InitFiles!Cell(f[k - 1]).size)]
           g == [k \in 1 .. n |-> place(k)]
           H == InitFiles!HeaderAt
<1>13. place(1) = MAGIC_LEN
  BY <1>1, <1>4
<1>14. g = F(g)
  <2>1. \A k \in 1 .. n : k # 1 => k - 1 \in 1 .. n
    BY <1>1
  <2> HIDE DEF l
  <2>2. \A k \in 1 .. n : g[k] = F(g)[k]
    BY <1>12, <1>13, <2>1
  <2>3. QED BY <2>2
<1> HIDE DEF g, place
<1>15. H = F(H)
  <2>1. H = CHOOSE f : f = F(f)
    BY Zenon DEF InitFiles!HeaderAt
  <2>2. \E f : f = F(f)
    BY <1>14
  <2> HIDE DEF F, H
  <2>3. QED BY <2>1, <2>2, Zenon
<1>16. \A k \in 1 .. n : H[k] = place(k)
  <2> DEFINE T == {k \in Nat : k + 1 <= n => H[k + 1] = place(k + 1)}
  <2> HIDE DEF H
  <2>1. 0 \in T
    BY <1>1, <1>13, <1>15
  <2>2. ASSUME NEW k \in Nat, k \in T PROVE k + 1 \in T
    <3>1. SUFFICES ASSUME (k + 1) + 1 <= n PROVE H[(k + 1) + 1] = place((k + 1) + 1)
      OBVIOUS
    <3> DEFINE j == (k + 1) + 1
    <3>2. j \in 1 .. n /\ j # 1 /\ j - 1 = k + 1 /\ k + 1 <= n
      BY <1>1, <3>1
    <3>3. H[k + 1] = place(k + 1)
      BY <2>2, <3>2
    <3>4. H[j] = InitFiles!NextHeader(H[j - 1], InitFiles!Cell(H[j - 1]).size)
      BY <1>15, <3>2
    <3>5. place(j) = InitFiles!NextHeader(place(j - 1), InitFiles!Cell(place(j - 1)).size)
      BY <1>12, <3>2
    <3>6. QED BY <3>2, <3>3, <3>4, <3>5
  <2>3. \A k \in Nat : k \in T
    <3> HIDE DEF T
    <3> QED BY <2>1, <2>2, SetInduction
  <2>4. ASSUME NEW k \in 1 .. n PROVE H[k] = place(k)
    <3>1. k - 1 \in Nat /\ (k - 1) + 1 = k /\ k <= n
      BY <1>1
    <3>2. k - 1 \in T
      BY <2>3, <3>1
    <3>3. QED BY <3>1, <3>2
  <2>5. QED BY <2>4
<1>17. DOMAIN H = 1 .. n
  BY <1>15
<1>18. \A k \in 1 .. n : place(k) = MAGIC_LEN + Sums(MemberSizes)[k - 1]
  BY DEF place, l, ms
<1>19. QED BY <1>2, <1>9, <1>16, <1>17, <1>18 DEF ms

\* The walk finds the bytes of the file that it seeks.
LEMMA WalkFinds ==
  ASSUME NEW name \in InitFiles!FileNames
  PROVE  LET f == InitFiles!walk_initrd(name)
             b == InitFiles!Body(name)
         IN  /\ f.begin \in Nat /\ f.end = f.begin + Len(b) /\ Len(b) \in Nat /\ b \in Seq(0 .. 255)
             /\ \A r \in 1 .. Len(b) : InitFiles!Cell(f.begin + r - 1) = b[r]
<1> DEFINE n == Len(Archive)
           H == InitFiles!HeaderAt
           Is(k) == /\ InitFiles!Cell(H[k]).name = name
                    /\ \A j \in 1 .. k - 1 : InitFiles!Cell(H[j]).name # name
           f == InitFiles!walk_initrd(name)
           b == InitFiles!Body(name)
<1>1. /\ n \in Nat /\ DOMAIN Archive = 1 .. n /\ HEADER_LEN \in Nat
      /\ \A i \in 1 .. n : Archive[i].body \in Seq(0 .. 255) /\ Len(Archive[i].body) \in Nat
      /\ \A i, j \in 1 .. n : Archive[i].name = Archive[j].name => i = j
  BY ArchiveFiles
<1>2. PICK k \in 1 .. n : Archive[k].name = name
  BY <1>1 DEF InitFiles!FileNames
<1>3. b = Archive[k].body
  <2>1. (CHOOSE i \in DOMAIN Archive : Archive[i].name = name) = k
    BY <1>1, <1>2
  <2>2. QED BY <2>1, Zenon DEF InitFiles!Body
<1>4. DOMAIN H = 1 .. n /\ \A i \in 1 .. n : InitFiles!Cell(H[i]).name = Archive[i].name /\ H[i] \in Nat
  <2>1. \A i \in 1 .. n : /\ InitFiles!Cell(H[i]) = [name |-> Archive[i].name, size |-> Len(Archive[i].body)]
                          /\ H[i] \in Nat
    BY HeaderPlaces
  <2>2. \A x, y : [name |-> x, size |-> y].name = x
    OBVIOUS
  <2>3. QED BY <2>1, <2>2, HeaderPlaces
<1>5. /\ InitFiles!Cell(H[k]).size = Len(b)
      /\ \A r \in 1 .. Len(b) : InitFiles!Cell(H[k] + HEADER_LEN + r - 1) = b[r]
  <2>1. InitFiles!Cell(H[k]) = [name |-> Archive[k].name, size |-> Len(Archive[k].body)]
    BY <1>2, HeaderPlaces
  <2>2. \A r \in 1 .. Len(Archive[k].body) : InitFiles!Cell(H[k] + HEADER_LEN + r - 1) = Archive[k].body[r]
    BY <1>2, HeaderPlaces
  <2>3. \A x, y : [name |-> x, size |-> y].size = y
    OBVIOUS
  <2>4. QED BY <1>3, <2>1, <2>2, <2>3
<1> HIDE DEF b, H
<1>6. k \in DOMAIN H /\ Is(k)
  <2>1. \A j \in 1 .. k - 1 : j \in 1 .. n /\ j # k
    BY <1>1, <1>2
  <2>2. QED BY <1>1, <1>2, <1>4, <2>1
<1>7. \A j \in DOMAIN H : Is(j) => j = k
  <2> SUFFICES ASSUME NEW j \in DOMAIN H, Is(j) PROVE j = k
    OBVIOUS
  <2>1. Archive[j].name = name
    BY <1>4
  <2>2. QED BY <1>1, <1>2, <1>4, <2>1
<1>8. (CHOOSE j \in DOMAIN H : Is(j)) = k
  <2> HIDE DEF Is
  <2>1. QED BY <1>6, <1>7
<1>9. f = [begin |-> H[k] + HEADER_LEN, end |-> (H[k] + HEADER_LEN) + InitFiles!Cell(H[k]).size]
  BY <1>8, Zenon DEF InitFiles!walk_initrd, H
<1> DEFINE x == H[k] + HEADER_LEN
<1>10. x \in Nat /\ x + Len(b) = (H[k] + HEADER_LEN) + InitFiles!Cell(H[k]).size
  BY <1>1, <1>4, <1>5
<1>11. \A r \in 1 .. Len(b) : InitFiles!Cell(x + r - 1) = b[r]
  BY <1>5
<1> HIDE DEF f, x
<1>12. f.begin = x /\ f.end = x + Len(b)
  BY <1>9, <1>10 DEF x
<1>13. Len(b) \in Nat /\ b \in Seq(0 .. 255)
  BY <1>1, <1>2, <1>3
<1>14. QED BY <1>10, <1>11, <1>12, <1>13 DEF f, b

----------------------------------------------------------------------------
(* The kernel's table of open files *)

\* A file of the table, and what is in it.
OpenedFile == [name : InitFiles!FileNames, begin : Nat, pos : Nat, end : Nat]
Kept(f) ==
  /\ f.begin = InitFiles!walk_initrd(f.name).begin /\ f.end = InitFiles!walk_initrd(f.name).end
  /\ f.begin <= f.pos /\ f.pos <= f.end

\* Each place of the table has a file of the archive, and no two descriptors
\* share one.
InitInv ==
  /\ open_files \in Seq(OpenedFile)
  /\ \A i \in 1 .. Len(open_files) : Kept(open_files[i])
  /\ \A d \in DOMAIN initfds : initfds[d] \in 1 .. Len(open_files)
  /\ \A d, e \in DOMAIN initfds : initfds[d] = initfds[e] => d = e

\* The places of the table.
LEMMA OpenedFiles ==
  ASSUME InitInv
  PROVE  /\ Len(open_files) \in Nat /\ DOMAIN open_files = 1 .. Len(open_files)
         /\ \A i \in 1 .. Len(open_files) : open_files[i] \in OpenedFile
BY LenProperties, ElementOfSeq DEF InitInv

\* A file of the table at another position of it.
LEMMA InitMoved ==
  ASSUME InitInv, NEW i \in 1 .. Len(open_files), NEW p \in Nat,
         open_files[i].begin <= p, p <= open_files[i].end,
         open_files' = [open_files EXCEPT ![i].pos = p], UNCHANGED initfds
  PROVE  InitInv'
<1> DEFINE f == open_files[i]
           g == [f EXCEPT !.pos = p]
           s == [open_files EXCEPT ![i] = g]
<1>1. /\ f \in OpenedFile /\ Kept(f) /\ open_files \in Seq(OpenedFile) /\ Len(open_files) \in Nat
      /\ DOMAIN open_files = 1 .. Len(open_files) /\ \A j \in 1 .. Len(open_files) : Kept(open_files[j])
  BY OpenedFiles DEF InitInv
<1>2. Kept(g) /\ g \in OpenedFile
  <2> HIDE DEF f
  <2>1. f \in OpenedFile
    BY <1>1
  <2>2. g \in OpenedFile /\ g.name = f.name /\ g.begin = f.begin /\ g.end = f.end /\ g.pos = p
    BY <2>1 DEF OpenedFile
  <2> HIDE DEF g
  <2>3. f.begin <= p /\ p <= f.end
    BY DEF f
  <2>4. QED BY <1>1, <2>2, <2>3 DEF Kept
<1>3. open_files' = s
  BY <1>1
<1> HIDE DEF g
<1>4. s \in Seq(OpenedFile) /\ Len(s) = Len(open_files)
      /\ \A j \in 1 .. Len(open_files) : s[j] = IF j = i THEN g ELSE open_files[j]
  BY <1>1, <1>2, ExceptSeq
<1> HIDE DEF s
<1>5. \A j \in 1 .. Len(s) : Kept(s[j])
  BY <1>1, <1>2, <1>4
<1>6. /\ \A d \in DOMAIN initfds' : initfds'[d] \in 1 .. Len(s)
      /\ \A d, e \in DOMAIN initfds' : initfds'[d] = initfds'[e] => d = e
  BY <1>4 DEF InitInv
<1>7. QED BY <1>3, <1>4, <1>5, <1>6 DEF InitInv

\* Each call of /init preserves the invariant.
LEMMA InitInductive ==
  ASSUME InitInv, InitStep
  PROVE  InitInv'
<1>1. CASE UNCHANGED initVars
  BY <1>1 DEF initVars, InitInv
<1>2. ASSUME NEW name \in InitFiles!FileNames, NEW d, InitFiles!initfd_init(name, d) PROVE InitInv'
  <2> DEFINE w == InitFiles!walk_initrd(name)
             f == [name |-> name, begin |-> w.begin, pos |-> w.begin, end |-> w.end]
             s == Append(open_files, f)
             n == Len(open_files)
  <2>1. open_files' = s /\ initfds' = InitFiles!With(initfds, d, n + 1)
    BY <1>2 DEF InitFiles!initfd_init
  <2>2. w.begin \in Nat /\ w.end \in Nat /\ w.begin <= w.end
    <3>1. w.begin \in Nat /\ w.end = w.begin + Len(InitFiles!Body(name)) /\ Len(InitFiles!Body(name)) \in Nat
      BY WalkFinds
    <3>2. QED BY <3>1
  <2>3. f \in OpenedFile /\ Kept(f)
    <3> DEFINE b == w.begin
               e == w.end
    <3>1. f.name = name /\ f.begin = b /\ f.pos = b /\ f.end = e /\ w = InitFiles!walk_initrd(name)
      OBVIOUS
    <3>2. f \in OpenedFile
      <4> HIDE DEF b, e
      <4>1. QED BY <2>2 DEF OpenedFile, b, e
    <3> HIDE DEF f, w
    <3>3. InitFiles!walk_initrd(f.name) = w
      BY <3>1
    <3>4. QED BY <2>2, <3>1, <3>2, <3>3 DEF Kept, b, e
  <2>4. /\ open_files \in Seq(OpenedFile) /\ n \in Nat /\ \A j \in 1 .. n : Kept(open_files[j])
    BY OpenedFiles DEF InitInv
  <2> HIDE DEF f
  <2>5. s \in Seq(OpenedFile) /\ Len(s) = n + 1 /\ s[n + 1] = f /\ \A j \in 1 .. n : s[j] = open_files[j]
    BY <2>3, <2>4, AppendProperties
  <2>6. \A j \in 1 .. n + 1 : j \in 1 .. n \/ j = n + 1
    BY <2>4
  <2> HIDE DEF s
  <2>7. \A j \in 1 .. Len(s) : Kept(s[j])
    BY <2>3, <2>4, <2>5, <2>6
  <2>8. /\ \A e \in DOMAIN initfds' : initfds'[e] \in 1 .. n + 1
        /\ \A a, e \in DOMAIN initfds' : initfds'[a] = initfds'[e] => a = e
    <3>1. \A e \in DOMAIN initfds : initfds[e] \in 1 .. n
      BY DEF InitInv
    <3>2. \A x \in 1 .. n : x \in 1 .. n + 1 /\ x # n + 1
      BY <2>4
    <3>3. n + 1 \in 1 .. n + 1
      BY <2>4
    <3>4. \A a, e \in DOMAIN initfds : initfds[a] = initfds[e] => a = e
      BY DEF InitInv
    <3>5. \A e \in DOMAIN initfds' : \/ e = d /\ initfds'[e] = n + 1
                                     \/ e # d /\ e \in DOMAIN initfds /\ initfds'[e] = initfds[e]
      BY <2>1 DEF InitFiles!With
    <3> HIDE DEF n
    <3>6. QED BY <3>1, <3>2, <3>3, <3>4, <3>5
  <2>9. QED BY <2>1, <2>5, <2>7, <2>8 DEF InitInv
<1>3. ASSUME NEW d \in DOMAIN initfds, InitFiles!initfd_destroy(d) PROVE InitInv'
  <2>1. open_files' = open_files /\ initfds' = [e \in DOMAIN initfds \ {d} |-> initfds[e]]
    BY <1>3 DEF InitFiles!initfd_destroy
  <2>2. QED BY <2>1 DEF InitInv
<1>4. ASSUME NEW d \in DOMAIN initfds, InitFiles!platform_read_char(d) PROVE InitInv'
  <2> DEFINE i == initfds[d]
             f == open_files[i]
             p == IF f.pos = f.end THEN f.pos ELSE f.pos + 1
  <2>1. /\ i \in 1 .. Len(open_files) /\ f \in OpenedFile /\ Kept(f)
        /\ DOMAIN open_files = 1 .. Len(open_files)
    BY OpenedFiles DEF InitInv
  <2>2. f.begin \in Nat /\ f.pos \in Nat /\ f.end \in Nat /\ f.begin <= f.pos /\ f.pos <= f.end
    BY <2>1 DEF Kept, OpenedFile
  <2>3. open_files' = [open_files EXCEPT ![i].pos = p] /\ UNCHANGED initfds
    BY <1>4, <2>1 DEF InitFiles!platform_read_char, InitFiles!File
  <2>4. p \in Nat /\ f.begin <= p /\ p <= f.end
    BY <2>2
  <2> HIDE DEF p, i
  <2>5. QED BY <2>1, <2>3, <2>4, InitMoved
<1>5. ASSUME NEW d \in DOMAIN initfds, InitFiles!initfd_seek(d) PROVE InitInv'
  <2> DEFINE i == initfds[d]
             f == open_files[i]
             p == f.begin
  <2>1. i \in 1 .. Len(open_files) /\ f \in OpenedFile /\ Kept(f)
    BY OpenedFiles DEF InitInv
  <2>2. p \in Nat /\ p <= f.end
    BY <2>1 DEF Kept, OpenedFile
  <2>3. open_files' = [open_files EXCEPT ![i].pos = p] /\ UNCHANGED initfds
    BY <1>5 DEF InitFiles!initfd_seek, InitFiles!File
  <2>4. f.begin <= p
    BY <2>2
  <2> HIDE DEF p, i
  <2>5. QED BY <2>1, <2>2, <2>3, <2>4, InitMoved
<1>6. CASE open_files' = <<>> /\ initfds' = [d \in {} |-> 0]
  BY <1>6 DEF InitInv
<1>7. QED BY <1>1, <1>2, <1>3, <1>4, <1>5, <1>6 DEF InitStep

----------------------------------------------------------------------------
(* What programs see of the files and of the descriptors *)

AbsContent == [p \in AllPaths |-> Content(p)]
AbsFds == [d \in Used |-> OpenFile(d)]
AbsVars == <<AbsContent, AbsFds, out>>

\* Nothing is open on a disk that is being mounted.
FileInv ==
  /\ Control /\ RamInv /\ InitInv /\ DiskInv
  /\ Mounted \/ DOMAIN diskfds = {}

DiskFile(fd) == Disk!FileAt(fd.start, fd.size)

\* A descriptor belongs to one file system, and stands for a file of it.
LEMMA Views ==
  ASSUME Control
  PROVE  /\ \A d \in DOMAIN ramfds : OpenFile(d) = [file |-> Path("ram", ramfds[d].file), pos |-> ramfds[d].pos]
         /\ \A d \in DOMAIN initfds :
              OpenFile(d) = [file |-> Path("init", InitFiles!File(d).name),
                             pos |-> InitFiles!File(d).pos - InitFiles!File(d).begin]
         /\ \A d \in DOMAIN diskfds :
              OpenFile(d) = [file |-> Path("disk1", DiskFile(diskfds[d])), pos |-> diskfds[d].pos]
BY DEF Control, OpenFile, DiskFile

\* The same after a step.
LEMMA ViewsNext ==
  ASSUME Control'
  PROVE  /\ \A d \in DOMAIN ramfds' :
              OpenFile(d)' = [file |-> Path("ram", ramfds'[d].file), pos |-> ramfds'[d].pos]
         /\ \A d \in DOMAIN initfds' :
              OpenFile(d)' = [file |-> Path("init", InitFiles!File(d)'.name),
                              pos |-> InitFiles!File(d)'.pos - InitFiles!File(d)'.begin]
         /\ \A d \in DOMAIN diskfds' :
              OpenFile(d)' = [file |-> Path("disk1", Disk!FileAt(diskfds[d].start, diskfds[d].size)'), pos |-> diskfds'[d].pos]
BY DEF Control, OpenFile

\* The content of the files of each file system.
LEMMA Contents ==
  /\ \A n \in Names : Path("ram", n) \in AllPaths /\ Content(Path("ram", n)) = Ram!Stored(n)
  /\ \A n \in InitFiles!FileNames : Path("init", n) \in AllPaths /\ Content(Path("init", n)) = InitFiles!Body(n)
  /\ \A n : Content(Path("disk1", n)) = IF n \in Disk!FileNames THEN Disk!BodyOf(n) ELSE <<>>
  /\ image \in Images => \A n \in Disk!FileNames : Path("disk1", n) \in AllPaths
<1>1. \A m, n : Path(m, n).mount = m /\ Path(m, n).name = n
  BY DEF Path
<1>2. /\ \A n \in Names : Content(Path("ram", n)) = Ram!Stored(n)
      /\ \A n \in InitFiles!FileNames : Content(Path("init", n)) = InitFiles!Body(n)
      /\ \A n : Content(Path("disk1", n)) = IF n \in Disk!FileNames THEN Disk!BodyOf(n) ELSE <<>>
  BY <1>1 DEF Content
<1>3. image \in Images => \A n \in Disk!FileNames : Path("disk1", n) \in AllPaths
  BY DEF AllPaths, Disk!FileNames
<1>4. QED BY <1>2, <1>3 DEF AllPaths, RamPaths

\* Contents are the same when what is stored in /ram is.
LEMMA ContentStays ==
  ASSUME UNCHANGED image, NEW p \in AllPaths,
         NEW X, p \notin {Path("ram", n) : n \in X},
         \A n \in Names \ X : Ram!Stored(n)' = Ram!Stored(n)
  PROVE  Content(p)' = Content(p)
<1>1. CASE p \in RamPaths
  <2>1. p.mount = "ram" /\ p.name \in Names /\ p = Path("ram", p.name)
    BY <1>1 DEF RamPaths, Path
  <2>2. p.name \notin X
    BY <2>1
  <2>3. QED BY <2>1, <2>2 DEF Content
<1>2. CASE p \notin RamPaths
  <2>1. p.mount \in {"init", "disk1"}
    BY <1>2 DEF AllPaths, Path
  <2>2. QED BY <2>1 DEF Content, Disk!FileNames, Disk!BodyOf
<1>3. QED BY <1>1, <1>2

\* Contents are the same when what is stored in /ram is, for all files.
LEMMA ContentKept ==
  ASSUME UNCHANGED image, \A n \in Names : Ram!Stored(n)' = Ram!Stored(n)
  PROVE  AbsContent' = AbsContent
<1>1. ASSUME NEW p \in AllPaths PROVE Content(p)' = Content(p)
  <2>1. p \notin {Path("ram", n) : n \in {}}
    OBVIOUS
  <2>2. QED BY <2>1, ContentStays
<1>2. QED BY <1>1 DEF AbsContent

----------------------------------------------------------------------------
(* The steps of FileSpec *)

\* Opening a file.
LEMMA AbsOpens ==
  ASSUME NEW d \in Fds \ Used, NEW p \in AllPaths,
         Used' = Used \union {d}, \A e \in Used : OpenFile(e)' = OpenFile(e),
         OpenFile(d)' = [file |-> p, pos |-> 0], AbsContent' = AbsContent, out' = out
  PROVE  Abstract!Next
<1>1. AbsFds' = [z \in Used \union {d} |-> IF z = d THEN [file |-> p, pos |-> 0] ELSE AbsFds[z]]
  BY DEF AbsFds
<1>2. DOMAIN AbsFds = Used
  BY DEF AbsFds
<1>3. AbsFds' = Abstract!With(AbsFds, d, Abstract!Open(p))
  BY <1>1, <1>2, Zenon DEF Abstract!With, Abstract!Open
<1>4. Abstract!vfs_open
  BY <1>2, <1>3, Zenon DEF Abstract!vfs_open, AbsFds, AbsContent
<1>5. QED BY <1>4 DEF Abstract!Next

\* Closing a descriptor.
LEMMA AbsCloses ==
  ASSUME NEW d \in Used, Used' = Used \ {d}, \A e \in Used \ {d} : OpenFile(e)' = OpenFile(e),
         AbsContent' = AbsContent, out' = out
  PROVE  Abstract!Next
<1>1. AbsFds' = [e \in Used \ {d} |-> AbsFds[e]]
  BY DEF AbsFds
<1>2. DOMAIN AbsFds = Used
  BY DEF AbsFds
<1>3. Abstract!vfs_close
  BY <1>1, <1>2, Zenon DEF Abstract!vfs_close, AbsFds, AbsContent
<1>4. QED BY <1>3 DEF Abstract!Next

\* A descriptor goes to another position, the others stay.
LEMMA AbsMoves ==
  ASSUME NEW d \in Used, NEW f, NEW p, NEW q, Used' = Used,
         \A e \in Used \ {d} : OpenFile(e)' = OpenFile(e),
         OpenFile(d) = [file |-> f, pos |-> p], OpenFile(d)' = [file |-> f, pos |-> q]
  PROVE  /\ AbsFds' = [AbsFds EXCEPT ![d].pos = q] /\ (q = p => AbsFds' = AbsFds)
         /\ d \in DOMAIN AbsFds /\ AbsFds[d].file = f /\ AbsFds[d].pos = p
<1>1. \A x, y : [file |-> x, pos |-> y].file = x /\ [file |-> x, pos |-> y].pos = y
  OBVIOUS
<1>2. AbsFds[d] = [file |-> f, pos |-> p] /\ DOMAIN AbsFds = Used
  BY DEF AbsFds
<1>3. \A x, y, z : [[file |-> x, pos |-> y] EXCEPT !.pos = z] = [file |-> x, pos |-> z]
  OBVIOUS
<1>4. [AbsFds EXCEPT ![d].pos = q] = [e \in Used |-> IF e = d THEN [file |-> f, pos |-> q] ELSE AbsFds[e]]
  <2> DEFINE A == AbsFds
  <2>1. [A EXCEPT ![d].pos = q] = [e \in DOMAIN A |-> IF e = d THEN [A[d] EXCEPT !.pos = q] ELSE A[e]]
    OBVIOUS
  <2>2. [A[d] EXCEPT !.pos = q] = [file |-> f, pos |-> q]
    BY <1>2, <1>3
  <2> HIDE DEF A
  <2>3. QED BY <1>2, <2>1, <2>2 DEF A
<1>5. AbsFds' = [e \in Used |-> IF e = d THEN [file |-> f, pos |-> q] ELSE AbsFds[e]]
  BY DEF AbsFds
<1>6. q = p => AbsFds' = AbsFds
  <2>1. \A e \in Used : q = p => OpenFile(e)' = OpenFile(e)
    OBVIOUS
  <2>2. QED BY <2>1 DEF AbsFds
<1>7. QED BY <1>1, <1>2, <1>4, <1>5, <1>6

\* Reading a byte, or the end of the file.
LEMMA AbsReads ==
  ASSUME NEW d \in Used, NEW f \in AllPaths, NEW p \in Nat, NEW q, Used' = Used,
         \A e \in Used \ {d} : OpenFile(e)' = OpenFile(e),
         OpenFile(d) = [file |-> f, pos |-> p], OpenFile(d)' = [file |-> f, pos |-> q],
         p <= Len(Content(f)), q = p + 1 \/ (q = p /\ p = Len(Content(f))),
         out' = IF p = Len(Content(f)) THEN EOF ELSE Content(f)[p + 1], AbsContent' = AbsContent
  PROVE  Abstract!Next
<1>1. /\ AbsFds' = [AbsFds EXCEPT ![d].pos = q] /\ (q = p => AbsFds' = AbsFds)
      /\ d \in DOMAIN AbsFds /\ AbsFds[d].file = f /\ AbsFds[d].pos = p
  <2>1. QED BY AbsMoves, ZenonT(60)
<1>2. AbsContent[f] = Content(f)
  BY DEF AbsContent
<1>3. 0 <= p
  OBVIOUS
<1>4. Abstract!vfs_read(d)
      = LET g == AbsFds[d].file
            r == AbsFds[d].pos
        IN  /\ 0 <= r /\ r <= Len(AbsContent[g])
            /\ out' = IF r = Len(AbsContent[g]) THEN EOF ELSE AbsContent[g][r + 1]
            /\ \/ AbsFds' = [AbsFds EXCEPT ![d].pos = r + 1]
               \/ r = Len(AbsContent[g]) /\ UNCHANGED AbsFds
            /\ UNCHANGED AbsContent
  BY Zenon DEF Abstract!vfs_read, AbsFds, AbsContent
<1>5. Abstract!vfs_read(d)
  BY <1>1, <1>2, <1>3, <1>4, Zenon
<1>6. QED BY <1>1, <1>5, Zenon DEF Abstract!Next, AbsFds

\* Writing a byte within the file or at its end.
LEMMA AbsWrites ==
  ASSUME NEW d \in Used, NEW f \in AllPaths, NEW p \in Nat, NEW c \in Bytes, Used' = Used,
         \A e \in Used \ {d} : OpenFile(e)' = OpenFile(e),
         OpenFile(d) = [file |-> f, pos |-> p], OpenFile(d)' = [file |-> f, pos |-> p + 1],
         p <= Len(Content(f)), out' = out, \A g \in AllPaths \ {f} : Content(g)' = Content(g),
         Content(f)' = IF p = Len(Content(f)) THEN Append(Content(f), c) ELSE [Content(f) EXCEPT ![p + 1] = c]
  PROVE  Abstract!Next
<1>0. PICK q : q = p + 1
  OBVIOUS
<1>1. /\ AbsFds' = [AbsFds EXCEPT ![d].pos = q]
      /\ d \in DOMAIN AbsFds /\ AbsFds[d].file = f /\ AbsFds[d].pos = p
  <2>1. OpenFile(d)' = [file |-> f, pos |-> q]
    BY <1>0
  <2>2. QED BY <2>1, AbsMoves
<1>2. AbsContent[f] = Content(f) /\ f \in DOMAIN AbsContent /\ DOMAIN AbsContent = AllPaths
  BY DEF AbsContent
<1>3. 0 <= p
  OBVIOUS
<1> DEFINE new(x) == IF p = Len(x) THEN Append(x, c) ELSE [x EXCEPT ![p + 1] = c]
<1>4. AbsContent' = [AbsContent EXCEPT ![f] = new(@)]
  <2>1. Content(f)' = new(AbsContent[f])
    BY <1>2
  <2> HIDE DEF new
  <2>2. [AbsContent EXCEPT ![f] = new(@)] = [g \in AllPaths |-> IF g = f THEN new(AbsContent[f]) ELSE AbsContent[g]]
    BY <1>2
  <2>3. \A g \in AllPaths : AbsContent[g] = Content(g)
    BY DEF AbsContent
  <2>4. QED BY <2>1, <2>2, <2>3 DEF AbsContent
<1>5. Abstract!vfs_write(d)
      = LET g == AbsFds[d].file
            r == AbsFds[d].pos
        IN  /\ 0 <= r /\ r <= Len(AbsContent[g])
            /\ AbsFds' = [AbsFds EXCEPT ![d].pos = r + 1]
            /\ \E x \in Bytes :
                 AbsContent' = [AbsContent EXCEPT ![g] = IF r = Len(@) THEN Append(@, x) ELSE [@ EXCEPT ![r + 1] = x]]
            /\ UNCHANGED out
  BY Zenon DEF Abstract!vfs_write, AbsFds, AbsContent
<1>6. Abstract!vfs_write(d)
  <2>1. AbsFds' = [AbsFds EXCEPT ![d].pos = p + 1]
    BY <1>0, <1>1
  <2>2. QED BY <1>1, <1>2, <1>3, <1>4, <1>5, <2>1, Zenon DEF new
<1>7. QED BY <1>1, <1>6, Zenon DEF Abstract!Next, AbsFds

\* Truncating a file.
LEMMA AbsTruncates ==
  ASSUME NEW d \in Used, NEW f \in AllPaths, NEW p, Used' = Used,
         \A e \in Used : OpenFile(e)' = OpenFile(e), OpenFile(d) = [file |-> f, pos |-> p],
         out' = out, \A g \in AllPaths \ {f} : Content(g)' = Content(g), Content(f)' = <<>>
  PROVE  Abstract!Next
<1>1. AbsFds' = AbsFds /\ d \in DOMAIN AbsFds /\ AbsFds[d].file = f
  <2>1. \A x, y : [file |-> x, pos |-> y].file = x
    OBVIOUS
  <2>2. QED BY <2>1 DEF AbsFds
<1>2. AbsContent' = [AbsContent EXCEPT ![f] = <<>>]
  BY DEF AbsContent
<1>3. Abstract!vfs_truncate(d) = (AbsContent' = [AbsContent EXCEPT ![AbsFds[d].file] = <<>>] /\ UNCHANGED <<AbsFds, out>>)
  BY Zenon DEF Abstract!vfs_truncate, AbsFds, AbsContent
<1>4. Abstract!vfs_truncate(d)
  BY <1>1, <1>2, <1>3
<1>5. QED BY <1>1, <1>4, Zenon DEF Abstract!Next, AbsFds

\* Seeking to a position that is in the file.
LEMMA AbsSeeks ==
  ASSUME NEW d \in Used, NEW f \in AllPaths, NEW p, Used' = Used,
         \A e \in Used \ {d} : OpenFile(e)' = OpenFile(e),
         OpenFile(d) = [file |-> f, pos |-> p], OpenFile(d)' = [file |-> f, pos |-> out'],
         out' <= Len(Content(f)), AbsContent' = AbsContent
  PROVE  Abstract!Next
<1>1. /\ AbsFds' = [AbsFds EXCEPT ![d].pos = out']
      /\ d \in DOMAIN AbsFds /\ AbsFds[d].file = f
  <2>0. PICK q : q = out'
    OBVIOUS
  <2>1. OpenFile(d)' = [file |-> f, pos |-> q]
    BY <2>0
  <2>2. AbsFds' = [AbsFds EXCEPT ![d].pos = q] /\ d \in DOMAIN AbsFds /\ AbsFds[d].file = f
    BY <2>1, AbsMoves
  <2>3. QED BY <2>0, <2>2
<1>2. AbsContent[f] = Content(f)
  BY DEF AbsContent
<1>3. Abstract!vfs_seek(d)
      = (/\ out' <= Len(AbsContent[AbsFds[d].file])
         /\ AbsFds' = [AbsFds EXCEPT ![d].pos = out']
         /\ UNCHANGED AbsContent)
  BY Zenon DEF Abstract!vfs_seek, AbsFds, AbsContent
<1>4. Abstract!vfs_seek(d)
  BY <1>1, <1>2, <1>3, Zenon
<1>5. QED BY <1>1, <1>4, Zenon DEF Abstract!Next, AbsFds

\* What a read gives: the byte at position p of the file g, or the end.
Gives(d, g, p, q) ==
  /\ d \in Used /\ Used' = Used /\ g \in AllPaths /\ p \in Nat /\ AbsContent' = AbsContent
  /\ \A e \in Used \ {d} : OpenFile(e)' = OpenFile(e)
  /\ OpenFile(d) = [file |-> g, pos |-> p] /\ OpenFile(d)' = [file |-> g, pos |-> q]
  /\ p <= Len(Content(g)) /\ (q = p + 1 \/ (q = p /\ p = Len(Content(g))))
  /\ out' = IF p = Len(Content(g)) THEN EOF ELSE Content(g)[p + 1]

----------------------------------------------------------------------------
(* The other descriptors *)

\* A descriptor that a call leaves alone stands for the same file and position.
LEMMA ViewsKept ==
  ASSUME Control, Control'
  PROVE  /\ \A e \in DOMAIN ramfds \intersect DOMAIN ramfds' :
              ramfds'[e] = ramfds[e] => OpenFile(e)' = OpenFile(e)
         /\ \A e \in DOMAIN initfds \intersect DOMAIN initfds' :
              InitFiles!File(e)' = InitFiles!File(e) => OpenFile(e)' = OpenFile(e)
         /\ UNCHANGED <<image, table>> =>
              \A e \in DOMAIN diskfds \intersect DOMAIN diskfds' :
                diskfds'[e] = diskfds[e] => OpenFile(e)' = OpenFile(e)
<1>1. \A e \in DOMAIN ramfds \intersect DOMAIN ramfds' : ramfds'[e] = ramfds[e] => OpenFile(e)' = OpenFile(e)
  BY Views, ViewsNext
<1>2. \A e \in DOMAIN initfds \intersect DOMAIN initfds' :
        InitFiles!File(e)' = InitFiles!File(e) => OpenFile(e)' = OpenFile(e)
  BY Views, ViewsNext
<1>3. ASSUME UNCHANGED <<image, table>>, NEW e \in DOMAIN diskfds \intersect DOMAIN diskfds', diskfds'[e] = diskfds[e]
      PROVE  OpenFile(e)' = OpenFile(e)
  <2>1. Disk!FileAt(diskfds[e].start, diskfds[e].size)' = DiskFile(diskfds[e])
    BY <1>3 DEF Disk!FileAt, Disk!FileNames, DiskFile
  <2>2. QED BY <1>3, <2>1, Views, ViewsNext
<1>4. QED BY <1>1, <1>2, <1>3

\* A call of /ram leaves the descriptors of the others alone.
LEMMA OthersOfRam ==
  ASSUME Control, Control', UNCHANGED <<initVars, diskVars>>, NEW X,
         \A e \in (DOMAIN ramfds \intersect DOMAIN ramfds') \ X : ramfds'[e] = ramfds[e]
  PROVE  \A e \in (Used \intersect Used') \ X : OpenFile(e)' = OpenFile(e)
<1> SUFFICES ASSUME NEW e \in (Used \intersect Used') \ X PROVE OpenFile(e)' = OpenFile(e)
  OBVIOUS
<1>1. UNCHANGED <<initfds, open_files, diskfds, image, table>>
  BY DEF initVars, diskVars
<1>2. CASE e \in DOMAIN initfds
  BY <1>1, <1>2, ViewsKept DEF InitFiles!File
<1>3. CASE e \in DOMAIN diskfds
  BY <1>1, <1>3, ViewsKept
<1>4. CASE e \in DOMAIN ramfds /\ e \in DOMAIN ramfds'
  BY <1>4, ViewsKept
<1>5. QED BY <1>1, <1>2, <1>3, <1>4 DEF Used, Control

\* A call of /init leaves the descriptors of the others alone.
LEMMA OthersOfInit ==
  ASSUME Control, Control', UNCHANGED <<ramVars, diskVars>>, NEW X,
         \A e \in (DOMAIN initfds \intersect DOMAIN initfds') \ X : InitFiles!File(e)' = InitFiles!File(e)
  PROVE  \A e \in (Used \intersect Used') \ X : OpenFile(e)' = OpenFile(e)
<1> SUFFICES ASSUME NEW e \in (Used \intersect Used') \ X PROVE OpenFile(e)' = OpenFile(e)
  OBVIOUS
<1>1. UNCHANGED <<ramfds, diskfds, image, table>>
  BY DEF ramVars, diskVars
<1>2. CASE e \in DOMAIN ramfds
  BY <1>1, <1>2, ViewsKept
<1>3. CASE e \in DOMAIN diskfds
  BY <1>1, <1>3, ViewsKept
<1>4. CASE e \in DOMAIN initfds /\ e \in DOMAIN initfds'
  BY <1>4, ViewsKept
<1>5. QED BY <1>1, <1>2, <1>3, <1>4 DEF Used, Control

\* A call of the disk leaves the descriptors of the others alone.
LEMMA OthersOfDisk ==
  ASSUME Control, Control', UNCHANGED <<ramVars, initVars, image, table>>, NEW X,
         \A e \in (DOMAIN diskfds \intersect DOMAIN diskfds') \ X : diskfds'[e] = diskfds[e]
  PROVE  \A e \in (Used \intersect Used') \ X : OpenFile(e)' = OpenFile(e)
<1> SUFFICES ASSUME NEW e \in (Used \intersect Used') \ X PROVE OpenFile(e)' = OpenFile(e)
  OBVIOUS
<1>1. UNCHANGED <<ramfds, initfds, open_files, image, table>>
  BY DEF ramVars, initVars
<1>2. CASE e \in DOMAIN ramfds
  BY <1>1, <1>2, ViewsKept
<1>3. CASE e \in DOMAIN initfds
  BY <1>1, <1>3, ViewsKept DEF InitFiles!File
<1>4. CASE e \in DOMAIN diskfds /\ e \in DOMAIN diskfds'
  BY <1>1, <1>4, ViewsKept
<1>5. QED BY <1>1, <1>2, <1>3, <1>4 DEF Used, Control

\* Calls that stop the system, and steps inside of a function, change nothing
\* that programs see.
LEMMA Stutters ==
  ASSUME Control, Control', UNCHANGED <<files, ramfds, open_files, initfds, image, diskfds, out>>,
         UNCHANGED table \/ DOMAIN diskfds = {}
  PROVE  UNCHANGED AbsVars
<1>1. AbsContent' = AbsContent
  BY ContentKept DEF Ram!Stored
<1>2. Used' = Used
  BY DEF Used
<1>3. \A e \in Used : OpenFile(e)' = OpenFile(e)
  <2>1. ASSUME NEW e \in DOMAIN initfds PROVE OpenFile(e)' = OpenFile(e)
    BY ViewsKept DEF InitFiles!File
  <2>2. QED BY <2>1, ViewsKept DEF Used
<1>4. AbsFds' = AbsFds
  BY <1>2, <1>3 DEF AbsFds
<1>5. QED BY <1>1, <1>4 DEF AbsVars

----------------------------------------------------------------------------
(* The calls of /ram *)

\* What a file of /ram holds.
LEMMA RamContent ==
  ASSUME RamInv, NEW f \in DOMAIN files
  PROVE  LET p == Path("ram", f)
         IN  /\ p \in AllPaths /\ Content(p) = SubSeq(files[f].data, 1, files[f].size)
             /\ Content(p) \in Seq(0 .. 255) /\ Len(Content(p)) = files[f].size
             /\ \A r \in 1 .. files[f].size : Content(p)[r] = files[f].data[r]
<1>1. f \in Names /\ files[f] \in RamFile /\ Sized(files[f])
  BY DEF RamInv
<1>2. Path("ram", f) \in AllPaths /\ Content(Path("ram", f)) = SubSeq(files[f].data, 1, files[f].size)
  BY <1>1, Contents DEF Ram!Stored
<1>3. QED BY <1>1, <1>2, StoredBytes

\* Opening: a file that is not there is created, and is empty as it was.
LEMMA RamOpens ==
  ASSUME FileInv, Control', NEW f \in Names, NEW d \in Fds \ Used,
         Ram!vfs_open(f, d), UNCHANGED <<initVars, diskVars>>
  PROVE  Abstract!Next
<1>1. /\ ramfds' = Ram!With(ramfds, d, [file |-> f, pos |-> 0]) /\ out' = out
      /\ files' = IF f \in DOMAIN files THEN files ELSE Ram!With(files, f, [size |-> 0, data |-> <<>>])
      /\ initfds' = initfds /\ diskfds' = diskfds /\ image' = image
  BY DEF Ram!vfs_open, Ram!rammount_open, Ram!ramfd_init, Ram!ramfile_init, initVars, diskVars
<1>2. DOMAIN ramfds' = DOMAIN ramfds \union {d} /\ ramfds'[d] = [file |-> f, pos |-> 0]
      /\ \A e \in DOMAIN ramfds \ {d} : ramfds'[e] = ramfds[e]
  BY <1>1 DEF Ram!With
<1>3. Used' = Used \union {d}
  BY <1>1, <1>2 DEF Used
<1>4. \A e \in Used : OpenFile(e)' = OpenFile(e)
  <2>1. \A e \in (Used \intersect Used') \ {d} : OpenFile(e)' = OpenFile(e)
    BY <1>2, OthersOfRam DEF FileInv
  <2>2. QED BY <1>3, <2>1
<1>5. OpenFile(d)' = [file |-> Path("ram", f), pos |-> 0]
  <2>1. OpenFile(d)' = [file |-> Path("ram", ramfds'[d].file), pos |-> ramfds'[d].pos]
    BY <1>2, ViewsNext
  <2>2. [file |-> f, pos |-> 0].file = f /\ [file |-> f, pos |-> 0].pos = 0
    OBVIOUS
  <2>3. QED BY <1>2, <2>1, <2>2
<1>6. AbsContent' = AbsContent
  <2>1. ASSUME NEW n \in Names PROVE Ram!Stored(n)' = Ram!Stored(n)
    <3>1. CASE f \in DOMAIN files
      BY <1>1, <3>1 DEF Ram!Stored
    <3>2. CASE f \notin DOMAIN files
      <4> DEFINE empty == [size |-> 0, data |-> <<>>]
      <4>1. empty.size = 0 /\ empty.data = <<>> /\ SubSeq(<<>>, 1, 0) = <<>>
        OBVIOUS
      <4> HIDE DEF empty
      <4>2. DOMAIN files' = DOMAIN files \union {f} /\ files'[f] = empty /\ \A g \in DOMAIN files : files'[g] = files[g]
        BY <1>1, <3>2 DEF Ram!With, empty
      <4>3. QED BY <3>2, <4>1, <4>2 DEF Ram!Stored
    <3>3. QED BY <3>1, <3>2
  <2>2. QED BY <1>1, <2>1, ContentKept
<1>7. Path("ram", f) \in AllPaths
  BY Contents
<1>8. QED BY <1>1, <1>3, <1>4, <1>5, <1>6, <1>7, AbsOpens

\* Closing.
LEMMA RamCloses ==
  ASSUME FileInv, Control', NEW d \in DOMAIN ramfds, Ram!vfs_close(d), UNCHANGED <<initVars, diskVars>>
  PROVE  Abstract!Next
<1>1. /\ ramfds' = [e \in DOMAIN ramfds \ {d} |-> ramfds[e]] /\ out' = out /\ files' = files
      /\ initfds' = initfds /\ diskfds' = diskfds /\ image' = image
  BY DEF Ram!vfs_close, initVars, diskVars
<1>2. Used' = Used \ {d} /\ d \in Used
  BY <1>1 DEF Used, FileInv, Control
<1>3. \A e \in Used \ {d} : OpenFile(e)' = OpenFile(e)
  <2>1. \A e \in (Used \intersect Used') \ {d} : OpenFile(e)' = OpenFile(e)
    BY <1>1, OthersOfRam DEF FileInv
  <2>2. QED BY <1>2, <2>1
<1>4. AbsContent' = AbsContent
  BY <1>1, ContentKept DEF Ram!Stored
<1>5. QED BY <1>1, <1>2, <1>3, <1>4, AbsCloses

\* A call that only moves a descriptor of /ram.
LEMMA RamMoved ==
  ASSUME FileInv, Control', NEW d \in DOMAIN ramfds, NEW to, UNCHANGED <<initVars, diskVars>>,
         ramfds' = [ramfds EXCEPT ![d].pos = to]
  PROVE  /\ d \in Used /\ Used' = Used
         /\ \A e \in Used \ {d} : OpenFile(e)' = OpenFile(e)
         /\ OpenFile(d) = [file |-> Path("ram", ramfds[d].file), pos |-> ramfds[d].pos]
         /\ OpenFile(d)' = [file |-> Path("ram", ramfds[d].file), pos |-> to]
<1>1. initfds' = initfds /\ diskfds' = diskfds
  BY DEF initVars, diskVars
<1>2. /\ DOMAIN ramfds' = DOMAIN ramfds /\ \A e \in DOMAIN ramfds \ {d} : ramfds'[e] = ramfds[e]
  OBVIOUS
<1>3. ramfds'[d].file = ramfds[d].file /\ ramfds'[d].pos = to
  <2>1. ramfds \in [DOMAIN ramfds -> [file : DOMAIN files, pos : Nat]]
    BY DEF FileInv, RamInv
  <2>2. QED BY <2>1
<1>4. Used' = Used /\ d \in Used
  BY <1>1, <1>2 DEF Used
<1>5. \A e \in (Used \intersect Used') \ {d} : OpenFile(e)' = OpenFile(e)
  BY <1>2, OthersOfRam DEF FileInv
<1>6. QED BY <1>2, <1>3, <1>4, <1>5, Views, ViewsNext DEF FileInv

\* Reading.
LEMMA RamReads ==
  ASSUME FileInv, Control', NEW d \in DOMAIN ramfds, Ram!ramfd_read(d), UNCHANGED <<initVars, diskVars>>
  PROVE  Abstract!Next \/ UNCHANGED AbsVars
<1>1. PICK f, p, s : f = ramfds[d].file /\ p = ramfds[d].pos /\ s = files[f].size
  OBVIOUS
<1>2. /\ f \in DOMAIN files /\ p \in Nat /\ s \in Nat /\ s <= Len(files[f].data) /\ Len(files[f].data) \in Nat
      /\ Path("ram", f) \in AllPaths /\ Len(Content(Path("ram", f))) = s
      /\ \A r \in 1 .. s : Content(Path("ram", f))[r] = files[f].data[r]
  BY <1>1, RamDescriptor, RamContent DEF FileInv, Sized
<1>3. CASE Ram!ReadPanic(d) # "no"
  <2>1. UNCHANGED <<files, ramfds, out>>
    BY <1>3 DEF Ram!ramfd_read, Ram!Panic
  <2>2. QED BY <2>1, Stutters DEF FileInv, initVars, diskVars
<1>4. CASE Ram!ReadPanic(d) = "no"
  <2>1. p <= s
    BY <1>1, <1>2, <1>4 DEF Ram!ReadPanic, Ram!Pos, Ram!File
  <2>2. /\ out' = Ram!ramfile_read(files[f], p) /\ UNCHANGED files
        /\ ramfds' = [ramfds EXCEPT ![d].pos = @ + 1]
    BY <1>1, <1>4 DEF Ram!ramfd_read, Ram!File, Ram!Pos
  <2>3. PICK q : q = p + 1
    OBVIOUS
  <2>4. ramfds' = [ramfds EXCEPT ![d].pos = q]
    BY <1>1, <2>2, <2>3
  <2>5. /\ d \in Used /\ Used' = Used
        /\ \A e \in Used \ {d} : OpenFile(e)' = OpenFile(e)
        /\ OpenFile(d) = [file |-> Path("ram", f), pos |-> p]
        /\ OpenFile(d)' = [file |-> Path("ram", f), pos |-> q]
    BY <1>1, <2>4, RamMoved
  <2>6. out' = IF p = Len(Content(Path("ram", f))) THEN EOF ELSE Content(Path("ram", f))[p + 1]
    <3>1. p # s => p + 1 \in 1 .. s
      BY <1>2, <2>1
    <3>2. QED BY <1>1, <1>2, <2>2, <3>1 DEF Ram!ramfile_read, EOF, Ram!EOF
  <2>7. AbsContent' = AbsContent
    BY <2>2, ContentKept DEF Ram!Stored, diskVars
  <2>8. PICK g : g = Path("ram", f)
    OBVIOUS
  <2>9. QED BY <1>2, <2>1, <2>3, <2>5, <2>6, <2>7, <2>8, AbsReads
<1>5. QED BY <1>3, <1>4

\* The other files stay when one is written or truncated.
LEMMA OtherContents ==
  ASSUME RamInv, UNCHANGED image, NEW f \in DOMAIN files, NEW h, files' = [files EXCEPT ![f] = h]
  PROVE  /\ \A g \in AllPaths \ {Path("ram", f)} : Content(g)' = Content(g)
         /\ Content(Path("ram", f))' = SubSeq(h.data, 1, h.size)
<1>1. \A n \in Names \ {f} : Ram!Stored(n)' = Ram!Stored(n)
  BY DEF Ram!Stored
<1>2. \A g \in AllPaths \ {Path("ram", f)} : Content(g)' = Content(g)
  <2>1. \A g \in AllPaths \ {Path("ram", f)} : g \notin {Path("ram", n) : n \in {f}}
    OBVIOUS
  <2>2. QED BY <1>1, <2>1, ContentStays
<1>3. Content(Path("ram", f))' = Ram!Stored(f)'
  <2>1. Path("ram", f).mount = "ram" /\ Path("ram", f).name = f
    BY DEF Path
  <2>2. QED BY <2>1 DEF Content
<1>4. Ram!Stored(f)' = SubSeq(h.data, 1, h.size)
  BY DEF Ram!Stored
<1>5. QED BY <1>2, <1>3, <1>4

\* Truncating.
LEMMA RamTruncates ==
  ASSUME FileInv, Control', NEW d \in DOMAIN ramfds, Ram!ramfd_truncate(d), UNCHANGED <<initVars, diskVars>>
  PROVE  Abstract!Next
<1> DEFINE empty == [size |-> 0, data |-> <<>>]
<1>1. PICK f, p, g : f = ramfds[d].file /\ p = ramfds[d].pos /\ g = Path("ram", f)
  OBVIOUS
<1>2. f \in DOMAIN files /\ g \in AllPaths
  BY <1>1, RamDescriptor, RamContent DEF FileInv
<1>3. /\ files' = [files EXCEPT ![f] = empty] /\ UNCHANGED <<ramfds, out>>
      /\ initfds' = initfds /\ diskfds' = diskfds /\ image' = image
  BY <1>1 DEF Ram!ramfd_truncate, Ram!ramfile_init, initVars, diskVars
<1>4. empty.size = 0 /\ empty.data = <<>> /\ SubSeq(<<>>, 1, 0) = <<>>
  OBVIOUS
<1>5. PICK h : h = empty
  OBVIOUS
<1> HIDE DEF empty
<1>6. (\A e \in AllPaths \ {g} : Content(e)' = Content(e)) /\ Content(g)' = <<>>
  BY <1>1, <1>2, <1>3, <1>4, <1>5, OtherContents DEF FileInv
<1>7. Used' = Used /\ d \in Used
  BY <1>3 DEF Used
<1>8. \A e \in Used : OpenFile(e)' = OpenFile(e)
  <2>1. \A e \in (Used \intersect Used') \ {} : OpenFile(e)' = OpenFile(e)
    BY <1>3, OthersOfRam DEF FileInv
  <2>2. QED BY <1>7, <2>1
<1>9. OpenFile(d) = [file |-> g, pos |-> p]
  BY <1>1, Views DEF FileInv
<1>10. QED BY <1>2, <1>3, <1>6, <1>7, <1>8, <1>9, AbsTruncates

\* Seeking: never past the end.
LEMMA RamSeeks ==
  ASSUME FileInv, Control', NEW d \in DOMAIN ramfds, NEW off \in Offsets,
         NEW whence \in {Ram!SEEK_SET, Ram!SEEK_CUR, Ram!SEEK_END}, Ram!ramfd_seek(d, off, whence),
         UNCHANGED <<initVars, diskVars>>
  PROVE  Abstract!Next
<1>1. PICK f, p, s, g, to : /\ f = ramfds[d].file /\ p = ramfds[d].pos /\ s = files[f].size
                            /\ g = Path("ram", f) /\ to = Ram!Target(d, off, whence)
  OBVIOUS
<1>2. /\ f \in DOMAIN files /\ s \in Nat /\ g \in AllPaths /\ Len(Content(g)) = s /\ p \in Nat
  BY <1>1, RamDescriptor, RamContent DEF FileInv
<1>3. to <= s
  BY <1>1, <1>2, ProgramConstants DEF Ram!Target, Ram!File, Ram!Pos
<1>4. out' = to /\ ramfds' = [ramfds EXCEPT ![d].pos = to] /\ files' = files /\ image' = image
  BY <1>1 DEF Ram!ramfd_seek, diskVars
<1>5. /\ d \in Used /\ Used' = Used
      /\ \A e \in Used \ {d} : OpenFile(e)' = OpenFile(e)
      /\ OpenFile(d) = [file |-> g, pos |-> p] /\ OpenFile(d)' = [file |-> g, pos |-> to]
  BY <1>1, <1>4, RamMoved
<1>6. AbsContent' = AbsContent
  BY <1>4, ContentKept DEF Ram!Stored
<1>7. QED BY <1>2, <1>3, <1>4, <1>5, <1>6, AbsSeeks

\* Writing: the byte goes to its place, and no other byte of any file changes,
\* also when the vector grows.
LEMMA RamWrites ==
  ASSUME FileInv, Control', NEW d \in DOMAIN ramfds, NEW c \in Bytes, Ram!ramfd_write(d, c),
         UNCHANGED <<initVars, diskVars>>
  PROVE  Abstract!Next \/ UNCHANGED AbsVars
<1>1. PICK f, p, s, g, x : /\ f = ramfds[d].file /\ p = ramfds[d].pos /\ s = files[f].size
                           /\ g = Path("ram", f) /\ x = Ram!Grown(files[f], p)
  OBVIOUS
<1>2. /\ f \in DOMAIN files /\ p \in Nat /\ s \in Nat /\ g \in AllPaths /\ Len(Content(g)) = s
      /\ files[f] \in RamFile /\ Sized(files[f]) /\ c \in 0 .. 255
      /\ Content(g) = SubSeq(files[f].data, 1, files[f].size)
  BY <1>1, RamDescriptor, RamContent, RamConstants DEF FileInv
<1>3. Ram!ramfd_write(d, c)
      = (/\ p < MaxSize
         /\ IF Ram!WritePanic(d, x) # "no" THEN Ram!Panic(Ram!WritePanic(d, x))
            ELSE /\ files' = [files EXCEPT ![f] = [x EXCEPT !.data[p + 1] = c]]
                 /\ ramfds' = [ramfds EXCEPT ![d].pos = @ + 1]
                 /\ UNCHANGED <<out, rampanic>>)
  BY <1>1, Zenon DEF Ram!ramfd_write, Ram!File, Ram!Pos
<1>4. CASE Ram!WritePanic(d, x) # "no"
  <2>1. UNCHANGED <<files, ramfds, out>>
    BY <1>3, <1>4 DEF Ram!Panic
  <2>2. QED BY <2>1, Stutters DEF FileInv, initVars, diskVars
<1>5. CASE Ram!WritePanic(d, x) = "no"
  <2>1. p <= s
    BY <1>1, <1>2, <1>5 DEF Ram!WritePanic, Ram!Pos, Ram!File
  <2>2. PICK h : h = [x EXCEPT !.data[p + 1] = c]
    OBVIOUS
  <2>3. /\ files' = [files EXCEPT ![f] = h] /\ ramfds' = [ramfds EXCEPT ![d].pos = @ + 1] /\ out' = out
    BY <1>3, <1>5, <2>2
  <2>4. PICK q : q = p + 1
    OBVIOUS
  <2>5. /\ d \in Used /\ Used' = Used
        /\ \A e \in Used \ {d} : OpenFile(e)' = OpenFile(e)
        /\ OpenFile(d) = [file |-> g, pos |-> p] /\ OpenFile(d)' = [file |-> g, pos |-> q]
    <3>1. ramfds' = [ramfds EXCEPT ![d].pos = q]
      BY <1>1, <2>3, <2>4
    <3>2. QED BY <1>1, <3>1, RamMoved
  <2>6. (\A e \in AllPaths \ {g} : Content(e)' = Content(e)) /\ Content(g)' = SubSeq(h.data, 1, h.size)
    <3>1. image' = image
      BY DEF diskVars
    <3>2. QED BY <1>1, <1>2, <2>3, <3>1, OtherContents DEF FileInv
  <2>7. SubSeq(h.data, 1, h.size) = IF p = Len(Content(g)) THEN Append(Content(g), c) ELSE [Content(g) EXCEPT ![p + 1] = c]
    <3>1. p \in 0 .. files[f].size
      BY <1>1, <1>2, <2>1
    <3>2. PICK y : y = files[f]
      OBVIOUS
    <3>3. y \in RamFile /\ Sized(y) /\ p \in 0 .. y.size /\ c \in 0 .. 255 /\ h = [Ram!Grown(y, p) EXCEPT !.data[p + 1] = c]
      BY <1>1, <1>2, <2>2, <3>1, <3>2
    <3> DEFINE t == SubSeq(y.data, 1, y.size)
               w == [Ram!Grown(y, p) EXCEPT !.data[p + 1] = c]
    <3>4. SubSeq(w.data, 1, w.size) = IF p = y.size THEN Append(t, c) ELSE [t EXCEPT ![p + 1] = c]
      BY <3>3, WritingByte, ZenonT(60)
    <3> HIDE DEF w, t
    <3>5. h = w /\ t = Content(g) /\ y.size = Len(Content(g))
      BY <1>1, <1>2, <3>2, <3>3 DEF w, t
    <3>6. QED BY <3>4, <3>5
  <2>8. QED BY <1>2, <2>1, <2>3, <2>4, <2>5, <2>6, <2>7, AbsWrites
<1>6. QED BY <1>4, <1>5

----------------------------------------------------------------------------
(* The calls of /init *)

\* What an open file of /init holds, and where it is in memory.
LEMMA InitContent ==
  ASSUME InitInv, NEW i \in 1 .. Len(open_files)
  PROVE  LET f == open_files[i]
             g == Path("init", f.name)
         IN  /\ f \in OpenedFile /\ g \in AllPaths /\ f.name \in InitFiles!FileNames
             /\ f.begin \in Nat /\ f.pos \in Nat /\ f.end \in Nat /\ f.begin <= f.pos /\ f.pos <= f.end
             /\ Len(Content(g)) \in Nat /\ f.end = f.begin + Len(Content(g))
             /\ f.pos # f.end => InitFiles!Cell(f.pos) = Content(g)[(f.pos - f.begin) + 1]
<1> DEFINE f == open_files[i]
           b == InitFiles!Body(f.name)
<1>1. f \in OpenedFile /\ Kept(f)
  BY OpenedFiles DEF InitInv
<1>2. f.name \in InitFiles!FileNames /\ f.begin \in Nat /\ f.pos \in Nat /\ f.end \in Nat
  BY <1>1 DEF OpenedFile
<1>3. /\ Len(b) \in Nat
      /\ InitFiles!walk_initrd(f.name).end = InitFiles!walk_initrd(f.name).begin + Len(b)
      /\ \A r \in 1 .. Len(b) : InitFiles!Cell(InitFiles!walk_initrd(f.name).begin + r - 1) = b[r]
  <2>1. PICK name : name = f.name
    OBVIOUS
  <2>2. name \in InitFiles!FileNames
    BY <1>2, <2>1
  <2>3. /\ Len(InitFiles!Body(name)) \in Nat
        /\ InitFiles!walk_initrd(name).end = InitFiles!walk_initrd(name).begin + Len(InitFiles!Body(name))
        /\ \A r \in 1 .. Len(InitFiles!Body(name)) :
             InitFiles!Cell(InitFiles!walk_initrd(name).begin + r - 1) = InitFiles!Body(name)[r]
    BY <2>2, WalkFinds
  <2>4. QED BY <2>1, <2>3
<1>4. Path("init", f.name) \in AllPaths /\ Content(Path("init", f.name)) = b
  BY <1>2, Contents
<1>5. f.end = f.begin + Len(b) /\ f.begin <= f.pos /\ f.pos <= f.end
      /\ \A r \in 1 .. Len(b) : InitFiles!Cell(f.begin + r - 1) = b[r]
  BY <1>1, <1>3 DEF Kept
<1>6. f.pos # f.end => InitFiles!Cell(f.pos) = b[(f.pos - f.begin) + 1]
  <2> DEFINE p == f.pos
             s == f.begin
             e == f.end
             l == Len(b)
  <2> HIDE DEF p, s, e, l
  <2>1. p \in Nat /\ s \in Nat /\ e \in Nat /\ l \in Nat /\ e = s + l /\ s <= p /\ p <= e
    BY <1>2, <1>3, <1>5 DEF p, s, e, l
  <2>2. p # e => (p - s) + 1 \in 1 .. l /\ s + ((p - s) + 1) - 1 = p
    BY <2>1
  <2>3. \A r \in 1 .. l : InitFiles!Cell(s + r - 1) = b[r]
    BY <1>5 DEF s, l
  <2>4. QED BY <2>2, <2>3 DEF p, s, e
<1> HIDE DEF b, f
<1>7. QED BY <1>1, <1>2, <1>3, <1>4, <1>5, <1>6 DEF f

\* Opening: the walk finds the beginning of the file.
LEMMA InitOpens ==
  ASSUME FileInv, Control', NEW name \in InitFiles!FileNames, NEW d \in Fds \ Used,
         InitFiles!initfd_init(name, d), UNCHANGED <<ramVars, diskVars>>
  PROVE  Abstract!Next /\ OpenFile(d)' = [file |-> Path("init", name), pos |-> 0]
<1>1. PICK n, w : n = Len(open_files) + 1 /\ w = InitFiles!walk_initrd(name).begin
  OBVIOUS
<1>2. PICK f : f = [name |-> name, begin |-> w, pos |-> w, end |-> InitFiles!walk_initrd(name).end]
  OBVIOUS
<1>3. /\ open_files' = Append(open_files, f) /\ initfds' = InitFiles!With(initfds, d, n) /\ out' = out
      /\ ramfds' = ramfds /\ diskfds' = diskfds /\ image' = image /\ files' = files
  BY <1>1, <1>2 DEF InitFiles!initfd_init, ramVars, diskVars
<1>4. DOMAIN initfds' = DOMAIN initfds \union {d} /\ initfds'[d] = n /\ \A e \in DOMAIN initfds \ {d} : initfds'[e] = initfds[e]
  BY <1>3 DEF InitFiles!With
<1>5. /\ open_files'[n] = f /\ \A i \in 1 .. Len(open_files) : open_files'[i] = open_files[i]
  <2>1. open_files \in Seq(OpenedFile) /\ Len(open_files) \in Nat
    BY OpenedFiles DEF FileInv, InitInv
  <2>2. open_files \in Seq(OpenedFile \union {f})
    BY <2>1, SeqOfMore
  <2>3. QED BY <1>1, <1>3, <2>1, <2>2, AppendProperties
<1>6. \A e \in DOMAIN initfds : e # d => InitFiles!File(e)' = InitFiles!File(e)
  <2>1. \A e \in DOMAIN initfds : initfds[e] \in 1 .. Len(open_files)
    BY DEF FileInv, InitInv
  <2>2. QED BY <1>4, <1>5, <2>1 DEF InitFiles!File
<1>7. Used' = Used \union {d}
  BY <1>3, <1>4 DEF Used
<1>8. \A e \in Used : OpenFile(e)' = OpenFile(e)
  <2>1. \A e \in (Used \intersect Used') \ {d} : OpenFile(e)' = OpenFile(e)
    BY <1>6, OthersOfInit DEF FileInv
  <2>2. QED BY <1>7, <2>1
<1>9. OpenFile(d)' = [file |-> Path("init", name), pos |-> 0]
  <2>1. InitFiles!File(d)' = f
    BY <1>4, <1>5 DEF InitFiles!File
  <2>2. OpenFile(d)' = [file |-> Path("init", f.name), pos |-> f.pos - f.begin]
    BY <1>4, <2>1, ViewsNext
  <2>3. f.name = name /\ f.pos = w /\ f.begin = w
    BY <1>2
  <2>4. w \in Nat
    BY <1>1, WalkFinds
  <2>5. w - w = 0
    BY <2>4
  <2>6. QED BY <2>2, <2>3, <2>5
<1>10. AbsContent' = AbsContent
  BY <1>3, ContentKept DEF Ram!Stored
<1>11. Path("init", name) \in AllPaths
  BY Contents
<1>12. Abstract!Next
  BY <1>3, <1>7, <1>8, <1>9, <1>10, <1>11, AbsOpens
<1>13. QED BY <1>9, <1>12

\* Closing.
LEMMA InitCloses ==
  ASSUME FileInv, Control', NEW d \in DOMAIN initfds, InitFiles!initfd_destroy(d), UNCHANGED <<ramVars, diskVars>>
  PROVE  Abstract!Next
<1>1. /\ initfds' = [e \in DOMAIN initfds \ {d} |-> initfds[e]] /\ out' = out /\ open_files' = open_files
      /\ ramfds' = ramfds /\ diskfds' = diskfds /\ image' = image /\ files' = files
  BY DEF InitFiles!initfd_destroy, ramVars, diskVars
<1>2. Used' = Used \ {d} /\ d \in Used
  BY <1>1 DEF Used, FileInv, Control
<1>3. \A e \in Used \ {d} : OpenFile(e)' = OpenFile(e)
  <2>1. \A e \in (DOMAIN initfds \intersect DOMAIN initfds') \ {d} : InitFiles!File(e)' = InitFiles!File(e)
    BY <1>1 DEF InitFiles!File
  <2>2. \A e \in (Used \intersect Used') \ {d} : OpenFile(e)' = OpenFile(e)
    BY <2>1, OthersOfInit DEF FileInv
  <2>3. QED BY <1>2, <2>2
<1>4. AbsContent' = AbsContent
  BY <1>1, ContentKept DEF Ram!Stored
<1>5. QED BY <1>1, <1>2, <1>3, <1>4, AbsCloses

\* A call that only moves a descriptor of /init: no other one has its place in
\* the table.
LEMMA InitMovedOnly ==
  ASSUME FileInv, Control', NEW d \in DOMAIN initfds, NEW to, UNCHANGED <<ramVars, diskVars, initfds>>,
         open_files' = [open_files EXCEPT ![initfds[d]].pos = to]
  PROVE  LET f == open_files[initfds[d]]
         IN  /\ d \in Used /\ Used' = Used /\ AbsContent' = AbsContent
             /\ \A e \in Used \ {d} : OpenFile(e)' = OpenFile(e)
             /\ OpenFile(d) = [file |-> Path("init", f.name), pos |-> f.pos - f.begin]
             /\ OpenFile(d)' = [file |-> Path("init", f.name), pos |-> to - f.begin]
<1>1. PICK i : i = initfds[d]
  OBVIOUS
<1>2. PICK f : f = open_files[i]
  OBVIOUS
<1>3. i \in 1 .. Len(open_files) /\ f \in OpenedFile /\ DOMAIN open_files = 1 .. Len(open_files)
  BY <1>1, <1>2, OpenedFiles DEF FileInv, InitInv
<1>4. PICK h : h = [f EXCEPT !.pos = to]
  OBVIOUS
<1>5. h.name = f.name /\ h.begin = f.begin /\ h.pos = to
  BY <1>3, <1>4 DEF OpenedFile
<1>6. open_files' = [open_files EXCEPT ![i] = h]
  BY <1>1, <1>2, <1>4
<1>7. open_files'[i] = h /\ \A j \in 1 .. Len(open_files) : j # i => open_files'[j] = open_files[j]
  BY <1>3, <1>6
<1>8. \A e \in DOMAIN initfds : e # d => InitFiles!File(e)' = InitFiles!File(e)
  <2>1. \A e \in DOMAIN initfds : e # d => initfds[e] \in 1 .. Len(open_files) /\ initfds[e] # i
    BY <1>1 DEF FileInv, InitInv
  <2>2. QED BY <1>7, <2>1 DEF InitFiles!File
<1>9. ramfds' = ramfds /\ diskfds' = diskfds /\ image' = image /\ files' = files
  BY DEF ramVars, diskVars
<1>10. d \in Used /\ Used' = Used
  BY <1>9 DEF Used
<1>11. \A e \in (Used \intersect Used') \ {d} : OpenFile(e)' = OpenFile(e)
  BY <1>8, OthersOfInit DEF FileInv
<1>12. InitFiles!File(d) = f /\ InitFiles!File(d)' = h
  BY <1>1, <1>2, <1>7 DEF InitFiles!File
<1>13. OpenFile(d) = [file |-> Path("init", f.name), pos |-> f.pos - f.begin]
  BY <1>12, Views DEF FileInv
<1>14. OpenFile(d)' = [file |-> Path("init", f.name), pos |-> to - f.begin]
  BY <1>5, <1>12, ViewsNext
<1>15. AbsContent' = AbsContent
  BY <1>9, ContentKept DEF Ram!Stored
<1>16. QED BY <1>1, <1>2, <1>10, <1>11, <1>13, <1>14, <1>15

\* Reading gives the byte at the position.
LEMMA InitGives ==
  ASSUME FileInv, Control', NEW d \in DOMAIN initfds, InitFiles!platform_read_char(d), UNCHANGED <<ramVars, diskVars>>
  PROVE  \E g, p, q : Gives(d, g, p, q)
<1>1. PICK i, f : i = initfds[d] /\ f = open_files[i]
  OBVIOUS
<1>2. PICK g, b, p, e, l : /\ g = Path("init", f.name) /\ b = f.begin /\ p = f.pos /\ e = f.end
                           /\ l = Len(Content(g))
  OBVIOUS
<1>3. i \in 1 .. Len(open_files) /\ DOMAIN open_files = 1 .. Len(open_files)
  BY <1>1, OpenedFiles DEF FileInv, InitInv
<1>4. /\ g \in AllPaths /\ b \in Nat /\ p \in Nat /\ e \in Nat /\ l \in Nat /\ b <= p /\ p <= e /\ e = b + l
      /\ p # e => InitFiles!Cell(p) = Content(g)[(p - b) + 1]
  BY <1>1, <1>2, <1>3, InitContent DEF FileInv
<1>5. PICK to : to = IF p = e THEN p ELSE p + 1
  OBVIOUS
<1>6. /\ out' = (IF p = e THEN InitFiles!EOF ELSE InitFiles!Cell(p))
      /\ open_files' = [open_files EXCEPT ![i].pos = to] /\ initfds' = initfds
  BY <1>1, <1>2, <1>3, <1>5 DEF InitFiles!platform_read_char, InitFiles!File
<1>7. /\ d \in Used /\ Used' = Used /\ AbsContent' = AbsContent
      /\ \A x \in Used \ {d} : OpenFile(x)' = OpenFile(x)
      /\ OpenFile(d) = [file |-> g, pos |-> p - b]
      /\ OpenFile(d)' = [file |-> g, pos |-> to - b]
  BY <1>1, <1>2, <1>6, InitMovedOnly
<1>8. PICK x, y : x = p - b /\ y = to - b
  OBVIOUS
<1>9. x \in Nat /\ x <= Len(Content(g)) /\ (y = x + 1 \/ (y = x /\ x = Len(Content(g))))
  BY <1>2, <1>4, <1>5, <1>8, SMTT(30)
<1>10. out' = IF x = Len(Content(g)) THEN EOF ELSE Content(g)[x + 1]
  <2>1. p = e <=> x = Len(Content(g))
    BY <1>2, <1>4, <1>8
  <2>2. QED BY <1>4, <1>6, <1>8, <2>1 DEF EOF, InitFiles!EOF
<1>11. Gives(d, g, x, y)
  BY <1>4, <1>7, <1>8, <1>9, <1>10 DEF Gives
<1>12. QED BY <1>11

\* Which is a step of FileSpec.
LEMMA InitReads ==
  ASSUME FileInv, Control', NEW d \in DOMAIN initfds, InitFiles!platform_read_char(d), UNCHANGED <<ramVars, diskVars>>
  PROVE  Abstract!Next
<1>1. PICK g, p, q : Gives(d, g, p, q)
  BY InitGives
<1>2. QED BY <1>1, AbsReads DEF Gives

\* The only seek is the one to the beginning.
LEMMA InitSeeks ==
  ASSUME FileInv, Control', NEW d \in DOMAIN initfds, InitFiles!initfd_seek(d), UNCHANGED <<ramVars, diskVars>>
  PROVE  Abstract!Next
<1>1. PICK i, f : i = initfds[d] /\ f = open_files[i]
  OBVIOUS
<1>2. PICK g, p, b : g = Path("init", f.name) /\ p = f.pos - f.begin /\ b = f.begin
  OBVIOUS
<1>3. i \in 1 .. Len(open_files)
  BY <1>1 DEF FileInv, InitInv
<1>4. g \in AllPaths /\ b \in Nat /\ Len(Content(g)) \in Nat
  BY <1>1, <1>2, <1>3, InitContent DEF FileInv
<1>5. out' = 0 /\ open_files' = [open_files EXCEPT ![i].pos = b] /\ initfds' = initfds
  BY <1>1, <1>2 DEF InitFiles!initfd_seek, InitFiles!File
<1>6. /\ d \in Used /\ Used' = Used /\ AbsContent' = AbsContent
      /\ \A x \in Used \ {d} : OpenFile(x)' = OpenFile(x)
      /\ OpenFile(d) = [file |-> g, pos |-> p]
      /\ OpenFile(d)' = [file |-> g, pos |-> b - b]
  BY <1>1, <1>2, <1>5, InitMovedOnly
<1>7. b - b = out' /\ out' <= Len(Content(g))
  BY <1>4, <1>5
<1>8. QED BY <1>4, <1>6, <1>7, AbsSeeks

----------------------------------------------------------------------------
(* The calls of /disk1 *)

\* Where the bytes of a file of the disk are.
LEMMA DiskSource ==
  ASSUME DiskInv, NEW k \in 1 .. Len(image)
  PROVE  LET g == Path("disk1", image[k].name)
             start == PART + Disk!StartOf(image, k)
             b == image[k].body
         IN  /\ g \in AllPaths /\ Content(g) = b /\ b \in Seq(0 .. BASE - 1) /\ Len(b) \in Nat
             /\ \A r \in 1 .. Len(b) : Disk!Byte(start + r - 1) = b[r]
<1> DEFINE n == Len(image)
           start(j) == PART + Disk!StartOf(image, j)
           size(j) == Len(image[j].body)
<1>1. /\ Disk!IsImage(image) /\ image \in Images /\ LaidOut(image, disk) /\ PART \in Nat
  BY LayoutPlaces, DiskConstants DEF DiskInv
<1>2. /\ n \in Nat /\ DOMAIN image = 1 .. n /\ image[k].body \in Seq(0 .. BASE - 1)
      /\ \A j \in 1 .. n : size(j) \in Nat /\ Disk!StartOf(image, j) \in Nat
  BY <1>1, ImageNumbers
<1>3. image[k].name \in Disk!FileNames
  BY <1>2 DEF Disk!FileNames
<1>4. Disk!BodyOf(image[k].name) = image[k].body
  <2>1. (CHOOSE i \in DOMAIN image : image[i].name = image[k].name) = k
    BY <1>1, <1>2 DEF Disk!IsImage
  <2>2. QED BY <2>1, Zenon DEF Disk!BodyOf
<1>5. Path("disk1", image[k].name) \in AllPaths /\ Content(Path("disk1", image[k].name)) = image[k].body
  BY <1>1, <1>3, <1>4, Contents
<1>6. ASSUME NEW r \in 1 .. size(k) PROVE Disk!Byte(start(k) + r - 1) = image[k].body[r]
  <2> DEFINE s == Disk!StartOf(image, k)
             a == start(k) + r - 1
  <2>1. s + r \in 1 .. Len(disk) /\ disk[s + r] = image[k].body[r] /\ Len(disk) \in Nat
    BY <1>1 DEF LaidOut
  <2>2. s \in Nat /\ r \in Nat
    BY <1>2
  <2>3. a = PART + s + r - 1
    OBVIOUS
  <2> HIDE DEF s, a
  <2>4. a - PART \in 0 .. Len(disk) - 1 /\ a - PART + 1 = s + r
    BY <1>1, <2>1, <2>2, <2>3
  <2>5. Disk!Byte(a) = disk[s + r]
    BY <2>4 DEF Disk!Byte
  <2>6. QED BY <2>1, <2>5 DEF a
<1>7. QED BY <1>2, <1>5, <1>6

\* What a descriptor of the disk stands for: two empty files may be at the same
\* place, and are the same file to a program.
LEMMA DiskContent ==
  ASSUME DiskInv, Mounted, NEW fd, OfImage(image, fd)
  PROVE  LET g == Path("disk1", DiskFile(fd))
         IN  /\ g \in AllPaths /\ Content(g) \in Seq(0 .. BASE - 1) /\ Len(Content(g)) = fd.size /\ fd.size \in Nat
             /\ \A r \in 1 .. fd.size : Disk!Byte(fd.start + r - 1) = Content(g)[r]
<1> DEFINE n == Len(image)
           start(j) == PART + Disk!StartOf(image, j)
           size(j) == Len(image[j].body)
           name == DiskFile(fd)
<1>1. /\ Disk!IsImage(image) /\ image \in Images /\ LaidOut(image, disk) /\ PART \in Nat
  BY LayoutPlaces, DiskConstants DEF DiskInv
<1>2. /\ n \in Nat /\ DOMAIN image = 1 .. n
      /\ \A j \in 1 .. n : size(j) \in Nat /\ Disk!StartOf(image, j) \in Nat
  BY <1>1, ImageNumbers
<1>3. TableUpTo(n)
  BY DEF DiskInv, Scanned, Mounted, AtMagic, AtName, AtPos, AtSize, AtEnd
<1>4. \A j \in 1 .. n : /\ table[image[j].name].start = start(j) /\ table[image[j].name].size = size(j)
                        /\ image[j].name \in Disk!FileNames
  <2>1. \A x, y : [start |-> x, size |-> y].start = x /\ [start |-> x, size |-> y].size = y
    OBVIOUS
  <2>2. \A j \in 1 .. n : table[image[j].name] = [start |-> start(j), size |-> size(j)]
    BY <1>3 DEF TableUpTo
  <2>3. \A j \in 1 .. n : image[j].name \in Disk!FileNames
    BY <1>2 DEF Disk!FileNames
  <2>4. ASSUME NEW j \in 1 .. n
        PROVE  table[image[j].name].start = start(j) /\ table[image[j].name].size = size(j)
    <3>1. PICK x, y : x = start(j) /\ y = size(j)
      OBVIOUS
    <3>2. table[image[j].name] = [start |-> x, size |-> y]
      BY <2>2, <3>1
    <3>3. [start |-> x, size |-> y].start = x /\ [start |-> x, size |-> y].size = y
      BY <2>1
    <3>4. QED BY <3>1, <3>2, <3>3, Zenon
  <2> HIDE DEF start, size
  <2>5. QED BY <2>3, <2>4
<1>5. name \in Disk!FileNames /\ table[name].start = fd.start /\ table[name].size = fd.size
  <2>1. PICK j \in 1 .. n : fd.start = start(j) /\ fd.size = size(j)
    BY DEF OfImage
  <2>2. \E x \in Disk!FileNames : table[x].start = fd.start /\ table[x].size = fd.size
    BY <1>4, <2>1
  <2>3. name = CHOOSE x \in Disk!FileNames : table[x].start = fd.start /\ table[x].size = fd.size
    BY DEF DiskFile, Disk!FileAt
  <2> HIDE DEF name
  <2>4. QED BY <2>2, <2>3
<1> HIDE DEF name
<1>6. PICK k \in 1 .. n : image[k].name = name
  BY <1>2, <1>5 DEF Disk!FileNames
<1>7. /\ Path("disk1", name) \in AllPaths /\ Content(Path("disk1", name)) = image[k].body
      /\ image[k].body \in Seq(0 .. BASE - 1)
  BY <1>6, DiskSource
<1>8. fd.start = start(k) /\ fd.size = size(k)
  BY <1>4, <1>5, <1>6
<1>9. \A r \in 1 .. size(k) : Disk!Byte(start(k) + r - 1) = image[k].body[r]
  BY DiskSource
<1>10. QED BY <1>2, <1>7, <1>8, <1>9 DEF name

\* A descriptor of the disk.
LEMMA DiskDescriptor ==
  ASSUME DiskInv, NEW d \in DOMAIN diskfds
  PROVE  /\ Current(diskfds[d]) /\ OfImage(image, diskfds[d]) /\ diskfds[d] \in DiskFd
         /\ diskfds[d].pos \in Nat /\ diskfds[d].size \in Nat /\ diskfds[d].start \in Nat
         /\ diskfds[d].pos <= diskfds[d].size
<1>1. Current(diskfds[d]) /\ OfImage(image, diskfds[d])
  BY DEF DiskInv
<1>2. QED BY <1>1 DEF Current, DiskFd

\* The file of a descriptor depends on where it begins and on its size only.
LEMMA DiskFileKept ==
  ASSUME UNCHANGED <<image, table>>, NEW d \in DOMAIN diskfds', NEW fd,
         diskfds'[d].start = fd.start, diskfds'[d].size = fd.size, Control'
  PROVE  OpenFile(d)' = [file |-> Path("disk1", DiskFile(fd)), pos |-> diskfds'[d].pos]
<1>1. Disk!FileAt(diskfds[d].start, diskfds[d].size)' = DiskFile(fd)
  BY DEF Disk!FileAt, Disk!FileNames, DiskFile
<1>2. QED BY <1>1, ViewsNext

\* Opening.
LEMMA DiskOpens ==
  ASSUME FileInv, Mounted, Control', NEW n \in DOMAIN table, NEW d \in Fds \ Used,
         Disk!diskmount_open(n, d), UNCHANGED <<ramVars, initVars>>
  PROVE  /\ Abstract!Next
         /\ \E g \in AllPaths : /\ OpenFile(d)' = [file |-> g, pos |-> 0] /\ g.mount = "disk1"
                               /\ Content(g) = Content(Path("disk1", n))
<1>1. PICK j \in 1 .. Len(image) :
        /\ image[j].name = n /\ table[n] = [start |-> PART + Disk!StartOf(image, j), size |-> Len(image[j].body)]
        /\ PART + Disk!StartOf(image, j) \in Nat /\ Len(image[j].body) \in Nat
  BY TableEntry DEF FileInv
<1>2. PICK a, b : a = PART + Disk!StartOf(image, j) /\ b = Len(image[j].body)
  OBVIOUS
<1>3. PICK fd : fd = Disk!diskfd_init(a, b)
  OBVIOUS
<1>4. fd.start = a /\ fd.size = b /\ fd.pos = 0
  BY <1>3 DEF Disk!diskfd_init
<1>5. table[n].start = a /\ table[n].size = b
  <2>1. table[n] = [start |-> a, size |-> b]
    BY <1>1, <1>2
  <2>2. QED BY <2>1
<1>6. /\ diskfds' = Disk!With(diskfds, d, fd) /\ out' = out /\ UNCHANGED <<image, table>>
      /\ ramfds' = ramfds /\ initfds' = initfds /\ files' = files
  BY <1>3, <1>5 DEF Disk!diskmount_open, ramVars, initVars
<1>7. DOMAIN diskfds' = DOMAIN diskfds \union {d} /\ diskfds'[d] = fd
      /\ \A e \in DOMAIN diskfds \ {d} : diskfds'[e] = diskfds[e]
  BY <1>6 DEF Disk!With
<1>8. Used' = Used \union {d}
  BY <1>6, <1>7 DEF Used
<1>9. \A e \in Used : OpenFile(e)' = OpenFile(e)
  <2>1. \A e \in (Used \intersect Used') \ {d} : OpenFile(e)' = OpenFile(e)
    BY <1>6, <1>7, OthersOfDisk DEF FileInv
  <2>2. QED BY <1>8, <2>1
<1>10. PICK g : g = Path("disk1", DiskFile(fd))
  OBVIOUS
<1>11. g \in AllPaths
  <2>1. OfImage(image, fd)
    BY <1>2, <1>4 DEF OfImage
  <2>2. QED BY <1>10, <2>1, DiskContent DEF FileInv
<1>12. OpenFile(d)' = [file |-> g, pos |-> 0]
  <2>1. OpenFile(d)' = [file |-> Path("disk1", DiskFile(fd)), pos |-> diskfds'[d].pos]
    BY <1>6, <1>7, DiskFileKept
  <2>2. QED BY <1>4, <1>7, <1>10, <2>1
<1>13. AbsContent' = AbsContent
  BY <1>6, ContentKept DEF Ram!Stored
<1>14. Abstract!Next
  BY <1>6, <1>8, <1>9, <1>11, <1>12, <1>13, AbsOpens
<1>15. Content(g) = Content(Path("disk1", n))
  <2>1. PICK x, y : x = Content(g) /\ y = Content(Path("disk1", n))
    OBVIOUS
  <2>2. y = image[j].body /\ y \in Seq(0 .. BASE - 1) /\ \A r \in 1 .. Len(y) : Disk!Byte(a + r - 1) = y[r]
    <3>1. y = Content(Path("disk1", image[j].name)) /\ DiskInv
      <4>1. image[j].name = n
        BY <1>1
      <4>2. QED BY <2>1, <4>1, Zenon DEF FileInv
    <3>2. /\ Content(Path("disk1", image[j].name)) = image[j].body /\ image[j].body \in Seq(0 .. BASE - 1)
          /\ \A r \in 1 .. Len(image[j].body) :
               Disk!Byte(PART + Disk!StartOf(image, j) + r - 1) = image[j].body[r]
      BY <3>1, DiskSource
    <3>3. QED BY <1>2, <3>1, <3>2
  <2>3. x \in Seq(0 .. BASE - 1) /\ Len(x) = b /\ \A r \in 1 .. b : Disk!Byte(a + r - 1) = x[r]
    <3>1. OfImage(image, fd)
      BY <1>2, <1>4 DEF OfImage
    <3>2. QED BY <1>4, <1>10, <2>1, <3>1, DiskContent DEF FileInv
  <2>4. Len(y) = b
    BY <1>2, <2>2
  <2>5. QED BY <2>1, <2>2, <2>3, <2>4, SeqEqual
<1>16. g.mount = "disk1"
  BY <1>10 DEF Path
<1>17. QED BY <1>11, <1>12, <1>14, <1>15, <1>16

\* Closing.
LEMMA DiskCloses ==
  ASSUME FileInv, Control', NEW d \in DOMAIN diskfds, Disk!diskfd_destroy(d), UNCHANGED <<ramVars, initVars>>
  PROVE  Abstract!Next
<1>1. /\ diskfds' = [e \in DOMAIN diskfds \ {d} |-> diskfds[e]] /\ out' = out /\ UNCHANGED <<image, table>>
      /\ ramfds' = ramfds /\ initfds' = initfds /\ files' = files
  BY DEF Disk!diskfd_destroy, ramVars, initVars
<1>2. Used' = Used \ {d} /\ d \in Used
  BY <1>1 DEF Used, FileInv, Control
<1>3. \A e \in Used \ {d} : OpenFile(e)' = OpenFile(e)
  <2>1. \A e \in (Used \intersect Used') \ {d} : OpenFile(e)' = OpenFile(e)
    BY <1>1, OthersOfDisk DEF FileInv
  <2>2. QED BY <1>2, <2>1
<1>4. AbsContent' = AbsContent
  BY <1>1, ContentKept DEF Ram!Stored
<1>5. QED BY <1>1, <1>2, <1>3, <1>4, AbsCloses

\* A call that only moves a descriptor of the disk.
LEMMA DiskMoved ==
  ASSUME FileInv, Control', NEW d \in DOMAIN diskfds, NEW h,
         h.start = diskfds[d].start, h.size = diskfds[d].size,
         diskfds' = [diskfds EXCEPT ![d] = h], UNCHANGED <<image, table, ramVars, initVars>>
  PROVE  LET g == Path("disk1", DiskFile(diskfds[d]))
         IN  /\ d \in Used /\ Used' = Used /\ AbsContent' = AbsContent
             /\ \A e \in Used \ {d} : OpenFile(e)' = OpenFile(e)
             /\ OpenFile(d) = [file |-> g, pos |-> diskfds[d].pos]
             /\ OpenFile(d)' = [file |-> g, pos |-> h.pos]
<1>1. PICK fd : fd = diskfds[d]
  OBVIOUS
<1>2. DOMAIN diskfds' = DOMAIN diskfds /\ diskfds'[d] = h /\ \A e \in DOMAIN diskfds \ {d} : diskfds'[e] = diskfds[e]
  OBVIOUS
<1>3. ramfds' = ramfds /\ initfds' = initfds /\ files' = files
  BY DEF ramVars, initVars
<1>4. d \in Used /\ Used' = Used
  BY <1>2, <1>3 DEF Used
<1>5. \A e \in (Used \intersect Used') \ {d} : OpenFile(e)' = OpenFile(e)
  BY <1>2, OthersOfDisk DEF FileInv
<1>6. OpenFile(d) = [file |-> Path("disk1", DiskFile(fd)), pos |-> diskfds[d].pos]
  BY <1>1, Views DEF FileInv
<1>7. OpenFile(d)' = [file |-> Path("disk1", DiskFile(fd)), pos |-> h.pos]
  <2>1. OpenFile(d)' = [file |-> Path("disk1", DiskFile(fd)), pos |-> diskfds'[d].pos]
    BY <1>1, <1>2, DiskFileKept
  <2>2. QED BY <1>2, <2>1
<1>8. AbsContent' = AbsContent
  BY <1>3, ContentKept DEF Ram!Stored
<1>9. QED BY <1>1, <1>4, <1>5, <1>6, <1>7, <1>8

\* Reading: the byte comes from the sector in memory, which is the one of the
\* position.
LEMMA DiskGives ==
  ASSUME FileInv, Mounted, Control', NEW d \in DOMAIN diskfds, Disk!diskfd_read(d), UNCHANGED <<ramVars, initVars>>
  PROVE  \E g, p, q : Gives(d, g, p, q)
<1>1. PICK fd, h : fd = diskfds[d] /\ h = Disk!Advanced(fd)
  OBVIOUS
<1>2. PICK p, s, g, q : p = fd.pos /\ s = fd.size /\ g = Path("disk1", DiskFile(fd)) /\ q = h.pos
  OBVIOUS
<1>3. Current(fd) /\ OfImage(image, fd) /\ fd.start \in Nat /\ p \in Nat /\ s \in Nat /\ p <= s
  BY <1>1, <1>2, DiskDescriptor DEF FileInv
<1>4. /\ Disk!Got(fd) = (IF p = s THEN Disk!EOF ELSE Disk!Byte(Disk!At(fd)))
      /\ h.start = fd.start /\ h.size = fd.size /\ q = IF p = s THEN p ELSE p + 1
  BY <1>1, <1>2, <1>3, Reading
<1>5. /\ g \in AllPaths /\ Len(Content(g)) = s
      /\ \A r \in 1 .. s : Disk!Byte(fd.start + r - 1) = Content(g)[r]
  BY <1>1, <1>2, <1>3, DiskContent DEF FileInv
<1>6. /\ out' = Disk!Got(fd) /\ diskfds' = [diskfds EXCEPT ![d] = h] /\ UNCHANGED <<image, table>>
  <2>1. ~ (p > s)
    BY <1>3
  <2>2. ~ diskpanic'
    BY <1>1, <1>2, <2>1 DEF Disk!diskfd_read
  <2>3. QED BY <1>1, <2>2 DEF Disk!diskfd_read
<1>7. /\ d \in Used /\ Used' = Used /\ AbsContent' = AbsContent
      /\ \A e \in Used \ {d} : OpenFile(e)' = OpenFile(e)
      /\ OpenFile(d) = [file |-> g, pos |-> p]
      /\ OpenFile(d)' = [file |-> g, pos |-> q]
  BY <1>1, <1>2, <1>4, <1>6, DiskMoved
<1>8. out' = IF p = Len(Content(g)) THEN EOF ELSE Content(g)[p + 1]
  <2>1. p # s => p + 1 \in 1 .. s /\ Disk!At(fd) = fd.start + (p + 1) - 1
    BY <1>2, <1>3 DEF Disk!At
  <2>2. QED BY <1>4, <1>5, <1>6, <2>1 DEF EOF, Disk!EOF
<1>9. p <= Len(Content(g)) /\ (q = p + 1 \/ (q = p /\ p = Len(Content(g))))
  BY <1>3, <1>4, <1>5
<1>10. Gives(d, g, p, q)
  BY <1>3, <1>5, <1>7, <1>8, <1>9 DEF Gives
<1>11. QED BY <1>10

\* Which is a step of FileSpec.
LEMMA DiskReads ==
  ASSUME FileInv, Mounted, Control', NEW d \in DOMAIN diskfds, Disk!diskfd_read(d), UNCHANGED <<ramVars, initVars>>
  PROVE  Abstract!Next
<1>1. PICK g, p, q : Gives(d, g, p, q)
  BY DiskGives
<1>2. QED BY <1>1, AbsReads DEF Gives

\* Seeking: never past the end.
LEMMA DiskSeeks ==
  ASSUME FileInv, Mounted, Control', NEW d \in DOMAIN diskfds, NEW off \in Offsets,
         NEW whence \in {Disk!SEEK_SET, Disk!SEEK_CUR, Disk!SEEK_END}, Disk!diskfd_seek(d, off, whence),
         UNCHANGED <<ramVars, initVars>>
  PROVE  Abstract!Next
<1>1. PICK fd : fd = diskfds[d]
  OBVIOUS
<1>2. PICK p, s, g, to : /\ p = fd.pos /\ s = fd.size /\ g = Path("disk1", DiskFile(fd))
                         /\ to = Disk!Target(fd, off, whence)
  OBVIOUS
<1>3. OfImage(image, fd) /\ fd \in DiskFd /\ p \in Nat /\ s \in Nat
  BY <1>1, <1>2, DiskDescriptor DEF FileInv
<1>4. g \in AllPaths /\ Len(Content(g)) = s
  BY <1>1, <1>2, <1>3, DiskContent DEF FileInv
<1>5. to <= s
  BY <1>2, <1>3, ProgramConstants DEF Disk!Target
<1>6. PICK h : h = Disk!Sought(fd, to)
  OBVIOUS
<1>7. h.start = fd.start /\ h.size = fd.size /\ h.pos = to
  BY <1>3, <1>6 DEF Disk!Sought, DiskFd
<1>8. out' = to /\ diskfds' = [diskfds EXCEPT ![d] = h] /\ UNCHANGED <<image, table>>
  BY <1>1, <1>2, <1>6 DEF Disk!diskfd_seek
<1>9. /\ d \in Used /\ Used' = Used /\ AbsContent' = AbsContent
      /\ \A e \in Used \ {d} : OpenFile(e)' = OpenFile(e)
      /\ OpenFile(d) = [file |-> g, pos |-> p]
      /\ OpenFile(d)' = [file |-> g, pos |-> h.pos]
  BY <1>1, <1>2, <1>7, <1>8, DiskMoved
<1>10. QED BY <1>4, <1>5, <1>7, <1>8, <1>9, AbsSeeks

----------------------------------------------------------------------------
(* What programs and copies do *)

\* The machine is started again: the files of /ram are gone, all others stay.
LEMMA Restarts ==
  ASSUME FileInv, Boot
  PROVE  Abstract!Next
<1>1. /\ files' = [f \in {} |-> 0] /\ ramfds' = [d \in {} |-> 0] /\ initfds' = [d \in {} |-> 0]
      /\ diskfds' = [d \in {} |-> 0] /\ out' = 0 /\ image' = image
  BY DEF Boot
<1>2. Used' = {} /\ AbsFds' = [d \in {} |-> 0]
  BY <1>1 DEF Used, AbsFds
<1>3. \A p \in AllPaths : Content(p)' = IF p \in RamPaths THEN <<>> ELSE Content(p)
  <2>1. ASSUME NEW p \in RamPaths PROVE Content(p)' = <<>>
    <3>1. p.mount = "ram"
      BY DEF RamPaths, Path
    <3>2. QED BY <1>1, <3>1 DEF Content, Ram!Stored
  <2>2. ASSUME NEW p \in AllPaths \ RamPaths PROVE Content(p)' = Content(p)
    <3>1. p \notin {Path("ram", n) : n \in Names} /\ \A n \in Names \ Names : Ram!Stored(n)' = Ram!Stored(n)
      BY DEF RamPaths
    <3>2. QED BY <1>1, <3>1, ContentStays
  <2>3. QED BY <2>1, <2>2
<1>4. AbsContent' = [p \in DOMAIN AbsContent |-> IF p \in RamPaths THEN <<>> ELSE AbsContent[p]]
  BY <1>3 DEF AbsContent
<1>5. Abstract!restart
      = (/\ AbsFds' = [d \in {} |-> 0] /\ out' = 0
         /\ AbsContent' = [f \in DOMAIN AbsContent |-> IF f \in RamPaths THEN <<>> ELSE AbsContent[f]])
  BY Zenon DEF Abstract!restart, AbsFds, AbsContent
<1>6. QED BY <1>1, <1>2, <1>4, <1>5 DEF Abstract!Next

\* Opening, in whatever file system.
LEMMA Opens ==
  ASSUME FileInv, Mounted, Control', NEW path \in Paths, NEW d \in Fds \ Used, vfs_open(path, d)
  PROVE  Abstract!Next
<1>1. PICK name : name = path.name
  OBVIOUS
<1>2. QED BY <1>1, WhereOpened, RamOpens, InitOpens, DiskOpens

\* Closing, in whatever file system.
LEMMA Closes ==
  ASSUME FileInv, Control', NEW d \in Used, vfs_close(d)
  PROVE  Abstract!Next
<1>1. CASE d \in DOMAIN ramfds
  <2>1. Ram!vfs_close(d) /\ UNCHANGED <<initVars, diskVars>>
    BY <1>1 DEF vfs_close, FileInv, Control
  <2>2. QED BY <1>1, <2>1, RamCloses
<1>2. CASE d \in DOMAIN initfds
  <2>1. InitFiles!initfd_destroy(d) /\ UNCHANGED <<ramVars, diskVars>>
    BY <1>2 DEF vfs_close, FileInv, Control
  <2>2. QED BY <1>2, <2>1, InitCloses
<1>3. CASE d \in DOMAIN diskfds
  <2>1. Disk!diskfd_destroy(d) /\ UNCHANGED <<ramVars, initVars>>
    BY <1>3 DEF vfs_close, FileInv, Control
  <2>2. QED BY <1>3, <2>1, DiskCloses
<1>4. QED BY <1>1, <1>2, <1>3 DEF Used

\* Reading, in whatever file system.
LEMMA Reads ==
  ASSUME FileInv, Mounted, Control', NEW d \in Used, vfs_read(d)
  PROVE  Abstract!Next \/ UNCHANGED AbsVars
<1>1. CASE d \in DOMAIN ramfds
  <2>1. Ram!ramfd_read(d) /\ UNCHANGED <<initVars, diskVars>>
    BY <1>1 DEF vfs_read, FileInv, Control
  <2>2. QED BY <1>1, <2>1, RamReads
<1>2. CASE d \in DOMAIN initfds
  <2>1. InitFiles!platform_read_char(d) /\ UNCHANGED <<ramVars, diskVars>>
    BY <1>2 DEF vfs_read, FileInv, Control
  <2>2. QED BY <1>2, <2>1, InitReads
<1>3. CASE d \in DOMAIN diskfds
  <2>1. Disk!diskfd_read(d) /\ UNCHANGED <<ramVars, initVars>>
    BY <1>3 DEF vfs_read, FileInv, Control
  <2>2. QED BY <1>3, <2>1, DiskReads
<1>4. QED BY <1>1, <1>2, <1>3 DEF Used

\* A call that is not supported stops the system.
LEMMA NotSupportedStutters ==
  ASSUME FileInv, Control', NotSupported
  PROVE  UNCHANGED AbsVars
BY Stutters DEF NotSupported, FileInv, ramVars, initVars, diskVars

\* Programs: calls of one file system, and the functions of the C library.
LEMMA ProgramImplements ==
  ASSUME FileInv, Control', Program
  PROVE  Abstract!Next \/ UNCHANGED AbsVars
<1>1. Mounted /\ Control
  BY DEF Program, FileInv
<1>2. CASE RamCall
  <2>1. UNCHANGED <<initVars, diskVars>> /\ Ram!Next /\ DOMAIN ramfds' \intersect (Used \ DOMAIN ramfds) = {}
    BY <1>2 DEF RamCall
  <2>2. ASSUME NEW f \in Names, NEW d \in Fds \ DOMAIN ramfds, Ram!vfs_open(f, d) PROVE Abstract!Next
    <3>1. d \in DOMAIN ramfds'
      BY <2>2 DEF Ram!vfs_open, Ram!With
    <3>2. d \in Fds \ Used
      BY <2>1, <3>1
    <3>3. QED BY <2>1, <2>2, <3>2, RamOpens
  <2>3. ASSUME NEW d \in DOMAIN ramfds, Ram!vfs_close(d) PROVE Abstract!Next
    BY <2>1, <2>3, RamCloses
  <2>4. ASSUME NEW d \in DOMAIN ramfds, Ram!ramfd_read(d) PROVE Abstract!Next \/ UNCHANGED AbsVars
    BY <2>1, <2>4, RamReads
  <2>5. ASSUME NEW d \in DOMAIN ramfds, Ram!ramfd_truncate(d) PROVE Abstract!Next
    BY <2>1, <2>5, RamTruncates
  <2>6. ASSUME NEW d \in DOMAIN ramfds, NEW c \in Bytes, Ram!ramfd_write(d, c) PROVE Abstract!Next \/ UNCHANGED AbsVars
    BY <2>1, <2>6, RamWrites
  <2>7. ASSUME NEW d \in DOMAIN ramfds, NEW off \in Offsets,
               NEW whence \in {Ram!SEEK_SET, Ram!SEEK_CUR, Ram!SEEK_END}, Ram!ramfd_seek(d, off, whence)
        PROVE  Abstract!Next
    BY <2>1, <2>7, RamSeeks
  <2>8. QED BY <2>1, <2>2, <2>3, <2>4, <2>5, <2>6, <2>7 DEF Ram!Next
<1>3. CASE InitCall
  <2>1. UNCHANGED <<ramVars, diskVars>> /\ InitFiles!Next /\ DOMAIN initfds' \intersect (Used \ DOMAIN initfds) = {}
    BY <1>3 DEF InitCall
  <2>2. ASSUME NEW d \in Fds \ DOMAIN initfds, NEW name \in InitFiles!FileNames, InitFiles!initfd_init(name, d)
        PROVE  Abstract!Next
    <3>1. d \in DOMAIN initfds'
      BY <2>2 DEF InitFiles!initfd_init, InitFiles!With
    <3>2. d \in Fds \ Used
      BY <2>1, <3>1
    <3>3. QED BY <2>1, <2>2, <3>2, InitOpens
  <2>3. ASSUME NEW d \in DOMAIN initfds, InitFiles!initfd_destroy(d) PROVE Abstract!Next
    BY <2>1, <2>3, InitCloses
  <2>4. ASSUME NEW d \in DOMAIN initfds, InitFiles!platform_read_char(d) PROVE Abstract!Next
    BY <2>1, <2>4, InitReads
  <2>5. ASSUME NEW d \in DOMAIN initfds, InitFiles!initfd_seek(d) PROVE Abstract!Next
    BY <2>1, <2>5, InitSeeks
  <2>6. QED BY <2>1, <2>2, <2>3, <2>4, <2>5 DEF InitFiles!Next
<1>4. CASE DiskCall
  <2>1. UNCHANGED <<ramVars, initVars>> /\ Disk!Calls /\ DOMAIN diskfds' \intersect (Used \ DOMAIN diskfds) = {}
    BY <1>4 DEF DiskCall
  <2>2. ASSUME NEW n \in DOMAIN table, NEW d \in Fds \ DOMAIN diskfds, Disk!diskmount_open(n, d) PROVE Abstract!Next
    <3>1. d \in DOMAIN diskfds'
      BY <2>2 DEF Disk!diskmount_open, Disk!With
    <3>2. d \in Fds \ Used
      BY <2>1, <3>1
    <3>3. QED BY <1>1, <2>1, <2>2, <3>2, DiskOpens
  <2>3. ASSUME NEW d \in DOMAIN diskfds, Disk!diskfd_destroy(d) PROVE Abstract!Next
    BY <2>1, <2>3, DiskCloses
  <2>4. ASSUME NEW d \in DOMAIN diskfds, Disk!diskfd_read(d) PROVE Abstract!Next
    BY <1>1, <2>1, <2>4, DiskReads
  <2>5. ASSUME NEW d \in DOMAIN diskfds, NEW off \in Offsets,
               NEW whence \in {Disk!SEEK_SET, Disk!SEEK_CUR, Disk!SEEK_END}, Disk!diskfd_seek(d, off, whence)
        PROVE  Abstract!Next
    BY <1>1, <2>1, <2>5, DiskSeeks
  <2>6. QED BY <2>1, <2>2, <2>3, <2>4, <2>5 DEF Disk!Calls
<1>5. CASE Refused
  BY <1>5, NotSupportedStutters DEF Refused
<1>6. CASE \E path \in Paths, d \in Fds \ Used : open(path, d)
  BY <1>1, <1>6, Opens DEF open
<1>7. CASE BeginWrite
  <2>1. UNCHANGED <<out, ramVars, initVars, diskVars>>
    BY <1>7 DEF BeginWrite
  <2>2. QED BY <1>1, <2>1, Stutters DEF ramVars, initVars, diskVars
<1>8. CASE Truncate
  <2>1. PICK d : d = doing.d
    OBVIOUS
  <2>2. CASE d \in DOMAIN ramfds
    <3>1. Ram!ramfd_truncate(d) /\ UNCHANGED <<initVars, diskVars>>
      BY <1>8, <2>1, <2>2 DEF Truncate, vfs_truncate
    <3>2. QED BY <2>2, <3>1, RamTruncates
  <2>3. CASE d \notin DOMAIN ramfds
    BY <1>8, <2>1, <2>3, NotSupportedStutters DEF Truncate, vfs_truncate
  <2>4. QED BY <2>2, <2>3
<1>9. CASE fputc
  <2>1. PICK d, c : d = doing.d /\ c = Head(doing.left)
    OBVIOUS
  <2>2. vfs_write(d, c)
    BY <1>9, <2>1 DEF fputc
  <2>3. CASE d \in DOMAIN ramfds
    <3>1. Ram!ramfd_write(d, c) /\ UNCHANGED <<initVars, diskVars>>
      BY <2>2, <2>3 DEF vfs_write
    <3>2. c \in Bytes
      <4>1. doing.op \in {"fputs", "fwrite"} /\ doing.left # <<>>
        BY <1>9 DEF fputc
      <4>2. doing \in WritingText
        BY <1>1, <4>1 DEF Control, Idle, Opening, Copying
      <4>3. doing.left \in Seq(Bytes)
        BY <4>2 DEF WritingText
      <4>4. QED BY <2>1, <4>1, <4>3
    <3>3. QED BY <2>3, <3>1, <3>2, RamWrites
  <2>4. CASE d \notin DOMAIN ramfds
    BY <2>2, <2>4, NotSupportedStutters DEF vfs_write
  <2>5. QED BY <2>3, <2>4
<1>10. CASE EndWrite
  <2>1. UNCHANGED <<out, ramVars, initVars, diskVars>>
    BY <1>10 DEF EndWrite
  <2>2. QED BY <1>1, <2>1, Stutters DEF ramVars, initVars, diskVars
<1>11. QED BY <1>2, <1>3, <1>4, <1>5, <1>6, <1>7, <1>8, <1>9, <1>10 DEF Program

\* Copies: a file is opened, read until its end and closed.
LEMMA CopyImplements ==
  ASSUME FileInv, Control', Copy
  PROVE  Abstract!Next \/ UNCHANGED AbsVars
<1>1. Mounted /\ user = "copies" /\ Control
  BY DEF Copy, FileInv
<1>2. CASE Boot
  BY <1>2, Restarts
<1>3. CASE CopyBegins
  <2>1. PICK path \in Paths, d \in Fds : doing = Idle /\ vfs_open(path, d)
    BY <1>3 DEF CopyBegins, Sources
  <2>2. d \in Fds \ Used
    BY <1>1, <2>1 DEF Control
  <2>3. QED BY <1>1, <2>1, <2>2, Opens
<1>4. doing.op = "copy" => doing.d \in Used
  BY <1>1 DEF Control, Idle, Opening, WritingText
<1>5. CASE CopyReads
  <2>1. PICK d : d = doing.d
    OBVIOUS
  <2>2. d \in Used /\ vfs_read(d)
    BY <1>4, <1>5, <2>1 DEF CopyReads
  <2>3. QED BY <1>1, <2>2, Reads
<1>6. CASE CopyFinishes
  <2>1. UNCHANGED <<out, ramVars, initVars, diskVars>>
    BY <1>6 DEF CopyFinishes
  <2>2. QED BY <1>1, <2>1, Stutters DEF ramVars, initVars, diskVars
<1>7. CASE CopyCloses
  <2>1. PICK d : d = doing.d
    OBVIOUS
  <2>2. d \in Used /\ vfs_close(d)
    BY <1>4, <1>7, <2>1 DEF CopyCloses
  <2>3. QED BY <2>2, Closes
<1>8. QED BY <1>2, <1>3, <1>5, <1>6, <1>7 DEF Copy

\* Every step of the whole is a step of FileSpec, or nothing that programs see.
LEMMA StepImplements ==
  ASSUME FileInv, Control', [Next]_vars
  PROVE  Abstract!Next \/ UNCHANGED AbsVars
<1>1. CASE Mounting
  <2>1. UNCHANGED <<out, image, diskfds, ramVars, initVars>> /\ scan.phase # "done"
    BY <1>1 DEF Mounting, Disk!ScanByte
  <2>2. DOMAIN diskfds = {}
    BY <2>1 DEF FileInv, Mounted
  <2>3. QED BY <2>1, <2>2, Stutters DEF FileInv, ramVars, initVars
<1>2. CASE Program
  BY <1>2, ProgramImplements
<1>3. CASE Copy
  BY <1>3, CopyImplements
<1>4. CASE UNCHANGED vars
  BY <1>4, Stutters DEF FileInv, vars, ramVars, initVars, diskVars
<1>5. QED BY <1>1, <1>2, <1>3, <1>4 DEF Next

\* The invariant of all three file systems.
LEMMA FileAlways == Spec => []FileInv
<1>1. Init => FileInv
  <2>1. ASSUME Init PROVE InitInv /\ DOMAIN diskfds = {}
    BY <2>1 DEF Init, InitInv, InitFiles!Init, Disk!Init
  <2>2. QED BY <2>1, InitialControl, InitialDisk DEF FileInv
<1>2. ASSUME FileInv, [Next]_vars PROVE FileInv'
  <2>1. CASE Next
    <3>1. Control' /\ RamStep /\ InitStep /\ DiskStep
      BY <1>2, <2>1, ControlInductive, Steps DEF FileInv
    <3>2. RamInv' /\ InitInv' /\ DiskInv'
      BY <1>2, <3>1, RamInductive, InitInductive, DiskInductive DEF FileInv
    <3>3. Mounted' \/ DOMAIN diskfds' = {}
      <4>1. CASE Mounted
        BY <3>1, <4>1 DEF DiskStep, Mounted, diskVars, Disk!ScanByte, Disk!diskmount_open, Disk!diskfd_destroy,
                          Disk!diskfd_read, Disk!diskfd_seek
      <4>2. CASE ~ Mounted
        <5>1. DOMAIN diskfds = {}
          BY <1>2, <4>2 DEF FileInv
        <5>2. QED BY <3>1, <4>2, <5>1 DEF DiskStep, diskVars, Disk!ScanByte
      <4>3. QED BY <4>1, <4>2
    <3>4. QED BY <3>1, <3>2, <3>3 DEF FileInv
  <2>2. CASE UNCHANGED vars
    <3>1. UNCHANGED ramVars /\ UNCHANGED initVars /\ UNCHANGED diskVars /\ UNCHANGED <<user, doing>>
      BY <2>2 DEF vars
    <3>2. RamInv' /\ InitInv' /\ DiskInv'
      BY <1>2, <3>1, RamInductive, InitInductive, DiskInductive DEF FileInv, RamStep, InitStep, DiskStep
    <3>3. Control' /\ (Mounted' \/ DOMAIN diskfds' = {})
      BY <1>2, <3>1 DEF FileInv, Control, Used, Mounted, ramVars, initVars, diskVars
    <3>4. QED BY <3>2, <3>3 DEF FileInv
  <2>3. QED BY <1>2, <2>1, <2>2
<1>3. QED BY <1>1, <1>2, PTL DEF Spec

\* Programs see files and positions: whatever the file system, the number of
\* descriptors and of files, the sizes of sectors, words and headers and where
\* the partition begins, vfs.g over ramfs.g, initfd and diskfs.g implements
\* FileSpec.  What is read is the byte at the position of the file that was
\* opened; what is written goes to that position, and nowhere else.
THEOREM FilesAreImplemented == Spec => ImplementsFiles
<1>1. Init => Abstract!Init
  <2>1. Abstract!Init = (AbsFds = [d \in {} |-> 0] /\ out = 0)
    BY Zenon DEF Abstract!Init, AbsFds
  <2>2. ASSUME Init PROVE AbsFds = [d \in {} |-> 0] /\ out = 0
    BY <2>2 DEF Init, AbsFds, Used, Ram!Init, InitFiles!Init, Disk!Init
  <2>3. QED BY <2>1, <2>2
<1>2. FileInv /\ FileInv' /\ [Next]_vars => Abstract!Next \/ UNCHANGED AbsVars
  BY StepImplements DEF FileInv
<1>3. UNCHANGED AbsVars => UNCHANGED <<[p \in AllPaths |-> Content(p)], [d \in Used |-> OpenFile(d)], out>>
  BY Zenon DEF AbsVars, AbsContent, AbsFds
<1>4. QED BY <1>1, <1>2, <1>3, FileAlways, PTL DEF Spec, ImplementsFiles, Abstract!Spec

----------------------------------------------------------------------------
(* The host strips zeros *)

Text == Seq(Nat \ {0})
SectorBytes == {s \in Seq(Nat) : Len(s) = SECT}

\* Joins is the same in DebugFs.
LEMMA SamePrefixesDebug ==
  \A parts : Debug!Joins(parts) = Joins(parts)
BY Zenon DEF Debug!Joins, Joins

\* Texts, one after another and byte by byte.
LEMMA Texts1 ==
  /\ <<>> \in Text /\ Len(<<>>) = 0 /\ \A x \in Nat \ {0} : <<x>> \in Text
  /\ \A t \in Text : t \o <<>> = t /\ Len(t) \in Nat
  /\ \A t \in Text : t # <<>> => Len(t) >= 1
  /\ \A t, u \in Text : t \o u \in Text
BY ConcatEmptySeq DEF Text

\* What the host sees of a sector, byte by byte.
LEMMA StrippedSteps ==
  ASSUME NEW s \in Seq(Nat)
  PROVE  \E C : /\ C \in [0 .. Len(s) -> Text] /\ C[0] = <<>> /\ Debug!Stripped(s) = C[Len(s)]
                /\ \A k \in 1 .. Len(s) : C[k] = IF s[k] = 0 THEN C[k - 1] ELSE C[k - 1] \o <<s[k]>>
<1> DEFINE parts == [i \in DOMAIN s |-> IF s[i] = 0 THEN <<>> ELSE <<s[i]>>]
           C == Joins(parts)
           n == Len(s)
<1>1. n \in Nat /\ DOMAIN s = 1 .. n /\ \A i \in 1 .. n : s[i] \in Nat
  BY LenProperties, ElementOfSeq
<1>2. Debug!Stripped(s) = C[n]
  BY SamePrefixesDebug DEF Debug!Stripped
<1>3. \A i \in 1 .. n : (IF s[i] = 0 THEN <<>> ELSE <<s[i]>>) \in Text
  BY <1>1, Texts1
<1>4. parts \in Seq(Text) /\ Len(parts) = n /\ \A i \in 1 .. n : parts[i] = IF s[i] = 0 THEN <<>> ELSE <<s[i]>>
  BY <1>1, <1>3
<1> HIDE DEF parts, n
<1>5. /\ C \in [0 .. n -> Text] /\ C[0] = <<>> /\ \A k \in 1 .. n : C[k] = C[k - 1] \o parts[k]
  <2>1. parts \in Seq(Seq(Nat \ {0}))
    BY <1>4 DEF Text
  <2>2. QED BY <1>4, <2>1, JoinsDef DEF Text
<1> HIDE DEF C
<1>6. ASSUME NEW k \in 1 .. n PROVE C[k] = IF s[k] = 0 THEN C[k - 1] ELSE C[k - 1] \o <<s[k]>>
  <2>1. k - 1 \in 0 .. n
    BY <1>1
  <2>2. PICK t : t = C[k - 1]
    OBVIOUS
  <2>3. t \in Text
    BY <1>5, <2>1, <2>2
  <2>4. C[k] = t \o parts[k] /\ parts[k] = IF s[k] = 0 THEN <<>> ELSE <<s[k]>>
    BY <1>4, <1>5, <2>2
  <2>5. t \o <<>> = t
    BY <2>3, Texts1
  <2>6. QED BY <2>2, <2>4, <2>5
<1>7. QED BY <1>2, <1>5, <1>6 DEF n

\* What is stripped has no zeros.
LEMMA StrippedText ==
  ASSUME NEW s \in Seq(Nat)
  PROVE  Debug!Stripped(s) \in Text
<1>1. Len(s) \in 0 .. Len(s)
  BY LenProperties
<1>2. PICK C : C \in [0 .. Len(s) -> Text] /\ Debug!Stripped(s) = C[Len(s)]
  BY StrippedSteps
<1>3. QED BY <1>1, <1>2

\* Stripping gives back what was padded to a sector.
LEMMA PaddedStripped ==
  ASSUME NEW b \in Text, Len(b) <= SECT
  PROVE  Debug!Padded(b) \in SectorBytes /\ Debug!Stripped(Debug!Padded(b)) = b
<1> DEFINE F == [i \in 1 .. SECT |-> IF i <= Len(b) THEN b[i] ELSE 0]
<1>1. PICK l : l = Len(b)
  OBVIOUS
<1>2. PICK s : s = F
  OBVIOUS
<1>3. SECT \in Nat /\ l \in Nat /\ l <= SECT /\ \A r \in 1 .. l : b[r] \in Nat \ {0}
  BY <1>1, DiskConstants, LenProperties, ElementOfSeq DEF Text
<1>4. s \in Seq(Nat) /\ Len(s) = SECT /\ \A i \in 1 .. SECT : s[i] = IF i <= l THEN b[i] ELSE 0
  <2>1. s = [i \in 1 .. SECT |-> IF i <= l THEN b[i] ELSE 0]
    BY <1>1, <1>2
  <2>2. \A i \in 1 .. SECT : (IF i <= l THEN b[i] ELSE 0) \in Nat
    <3>1. \A i \in 1 .. SECT : i <= l => i \in 1 .. l
      BY <1>3
    <3>2. QED BY <1>3, <3>1
  <2>3. QED BY <1>3, <2>1, <2>2
<1>5. PICK C : /\ C \in [0 .. SECT -> Text] /\ C[0] = <<>> /\ Debug!Stripped(s) = C[SECT]
               /\ \A k \in 1 .. SECT : C[k] = IF s[k] = 0 THEN C[k - 1] ELSE C[k - 1] \o <<s[k]>>
  BY <1>4, StrippedSteps
<1> DEFINE T == {k \in Nat : k <= SECT => /\ Len(C[k]) = IF k <= l THEN k ELSE l
                                          /\ \A r \in 1 .. Len(C[k]) : C[k][r] = b[r]}
<1>6. 0 \in T
  BY <1>3, <1>5, Texts1
<1>7. ASSUME NEW k \in Nat, k \in T PROVE k + 1 \in T
  <2>1. SUFFICES ASSUME k + 1 <= SECT
                 PROVE  /\ Len(C[k + 1]) = IF k + 1 <= l THEN k + 1 ELSE l
                        /\ \A r \in 1 .. Len(C[k + 1]) : C[k + 1][r] = b[r]
    OBVIOUS
  <2>2. /\ k + 1 \in 1 .. SECT /\ (k + 1) - 1 = k /\ k \in 0 .. SECT /\ k <= SECT
    BY <1>3, <2>1
  <2>3. C[k + 1] = (IF s[k + 1] = 0 THEN C[k] ELSE C[k] \o <<s[k + 1]>>) /\ C[k] \in Text
    BY <1>5, <2>2
  <2>4. Len(C[k]) = (IF k <= l THEN k ELSE l) /\ \A r \in 1 .. Len(C[k]) : C[k][r] = b[r]
    BY <1>7, <2>2
  <2>5. CASE k + 1 <= l
    <3>1. k + 1 \in 1 .. l /\ k <= l
      BY <2>5, <1>3
    <3>2. s[k + 1] = b[k + 1] /\ b[k + 1] \in Nat \ {0} /\ Len(C[k]) = k
      BY <1>3, <1>4, <2>2, <2>4, <2>5, <3>1
    <3>3. PICK t, x : t = C[k] /\ x = b[k + 1]
      OBVIOUS
    <3>4. t \in Seq(Nat \ {0}) /\ x \in Nat \ {0} /\ Len(t) = k /\ C[k + 1] = t \o <<x>>
      BY <2>3, <3>2, <3>3 DEF Text
    <3>5. Len(t \o <<x>>) = k + 1 /\ (t \o <<x>>)[k + 1] = x /\ \A r \in 1 .. k : (t \o <<x>>)[r] = t[r]
      BY <3>4
    <3>6. \A r \in 1 .. k + 1 : r \in 1 .. k \/ r = k + 1
      OBVIOUS
    <3>7. \A r \in 1 .. k : t[r] = b[r]
      BY <2>4, <3>2, <3>3
    <3>8. QED BY <2>5, <3>3, <3>4, <3>5, <3>6, <3>7
  <2>6. CASE ~ (k + 1 <= l)
    <3>1. s[k + 1] = 0
      BY <1>4, <2>2, <2>6
    <3>2. C[k + 1] = C[k]
      BY <2>3, <3>1
    <3>3. (IF k <= l THEN k ELSE l) = l
      BY <1>3, <2>6
    <3>4. QED BY <2>4, <2>6, <3>2, <3>3
  <2>7. QED BY <2>5, <2>6
<1>8. \A k \in Nat : k \in T
  <2> HIDE DEF T
  <2> QED BY <1>6, <1>7, SetInduction
<1>9. Len(C[SECT]) = l /\ (\A r \in 1 .. Len(C[SECT]) : C[SECT][r] = b[r]) /\ C[SECT] \in Text
  <2>1. SECT \in T /\ SECT \in 0 .. SECT
    BY <1>3, <1>8
  <2>2. (IF SECT <= l THEN SECT ELSE l) = l
    BY <1>3
  <2>3. QED BY <1>3, <1>5, <2>1, <2>2
<1>10. C[SECT] = b
  <2>1. PICK t : t = C[SECT]
    OBVIOUS
  <2>2. t \in Seq(Nat \ {0}) /\ b \in Seq(Nat \ {0}) /\ Len(t) = Len(b) /\ \A r \in 1 .. Len(t) : t[r] = b[r]
    BY <1>1, <1>9, <2>1 DEF Text
  <2>3. t = b
    BY <2>2, SeqEqual
  <2>4. QED BY <2>1, <2>3
<1>11. QED BY <1>2, <1>4, <1>5, <1>10 DEF Debug!Padded, SectorBytes

----------------------------------------------------------------------------
(* The script that extracts the files *)

CopiedFile == [name : Text, body : Text]
Reader == [found : Seq(CopiedFile), name : Text, body : Text, done : BOOLEAN]
DiskSectors == [1 .. SIZE - 1 -> SectorBytes]
Start == Debug!Reading(<<>>, <<>>, <<>>, FALSE)

\* What a sector does to the script.
LEMMA SectorCases ==
  ASSUME NEW r \in Reader, NEW s \in SectorBytes
  PROVE  /\ Debug!Sector(r, s) \in Reader /\ Debug!Stripped(s) \in Text
         /\ r.done => Debug!Sector(r, s) = r
         /\ ~ r.done /\ r.name = <<>> =>
              Debug!Sector(r, s) = Debug!Reading(r.found, Debug!Stripped(s), <<>>, Debug!Stripped(s) = <<>>)
         /\ ~ r.done /\ r.name # <<>> /\ s = Debug!Zeros =>
              Debug!Sector(r, s)
              = Debug!Reading(Append(r.found, [name |-> r.name, body |-> r.body]), <<>>, <<>>, FALSE)
         /\ ~ r.done /\ r.name # <<>> /\ s # Debug!Zeros =>
              Debug!Sector(r, s) = Debug!Reading(r.found, r.name, r.body \o Debug!Stripped(s), FALSE)
<1>1. PICK t : t = Debug!Stripped(s)
  OBVIOUS
<1>2. t \in Text
  BY <1>1, StrippedText DEF SectorBytes
<1>3. /\ r.found \in Seq(CopiedFile) /\ r.name \in Text /\ r.body \in Text /\ r.done \in BOOLEAN
      /\ r = [found |-> r.found, name |-> r.name, body |-> r.body, done |-> r.done]
  BY DEF Reader
<1>4. \A f \in Seq(CopiedFile), n, b \in Text, d \in BOOLEAN : Debug!Reading(f, n, b, d) \in Reader
  BY DEF Reader, Debug!Reading
<1>5. CASE r.done
  <2>1. Debug!Sector(r, s) = r
    BY <1>5 DEF Debug!Sector
  <2>2. QED BY <1>1, <1>2, <1>5, <2>1
<1>6. CASE ~ r.done /\ r.name = <<>>
  <2>1. Debug!Sector(r, s) = Debug!Reading(r.found, t, <<>>, t = <<>>)
    BY <1>1, <1>6 DEF Debug!Sector
  <2>2. (t = <<>>) \in BOOLEAN /\ <<>> \in Text
    BY Texts1
  <2>3. Debug!Reading(r.found, t, <<>>, t = <<>>) \in Reader
    BY <1>2, <1>3, <1>4, <2>2
  <2>4. QED BY <1>1, <1>2, <1>6, <2>1, <2>3
<1>7. CASE ~ r.done /\ r.name # <<>> /\ s = Debug!Zeros
  <2> DEFINE f == [name |-> r.name, body |-> r.body]
  <2>1. Debug!Sector(r, s) = Debug!Reading(Append(r.found, f), <<>>, <<>>, FALSE)
    BY <1>7 DEF Debug!Sector
  <2>2. f \in CopiedFile
    BY <1>3 DEF CopiedFile
  <2> HIDE DEF f
  <2>3. Append(r.found, f) \in Seq(CopiedFile) /\ <<>> \in Text
    BY <1>3, <2>2, Texts1
  <2>4. Debug!Reading(Append(r.found, f), <<>>, <<>>, FALSE) \in Reader
    BY <1>4, <2>3
  <2>5. QED BY <1>1, <1>2, <1>7, <2>1, <2>4 DEF f
<1>8. CASE ~ r.done /\ r.name # <<>> /\ s # Debug!Zeros
  <2>1. Debug!Sector(r, s) = Debug!Reading(r.found, r.name, r.body \o t, FALSE)
    BY <1>1, <1>8 DEF Debug!Sector
  <2>3. r.body \o t \in Text
    BY <1>2, <1>3, Texts1
  <2>4. Debug!Reading(r.found, r.name, r.body \o t, FALSE) \in Reader
    BY <1>3, <1>4, <2>3
  <2>5. QED BY <1>1, <1>2, <1>8, <2>1, <2>4
<1>9. QED BY <1>5, <1>6, <1>7, <1>8

\* The files it has found, and the name of the one that it reads.
LEMMA SectorFound ==
  ASSUME NEW r \in Reader, NEW s \in SectorBytes
  PROVE  LET q == Debug!Sector(r, s)
         IN  /\ r.done => q.done /\ q.found = r.found
             /\ ~ r.done /\ r.name = <<>> =>
                  q.found = r.found /\ q.name = Debug!Stripped(s) /\ (q.done <=> Debug!Stripped(s) = <<>>)
             /\ ~ r.done /\ r.name # <<>> /\ s = Debug!Zeros =>
                  q.found = Append(r.found, [name |-> r.name, body |-> r.body]) /\ q.name = <<>>
             /\ ~ r.done /\ r.name # <<>> /\ s # Debug!Zeros => q.found = r.found
<1>2. CASE r.done
  BY <1>2, SectorCases
<1>3. CASE ~ r.done /\ r.name = <<>>
  <2>1. PICK e : e = (Debug!Stripped(s) = <<>>)
    OBVIOUS
  <2>2. Debug!Sector(r, s) = Debug!Reading(r.found, Debug!Stripped(s), <<>>, e)
    BY <1>3, <2>1, SectorCases
  <2>3. /\ Debug!Sector(r, s).found = r.found /\ Debug!Sector(r, s).name = Debug!Stripped(s)
        /\ Debug!Sector(r, s).done = e
    BY <2>2 DEF Debug!Reading
  <2>4. Debug!Sector(r, s).done <=> Debug!Stripped(s) = <<>>
    BY <2>1, <2>3, Zenon
  <2>5. QED BY <1>3, <2>3, <2>4, Zenon
<1>4. CASE ~ r.done /\ r.name # <<>> /\ s = Debug!Zeros
  <2>1. Debug!Sector(r, s)
        = Debug!Reading(Append(r.found, [name |-> r.name, body |-> r.body]), <<>>, <<>>, FALSE)
    BY <1>4, SectorCases
  <2>2. /\ Debug!Sector(r, s).found = Append(r.found, [name |-> r.name, body |-> r.body])
        /\ Debug!Sector(r, s).name = <<>>
    BY <2>1 DEF Debug!Reading
  <2>3. QED BY <1>4, <2>2, Zenon
<1>5. CASE ~ r.done /\ r.name # <<>> /\ s # Debug!Zeros
  <2>1. Debug!Sector(r, s) = Debug!Reading(r.found, r.name, r.body \o Debug!Stripped(s), FALSE)
    BY <1>5, SectorCases
  <2>2. Debug!Sector(r, s).found = r.found
    BY <2>1 DEF Debug!Reading
  <2>3. QED BY <1>5, <2>2, Zenon
<1>6. QED BY <1>2, <1>3, <1>4, <1>5, Zenon

\* The script reads one sector after another.
LEMMA ExtractingDef ==
  ASSUME NEW D \in DiskSectors
  PROVE  LET X == Debug!extracting(D)
         IN  /\ X \in [0 .. SIZE - 1 -> Reader] /\ X[0] = Start
             /\ \A k \in 1 .. SIZE - 1 : X[k] = Debug!Sector(X[k - 1], D[k])
<1>1. PICK n : n = SIZE - 1
  OBVIOUS
<1> DEFINE step == [k \in 1 .. n |-> [x \in Reader |-> Debug!Sector(x, D[k])]]
           Body(f) == [k \in 0 .. n |-> IF k = 0 THEN Start ELSE Debug!Sector(f[k - 1], D[k])]
           g == Debug!extracting(D)
<1>2. n \in Nat /\ D \in [1 .. n -> SectorBytes]
  BY <1>1, DebugConstants DEF DiskSectors
<1>3. Start \in Reader
  BY Texts1 DEF Start, Reader, Debug!Reading
<1>4. \A k \in 1 .. n : \A x \in Reader : Debug!Sector(x, D[k]) \in Reader
  BY <1>2, SectorCases
<1>5. step \in [1 .. n -> [Reader -> Reader]] /\ \A k \in 1 .. n : \A x \in Reader : step[k][x] = Debug!Sector(x, D[k])
  BY <1>4
<1>6. IsStep(n, Reader, Start, step)
  BY <1>2, <1>3, <1>5 DEF IsStep
<1> HIDE DEF step
<1>7. PICK f : Computes(f, n, Reader, Start, step)
  BY <1>6, RecursiveFunction
<1>8. f = Body(f)
  <2>1. f = [k \in 0 .. n |-> f[k]] /\ f[0] = Start
    BY <1>7 DEF Computes
  <2>2. ASSUME NEW k \in 0 .. n, k # 0 PROVE f[k] = Debug!Sector(f[k - 1], D[k])
    <3>1. k \in 1 .. n /\ k - 1 \in 0 .. n
      BY <1>2, <2>2
    <3>2. f[k - 1] \in Reader /\ f[k] = step[k][f[k - 1]]
      BY <1>7, <3>1 DEF Computes
    <3>3. QED BY <1>5, <3>1, <3>2
  <2>3. QED BY <2>1, <2>2, Zenon
<1>9. g = Body(g)
  BY <1>1, <1>8, Zenon DEF Debug!extracting, Start
<1> HIDE DEF g
<1>10. /\ g = [k \in 0 .. n |-> g[k]] /\ g[0] = Start
       /\ \A k \in 1 .. n : g[k] = Debug!Sector(g[k - 1], D[k])
  <2>1. \A k \in 0 .. n : g[k] = IF k = 0 THEN Start ELSE Debug!Sector(g[k - 1], D[k])
    BY <1>9, Zenon
  <2>2. g = [k \in 0 .. n |-> g[k]]
    BY <1>9, <2>1, Zenon
  <2>3. (\A k \in 1 .. n : k \in 0 .. n /\ k # 0) /\ 0 \in 0 .. n
    BY <1>2
  <2>4. \A k \in 1 .. n : g[k] = Debug!Sector(g[k - 1], D[k])
    BY <2>1, <2>3, Zenon
  <2>5. QED BY <2>1, <2>2, <2>3, <2>4, Zenon
<1>11. Computes(g, n, Reader, Start, step)
  <2>1. \A k \in 1 .. n : g[k - 1] \in Reader => g[k] = step[k][g[k - 1]]
    BY <1>5, <1>10
  <2>2. Follows(g, n, Reader, Start, step)
    BY <1>10, <2>1 DEF Follows
  <2>3. QED BY <1>6, <2>2, RecursiveFunctionType
<1>12. QED BY <1>1, <1>10, <1>11 DEF Computes, g

\* A sector of zeros, which has no byte that is not zero.
LEMMA ZeroSector ==
  Debug!Zeros \in SectorBytes /\ Debug!Stripped(Debug!Zeros) = <<>>
<1>1. PICK b : b = <<>>
  OBVIOUS
<1>2. b \in Text /\ Len(b) = 0 /\ SECT \in Nat
  BY <1>1, Texts1, DiskConstants
<1>3. Debug!Padded(b) = Debug!Zeros
  <2>1. \A i \in 1 .. SECT : ~ (i <= 0)
    BY <1>2
  <2>2. QED BY <1>2, <2>1 DEF Debug!Padded, Debug!Zeros
<1>4. QED BY <1>1, <1>2, <1>3, PaddedStripped

\* Writing a sector changes what the script sees from there on.
LEMMA OneSector ==
  ASSUME NEW D \in DiskSectors, NEW p \in 1 .. SIZE - 1, NEW s \in SectorBytes, NEW E, E = [D EXCEPT ![p] = s]
  PROVE  /\ E \in DiskSectors
         /\ Debug!extracting(E)[p] = Debug!Sector(Debug!extracting(D)[p - 1], s)
<1>1. PICK n, x, y : n = SIZE - 1 /\ x = Debug!extracting(D) /\ y = Debug!extracting(E)
  OBVIOUS
<1>2. E \in DiskSectors /\ n \in Nat /\ E[p] = s /\ \A k \in 1 .. n : k # p => E[k] = D[k]
  BY <1>1, DebugConstants DEF DiskSectors
<1>3. x[0] = Start /\ \A k \in 1 .. n : x[k] = Debug!Sector(x[k - 1], D[k])
  BY <1>1, ExtractingDef
<1>4. y[0] = Start /\ \A k \in 1 .. n : y[k] = Debug!Sector(y[k - 1], E[k])
  BY <1>1, <1>2, ExtractingDef
<1> DEFINE T == {k \in Nat : k < p => y[k] = x[k]}
<1>5. 0 \in T
  BY <1>3, <1>4
<1>6. ASSUME NEW k \in Nat, k \in T PROVE k + 1 \in T
  <2>1. SUFFICES ASSUME k + 1 < p PROVE y[k + 1] = x[k + 1]
    OBVIOUS
  <2>2. k + 1 \in 1 .. n /\ k + 1 # p /\ (k + 1) - 1 = k /\ y[k] = x[k]
    BY <1>1, <1>2, <1>6, <2>1
  <2>3. QED BY <1>2, <1>3, <1>4, <2>2
<1>7. \A k \in Nat : k \in T
  <2> HIDE DEF T
  <2> QED BY <1>5, <1>6, SetInduction
<1>8. \A k \in 0 .. p - 1 : y[k] = x[k]
  BY <1>7
<1>9. y[p] = Debug!Sector(x[p - 1], s)
  <2>1. p \in 1 .. n /\ p - 1 \in 0 .. p - 1
    BY <1>1
  <2>2. QED BY <1>2, <1>4, <1>8, <2>1
<1>10. QED BY <1>1, <1>2, <1>9

BeginsWith(b, a) == Len(a) <= Len(b) /\ \A i \in 1 .. Len(a) : b[i] = a[i]

\* The files that the script has found stay, whatever follows on the disk.
LEMMA FoundStays ==
  ASSUME NEW D \in DiskSectors, NEW j \in 0 .. SIZE - 1
  PROVE  LET X == Debug!extracting(D)
         IN  X[j] \in Reader /\ X[SIZE - 1] \in Reader /\ BeginsWith(X[SIZE - 1].found, X[j].found)
<1>1. PICK n, x : n = SIZE - 1 /\ x = Debug!extracting(D)
  OBVIOUS
<1>2. /\ x \in [0 .. n -> Reader] /\ \A k \in 1 .. n : x[k] = Debug!Sector(x[k - 1], D[k])
      /\ n \in Nat /\ j \in 0 .. n /\ \A k \in 1 .. n : D[k] \in SectorBytes
  <2>1. n \in Nat /\ j \in 0 .. n
    BY <1>1, DebugConstants
  <2>2. \A k \in 1 .. n : D[k] \in SectorBytes
    BY <1>1 DEF DiskSectors
  <2>3. QED BY <1>1, <2>1, <2>2, ExtractingDef
<1>3. ASSUME NEW r \in Reader, NEW s \in SectorBytes PROVE BeginsWith(Debug!Sector(r, s).found, r.found)
  <2>2. \/ Debug!Sector(r, s).found = r.found
        \/ Debug!Sector(r, s).found = Append(r.found, [name |-> r.name, body |-> r.body])
    BY SectorFound, Zenon
  <2>3. PICK f, g : f = r.found /\ g = [name |-> r.name, body |-> r.body]
    OBVIOUS
  <2>4. f \in Seq(CopiedFile) /\ g \in CopiedFile
    BY <2>3 DEF Reader, CopiedFile
  <2>5. BeginsWith(f, f) /\ BeginsWith(Append(f, g), f)
    <3>1. /\ Len(f) \in Nat /\ Len(Append(f, g)) = Len(f) + 1
          /\ \A i \in 1 .. Len(f) : Append(f, g)[i] = f[i]
      BY <2>4, AppendProperties
    <3>2. QED BY <3>1 DEF BeginsWith
  <2>6. QED BY <2>2, <2>3, <2>5
<1>4. ASSUME NEW a \in Reader, NEW b \in Reader, NEW c \in Reader,
             BeginsWith(b.found, a.found), BeginsWith(c.found, b.found)
      PROVE  BeginsWith(c.found, a.found)
  <2>1. Len(a.found) \in Nat /\ Len(b.found) \in Nat /\ Len(c.found) \in Nat
    BY LenProperties DEF Reader
  <2>2. \A i \in 1 .. Len(a.found) : i \in 1 .. Len(b.found)
    BY <1>4, <2>1 DEF BeginsWith
  <2>3. QED BY <1>4, <2>1, <2>2 DEF BeginsWith
<1> DEFINE T == {m \in Nat : j + m <= n => BeginsWith(x[j + m].found, x[j].found)}
<1>5. 0 \in T
  <2>1. Len(x[j].found) \in Nat /\ j + 0 = j
    BY <1>2, LenProperties DEF Reader
  <2>2. BeginsWith(x[j].found, x[j].found)
    BY <2>1 DEF BeginsWith
  <2>3. QED BY <2>1, <2>2
<1>6. ASSUME NEW m \in Nat, m \in T PROVE m + 1 \in T
  <2>1. SUFFICES ASSUME j + (m + 1) <= n PROVE BeginsWith(x[j + (m + 1)].found, x[j].found)
    OBVIOUS
  <2>2. PICK k : k = j + (m + 1)
    OBVIOUS
  <2>3. k \in 1 .. n /\ k - 1 = j + m /\ j + m <= n /\ k - 1 \in 0 .. n /\ k \in 0 .. n
    BY <1>2, <2>1, <2>2
  <2>4. BeginsWith(x[k - 1].found, x[j].found)
    BY <1>6, <2>3
  <2>5. x[k] = Debug!Sector(x[k - 1], D[k]) /\ x[k] \in Reader /\ x[k - 1] \in Reader /\ x[j] \in Reader
    BY <1>2, <2>3
  <2>6. BeginsWith(x[k].found, x[k - 1].found)
    BY <1>2, <1>3, <2>3, <2>5
  <2>7. QED BY <1>4, <2>2, <2>4, <2>5, <2>6
<1>7. \A m \in Nat : m \in T
  <2> HIDE DEF T
  <2> QED BY <1>5, <1>6, SetInduction
<1>8. n - j \in T /\ j + (n - j) = n /\ n - j \in Nat
  <2> HIDE DEF T
  <2> QED BY <1>2, <1>7
<1>9. QED BY <1>1, <1>2, <1>8

\* On a disk that is blank after a sector, the script finds nothing more but the
\* file it was in.
LEMMA BlankRest ==
  ASSUME NEW D \in DiskSectors, NEW p \in 0 .. SIZE - 1, \A k \in p + 1 .. SIZE - 1 : D[k] = Debug!Zeros
  PROVE  LET X == Debug!extracting(D)
             r == X[p]
         IN  /\ r.done \/ r.name = <<>> => X[SIZE - 1].found = r.found
             /\ X[SIZE - 1].found \in {r.found, Append(r.found, [name |-> r.name, body |-> r.body])}
<1>1. PICK n, x : n = SIZE - 1 /\ x = Debug!extracting(D)
  OBVIOUS
<1>2. /\ x \in [0 .. n -> Reader] /\ \A k \in 1 .. n : x[k] = Debug!Sector(x[k - 1], D[k])
      /\ n \in Nat /\ p \in 0 .. n /\ \A k \in p + 1 .. n : D[k] = Debug!Zeros
  <2>1. n \in Nat
    BY <1>1, DebugConstants
  <2>2. x \in [0 .. n -> Reader] /\ \A k \in 1 .. n : x[k] = Debug!Sector(x[k - 1], D[k])
    BY <1>1, ExtractingDef
  <2>3. p \in 0 .. n /\ \A k \in p + 1 .. n : D[k] = Debug!Zeros
    BY <1>1
  <2>4. QED BY <2>1, <2>2, <2>3
<1> DEFINE Resting(r) == r.done \/ r.name = <<>>
           Z(r) == Debug!Sector(r, Debug!Zeros)
<1>3. ASSUME NEW r \in Reader
      PROVE  /\ Resting(r) => Resting(Z(r)) /\ Z(r).found = r.found
             /\ ~ Resting(r) => Resting(Z(r)) /\ Z(r).found = Append(r.found, [name |-> r.name, body |-> r.body])
  BY ZeroSector, SectorFound, Zenon
<1>4. ASSUME NEW q \in p .. n, Resting(x[q]) PROVE x[n].found = x[q].found
  <2> DEFINE T == {m \in Nat : q + m <= n => Resting(x[q + m]) /\ x[q + m].found = x[q].found}
  <2>1. 0 \in T
    <3>1. q + 0 = q
      OBVIOUS
    <3>2. QED BY <1>4, <3>1
  <2>2. ASSUME NEW m \in Nat, m \in T PROVE m + 1 \in T
    <3>1. SUFFICES ASSUME q + (m + 1) <= n PROVE Resting(x[q + (m + 1)]) /\ x[q + (m + 1)].found = x[q].found
      OBVIOUS
    <3>2. PICK k : k = q + (m + 1)
      OBVIOUS
    <3>3. k \in 1 .. n /\ k \in p + 1 .. n /\ k - 1 = q + m /\ q + m <= n /\ k - 1 \in 0 .. n
      BY <1>2, <3>1, <3>2
    <3>4. Resting(x[k - 1]) /\ x[k - 1].found = x[q].found
      BY <2>2, <3>3
    <3>5. PICK r : r = x[k - 1]
      OBVIOUS
    <3>6. x[k] = Z(r) /\ r \in Reader
      BY <1>2, <3>3, <3>5
    <3> HIDE DEF Resting, Z
    <3>7. QED BY <1>3, <3>2, <3>4, <3>5, <3>6
  <2>3. \A m \in Nat : m \in T
    <3> HIDE DEF T
    <3> QED BY <2>1, <2>2, SetInduction
  <2>4. q + (n - q) = n /\ n - q \in Nat
    BY <1>2
  <2>5. n - q \in T
    <3> HIDE DEF T
    <3> QED BY <2>3, <2>4
  <2>6. QED BY <2>4, <2>5
<1>5. CASE Resting(x[p])
  BY <1>1, <1>2, <1>4, <1>5
<1>6. CASE ~ Resting(x[p]) /\ p = n
  BY <1>1, <1>6
<1>7. CASE ~ Resting(x[p]) /\ p # n
  <2>1. p + 1 \in 1 .. n /\ p + 1 \in p + 1 .. n /\ p + 1 \in p .. n /\ (p + 1) - 1 = p /\ x[p] \in Reader
    BY <1>2, <1>7
  <2>2. PICK r : r = x[p]
    OBVIOUS
  <2>3. x[p + 1] = Z(r) /\ r \in Reader
    BY <1>2, <2>1, <2>2
  <2> HIDE DEF Resting, Z
  <2>4. Resting(x[p + 1]) /\ x[p + 1].found = Append(r.found, [name |-> r.name, body |-> r.body])
    BY <1>3, <1>7, <2>2, <2>3
  <2>5. x[n].found = x[p + 1].found
    BY <1>4, <2>1, <2>4
  <2>6. QED BY <1>1, <1>7, <2>2, <2>4, <2>5 DEF Resting
<1>8. QED BY <1>5, <1>6, <1>7

----------------------------------------------------------------------------
(* What the script sees of the disk while files are copied *)

Seen == Debug!extracting(sectors)[pos - 1]

DebugBase ==
  /\ sectors \in DiskSectors /\ pos \in 1 .. SIZE /\ copied \in Seq(CopiedFile) /\ Seen.found = copied
  /\ boots = 1 => \A k \in pos .. SIZE - 1 : sectors[k] = Debug!Zeros
  /\ debugpanic => pos = SIZE

\* No file is open; or the script is in the file that is being written, of which
\* the disk has all but what is in the buffer.
Between == buf = Debug!NoBuf /\ ~ ending /\ Seen = Debug!Reading(copied, <<>>, <<>>, FALSE)
Within ==
  /\ buf \in Text /\ Len(buf) < SECT /\ (ending => buf = <<>>)
  /\ current \in CopiedFile /\ current.name # <<>>
  /\ \E flushed \in Text :
       /\ Seen = Debug!Reading(copied, current.name, flushed, FALSE)
       /\ current.body = flushed \o buf
DebugInv == DebugBase /\ (~ debugpanic => Between \/ Within)

\* An open file has a buffer.
LEMMA OpenOrNot ==
  /\ Between => buf = Debug!NoBuf
  /\ Within => buf # Debug!NoBuf
<1>1. Debug!NoBuf[1] \notin Nat \ {0} /\ Len(Debug!NoBuf) = 1
  BY DEF Debug!NoBuf
<1>2. \A t \in Text : Len(t) = 1 => t[1] \in Nat \ {0}
  BY DEF Text
<1>3. QED BY <1>1, <1>2 DEF Between, Within

\* Bytes that are padded to a sector are not a sector of zeros.
LEMMA PaddedNotZeros ==
  ASSUME NEW b \in Text, b # <<>>
  PROVE  Debug!Padded(b) # Debug!Zeros
<1>1. Len(b) >= 1 /\ b[1] # 0 /\ SECT \in Nat \ {0, 1} /\ Len(b) \in Nat
  <2>1. Len(b) >= 1 /\ Len(b) \in Nat
    BY Texts1
  <2>2. QED BY <2>1, DiskConstants DEF Text
<1>2. 1 \in 1 .. SECT
  BY <1>1
<1>3. Debug!Padded(b)[1] = b[1] /\ Debug!Zeros[1] = 0
  BY <1>1, <1>2 DEF Debug!Padded, Debug!Zeros
<1>4. QED BY <1>1, <1>3

\* Appending to a sequence, after another.
LEMMA AppendLater ==
  ASSUME NEW s \in Text, NEW t \in Text, NEW c \in Nat \ {0}
  PROVE  /\ Append(t, c) \in Text /\ Append(t, c) # <<>> /\ Len(Append(t, c)) = Len(t) + 1
         /\ Append(s \o t, c) = s \o Append(t, c)
<1>1. /\ s \in Seq(Nat \ {0}) /\ t \in Seq(Nat \ {0}) /\ Append(t, c) \in Seq(Nat \ {0}) /\ Len(Append(t, c)) = Len(t) + 1
      /\ s \o t \in Seq(Nat \ {0}) /\ Append(s \o t, c) \in Seq(Nat \ {0}) /\ s \o Append(t, c) \in Seq(Nat \ {0})
  BY DEF Text
<1>2. Append(t, c) # <<>>
  <2>1. Len(t) \in Nat /\ Len(<<>>) = 0
    BY <1>1
  <2>2. QED BY <1>1, <2>1
<1>3. Append(s \o t, c) = s \o Append(t, c)
  <2>1. PICK u, v, w : u = s \o t /\ v = Append(u, c) /\ w = s \o Append(t, c)
    OBVIOUS
  <2>2. Len(v) = Len(w) /\ v \in Seq(Nat \ {0}) /\ w \in Seq(Nat \ {0})
    BY <1>1, <2>1
  <2>3. ASSUME NEW i \in 1 .. Len(v) PROVE v[i] = w[i]
    BY <1>1, <2>1, <2>3
  <2>4. QED BY <2>1, <2>2, <2>3, SeqEqual
<1>4. QED BY <1>1, <1>2, <1>3 DEF Text

\* A sector is written, or the partition is full.
LEMMA SectorWritten ==
  ASSUME DebugBase, NEW s \in SectorBytes, Debug!WriteSector(s), boots' = boots
  PROVE  /\ pos = SIZE => debugpanic' /\ sectors' = sectors /\ pos' = pos
         /\ pos # SIZE =>
              /\ ~ debugpanic' /\ sectors' \in DiskSectors /\ pos' \in 1 .. SIZE
              /\ Debug!extracting(sectors')[pos' - 1] = Debug!Sector(Seen, s) /\ Seen \in Reader
              /\ boots' = 1 => \A k \in pos' .. SIZE - 1 : sectors'[k] = Debug!Zeros
<1>1. debugpanic' = (pos = SIZE) /\ IF pos = SIZE THEN sectors' = sectors /\ pos' = pos
                                    ELSE sectors' = [sectors EXCEPT ![pos] = s] /\ pos' = pos + 1
  BY DEF Debug!WriteSector
<1>2. CASE pos = SIZE
  BY <1>1, <1>2
<1>3. CASE pos # SIZE
  <2>1. PICK D, E, p : D = sectors /\ E = sectors' /\ p = pos
    OBVIOUS
  <2>2. /\ D \in DiskSectors /\ p \in 1 .. SIZE - 1 /\ E = [D EXCEPT ![p] = s] /\ pos' = p + 1
        /\ boots' = 1 => \A k \in p .. SIZE - 1 : D[k] = Debug!Zeros
    BY <1>1, <1>3, <2>1, DebugConstants DEF DebugBase
  <2>3. E \in DiskSectors /\ Debug!extracting(E)[p] = Debug!Sector(Debug!extracting(D)[p - 1], s)
    BY <2>2, OneSector
  <2>4. Debug!extracting(D)[p - 1] \in Reader
    <3>1. p - 1 \in 0 .. SIZE - 1
      BY <2>2, DebugConstants
    <3>2. QED BY <2>2, <3>1, FoundStays
  <2>5. boots' = 1 => \A k \in p + 1 .. SIZE - 1 : E[k] = Debug!Zeros
    BY <2>2, DebugConstants DEF DiskSectors
  <2>6. pos' \in 1 .. SIZE /\ pos' - 1 = p
    BY <2>2, DebugConstants
  <2>7. QED BY <1>1, <1>3, <2>1, <2>2, <2>3, <2>4, <2>5, <2>6 DEF Seen
<1>4. QED BY <1>2, <1>3

\* When the partition is full the script sees what it saw.
LEMMA FullStays ==
  ASSUME DebugBase, pos = SIZE, debugpanic', UNCHANGED <<sectors, pos, copied, boots>>
  PROVE  DebugInv'
BY DEF DebugInv, DebugBase, Seen

\* The script goes on in the file that is being written.
LEMMA WithinNext ==
  ASSUME buf' \in Text, Len(buf') < SECT, ending' => buf' = <<>>, current' \in CopiedFile, current'.name # <<>>,
         NEW flushed \in Text, Seen' = Debug!Reading(copied', current'.name, flushed, FALSE),
         current'.body = flushed \o buf'
  PROVE  Within'
BY DEF Within

\* debugfsinst_begin_file: the name is found where the last file ended.
LEMMA Begins1 ==
  ASSUME DebugInv, ~ debugpanic, NEW f \in Filenames, Debug!begin_file(f)
  PROVE  DebugInv'
<1>1. /\ DebugBase /\ buf = Debug!NoBuf /\ ~ ending /\ Seen = Debug!Reading(copied, <<>>, <<>>, FALSE)
      /\ buf' = <<>> /\ current' = [name |-> f, body |-> <<>>] /\ ending' = ending /\ copied' = copied /\ boots' = boots
      /\ Debug!WriteSector(Debug!Padded(f))
  BY OpenOrNot DEF DebugInv, Debug!begin_file, Between
<1>2. f \in Text /\ f # <<>> /\ Len(f) <= SECT /\ SECT \in Nat \ {0, 1}
  <2>1. f \in Seq(1 .. 255) /\ Len(f) \in 1 .. SECT - 1 /\ SECT \in Nat \ {0, 1} /\ 1 .. 255 \subseteq Nat \ {0}
    BY DebugConstants, DiskConstants
  <2>2. f \in Text
    BY <2>1, SeqOfMore, ZenonT(60) DEF Text
  <2>3. f # <<>>
    BY <2>1, Texts1
  <2>4. QED BY <2>1, <2>2, <2>3
<1>3. PICK s : s = Debug!Padded(f)
  OBVIOUS
<1>4. s \in SectorBytes /\ Debug!Stripped(s) = f
  BY <1>2, <1>3, PaddedStripped
<1>5. CASE pos = SIZE
  <2>1. debugpanic' /\ sectors' = sectors /\ pos' = pos
    BY <1>1, <1>3, <1>4, <1>5, SectorWritten
  <2>2. QED BY <1>1, <1>5, <2>1, FullStays
<1>6. CASE pos # SIZE
  <2>1. /\ ~ debugpanic' /\ sectors' \in DiskSectors /\ pos' \in 1 .. SIZE /\ Seen' = Debug!Sector(Seen, s) /\ Seen \in Reader
        /\ boots' = 1 => \A k \in pos' .. SIZE - 1 : sectors'[k] = Debug!Zeros
    BY <1>1, <1>3, <1>4, <1>6, SectorWritten DEF Seen
  <2>2. PICK r, c : r = Seen /\ c = copied
    OBVIOUS
  <2>3. r \in Reader /\ r.found = c /\ r.name = <<>> /\ r.done = FALSE
    BY <1>1, <2>1, <2>2 DEF Debug!Reading
  <2>4. Debug!Sector(r, s) = Debug!Reading(c, f, <<>>, FALSE)
    <3>1. Debug!Sector(r, s) = Debug!Reading(r.found, Debug!Stripped(s), <<>>, Debug!Stripped(s) = <<>>)
      BY <1>4, <2>3, SectorCases
    <3>2. (f = <<>>) = FALSE
      BY <1>2, Zenon
    <3>3. QED BY <1>4, <2>3, <3>1, <3>2, Zenon
  <2>5. <<>> \in Text /\ <<>> \o <<>> = <<>> /\ Len(<<>>) = 0
    BY Texts1
  <2>6. /\ current' \in CopiedFile /\ current'.name = f /\ current'.body = <<>>
    BY <1>1, <1>2, <2>5 DEF CopiedFile
  <2>7. Seen' = Debug!Reading(copied', current'.name, <<>>, FALSE)
    BY <1>1, <2>1, <2>2, <2>4, <2>6, Zenon
  <2>8. Within'
    <3>1. PICK e : e = <<>>
      OBVIOUS
    <3>2. /\ buf' \in Text /\ Len(buf') < SECT /\ (ending' => buf' = <<>>) /\ current'.name # <<>> /\ e \in Text
          /\ current'.body = e \o buf' /\ Seen' = Debug!Reading(copied', current'.name, e, FALSE)
      BY <1>1, <1>2, <2>5, <2>6, <2>7, <3>1
    <3>3. QED BY <2>6, <3>2, WithinNext
  <2>9. Seen'.found = copied'
    BY <2>7 DEF Debug!Reading
  <2>10. QED BY <1>1, <2>1, <2>8, <2>9 DEF DebugInv, DebugBase
<1>7. QED BY <1>5, <1>6

\* What Within says of the script.
LEMMA WithinReads ==
  ASSUME DebugInv, ~ debugpanic, buf # Debug!NoBuf
  PROVE  /\ DebugBase /\ buf \in Text /\ Len(buf) < SECT /\ Len(buf) \in Nat /\ (ending => buf = <<>>)
         /\ current \in CopiedFile /\ current.name # <<>> /\ current.name \in Text
         /\ \E flushed \in Text :
              /\ Seen = Debug!Reading(copied, current.name, flushed, FALSE)
              /\ current.body = flushed \o buf
              /\ Seen.found = copied /\ Seen.name = current.name /\ Seen.body = flushed /\ Seen.done = FALSE
<1>1. DebugBase /\ Within
  BY OpenOrNot DEF DebugInv
<1>2. PICK flushed \in Text : /\ Seen = Debug!Reading(copied, current.name, flushed, FALSE)
                              /\ current.body = flushed \o buf
  BY <1>1 DEF Within
<1>3. Seen.found = copied /\ Seen.name = current.name /\ Seen.body = flushed /\ Seen.done = FALSE
  BY <1>2 DEF Debug!Reading
<1>4. Len(buf) \in Nat /\ current.name \in Text
  BY <1>1, Texts1 DEF Within, CopiedFile
<1>5. QED BY <1>1, <1>2, <1>3, <1>4 DEF Within

\* A full buffer, or the rest of a file, is written to a sector: the script has
\* all of it.
LEMMA Flushes ==
  ASSUME DebugInv, ~ debugpanic, buf # Debug!NoBuf, NEW b \in Text, b # <<>>, Len(b) <= SECT,
         Debug!WriteSector(Debug!Padded(b)), UNCHANGED <<copied, boots>>, buf' = <<>>,
         current' \in CopiedFile, current'.name = current.name,
         \A flushed \in Text : current.body = flushed \o buf => current'.body = flushed \o b
  PROVE  DebugInv'
<1>1. PICK s : s = Debug!Padded(b)
  OBVIOUS
<1>2. s \in SectorBytes /\ Debug!Stripped(s) = b /\ s # Debug!Zeros
  BY <1>1, PaddedStripped, PaddedNotZeros
<1>3. DebugBase /\ current.name # <<>> /\ current.name \in Text
  BY WithinReads
<1>4. PICK flushed \in Text : /\ Seen = Debug!Reading(copied, current.name, flushed, FALSE)
                              /\ current.body = flushed \o buf
                              /\ Seen.found = copied /\ Seen.name = current.name /\ Seen.body = flushed
                              /\ Seen.done = FALSE
  BY WithinReads
<1>5. CASE pos = SIZE
  <2>1. debugpanic' /\ sectors' = sectors /\ pos' = pos
    BY <1>1, <1>2, <1>3, <1>5, SectorWritten
  <2>2. QED BY <1>3, <1>5, <2>1, FullStays
<1>6. CASE pos # SIZE
  <2>1. /\ ~ debugpanic' /\ sectors' \in DiskSectors /\ pos' \in 1 .. SIZE /\ Seen' = Debug!Sector(Seen, s) /\ Seen \in Reader
        /\ boots' = 1 => \A k \in pos' .. SIZE - 1 : sectors'[k] = Debug!Zeros
    BY <1>1, <1>2, <1>3, <1>6, SectorWritten DEF Seen
  <2>2. PICK r, c, m : r = Seen /\ c = copied /\ m = current.name
    OBVIOUS
  <2>3. r \in Reader /\ r.found = c /\ r.name = m /\ r.body = flushed /\ r.done = FALSE /\ m # <<>>
    BY <1>3, <1>4, <2>1, <2>2
  <2>4. Debug!Sector(r, s) = Debug!Reading(c, m, flushed \o b, FALSE)
    BY <1>2, <2>3, SectorCases
  <2>5. PICK g : g = flushed \o b
    OBVIOUS
  <2>6. g \in Text /\ g \o <<>> = g /\ Len(<<>>) = 0 /\ <<>> \in Text /\ SECT \in Nat \ {0, 1}
    BY <2>5, Texts1, DiskConstants
  <2>7. Seen' = Debug!Reading(copied', current'.name, g, FALSE)
    BY <2>1, <2>2, <2>4, <2>5, Zenon
  <2>8. current'.body = g \o buf'
    BY <1>4, <2>5, <2>6
  <2>9. buf' \in Text /\ Len(buf') < SECT /\ (ending' => buf' = <<>>) /\ current'.name # <<>>
    BY <1>3, <2>6
  <2>10. Within'
    BY <2>6, <2>7, <2>8, <2>9, WithinNext
  <2>11. Seen'.found = copied'
    BY <2>7 DEF Debug!Reading
  <2>12. QED BY <2>1, <2>10, <2>11 DEF DebugInv, DebugBase
<1>7. QED BY <1>5, <1>6

\* debugfsinst_write_char: the byte goes to the buffer, which goes to the disk
\* when it is full.
LEMMA WritesChar ==
  ASSUME DebugInv, ~ debugpanic, NEW c \in Nat \ {0}, Debug!write_char(c)
  PROVE  DebugInv'
<1>1. /\ buf # Debug!NoBuf /\ current' = [current EXCEPT !.body = Append(current.body, c)]
      /\ UNCHANGED <<ending, copied, boots>> /\ ~ ending
      /\ IF Len(buf) = SECT - 1 THEN Debug!WriteSector(Append(buf, c)) /\ buf' = <<>>
         ELSE buf' = Append(buf, c) /\ UNCHANGED <<sectors, pos, debugpanic>>
  BY DEF Debug!write_char
<1>2. /\ DebugBase /\ buf \in Text /\ Len(buf) < SECT /\ Len(buf) \in Nat
      /\ current \in CopiedFile /\ current.name # <<>>
  BY <1>1, WithinReads
<1>3. PICK flushed \in Text : /\ Seen = Debug!Reading(copied, current.name, flushed, FALSE)
                              /\ current.body = flushed \o buf
  BY <1>1, WithinReads
<1>4. PICK b, t, x : b = Append(buf, c) /\ t = buf /\ x = current.body
  OBVIOUS
<1>5. /\ t \in Text /\ b = Append(t, c) /\ x \in Text /\ SECT \in Nat \ {0, 1} /\ Len(t) < SECT /\ Len(t) \in Nat
  BY <1>2, <1>4, DiskConstants DEF CopiedFile
<1>6. /\ b \in Text /\ b # <<>> /\ Len(b) = Len(t) + 1 /\ Append(x, c) \in Text
      /\ \A f \in Text : x = f \o t => Append(x, c) = f \o b
  <2>1. <<>> \in Text
    BY Texts1
  <2>2. b \in Text /\ b # <<>> /\ Len(b) = Len(t) + 1
    BY <1>5, <2>1, AppendLater
  <2>3. Append(x, c) \in Text
    BY <1>5, <2>1, AppendLater
  <2>4. \A f \in Text : Append(f \o t, c) = f \o b
    BY <1>5, AppendLater, ZenonT(60)
  <2>5. QED BY <2>2, <2>3, <2>4, Zenon
<1>7. current' \in CopiedFile /\ current'.name = current.name /\ current'.body = Append(x, c)
  BY <1>1, <1>2, <1>4, <1>6 DEF CopiedFile
<1>8. \A f \in Text : current.body = f \o buf => current'.body = f \o b
  BY <1>4, <1>6, <1>7
<1>9. CASE Len(buf) = SECT - 1
  <2>1. Len(b) = SECT
    BY <1>4, <1>5, <1>6, <1>9
  <2>2. Debug!Padded(b) = b
    <3>1. \A i \in 1 .. SECT : (IF i <= Len(b) THEN b[i] ELSE 0) = b[i]
      BY <2>1
    <3>2. b = [i \in 1 .. SECT |-> b[i]]
      BY <1>6, <2>1 DEF Text
    <3>3. QED BY <3>1, <3>2 DEF Debug!Padded
  <2>3. Debug!WriteSector(Debug!Padded(b)) /\ buf' = <<>>
    BY <1>1, <1>4, <1>9, <2>2
  <2>4. Len(b) <= SECT
    BY <2>1, <1>5
  <2>5. QED BY <1>1, <1>6, <1>7, <1>8, <2>3, <2>4, Flushes
<1>10. CASE Len(buf) # SECT - 1
  <2>1. buf' = b /\ UNCHANGED <<sectors, pos, debugpanic, copied, boots, ending>>
    BY <1>1, <1>4, <1>10
  <2>2. buf' \in Text /\ Len(buf') < SECT
    BY <1>4, <1>5, <1>6, <1>10, <2>1
  <2>3. Seen' = Debug!Reading(copied', current'.name, flushed, FALSE) /\ current'.body = flushed \o buf'
    BY <1>3, <1>7, <1>8, <2>1 DEF Seen
  <2>4. Within'
    BY <1>1, <1>2, <1>7, <2>2, <2>3, WithinNext
  <2>5. DebugBase'
    BY <1>2, <2>1 DEF DebugBase, Seen
  <2>6. QED BY <2>4, <2>5 DEF DebugInv
<1>11. QED BY <1>9, <1>10

\* debugfsinst_finish_file writes the rest of the file.
LEMMA Finishes ==
  ASSUME DebugInv, ~ debugpanic, Debug!finish_file
  PROVE  DebugInv'
<1>1. /\ buf # Debug!NoBuf /\ buf' = <<>> /\ ~ ending /\ UNCHANGED <<copied, current, boots>>
      /\ IF buf = <<>> THEN UNCHANGED <<sectors, pos, debugpanic>> ELSE Debug!WriteSector(Debug!Padded(buf))
  BY DEF Debug!finish_file
<1>2. /\ DebugBase /\ buf \in Text /\ Len(buf) < SECT /\ Len(buf) \in Nat
      /\ current \in CopiedFile /\ current.name # <<>>
  BY <1>1, WithinReads
<1>3. CASE buf = <<>>
  <2>1. PICK flushed \in Text : /\ Seen = Debug!Reading(copied, current.name, flushed, FALSE)
                                /\ current.body = flushed \o buf
    BY <1>1, WithinReads
  <2>2. Seen' = Debug!Reading(copied', current'.name, flushed, FALSE) /\ current'.body = flushed \o buf'
    BY <1>1, <1>3, <2>1 DEF Seen
  <2>3. buf' \in Text /\ Len(buf') < SECT /\ (ending' => buf' = <<>>) /\ current' \in CopiedFile /\ current'.name # <<>>
    BY <1>1, <1>2, <1>3
  <2>4. Within'
    BY <2>2, <2>3, WithinNext
  <2>5. DebugBase'
    BY <1>1, <1>2, <1>3 DEF DebugBase, Seen
  <2>6. QED BY <2>4, <2>5 DEF DebugInv
<1>4. CASE buf # <<>>
  <2>1. PICK b : b = buf
    OBVIOUS
  <2>2. b \in Text /\ b # <<>> /\ Len(b) <= SECT /\ Debug!WriteSector(Debug!Padded(b))
    BY <1>1, <1>2, <1>4, <2>1, DiskConstants
  <2>3. \A flushed \in Text : current.body = flushed \o buf => current'.body = flushed \o b
    BY <1>1, <2>1
  <2>4. QED BY <1>1, <1>2, <2>2, <2>3, Flushes
<1>5. QED BY <1>3, <1>4

\* The empty sector ends the file, which the script has found then.
LEMMA WritesEmpty ==
  ASSUME DebugInv, ~ debugpanic, buf # Debug!NoBuf, Debug!write_empty_sector
  PROVE  /\ DebugInv'
         /\ \/ debugpanic' /\ copied' = copied
            \/ ~ debugpanic' /\ copied' = Append(copied, current) /\ buf' = Debug!NoBuf
<1>1. /\ ending /\ Debug!WriteSector(Debug!Zeros) /\ boots' = boots
      /\ IF debugpanic' THEN UNCHANGED <<buf, ending, copied, current>>
         ELSE /\ buf' = Debug!NoBuf /\ ending' = FALSE
              /\ copied' = Append(copied, current) /\ current' = Debug!NoFile
  BY DEF Debug!write_empty_sector
<1>2. DebugBase /\ buf = <<>> /\ current \in CopiedFile /\ current.name # <<>>
  BY <1>1, WithinReads
<1>3. PICK flushed \in Text : /\ current.body = flushed \o buf
                              /\ Seen.found = copied /\ Seen.name = current.name /\ Seen.body = flushed
                              /\ Seen.done = FALSE
  BY <1>1, WithinReads
<1>4. PICK s : s = Debug!Zeros
  OBVIOUS
<1>5. s \in SectorBytes
  BY <1>4, ZeroSector
<1>6. CASE pos = SIZE
  <2>1. debugpanic' /\ sectors' = sectors /\ pos' = pos
    BY <1>1, <1>2, <1>4, <1>5, <1>6, SectorWritten
  <2>2. copied' = copied
    BY <1>1, <2>1
  <2>3. QED BY <1>1, <1>2, <1>6, <2>1, <2>2, FullStays
<1>7. CASE pos # SIZE
  <2>1. /\ ~ debugpanic' /\ sectors' \in DiskSectors /\ pos' \in 1 .. SIZE /\ Seen' = Debug!Sector(Seen, s) /\ Seen \in Reader
        /\ boots' = 1 => \A k \in pos' .. SIZE - 1 : sectors'[k] = Debug!Zeros
    BY <1>1, <1>2, <1>4, <1>5, <1>7, SectorWritten DEF Seen
  <2>2. PICK r, c, f : r = Seen /\ c = copied /\ f = current
    OBVIOUS
  <2>3. /\ r \in Reader /\ r.found = c /\ r.name = f.name /\ r.body = f.body /\ r.done = FALSE /\ f.name # <<>>
        /\ f \in CopiedFile /\ f = [name |-> f.name, body |-> f.body] /\ c \in Seq(CopiedFile)
    <3>1. flushed \o buf = flushed
      BY <1>2, Texts1
    <3>2. f = [name |-> f.name, body |-> f.body]
      BY <1>2, <2>2 DEF CopiedFile
    <3>3. QED BY <1>2, <1>3, <2>1, <2>2, <3>1, <3>2 DEF DebugBase
  <2>4. Debug!Sector(r, s) = Debug!Reading(Append(c, f), <<>>, <<>>, FALSE)
    <3>1. Debug!Sector(r, s) = Debug!Reading(Append(c, [name |-> f.name, body |-> f.body]), <<>>, <<>>, FALSE)
      BY <1>4, <1>5, <2>3, SectorCases
    <3>2. QED BY <2>3, <3>1, Zenon
  <2>5. copied' = Append(c, f) /\ copied' \in Seq(CopiedFile) /\ buf' = Debug!NoBuf /\ ending' = FALSE
    BY <1>1, <2>1, <2>2, <2>3
  <2>6. Seen' = Debug!Reading(copied', <<>>, <<>>, FALSE)
    BY <2>1, <2>2, <2>4, <2>5, Zenon
  <2>7. Seen'.found = copied'
    BY <2>6 DEF Debug!Reading
  <2>8. QED BY <2>1, <2>2, <2>5, <2>6, <2>7 DEF DebugInv, DebugBase, Between
<1>8. QED BY <1>6, <1>7

\* debugfsinst_init: the next file goes to the first sector.
LEMMA Restarted ==
  ASSUME DebugInv, boots \in Nat \ {0}, Debug!boot
  PROVE  DebugInv'
<1>1. /\ pos' = 1 /\ sectors' = sectors /\ copied' = <<>> /\ buf' = Debug!NoBuf /\ ending' = FALSE /\ debugpanic' = FALSE
      /\ boots' # 1
  BY DEF Debug!boot
<1>2. PICK D : D = sectors
  OBVIOUS
<1>3. D \in DiskSectors
  BY <1>2 DEF DebugInv, DebugBase
<1>4. Debug!extracting(D)[0] = Start
  BY <1>3, ExtractingDef
<1>5. Seen' = Debug!Reading(copied', <<>>, <<>>, FALSE)
  <2>1. 1 - 1 = 0
    OBVIOUS
  <2>2. QED BY <1>1, <1>2, <1>4, <2>1 DEF Seen, Start
<1>6. Seen'.found = copied' /\ copied' \in Seq(CopiedFile) /\ 1 \in 1 .. SIZE
  BY <1>1, <1>5, DebugConstants DEF Debug!Reading
<1>7. QED BY <1>1, <1>2, <1>3, <1>5, <1>6 DEF DebugInv, DebugBase, Between

\* A new disk.
LEMMA InitialSectors ==
  ASSUME Debug!Init
  PROVE  DebugInv
<1>1. PICK D : D = sectors
  OBVIOUS
<1>2. /\ D = [k \in 1 .. SIZE - 1 |-> Debug!Zeros] /\ pos = 1 /\ buf = Debug!NoBuf /\ ending = FALSE /\ copied = <<>>
      /\ debugpanic = FALSE /\ boots = 1
  BY <1>1 DEF Debug!Init
<1>3. D \in DiskSectors
  BY <1>2, ZeroSector DEF DiskSectors
<1>4. Debug!extracting(D)[0] = Start
  BY <1>3, ExtractingDef
<1>5. Seen = Debug!Reading(copied, <<>>, <<>>, FALSE)
  <2>1. 1 - 1 = 0
    OBVIOUS
  <2>2. QED BY <1>1, <1>2, <1>4, <2>1 DEF Seen, Start
<1>6. Seen.found = copied /\ copied \in Seq(CopiedFile) /\ 1 \in 1 .. SIZE
  BY <1>2, <1>5, DebugConstants DEF Debug!Reading
<1>7. QED BY <1>1, <1>2, <1>3, <1>5, <1>6 DEF DebugInv, DebugBase, Between

----------------------------------------------------------------------------
(* What is copied *)

\* The files that are copied: those of the archive and of the disk.
Copied == {p \in AllPaths : p \notin RamPaths}

FromSource(f) == \E p \in Copied : p.name = f.name /\ f.body = Content(p)

\* While a file is copied, g is the file that is read, of the same content as the
\* one of the path (on the disk two empty files may be at the same place): what
\* was written is what was read, up to the position or, at its end, all of it.
Progress ==
  /\ doing \in Copying /\ doing.path \in Copied /\ doing.path.name = current.name /\ Content(doing.path) \in Text
  /\ ending => current.body = Content(doing.path)
  /\ ~ ending =>
       \E g \in Copied, k \in Nat :
         /\ Content(g) = Content(doing.path) /\ OpenFile(doing.d) = [file |-> g, pos |-> k]
         /\ k <= Len(Content(g)) /\ k = Len(current.body) /\ current.body \in Text
         /\ \A r \in 1 .. k : current.body[r] = Content(g)[r]

CopyInv ==
  /\ FileInv /\ DebugInv /\ boots \in Nat \ {0}
  /\ \A i \in 1 .. Len(copied) : FromSource(copied[i])
  /\ ~ debugpanic /\ buf # Debug!NoBuf => Progress

\* Files that are copied do not change.
LEMMA CopiedStay ==
  ASSUME UNCHANGED image
  PROVE  \A p \in Copied : Content(p)' = Content(p)
<1>1. ASSUME NEW p \in Copied PROVE Content(p)' = Content(p)
  <2>1. p \in AllPaths /\ p \notin {Path("ram", n) : n \in Names} /\ \A n \in Names \ Names : Ram!Stored(n)' = Ram!Stored(n)
    BY DEF Copied, RamPaths
  <2>2. QED BY <2>1, ContentStays
<1>2. QED BY <1>1

\* Nor what was copied from them.
LEMMA SourceStays ==
  ASSUME UNCHANGED image
  PROVE  \A f : FromSource(f) => FromSource(f)'
<1>1. ASSUME NEW f, FromSource(f) PROVE FromSource(f)'
  <2>1. PICK p \in Copied : p.name = f.name /\ f.body = Content(p)
    BY <1>1 DEF FromSource
  <2>2. Content(p)' = Content(p)
    BY CopiedStay
  <2>3. Copied' = Copied
    BY DEF Copied, AllPaths, RamPaths
  <2>4. QED BY <2>1, <2>2, <2>3 DEF FromSource
<1>2. QED BY <1>1

\* A step that changes neither the copy nor what is open keeps the invariant.
LEMMA CopyKept ==
  ASSUME CopyInv, FileInv', UNCHANGED <<image, sectors, pos, buf, ending, copied, current, boots, debugpanic, doing>>,
         doing \in Copying => OpenFile(doing.d)' = OpenFile(doing.d)
  PROVE  CopyInv'
<1>1. DebugInv' /\ boots' \in Nat \ {0}
  BY DEF CopyInv, DebugInv, DebugBase, Between, Within, Seen
<1>2. \A i \in 1 .. Len(copied') : FromSource(copied[i])'
  BY SourceStays DEF CopyInv, FromSource
<1>3. ASSUME ~ debugpanic, buf # Debug!NoBuf PROVE Progress'
  <2>1. Progress
    BY <1>3 DEF CopyInv
  <2>2. Copied' = Copied /\ Copying' = Copying
    BY DEF Copied, AllPaths, RamPaths, Copying
  <2>3. \A p \in Copied : Content(p)' = Content(p)
    BY CopiedStay
  <2>4. Content(doing.path)' = Content(doing.path) /\ OpenFile(doing.d)' = OpenFile(doing.d)
    BY <2>1, <2>3 DEF Progress, Content
  <2>5. QED BY <2>1, <2>2, <2>3, <2>4 DEF Progress
<1>4. QED BY <1>1, <1>2, <1>3 DEF CopyInv

\* Bytes that have no zeros.
LEMMA NoZeros ==
  ASSUME NEW m \in Nat, NEW b \in Seq(0 .. m), \A j \in DOMAIN b : b[j] # 0
  PROVE  b \in Text
<1>1. DOMAIN b = 1 .. Len(b) /\ Len(b) \in Nat /\ \A j \in 1 .. Len(b) : b[j] \in Nat \ {0}
  <2>1. DOMAIN b = 1 .. Len(b) /\ Len(b) \in Nat /\ \A j \in 1 .. Len(b) : b[j] \in 0 .. m
    BY LenProperties, ElementOfSeq
  <2>2. QED BY <2>1
<1>2. b = [j \in 1 .. Len(b) |-> b[j]]
  BY <1>1
<1>3. QED BY <1>1, <1>2 DEF Text

\* What is in a file that is copied.
LEMMA SourceText ==
  ASSUME DiskInv, Mounted, NEW path \in Sources
  PROVE  /\ path \in Copied /\ Content(path) \in Text
         /\ \/ path.mount = "init" /\ path.name \in InitFiles!FileNames /\ path = Path("init", path.name)
            \/ path.mount = "disk1" /\ path.name \in DOMAIN table /\ path = Path("disk1", path.name)
<1>1. /\ path.name \in Filenames /\ path.mount # "ram"
      /\ \/ path.mount = "init" /\ path.name \in InitFiles!FileNames /\ path = Path("init", path.name)
         \/ path.mount = "disk1" /\ path.name \in DOMAIN table /\ path = Path("disk1", path.name)
  BY DEF Sources, Paths, RamPaths, Path
<1>2. path \notin RamPaths
  BY <1>1 DEF RamPaths, Path
<1>3. CASE path.mount = "init"
  <2>1. PICK n : n = path.name
    OBVIOUS
  <2>2. n \in InitFiles!FileNames /\ n \in Filenames /\ path = Path("init", n)
    BY <1>1, <1>3, <2>1
  <2>3. path \in AllPaths /\ Content(path) = InitFiles!Body(n)
    BY <2>2, Contents
  <2>4. InitFiles!Body(n) \in Text
    <3>1. PICK b : b = InitFiles!Body(n)
      OBVIOUS
    <3>2. b \in Seq(0 .. 255)
      BY <2>2, <3>1, WalkFinds
    <3>3. \E i \in DOMAIN Archive : Archive[i].name = n /\ b = Archive[i].body
      <4>1. \E i \in DOMAIN Archive : Archive[i].name = n
        BY <2>2 DEF InitFiles!FileNames
      <4>2. b = Archive[CHOOSE i \in DOMAIN Archive : Archive[i].name = n].body
        BY <3>1, Zenon DEF InitFiles!Body
      <4>3. QED BY <4>1, <4>2
    <3>4. \A j \in DOMAIN b : b[j] # 0
      BY <2>2, <3>3, DebugConstants
    <3>5. PICK m : m = 255
      OBVIOUS
    <3>6. m \in Nat /\ b \in Seq(0 .. m)
      BY <3>2, <3>5
    <3>7. QED BY <3>1, <3>4, <3>6, NoZeros
  <2>5. QED BY <1>1, <1>2, <2>3, <2>4 DEF Copied
<1>4. CASE path.mount = "disk1"
  <2>1. PICK n : n = path.name
    OBVIOUS
  <2>2. n \in DOMAIN table /\ n \in Filenames /\ path = Path("disk1", n)
    BY <1>1, <1>4, <2>1
  <2>3. PICK k \in 1 .. Len(image) : image[k].name = n
    BY <2>2, TableEntry
  <2>4. PICK b, im : b = Content(Path("disk1", image[k].name)) /\ im = image
    OBVIOUS
  <2>5. Path("disk1", image[k].name) \in AllPaths /\ b = im[k].body /\ b \in Seq(0 .. BASE - 1)
    BY <2>4, DiskSource
  <2>6. im \in Images /\ k \in DOMAIN im /\ im[k].name = n /\ BASE \in Nat \ {0}
    BY <2>3, <2>4, DiskConstants, ImageNumbers DEF DiskInv
  <2>7. \A j \in DOMAIN b : b[j] # 0
    BY <2>2, <2>5, <2>6, DebugConstants
  <2>8. BASE - 1 \in Nat
    BY <2>6
  <2>9. b \in Text
    <3>1. PICK m : m = BASE - 1
      OBVIOUS
    <3>2. QED BY <2>5, <2>7, <2>8, <3>1, NoZeros
  <2>10. path = Path("disk1", image[k].name)
    BY <2>2, <2>3
  <2>11. QED BY <1>1, <1>2, <2>4, <2>5, <2>9, <2>10 DEF Copied
<1>5. QED BY <1>1, <1>3, <1>4

\* Opening a file that is copied: the descriptor is at its beginning.
LEMMA OpensSource ==
  ASSUME FileInv, Mounted, Control', NEW path \in Sources, NEW d \in Fds \ Used, vfs_open(path, d)
  PROVE  \E g \in Copied : OpenFile(d)' = [file |-> g, pos |-> 0] /\ Content(g) = Content(path)
<1>1. /\ path \in Copied
      /\ \/ path.mount = "init" /\ path.name \in InitFiles!FileNames /\ path = Path("init", path.name)
         \/ path.mount = "disk1" /\ path.name \in DOMAIN table /\ path = Path("disk1", path.name)
  BY SourceText DEF FileInv
<1>2. PICK n : n = path.name
  OBVIOUS
<1>3. CASE path.mount = "init"
  <2>1. n \in InitFiles!FileNames /\ path = Path("init", n)
    BY <1>1, <1>2, <1>3
  <2>2. InitFiles!initfd_init(n, d) /\ UNCHANGED <<ramVars, diskVars>>
    BY <1>2, <1>3 DEF vfs_open
  <2>3. OpenFile(d)' = [file |-> Path("init", n), pos |-> 0]
    BY <2>1, <2>2, InitOpens
  <2>4. QED BY <1>1, <2>1, <2>3
<1>4. CASE path.mount = "disk1"
  <2>1. n \in DOMAIN table /\ path = Path("disk1", n)
    BY <1>1, <1>2, <1>4
  <2>2. Disk!diskmount_open(n, d) /\ UNCHANGED <<ramVars, initVars>>
    BY <1>2, <1>4 DEF vfs_open
  <2>3. PICK g \in AllPaths : /\ OpenFile(d)' = [file |-> g, pos |-> 0] /\ g.mount = "disk1"
                              /\ Content(g) = Content(Path("disk1", n))
    BY <2>1, <2>2, DiskOpens
  <2>4. g \in Copied
    BY <2>3 DEF Copied, RamPaths, Path
  <2>5. QED BY <2>1, <2>3, <2>4
<1>5. QED BY <1>1, <1>3, <1>4

\* A step that keeps the image and the files that were copied.
LEMMA SourcesKept ==
  ASSUME CopyInv, UNCHANGED <<image, copied>>
  PROVE  \A i \in 1 .. Len(copied') : FromSource(copied[i])'
BY SourceStays DEF CopyInv, FromSource

\* A copy begins.
LEMMA CopyBeginsInv ==
  ASSUME CopyInv, FileInv', Mounted, user = "copies", UNCHANGED image, ~ debugpanic, CopyBegins
  PROVE  CopyInv'
<1>1. PICK path \in Sources, d \in Fds :
        /\ doing = Idle /\ vfs_open(path, d) /\ Debug!begin_file(path.name)
        /\ doing' = [op |-> "copy", d |-> d, path |-> path]
  BY DEF CopyBegins
<1>2. /\ current' = [name |-> path.name, body |-> <<>>] /\ buf' = <<>> /\ ending' = ending /\ copied' = copied
      /\ boots' = boots /\ path.name \in Filenames
  BY <1>1 DEF Debug!begin_file, Sources
<1>3. DebugInv'
  <2>1. PICK f : f = path.name
    OBVIOUS
  <2>2. QED BY <1>1, <1>2, <2>1, Begins1 DEF CopyInv
<1>4. path \in Copied /\ Content(path) \in Text /\ path \in Sources
  BY <1>1, SourceText DEF CopyInv, FileInv
<1>5. d \in Fds \ Used
  BY <1>1 DEF CopyInv, FileInv, Control
<1>6. PICK g \in Copied : OpenFile(d)' = [file |-> g, pos |-> 0] /\ Content(g) = Content(path)
  BY <1>1, <1>5, OpensSource DEF CopyInv, FileInv
<1>7. ~ ending
  <2>1. buf = Debug!NoBuf
    BY <1>1 DEF Debug!begin_file
  <2>2. QED BY <2>1, OpenOrNot DEF CopyInv, DebugInv, Between
<1>8. doing' \in Copying' /\ doing'.d = d /\ doing'.path = path
  <2>1. path.mount \in {"init", "disk1"} /\ path \in [mount : {"init", "disk1"}, name : Filenames]
    BY DEF Sources, Paths, RamPaths, Path
  <2>2. QED BY <1>1, <2>1 DEF Copying
<1>9. Content(path)' = Content(path) /\ Content(g)' = Content(g)
  BY <1>4, CopiedStay
<1>10. Progress'
  <2>1. Copied' = Copied
    BY DEF Copied, AllPaths, RamPaths
  <2>2. OpenFile(doing.d)' = [file |-> g, pos |-> 0] /\ Content(doing.path)' = Content(path)
    BY <1>6, <1>8, <1>9 DEF Content
  <2>3. current'.name = path.name /\ current'.body = <<>> /\ Len(<<>>) = 0 /\ <<>> \in Text /\ Len(Content(g)) \in Nat
    BY <1>2, <1>4, <1>6, Texts1
  <2>4. PICK z : z = 0
    OBVIOUS
  <2>5. /\ Content(g)' = Content(doing.path)' /\ OpenFile(doing.d)' = [file |-> g, pos |-> z] /\ z \in Nat
        /\ z <= Len(Content(g)') /\ z = Len(current'.body) /\ current'.body \in Text
        /\ \A r \in 1 .. z : current'.body[r] = (Content(g)')[r]
    BY <1>6, <1>9, <2>2, <2>3, <2>4
  <2>6. doing'.path \in Copied' /\ doing'.path.name = current'.name /\ Content(doing.path)' \in Text /\ ~ ending'
    BY <1>2, <1>4, <1>7, <1>8, <2>1, <2>2, <2>3
  <2>7. QED BY <1>8, <2>1, <2>5, <2>6 DEF Progress
<1>11. boots' \in Nat \ {0} /\ \A i \in 1 .. Len(copied') : FromSource(copied[i])'
  BY <1>2, SourcesKept DEF CopyInv
<1>12. QED BY <1>3, <1>10, <1>11 DEF CopyInv

\* A read of the file that is copied.
LEMMA CopyGives ==
  ASSUME FileInv, Mounted, Control', user = "copies", NEW d \in Used, vfs_read(d)
  PROVE  \E g, p, q : Gives(d, g, p, q)
<1>1. DOMAIN ramfds = {}
  BY DEF FileInv, Control
<1>2. CASE d \in DOMAIN initfds
  <2>1. InitFiles!platform_read_char(d) /\ UNCHANGED <<ramVars, diskVars>>
    BY <1>1, <1>2 DEF vfs_read, FileInv, Control
  <2>2. QED BY <1>2, <2>1, InitGives
<1>3. CASE d \in DOMAIN diskfds
  <2>1. Disk!diskfd_read(d) /\ UNCHANGED <<ramVars, initVars>>
    BY <1>1, <1>3 DEF vfs_read, FileInv, Control
  <2>2. QED BY <1>3, <2>1, DiskGives
<1>4. QED BY <1>1, <1>2, <1>3 DEF Used

\* The next byte of the source is the next one of the copy, or both are at their
\* ends.
LEMMA CopyReadsInv ==
  ASSUME CopyInv, FileInv', Mounted, user = "copies", UNCHANGED image, ~ debugpanic, CopyReads
  PROVE  CopyInv'
<1>1. /\ doing.op = "copy" /\ ~ ending /\ buf # Debug!NoBuf /\ vfs_read(doing.d) /\ doing' = doing
      /\ IF out' = EOF THEN Debug!finish_file ELSE Debug!write_char(out')
  BY DEF CopyReads
<1>2. PICK d, path : d = doing.d /\ path = doing.path
  OBVIOUS
<1>3. Progress
  BY <1>1 DEF CopyInv
<1>4. /\ doing \in Copying /\ path \in Copied /\ path.name = current.name /\ Content(path) \in Text
  BY <1>2, <1>3 DEF Progress
<1>5. PICK g \in Copied, k \in Nat :
        /\ Content(g) = Content(path) /\ OpenFile(d) = [file |-> g, pos |-> k]
        /\ k <= Len(Content(g)) /\ k = Len(current.body) /\ current.body \in Text
        /\ \A r \in 1 .. k : current.body[r] = Content(g)[r]
  BY <1>1, <1>2, <1>3 DEF Progress
<1>6. PICK h, p, q : Gives(d, h, p, q)
  <2>1. d \in Used /\ vfs_read(d)
    BY <1>1, <1>2, <1>4 DEF CopyInv, FileInv, Control
  <2>2. QED BY <2>1, CopyGives DEF CopyInv, FileInv
<1>7. h = g /\ p = k
  BY <1>5, <1>6 DEF Gives
<1>8. PICK t, c, b : t = Content(g) /\ c = out' /\ b = current.body
  OBVIOUS
<1>9. /\ t \in Text /\ Len(t) \in Nat /\ k <= Len(t) /\ b \in Text /\ k = Len(b) /\ \A r \in 1 .. k : b[r] = t[r]
      /\ c = (IF k = Len(t) THEN EOF ELSE t[k + 1]) /\ (q = k + 1 \/ (q = k /\ k = Len(t)))
      /\ OpenFile(d)' = [file |-> g, pos |-> q]
  BY <1>4, <1>5, <1>6, <1>7, <1>8, Texts1 DEF Gives
<1>10. k # Len(t) => c \in Nat \ {0} /\ c # EOF
  <2>1. k # Len(t) => k + 1 \in 1 .. Len(t)
    BY <1>9
  <2>2. QED BY <1>9, <2>1 DEF Text, EOF
<1>11. /\ Content(g)' = t /\ Content(path)' = t /\ Copied' = Copied /\ Copying' = Copying
       /\ Content(doing.path)' = t /\ OpenFile(doing.d)' = [file |-> g, pos |-> q]
  <2>1. Content(g)' = t /\ Content(path)' = t /\ Copied' = Copied /\ Copying' = Copying
    BY <1>4, <1>5, <1>8, CopiedStay DEF Copied, AllPaths, RamPaths, Copying
  <2>2. QED BY <1>1, <1>2, <1>9, <2>1 DEF Content, OpenFile
<1>12. CASE k = Len(t)
  <2>1. Debug!finish_file
    BY <1>1, <1>8, <1>9, <1>12
  <2>2. DebugInv'
    BY <2>1, Finishes DEF CopyInv
  <2>3. ending' /\ UNCHANGED <<copied, current, boots>>
    BY <2>1 DEF Debug!finish_file
  <2>4. b = t
    BY <1>9, <1>12, SeqEqual DEF Text
  <2>5. Progress'
    BY <1>1, <1>2, <1>4, <1>8, <1>9, <1>11, <2>3, <2>4 DEF Progress
  <2>6. boots' \in Nat \ {0} /\ \A i \in 1 .. Len(copied') : FromSource(copied[i])'
    BY <2>3, SourcesKept DEF CopyInv
  <2>7. QED BY <2>2, <2>5, <2>6 DEF CopyInv
<1>13. CASE k # Len(t)
  <2>1. c \in Nat \ {0} /\ Debug!write_char(c) /\ c = t[k + 1]
    BY <1>1, <1>8, <1>9, <1>10, <1>13
  <2>2. DebugInv'
    BY <2>1, WritesChar DEF CopyInv
  <2>3. UNCHANGED <<ending, copied, boots>> /\ current' = [current EXCEPT !.body = Append(b, c)]
    BY <1>8, <2>1 DEF Debug!write_char
  <2>4. current'.name = current.name /\ current'.body = Append(b, c)
    <3>1. current \in CopiedFile
      BY <1>1, WithinReads DEF CopyInv
    <3>2. QED BY <2>3, <3>1 DEF CopiedFile
  <2>5. /\ Append(b, c) \in Text /\ Len(Append(b, c)) = k + 1
        /\ \A r \in 1 .. k + 1 : Append(b, c)[r] = t[r]
    <3>1. /\ Append(b, c) \in Text /\ Len(Append(b, c)) = k + 1 /\ Append(b, c)[k + 1] = c
          /\ \A r \in 1 .. k : Append(b, c)[r] = b[r]
      BY <1>9, <2>1, AppendProperties DEF Text
    <3>2. \A r \in 1 .. k + 1 : r \in 1 .. k \/ r = k + 1
      OBVIOUS
    <3>3. QED BY <1>9, <2>1, <3>1, <3>2
  <2>6. q = k + 1 /\ q \in Nat /\ q <= Len(t)
    BY <1>9, <1>13
  <2>7. /\ Content(g)' = Content(doing.path)' /\ q = Len(current'.body) /\ current'.body \in Text /\ q <= Len(Content(g)')
        /\ \A r \in 1 .. q : current'.body[r] = (Content(g)')[r]
    BY <1>11, <2>4, <2>5, <2>6
  <2>8. /\ doing' \in Copying' /\ doing'.path \in Copied' /\ doing'.path.name = current'.name
        /\ Content(doing.path)' \in Text /\ ~ ending' /\ g \in Copied'
    BY <1>1, <1>2, <1>4, <1>9, <1>11, <2>3, <2>4
  <2>9. Progress'
    BY <1>11, <2>6, <2>7, <2>8 DEF Progress
  <2>10. boots' \in Nat \ {0} /\ \A i \in 1 .. Len(copied') : FromSource(copied[i])'
    BY <2>3, SourcesKept DEF CopyInv
  <2>11. QED BY <2>2, <2>9, <2>10 DEF CopyInv
<1>14. QED BY <1>12, <1>13

\* The copy is finished: it is one of its source.
LEMMA CopyFinishesInv ==
  ASSUME CopyInv, FileInv', UNCHANGED image, ~ debugpanic, CopyFinishes
  PROVE  CopyInv'
<1>1. Debug!write_empty_sector /\ ending
  BY DEF CopyFinishes, Debug!write_empty_sector
<1>2. buf # Debug!NoBuf
  BY <1>1, OpenOrNot DEF CopyInv, DebugInv, Between
<1>3. Progress /\ current.body = Content(doing.path)
  BY <1>1, <1>2 DEF CopyInv, Progress
<1>4. FromSource(current)
  BY <1>3 DEF Progress, FromSource
<1>5. /\ DebugInv'
      /\ \/ debugpanic' /\ copied' = copied
         \/ ~ debugpanic' /\ copied' = Append(copied, current) /\ buf' = Debug!NoBuf
  BY <1>1, <1>2, WritesEmpty DEF CopyInv
<1>6. boots' = boots
  BY <1>1 DEF Debug!write_empty_sector
<1>7. \A i \in 1 .. Len(copied') : FromSource(copied[i])'
  <2>1. CASE copied' = copied
    BY <2>1, SourcesKept
  <2>2. CASE copied' = Append(copied, current)
    <3>1. copied \in Seq(CopiedFile) /\ current \in CopiedFile
      BY <1>2, WithinReads DEF CopyInv, DebugInv, DebugBase
    <3>2. PICK s, f : s = copied /\ f = current
      OBVIOUS
    <3>3. /\ Len(Append(s, f)) = Len(s) + 1 /\ Len(s) \in Nat /\ Append(s, f)[Len(s) + 1] = f
          /\ \A i \in 1 .. Len(s) : Append(s, f)[i] = s[i]
      BY <3>1, <3>2, AppendProperties
    <3>4. \A i \in 1 .. Len(copied') : FromSource(copied'[i])
      BY <1>4, <2>2, <3>2, <3>3 DEF CopyInv
    <3>5. ASSUME NEW i \in 1 .. Len(copied') PROVE FromSource(copied[i])'
      <4>1. PICK e : e = copied'[i]
        OBVIOUS
      <4>2. FromSource(e)
        BY <3>4, <4>1
      <4>3. FromSource(e)'
        BY <4>2, SourceStays
      <4>4. QED BY <4>1, <4>3 DEF FromSource
    <3>6. QED BY <3>5
  <2>3. QED BY <1>5, <2>1, <2>2
<1>8. QED BY <1>5, <1>6, <1>7 DEF CopyInv

\* The machine is started again.
LEMMA BootInv ==
  ASSUME CopyInv, FileInv', Boot
  PROVE  CopyInv'
<1>1. Debug!boot /\ boots \in Nat \ {0}
  BY DEF Boot, CopyInv
<1>2. DebugInv'
  BY <1>1, Restarted DEF CopyInv
<1>3. boots' = boots + 1 /\ copied' = <<>> /\ buf' = Debug!NoBuf /\ Len(<<>>) = 0
  BY <1>1 DEF Debug!boot
<1>4. boots' \in Nat \ {0} /\ \A i \in 1 .. Len(copied') : FromSource(copied[i])'
  BY <1>1, <1>3
<1>5. QED BY <1>2, <1>3, <1>4 DEF CopyInv

\* Whatever programs and copies do, a copy has the bytes of its source, and the
\* script sees on the disk all that was flushed.
LEMMA CopyInductive ==
  ASSUME CopyInv, FileInv', [Next]_vars
  PROVE  CopyInv'
<1>1. CASE Mounting
  <2>1. UNCHANGED <<out, image, diskfds, ramVars, initVars, debugVars, doing>> /\ scan.phase # "done"
    BY <1>1 DEF Mounting, Disk!ScanByte
  <2>2. DOMAIN diskfds = {}
    BY <2>1 DEF CopyInv, FileInv, Mounted
  <2>3. UNCHANGED AbsVars
    BY <2>1, <2>2, Stutters DEF CopyInv, FileInv, ramVars, initVars
  <2>4. doing \in Copying => OpenFile(doing.d)' = OpenFile(doing.d)
    <3>1. SUFFICES ASSUME doing \in Copying PROVE OpenFile(doing.d)' = OpenFile(doing.d)
      OBVIOUS
    <3>2. PICK d : d = doing.d
      OBVIOUS
    <3>3. d \in Used /\ d \in Used' /\ doing' = doing
      BY <2>1, <3>1, <3>2 DEF CopyInv, FileInv, Control, Used, ramVars, initVars
    <3>4. AbsFds'[d] = AbsFds[d]
      BY <2>3 DEF AbsVars
    <3>5. OpenFile(d)' = OpenFile(d)
      BY <3>3, <3>4 DEF AbsFds
    <3>6. QED BY <3>2, <3>3, <3>5 DEF OpenFile
  <2>5. QED BY <2>1, <2>4, CopyKept DEF debugVars
<1>2. image' = image \/ UNCHANGED vars
  <2>1. CASE Next
    <3>1. DiskStep
      BY <2>1, Steps DEF CopyInv, FileInv
    <3>2. QED BY <3>1 DEF DiskStep, diskVars, Disk!ScanByte, Disk!diskmount_open, Disk!diskfd_destroy,
                          Disk!diskfd_read, Disk!diskfd_seek
  <2>2. QED BY <2>1
<1>3. CASE Program /\ image' = image
  <2>1. UNCHANGED <<user, debugVars>> /\ user = "programs"
    BY <1>3 DEF Program
  <2>2. doing \notin Copying /\ doing' \notin Copying'
    BY <2>1 DEF CopyInv, FileInv, Control
  <2>3. DebugInv' /\ boots' \in Nat \ {0}
    BY <2>1 DEF CopyInv, DebugInv, DebugBase, Between, Within, Seen, debugVars
  <2>4. \A i \in 1 .. Len(copied') : FromSource(copied[i])'
    BY <1>3, <2>1, SourcesKept DEF debugVars
  <2>5. debugpanic' \/ buf' = Debug!NoBuf
    BY <2>1, <2>2 DEF CopyInv, Progress, debugVars
  <2>6. QED BY <2>3, <2>4, <2>5 DEF CopyInv
<1>4. CASE Copy /\ image' = image
  <2>1. Mounted /\ user = "copies"
    BY <1>4 DEF Copy
  <2>2. CASE CopyCloses
    <3>1. UNCHANGED debugVars /\ buf = Debug!NoBuf /\ doing' = Idle
      BY <2>2 DEF CopyCloses
    <3>2. DebugInv' /\ boots' \in Nat \ {0}
      BY <3>1 DEF CopyInv, DebugInv, DebugBase, Between, Within, Seen, debugVars
    <3>3. \A i \in 1 .. Len(copied') : FromSource(copied[i])'
      BY <1>4, <3>1, SourcesKept DEF debugVars
    <3>4. QED BY <3>1, <3>2, <3>3 DEF CopyInv, debugVars
  <2>3. QED BY <1>4, <2>1, <2>2, BootInv, CopyBeginsInv, CopyReadsInv, CopyFinishesInv DEF Copy
<1>5. CASE UNCHANGED vars
  <2>1. UNCHANGED <<image, sectors, pos, buf, ending, copied, current, boots, debugpanic, doing>> /\ UNCHANGED <<ramfds, open_files, initfds, diskfds, table>>
    BY <1>5 DEF vars, ramVars, initVars, diskVars, debugVars
  <2>2. OpenFile(doing.d)' = OpenFile(doing.d)
    BY <2>1 DEF OpenFile, InitFiles!File, Disk!FileAt, Disk!FileNames
  <2>3. QED BY <2>1, <2>2, CopyKept
<1>6. QED BY <1>1, <1>2, <1>3, <1>4, <1>5 DEF Next

\* The invariant in every state.
LEMMA CopyAlways == Spec => []CopyInv
<1>1. Init /\ FileInv => CopyInv
  <2>1. SUFFICES ASSUME Init, FileInv PROVE CopyInv
    OBVIOUS
  <2>2. Debug!Init
    BY <2>1 DEF Init
  <2>3. DebugInv /\ copied = <<>> /\ boots = 1 /\ buf = Debug!NoBuf
    BY <2>2, InitialSectors DEF Debug!Init
  <2>4. \A i \in 1 .. Len(copied) : FromSource(copied[i])
    BY <2>3
  <2>5. QED BY <2>1, <2>3, <2>4 DEF CopyInv
<1>2. FileInv' /\ CopyInv /\ [Next]_vars => CopyInv'
  BY CopyInductive
<1>3. QED BY <1>1, <1>2, FileAlways, PTL DEF Spec

\* Where the machine stops, at whatever sector, and whatever an earlier run left
\* on the disk, extract_debugfs.py finds every file whose copy was finished, in
\* order, with the bytes of its source: for every size of the partition and of
\* its sectors, and every number of files.
THEOREM CopiesAreFound == Spec => []CopiesArrive
<1>1. ASSUME CopyInv PROVE CopiesArrive
  <2>1. PICK D, p, c : D = sectors /\ p = pos - 1 /\ c = copied
    OBVIOUS
  <2>2. D \in DiskSectors /\ p \in 0 .. SIZE - 1 /\ Debug!extracting(D)[p].found = c /\ c \in Seq(CopiedFile)
    BY <1>1, <2>1, DebugConstants DEF CopyInv, DebugInv, DebugBase, Seen
  <2>3. PICK f : f = Debug!extracting(D)[SIZE - 1].found
    OBVIOUS
  <2>4. BeginsWith(f, c) /\ f \in Seq(CopiedFile)
    BY <2>2, <2>3, FoundStays DEF Reader
  <2>5. Len(c) <= Len(f) /\ SubSeq(f, 1, Len(c)) = c
    <3>1. Len(c) \in Nat /\ Len(f) \in Nat /\ Len(c) <= Len(f) /\ \A i \in 1 .. Len(c) : f[i] = c[i]
      BY <2>2, <2>4, LenProperties DEF BeginsWith
    <3>2. PICK s, l : s = SubSeq(f, 1, Len(c)) /\ l = Len(c)
      OBVIOUS
    <3>3. /\ \A i \in 1 .. l : f[i] \in CopiedFile
          /\ l \in Nat /\ s = SubSeq(f, 1, l)
      BY <2>2, <3>1, <3>2, ElementOfSeq
    <3>4. s \in Seq(CopiedFile) /\ Len(s) = l /\ \A i \in 1 .. l : s[i] = f[i]
      BY <2>4, <3>1, <3>2, <3>3, SubSeqProperties
    <3>5. s = c
      BY <2>2, <3>1, <3>2, <3>4, SeqEqual
    <3>6. QED BY <3>1, <3>2, <3>5
  <2>6. Debug!FinishedFilesSurvive
    BY <2>1, <2>3, <2>5 DEF Debug!FinishedFilesSurvive, Debug!extract
  <2>7. ASSUME NEW i \in DOMAIN copied
        PROVE  \E q \in AllPaths : q.name = copied[i].name /\ copied[i].body = Content(q)
    <3>1. i \in 1 .. Len(copied)
      BY <2>1, <2>2
    <3>2. QED BY <1>1, <3>1 DEF CopyInv, FromSource, Copied
  <2>8. QED BY <2>6, <2>7 DEF CopiesArrive
<1>2. QED BY <1>1, CopyAlways, PTL

\* On a new disk extract_debugfs.py finds nothing but the files that were copied
\* and, of the one that was being copied, a beginning.
THEOREM NothingElseIsFound == Spec => []NothingElse
<1>1. ASSUME CopyInv, boots = 1 PROVE NothingElse
  <2>1. PICK D, p, c, f : D = sectors /\ p = pos - 1 /\ c = copied /\ f = Debug!extracting(D)[SIZE - 1].found
    OBVIOUS
  <2>2. /\ D \in DiskSectors /\ p \in 0 .. SIZE - 1 /\ Seen = Debug!extracting(D)[p] /\ Seen.found = c
        /\ c \in Seq(CopiedFile) /\ \A k \in p + 1 .. SIZE - 1 : D[k] = Debug!Zeros
    BY <1>1, <2>1, DebugConstants DEF CopyInv, DebugInv, DebugBase, Seen
  <2>3. SUFFICES \/ f = c
                 \/ \E b : /\ f = Append(c, [name |-> current.name, body |-> b])
                           /\ Debug!IsPrefix(b, current.body)
    <3>1. CASE f = c
      BY <2>1, <3>1 DEF NothingElse, Debug!NothingElse, Debug!extract
    <3>2. ASSUME NEW b, f = Append(c, [name |-> current.name, body |-> b]), Debug!IsPrefix(b, current.body)
          PROVE  NothingElse
      <4>1. PICK e : e = [name |-> current.name, body |-> b]
        OBVIOUS
      <4>2. e.name = current.name /\ e.body = b
        BY <4>1
      <4>3. f[Len(f)] = e /\ Len(f) = Len(c) + 1
        <5>1. c \in Seq(CopiedFile \union {e})
          BY <2>2, SeqOfMore
        <5>2. QED BY <3>2, <4>1, <5>1, AppendProperties
      <4>4. QED BY <2>1, <3>2, <4>2, <4>3 DEF NothingElse, Debug!NothingElse, Debug!extract
    <3>3. QED BY <2>3, <3>1, <3>2
  <2>4. CASE debugpanic
    <3>1. p = SIZE - 1
      BY <1>1, <2>1, <2>4 DEF CopyInv, DebugInv, DebugBase
    <3>2. QED BY <2>1, <2>2, <3>1
  <2>5. CASE Between
    <3>1. Seen.name = <<>>
      BY <2>5 DEF Between, Debug!Reading
    <3>2. f = Seen.found
      BY <2>1, <2>2, <3>1, BlankRest
    <3>3. QED BY <2>2, <3>2
  <2>6. CASE Within
    <3>1. PICK flushed \in Text : /\ Seen = Debug!Reading(copied, current.name, flushed, FALSE)
                                  /\ current.body = flushed \o buf /\ buf \in Text
      BY <2>6 DEF Within
    <3>2. Seen.name = current.name /\ Seen.body = flushed
      BY <3>1 DEF Debug!Reading
    <3>3. f \in {c, Append(c, [name |-> current.name, body |-> flushed])}
      <4>1. f \in {Seen.found, Append(Seen.found, [name |-> Seen.name, body |-> Seen.body])}
        BY <2>1, <2>2, BlankRest
      <4>2. QED BY <2>2, <3>2, <4>1
    <3>4. Debug!IsPrefix(flushed, current.body)
      <4>1. PICK x, l, s : x = current.body /\ l = Len(flushed) /\ s = SubSeq(x, 1, l)
        OBVIOUS
      <4>2. /\ x \in Seq(Nat \ {0}) /\ l \in Nat /\ l <= Len(x) /\ \A i \in 1 .. l : x[i] = flushed[i] /\ flushed[i] \in Nat \ {0}
        BY <3>1, <4>1, ConcatPlaces, LenProperties, ElementOfSeq DEF Text
      <4>3. s \in Seq(Nat \ {0}) /\ Len(s) = l /\ \A i \in 1 .. l : s[i] = x[i]
        BY <4>1, <4>2, SubSeqProperties
      <4>4. s = flushed
        BY <3>1, <4>1, <4>2, <4>3, SeqEqual DEF Text
      <4>5. QED BY <4>1, <4>2, <4>4 DEF Debug!IsPrefix
    <3>5. QED BY <3>3, <3>4
  <2>7. QED BY <1>1, <2>4, <2>5, <2>6 DEF CopyInv, DebugInv
<1>2. ASSUME boots # 1 PROVE NothingElse
  BY <1>2 DEF NothingElse, Debug!NothingElse
<1>3. CopyInv => NothingElse
  BY <1>1, <1>2
<1>4. QED BY <1>3, CopyAlways, PTL
=============================================================================
