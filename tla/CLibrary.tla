------------------------------ MODULE CLibrary ------------------------------
(***************************************************************************)
(* Calls of the C library and of the lexer of gstaging.c, each on its own: *)
(* the job says which function is called on what, and r is what it returns.*)
(* qsort is the one that takes several steps.  The properties compare what *)
(* is returned with definitions that do not follow the code.               *)
(***************************************************************************)
EXTENDS Scanf, Qsort, GLexer

CONSTANTS
  Strings, Conversions, Prints, Scans, Sorts, Lexed    \* sets of jobs

VARIABLES
  job,
  ran,     \* the function has returned
  r

vars == <<job, ran, r>>

Init ==
  /\ ran = FALSE
  /\ job \in Strings \union Conversions \union Prints \union Scans \union Lexed \union Sorts
  /\ r = IF job.fn = "qsort" THEN QsortStart(job.a, Cardinality(DOMAIN job.a)) ELSE job.mem

Calls(fns) == ~ran /\ job.fn \in fns /\ ran' = TRUE /\ UNCHANGED job

\* string.h on the memory job.mem: what changes it, and what looks at it.
Moves ==
  /\ Calls({"memcpy", "memmove", "memset", "strcpy", "strcat"})
  /\ r' = CASE job.fn = "memcpy"  -> memcpy(job.mem, job.d, job.s, job.n)
            [] job.fn = "memmove" -> memmove(job.mem, job.d, job.s, job.n)
            [] job.fn = "memset"  -> memset(job.mem, job.d, job.s, job.n)
            [] job.fn = "strcpy"  -> strcpy(job.mem, job.d, job.s)
            [] job.fn = "strcat"  -> strcat(job.mem, job.d, job.s)

Searches ==
  /\ Calls({"search"})
  /\ r' = [len |-> strlen(job.mem, job.s), cmp |-> strcmp(job.mem, job.d, job.s),
           ncmp |-> strncmp(job.mem, job.d, job.s, job.n), mcmp |-> memcmp(job.mem, job.d, job.s, job.n),
           chr |-> strchr(job.mem, job.s, job.c), rchr |-> strrchr(job.mem, job.s, job.c),
           mchr |-> memchr(job.mem, job.s, job.c, job.n)]

Converts ==
  /\ Calls({"strtox"})
  /\ r' = [l |-> strtol(job.text, 1, job.base), ul |-> strtoul(job.text, 1, job.base),
           ll |-> strtoll(job.text, 1, job.base), ull |-> strtoull(job.text, 1, job.base),
           i |-> atoi(job.text)]

PrintsOut ==
  /\ Calls({"printf"})
  /\ r' = [whole |-> vfprintf(job.text, job.args), cut |-> vsnprintf(job.mem, job.n, job.text, job.args)]

ScansIn ==
  /\ Calls({"scanf"})
  /\ r' = vsscanf(job.text, job.format)

Sorting ==
  /\ job.fn = "qsort" /\ ~r.done /\ ~r.wild
  /\ r' = qsort(r)
  /\ UNCHANGED <<job, ran>>

Lexes ==
  /\ Calls({"lex"})
  /\ r' = Tokens(job.text, 1)

Next == Moves \/ Searches \/ Converts \/ PrintsOut \/ ScansIn \/ Sorting \/ Lexes

Spec == Init /\ [][Next]_vars

----------------------------------------------------------------------------
(* What the functions should return. *)

\* A zero-terminated string, as a sequence.
Text(m, s) == [i \in 1 .. strlen(m, s) |-> m[s + i - 1]]
Sgn(i) == IF i < 0 THEN -1 ELSE IF i > 0 THEN 1 ELSE 0
\* The order of a dictionary, where a prefix comes first.
Order(x, y) ==
  IF x = y THEN 0
  ELSE IF \/ \E k \in DOMAIN y : /\ SubSeq(x, 1, k - 1) = SubSeq(y, 1, k - 1)
                                 /\ Len(x) = k - 1 \/ (k <= Len(x) /\ x[k] < y[k])
       THEN -1 ELSE 1
Upto(x, n) == SubSeq(x, 1, IF n < Len(x) THEN n ELSE Len(x))
Block(m, s, n) == [i \in 1 .. n |-> m[s + i - 1]]

\* Copies of memory that overlap, in both directions, and of strings: the
\* destination gets what the source was, and nothing else changes.
CopiesExact ==
  /\ ran /\ job.fn \in {"memcpy", "memmove", "strcpy", "strcat"} =>
    LET from == IF job.fn = "strcat" THEN job.d + strlen(job.mem, job.d) ELSE job.d
        len == IF job.fn \in {"memcpy", "memmove"} THEN job.n ELSE strlen(job.mem, job.s) + 1
    IN  r = [a \in DOMAIN job.mem |-> IF from <= a /\ a < from + len THEN job.mem[job.s + a - from]
                                      ELSE job.mem[a]]
  /\ ran /\ job.fn = "memset" =>
       r = [a \in DOMAIN job.mem |-> IF job.d <= a /\ a < job.d + job.n THEN job.s % 256 ELSE job.mem[a]]

\* Comparisons stop at the end of the shorter string, at the limit, and order
\* bytes above 127 after the others; searches find the zero at the end.
SearchesExact ==
  ran /\ job.fn = "search" =>
    LET x == Text(job.mem, job.d)
        y == Text(job.mem, job.s)
        at == {i \in job.s .. job.s + Len(y) : job.mem[i] = job.c}
        within == {i \in job.s .. job.s + job.n - 1 : job.mem[i] = job.c}
    IN  /\ r.cmp = Order(x, y)
        /\ Sgn(r.ncmp) = Order(Upto(x, job.n), Upto(y, job.n))
        /\ Sgn(r.mcmp) = Order(Block(job.mem, job.d, job.n), Block(job.mem, job.s, job.n))
        /\ r.chr = IF at = {} THEN NULL ELSE FirstOf(at)
        /\ r.rchr = IF at = {} THEN NULL ELSE CHOOSE i \in at : \A j \in at : j <= i
        /\ r.mchr = IF within = {} THEN NULL ELSE FirstOf(within)

\* string.h: what is written and what is found.
StringsExact == CopiesExact /\ SearchesExact

\* The number that digits stand for, without the limits of a type.
DigitsOf(text, from, to, base) ==
  LET sum[i \in from - 1 .. to] ==
        IF i < from THEN 0 ELSE sum[i - 1] * base + digit(tolower(text[i]), base)
  IN  sum[to]

\* The longest part of a text that is spaces, a sign, a prefix for the base,
\* and digits: where its digits begin and end, and its base.
Subject(text, start, last, base) ==
  LET sign == SkipSpace(text, start)
      first == IF At(text, sign) \in {43, 45} /\ sign <= last THEN sign + 1 ELSE sign
      hex == /\ base \in {0, 16} /\ At(text, first) = 48 /\ At(text, first + 1) \in {88, 120}
             /\ digit(tolower(At(text, first + 2)), 16) # NULL /\ first + 2 <= last
      b == IF base # 0 THEN base ELSE IF hex THEN 16 ELSE IF At(text, first) = 48 THEN 8 ELSE 10
      from == IF hex THEN first + 2 ELSE first
      ends == {e \in from - 1 .. last : \A i \in from .. e : digit(tolower(At(text, i)), b) # NULL}
  IN  [negative |-> At(text, sign) = 45, from |-> from, base |-> b,
       to |-> CHOOSE e \in ends : \A f \in ends : f <= e]

Clipped(v, min, max) == IF v < min THEN min ELSE IF v > max THEN max ELSE v

\* strtol and its relatives take the longest prefix that is a number, stop at
\* the first character that is not, give 0x back when no digit follows, and
\* report the nearest limit, with ERANGE, when the value is beyond it.
Limited(w, end, min, max) ==
  [value |-> Clipped(w, min, max), endptr |-> end, errno |-> IF w < min \/ w > max THEN ERANGE ELSE 0]
LimitedUnsigned(v, negative, end, max) ==
  [value |-> IF v > max THEN max ELSE (IF negative THEN -v ELSE v) % (max + 1), endptr |-> end,
   errno |-> IF v > max THEN ERANGE ELSE 0]
AllLimited(s, v, w, end) ==
  /\ r.l = Limited(w, end, LONG_MIN, LONG_MAX)
  /\ r.ll = Limited(w, end, LLONG_MIN, LLONG_MAX)
  /\ r.ul = LimitedUnsigned(v, s.negative, end, ULONG_MAX)
  /\ r.ull = LimitedUnsigned(v, s.negative, end, ULLONG_MAX)
  /\ job.base = 10 => r.i = AsSigned(w, LongBits)
Stands(s, v) == AllLimited(s, v, IF s.negative THEN -v ELSE v, IF s.to < s.from THEN 1 ELSE s.to + 1)
SubjectConverted(s) == Stands(s, DigitsOf(job.text, s.from, s.to, s.base))
ConversionsExact ==
  ran /\ job.fn = "strtox" => SubjectConverted(Subject(job.text, 1, Len(job.text), job.base))

----------------------------------------------------------------------------

Magnitude(v) == IF v < 0 THEN -v ELSE v
\* The digits of a number, none for zero.
DigitCount(v, base) == CHOOSE k \in 0 .. 2 * MaxBits : base ^ k > v /\ (k = 0 \/ base ^ (k - 1) <= v)
Numeral(v, base, upper) ==
  [i \in 1 .. DigitCount(v, base) |->
     (IF upper THEN _Xdigits ELSE _digits)[(v \div base ^ (DigitCount(v, base) - i)) % base]]

\* What a conversion means: sign or prefix, digits up to the precision, and
\* blanks or zeros up to the width.
Field(j, front, body) ==
  LET fill == j.width - Len(front) - Len(body)
  IN  IF "minus" \in j.flags THEN front \o body \o Times(32, fill)
      ELSE IF "zero" \in j.flags /\ j.prec < 0 THEN front \o Times(48, fill) \o body
      ELSE Times(32, fill) \o front \o body

Meaning(j, v) ==
  LET prec == IF j.prec < 0 THEN 1 ELSE j.prec
      digits == Numeral(Magnitude(v), j.base, j.upper)
      front == IF j.unsigned THEN IF "alt" \in j.flags /\ v # 0 THEN j.prefix ELSE <<>>
               ELSE IF v < 0 THEN <<45>>
               ELSE IF "plus" \in j.flags THEN <<43>> ELSE IF "space" \in j.flags THEN <<32>> ELSE <<>>
  IN  Field(j, front, Times(48, prec - Len(digits)) \o digits)

\* The meaning of a job: text before, the conversion, text after it.
Printed ==
  job.before \o
  (IF job.base = 0 THEN Field([job EXCEPT !.flags = @ \ {"zero"}], <<>>,
                              IF job.prec < 0 THEN job.value ELSE Upto(job.value, job.prec))
   ELSE Meaning(job, IF job.unsigned THEN AsUnsigned(job.value, job.bits) ELSE AsSigned(job.value, job.bits)))
  \o job.after

\* Integers and strings come out as the specification says, whatever flags,
\* width, precision and length are combined, the smallest number included.
PrintsWhole == ran /\ job.fn = "printf" => ~r.whole.wild /\ r.whole.out = Printed

\* snprintf returns the length of the whole, and writes as much of it as fits
\* and nothing beyond the buffer.  A zero ends what fits; of what does not, a
\* zero replaces the last character only if a number has reached the end of
\* the buffer: a text that is cut off is not terminated.
NumberReaches(j) == j.base > 0 /\ Len(Printed) - Len(j.after) >= j.n
SnprintfCuts ==
  ran /\ job.fn = "printf" =>
    /\ r.cut.i = Len(Printed)
    /\ \A k \in DOMAIN job.mem :
         r.cut.s[k] = IF k >= job.n \/ k > Len(Printed) THEN job.mem[k]
                      ELSE IF k = Len(Printed) \/ (k = job.n - 1 /\ NumberReaches(job)) THEN 0
                      ELSE Printed[k + 1]

\* Formatted output is what the specification means, whole and cut off.
PrintsExact == PrintsWhole /\ SnprintfCuts

----------------------------------------------------------------------------

\* The width counts from the first character that is not a blank.
LastOf(j) == IF j.width = 0 THEN Len(j.text) ELSE SkipSpace(j.text, 1) + j.width - 1
Last(j) == IF LastOf(j) < Len(j.text) THEN LastOf(j) ELSE Len(j.text)

\* An integer is read as strtol would read as many characters: the value, the
\* number of conversions and of characters; but 0x is not given back.  Where
\* a digit is missing, the end of the input and another character make a
\* difference, of which the width is no part.
ScansInteger ==
  ran /\ job.fn = "scanf" /\ job.base >= 0 =>
    LET s == Subject(job.text, 1, Last(job), job.base)
        first == SkipSpace(job.text, 1)
        at == IF At(job.text, first) \in {43, 45} /\ first <= Last(job) THEN first + 1 ELSE first
        half == /\ job.base \in {0, 16} /\ at + 1 <= Last(job) /\ At(job.text, at) = 48
                /\ At(job.text, at + 1) = 120 /\ s.from = at
        missing == IF half THEN at + 2 ELSE at
        v == DigitsOf(job.text, s.from, s.to, s.base)
        w == IF s.negative THEN -v ELSE v
    IN  IF half \/ s.to < s.from
        THEN /\ r.stored = <<>>
             /\ r.n = IF missing > Len(job.text) /\ (job.width = 0 \/ missing <= LastOf(job)) THEN -1 ELSE 0
        ELSE /\ r.n = 1 /\ r.s = s.to + 1 /\ r.i = s.to
             /\ r.stored = <<IF job.signed THEN AsSigned(w, LongBits) ELSE AsUnsigned(w, LongBits)>>

\* What printf writes, scanf reads back.
Reader(j) == IF ~j.unsigned THEN 100 ELSE IF j.base = 10 THEN 117 ELSE IF j.base = 8 THEN 111 ELSE 120
ScanReadsPrint ==
  ran /\ job.fn = "printf" /\ job.base > 0 /\ job.before = <<>> /\ job.bits = LongBits
      /\ (job.prec # 0 \/ job.value # 0) =>
    LET back == vsscanf(r.whole.out, <<37, Reader(job)>>)
    IN  /\ back.n = 1
        /\ back.stored = << IF job.unsigned THEN AsUnsigned(job.value, LongBits)
                            ELSE AsSigned(job.value, LongBits) >>

\* The characters a scanset names: each of its own, and what lies between two
\* with a minus in between.  A range may begin where another one ends.
RECURSIVE Named(_)
Named(set) ==
  IF set = <<>> THEN {}
  ELSE IF Len(set) >= 3 /\ set[2] = 45 THEN {set[1]} \union (set[1] .. set[3]) \union Named(SubSeq(set, 3, Len(set)))
  ELSE {set[1]} \union Named(Tail(set))

\* %[ takes the longest run of characters that the set names, or, after a ^,
\* does not name, and terminates it; an empty run is a mismatch, which ends
\* the call, and only the end of the input counts as an error.
SetsExact ==
  ran /\ job.fn = "scanf" /\ job.base < 0 =>
    LET In(c) == (c \in Named(job.set)) # job.negative
        end == FirstOf({j \in 1 .. Len(job.text) + 1 : j > Len(job.text) \/ ~In(job.text[j])})
    IN  IF end = 1 THEN r.stored = <<>> /\ r.n = IF job.text = <<>> THEN -1 ELSE 0
        ELSE r.n = 1 /\ r.stored = <<SubSeq(job.text, 1, end - 1) \o <<0>>>> /\ r.s = end

\* Formatted input: what is taken, what is left, what is stored and what is
\* returned, for integers and sets, and for what printf has written.
ScansExact == ScansInteger /\ SetsExact /\ ScanReadsPrint

----------------------------------------------------------------------------

\* qsort orders the array, loses no element and doubles none, and its two
\* scans, which have no check of their own, stay inside the part they sort.
SortsRight ==
  job.fn = "qsort" =>
    /\ ~r.wild
    /\ {r.a[i] : i \in DOMAIN r.a} = {job.a[i] : i \in DOMAIN job.a}
    /\ r.done => \A i, j \in DOMAIN r.a : i < j => r.a[i].key <= r.a[j].key

\* The parts on the stack wait for one that is at most half of each of them,
\* which is why a stack of 64 entries is enough for any array: every entry
\* at least doubles the number of elements.
StackIsShort ==
  job.fn = "qsort" =>
    /\ (r.limit - r.base) * 2 ^ Len(r.stack) <= Cardinality(DOMAIN job.a)
    /\ 2 * Len(r.stack) <= STACKSIZE
    /\ r.done => r.stack = <<>>

\* qsort sorts, in the memory it has.
SortsExact == SortsRight /\ StackIsShort

\* How a byte is written in a literal.
Written(b) ==
  CASE b = 10 -> <<Backslash, 110>> [] b = 9 -> <<Backslash, 116>> [] b = 0 -> <<Backslash, 48>>
    [] b \in {Backslash, Tick, Quote} -> <<Backslash, b>> [] OTHER -> <<b>>
RECURSIVE WrittenAll(_)
WrittenAll(bytes) == IF bytes = <<>> THEN <<>> ELSE Written(Head(bytes)) \o WrittenAll(Tail(bytes))
StringOf(bytes) == <<Quote>> \o WrittenAll(bytes) \o <<Quote>>
CharacterOf(b) == <<Tick>> \o Written(b) \o <<Tick>>

\* The tokens are those the text was written from, whatever spaces, comment
\* signs, quotes and backslashes the literals hold, and each literal stands
\* for the bytes it was written for.
LexesAsWritten ==
  ran /\ job.fn = "lex" =>
    /\ r = job.tokens
    /\ \A k \in DOMAIN job.literals :
         LET l == job.literals[k]
         IN  IF l.string THEN emit_escaped_string2(StringOf(l.bytes)) = l.bytes
             ELSE decode_number_or_char2(CharacterOf(l.bytes[1])) = l.bytes
=============================================================================
