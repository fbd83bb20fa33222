------------------------------ MODULE CString ------------------------------
(***************************************************************************)
(* The functions of the C library for programs on the disk that are about  *)
(* characters, strings and numbers: diskfs/stdlib/ctype.h, string.h,       *)
(* _digits.h and _strtox.h.                                                *)
(*                                                                         *)
(* A character is its code.  The functions of string.h work on a memory, a *)
(* function from addresses to bytes; a pointer is an address.  A loop that *)
(* changes memory is a recursive operator, one that searches is stated by  *)
(* where it stops.                                                         *)
(***************************************************************************)
EXTENDS Integers, Sequences, FiniteSets, TLC

CONSTANTS
  LongBits,      \* bits of int and long
  MaxBits        \* bits of long long and intmax_t

ASSUME WidthsAssumption == LongBits \in Nat /\ MaxBits \in Nat /\ 4 <= LongBits /\ LongBits < MaxBits

NULL == -1

----------------------------------------------------------------------------
(* ctype.h *)

isspace(c) == (9 <= c /\ c <= 13) \/ c = 32
isupper(c) == 65 <= c /\ c <= 90
islower(c) == 97 <= c /\ c <= 122
isdigit(c) == 97 <= c /\ c <= 122          \* sic: the letters
isalpha(c) == islower(c) \/ isupper(c)
isalnum(c) == isalpha(c) \/ isdigit(c)
tolower(c) == IF isupper(c) THEN c + 97 - 65 ELSE c
toupper(c) == IF islower(c) THEN c + 65 - 97 ELSE c

\* _digits, _Xdigits: the digits, then the lower (upper) case letters.
_digits == [i \in 0 .. 35 |-> IF i < 10 THEN 48 + i ELSE 97 + i - 10]
_Xdigits == [i \in 0 .. 15 |-> IF i < 10 THEN 48 + i ELSE 65 + i - 10]

\* memchr(_digits, c, base): the digit a character is, or NULL.
digit(c, base) ==
  IF \E i \in 0 .. base - 1 : _digits[i] = c
  THEN CHOOSE i \in 0 .. base - 1 : _digits[i] = c ELSE NULL

----------------------------------------------------------------------------
(* string.h *)

\* The first address from p on where the test is true.
FirstOf(S) == CHOOSE i \in S : \A j \in S : i <= j

strlen(m, s) == FirstOf({i \in s .. s + Cardinality(DOMAIN m) : i \notin DOMAIN m \/ m[i] = 0}) - s

\* memcpy and the ascending half of memmove: byte after byte.
RECURSIVE Ascending(_, _, _, _)
Ascending(m, d, s, n) ==
  IF n = 0 THEN m ELSE Ascending([m EXCEPT ![d] = m[s]], d + 1, s + 1, n - 1)

\* The descending half: the last byte first.
RECURSIVE Descending(_, _, _, _)
Descending(m, d, s, n) ==
  IF n = 0 THEN m ELSE Descending([m EXCEPT ![d + n - 1] = m[s + n - 1]], d, s, n - 1)

memcpy(m, d, s, n) == Ascending(m, d, s, n)

\* Mutant: the direction does not depend on the order of the two blocks.
memmove_Ascending(m, d, s, n) == Ascending(m, d, s, n)

memmove(m, d, s, n) == IF d <= s THEN Ascending(m, d, s, n) ELSE Descending(m, d, s, n)

RECURSIVE memset(_, _, _, _)
memset(m, s, c, n) ==
  IF n = 0 THEN m ELSE memset([m EXCEPT ![s] = c % 256], s + 1, c, n - 1)

\* The copy ends with the byte of value zero, which is copied too.
RECURSIVE strcpy(_, _, _)
strcpy(m, d, s) ==
  IF m[s] = 0 THEN [m EXCEPT ![d] = 0]
  ELSE strcpy([m EXCEPT ![d] = m[s]], d + 1, s + 1)

strcat(m, d, s) == strcpy(m, d + strlen(m, d), s)

\* strcmp: the first place where the strings differ or end decides.
strcmp(m, x, y) ==
  LET k == FirstOf({i \in 0 .. strlen(m, x) : m[x + i] # m[y + i] \/ m[x + i] = 0})
  IN  IF m[x + k] < m[y + k] THEN -1 ELSE IF m[y + k] < m[x + k] THEN 1 ELSE 0

strncmp(m, x, y, n) ==
  LET k == FirstOf({i \in 0 .. n : i = n \/ m[x + i] = 0 \/ m[x + i] # m[y + i]})
  IN  IF k = n THEN 0 ELSE m[x + k] - m[y + k]

memcmp(m, x, y, n) ==
  LET k == FirstOf({i \in 0 .. n : i = n \/ m[x + i] # m[y + i]})
  IN  IF k = n THEN 0 ELSE m[x + k] - m[y + k]

memchr(m, s, c, n) ==
  LET k == FirstOf({i \in 0 .. n : i = n \/ m[s + i] = c % 256})
  IN  IF k = n THEN NULL ELSE s + k

\* The character may be the zero at the end.
strchr(m, s, c) ==
  LET k == FirstOf({i \in 0 .. strlen(m, s) : m[s + i] = c \/ m[s + i] = 0})
  IN  IF m[s + k] = c THEN s + k ELSE NULL

\* From the zero at the end back to the start.
RECURSIVE SearchBack(_, _, _, _)
SearchBack(m, s, c, i) ==
  IF m[s + i] = c THEN s + i ELSE IF i = 0 THEN NULL ELSE SearchBack(m, s, c, i - 1)
strrchr(m, s, c) == SearchBack(m, s, c, strlen(m, s))
----------------------------------------------------------------------------
(* Strings to integers: _strtox.h.  A string is a sequence of characters, a *)
(* pointer into it a position from 1 to one past its end, where the         *)
(* terminating zero is.  The types are narrower than those of the code (int *)
(* and long: 32 bits, intmax_t: 64).                                        *)

LONG_MAX == 2 ^ (LongBits - 1) - 1
LONG_MIN == -(2 ^ (LongBits - 1))
ULONG_MAX == 2 ^ LongBits - 1
LLONG_MAX == 2 ^ (MaxBits - 1) - 1
LLONG_MIN == -(2 ^ (MaxBits - 1))
ULLONG_MAX == 2 ^ MaxBits - 1
ERANGE == 3

\* Conversions of integers to types of so many bits.
AsUnsigned(v, bits) == v % (2 ^ bits)
AsSigned(v, bits) == ((v + 2 ^ (bits - 1)) % (2 ^ bits)) - 2 ^ (bits - 1)

At(text, p) == IF p \in DOMAIN text THEN text[p] ELSE 0

\* Division of C, rounded to zero.
CDiv(a, b) == (IF (a < 0) = (b < 0) THEN 1 ELSE -1) *
              ((IF a < 0 THEN -a ELSE a) \div (IF b < 0 THEN -b ELSE b))
CMod(a, b) == a - b * CDiv(a, b)

\* The first position from p on that the test refuses.
SkipSpace(text, p) == FirstOf({i \in p .. Len(text) + 1 : ~isspace(At(text, i))})
SkipDigits(text, p, base) ==
  FirstOf({i \in p .. Len(text) + 1 : digit(tolower(At(text, i)), base) = NULL})

----------------------------------------------------------------------------

RECURSIVE AtoDigits(_, _, _)
AtoDigits(text, p, rc) ==
  LET d == digit(tolower(At(text, p)), 10)
  IN  IF d = NULL THEN rc ELSE AtoDigits(text, p + 1, AsSigned(rc * 10 + d, MaxBits))

\* _atomax and atoi: no check of the range.
AtoSigned(text, p) ==
  IF At(text, p) = 45 THEN -AtoDigits(text, p + 1, 0)
  ELSE AtoDigits(text, IF At(text, p) = 43 THEN p + 1 ELSE p, 0)
atoi(text) == AsSigned(AtoSigned(text, SkipSpace(text, 1)), LongBits)

\* Mutant: "0x" without a digit is not given back.
HexPrefix_Kept(text, p, base) ==
  IF base \in {0, 16} /\ At(text, p + 1) \in {120, 88} THEN [p |-> p + 2, base |-> 16]
  ELSE [p |-> p, base |-> IF base = 0 THEN 8 ELSE base]

\* The text goes on with a 0 at p.
HexPrefix(text, p, base) ==
  IF base \in {0, 16} /\ At(text, p + 1) \in {120, 88}
  THEN [p |-> IF digit(tolower(At(text, p + 2)), 16) = NULL THEN p ELSE p + 2, base |-> 16]
  ELSE [p |-> p, base |-> IF base = 0 THEN 8 ELSE base]

Prefix(text, p, base) ==
  IF At(text, p) = 48 THEN HexPrefix(text, p, base)
  ELSE [p |-> p, base |-> IF base = 0 THEN 10 ELSE base]

\* _strtox_prelim: where the digits begin, the sign and the base.
Signed(text, p, base) ==
  IF At(text, p) \in {43, 45}
  THEN [sign |-> At(text, p)] @@ Prefix(text, p + 1, base)
  ELSE [sign |-> 43] @@ Prefix(text, p, base)
_strtox_prelim(text, p, base) == Signed(text, SkipSpace(text, p), base)

\* _strtox_main: rc is the value so far, any tells whether there was a digit.
Main(rc, p, sign, errno) == [rc |-> rc, p |-> p, sign |-> sign, errno |-> errno]

RECURSIVE _strtox_main(_, _, _, _, _, _)
_strtox_main(text, s, limits, rc, p, any) ==
  LET d == digit(tolower(At(text, p)), s.base)
  IN  IF d = NULL THEN Main(rc, IF any THEN p ELSE NULL, s.sign, 0)
      ELSE IF rc < limits.limval \/ (rc = limits.limval /\ d <= limits.limdigit)
      THEN _strtox_main(text, s, limits, rc * s.base + d, p + 1, TRUE)
      ELSE Main(limits.error, SkipDigits(text, p, s.base), 43, ERANGE)

\* What the caller makes of it: the value in its type, and endptr.
InType(v, signed, bits) == IF signed THEN AsSigned(v, bits) ELSE AsUnsigned(v, bits)
Result(m, s, signed, bits) ==
  [value |-> IF m.sign = 43 THEN InType(m.rc, signed, bits) ELSE InType(-InType(m.rc, signed, bits), signed, bits),
   endptr |-> IF m.p = NULL THEN s ELSE m.p, errno |-> m.errno]

Unchanged(s) == [value |-> 0, endptr |-> NULL, errno |-> 0]

\* The bounds that strtol and strtoll pass for a sign.
Limits(base, sign, min, max) ==
  IF sign = 43 THEN [error |-> max, limval |-> CDiv(max, base), limdigit |-> CMod(max, base)]
  ELSE [error |-> min, limval |-> CDiv(min, -base), limdigit |-> -CMod(min, base)]

Strtol(text, s, p, min, max, bits) ==
  IF p.base < 2 \/ p.base > 36 THEN Unchanged(s)
  ELSE Result(_strtox_main(text, p, Limits(p.base, p.sign, min, max), 0, p.p, FALSE), s, TRUE, bits)

Strtoul(text, s, p, max, bits) ==
  IF p.base < 2 \/ p.base > 36 THEN Unchanged(s)
  ELSE Result(_strtox_main(text, p, Limits(p.base, 43, 0, max), 0, p.p, FALSE), s, FALSE, bits)

strtol(text, s, base) == Strtol(text, s, _strtox_prelim(text, s, base), LONG_MIN, LONG_MAX, LongBits)
strtoll(text, s, base) == Strtol(text, s, _strtox_prelim(text, s, base), LLONG_MIN, LLONG_MAX, MaxBits)
strtoul(text, s, base) == Strtoul(text, s, _strtox_prelim(text, s, base), ULONG_MAX, LongBits)
strtoull(text, s, base) == Strtoul(text, s, _strtox_prelim(text, s, base), ULLONG_MAX, MaxBits)
=============================================================================
