------------------------------- MODULE Int64 -------------------------------
(***************************************************************************)
(* Arithmetic on 64-bit integers for a 32-bit processor: the routines of   *)
(* diskfs/int64/int64.asm, and the division that asmg/int64_div.g builds   *)
(* on them.  A number is a pair of words, <<lower, upper>>; every routine  *)
(* replaces its first operand by the result.  Words are W bits wide, 32 in *)
(* the code, and every constant of the code that comes from that width is  *)
(* written in terms of W.                                                  *)
(*                                                                         *)
(* A run is one call on operands chosen at random.                         *)
(***************************************************************************)
EXTENDS Integers, Sequences

CONSTANTS
  W,           \* bits of a word
  HalvingW,    \* W/2, W/4, .. 1: the steps of nlz
  Ops,         \* the routines that are called
  Addresses    \* what registers and stack slots may hold as addresses

B == 2^W
Words == 0 .. B - 1
Top == 2^(W - 1)
Doubles == Words \X Words

ASSUME Int64Constants ==
  /\ W \in Nat \ {0} /\ Addresses \subseteq Words /\ Addresses # {}
  /\ \A i \in DOMAIN HalvingW : HalvingW[i] * 2^i = W

VARIABLES
  op,    \* "none", the routine that returned, or "trap" (#DE)
  was,   \* the first operand before the call
  n,     \* the first operand
  d      \* the second one

vars == <<op, was, n, d>>

-----------------------------------------------------------------------------
\* Numbers that pairs of words stand for, without and with sign.
Unsigned(x) == x[1] + B * x[2]
Signed(x) == IF x[2] >= Top THEN Unsigned(x) - B * B ELSE Unsigned(x)

SignedWord(w) == IF w >= Top THEN w - B ELSE w

-----------------------------------------------------------------------------
(* diskfs/int64/int64.asm *)

i64_from_u32(w) == <<w, 0>>

\* add, adc
i64_add(x, y) ==
  LET carry == (x[1] + y[1]) \div B
  IN  <<(x[1] + y[1]) % B, (x[2] + y[2] + carry) % B>>

\* Mutant: sub instead of sbb.
i64_sub_NoBorrow(x, y) == <<(x[1] - y[1]) % B, (x[2] - y[2]) % B>>

\* sub, sbb
i64_sub(x, y) ==
  LET borrow == IF x[1] < y[1] THEN 1 ELSE 0
  IN  <<(x[1] - y[1]) % B, (x[2] - y[2] - borrow) % B>>

\* neg sets the carry unless the word is zero; adc; neg
i64_neg(x) ==
  LET carry == IF x[1] = 0 THEN 0 ELSE 1
  IN  <<(-x[1]) % B, (-(x[2] + carry)) % B>>

i64_mul(x, y) ==
  LET low == x[1] * y[1]
  IN  <<low % B, (low \div B + y[1] * x[2] + x[1] * y[2]) % B>>

\* The processor raises #DE when the quotient does not fit in a word.
Traps(x, w) == w = 0 \/ x[2] >= w

i64_udiv_64_by_32(x, w) == <<Unsigned(x) \div w, 0>>

\* shl, shld and so on take the count modulo the width of a word.
i64_shl(x, y) ==
  LET c == y[1] % W
      lower == (x[1] * 2^c) % B
      upper == ((Unsigned(x) * 2^c) \div B) % B
  IN  IF y[1] < W THEN <<lower, upper>> ELSE <<0, lower>>

i64_shr(x, y) ==
  LET c == y[1] % W
      lower == (Unsigned(x) \div 2^c) % B
      upper == x[2] \div 2^c
  IN  IF y[1] < W THEN <<lower, upper>> ELSE <<upper, 0>>

i64_sar(x, y) ==
  LET c == y[1] % W
      lower == (Unsigned(x) \div 2^c) % B
      upper == SignedWord(x[2]) \div 2^c
  IN  IF y[1] < W THEN <<lower, upper % B>>
      ELSE <<upper % B, IF upper < 0 THEN B - 1 ELSE 0>>

i64_ret(b) == <<IF b THEN 1 ELSE 0, 0>>

\* The upper words decide, and the lower ones if those are equal.
i64_ul(x, y) == i64_ret(x[2] < y[2] \/ (x[2] = y[2] /\ x[1] < y[1]))
i64_l(x, y) ==
  i64_ret(\/ SignedWord(x[2]) < SignedWord(y[2])
          \/ (x[2] = y[2] /\ x[1] < y[1]))

\* The upper word of the result is what the caller has left in edx.
i64_lnot(x, edx) == <<IF x[1] = 0 /\ x[2] = 0 THEN 1 ELSE 0, edx>>

-----------------------------------------------------------------------------
(* asmg/int64_div.g *)

\* Leading zeros of a word: every step shifts out half of the width left.
nlz(w) ==
  LET step[i \in 0 .. Len(HalvingW)] ==
        IF i = 0 THEN [x |-> w, n |-> 0]
        ELSE LET s == step[i - 1]
                 h == HalvingW[i]
             IN  IF s.x < 2^(W - h) THEN [x |-> s.x * 2^h, n |-> s.n + h] ELSE s
  IN  step[Len(HalvingW)].n

\* The locals of i64_udiv in the order of their declarations, that is, of
\* descending addresses, below the saved ebp.  A double is named by its lower
\* word; its upper word is at the next address.
Slots == <<"ebp", "n", "d", "cmp_", "cmp", "d1", "s", "tmp1_", "tmp1", "tmp2",
           "tmp2_", "one", "one_", "dcopy_", "dcopy", "q_", "q">>

Above(v) == Slots[(CHOOSE i \in DOMAIN Slots : Slots[i] = v) - 1]
Get(f, v) == <<f[v], f[Above(v)]>>
Put(f, v, x) == [f EXCEPT ![v] = x[1], ![Above(v)] = x[2]]

Frame(ebp, np) ==
  [v \in {Slots[i] : i \in DOMAIN Slots} |->
     IF v = "ebp" THEN ebp ELSE IF v = "n" THEN np ELSE 0]

\* Mutant: the upper word is not reduced first.
NarrowNumerator_Whole(x, y) == x
\* The denominator fits in a word: the upper word of the numerator is divided
\* first, so that the division by the processor does not overflow.
NarrowNumerator(x, y) == <<x[1], x[2] % y[1]>>
udiv_narrow(x, y) ==
  LET r == i64_udiv_64_by_32(NarrowNumerator(x, y), y[1])
  IN  <<r[1], (r[2] + x[2] \div y[1]) % B>>

\* Mutant: the numerator keeps its top bit.
WideNumerator_Whole(x) == x

\* It does not: both are shifted to the right, the quotient may be one too
\* large.  WideNumerator and WideDenominator are q and dcopy_ at the division.
WideNumerator(x) == i64_shr(x, i64_from_u32(1))
WideDenominator(y) == i64_shl(y, i64_from_u32(nlz(y[2])))[2]

\* The last test of the code reads `@tmp2 @n i64_copy' where n, a pointer, has
\* the address of the numerator.
udiv_wide(x, y, ebp, np) ==
  LET divided == Put(Put(Frame(ebp, np), "one", i64_from_u32(1)), "q",
                     i64_udiv_64_by_32(WideNumerator(x), WideDenominator(y)))
      Shift(f) == Put(f, "tmp1", i64_from_u32(W - 1 - nlz(y[2])))
      Scaled(f) == Put(f, "q", i64_shr(Get(f, "q"), Get(f, "tmp1")))
      Lowered(f) == Put(f, "q", i64_sub(Get(f, "q"), Get(f, "one")))
      Multiplied(f) == Put(f, "tmp1", i64_mul(Get(f, "q"), y))
      Copied(f) == Put(f, "tmp2", Get(f, "n"))
      Remainder(f) == Put(f, "tmp2", i64_sub(Get(f, "tmp2"), Get(f, "tmp1")))
      Compared(f) == Put(f, "tmp2", i64_ul(Get(f, "tmp2"), y))
      Quotient(f) == IF f["tmp2"] = 0 THEN i64_add(Get(f, "q"), Get(f, "one")) ELSE Get(f, "q")
  IN  Quotient(Compared(Remainder(Copied(Multiplied(Lowered(Scaled(Shift(divided))))))))

\* Does a division instruction of i64_udiv trap?
udiv_traps(x, y) ==
  IF y[2] = 0 THEN Traps(NarrowNumerator(x, y), y[1])
  ELSE /\ i64_ul(x, y)[1] = 0
       /\ Traps(WideNumerator(x), WideDenominator(y))

i64_udiv(x, y, ebp, np) ==
  IF y[2] = 0 THEN udiv_narrow(x, y)
  ELSE IF i64_ul(x, y)[1] = 1 THEN i64_from_u32(0)
  ELSE udiv_wide(x, y, ebp, np)

Negative(x) == x[2] >= Top
Magnitude(x) == IF Negative(x) THEN i64_neg(x) ELSE x

i64_sdiv(x, y, ebp, np) ==
  LET q == i64_udiv(Magnitude(x), Magnitude(y), ebp, np)
  IN  IF Negative(x) # Negative(y) THEN i64_neg(q) ELSE q

i64_umod(x, y, ebp, np) == i64_sub(x, i64_mul(i64_udiv(x, y, ebp, np), y))
i64_smod(x, y, ebp, np) == i64_sub(x, i64_mul(i64_sdiv(x, y, ebp, np), y))

-----------------------------------------------------------------------------
Init ==
  /\ op = "none"
  /\ n \in Doubles /\ d \in Doubles
  /\ was = n

\* The routine o returns the double x.
Returns(o, x) ==
  /\ op = "none" /\ o \in Ops
  /\ op' = o /\ n' = x
  /\ UNCHANGED <<was, d>>

Arithmetic ==
  \/ Returns("add", i64_add(n, d))
  \/ Returns("sub", i64_sub(n, d))
  \/ Returns("neg", i64_neg(n))
  \/ Returns("mul", i64_mul(n, d))

Shifts ==
  \/ Returns("shl", i64_shl(n, d))
  \/ Returns("shr", i64_shr(n, d))
  \/ Returns("sar", i64_sar(n, d))

Logic ==
  \/ Returns("ul", i64_ul(n, d))
  \/ Returns("l", i64_l(n, d))
  \/ \E edx \in Addresses : Returns("lnot", i64_lnot(n, edx))

\* How a division of x by y goes: the first statement of i64_udiv asserts that
\* the denominator is not zero.
Outcome(o, x, y) ==
  CASE y = <<0, 0>> -> "zero"
    [] y # <<0, 0>> /\ udiv_traps(x, y) -> "trap"
    [] OTHER -> o

\* The assertions of i64_sdiv on the two magnitudes come first.
SignedOutcome(o, x, y) ==
  IF \E m \in {Magnitude(x), Magnitude(y)} : Negative(m) /\ m[2] # Top
  THEN "panic" ELSE Outcome(o, Magnitude(x), Magnitude(y))

Divides(o, outcome, F(_, _, _, _)) ==
  /\ op = "none" /\ o \in Ops
  /\ op' = outcome
  /\ IF outcome = o THEN \E ebp, np \in Addresses : n' = F(n, d, ebp, np)
     ELSE n' = n
  /\ UNCHANGED <<was, d>>

Division ==
  \/ Divides("udiv", Outcome("udiv", n, d), i64_udiv)
  \/ Divides("umod", Outcome("umod", n, d), i64_umod)
  \/ Divides("sdiv", SignedOutcome("sdiv", n, d), i64_sdiv)
  \/ Divides("smod", SignedOutcome("smod", n, d), i64_smod)

Next == Arithmetic \/ Shifts \/ Logic \/ Division

Spec == Init /\ [][Next]_vars

-----------------------------------------------------------------------------
Wrap(i) == i % (B * B)

\* Carries, borrows and partial products between the two words lose nothing.
SumsExact ==
  LET x == Unsigned(was)
      y == Unsigned(d)
      r == Unsigned(n)
  IN  /\ op = "add" => r = Wrap(x + y)
      /\ op = "sub" => r = Wrap(x - y)
      /\ op = "neg" => r = Wrap(-x)
      /\ op = "mul" => r = Wrap(x * y)
      /\ op = "ul" => r = IF x < y THEN 1 ELSE 0
      /\ op = "l" => r = IF Signed(was) < Signed(d) THEN 1 ELSE 0

\* Shifts by less than 64 move bits between the words and at the boundary of
\* 32, where the processor shifts by 0, as C wants them.
ShiftsExact ==
  d[2] = 0 /\ d[1] < 2 * W =>
    /\ op = "shl" => Unsigned(n) = Wrap(Unsigned(was) * 2^d[1])
    /\ op = "shr" => Unsigned(n) = Unsigned(was) \div 2^d[1]
    /\ op = "sar" => Signed(n) = Signed(was) \div 2^d[1]

\* The quotients of both branches of i64_udiv fit in a word, so that the
\* processor never traps, for the signed routines not at -2^63 either; and
\* only a denominator of zero ends in an assertion.
NoTrap ==
  /\ op \notin {"trap", "panic"}
  /\ op = "zero" => d = <<0, 0>>

Abs(i) == IF i < 0 THEN -i ELSE i
\* The quotient of C, rounded to zero.
Quotient(i, j) ==
  (IF (i < 0) = (j < 0) THEN 1 ELSE -1) * (Abs(i) \div Abs(j))

\* Division by a denominator whose magnitude fits in a word is exact, with the
\* signs that C wants, and -2^63 / -1 wraps.
NarrowExact ==
  LET i == Signed(was)
      j == Signed(d)
  IN  /\ op = "udiv" /\ d[2] = 0 => Unsigned(n) = Unsigned(was) \div d[1]
      /\ op = "umod" /\ d[2] = 0 => Unsigned(n) = Unsigned(was) % d[1]
      /\ op = "sdiv" /\ Abs(j) < B => Unsigned(n) = Wrap(Quotient(i, j))
      /\ op = "smod" /\ Abs(j) < B => Unsigned(n) = Wrap(i - j * Quotient(i, j))

\* i64_add, i64_sub, i64_neg and i64_mul are arithmetic modulo 2^64, the
\* comparisons order the numbers, and shifts and divisions are those of C.
ArithmeticExact == SumsExact /\ ShiftsExact /\ NarrowExact

\* A denominator of more than 32 bits, for which i64_udiv drops bits: the
\* quotient is off by one at most, whatever the last correction decides.
WideWithinOne ==
  /\ op = "udiv" =>
       Abs(Unsigned(n) - Unsigned(was) \div Unsigned(d)) <= 1
  /\ op = "sdiv" /\ Signed(was) # -(B * Top) =>
       Abs(Signed(n) - Quotient(Signed(was), Signed(d))) <= 1

\* What int64_test_one_div asserts of an unsigned division: "mod is not smaller
\* than denominator after unsigned division" and "unsigned division did not
\* work" are the failures.
DivisionExact ==
  /\ op = "udiv" => Unsigned(n) = Unsigned(was) \div Unsigned(d)
  /\ op = "umod" => Unsigned(n) < Unsigned(d)
=============================================================================
