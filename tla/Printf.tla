------------------------------- MODULE Printf -------------------------------
(***************************************************************************)
(* Formatted output: diskfs/stdlib/_printf.h.  A format is a sequence of   *)
(* characters; the arguments are a sequence, of numbers and of texts.      *)
(*                                                                         *)
(* The record st is the _status_t of the code, with the flags as a set.    *)
(* What is delivered goes to the memory s, from address 0, or to a stream, *)
(* whose contents are out.                                                 *)
(***************************************************************************)
EXTENDS CString

CONSTANTS
  CharBits,
  ShortBits

EOF == -1
SIZE_MAX == ULONG_MAX

----------------------------------------------------------------------------
(* Delivery *)

\* Mutant: the limit of snprintf is off by one.
PUT_Beyond(st, chars) ==
  IF st.stream THEN [st EXCEPT !.out = @ \o chars, !.i = @ + Len(chars)]
  ELSE [st EXCEPT !.i = @ + Len(chars),
                  !.s = [k \in DOMAIN @ |-> IF st.i <= k /\ k < st.i + Len(chars) /\ k <= st.n
                                            THEN chars[k - st.i + 1] ELSE @[k]]]

\* PUT, of one character after the other.
PUT(st, chars) ==
  IF st.stream THEN [st EXCEPT !.out = @ \o chars, !.i = @ + Len(chars)]
  ELSE [st EXCEPT !.i = @ + Len(chars),
                  !.s = [k \in DOMAIN @ |-> IF st.i <= k /\ k < st.i + Len(chars) /\ k < st.n
                                            THEN chars[k - st.i + 1] ELSE @[k]]]

\* Characters that count towards the width.
Emit(st, chars) == [PUT(st, chars) EXCEPT !.current = @ + Len(chars)]

Times(c, k) == IF k <= 0 THEN <<>> ELSE [i \in 1 .. k |-> c]
Fill(st, c) == Emit(st, Times(c, st.width - st.current))
Larger(a, b) == IF a < b THEN b ELSE a
Has(st, f) == f \in st.flags

----------------------------------------------------------------------------
(* intformat: everything in front of the digits, of which there are        *)
(* st.current.                                                             *)

Prefixed(st, value) ==
  IF Has(st, "alt") /\ st.base \in {8, 16} /\ value # 0
  THEN IF st.base = 8 THEN <<48>> ELSE <<48, IF Has(st, "lower") THEN 120 ELSE 88>>
  ELSE <<>>

SignOf(st, value) ==
  IF value < 0 THEN <<45>>
  ELSE IF Has(st, "unsigned") THEN <<>>
  ELSE IF Has(st, "plus") THEN <<43>> ELSE IF Has(st, "space") THEN <<32>> ELSE <<>>

Spaces(st, preface) ==
  IF Has(st, "minus") \/ Has(st, "zero") THEN <<>>
  ELSE Times(32, st.width - (Len(preface) + Larger(st.current, st.prec)))

ZeroFill(st) == IF Has(st, "zero") /\ ~Has(st, "minus") THEN Fill(st, 48) ELSE st

Front(st, preface) ==
  ZeroFill(Emit(st, Spaces(st, preface) \o preface \o Times(48, st.prec - st.current)))

intformat(value, st) ==
  Front(IF st.prec < 0 THEN [st EXCEPT !.prec = 1] ELSE st,
        Prefixed(st, value) \o SignOf(st, value))

\* The last digit, after all that comes before it.
Digit(st, value) ==
  PUT(st, <<(IF Has(st, "lower") THEN _digits ELSE _Xdigits)[IF value < 0 THEN -CMod(value, st.base)
                                                             ELSE CMod(value, st.base)]>>)

\* INT2BASE
RECURSIVE int2base(_, _), Before(_, _, _)
int2base(value, st) ==
  IF st.current = 0 /\ value = 0 /\ st.prec = 0 THEN intformat(value, st)
  ELSE Digit(Before(value, CDiv(value, st.base), [st EXCEPT !.current = @ + 1]), value)
Before(value, rest, st) == IF rest # 0 THEN int2base(rest, st) ELSE intformat(value, st)

----------------------------------------------------------------------------
(* stringformat: the precision becomes the number of characters. *)

StringLength(text, st) ==
  IF Has(st, "char") THEN 1
  ELSE IF st.prec < 0 \/ st.prec > Len(text) THEN Len(text) ELSE st.prec

StringParts(text, st, k) ==
  LET left == IF Has(st, "minus") THEN st ELSE Emit(st, Times(32, st.width - k - st.current))
      chars == Emit(left, [i \in 1 .. k |-> At(text, i)])
  IN  IF Has(st, "minus") THEN Fill(chars, 32) ELSE chars

stringformat(text, st) == [StringParts(text, st, StringLength(text, st)) EXCEPT !.prec = 0]

----------------------------------------------------------------------------
(* _print: one specification, which begins at the character after p.       *)

FlagOf(c) ==
  CASE c = 45 -> "minus" [] c = 43 -> "plus" [] c = 35 -> "alt"
    [] c = 32 -> "space" [] c = 48 -> "zero" [] OTHER -> "done"

RECURSIVE Flags(_, _, _)
Flags(text, p, flags) ==
  IF FlagOf(At(text, p)) = "done" THEN [p |-> p, flags |-> flags]
  ELSE Flags(text, p + 1, flags \union {FlagOf(At(text, p))})

\* va_arg
Taken(st) == [st EXCEPT !.arg = Tail(@)]
Arg(st) == Head(st.arg)

\* Every part of a specification takes and returns the status and a position.
Place(st, p) == [st |-> st, p |-> p]

WidthArg(st, w) ==
  IF w < 0 THEN [st EXCEPT !.width = -w, !.flags = @ \union {"minus"}] ELSE [st EXCEPT !.width = w]
WidthRead(st, w) == Place([st EXCEPT !.width = AsUnsigned(w.value, LongBits)], w.endptr)
Width(text, st, p) ==
  IF At(text, p) = 42 THEN Place(WidthArg(Taken(st), Arg(st)), p + 1)
  ELSE WidthRead(st, strtol(text, p, 10))

PrecisionRead(st, p, w) == Place([st EXCEPT !.prec = IF w.endptr = p THEN 0 ELSE w.value], w.endptr)
PrecisionValue(text, st, p) ==
  IF At(text, p) = 42 THEN Place([Taken(st) EXCEPT !.prec = Arg(st)], p + 1)
  ELSE PrecisionRead(st, p, strtol(text, p, 10))

Precision(text, st, p) ==
  IF At(text, p) # 46 THEN Place(st, p)
  ELSE PrecisionValue(text, [st EXCEPT !.flags = @ \ {"zero"}], p + 1)

Length(text, st, p) ==
  LET c == At(text, p)
      twice == At(text, p + 1) = c
      With(f, q) == Place([st EXCEPT !.flags = @ \union {f}], q)
  IN  CASE c = 104 -> IF twice THEN With("char", p + 2) ELSE With("short", p + 1)
        [] c = 108 -> IF twice THEN With("llong", p + 2) ELSE With("long", p + 1)
        [] c = 106 -> With("intmax", p + 1)
        [] c = 122 -> With("size", p + 1)
        [] c = 116 -> With("ptrdiff", p + 1)
        [] c = 76  -> With("ldouble", p + 1)
        [] OTHER   -> Place(st, p)

\* The value of an integer argument; no width of unsigned value stands for the
\* combinations of flags that are refused.
UnsignedWidth(flags) ==
  LET f == flags \intersect {"char", "short", "long", "llong", "size", "pointer", "intmax"}
  IN  CASE f = {"char"} -> CharBits [] f = {"short"} -> ShortBits
        [] f \in {{}, {"long"}, {"size"}, {"pointer"}} -> LongBits
        [] f \in {{"llong"}, {"intmax"}} -> MaxBits [] OTHER -> 0
SignedWidth(flags) ==
  LET f == flags \intersect {"char", "short", "long", "llong", "intmax"}
  IN  CASE f = {"char"} -> CharBits [] f = {"short"} -> ShortBits [] f \in {{}, {"long"}} -> LongBits
        [] f \in {{"llong"}, {"intmax"}} -> MaxBits [] OTHER -> 0

\* After the digits: the field is filled, and a buffer that is full is closed.
Finish(st) ==
  IF st.i >= st.n /\ st.n > 0
  THEN [st EXCEPT !.s = [@ EXCEPT ![st.n - 1] = 0]] ELSE st
AfterDigits(st) == Finish(IF Has(st, "minus") THEN Fill(st, 32) ELSE st)

\* int2base takes intmax_t: only the first division is unsigned.
IsUnsigned(st) == "unsigned" \in st.flags
ArgWidth(st) == IF IsUnsigned(st) THEN UnsignedWidth(st.flags) ELSE SignedWidth(st.flags)
ArgValue(st, bits) == IF IsUnsigned(st) THEN AsUnsigned(Arg(st), bits) ELSE AsSigned(Arg(st), bits)
Integer(st, p, bits) ==
  IF bits = 0 THEN Place(st, NULL)
  ELSE Place(AfterDigits(int2base(ArgValue(st, bits), Taken(st))), p + 1)
IntegerAs(st, p) == Integer(st, p, ArgWidth(st))

\* The conversions of integers: d and i, o, u, x, X, p.
IntegerChars == {100, 105, 111, 117, 120, 88, 112}
BaseOf(c) == IF c = 111 THEN 8 ELSE IF c \in {120, 88, 112} THEN 16 ELSE 10
FlagsOf(c) ==
  (IF c \in {100, 105} THEN {} ELSE {"unsigned"}) \union (IF c \in {120, 112} THEN {"lower"} ELSE {})
  \union (IF c = 112 THEN {"alt", "pointer"} ELSE {})
FloatChars == {97, 65, 101, 69, 102, 70, 103, 71}

Specifier(text, st, p, orig) ==
  LET c == At(text, p)
  IN  CASE c \in IntegerChars -> IntegerAs([st EXCEPT !.base = BaseOf(c), !.flags = @ \union FlagsOf(c)], p)
        [] c = 99 -> Place(stringformat(<<Arg(st)>>, [Taken(st) EXCEPT !.flags = @ \union {"char"}]), p + 1)
        [] c = 115 -> Place(stringformat(Arg(st), Taken(st)), p + 1)
        [] c = 110 -> Place([Taken(st) EXCEPT !.counted = Append(@, st.i)], p + 1)
        [] c \in FloatChars -> Place(st, p + 1)   \* no floating point
        [] OTHER -> Place(st, orig)

AfterLength(text, l, orig) == Specifier(text, l.st, l.p, orig)
AfterPrecision(text, q, orig) == AfterLength(text, Length(text, q.st, q.p), orig)
AfterWidth(text, w, orig) == AfterPrecision(text, Precision(text, w.st, w.p), orig)
AfterFlags(text, st, f, orig) ==
  AfterWidth(text, Width(text, [st EXCEPT !.flags = f.flags, !.base = 0, !.current = 0, !.width = 0, !.prec = EOF],
                         f.p), orig)

_print(text, st, p) ==
  IF At(text, p + 1) = 37 THEN Place(PUT(st, <<37>>), p + 2)
  ELSE AfterFlags(text, st, Flags(text, p + 1, {}), p)

----------------------------------------------------------------------------
(* vfprintf, vsnprintf and the functions that call them *)

\* A format that is refused makes the loop go on at a null pointer.
RECURSIVE Formatted(_, _, _), OneFormatted(_, _, _)
Formatted(text, st, p) ==
  IF p = NULL THEN [st EXCEPT !.wild = TRUE]
  ELSE IF At(text, p) = 0 THEN st
  ELSE OneFormatted(text, IF At(text, p) = 37 THEN _print(text, st, p) ELSE Place(st, p), p)
OneFormatted(text, r, p) ==
  IF r.p = p THEN Formatted(text, PUT(r.st, <<At(text, p)>>), p + 1) ELSE Formatted(text, r.st, r.p)

Status(stream, mem, n, args) ==
  [base |-> 0, flags |-> {}, n |-> n, i |-> 0, current |-> 0, s |-> mem, width |-> 0,
   prec |-> EOF, stream |-> stream, out |-> <<>>, arg |-> args, counted |-> <<>>, wild |-> FALSE]

\* The stream's contents are .out, the value returned is .i.
vfprintf(text, args) == Formatted(text, Status(TRUE, <<>>, SIZE_MAX, args), 1)

Terminated(st) == IF st.i < st.n THEN [st EXCEPT !.s = [@ EXCEPT ![st.i] = 0]] ELSE st
vsnprintf(mem, n, text, args) == Terminated(Formatted(text, Status(FALSE, mem, n, args), 1))
vsprintf(mem, text, args) == vsnprintf(mem, SIZE_MAX, text, args)
=============================================================================
