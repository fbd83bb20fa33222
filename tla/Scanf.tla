------------------------------- MODULE Scanf -------------------------------
(***************************************************************************)
(* Formatted input: diskfs/stdlib/_scanf.h.  Formats are as in Printf; the *)
(* input, text, is a sequence of characters, and st.s a position in it.    *)
(* st.stored has what the arguments, which are pointers, have been given,  *)
(* in the order in which they were taken: numbers, and texts.  Only        *)
(* strings are read: getc of stdio.h always returns EOF.                   *)
(***************************************************************************)
EXTENDS Printf

More(st, text) == st.current < st.width /\ At(text, st.s) # 0

\* GET; UNGET is to keep the status from before it.
GET(st) == [st EXCEPT !.s = @ + 1, !.i = @ + 1, !.current = @ + 1]

Moved(st, e) == [st EXCEPT !.s = e, !.i = @ + (e - st.s), !.current = @ + (e - st.s)]

\* The end of the input counts as an error of its own when nothing has been
\* converted.
InputError(st) == IF st.n = 0 THEN [st EXCEPT !.n = -1] ELSE st
Fails(st) == Place(st, NULL)

Store(st, v) == [st EXCEPT !.stored = Append(@, v), !.n = @ + 1]

\* The characters of a scanset stand at p .. e - 1.
RECURSIVE IN_SCANSET(_, _, _, _, _)
IN_SCANSET(fmt, p, e, previous, rc) ==
  IF p = e THEN FALSE
  ELSE IF fmt[p] = 45 /\ previous # -1
  THEN IF p + 1 = e THEN rc = 45
       ELSE (previous < rc /\ rc <= fmt[p + 1]) \/ IN_SCANSET(fmt, p + 1, e, -1, rc)
  ELSE rc = fmt[p] \/ IN_SCANSET(fmt, p + 1, e, fmt[p], rc)

----------------------------------------------------------------------------
(* %c, %s and %[: none of them looks at the suppressed flag.               *)

\* Where a run of characters ends: at the width, at the end of the input, or
\* at the first of the places that are refused.
RunEnd(st, text, refused) ==
  FirstOf({j \in st.s .. Len(text) + 1 : j - st.s >= st.width \/ At(text, j) = 0 \/ j \in refused})
Chars(st, text, e) == SubSeq(text, st.s, e - 1)

ScanChars(st, text, p, e) ==
  IF e > st.s THEN Place(Store(Moved(st, e), Chars(st, text, e)), p + 1)
  ELSE Fails(InputError(st))

ScanString(st, text, p, e) ==
  IF e > st.s THEN Place(Store(Moved(st, e), Chars(st, text, e) \o <<0>>), p + 1)
  ELSE IF st.width > 0 /\ isspace(At(text, e)) THEN Fails(st) ELSE Fails(InputError(st))

\* Any end of the input here is an error, whatever was converted before.
ScanSet(st, text, close, e) ==
  IF e > st.s THEN Place(Store(Moved(st, e), Chars(st, text, e) \o <<0>>), close + 1)
  ELSE Fails(IF At(text, e) = 0 THEN [st EXCEPT !.n = -1] ELSE st)

SetFrom(fmt, st, text, list, negative) ==
  LET closing == {j \in list + 1 .. Len(fmt) : fmt[j] = 93}
      close == FirstOf(closing)
  IN  IF closing = {} THEN Fails([st EXCEPT !.wild = TRUE])
      ELSE ScanSet(st, text, close,
                   RunEnd(st, text, {j \in DOMAIN text : IN_SCANSET(fmt, list, close, -1, text[j]) = negative}))

----------------------------------------------------------------------------
(* Integers.  l is the state of the loop; a step of it looks at one        *)
(* character c.                                                            *)

Space(l, c) ==
  IF l.sign # 0 THEN [l EXCEPT !.stop = TRUE]
  ELSE [l EXCEPT !.st = [GET(@) EXCEPT !.current = @ - 1]]

SignChar(l, c) ==
  CASE c = 45 -> [l EXCEPT !.sign = -1, !.st = GET(@)]
    [] c = 43 -> [l EXCEPT !.sign = 1, !.st = GET(@)]
    [] OTHER  -> [l EXCEPT !.sign = 1]

\* Mutant: the x of a prefix is taken in any base.
AfterZero_AnyBase(l, z, text) ==
  IF ~More(z, text) THEN [l EXCEPT !.st = z, !.parsed = TRUE, !.stop = TRUE, !.ended = z.current < z.width]
  ELSE IF tolower(At(text, z.s)) = 120 THEN [l EXCEPT !.st = [GET(z) EXCEPT !.base = 16]]
  ELSE [l EXCEPT !.st = [z EXCEPT !.base = IF @ = 0 THEN 8 ELSE @], !.parsed = TRUE]

\* A zero has been read, z is the status after it: is it a prefix?
AfterZero(l, z, text) ==
  IF ~More(z, text) THEN [l EXCEPT !.st = z, !.parsed = TRUE, !.stop = TRUE, !.ended = z.current < z.width]
  ELSE IF tolower(At(text, z.s)) = 120
  THEN IF z.base \in {0, 16} THEN [l EXCEPT !.st = [GET(z) EXCEPT !.base = 16]]
       ELSE [l EXCEPT !.st = z, !.parsed = TRUE]
  ELSE [l EXCEPT !.st = [z EXCEPT !.base = IF @ = 0 THEN 8 ELSE @], !.parsed = TRUE]

PrefixChar(l, c, text) ==
  IF c # 48 THEN [l EXCEPT !.prefix = TRUE, !.st.base = IF @ = 0 THEN 10 ELSE @]
  ELSE AfterZero([l EXCEPT !.prefix = TRUE], GET(l.st), text)

DigitChar(l, d) ==
  IF d = NULL THEN [l EXCEPT !.stop = TRUE]
  ELSE [l EXCEPT !.st = GET(@), !.parsed = TRUE, !.value = AsUnsigned(@ * l.st.base + d, MaxBits)]

IntChar(l, c, text) ==
  CASE isspace(c) -> Space(l, c)
    [] ~isspace(c) /\ l.sign = 0 -> SignChar(l, c)
    [] ~isspace(c) /\ l.sign # 0 /\ ~l.prefix -> PrefixChar(l, c, text)
    [] OTHER -> DigitChar(l, digit(tolower(c), l.st.base))

\* ended: rc is EOF after the loop.
RECURSIVE IntLoop(_, _)
IntLoop(l, text) ==
  IF l.stop THEN l
  ELSE IF ~More(l.st, text) THEN [l EXCEPT !.ended = l.st.current < l.st.width]
  ELSE IntLoop(IntChar(l, At(text, l.st.s), text), text)

\* The type of the target; the combinations left out are refused, %zu and %tu
\* among them.
TargetBits(flags) ==
  LET f == flags \ {"suppressed", "ldouble"}
      g == f \ {"unsigned"}
  IN  CASE g = {"char"} -> CharBits [] g = {"short"} -> ShortBits
        [] g \in {{}, {"long"}} -> LongBits [] g \in {{"llong"}, {"intmax"}} -> MaxBits
        [] f \in {{"size"}, {"ptrdiff"}, {"pointer"}} -> LongBits [] OTHER -> 0
Target(flags, v) ==
  IF "unsigned" \in flags \/ flags \intersect {"size", "pointer"} # {}
  THEN AsUnsigned(v, TargetBits(flags)) ELSE AsSigned(v, TargetBits(flags))

Assigned(l, p) ==
  IF ~l.parsed THEN Fails(IF l.ended THEN InputError(l.st) ELSE l.st)
  ELSE IF "suppressed" \in l.st.flags THEN Place(l.st, p + 1)
  ELSE IF TargetBits(l.st.flags) = 0 THEN Fails(l.st)
  ELSE Place(Store(l.st, Target(l.st.flags, l.value * l.sign)), p + 1)

ScanInteger(st, text, p) ==
  Assigned(IntLoop([st |-> st, sign |-> 0, prefix |-> FALSE, value |-> 0, parsed |-> FALSE, stop |-> FALSE,
                    ended |-> FALSE], text), p)

\* i has base 0; the combination of flags for p is that of a pointer alone.
ScanBase(c) == IF c = 105 THEN 0 ELSE BaseOf(c)
ScanFlags(c) == IF c = 112 THEN {"pointer"} ELSE FlagsOf(c) \ {"lower"}

----------------------------------------------------------------------------
(* _scan: one specification of the format, which begins at p               *)

Suppress(fmt, st, p) ==
  IF At(fmt, p) = 42 THEN Place([st EXCEPT !.flags = {"suppressed"}], p + 1) ELSE Place(st, p)

\* Without a width, %c reads one character.
OneChar(st) == IF st.width = SIZE_MAX THEN [st EXCEPT !.width = 1] ELSE st
CharsFrom(st, text, p) == ScanChars(st, text, p, RunEnd(st, text, {}))

ScanSpecifier(fmt, st, text, p, orig) ==
  LET c == At(fmt, p)
  IN  CASE c \in IntegerChars \ {88} ->
             ScanInteger([st EXCEPT !.base = ScanBase(c), !.flags = @ \union ScanFlags(c)], text, p)
        [] c = 99  -> CharsFrom(OneChar(st), text, p)
        [] c = 115 -> ScanString(st, text, p, RunEnd(st, text, {j \in DOMAIN text : isspace(text[j])}))
        [] c = 91  -> LET negative == At(fmt, p + 1) = 94
                      IN  SetFrom(fmt, st, text, IF negative THEN p + 2 ELSE p + 1, negative)
        [] c = 110 -> Place([st EXCEPT !.stored = Append(@, st.i)], p + 1)
        [] c \in FloatChars -> Fails(st)
        [] OTHER   -> Place(st, orig)

WidthScanned(st, p, w) == Place([st EXCEPT !.width = IF w.endptr = p THEN SIZE_MAX ELSE w.value], w.endptr)
MaxWidth(fmt, st, p) == WidthScanned(st, p, strtol(fmt, p, 10))
ScanAfterLength(fmt, l, text, orig) == ScanSpecifier(fmt, l.st, text, l.p, orig)
ScanAfterWidth(fmt, w, text, orig) == ScanAfterLength(fmt, Length(fmt, w.st, w.p), text, orig)
ScanAfterSuppress(fmt, u, text, orig) == ScanAfterWidth(fmt, MaxWidth(fmt, u.st, u.p), text, orig)
ScanFrom(fmt, st, text, p, orig) ==
  ScanAfterSuppress(fmt, Suppress(fmt, [st EXCEPT !.flags = {}, !.base = -1, !.current = 0, !.width = 0, !.prec = 0], p),
                    text, orig)

_scan(fmt, st, text, p) ==
  IF At(fmt, p + 1) = 37 /\ At(text, st.s) = 0 THEN Fails(InputError(st))
  ELSE IF At(fmt, p + 1) = 37 /\ At(text, st.s) = 37 THEN Place(GET(st), p + 2)
  ELSE ScanFrom(fmt, st, text, p + 1, p)

----------------------------------------------------------------------------
(* vsscanf: the value returned is .n *)

Verbatim(fmt, st, text, p) ==
  IF isspace(At(fmt, p)) THEN Place(Moved(st, SkipSpace(text, st.s)), p + 1)
  ELSE IF At(text, st.s) = At(fmt, p) THEN Place(Moved(st, st.s + 1), p + 1)
  ELSE Fails(IF At(text, st.s) = 0 THEN InputError(st) ELSE st)

AtNewline(st, text) == IF At(text, st.s) = 10 THEN InputError(st) ELSE st

RECURSIVE Scanned(_, _, _, _), AfterScan(_, _, _, _), AfterVerbatim(_, _, _)
Scanned(fmt, st, text, p) ==
  IF At(fmt, p) = 0 THEN st
  ELSE AfterScan(fmt, IF At(fmt, p) = 37 THEN _scan(fmt, st, text, p) ELSE Place(st, p), text, p)
AfterScan(fmt, r, text, p) ==
  IF r.p = NULL THEN AtNewline(r.st, text)
  ELSE IF r.p # p THEN Scanned(fmt, r.st, text, r.p)
  ELSE AfterVerbatim(fmt, Verbatim(fmt, r.st, text, p), text)
AfterVerbatim(fmt, v, text) == IF v.p = NULL THEN v.st ELSE Scanned(fmt, v.st, text, v.p)

vsscanf(text, fmt) ==
  Scanned(fmt, [base |-> 0, flags |-> {}, n |-> 0, i |-> 0, current |-> 0, s |-> 1, width |-> 0,
                prec |-> EOF, stored |-> <<>>, wild |-> FALSE], text, 1)
=============================================================================
