----------------------------- MODULE CFrontend -----------------------------
(***************************************************************************)
(* Calls of the expression parser and of the preprocessor of the C         *)
(* compiler, next to those of the C library: the job says what is called   *)
(* on what.  The properties compare the results with the grammar of C, the *)
(* meaning of its expressions, and its macro expansion with hide sets.     *)
(***************************************************************************)
EXTENDS CLibrary, CPreproc

CONSTANTS
  Expressions, Expansions, Units    \* sets of jobs

\* The grammar of C: operators by level, those that bind least first.  Casts
\* are on the level after these, then prefix operators, then postfix ones.
Levels ==
  << {","}, Assigning, {"?"}, {"||"}, {"&&"}, {"|"}, {"^"}, {"&"}, {"==", "!="}, {"<", "<=", ">", ">="},
     {"<<", ">>"}, {"+", "-"}, {"*", "/", "%"} >>
Whole == 1
ArgumentLevel == 2
ConditionalLevel == 3
CastLevel == 14
UnaryLevel == 15
PostfixLevel == 16
PrimaryLevel == 17

IsPrefix(name) == \E tok \in Prefixes : name = AsPrefix(tok)
Suffixes == {"++_POST", "--_POST", "(", "[", ".", "->"}
Level(e) ==
  CASE e.kind = "operand" -> IF e.cast = "" THEN PrimaryLevel ELSE UnaryLevel
    [] e.name = "(_PRE" -> CastLevel
    [] IsPrefix(e.name) -> UnaryLevel
    [] e.kind = "operator" /\ e.name \in Suffixes -> PostfixLevel
    [] OTHER -> CHOOSE l \in DOMAIN Levels : e.name \in Levels[l]
Tok(name) == CHOOSE tok \in Prefixes : name = AsPrefix(tok)

\* An expression as text, with the parentheses that it needs to be derived
\* from a given level of the grammar.
RECURSIVE Derived(_, _)
Phrase(e) ==
  CASE e.kind = "operand" -> IF e.cast = "" THEN <<e.name>> ELSE <<e.name, "(", e.cast, ")">>
    [] e.name = "(_PRE" -> <<"(", e.cast, ")">> \o Derived(e.right, CastLevel)
    [] IsPrefix(e.name) ->
         <<Tok(e.name)>> \o Derived(e.right, IF Tok(e.name) \in {"++", "--", "sizeof"} THEN UnaryLevel ELSE CastLevel)
    [] e.name \in {"++_POST", "--_POST"} ->
         Derived(e.left, PostfixLevel) \o <<IF e.name = "++_POST" THEN "++" ELSE "--">>
    [] e.kind = "operator" /\ e.name = "(" ->
         Derived(e.left, PostfixLevel) \o <<"(">> \o (IF e.right = Placeholder THEN <<>> ELSE Derived(e.right, Whole))
                                       \o <<")">>
    [] e.name = "[" -> Derived(e.left, PostfixLevel) \o <<"[">> \o Derived(e.right, Whole) \o <<"]">>
    [] e.name \in {".", "->"} -> Derived(e.left, PostfixLevel) \o <<e.name>> \o Derived(e.right, PrimaryLevel)
    [] e.name = "?" -> Derived(e.left, ConditionalLevel + 1) \o <<"?">> \o Derived(e.center, Whole)
                       \o <<":">> \o Derived(e.right, ConditionalLevel)
    [] e.kind = "operator" /\ e.name \in Assigning ->
         Derived(e.left, UnaryLevel) \o <<e.name>> \o Derived(e.right, ArgumentLevel)
    [] OTHER -> Derived(e.left, Level(e)) \o <<e.name>> \o Derived(e.right, Level(e) + 1)
Derived(e, level) == IF Level(e) < level THEN <<"(">> \o Phrase(e) \o <<")">> ELSE Phrase(e)

-----------------------------------------------------------------------------
(* What constant expressions mean.  macros has the values of names.        *)

Undefined == 2 * Wide
InRange(v) == IF -Wide < 2 * v + 1 /\ 2 * v < Wide THEN v ELSE Undefined

\* Operators on bits are looked at where both sides are bits.
Combined(name, x, y) ==
  CASE name = "+" -> InRange(x + y)
    [] name = "-" -> InRange(x - y)
    [] name = "*" -> InRange(x * y)
    [] name \in {"/", "%"} /\ (x < 0 \/ y <= 0) -> Undefined
    [] name = "/" /\ x >= 0 /\ y > 0 -> x \div y
    [] name = "%" /\ x >= 0 /\ y > 0 -> x - y * (x \div y)
    [] name \in {"<<", ">>"} /\ (x < 0 \/ y < 0) -> Undefined
    [] name = "<<" /\ x >= 0 /\ y >= 0 -> InRange(x * 2^y)
    [] name = ">>" /\ x >= 0 /\ y >= 0 -> x \div 2^y
    [] name = "==" -> Truth(x = y)
    [] name = "!=" -> Truth(x # y)
    [] name = "<" -> Truth(x < y)
    [] name = "<=" -> Truth(x <= y)
    [] name = ">" -> Truth(x > y)
    [] name = ">=" -> Truth(x >= y)
    [] name \in {"&", "|", "^"} /\ ~(x \in {0, 1} /\ y \in {0, 1}) -> Undefined
    [] name = "&" /\ x \in {0, 1} /\ y \in {0, 1} -> x * y
    [] name = "|" /\ x \in {0, 1} /\ y \in {0, 1} -> Truth(x + y > 0)
    [] name = "^" /\ x \in {0, 1} /\ y \in {0, 1} -> Truth(x # y)
    [] OTHER -> Undefined

\* A value is Undefined as soon as that of a part is, also of a part that C
\* does not evaluate.
RECURSIVE Denoted(_, _)
Denoted(e, macros) ==
  IF e.kind = "operand"
  THEN IF e.name \in DOMAIN Atoi THEN Atoi[e.name]
       ELSE IF e.name \in DOMAIN macros THEN macros[e.name] ELSE 0
  ELSE IF e.name = "defined_PRE" THEN Truth(e.right.name \in DOMAIN macros)
  ELSE LET x == IF e.left.name = "" THEN 0 ELSE Denoted(e.left, macros)
           y == Denoted(e.right, macros)
           z == IF e.center.name = "" THEN 0 ELSE Denoted(e.center, macros)
       IN  IF Undefined \in {x, y, z} THEN Undefined
           ELSE CASE e.name = "!_PRE" -> Truth(y = 0)
                  [] e.name = "~_PRE" -> -1 - y
                  [] e.name = "-_PRE" -> InRange(-y)
                  [] e.name = "&&" -> Truth(x # 0 /\ y # 0)
                  [] e.name = "||" -> Truth(x # 0 \/ y # 0)
                  [] e.name = "?" -> IF x # 0 THEN z ELSE y
                  [] OTHER -> Combined(e.name, x, y)

-----------------------------------------------------------------------------
(* Macro expansion as the C standard has it: every token carries the macros*)
(* that it comes from.                                                     *)

Tk(tok, hidden) == [tok |-> tok, hidden |-> hidden]
Hiding(ts, names) == [k \in DOMAIN ts |-> Tk(ts[k].tok, ts[k].hidden \union names)]
Spelled(ts) == [k \in DOMAIN ts |-> ts[k].tok]
NoBlanks(toks) == SelectSeq(toks, LAMBDA tok : tok \notin {" ", "\n", ""})

\* Parentheses that are open behind the k-th token, counted from open on.
Depth(ts, open, k) ==
  Cardinality({j \in open .. k : ts[j].tok = "("}) - Cardinality({j \in open .. k : ts[j].tok = ")"})
Closing(ts, open) ==
  LET ends == {k \in open .. Len(ts) : Depth(ts, open, k) = 0}
  IN  IF ends = {} THEN 0 ELSE FirstOf(ends)
RECURSIVE Stripped(_)
Stripped(ts) ==
  IF ts = <<>> THEN ts
  ELSE IF Blank(Head(ts).tok) THEN Stripped(Tail(ts))
  ELSE IF Blank(Top(ts).tok) THEN Stripped(Pop(ts)) ELSE ts

\* The arguments of a call between two parentheses.
Separators(ts, open, close) ==
  {k \in open .. close : k \in {open, close} \/ (ts[k].tok = "," /\ Depth(ts, open, k) = 1)}
Nth(S, n) == CHOOSE k \in S : Cardinality({j \in S : j < k}) = n - 1
ArgumentsOf(ts, open, close) ==
  LET S == Separators(ts, open, close)
  IN  [n \in 1 .. Cardinality(S) - 1 |-> Stripped(SubSeq(ts, Nth(S, n) + 1, Nth(S, n + 1) - 1))]
Fits(subst, args) ==
  IF subst.parameters = <<>> THEN args = <<<<>>>> ELSE Len(args) = Len(subst.parameters)

ParameterNo(subst, tok) == {k \in DOMAIN subst.parameters : subst.parameters[k] = tok}
Actual(subst, args, tok) == args[CHOOSE k \in ParameterNo(subst, tok) : TRUE]

RECURSIVE Expanded(_, _)

\* Three things this preprocessor does in its own way, so that nothing is said
\* of their outcome: a macro inside its own expansion is expanded again; an
\* argument is not expanded by itself, which shows where the result would reach
\* # or ## or become two arguments; and what follows ## is appended to whatever
\* is before it if its left side is empty.
Deviates == <<Tk("~", {})>>
Early == "expanded by itself"
ByItself(arg, expanded) ==
  IF Spelled(expanded) = Spelled(arg) THEN expanded ELSE <<Tk("", {Early})>> \o Hiding(expanded, {Early})
IsEarly(ts) == \E k \in DOMAIN ts : Early \in ts[k].hidden

\* An argument beside # or ## is taken as it is; an empty one leaves a token
\* without characters.
NextSolid(toks, i) == Behind({" ", "\n", ""}, toks, i + 1)
Unexpanded(arg) == IF IsEarly(arg) THEN Deviates ELSE IF arg = <<>> THEN <<Tk("", {})>> ELSE arg
AsIs(subst, args, tok) ==
  IF ParameterNo(subst, tok) = {} THEN <<Tk(tok, {})>> ELSE Unexpanded(Actual(subst, args, tok))
Glued(x, y) ==
  IF Top(x).tok \in {"", "~"} \/ Head(y).tok = "~" THEN Deviates
  ELSE Pop(x) \o <<Tk(Top(x).tok \o Head(y).tok, Top(x).hidden \intersect Head(y).hidden)>> \o Tail(y)
RECURSIVE WithoutEndBlanks(_)
WithoutEndBlanks(ts) == IF ts = <<>> \/ ~Blank(Top(ts).tok) THEN ts ELSE WithoutEndBlanks(Pop(ts))

\* The replacement of a macro from its i-th token on, after out: # and ## are
\* applied, the other arguments are expanded by themselves.
IllFormed == <<Tk("?", {})>>

Quotation(arg) ==
  IF IsEarly(arg) THEN Deviates ELSE <<Tk(process_token_stringify(Spelled(arg)), {})>>
RECURSIVE Replaced(_, _, _, _, _)
Replaced(defines, subst, args, i, out) ==
  LET repl == subst.replacement
      next == NextSolid(repl, i)
  IN  IF i > Len(repl) THEN out
      ELSE IF repl[i] = "#" /\ subst.is_function
           THEN Replaced(defines, subst, args, i + 2,
                         out \o Quotation(Actual(subst, args, repl[i + 1])))
      ELSE IF repl[i] = "##"
           THEN Replaced(defines, subst, args, next + 1,
                         Glued(WithoutEndBlanks(out), AsIs(subst, args, repl[next])))
      ELSE IF Peek(repl, next) = "##" \/ ParameterNo(subst, repl[i]) = {}
           THEN Replaced(defines, subst, args, i + 1, out \o AsIs(subst, args, repl[i]))
      ELSE Replaced(defines, subst, args, i + 1,
                    out \o ByItself(Actual(subst, args, repl[i]), Expanded(defines, Actual(subst, args, repl[i]))))

\* A macro is replaced, and what comes out of it is looked at again together
\* with what follows.
Rescanned(defines, ts, hidden, args, close) ==
  Expanded(defines, Hiding(Replaced(defines, defines[ts[1].tok], args, 1, <<>>), hidden \union {ts[1].tok})
                    \o SubSeq(ts, close + 1, Len(ts)))
Kept(defines, ts) == <<ts[1]>> \o Expanded(defines, Tail(ts))

Expanded(defines, ts) ==
  IF ts = <<>> THEN ts
  ELSE IF ts[1].tok \notin DOMAIN defines THEN Kept(defines, ts)
  ELSE IF ts[1].tok \in ts[1].hidden THEN Deviates
  ELSE IF ~defines[ts[1].tok].is_function THEN Rescanned(defines, ts, ts[1].hidden, <<>>, 1)
  ELSE LET open == NextSolid(Spelled(ts), 1)
           close == Closing(ts, open)
       IN  IF Peek(Spelled(ts), open) # "(" THEN Kept(defines, ts)
           ELSE IF \E k \in Separators(ts, open, close) : Early \in ts[k].hidden
                THEN Deviates
           ELSE IF close = 0 \/ ~Fits(defines[ts[1].tok], ArgumentsOf(ts, open, close)) THEN IllFormed
           ELSE Rescanned(defines, ts, ts[1].hidden \intersect ts[close].hidden, ArgumentsOf(ts, open, close), close)

\* A text, expanded; IllFormed stands in it where C has no meaning for it.
ExpandedText(defines, toks) == Spelled(Expanded(defines, [k \in DOMAIN toks |-> Tk(toks[k], {})]))

-----------------------------------------------------------------------------
(* Files as C reads them: a list of lines, groups of which depend on       *)
(* conditions.  macros are the ones that are defined.                      *)

TextLine(toks) == [line |-> "text", toks |-> toks]
DefineLine(name, subst) == [line |-> "define", name |-> name, subst |-> subst]
UndefLine(name) == [line |-> "undef", name |-> name]
IncludeLine(name) == [line |-> "include", name |-> name]
\* Branches, each with the condition of an #if, #ifdef or #ifndef; a last one
\* without condition is an #else.
Groups(branches) == [line |-> "if", branches |-> branches]
Branch(test, e, lines) == [test |-> test, e |-> e, lines |-> lines]

RECURSIVE Listed(_)
Listed(names) == IF Len(names) < 2 THEN names ELSE <<Head(names), ",">> \o Listed(Tail(names))
Directed(word, toks) == <<"#", word, " ">> \o toks \o <<"\n">>
ConditionToks(b) == IF b.test = "if" THEN Derived(b.e, Whole) ELSE <<b.e.name>>

RECURSIVE AsTokens(_)
Opening(b, k) ==
  CASE b.test = "else" -> Directed("else", <<>>)
    [] b.test # "else" /\ k = 1 -> Directed(b.test, ConditionToks(b))
    [] b.test # "else" /\ k > 1 -> Directed("elif", ConditionToks(b))
AsLine(l) ==
  CASE l.line = "text" -> l.toks \o <<"\n">>
    [] l.line = "define" ->
         Directed("define", <<l.name>> \o (IF l.subst.is_function THEN <<"(">> \o Listed(l.subst.parameters) \o <<")">>
                                           ELSE <<>>) \o <<" ">> \o l.subst.replacement)
    [] l.line = "undef" -> Directed("undef", <<l.name>>)
    [] l.line = "include" -> Directed("include", <<"\"" \o l.name \o "\"">>)
    [] l.line = "if" ->
         LET upto[k \in 0 .. Len(l.branches)] ==
               IF k = 0 THEN <<>> ELSE upto[k - 1] \o Opening(l.branches[k], k) \o AsTokens(l.branches[k].lines)
         IN  upto[Len(l.branches)] \o Directed("endif", <<>>)
AsTokens(lines) == IF lines = <<>> THEN <<>> ELSE AsLine(Head(lines)) \o AsTokens(Tail(lines))

\* The value of a macro in a condition: a number, or what a name stands for.
RECURSIVE ConstantOf(_, _)
ConstantOf(macros, name) ==
  LET solid == SelectSeq(macros[name].replacement, LAMBDA tok : tok \notin {"(", ")", " "})
  IN  IF Len(solid) # 1 THEN Undefined
      ELSE IF solid[1] \in DOMAIN Atoi THEN Atoi[solid[1]]
      ELSE IF solid[1] \in DOMAIN macros THEN ConstantOf(macros, solid[1]) ELSE 0
Values(macros) == [name \in DOMAIN macros |-> ConstantOf(macros, name)]

Holds(b, macros) ==
  CASE b.test = "ifdef" -> b.e.name \in DOMAIN macros
    [] b.test = "ifndef" -> b.e.name \notin DOMAIN macros
    [] b.test = "if" -> Denoted(b.e, Values(macros)) \notin {0, Undefined}
    [] b.test = "else" -> TRUE

\* A condition without value, or a macro that is defined again in another
\* way, has no meaning.
Meaningless(b, macros) == b.test = "if" /\ Denoted(b.e, Values(macros)) = Undefined
Redefined(l, macros) == l.name \in DOMAIN macros /\ macros[l.name] # l.subst

\* m has the macros and the text so far.
RECURSIVE ReadAll(_, _, _)
ReadLine(l, m, files) ==
  CASE l.line = "text" -> [m EXCEPT !.out = @ \o ExpandedText(m.macros, l.toks \o <<"\n">>)]
    [] l.line = "define" ->
         [m EXCEPT !.macros = (l.name :> l.subst) @@ @,
                   !.out = @ \o IF Redefined(l, m.macros) THEN Spelled(IllFormed) ELSE <<>>]
    [] l.line = "undef" -> [m EXCEPT !.macros = [n \in DOMAIN @ \ {l.name} |-> @[n]]]
    [] l.line = "include" -> ReadAll(files[l.name], m, files)
    [] l.line = "if" ->
         LET taken == {k \in DOMAIN l.branches : Holds(l.branches[k], m.macros)}
             n == IF \E k \in DOMAIN l.branches : Meaningless(l.branches[k], m.macros)
                  THEN [m EXCEPT !.out = @ \o Spelled(IllFormed)] ELSE m
         IN  IF taken = {} THEN n ELSE ReadAll(l.branches[FirstOf(taken)].lines, n, files)
ReadAll(lines, m, files) ==
  IF lines = <<>> THEN m ELSE ReadAll(Tail(lines), ReadLine(Head(lines), m, files), files)

InC(lines, files) == ReadAll(lines, [macros |-> <<>>, out |-> <<>>], files).out

-----------------------------------------------------------------------------
(* The calls. *)

FrontInit ==
  /\ ran = FALSE
  /\ job \in Expressions \union Expansions \union Units
  /\ r = job.mem

\* An expression, parsed and evaluated; a refused one has no value.
Parses ==
  /\ Calls({"expression"})
  /\ LET e == ast_parse1(job.toks, 1, ";")
     IN  r' = [parsed |-> e, value |-> IF e.failed THEN NoValue ELSE ast_eval(<<>>, e.tree)]

\* The file that is compiled, and those it includes, of which an earlier
\* directory has others.
BaseFile == "/src/main"
Old(name) == "/old/" \o name
Path(name) == "/inc/" \o name
Files(lines, files) ==
  (BaseFile :> AsTokens(lines))
  @@ [path \in {Path(name) : name \in DOMAIN files} |->
        AsTokens(files[CHOOSE name \in DOMAIN files : Path(name) = path])]
  @@ [path \in {Old(name) : name \in DOMAIN files} |-> <<path, "\n">>]

Preprocesses ==
  /\ Calls({"expansion", "unit"})
  /\ LET f == preproc_file(BaseFile, Files(job.lines, job.files))
     IN  r' = [failed |-> f.failed, tokens |-> collapse_strings(remove_whites(f.tokens))]

FrontSpec == (Init \/ FrontInit) /\ [][Next \/ Parses \/ Preprocesses]_vars

-----------------------------------------------------------------------------

\* Parentheses aside, the tokens of an expression and of its tree agree.
NoParentheses(toks) == SelectSeq(toks, LAMBDA tok : tok \notin {"(", ")"})

\* ast_parse: an expression that is written with as few parentheses as the grammar of C
\* allows is parsed as it was meant, and a constant one has its value.  In
\* whatever is accepted, no operator or operand is lost or moved.
ExpressionsAsC ==
  ran /\ job.fn = "expression" =>
    /\ job.tree # NoTree => ~r.parsed.failed /\ r.parsed.tree = job.tree /\ r.parsed.p = Len(job.toks) + 1
    /\ job.constant /\ Denoted(job.tree, <<>>) # Undefined => r.value = Cut(Denoted(job.tree, <<>>))
    /\ ~r.parsed.failed => NoParentheses(Phrase(r.parsed.tree)) = NoParentheses(SubSeq(job.toks, 1, r.parsed.p - 1))

\* Outcome of a file that has a meaning in C.
AsInC(expected) ==
  {"?", "~"} \intersect {expected[k] : k \in DOMAIN expected} # {}
  \/ (~r.failed /\ r.tokens = collapse_strings(NoBlanks(expected)))

\* preproc_file includes the groups and files, and defines and forgets the
\* macros, that the standard says, expands each text with the macros of its
\* place, and applies # and ## like the standard, but for Deviates.
PreprocessesAsC == ran /\ job.fn \in {"expansion", "unit"} => AsInC(InC(job.lines, job.files))
=============================================================================
