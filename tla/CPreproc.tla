------------------------------ MODULE CPreproc ------------------------------
(***************************************************************************)
(* The preprocessor of the C compiler (asmg/c_preproc.g), from the tokens  *)
(* of a file on.  A token is a string; " " stands for blanks and comments, *)
(* "\n" for the end of a line.  The text between two directives is         *)
(* collected and then expanded in rounds, each of which replaces every     *)
(* macro once, until a round changes nothing.                              *)
(***************************************************************************)
EXTENDS CAst, TLC

CONSTANTS
  Identifiers,    \* tokens for which is_valid_identifier holds
  Atoi,        \* what atoi makes of tokens that are numbers
  IncludePath     \* the directories, of which the last one is searched first

is_valid_identifier(tok) == tok \in Identifiers
Blank(tok) == tok \in {" ", "\n"}

\* A macro.
Subst(is_function, parameters, replacement) ==
  [is_function |-> is_function, parameters |-> parameters, replacement |-> replacement]

\* The first of the places from i to the end of s that has one of toks, and
\* the first that has none of them.
UpTo(toks, s, i) ==
  IF i > Len(s) THEN Len(s) + 1
  ELSE CHOOSE j \in i .. Len(s) + 1 : (j > Len(s) \/ s[j] \in toks) /\ \A k \in i .. j - 1 : s[k] \notin toks
Behind(toks, s, i) ==
  IF i > Len(s) THEN Len(s) + 1
  ELSE CHOOSE j \in i .. Len(s) + 1 : (j > Len(s) \/ s[j] \notin toks) /\ \A k \in i .. j - 1 : s[k] \in toks

discard_white_tokens(toks, i) == Behind({" "}, toks, i + 1)
discard_white_newline_tokens(toks, i) == Behind({" ", "\n"}, toks, i + 1)
discard_until_newline(toks, i) == UpTo({"\n"}, toks, i)

-----------------------------------------------------------------------------
(* Vectors of tokens that are written: failed when an assertion did.      *)

Vector(toks) == [toks |-> toks, failed |-> FALSE]
Broken == [toks |-> <<>>, failed |-> TRUE]
Put(v, tok) == [v EXCEPT !.toks = Append(@, tok)]

Pop(s) == SubSeq(s, 1, Len(s) - 1)
RECURSIVE Trimmed(_)
Trimmed(s) == IF s = <<>> \/ ~Blank(Top(s)) THEN s ELSE Trimmed(Pop(s))

\* What follows ## is appended to the token before it; blanks around it go.
\* The token before is taken from the vector, which must have one, always.
push_token(v, tok) ==
  IF v.failed \/ v.toks = <<>> THEN Broken
  ELSE IF Top(v.toks) = "##"
       THEN IF Blank(tok) THEN v
            ELSE IF Len(v.toks) = 1 THEN Broken
            ELSE [v EXCEPT !.toks = Pop(Pop(@)) \o <<@[Len(@) - 1] \o tok>>]
  ELSE IF tok = "##" THEN IF Trimmed(v.toks) = <<>> THEN Broken ELSE Vector(Trimmed(v.toks) \o <<tok>>)
  ELSE IF tok = "" THEN v
  ELSE Put(v, tok)

RECURSIVE push_tokens(_, _)
push_tokens(v, toks) == IF toks = <<>> THEN v ELSE push_tokens(push_token(v, Head(toks)), Tail(toks))

\* The quotes and backslashes of a token, each behind a backslash.
stringify_patch_string(tok) ==
  LET patch[k \in 0 .. Len(tok)] ==
        IF k = 0 THEN ""
        ELSE LET c == SubSeq(tok, k, k) IN patch[k - 1] \o (IF c \in {"\"", "\\"} THEN "\\" ELSE "") \o c
  IN  patch[Len(tok)]

\* Blanks between tokens become one space, those around them nothing.
process_token_stringify(toks) ==
  LET text[k \in 0 .. Len(toks)] ==
        IF k = 0 THEN ""
        ELSE IF Blank(toks[k]) THEN text[k - 1]
        ELSE text[k - 1] \o (IF text[k - 1] # "" /\ Blank(toks[k - 1]) THEN " " ELSE "")
                         \o stringify_patch_string(toks[k])
  IN  "\"" \o text[Len(toks)] \o "\""

-----------------------------------------------------------------------------
(* Expansion. *)

\* The end of an argument: a comma or parenthesis outside all parentheses.
RECURSIVE ArgumentEnd(_, _, _)
ArgumentEnd(toks, p, depth) ==
  IF p > Len(toks) \/ (depth = 0 /\ toks[p] \in {",", ")"}) THEN p
  ELSE ArgumentEnd(toks, p + 1, depth + (CASE toks[p] = "(" -> 1 [] toks[p] = ")" -> -1 [] OTHER -> 0))

\* count arguments from p on, and the place of the closing parenthesis, or
\* NoPlace.  Nothing of a call may be the last token of its vector.
NoPlace == 0
RECURSIVE Arguments(_, _, _, _)
Arguments(toks, p, count, args) ==
  LET end == ArgumentEnd(toks, p, 0)
      more == Append(args, SubSeq(toks, p, end - 1))
  IN  IF count = 0 THEN [args |-> args, p |-> p]
      ELSE IF end >= Len(toks) \/ (toks[end] = ")") # (count = 1) THEN [args |-> args, p |-> NoPlace]
      ELSE IF count = 1 THEN [args |-> more, p |-> end]
      ELSE Arguments(toks, end + 1, count - 1, more)

\* The replacement of a macro from its i-th token on; arg has the arguments
\* by the names of the parameters.  An empty one is pushed as a token without
\* characters, which ## can be applied to.
RECURSIVE Substituted(_, _, _, _)
Substituted(v, repl, i, arg) ==
  IF i > Len(repl) THEN v
  ELSE IF repl[i] = "#"
       THEN IF i = Len(repl) \/ Peek(repl, i + 1) \notin DOMAIN arg THEN Broken
            ELSE Substituted(push_token(v, process_token_stringify(arg[repl[i + 1]])), repl, i + 2, arg)
  ELSE IF repl[i] \in DOMAIN arg
       THEN Substituted(push_tokens(v, IF arg[repl[i]] = <<>> THEN <<"">> ELSE arg[repl[i]]), repl, i + 1, arg)
  ELSE Substituted(push_token(v, repl[i]), repl, i + 1, arg)

\* Where a step of the expansion leaves the vector and the place.
Step(v, p, changed) == [v |-> v, p |-> p, changed |-> changed]

ByName(parameters, args) ==
  [name \in {parameters[k] : k \in DOMAIN parameters} |->
     args[CHOOSE k \in DOMAIN parameters : parameters[k] = name]]
\* A call whose arguments are a.
process_token_function(v, a, subst) ==
  IF a.p = NoPlace THEN Step(Broken, a.p, TRUE)
  ELSE Step(Substituted(v, subst.replacement, 1, ByName(subst.parameters, a.args)), a.p, TRUE)

process_token(defines, v, toks, p) ==
  LET tok == toks[p]
      q == discard_white_newline_tokens(toks, p)
  IN  IF tok \notin DOMAIN defines THEN Step(Put(v, tok), p, FALSE)
      ELSE IF ~defines[tok].is_function
           THEN Step([v EXCEPT !.toks = @ \o defines[tok].replacement], p, defines[tok].replacement # <<tok>>)
      ELSE IF q > Len(toks) THEN Step(Broken, p, FALSE)
      ELSE IF toks[q] # "(" THEN Step(Put(v, tok), p, FALSE)
      ELSE IF q = Len(toks) THEN Step(Broken, p, FALSE)
      ELSE process_token_function(v, Arguments(toks, q + 1, Len(defines[tok].parameters), <<>>), defines[tok])

\* One round.
Following(t, changed) == Step(t.v, t.p + 1, changed \/ t.changed)
RECURSIVE RoundFrom(_, _, _)
RoundFrom(defines, toks, s) ==
  IF s.v.failed \/ s.p > Len(toks) THEN s
  ELSE RoundFrom(defines, toks, Following(process_token(defines, s.v, toks, s.p), s.changed))
preproc_replace_int(defines, toks) == RoundFrom(defines, toks, Step(Vector(<<>>), 1, FALSE))

\* Rounds, the last of which was r.
RECURSIVE Rounds(_, _)
Rounds(defines, r) ==
  IF r.v.failed \/ ~r.changed THEN r.v ELSE Rounds(defines, preproc_replace_int(defines, r.v.toks))
preproc_replace(defines, toks) == Rounds(defines, preproc_replace_int(defines, toks))

-----------------------------------------------------------------------------
(* The expressions of #if: operands are numbers and macros, each of which *)
(* is evaluated by itself, to one word; what is not a macro is 0.          *)

RECURSIVE ast_eval(_, _)

LowWord(v) == IF v = NoValue THEN NoValue ELSE v % Word

\* The value of what was parsed.
preproc_eval(defines, e) == IF e.failed THEN NoValue ELSE LowWord(ast_eval(defines, e.tree))

\* The value of a macro: a number, or what its replacement evaluates to.
MacroValue(defines, repl) ==
  IF Len(repl) = 1 /\ ~is_valid_identifier(repl[1])
  THEN IF repl[1] \in DOMAIN Atoi THEN Atoi[repl[1]] ELSE NoValue
  ELSE preproc_eval(defines, ast_parse1(repl, 1, ";;"))

\* preproc_eval_ext, for an operand.
OperandValue(defines, name) ==
  IF name \in DOMAIN Atoi THEN Atoi[name]
  ELSE IF ~is_valid_identifier(name) THEN NoValue
  ELSE IF name \notin DOMAIN defines THEN 0
  ELSE IF defines[name].is_function THEN NoValue
  ELSE MacroValue(defines, defines[name].replacement)

\* All operands of an operator are evaluated, also those of && and || and
\* both branches of ?.
OperatorValue(name, left, center, right) ==
  IF right = NoValue THEN NoValue
  ELSE IF name \in {"!_PRE", "~_PRE", "-_PRE"} THEN EvalPrefix(name, right)
  ELSE IF left = NoValue THEN NoValue
  ELSE IF name # "?" THEN EvalBinary(name, left, right)
  ELSE IF center = NoValue THEN NoValue
  ELSE IF left # 0 THEN center ELSE right

ast_eval(defines, ast) ==
  IF ast.name = "" THEN NoValue
  ELSE IF ast.kind = "operand" THEN OperandValue(defines, ast.name)
  ELSE IF ast.name = "defined_PRE"
       THEN IF ast.right.kind = "operand" THEN Truth(ast.right.name \in DOMAIN defines) ELSE NoValue
  ELSE OperatorValue(ast.name, ast_eval(defines, ast.left), ast_eval(defines, ast.center),
                     ast_eval(defines, ast.right))

-----------------------------------------------------------------------------
(* Directives.  f is the state of a file: its tokens, the place i, the     *)
(* text that waits, the stack of conditionals (0: no group has matched     *)
(* yet, 1: this one does, 2: one has); and the macros and the output of    *)
(* all files.  A directive leaves i at the end of its line, or the system  *)
(* stops.                                                                  *)

Stop(f) == [f EXCEPT !.failed = TRUE]
After(f, i) == [f EXCEPT !.i = discard_white_tokens(f.intoks, i)]
is_including(ifs) == \A k \in DOMAIN ifs : ifs[k] = 1

\* The parameters of a macro from k on, where the first one is: [k, names],
\* k after the parenthesis that ends them.
RECURSIVE Parameters(_, _, _)
Parameters(toks, k, names) ==
  LET next == discard_white_tokens(toks, k)
      after == discard_white_tokens(toks, next)
      more == Append(names, Peek(toks, k))
  IN  IF ~is_valid_identifier(Peek(toks, k)) \/ Peek(toks, next) \notin {",", ")"}
      THEN [k |-> Len(toks) + 1, names |-> names]
      ELSE IF toks[next] = ")" THEN [k |-> after, names |-> more]
      ELSE Parameters(toks, after, more)

\* A macro may be defined again in the same way only.
Define(f, ident, subst) ==
  IF ident \in DOMAIN f.defines /\ f.defines[ident] # subst THEN Stop(f)
  ELSE [f EXCEPT !.defines = (ident :> subst) @@ @]

preproc_process_define(f) ==
  LET name == discard_white_tokens(f.intoks, f.i)
      is_func == Peek(f.intoks, name + 1) = "("
      first == discard_white_tokens(f.intoks, name + 1)
      p == IF ~is_func THEN [k |-> discard_white_tokens(f.intoks, name), names |-> <<>>]
           ELSE IF Peek(f.intoks, first) = ")" THEN [k |-> discard_white_tokens(f.intoks, first), names |-> <<>>]
           ELSE Parameters(f.intoks, first, <<>>)
      end == discard_until_newline(f.intoks, p.k)
  IN  IF Peek(f.intoks, name) \in {"", "\n"} THEN Stop(f)
      ELSE [Define(f, f.intoks[name], Subst(is_func, p.names, SubSeq(f.intoks, p.k, end - 1))) EXCEPT !.i = end]

preproc_process_undef(f) ==
  LET name == discard_white_tokens(f.intoks, f.i)
  IN  After([f EXCEPT !.defines = [m \in DOMAIN @ \ {Peek(f.intoks, name)} |-> @[m]]], name)

preproc_process_ifdef(f, wanted) ==
  LET name == discard_white_tokens(f.intoks, f.i)
  IN  IF Peek(f.intoks, name) = "\n" THEN Stop(f)
      ELSE After([f EXCEPT !.ifs = Append(@, Truth((Peek(f.intoks, name) \in DOMAIN f.defines) = wanted))], name)

preproc_process_if(f, value) ==
  IF value = NoValue THEN Stop(f)
  ELSE [f EXCEPT !.ifs = Append(@, Truth(value # 0)), !.i = discard_until_newline(f.intoks, f.i)]

\* Mutant: a group that comes after one that matched may match again.
Otherwise_Again(state) == IF state = 0 THEN 1 ELSE IF state = 1 THEN 2 ELSE 1
Otherwise(state) == IF state = 0 THEN 1 ELSE 2

preproc_process_else(f) ==
  IF Len(f.ifs) = 1 THEN Stop(f) ELSE After([f EXCEPT !.ifs = Pop(@) \o <<Otherwise(Top(@))>>], f.i)

preproc_process_elif(f, value) ==
  IF value = NoValue \/ Len(f.ifs) = 1 THEN Stop(f)
  ELSE [f EXCEPT !.ifs = Pop(@) \o <<IF Otherwise(Top(@)) = 1 /\ value = 0 THEN 0 ELSE Otherwise(Top(@))>>,
                 !.i = discard_until_newline(f.intoks, f.i)]

preproc_process_endif(f) ==
  IF Len(f.ifs) = 1 THEN Stop(f) ELSE After([f EXCEPT !.ifs = Pop(@)], f.i)

preproc_process_warning(f) ==
  LET msg == discard_white_tokens(f.intoks, f.i)
  IN  IF Peek(f.intoks, msg) = "\n" THEN Stop(f) ELSE After(f, msg)

RECURSIVE _preproc_file(_, _, _)

\* The name in < >, or between quotes; the directories are searched from the
\* last one back.
RECURSIVE Joined(_)
Joined(toks) == IF toks = <<>> THEN "" ELSE Head(toks) \o Joined(Tail(toks))

NoFile == ""
Searched(filename, files) ==
  LET found == {k \in DOMAIN IncludePath : IncludePath[k] \o filename \in DOMAIN files}
  IN  IF found = {} THEN NoFile ELSE IncludePath[CHOOSE k \in found : \A l \in found : l <= k] \o filename

Back(f, g, end) == After([f EXCEPT !.defines = g.defines, !.tokens = g.tokens, !.failed = g.failed], end)
Entered(f, path, end, files) ==
  IF path = NoFile THEN Stop(f) ELSE Back(f, _preproc_file(f, path, files), end)

preproc_process_include(f, name, files) ==
  LET tok == Peek(f.intoks, name)
      end == IF tok = "<" THEN UpTo({">"}, f.intoks, name) ELSE name
  IN  IF end > Len(f.intoks) \/ (tok # "<" /\ SubSeq(tok, 1, 1) # "\"") THEN Stop(f)
      ELSE Entered(f, Searched(IF tok = "<" THEN Joined(SubSeq(f.intoks, name + 1, end - 1))
                               ELSE SubSeq(tok, 2, Len(tok) - 1), files), end, files)

\* What is only done in a group that is included.
Included(tok, f, files) ==
  CASE tok = "include" -> preproc_process_include(f, discard_white_tokens(f.intoks, f.i), files)
    [] tok = "define" -> preproc_process_define(f)
    [] tok = "undef" -> preproc_process_undef(f)
    [] tok = "error" -> Stop(f)
    [] tok = "warning" -> preproc_process_warning(f)

Condition(f) == preproc_eval(f.defines, ast_parse1(f.intoks, f.i + 1, "\n"))
Directive(tok, f, files) ==
  CASE tok \in {"include", "define", "undef", "error", "warning"} /\ is_including(f.ifs) -> Included(tok, f, files)
    [] tok \in {"include", "define", "undef", "error", "warning"} /\ ~is_including(f.ifs) ->
         [f EXCEPT !.i = discard_until_newline(f.intoks, f.i)]
    [] tok = "pragma" -> [f EXCEPT !.i = discard_until_newline(f.intoks, f.i)]
    [] tok = "if" -> preproc_process_if(f, Condition(f))
    [] tok = "elif" -> preproc_process_elif(f, Condition(f))
    [] tok = "else" -> preproc_process_else(f)
    [] tok = "endif" -> preproc_process_endif(f)
    [] tok = "ifdef" -> preproc_process_ifdef(f, TRUE)
    [] tok = "ifndef" -> preproc_process_ifdef(f, FALSE)
    [] OTHER -> Stop(f)

\* The text that waits is expanded and written.
Flushed(f, v) == IF v.failed THEN Stop(f) ELSE [f EXCEPT !.tokens = @ \o v.toks, !.ready = <<>>]
Flush(f) == Flushed(f, preproc_replace(f.defines, f.ready))

\* A directive, from its # on, must take its line.
LineTaken(f) == IF Peek(f.intoks, f.i) # "\n" THEN Stop(f) ELSE f
Dispatched(f, files) == LineTaken(Directive(Peek(f.intoks, f.i), f, files))
Processed(f, files) == Dispatched(After(Flush(f), f.i), files)

Onward(f) == [f EXCEPT !.i = @ + 1, !.at_newline = Peek(f.intoks, f.i) = "\n"]
RECURSIVE FileFrom(_, _)
FileFrom(f, files) ==
  IF f.failed THEN f
  ELSE IF f.i > Len(f.intoks) THEN IF Len(f.ifs) = 1 THEN Flush(f) ELSE Stop(f)
  ELSE FileFrom(Onward(IF f.intoks[f.i] = "#" /\ f.at_newline THEN Processed(f, files)
                       ELSE IF is_including(f.ifs) THEN [f EXCEPT !.ready = Append(@, f.intoks[f.i])]
                       ELSE f), files)

_preproc_file(f, filename, files) ==
  FileFrom([defines |-> f.defines, tokens |-> f.tokens, failed |-> f.failed, intoks |-> files[filename], i |-> 1,
            ready |-> <<>>, at_newline |-> TRUE, ifs |-> <<1>>], files)

preproc_file(filename, files) ==
  _preproc_file([defines |-> <<>>, tokens |-> <<>>, failed |-> FALSE], filename, files)

remove_whites(toks) == SelectSeq(toks, LAMBDA tok : ~Blank(tok))

\* Adjacent strings are joined.
IsString(tok) == SubSeq(tok, 1, 1) = "\""
RECURSIVE collapse_strings(_)
collapse_strings(toks) ==
  IF Len(toks) < 2 THEN toks
  ELSE IF IsString(toks[1]) /\ IsString(toks[2])
       THEN collapse_strings(<<SubSeq(toks[1], 1, Len(toks[1]) - 1) \o SubSeq(toks[2], 2, Len(toks[2]))>>
                               \o SubSeq(toks, 3, Len(toks)))
  ELSE <<toks[1]>> \o collapse_strings(Tail(toks))
=============================================================================
