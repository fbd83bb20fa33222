---------------------------- MODULE CStatements ----------------------------
(***************************************************************************)
(* The statements of asmg/c_compile.g: functions, blocks, local variables, *)
(* labels and jumps.  A file is read three times: the first reading finds  *)
(* out how long the code is and where the stack is at each label, the      *)
(* second one where each label is, and the third one writes.  The frames   *)
(* of the recursive descent are in todo; an action is one statement, or    *)
(* what follows the end of a nested one.                                   *)
(*                                                                         *)
(* An expression is one token: "e" calls something that returns a value,   *)
(* "and", "or" and "cond" combine two or three of them, and a name is a    *)
(* variable.  Positions on the stack and sizes are in words; an            *)
(* instruction, or a group that is always emitted together, has length 1.  *)
(***************************************************************************)
EXTENDS Integers, Sequences

CONSTANTS
  Jobs,      \* the files: toks is what the compiler reads
  Base       \* where platform_allocate puts the code

VARIABLES
  job,
  c          \* the compiler's context CCTX, with the local one, LCTX, in l

-----------------------------------------------------------------------------
(* Reading and writing *)

\* 0xffffffff, which is no position, as these are multiples of 4.
Unset == 999
Fail(x, why) == [x EXCEPT !.error = IF @ = "" THEN why ELSE @]

TokAt(p) == IF p > Len(job.toks) THEN "" ELSE job.toks[p]
Tok(x) == TokAt(x.pos)
Past(x, n) == [x EXCEPT !.pos = @ + n]
Expect(x, tok) == IF Tok(x) = tok THEN Past(x, 1) ELSE Fail(x, "expected")

Emits(x, instrs) ==
  [x EXCEPT !.loc = @ + Len(instrs), !.code = IF x.stage = 2 THEN @ \o instrs ELSE @]
Emit(x, instr) == Emits(x, <<instr>>)

I(op) == [op |-> op]
AddEsp(n) == [op |-> "add", n |-> n]
Eval(p, i, vals) == [op |-> "eval", at |-> <<p, i>>, vals |-> vals]

-----------------------------------------------------------------------------
(* Labels: where the code is (a global) and where the stack is *)

lctx_stack_pos(x) == x.l.stack[Len(x.l.stack)].loc

\* The new label is x.num + 1.
cctx_gen_label(x) ==
  LET y == [x EXCEPT !.num = @ + 1]
  IN  IF x.stage = 0 THEN [y EXCEPT !.label_pos = Append(@, Unset), !.label_loc = Append(@, Unset)]
      ELSE IF x.num = Len(x.label_pos) THEN Fail(x, "cctx_gen_label: error 1")
      ELSE IF x.stage = 2 /\ x.label_pos[x.num + 1] = Unset THEN Fail(y, "label never defined")
      ELSE y

RECURSIVE lctx_gen_labels(_, _)
lctx_gen_labels(x, n) == IF n = 0 THEN x ELSE lctx_gen_labels(cctx_gen_label(x), n - 1)

\* A label is a global: it gets its location in the second reading, and must
\* have it in the third.
cctx_add_global(x, lab) ==
  CASE x.stage = 0 -> x
    [] x.stage = 1 -> IF x.label_loc[lab] = Unset THEN [x EXCEPT !.label_loc[lab] = x.loc]
                      ELSE Fail(x, "defined more than once")
    [] x.stage = 2 -> IF x.label_loc[lab] = x.loc THEN x ELSE Fail(x, "cctx_add_global: error 3")

lctx_fix_label(x, lab) ==
  LET y == cctx_add_global(x, lab)
      pos == lctx_stack_pos(x)
  IN  IF x.stage = 0 THEN [y EXCEPT !.label_pos[lab] = pos]
      ELSE IF x.label_pos[lab] = pos THEN y ELSE Fail(y, "cctx_fix_label: error 1")

Rewinding_Never(x, lab, type) == <<>>      \* mutant: the stack is left as it is

\* The stack is moved to where it is at the label, before the jump is taken
\* or not.
Rewinding(x, lab, type) ==
  LET add == AddEsp(x.label_pos[lab] - lctx_stack_pos(x))
  IN  IF type = "jmp" THEN <<add>> ELSE <<I("lahf"), add, I("sahf")>>

cctx_gen_label_jump(x, lab, type, rewind) ==
  Emits(x, (IF rewind THEN Rewinding(x, lab, type) ELSE <<>>) \o <<[op |-> type, to |-> x.label_loc[lab]]>>)

-----------------------------------------------------------------------------
(* Variables *)

TypeNames == {"int", "long"}
cctx_type_footprint(type) == IF type = "long" THEN 2 ELSE 1

\* The last variable of that name, or 0.
lctx_get_variable(x, name) ==
  LET named == {i \in DOMAIN x.l.stack : x.l.stack[i].name = name}
  IN  IF named = {} THEN 0 ELSE CHOOSE i \in named : \A j \in named : j <= i

lctx_push_var(x, type, name) ==
  LET footprint == cctx_type_footprint(type)
      elem == [name |-> name, loc |-> lctx_stack_pos(x) - footprint]
  IN  Emit([x EXCEPT !.l.stack = Append(@, elem)], AddEsp(-footprint))

lctx_restore_status(x, status) ==
  LET rewind == x.l.stack[status].loc - lctx_stack_pos(x)
      y == Emit([x EXCEPT !.l.stack = SubSeq(@, 1, status)], AddEsp(rewind))
  IN  IF rewind >= 0 THEN y ELSE Fail(y, "lctx_restore_status: error 2")

\* The arguments lie above the return address, the first one below the
\* others; a last element marks where local variables begin.
RECURSIVE Arguments(_, _)
Arguments(args, loc) ==
  IF args = <<>> THEN <<>>
  ELSE Append(Arguments(Tail(args), loc + cctx_type_footprint(args[1].type)),
              [name |-> args[1].name, loc |-> loc])
lctx_prime_stack(args) == Append(Arguments(args, 2), [name |-> "", loc |-> 0])

-----------------------------------------------------------------------------
(* Expressions, as far as they jump.  A value is pushed; vals is what it   *)
(* may be.                                                                 *)

ast_push_value_logic(x, p, and) ==
  LET end == x.num + 1
      y == Emits(cctx_gen_label(Emit(x, Eval(p, 1, {0, 1}))),
                 <<I("pop"), I("test"), [op |-> "mov", n |-> IF and THEN 0 ELSE 1]>>)
      z == Emits(cctx_gen_label_jump(y, end, IF and THEN "jz" ELSE "jnz", FALSE),
                 <<Eval(p, 2, {0, 1}), I("pop"), I("test"), I("setnz")>>)
  IN  Emit(lctx_fix_label(z, end), I("push"))

Conditional(x, p, vals) ==
  LET else_lab == x.num + 1
      end_lab == x.num + 2
      y == Emits(lctx_gen_labels(x, 2), <<Eval(p, 1, {0, 1}), I("pop"), I("test")>>)
      z == Emit(cctx_gen_label_jump(y, else_lab, "jz", FALSE), Eval(p, 2, vals))
      u == lctx_fix_label(cctx_gen_label_jump(z, end_lab, "jmp", FALSE), else_lab)
  IN  lctx_fix_label(Emit(u, Eval(p, 3, vals)), end_lab)

Variable(x, p, name) ==
  LET i == lctx_get_variable(x, name)
  IN  IF i = 0 THEN Fail(x, "global does not exist")
      ELSE Emit(x, [op |-> "read", at |-> <<p, 1>>, loc |-> x.l.stack[i].loc])

ast_push_value(x, vals) ==
  LET p == x.pos
      tok == Tok(x)
  IN  Past(CASE tok = "e" -> Emit(x, Eval(p, 1, vals))
             [] tok \in {"and", "or"} -> ast_push_value_logic(x, p, tok = "and")
             [] tok = "cond" -> Conditional(x, p, vals)
             [] OTHER -> Variable(x, p, tok), 1)

\* The value of a statement is dropped; a condition ends up in eax.
ast_c_eval(x) == Emit(ast_push_value(x, {0}), AddEsp(1))
Guard(x) == Emits(Expect(ast_push_value(Expect(x, "("), {0, 1}), ")"), <<I("pop"), I("test")>>)

-----------------------------------------------------------------------------
(* Statements *)

Frame == c.todo[Len(c.todo)]
\* The frame on top is done, and others take its place, the last one first.
Then(x, frames) == [x EXCEPT !.todo = SubSeq(@, 1, Len(@) - 1) \o frames]
Done(x) == Then(x, <<>>)

Statement == [do |-> "statement"]
\* A loop remembers the labels of the one around it.
Loop(x, kind, cont, brk, again) ==
  [do |-> kind, cont |-> cont, brk |-> brk, again |-> again, old_cont |-> x.l.cont, old_brk |-> x.l.brk]
Inside(x, f) == Then([x EXCEPT !.l.cont = f.cont, !.l.brk = f.brk], <<f, Statement>>)

\* Mutant: continue goes on meaning the inner loop.
Outside_Continue(x, f) == [x EXCEPT !.l.brk = f.old_brk]
Outside(x, f) == [x EXCEPT !.l.cont = f.old_cont, !.l.brk = f.old_brk]

Compiling == c.stage < 3 /\ c.error = ""
At(kind) == Compiling /\ c.todo # <<>> /\ Frame.do = kind
\* The next token opens a statement of its own kind.
Sees(tok) == At("statement") /\ Tok(c) = tok
Becomes(x) == c' = x /\ UNCHANGED job

Keywords == {";", "{", "}", "return", "break", "continue", "if", "for", "while", "do",
             "switch", "case", "default", "goto"}

Empty == Sees(";") /\ Becomes(Done(Past(c, 1)))

Block == Sees("{") /\ Becomes(Then(Past(c, 1), <<[do |-> "block", status |-> Len(c.l.stack)]>>))
BlockGoesOn == At("block") /\ Tok(c) # "}" /\ Becomes([c EXCEPT !.todo = Append(@, Statement)])
BlockEnds == At("block") /\ Tok(c) = "}" /\ Becomes(Done(lctx_restore_status(Past(c, 1), Frame.status)))

Return ==
  LET x == IF c.l.void THEN Past(c, 1) ELSE Emit(ast_push_value(Past(c, 1), {0}), I("pop"))
  IN  Sees("return") /\ Becomes(Done(Expect(cctx_gen_label_jump(x, c.l.ret, "jmp", TRUE), ";")))

Break ==
  /\ Sees("break")
  /\ Becomes(Done(Expect(cctx_gen_label_jump(Past(c, 1), c.l.brk, "jmp", TRUE), ";")))
Continue ==
  /\ Sees("continue")
  /\ Becomes(Done(Expect(cctx_gen_label_jump(Past(c, 1), c.l.cont, "jmp", TRUE), ";")))

If ==
  LET else_lab == c.num + 1
      x == Guard(lctx_gen_labels(Past(c, 1), 2))
  IN  /\ Sees("if")
      /\ Becomes(Then(cctx_gen_label_jump(x, else_lab, "jz", FALSE), <<[do |-> "then", lab |-> else_lab], Statement>>))
ThenEnds ==
  LET x == lctx_fix_label(cctx_gen_label_jump(c, Frame.lab + 1, "jmp", FALSE), Frame.lab)
      end == [do |-> "else", lab |-> Frame.lab + 1]
  IN  /\ At("then")
      /\ Becomes(IF Tok(c) = "else" THEN Then(Past(x, 1), <<end, Statement>>) ELSE Then(x, <<end>>))
ElseEnds == At("else") /\ Becomes(Done(lctx_fix_label(c, Frame.lab)))

\* The step of a for comes before its body; a missing condition is 1.
For ==
  LET cont == c.num + 1
      brk == c.num + 2
      restart == c.num + 3
      body == c.num + 4
      x == Expect(lctx_gen_labels(Past(c, 1), 4), "(")
      y == Expect(IF Tok(x) = ";" THEN x ELSE ast_c_eval(x), ";")
      z == lctx_fix_label(y, restart)
      u == Emits(IF Tok(z) = ";" THEN Emit(z, [op |-> "const", n |-> 1]) ELSE ast_push_value(z, {0, 1}), <<I("pop"), I("test")>>)
      v == cctx_gen_label_jump(cctx_gen_label_jump(Expect(u, ";"), brk, "jz", FALSE), body, "jmp", FALSE)
      w == lctx_fix_label(v, cont)
      s == Expect(IF Tok(w) = ")" THEN w ELSE ast_c_eval(w), ")")
      f == Loop(c, "loop", cont, brk, cont)
  IN  /\ Sees("for")
      /\ Becomes(Inside(lctx_fix_label(cctx_gen_label_jump(s, restart, "jmp", FALSE), body), f))

While ==
  LET cont == c.num + 1
      brk == c.num + 2
      x == Guard(lctx_fix_label(lctx_gen_labels(Past(c, 1), 2), cont))
  IN  /\ Sees("while")
      /\ Becomes(Inside(cctx_gen_label_jump(x, brk, "jz", FALSE), Loop(c, "loop", cont, brk, cont)))

\* The body of a for or of a while is over.
LoopEnds ==
  /\ At("loop")
  /\ Becomes(Done(lctx_fix_label(cctx_gen_label_jump(Outside(c, Frame), Frame.again, "jmp", FALSE), Frame.brk)))

Do ==
  LET restart == c.num + 3
      x == lctx_fix_label(lctx_gen_labels(Past(c, 1), 3), restart)
  IN  Sees("do") /\ Becomes(Inside(x, Loop(c, "do", c.num + 1, c.num + 2, restart)))
DoEnds ==
  LET x == lctx_fix_label(Expect(Outside(c, Frame), "while"), Frame.cont)
      y == cctx_gen_label_jump(Guard(x), Frame.brk, "jz", FALSE)
  IN  /\ At("do")
      /\ Becomes(Done(Expect(lctx_fix_label(cctx_gen_label_jump(y, Frame.again, "jmp", FALSE), Frame.brk), ";")))

\* The value of a switch stays on the stack, as two words, until the tests,
\* which follow the body.
Switch ==
  LET brk == c.num + 1
      x == Expect(ast_push_value(Expect(lctx_gen_labels(Past(c, 1), 2), "("), {0, 1, 2}), ")")
      y == cctx_gen_label_jump(Emit(x, I("widen")), brk + 1, "jmp", FALSE)
      f == [do |-> "switch", brk |-> brk, old_brk |-> c.l.brk, old_dflt |-> c.l.dflt, old_cases |-> c.l.cases]
  IN  /\ Sees("switch")
      /\ Becomes(Then([y EXCEPT !.l.brk = brk, !.l.dflt = Unset, !.l.cases = [open |-> TRUE, labs |-> <<>>]],
                      <<f, Statement>>))

RECURSIVE CaseTests(_, _)
CaseTests(x, i) ==
  IF i > Len(x.l.cases.labs) THEN x
  ELSE LET case == x.l.cases.labs[i]
           y == Emits(x, <<[op |-> "const", n |-> case.value], I("widen"), I("compare")>>)
       IN  CaseTests(Emit(cctx_gen_label_jump(y, case.lab, "jz", TRUE), I("restore")), i + 1)

SwitchEnds ==
  LET x == lctx_fix_label(cctx_gen_label_jump(c, Frame.brk, "jmp", FALSE), Frame.brk + 1)
      y == Emits(CaseTests(x, 1), <<I("pop"), I("pop")>>)
      z == IF c.l.dflt = Unset THEN y ELSE cctx_gen_label_jump(y, c.l.dflt, "jmp", TRUE)
      u == [z EXCEPT !.l.brk = Frame.old_brk, !.l.dflt = Frame.old_dflt, !.l.cases = Frame.old_cases]
  IN  At("switch") /\ Becomes(Done(lctx_fix_label(u, Frame.brk)))

\* A label for the statement that follows.
Labelled(x) == Then(lctx_fix_label(cctx_gen_label(x), x.num + 1), <<Statement>>)

Case ==
  LET x == Expect(Past(c, 2), ":")
      value == CASE TokAt(c.pos + 1) = "0" -> 0 [] TokAt(c.pos + 1) = "1" -> 1 [] OTHER -> 2
  IN  /\ Sees("case")
      /\ Becomes(IF ~c.l.cases.open THEN Fail(x, "not in a switch block")
                 ELSE Labelled([x EXCEPT !.l.cases.labs = Append(@, [value |-> value, lab |-> c.num + 1])]))
Default ==
  LET x == Expect(Past(c, 1), ":")
  IN  /\ Sees("default")
      /\ Becomes(IF ~c.l.cases.open THEN Fail(x, "not in a switch block")
                 ELSE IF c.l.dflt # Unset THEN Fail(x, "default label already seen")
                 ELSE Labelled([x EXCEPT !.l.dflt = c.num + 1]))

\* The label of a name, made by the first that mentions it.
Known(x, name) == name \in DOMAIN x.l.gotos
Named(x, name) ==
  IF Known(x, name) THEN x
  ELSE [cctx_gen_label(x) EXCEPT !.l.gotos = [n \in DOMAIN @ \union {name} |-> IF n = name THEN x.num + 1 ELSE @[n]]]

Goto ==
  LET name == TokAt(c.pos + 1)
      x == Named(Past(c, 2), name)
  IN  Sees("goto") /\ Becomes(Done(Expect(cctx_gen_label_jump(x, x.l.gotos[name], "jmp", TRUE), ";")))

IsLabel == At("statement") /\ Tok(c) \notin Keywords /\ TokAt(c.pos + 1) = ":"
LabelStatement ==
  LET name == Tok(c)
      x == Named(Past(c, 2), name)
  IN  IsLabel /\ Becomes(Then(lctx_fix_label(x, x.l.gotos[name]), <<Statement>>))

\* Declarations: type name = value, name = value;
Declaration ==
  /\ At("statement") /\ Tok(c) \in TypeNames
  /\ Becomes(Then(Past(c, 1), <<[do |-> "declarator", type |-> Tok(c)]>>))
Initialised(x, name) ==
  LET y == ast_push_value(Past(x, 1), {0})
  IN  Emits(y, <<[op |-> "write", at |-> <<x.pos + 1, 1>>, loc |-> x.l.stack[lctx_get_variable(x, name)].loc], AddEsp(1)>>)
Declarator ==
  LET x == Past(lctx_push_var(c, Frame.type, Tok(c)), 1)
      y == IF Tok(x) = "=" THEN Initialised(x, Tok(c)) ELSE x
  IN  /\ At("declarator")
      /\ Becomes(IF Tok(y) = "," THEN Past(y, 1) ELSE Done(Expect(y, ";")))

Expression ==
  /\ At("statement") /\ Tok(c) \notin Keywords \union TypeNames /\ ~IsLabel
  /\ Becomes(Done(Expect(ast_c_eval(c), ";")))

-----------------------------------------------------------------------------
(* Functions and readings *)

\* What malloc leaves in LCTX_BREAK_LABEL and LCTX_CONTINUE_LABEL is not read
\* by programs that break and continue within loops.
lctx_init(void) ==
  [stack |-> <<>>, void |-> void, ret |-> Unset, brk |-> Unset, cont |-> Unset, dflt |-> Unset,
   cases |-> [open |-> FALSE, labs |-> <<>>], gotos |-> [n \in {} |-> 0]]

Parameters(p) ==
  LET end == CHOOSE q \in p .. Len(job.toks) : TokAt(q) = "{" /\ \A r \in p .. q - 1 : TokAt(r) # "{"
  IN  [i \in 1 .. (end - p) \div 2 |-> [type |-> TokAt(p + 2 * i - 2), name |-> TokAt(p + 2 * i - 1)]]

\* cctx_compile_line, for a function: its type, its parameters, its body.
FunctionBegins ==
  LET args == Parameters(c.pos + 1)
      x == cctx_gen_label([Past(c, 2 + 2 * Len(args)) EXCEPT !.l = lctx_init(Tok(c) = "void")])
      y == [x EXCEPT !.l.ret = c.num + 1, !.l.stack = lctx_prime_stack(args), !.entries = Append(@, c.loc)]
  IN  /\ Compiling /\ c.todo = <<>> /\ c.pos <= Len(job.toks)
      /\ Becomes([Emit(y, I("prologue")) EXCEPT
                    !.todo = <<[do |-> "function"], [do |-> "block", status |-> Len(y.l.stack)]>>])
FunctionEnds ==
  At("function") /\ Becomes(Done(Emit(lctx_fix_label(c, c.l.ret), I("epilogue"))))

cctx_init ==
  [stage |-> 0, loc |-> 0, pos |-> 1, num |-> 0, label_pos |-> <<>>, label_loc |-> <<>>, code |-> <<>>,
   todo |-> <<>>, l |-> lctx_init(TRUE), size |-> 0, entries |-> <<>>, error |-> ""]

StageEnds ==
  LET x == [c EXCEPT !.stage = @ + 1, !.loc = Base, !.pos = 1, !.num = 0, !.entries = IF c.stage = 2 THEN @ ELSE <<>>]
  IN  /\ Compiling /\ c.todo = <<>> /\ c.pos > Len(job.toks)
      /\ Becomes(IF c.stage = 0 THEN [x EXCEPT !.size = c.loc]
                 ELSE IF c.loc - Base = c.size THEN x ELSE Fail(x, "cctx_compile: error 1"))

Init == job \in Jobs /\ c = cctx_init

Compile ==
  \/ FunctionBegins \/ FunctionEnds \/ StageEnds
  \/ Empty \/ Block \/ BlockGoesOn \/ BlockEnds \/ Return \/ Break \/ Continue
  \/ If \/ ThenEnds \/ ElseEnds \/ For \/ While \/ LoopEnds \/ Do \/ DoEnds
  \/ Switch \/ SwitchEnds \/ Case \/ Default \/ Goto \/ LabelStatement
  \/ Declaration \/ Declarator \/ Expression
=============================================================================
