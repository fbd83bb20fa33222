------------------------------ MODULE GStaging ------------------------------
(***************************************************************************)
(* The G compiler in C (attic/gstaging.c), from which the compiler in      *)
(* assembly, asmg/asmg.asm, was written.  It is linked with the symbol     *)
(* table of lib/library.asm, so the operators of GCompiler on symbols are  *)
(* used here too; what each of its own functions does is stated from the C *)
(* code, down to the bytes it emits.                                       *)
(*                                                                         *)
(* The state is one record, g.  It reads the same tokens as the compiler   *)
(* in assembly, one at a time; frames and mode are those of GCompiler: the *)
(* C stack of parse_block and the place where it asks for the next token.  *)
(***************************************************************************)
EXTENDS GMachine

VARIABLE g

twins == <<s, alphabet, file, pos, files, ip, stack, g>>

----------------------------------------------------------------------------
(* Emission, labels and symbols *)

emit_str2(c, bytes) ==
  [c EXCEPT !.current_loc = @ + Len(bytes),
            !.out = IF c.stage = 1 THEN @ \o bytes ELSE @]

Word(x) == [i \in 1 .. 4 |-> (x \div (256 ^ (i - 1))) % 256]
emit322(c, x) == emit_str2(c, Word(x))

gen_label2(c) == [c EXCEPT !.label_num = @ + 1]
Place(c, l) == add_symbol_wrapper(c, Label(l), c.current_loc, -1)

\* get_symbol2, without an arity and with one.
Found2(c, name, arity) == (c.stage = 1 \/ arity) => Known(c, name)
get_symbol2(c, name, arity) ==
  IF (c.stage = 1 \/ arity) /\ Known(c, name) THEN Sym(c, name).loc ELSE 0

\* Mutant: the operand of a jump is relative to its own address.
compute_rel2_Off(c, addr) == addr - c.current_loc

compute_rel2(c, addr) == addr - c.current_loc - 4

\* A jump: the opcode, and a label that stage 0 need not know.
Rel(c, l) == Check(emit322(c, compute_rel2(c, get_symbol2(c, Label(l), FALSE))),
                   Found2(c, Label(l), FALSE))
JumpTo(c, opcode, l) == Rel(emit_str2(c, opcode), l)
JMP == <<233>>                             \* jmp rel
JE == <<88, 131, 248, 0, 15, 132>>         \* pop eax; cmp eax, 0; je rel

----------------------------------------------------------------------------
(* The stack at compile time.  A variable is pushed under its name, a      *)
(* temporary under TEMP_VAR.                                               *)

push_var2(c, name, temp) ==
  Check([c EXCEPT !.stack_vars = Append(@, name), !.temp_depth = IF temp THEN @ + 1 ELSE @],
        Len(c.stack_vars) < STACK_VARS_LEN /\ (temp \/ c.temp_depth = 0))

\* pop_var2(1), n times.
pop_var2(c, n) ==
  IF Len(c.stack_vars) < n \/ c.temp_depth < n THEN Panic(c)
  ELSE [c EXCEPT !.stack_vars = SubSeq(@, 1, Len(@) - n), !.temp_depth = @ - n]

pop_temps2(c) == pop_var2(c, c.temp_depth)

\* find_in_stack2: -1, or the distance from the top.
find_in_stack2(c, name) ==
  LET at == {i \in DOMAIN c.stack_vars : c.stack_vars[i] = name}
  IN  IF at = {} THEN -1 ELSE Len(c.stack_vars) - CHOOSE i \in at : \A j \in at : j <= i

Temp(c) == push_var2(c, TEMP_VAR, TRUE)

\* add esp, 4 * n; n arguments are gone and the result is pushed.
ADD_ESP(n) == <<129, 196>> \o Word(4 * n)
AfterCall(c, arity) ==
  emit_str2(Temp(pop_var2(emit_str2(c, ADD_ESP(arity)), arity)), <<80>>)

----------------------------------------------------------------------------
(* Expressions *)

Call2(c, loc, arity) == AfterCall(emit322(c, compute_rel2(c, loc)), arity)

Local2(c, k, addr) ==
  IF addr THEN emit_str2(Temp(c), <<141, 132, 36>> \o Word(4 * k) \o <<80>>)
  ELSE emit_str2(Temp(c), <<255, 180, 36>> \o Word(4 * k))

Global2(c, sym, addr) ==
  IF addr \/ sym.arity = -2
  THEN Check(emit_str2(Temp(c), <<104>> \o Word(sym.loc)), ~addr \/ sym.arity # -2)
  ELSE IF sym.arity = -1
  THEN emit_str2(Temp(c), <<184>> \o Word(sym.loc) \o <<255, 48>>)
  ELSE Call2(emit_str2(c, <<232>>), sym.loc, sym.arity)

push_expr2(c, t) ==
  IF t.k = "num" THEN emit_str2(Temp(c), <<104>> \o Word(t.n))
  ELSE IF find_in_stack2(c, t.name) # -1
  THEN Local2(c, find_in_stack2(c, t.name), t.k = "addr")
  ELSE IF ~Found2(c, t.name, TRUE) THEN Panic(c)
  ELSE Global2(c, Sym(c, t.name), t.k = "addr")

\* emit_escaped_string2 is given a string of t.n characters; which ones they
\* are is the matter of GLexer.
String(t) == [i \in 1 .. t.n + 1 |-> IF i <= t.n THEN 97 ELSE 0]

PushAddress(c, l) ==
  Check(emit322(emit_str2(Temp(c), <<104>>), get_symbol2(c, Label(l), FALSE)),
        Found2(c, Label(l), FALSE))

\* Here the label of the string is drawn before the one that is behind it; in
\* assembly it is the other way round.
StringLiteral(c, t, str, jmp) ==
  PushAddress(Place(emit_str2(Place(JumpTo(gen_label2(gen_label2(c)), JMP, jmp), str), String(t)), jmp), str)

\* The places where the main loop and push_expr_until_brace2 agree.
Expression(c, t) ==
  IF t.k = "str" THEN StringLiteral(c, t, c.label_num, c.label_num + 1)
  ELSE IF t.k \in {"num", "name", "addr"} THEN push_expr2(c, t)
  ELSE Panic(c)              \* it is looked up as a symbol

decode_number_or_symbol2(c, t) ==
  IF t.sym = NoName THEN t.n ELSE get_symbol2(c, t.sym, TRUE)
Decodes(c, t) == t.sym = NoName \/ Found2(c, t.sym, TRUE)

----------------------------------------------------------------------------
(* parse_block2 *)

\* parse_block2 is called: the depth is saved before the brace is read.
Block2(c, kind, l1, l2, mode) ==
  [c EXCEPT !.frames = Append(@, Frame(kind, Len(c.stack_vars), l1, l2)), !.mode = mode]

Top2(c) == c.frames[Len(c.frames)]
Statement(c, kind, l1, l2) == [c EXCEPT !.frames = Append(@, Frame(kind, 0, l1, l2)), !.mode = "cond"]
EndStatement(c) == [c EXCEPT !.frames = SubSeq(@, 1, Len(@) - 1)]

While2(c, restart, end) == Statement(Place(gen_label2(gen_label2(c)), restart), "while", restart, end)

RetValue2(c) == IF c.temp_depth > 0 THEN pop_var2(emit_str2(c, <<88>>), 1) ELSE c
Ret2(c) ==
  emit_str2(c, ADD_ESP(Len(c.stack_vars)) \o <<93, 195>>)   \* add esp; pop ebp; ret

\* Either way of leaving push_expr_until_brace2: the brace is given back, and
\* the block reads it.
AfterIf2(c, lab) == Block2(JumpTo(pop_var2(EndStatement(gen_label2(c)), 1), JE, lab), "if", lab, 0, "body")
AfterWhile2(c, f) == Block2(JumpTo(pop_var2(EndStatement(c), 1), JE, f.l2), "while", f.l1, f.l2, "body")

push_expr_until_brace2(c, t) ==
  IF t.k # "{" THEN Expression(c, t)
  ELSE IF c.temp_depth = 0 THEN Panic(c)
  ELSE IF Top2(c).kind = "if" THEN AfterIf2(c, c.label_num)
  ELSE AfterWhile2(c, Top2(c))

\* The end of a block, and what its caller does then.
Leave2(c, depth, f) ==
  [emit_str2(c, ADD_ESP(depth - f.saved)) EXCEPT
     !.stack_vars = SubSeq(@, 1, f.saved), !.frames = SubSeq(@, 1, Len(@) - 1)]
Resume2(c, f) ==
  CASE f.kind = "fun"   -> [emit_str2(c, <<93, 195>>) EXCEPT !.mode = "top"]
    [] f.kind = "if"    -> [c EXCEPT !.mode = "else", !.else_label = f.l1]
    [] f.kind = "else"  -> [Place(c, f.l2) EXCEPT !.mode = "body"]
    [] f.kind = "while" -> [Place(JumpTo(c, JMP, f.l1), f.l2) EXCEPT !.mode = "body"]
CloseBlock2(c, depth, f) ==
  IF depth < f.saved THEN Panic(c) ELSE Resume2(Leave2(c, depth, f), f)

parse_block2(c, t) ==
  CASE t.k = "}"     -> CloseBlock2(c, Len(c.stack_vars), Top2(c))
    [] t.k = ";"     -> pop_temps2(emit_str2(c, ADD_ESP(c.temp_depth)))
    [] t.k = "ret"   -> Ret2(RetValue2(c))
    [] t.k = "if"    -> Statement(c, "if", 0, 0)
    [] t.k = "while" -> While2(c, c.label_num, c.label_num + 1)
    [] t.k = "alloc" -> emit_str2(push_var2(c, t.name, FALSE), <<131, 236, 4>>)
    [] t.k = "icall" -> AfterCall(emit_str2(pop_var2(c, 1), <<88, 255, 208>>), t.n)
    [] OTHER         -> Expression(c, t)

Else2(c, fi) ==
  Block2(Place(JumpTo(gen_label2(c), JMP, fi), c.else_label), "else", c.else_label, fi, "open")
ElseOrNot2(c, t) ==
  IF t.k = "else" THEN Else2(c, c.label_num)
  ELSE parse_block2([Place(c, c.else_label) EXCEPT !.mode = "body"], t)

----------------------------------------------------------------------------
(* parse2 and compile2 *)

fun2(c, t) ==
  Block2(emit_str2(fix_symbol_placeholder(c, t.name, c.current_loc, t.n), <<85, 137, 229>>),
         "fun", 0, 0, "open")

parse2(c, t) ==
  CASE t.k = "fun"   -> fun2(c, t)
    [] t.k = "ifun"  -> add_symbol_placeholder(c, t.name, t.n)
    [] t.k = "const" ->
         Check(add_symbol_wrapper(c, t.name, decode_number_or_symbol2(c, t), -2), Decodes(c, t))
    [] t.k = "var"   -> emit322(add_symbol_wrapper(c, t.name, c.current_loc, -1), 0)
    [] t.k = "array" ->
         Check(emit_str2(add_symbol_wrapper(c, t.name, c.current_loc, -2),
                         [i \in 1 .. decode_number_or_symbol2(c, t) |-> 0]), Decodes(c, t))
    [] OTHER -> Panic(c)

Token2(c, t) ==
  CASE c.mode = "top"  -> parse2(c, t)
    [] c.mode = "open" -> IF t.k = "{" THEN [c EXCEPT !.mode = "body"] ELSE Panic(c)
    [] c.mode = "body" -> parse_block2(c, t)
    [] c.mode = "cond" -> push_expr_until_brace2(c, t)
    [] c.mode = "else" -> ElseOrNot2(c, t)

\* emit_preamble: four functions written in machine language.
Preamble ==
  << [name |-> Name("="), arity |-> 2, code |-> <<139, 68, 36, 4, 139, 76, 36, 8, 137, 1, 195>>],
     [name |-> Name("param"), arity |-> 1, code |-> <<139, 68, 36, 4, 139, 68, 133, 8, 195>>],
     [name |-> Name("+"), arity |-> 2, code |-> <<139, 68, 36, 4, 3, 68, 36, 8, 195>>],
     [name |-> Name("-"), arity |-> 2, code |-> <<139, 68, 36, 4, 43, 68, 36, 8, 195>>] >>

Before(i) == IF i = 1 THEN 0 ELSE IF i = 2 THEN 11 ELSE 11 + 9 * (i - 2)
PreambleLen == Before(5)
start_loc == HeapStart - PreambleLen      \* so that both compilers write at the same place

PreambleSymbols ==
  [i \in 1 .. 4 |-> [name |-> Preamble[i].name, loc |-> start_loc + Before(i), arity |-> Preamble[i].arity]]

PreambleFun(c, f) ==
  emit_str2(add_symbol_wrapper(c, f.name, c.current_loc, f.arity), f.code)
emit_preamble(c) ==
  PreambleFun(PreambleFun(PreambleFun(PreambleFun(c, Preamble[1]), Preamble[2]), Preamble[3]), Preamble[4])

Stage2(c, n) ==
  emit_preamble([c EXCEPT !.stage = n, !.label_num = 0, !.current_loc = start_loc, !.mode = "top"])

EndOfFile2(c) ==
  IF c.mode # "top" \/ c.frames # <<>> \/ c.stack_vars # <<>> \/ c.temp_depth # 0 THEN Panic(c)
  ELSE IF c.stage = 0 THEN Stage2(c, 1) ELSE [c EXCEPT !.mode = "done"]

compile2 ==
  Stage2([syms |-> <<>>, stage |-> 0, label_num |-> 0, current_loc |-> 0, temp_depth |-> 0,
          stack_vars |-> <<>>, frames |-> <<>>, mode |-> "top", else_label |-> 0, out |-> <<>>,
          panicked |-> FALSE], 0)

----------------------------------------------------------------------------
(* Both compilers read the first file; the one in C is then at its end.     *)

TInit == MInit /\ g = compile2

Reads == pos' = pos + 1 /\ g' = Token2(g, file'[pos'])
Ends == pos' = 0 /\ g' = EndOfFile2(g)

TNext ==
  \/ files = 1 /\ Compile /\ (Reads \/ Ends) /\ UNCHANGED <<ip, stack>>
  \/ files > 1 /\ Compile /\ UNCHANGED <<ip, stack, g>>
  \/ platform_g_compile /\ UNCHANGED <<ip, stack, g>>
  \/ Start /\ UNCHANGED <<s, alphabet, file, pos, files, g>>
  \/ Run /\ UNCHANGED <<s, alphabet, file, pos, files, g>>

TSpec == TInit /\ [][TNext]_twins

----------------------------------------------------------------------------
(* Properties *)

\* The two number the labels of a string in different orders: labels are told
\* apart by their places only.
Unnumbered(syms) == [i \in DOMAIN syms |-> IF IsLabel(syms[i]) THEN [syms[i] EXCEPT !.name = Label(0)] ELSE syms[i]]

\* The bytes of an instruction of GCompiler that stands at a.
Encoded(i, a) ==
  CASE i.op = "push"    -> <<104>> \o Word(i.arg)
    [] i.op = "slot"    -> IF i.len = 8 THEN <<141, 132, 36>> \o Word(4 * i.arg) \o <<80>>
                           ELSE <<255, 180, 36>> \o Word(4 * i.arg)
    [] i.op = "load"    -> <<184>> \o Word(i.arg) \o <<255, 48>>
    [] i.op = "call"    -> <<232>> \o Word(i.arg - a - 5) \o ADD_ESP(i.n) \o <<80>>
    [] i.op = "icall"   -> <<88, 255, 208>> \o ADD_ESP(i.n) \o <<80>>
    [] i.op = "add_esp" -> ADD_ESP(i.arg)
    [] i.op = "pop"     -> <<88>>
    [] i.op = "ret"     -> <<93, 195>>
    [] i.op = "enter"   -> <<85, 137, 229>>
    [] i.op = "sub_esp" -> <<131, 236, 4>>
    [] i.op = "jmp"     -> JMP \o Word(i.arg - a - 5)
    [] i.op = "je"      -> JE \o Word(i.arg - a - 10)

\* What the C compiler has written to its output is, byte for byte, the code
\* that the compiler in assembly left in memory.
SameCode ==
  s.mode = "done" /\ ip = 0 =>
    /\ g.mode = "done" /\ Len(g.out) = s.write_mem_ptr - start_loc
    /\ \A a \in DOMAIN s.code : s.code[a].op # "data" =>
         SubSeq(g.out, a - start_loc + 1, a - start_loc + s.code[a].len) = Encoded(s.code[a], a)

\* The compiler in assembly is a faithful rewriting of the one in C: after
\* every token, in both stages, the two have refused the file or neither has,
\* and they agree on the place in the code, the symbols and the stack; and in the
\* end they have emitted the same code.
TwinsAgree ==
  files = 1 =>
    /\ SameCode
    /\ g.panicked = s.panicked
    /\ ~s.panicked /\ s.mode # "done" =>
         /\ g.stage = s.stage /\ g.mode = s.mode
         /\ g.current_loc = s.current_loc /\ g.temp_depth = s.temp_depth
         /\ Unnumbered(g.syms) = Unnumbered(s.syms)
         /\ g.stack_vars = [i \in DOMAIN s.stack_vars |-> s.stack_vars[i].name]
=============================================================================
