----------------------------- MODULE GCompiler -----------------------------
(***************************************************************************)
(* The compiler of the G language (asmg/asmg.asm), its symbol table        *)
(* (lib/library.asm) and platform_g_compile (asmg/kernel-asmg.asm).        *)
(*                                                                         *)
(* A file is read twice.  Stage 0 places the symbols, stage 1 emits the    *)
(* code; both keep, at compile time, the stack that the code will have at  *)
(* run time.  The program is chosen token by token during stage 0 and read *)
(* again in stage 1.                                                       *)
(*                                                                         *)
(* The state of the compiler is one record, s; every routine of the source *)
(* is an operator from records to records, and platform_panic sets a flag. *)
(* One field is a history variable: uneven records that the condition of a *)
(* while does not push exactly one value.                                  *)
(* A token is a record with the kind k that the compiler recognises; the   *)
(* name, number or length it carries is n or name.  Machine instructions   *)
(* are records too, with their real length in bytes.                       *)
(***************************************************************************)
EXTENDS Integers, Sequences, TLC

CONSTANTS
  Alphabets,         \* records [tokens, max, files]: a file is written with the
                     \* tokens of one of them; it has at most max of these, and
                     \* at most so many files follow each other (bounds)
  Kernel,            \* symbols that exist beforehand: a sequence of records
  SYMBOL_TABLE_LEN,
  STACK_VARS_LEN,
  HeapStart          \* heap_ptr when the first file is compiled

ASSUME BoundsAssumption ==
  /\ \A a \in Alphabets : a.max \in Nat /\ a.files \in Nat
  /\ SYMBOL_TABLE_LEN \in Nat /\ STACK_VARS_LEN \in Nat
  /\ HeapStart \in Nat \ {0} /\ HeapStart % 4 = 0

VARIABLES
  s,         \* the compiler
  alphabet,  \* the alphabet of the current file
  file,      \* the tokens of the current file
  pos,       \* tokens read in this stage
  files      \* files compiled so far

vars == <<s, alphabet, file, pos, files>>

NoLoc == -1          \* the location 0xffffffff of a placeholder

\* A name is a pair: of a text and 0, or of a dot and the number of a label.
Name(text) == <<text, 0>>
NoName == Name("")
TEMP_VAR == Name("__temp")

Panic(c) == [c EXCEPT !.panicked = TRUE]
Check(c, ok) == IF ok THEN c ELSE Panic(c)

----------------------------------------------------------------------------
(* The symbol table *)

\* get_symbol_idx: the first symbol of that name, one past the end if none.
get_symbol_idx(c, name) ==
  LET hits == {i \in DOMAIN c.syms : c.syms[i].name = name}
  IN  IF hits = {} THEN Len(c.syms) + 1 ELSE CHOOSE i \in hits : \A j \in hits : i <= j

Known(c, name) == get_symbol_idx(c, name) <= Len(c.syms)
Sym(c, name) == c.syms[get_symbol_idx(c, name)]

add_symbol(c, name, loc, arity) ==
  IF Known(c, name) \/ Len(c.syms) >= SYMBOL_TABLE_LEN
  THEN Panic(c)
  ELSE [c EXCEPT !.syms = Append(@, [name |-> name, loc |-> loc, arity |-> arity])]

\* Stage 0 defines, stage 1 checks that it finds the same again.
add_symbol_wrapper(c, name, loc, arity) ==
  IF c.stage = 0
  THEN add_symbol(c, name, loc, arity)
  ELSE Check(c, Known(c, name) /\ Sym(c, name).loc = loc /\ Sym(c, name).arity = arity)

add_symbol_placeholder(c, name, arity) ==
  IF Known(c, name) THEN Check(c, Sym(c, name).arity = arity)
  ELSE IF c.stage = 0 THEN add_symbol(c, name, NoLoc, arity)
  ELSE Panic(c)

fix_symbol_placeholder(c, name, loc, arity) ==
  IF ~Known(c, name)
  THEN IF c.stage = 0 THEN add_symbol(c, name, loc, arity) ELSE Panic(c)
  ELSE IF /\ Sym(c, name).arity = arity
          /\ \/ Sym(c, name).loc = loc
             \/ Sym(c, name).loc = NoLoc /\ c.stage = 0
       THEN [c EXCEPT !.syms[get_symbol_idx(c, name)].loc = loc]
       ELSE Panic(c)

\* write_label: labels are symbols whose name begins with a dot.
Label(n) == <<".", n>>
IsLabel(sym) == sym.name[1] = "."

\* Mutant: compute_rel forgets that the operand itself is skipped.
LabelLoc_Off(c, l) ==
  IF c.stage = 0 \/ ~Known(c, Label(l)) THEN 0 ELSE Sym(c, Label(l)).loc + 4

\* get_symbol without an arity, used for labels, is 0 in stage 0.  The operand
\* of a jump is relative (compute_rel); here it is the target.
LabelLoc(c, l) ==
  IF c.stage = 0 \/ ~Known(c, Label(l)) THEN 0 ELSE Sym(c, Label(l)).loc
LabelKnown(c, l) == c.stage = 0 \/ Known(c, Label(l))

gen_label(c) == [c EXCEPT !.label_num = @ + 1]

PlaceLabel(c, l) == add_symbol_wrapper(c, Label(l), c.current_loc, -1)

----------------------------------------------------------------------------
(* Emission and the compile-time stack *)

\* emit, emit32 and emit_str: the location advances in both stages, bytes
\* are written, at write_mem_ptr, in stage 1 only.
Emit(c, len, instr) ==
  IF c.stage = 0
  THEN [c EXCEPT !.current_loc = @ + len]
  ELSE [c EXCEPT !.current_loc = @ + len,
                 !.write_mem_ptr = @ + len,
                 !.code = (c.write_mem_ptr :> [instr EXCEPT !.len = len]) @@ @]

I(op, arg) == [op |-> op, arg |-> arg, n |-> 0, len |-> 0, decl |-> 0]

\* push_var: at is where the instruction that makes the slot stands.
push_var(c, name, temp, at) ==
  IF Len(c.stack_vars) >= STACK_VARS_LEN \/ (~temp /\ c.temp_depth # 0)
  THEN Panic(c)
  ELSE [c EXCEPT !.stack_vars = Append(@, [name |-> name, at |-> at]),
                 !.temp_depth = IF temp THEN @ + 1 ELSE @]

\* Not part of the compiler: the condition of a while takes away values that
\* were pushed before the loop.
Borrows(c, n) ==
  /\ c.mode = "cond"
  /\ LET f == c.frames[Len(c.frames)]
     IN  f.kind = "while" /\ Len(c.stack_vars) - n < f.saved

\* pop_var, called n times; every caller pops temporaries.
pop_vars(c, n) ==
  IF Len(c.stack_vars) < n \/ c.temp_depth < n
  THEN Panic(c)
  ELSE [c EXCEPT !.stack_vars = SubSeq(@, 1, Len(@) - n), !.temp_depth = @ - n,
                 !.uneven = @ \/ Borrows(c, n)]

pop_temps(c) == pop_vars(c, c.temp_depth)

\* Mutant: the outermost variable of that name is taken.
find_in_stack_Outermost(c, name) ==
  CHOOSE k \in 0 .. Len(c.stack_vars) - 1 :
    /\ c.stack_vars[Len(c.stack_vars) - k].name = name
    /\ \A j \in k + 1 .. Len(c.stack_vars) - 1 : c.stack_vars[Len(c.stack_vars) - j].name # name

\* find_in_stack: distance from the top of the innermost variable.
InStack(c, name) == \E i \in DOMAIN c.stack_vars : c.stack_vars[i].name = name
find_in_stack(c, name) ==
  CHOOSE k \in 0 .. Len(c.stack_vars) - 1 :
    /\ c.stack_vars[Len(c.stack_vars) - k].name = name
    /\ \A j \in 0 .. k - 1 : c.stack_vars[Len(c.stack_vars) - j].name # name

\* Not part of the compiler: the declaration that scoping gives the name.
Declaration(c, name) ==
  LET at == {i \in DOMAIN c.stack_vars : c.stack_vars[i].name = name}
  IN  c.stack_vars[CHOOSE i \in at : \A j \in at : j <= i].at

PushTemp(c, len, instr) == Emit(push_var(c, TEMP_VAR, TRUE, c.current_loc), len, instr)

\* Call a function and push what it returns.
Call(c, len, instr, arity) ==
  LET e == Emit(c, len, [instr EXCEPT !.n = arity])
  IN  push_var(pop_vars(e, arity), TEMP_VAR, TRUE, c.current_loc)
\* push_expr: a number, a local variable or a symbol; addr asks for the
\* address, written @name.
push_expr(c, t) ==
  LET addr == t.k = "addr"
      k == find_in_stack(c, t.name)
      sym == Sym(c, t.name)
  IN
  CASE t.k = "num" -> PushTemp(c, 5, I("push", t.n))
    [] t.k # "num" /\ InStack(c, t.name) ->
         PushTemp(c, IF addr THEN 8 ELSE 7,
                  [I("slot", k) EXCEPT !.decl = Declaration(c, t.name)])
    [] t.k # "num" /\ ~InStack(c, t.name) /\ ~Known(c, t.name) -> Panic(c)
    [] OTHER ->
         IF sym.arity = -2 THEN IF addr THEN Panic(c) ELSE PushTemp(c, 5, I("push", sym.loc))
         ELSE IF addr THEN PushTemp(c, 5, I("push", sym.loc))
         ELSE IF sym.arity = -1 THEN PushTemp(c, 7, I("load", sym.loc))
         ELSE Call(c, 12, I("call", sym.loc), sym.arity)

\* A string literal: its bytes stand in the code, which jumps over them.
PushString(c, t) ==
  LET jump == c.label_num
      str == c.label_num + 1
      c1 == Emit(gen_label(gen_label(c)), 5, I("jmp", LabelLoc(c, jump)))
      c2 == Emit(PlaceLabel(c1, str), t.n + 1, I("data", 0))
      c3 == PlaceLabel(c2, jump)
  IN  Check(PushTemp(c3, 5, I("push", LabelLoc(c3, str))), LabelKnown(c, jump))

\* `\number': call the function whose address is on the stack.
IndirectCall(c, t) == Call(pop_vars(c, 1), 10, I("icall", 0), t.n)

\* decode_number_or_symbol: the value a constant or an array size is given.
HasValue(c, t) == t.sym = NoName \/ Known(c, t.sym)
Value(c, t) == IF t.sym = NoName THEN t.n ELSE Sym(c, t.sym).loc

----------------------------------------------------------------------------
(* parse and parse_block.  The recursion of parse_block is the sequence     *)
(* frames; mode says what the next token is read for:                       *)
(*   "top"   a declaration, in parse                                        *)
(*   "open"  the brace that opens a block                                   *)
(*   "body"  the main loop of parse_block                                   *)
(*   "cond"  push_expr_until_brace                                          *)
(*   "else"  after the block of an if                                       *)

Frame(kind, saved, l1, l2) == [kind |-> kind, saved |-> saved, l1 |-> l1, l2 |-> l2]

\* parse_block is entered: block_depth is the number of frames.
Enter(c, kind, l1, l2, mode) ==
  [c EXCEPT !.frames = Append(@, Frame(kind, Len(c.stack_vars), l1, l2)),
            !.mode = mode]

fun(c, t) ==
  LET c1 == fix_symbol_placeholder(c, t.name, c.current_loc, t.n)
      enter == [I("enter", 0) EXCEPT !.n = t.n]
  IN  Enter(Emit(c1, 3, enter), "fun", 0, 0, "open")

parse(c, t) ==
  CASE t.k = "fun"   -> fun(c, t)
    [] t.k = "ifun"  -> add_symbol_placeholder(c, t.name, t.n)
    [] t.k = "const" -> IF HasValue(c, t)
                        THEN add_symbol_wrapper(c, t.name, Value(c, t), -2)
                        ELSE Panic(c)
    [] t.k = "var"   -> Emit(add_symbol_wrapper(c, t.name, c.current_loc, -1), 4, I("data", 0))
    [] t.k = "array" -> IF HasValue(c, t)
                        THEN Emit(add_symbol_wrapper(c, t.name, c.current_loc, -2),
                                  Value(c, t), I("data", 0))
                        ELSE Panic(c)
    [] OTHER -> Panic(c)

semicolon(c) == pop_temps(Emit(c, 6, I("add_esp", c.temp_depth)))

ret(c) ==
  LET c1 == IF c.temp_depth = 0 THEN c ELSE pop_vars(Emit(c, 1, I("pop", 0)), 1)
      c2 == Emit(c1, 6, I("add_esp", Len(c1.stack_vars)))
  IN  Emit(c2, 2, I("ret", 0))

if(c) == [c EXCEPT !.mode = "cond", !.frames = Append(@, Frame("if", 0, 0, 0))]

while(c) ==
  LET restart == c.label_num
      end == c.label_num + 1
      c1 == PlaceLabel(gen_label(gen_label(c)), restart)
  IN  [c1 EXCEPT !.mode = "cond",
                 !.frames = Append(@, Frame("while", Len(c.stack_vars), restart, end))]

EndOfCondition(c) ==
  LET f == c.frames[Len(c.frames)]
      isIf == f.kind = "if"
      target == IF isIf THEN c.label_num ELSE f.l2
      c1 == pop_vars(IF isIf THEN gen_label(c) ELSE c, 1)
      c2 == Emit(c1, 10, I("je", LabelLoc(c, target)))
      c3 == [c2 EXCEPT !.frames = SubSeq(@, 1, Len(@) - 1),
                       !.uneven = @ \/ (~isIf /\ Len(c1.stack_vars) # f.saved)]
  IN  Check(Enter(c3, f.kind, IF isIf THEN target ELSE f.l1, f.l2, "body"),
            c.temp_depth > 0 /\ LabelKnown(c, target))

push_expr_until_brace(c, t) ==
  CASE t.k = "{" -> EndOfCondition(c)
    [] t.k = "str" -> PushString(c, t)
    [] t.k \in {"num", "name", "addr"} -> push_expr(c, t)
    [] OTHER -> Panic(c)       \* it is looked up as a symbol

alloc(c, t) == Emit(push_var(c, t.name, FALSE, c.current_loc), 3, I("sub_esp", 0))

\* parse_block_break: the end of a block, then what the caller of parse_block
\* does next.
parse_block_break(c) ==
  LET f == c.frames[Len(c.frames)]
      depth == Len(c.stack_vars)
      c1 == Emit(c, 6, I("add_esp", depth - f.saved))
      c2 == [c1 EXCEPT !.stack_vars = SubSeq(@, 1, f.saved),
                       !.frames = SubSeq(@, 1, Len(@) - 1)]
      After ==
        CASE f.kind = "fun" -> [Emit(c2, 2, I("ret", 0)) EXCEPT !.mode = "top"]
          [] f.kind = "if" -> [c2 EXCEPT !.mode = "else", !.else_label = f.l1]
          [] f.kind = "else" -> [PlaceLabel(c2, f.l2) EXCEPT !.mode = "body"]
          [] f.kind = "while" ->
               [PlaceLabel(Emit(c2, 5, I("jmp", LabelLoc(c2, f.l1))), f.l2) EXCEPT !.mode = "body"]
  IN  IF depth < f.saved THEN Panic(c) ELSE After

parse_block(c, t) ==
  CASE t.k = "}" -> parse_block_break(c)
    [] t.k = ";" -> semicolon(c)
    [] t.k = "ret" -> ret(c)
    [] t.k = "if" -> if(c)
    [] t.k = "while" -> while(c)
    [] t.k = "alloc" -> alloc(c, t)
    [] t.k = "icall" -> IndirectCall(c, t)
    [] t.k = "str" -> PushString(c, t)
    [] t.k \in {"num", "name", "addr"} -> push_expr(c, t)
    [] OTHER -> Panic(c)       \* end of file, or not a symbol

\* An else, or the end of an if without one.  In the latter case the token is
\* given back to the main loop.
parse_block_else(c, t) ==
  LET fi == c.label_num
      c1 == Emit(gen_label(c), 5, I("jmp", LabelLoc(c, fi)))
      c2 == PlaceLabel(c1, c.else_label)
  IN  IF t.k = "else"
      THEN Check(Enter(c2, "else", c.else_label, fi, "open"), LabelKnown(c, fi))
      ELSE parse_block([PlaceLabel(c, c.else_label) EXCEPT !.mode = "body"], t)

Token(c, t) ==
  CASE c.mode = "top"  -> parse(c, t)
    [] c.mode = "open" -> IF t.k = "{" THEN [c EXCEPT !.mode = "body"] ELSE Panic(c)
    [] c.mode = "body" -> parse_block(c, t)
    [] c.mode = "cond" -> push_expr_until_brace(c, t)
    [] c.mode = "else" -> parse_block_else(c, t)
----------------------------------------------------------------------------
(* compile and platform_g_compile *)

\* Mutant: labels go on counting in the second stage.
StartStage_Labels(c, n) ==
  [c EXCEPT !.stage = n, !.current_loc = c.base, !.mode = "top"]

\* compile's state at the start of a stage, platform_reset_file included.
StartStage(c, n) ==
  [c EXCEPT !.stage = n, !.label_num = 0, !.current_loc = c.base, !.mode = "top"]

\* platform_g_compile, up to the first token.
StartFile(c) ==
  StartStage([c EXCEPT !.base = c.heap_ptr, !.write_mem_ptr = c.heap_ptr,
                       !.temp_depth = 0, !.stack_vars = <<>>, !.frames = <<>>], 0)

\* Mutant: the labels stay.
discard_temp_labels_None(c) == c

discard_temp_labels(c) == [c EXCEPT !.syms = SelectSeq(@, LAMBDA y : ~IsLabel(y))]

Align4(x) == ((x + 3) \div 4) * 4

\* What follows the last token: the checks of compile, then the next stage or
\* the end of platform_g_compile.
DepthsZero(c) == Len(c.frames) = 0 /\ Len(c.stack_vars) = 0 /\ c.temp_depth = 0

EndOfFile(c) ==
  IF c.mode # "top" \/ ~DepthsZero(c) THEN Panic(c)
  ELSE IF c.stage = 0 THEN StartStage(c, 1)
  ELSE [discard_temp_labels(c) EXCEPT !.mode = "done",
                                      !.heap_ptr = Align4(c.write_mem_ptr)]

Init ==
  /\ s = StartFile([syms |-> Kernel, stage |-> 0, label_num |-> 0, current_loc |-> 0,
                    base |-> 0, heap_ptr |-> HeapStart, write_mem_ptr |-> 0,
                    temp_depth |-> 0, stack_vars |-> <<>>, frames |-> <<>>,
                    mode |-> "top", else_label |-> 0,
                    code |-> [x \in {} |-> 0], panicked |-> FALSE,
                    uneven |-> FALSE])
  /\ alphabet \in Alphabets
  /\ file = <<>>
  /\ pos = 0
  /\ files = 1

\* get_token: in stage 0 the file is still being written.
ReadNew ==
  /\ s.stage = 0 /\ Len(file) < alphabet.max
  /\ \E t \in alphabet.tokens : file' = Append(file, t) /\ s' = Token(s, t)
  /\ pos' = pos + 1

ReadAgain ==
  /\ s.stage = 1 /\ pos < Len(file)
  /\ s' = Token(s, file[pos + 1])
  /\ pos' = pos + 1
  /\ UNCHANGED file

ReadEnd ==
  /\ s.stage = 0 \/ pos = Len(file)
  /\ s' = EndOfFile(s)
  /\ pos' = 0
  /\ UNCHANGED file

Compile ==
  /\ ~s.panicked /\ s.mode # "done"
  /\ ReadNew \/ ReadAgain \/ ReadEnd
  /\ UNCHANGED <<alphabet, files>>

platform_g_compile ==
  /\ s.mode = "done" /\ files < alphabet.files
  /\ s' = StartFile(s)
  /\ alphabet' \in {a \in Alphabets : a.files = alphabet.files}
  /\ file' = <<>> /\ pos' = 0
  /\ files' = files + 1

----------------------------------------------------------------------------
(* Properties *)

\* Whatever stage 0 accepts, stage 1 accepts: every symbol is found again
\* where the first reading put it, and the bytes go where the symbols say.
StagesAgree ==
  s.stage = 1 => /\ ~s.panicked
                 /\ s.mode # "done" => s.write_mem_ptr = s.current_loc

\* No label outlives its file, where it would be taken for the label of the
\* same number of the next one; and the tables never grow beyond their length,
\* however many files fill them.
LabelsAreOfThisFile ==
  /\ Len(s.stack_vars) <= STACK_VARS_LEN /\ Len(s.syms) <= SYMBOL_TABLE_LEN
  /\ \A i \in DOMAIN s.syms :
       IsLabel(s.syms[i]) => s.mode # "done" /\ s.syms[i].loc >= s.base

\* A call goes to the prologue of a function of as many parameters, to the
\* kernel or, when its function is not defined by the end of the file, nowhere.
CallsLandOnEntry ==
  s.mode = "done" => \A a \in DOMAIN s.code :
    s.code[a].op = "call" =>
      \/ s.code[a].arg \in {NoLoc} \union {Kernel[i].loc : i \in DOMAIN Kernel}
      \/ /\ s.code[a].arg \in DOMAIN s.code
         /\ s.code[s.code[a].arg].op = "enter"
         /\ s.code[s.code[a].arg].n = s.code[a].n
=============================================================================
