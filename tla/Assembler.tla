------------------------------ MODULE Assembler ------------------------------
(* The assembler of asmg (asm_compile.g, asm_preproc.g and the handlers of  *)
(* asm_opcodes.g): it reads a file three times, the first time to learn its *)
(* size, the second to place the labels and the third to write the code.    *)
(* A file is a sequence of lines from an alphabet; a panic stops it.        *)
EXTENDS Integers, Sequences, FiniteSets, AsmOpcodes, X86

CONSTANTS
  Alphabets,  \* kinds of files: name -> [lines |-> set of lines, max |-> how many]
  Starts,     \* where platform_allocate may put the code
  Junk        \* what the words of a row that nobody set may hold

ASSUME StartsAligned == Starts \subseteq {n \in Nat : n % 4 = 0}

\* Lines are what the parser makes of a text: a name with a colon is a label,
\* a name that the table has an instruction, and the rest data.
IsList(s) == Len(s) \in Nat /\ DOMAIN s = 1 .. Len(s)
IsOperand(t) ==
  \/ t.kind = "reg" /\ t.reg \in DOMAIN parse_register
  \/ t.kind = "ind" /\ t.size \in 0 .. 3 /\ IsList(t.terms)
  \/ t.kind = "imm" /\ IsList(t.terms)
AreOperands(texts) == IsList(texts) /\ \A i \in DOMAIN texts : IsOperand(texts[i])
IsLine(l) ==
  \/ /\ l.kind = "op" /\ l.name \in DOMAIN build_opcode_map
     /\ IsList(l.groups) /\ \A g \in DOMAIN l.groups : AreOperands(l.groups[g])
  \/ l.kind = "label" /\ l.label # ""
  \/ /\ l.kind = "data" /\ l.type \in {"d", "r", "align"} /\ l.size \in 1 .. 4
     /\ AreOperands(l.values)

ASSUME LinesParsed == \A a \in DOMAIN Alphabets : \A l \in Alphabets[a].lines : IsLine(l)

IND == 0
REG == 1
IMM == 2
NONE == 8

VARIABLES
  alphabet,
  file,    \* the lines read so far, in the first reading
  line,    \* how many lines of this reading were assembled
  ctx,     \* the context: ASMCTX_STAGE, CURRENT_LOC, SYMBOLS, memory, error
  start, size,
  where,   \* where the code of each line went
  junk

vars == <<alphabet, file, line, ctx, start, size, where, junk>>

Init ==
  /\ alphabet \in DOMAIN Alphabets /\ junk \in Junk
  /\ file = <<>> /\ line = 0 /\ where = <<>> /\ start = 0 /\ size = 0
  /\ ctx = [stage |-> 0, loc |-> 0, symbols |-> <<>>, memory |-> <<>>, error |-> ""]

----------------------------------------------------------------------------
(* Writing (asm_preproc.g) *)

Check(c, holds, what) == IF c.error = "" /\ ~holds THEN [c EXCEPT !.error = what] ELSE c
Then(c, Next(_)) == IF c.error # "" THEN c ELSE Next(c)

\* Mutant: the code is written at every reading.
Put_Always(c, w, v) ==
  [c EXCEPT !.loc = @ + w, !.memory = Over([x \in {c.loc} |-> [w |-> w, v |-> v]], @)]

\* A cell of w bytes goes to the current location, in the last stage.
Put(c, w, v) ==
  IF c.stage = 2 THEN [c EXCEPT !.loc = @ + w, !.memory = Over([x \in {c.loc} |-> [w |-> w, v |-> v]], @)]
  ELSE [c EXCEPT !.loc = @ + w]

asmctx_emit(c, v) == Put(c, 1, v % 256)

emit_size(c, v, sz) ==
  CASE sz = 1 -> asmctx_emit(c, v)
    [] sz = 2 -> Put(c, 2, v % 65536)
    [] sz = 3 -> Put(c, 4, v)
    [] sz = 4 -> Put(Put(c, 4, v), 4, 0)

emit_multibyte(c, data) ==
  LET n == data % 256
      Emit[i \in 0 .. 3] == IF i = 0 THEN c ELSE asmctx_emit(Emit[i - 1], data \div 256 ^ i)
  IN  IF n \in 1 .. 3 THEN Emit[n] ELSE Check(c, FALSE, "operand")

\* Mutant: a second definition of a label is taken for the first.
asmctx_add_symbol_Again(c, name) ==
  IF c.stage = 1 THEN [c EXCEPT !.symbols = Over([x \in {name} |-> c.loc], @)]
  ELSE IF c.stage = 2 THEN Check(c, name \in DOMAIN c.symbols, "internal") ELSE c

asmctx_add_symbol(c, name) ==
  CASE c.stage = 1 -> Then(Check(c, name \notin DOMAIN c.symbols, "duplicate"),
                           LAMBDA c1 : [c1 EXCEPT !.symbols = Over([x \in {name} |-> c1.loc], @)])
    [] c.stage = 2 -> Check(c, name \in DOMAIN c.symbols /\ c.symbols[name] = c.loc, "internal")
    [] OTHER -> c

----------------------------------------------------------------------------
(* Operands (asmctx_parse_number, asmctx_parse_operand) *)

\* A number or a symbol, as it is written: [sym |-> "" or a name, num |-> n].
\* Before the last stage a symbol is worth 0 (asmctx_get_symbol).
Undefined(c, v) == v.sym # "" /\ c.stage = 2 /\ v.sym \notin DOMAIN c.symbols
Value(c, v) ==
  IF v.sym = "" THEN v.num
  ELSE IF c.stage = 2 /\ v.sym \in DOMAIN c.symbols THEN c.symbols[v.sym] ELSE 0

Operand(type, sz, reg, offset) ==
  [type |-> type, size |-> sz, reg |-> reg, offset |-> offset, scale |-> 0, index |-> NONE,
   error |-> ""]
Bad(op, what) == [op EXCEPT !.error = what]

RegSize(r) == parse_register[r] \div 16
RegNumber(r) == parse_register[r] % 16

\* One term of an indirect operand: a number, a register times a scale, or a
\* register alone, which is the base or, if there is one, the index.
AddTerm(op, c, m) ==
  CASE op.error # "" -> op
    [] m.reg = "" /\ Undefined(c, m.value) -> Bad(op, "undefined")
    [] m.reg = "" /\ ~Undefined(c, m.value) -> [op EXCEPT !.offset = @ + m.sign * Value(c, m.value)]
    [] m.reg # "" /\ (m.sign # 1 \/ RegSize(m.reg) # 3 \/ m.scale \notin {0, 1, 2, 4, 8}) -> Bad(op, "operand")
    [] OTHER ->
         CASE m.scale # 0 -> [op EXCEPT !.index = RegNumber(m.reg),
                                        !.scale = CHOOSE s \in 0 .. 3 : 2 ^ s = m.scale]
           [] m.scale = 0 /\ op.reg = NONE -> [op EXCEPT !.reg = RegNumber(m.reg)]
           [] m.scale = 0 /\ op.reg # NONE /\ op.index = NONE ->
                [op EXCEPT !.index = RegNumber(m.reg), !.scale = 0]
           [] OTHER -> Bad(op, "operand")

BitOr(a, b) ==
  LET Or[i \in 0 .. 8] ==
        IF i = 0 THEN 0
        ELSE LET bit == 2 ^ (i - 1)
             IN  Or[i - 1] + IF {(a \div bit) % 2, (b \div bit) % 2} = {0} THEN 0 ELSE bit
  IN  Or[8]

\* One term of a direct operand: a value, possibly combined with a second one,
\* with a sign.  shr is what the code makes of it, a shift to the left.
AddValue(op, c, m) ==
  LET x == Value(c, m.value)
      y == Value(c, m.second)
      v == CASE m.with \in {"shl", "shr"} -> x * 2 ^ y
             [] m.with = "or" -> BitOr(x, y)
             [] m.with = "*" -> x * y
             [] OTHER -> x
  IN  CASE op.error # "" -> op
        [] Undefined(c, m.value) \/ Undefined(c, m.second) -> Bad(op, "undefined")
        [] OTHER -> [op EXCEPT !.offset = CASE m.sign = "+" -> @ + v
                                            [] m.sign = "-" -> @ - v
                                            [] m.sign = "not" -> @ - v - 1]

\* An operand is written as a register, as values or as terms in brackets.
asmctx_parse_operand(c, t) ==
  LET First == IF t.kind = "ind" THEN Operand(IND, t.size, NONE, 0) ELSE Operand(IMM, 0, NONE, 0)
      Add(op, m) == IF t.kind = "ind" THEN AddTerm(op, c, m) ELSE AddValue(op, c, m)
      S[i \in 0 .. Len(t.terms)] == IF i = 0 THEN First ELSE Add(S[i - 1], t.terms[i])
  IN  IF t.kind = "reg" THEN Operand(REG, RegSize(t.reg), RegNumber(t.reg), 0) ELSE S[Len(t.terms)]

----------------------------------------------------------------------------
(* Encoding of operands (asm_opcodes.g) *)

Field(o, f) == IF f \in DOMAIN o /\ o[f] # Unset THEN o[f] ELSE junk
opcode_to_reg(word) == word \div 2 ^ 24
assemble_modrm(mod, reg, rm) == mod * 64 + reg * 8 + rm
assemble_sib(scale, index, base) == scale * 64 + index * 8 + base

\* Mutant: ESP as a base without the byte that it needs.
op_to_modrm_NoEsp(op, reg) ==
  LET Alone(modrm) == modrm * 2 ^ 8 + 1
  IN  CASE op.type = REG -> Alone(assemble_modrm(3, reg, op.reg))
        [] op.reg = NONE -> Alone(assemble_modrm(0, reg, 5))
        [] OTHER -> Alone(assemble_modrm(2, reg, op.reg))

op_to_modrm(op, reg) ==
  LET Alone(modrm) == modrm * 2 ^ 8 + 1
      Both(modrm, sib) == sib * 2 ^ 16 + modrm * 2 ^ 8 + 2
  IN  CASE op.type = REG -> Alone(assemble_modrm(3, reg, op.reg))
        [] op.type = IND /\ op.index = NONE ->
             CASE op.reg = NONE -> Alone(assemble_modrm(0, reg, 5))
               [] op.reg = 4 -> Both(assemble_modrm(2, reg, 4), \h24)
               [] OTHER -> Alone(assemble_modrm(2, reg, op.reg))
        [] op.type = IND /\ op.index # NONE ->
             IF op.reg = NONE THEN Both(assemble_modrm(0, reg, 4), assemble_sib(op.scale, op.index, 5))
             ELSE Both(assemble_modrm(2, reg, 4), assemble_sib(op.scale, op.index, op.reg))

\* An opcode, the operand in memory or in a register, and its displacement.
WithOperand(c, word, op, reg) ==
  LET Displaced(c1) == IF op.type = IND THEN Put(c1, 4, op.offset) ELSE c1
  IN  Then(Check(emit_multibyte(c, word), op.type # IMM /\ ~(op.type = IND /\ op.index = 4), "operand"),
           LAMBDA c1 : Displaced(emit_multibyte(c1, op_to_modrm(op, reg))))

\* The prefix of an instruction with operands of 16 bits.
Prefix(c, sz) == IF sz = 2 THEN asmctx_emit(c, \h66) ELSE c
BySize(o, sz, byte, wide) == IF sz = 1 THEN Field(o, byte) ELSE Field(o, wide)

\* The size two operands agree on, if they do; 0 if none has one.
Common(a, b) == IF a.size # 0 THEN a.size ELSE b.size
Agree(a, b) == a.size = 0 \/ b.size = 0 \/ a.size = b.size

----------------------------------------------------------------------------
(* Handlers (asm_opcodes.g): the context, a row of the table and operands *)

\* The opcode of an instruction with an immediate, the operand it changes, and
\* then the immediate.
WithImmediate(c, word, op, Write(_)) == Then(WithOperand(c, word, op, opcode_to_reg(word)), Write)

add_like_handler(c, o, ops) ==
  LET a == ops[1]
      b == ops[2]
      sz == IF Common(a, b) = 0 /\ o.DEFAULT_32 THEN 3 ELSE Common(a, b)
      ok == /\ Agree(a, b) /\ sz # 0
            /\ a.type # IMM /\ (b.type = IMM => o.ALLOW_IMM)
            /\ b.type = IND => a.type = REG
      Code(c1) ==
        CASE b.type = IMM -> WithImmediate(c1, BySize(o, sz, "RM8IMM8", "RM32IMM32"), a,
                                           LAMBDA c2 : emit_size(c2, b.offset, sz))
          [] b.type = REG -> WithOperand(c1, BySize(o, sz, "RM8R8", "RM32R32"), a, b.reg)
          [] b.type = IND -> WithOperand(c1, BySize(o, sz, "R8RM8", "R32RM32"), b, a.reg)
  IN  Then(Check(c, ok, "operand"), LAMBDA c1 : Code(Prefix(c1, sz)))

sal_like_handler(c, o, ops) ==
  LET a == ops[1]
      b == ops[2]
      sz == IF a.size = 0 THEN 3 ELSE a.size
      with_cl == o.ALLOW_CL /\ b.type # IMM
      ok == /\ o.FORCE_32 => sz = 3
            /\ a.type # IMM
            /\ b.type = IMM \/ (with_cl /\ b.type = REG /\ b.size = 1 /\ b.reg = 1)
      Code(c1) ==
        IF with_cl THEN WithImmediate(c1, BySize(o, sz, "RM8CL", "RM32CL"), a, LAMBDA c2 : c2)
        ELSE WithImmediate(c1, BySize(o, sz, "RM8IMM8", "RM32IMM8"), a, LAMBDA c2 : asmctx_emit(c2, b.offset))
  IN  Then(Check(c, ok, "operand"), LAMBDA c1 : Code(Prefix(c1, sz)))

lea_like_handler(c, o, ops) ==
  Then(Check(c, ops[1].size = 3 /\ ops[1].type = REG /\ ops[2].type = IND, "operand"),
       LAMBDA c1 : WithOperand(c1, o.RM32M, ops[2], ops[1].reg))

stos_like_handler(c, o, ops) ==
  LET sz == IF o.FORCE_8 /\ ops[1].size = 0 THEN 1 ELSE ops[1].size
  IN  Then(Check(c, sz # 0 /\ (o.FORCE_8 => sz = 1), "operand"),
           LAMBDA c1 : emit_multibyte(c1, Field(o, <<"M8", "M16", "M32">>[sz])))

movzx_like_handler(c, o, ops) ==
  LET a == ops[1]
      b == ops[2]
      from == IF b.size = 0 THEN 1 ELSE b.size
      ok == /\ a.size \in {2, 3} /\ from \in {1, 2} /\ ~(from = 2 /\ a.size = 2)
            /\ a.type = REG /\ b.type # IMM
  IN  Then(Check(c, ok, "operand"),
           LAMBDA c1 : WithOperand(Prefix(c1, a.size), BySize(o, from, "R32RM8", "R32RM16"), b, a.reg))

\* What follows the opcode of a jump: a relative one counts from its own end.
Distance(c, o, sz, target) ==
  IF o.RELATIVE THEN target - c.loc - (IF sz = 1 THEN 1 ELSE 4) ELSE target
Far(c, o, sz, off) == o.RELATIVE /\ sz = 1 /\ c.stage = 2 /\ off \notin -128 .. 127

jmp_like_handler(c, o, ops) ==
  LET op == ops[1]
      sz == CASE op.size # 0 -> op.size
              [] op.size = 0 /\ o.FORCE_8 -> 1
              [] OTHER -> 3
      ok == /\ o.FORCE_32 => sz = 3
            /\ o.FORCE_8 => sz = 1
            /\ IF op.type = IMM THEN o.ALLOW_IMM ELSE o.ALLOW_RM
      Target(c2) == LET off == Distance(c2, o, sz, op.offset)
                    IN  Then(Check(c2, ~Far(c2, o, sz, off), "far"), LAMBDA c3 : emit_size(c3, off, sz))
      Code(c1) == IF op.type = IMM THEN Then(emit_multibyte(c1, BySize(o, sz, "IMM8", "IMM32")), Target)
                  ELSE WithImmediate(c1, BySize(o, sz, "RM8", "RM32"), op, LAMBDA c2 : c2)
  IN  Then(Check(c, ok, "operand"), LAMBDA c1 : Code(Prefix(c1, sz)))

shld_like_handler(c, o, ops) ==
  LET a == ops[1]
      b == ops[2]
      n == ops[3]
      ok == /\ a.type # IMM /\ a.size \in {0, 3} /\ b.type = REG /\ b.size \in {0, 3}
            /\ n.size \in {0, 1} /\ (n.type = IMM \/ (n.type = REG /\ n.reg = 1))
      Code(c1) == WithOperand(c1, IF n.type = IMM THEN o.RM32R32IMM8 ELSE o.RM32R32CL, a, b.reg)
  IN  Then(Check(c, ok, "operand"),
           LAMBDA c1 : Then(Code(c1), LAMBDA c2 : IF n.type = IMM THEN asmctx_emit(c2, n.offset) ELSE c2))

\* With two operands the second of which is an immediate, the first one is
\* also the first source.
imul_like_handler(c, o, ops) ==
  LET n == Len(ops)
      a == ops[1]
      sz == IF a.size = 0 THEN 3 ELSE a.size
      three == n = 3 \/ (n = 2 /\ ops[2].type = IMM)
      b == IF n = 2 /\ three THEN a ELSE ops[2]
      i == ops[n]
      okOne == sz \in {1, 3} /\ a.type # IMM
      okMore == /\ a.type = REG /\ a.size \in {0, 3} /\ b.type # IMM /\ b.size \in {0, 3}
                /\ three => i.type = IMM
      Single == WithImmediate(c, BySize(o, sz, "RM8", "RM32"), a, LAMBDA c1 : c1)
      More == Then(WithOperand(c, IF three THEN o.R32RM32IMM32 ELSE o.R32RM32, b, a.reg),
                   LAMBDA c1 : IF three THEN Put(c1, 4, i.offset) ELSE c1)
  IN  CASE n = 1 /\ okOne -> Single
        [] n \in {2, 3} /\ okMore -> More
        [] OTHER -> Check(c, FALSE, "operand")

bsf_like_handler(c, o, ops) ==
  LET a == ops[1]
      b == ops[2]
  IN  Then(Check(c, Agree(a, b) /\ Common(a, b) # 0 /\ a.type = REG /\ b.type # IMM, "operand"),
           LAMBDA c1 : WithOperand(Prefix(c1, Common(a, b)), o.R32RM32, b, a.reg))

ret_like_handler(c, o, ops) == emit_multibyte(c, o.NO_OPERAND)

----------------------------------------------------------------------------
(* Lines (asmctx_parse_line, asmctx_parse_data) *)

\* The operands of one instruction, in the order in which they are read.
Group(c, o, texts) ==
  LET ops == [i \in DOMAIN texts |-> asmctx_parse_operand(c, texts[i])]
      wrong == {i \in DOMAIN ops : ops[i].error # ""}
      first == CHOOSE i \in wrong : \A k \in wrong : i <= k
      what == IF wrong = {} THEN "operand" ELSE ops[first].error
      Handled(c1) == CASE o.handler = "add" -> add_like_handler(c1, o, ops)
                       [] o.handler = "sal" -> sal_like_handler(c1, o, ops)
                       [] o.handler = "lea" -> lea_like_handler(c1, o, ops)
                       [] o.handler = "stos" -> stos_like_handler(c1, o, ops)
                       [] o.handler = "movzx" -> movzx_like_handler(c1, o, ops)
                       [] o.handler = "jmp" -> jmp_like_handler(c1, o, ops)
                       [] o.handler = "shld" -> shld_like_handler(c1, o, ops)
                       [] o.handler = "imul" -> imul_like_handler(c1, o, ops)
                       [] o.handler = "bsf" -> bsf_like_handler(c1, o, ops)
                       [] o.handler = "ret" -> ret_like_handler(c1, o, ops)
  IN  Then(Check(c, wrong = {} /\ o.ARG_NUM \in {\hff, Len(ops)}, what), Handled)

\* rep, and as many instructions as there are groups of operands, if the row
\* allows it.
Instruction(c, l) ==
  LET o == build_opcode_map[l.name]
      Do[i \in 0 .. Len(l.groups)] ==
        CASE i = 0 -> IF l.rep THEN asmctx_emit(c, \hf3) ELSE c
          [] i = 1 -> Group(Do[0], o, l.groups[1])
          [] OTHER -> Then(Check(Do[i - 1], o.repeats, "operand"), LAMBDA c1 : Group(c1, o, l.groups[i]))
  IN  Do[Len(l.groups)]

\* How many bytes align adds.
Padding(loc, to) == IF loc % to = 0 THEN 0 ELSE to - (loc % to)

Fill(c, n, sz) == IF n > 0 THEN Put(c, n * <<1, 2, 4, 8>>[sz], 0) ELSE c

asmctx_parse_data(c, l) ==
  LET op == [i \in DOMAIN l.values |-> asmctx_parse_operand(c, l.values[i])]
      Checked(c1, i) == Check(Check(c1, op[i].error = "", op[i].error), op[i].type = IMM, "operand")
      D[i \in 0 .. Len(l.values)] ==
        IF i = 0 THEN c ELSE Then(Checked(D[i - 1], i), LAMBDA c1 : emit_size(c1, op[i].offset, l.size))
      n == op[1].offset
  IN  CASE l.type = "d" -> D[Len(l.values)]
        [] l.type = "r" -> Then(Checked(c, 1), LAMBDA c1 : Fill(c1, n, l.size))
        [] l.type = "align" -> Then(Check(Checked(c, 1), n # 0, "trap"),
                                    LAMBDA c1 : Fill(c1, Padding(c1.loc, n), 1))

asmctx_parse_line(c, l) ==
  CASE l.kind = "op" -> Instruction(c, l)
    [] l.kind = "label" -> asmctx_add_symbol(c, l.label)
    [] l.kind = "data" -> Then(IF l.label = "" THEN c ELSE asmctx_add_symbol(c, l.label),
                               LAMBDA c1 : asmctx_parse_data(c1, l))

----------------------------------------------------------------------------
(* Readings (asmctx_compile) *)

Going == ctx.error = "" /\ ctx.stage < 3

Assembled(l) ==
  /\ ctx' = asmctx_parse_line(ctx, l)
  /\ line' = line + 1
  /\ where' = IF ctx.stage = 2 THEN Append(where, ctx.loc) ELSE where
  /\ UNCHANGED <<alphabet, start, size, junk>>

ReadNew ==
  /\ Going /\ ctx.stage = 0 /\ Len(file) < Alphabets[alphabet].max
  /\ \E l \in Alphabets[alphabet].lines : Assembled(l) /\ file' = Append(file, l)

ReadAgain ==
  /\ Going /\ ctx.stage > 0 /\ line < Len(file)
  /\ Assembled(file[line + 1])
  /\ UNCHANGED file

\* The end of a reading.  After the first one the code gets its place, and the
\* others must come to the same size.
EndOfFile ==
  /\ Going /\ line = Len(file)
  /\ line' = 0
  /\ UNCHANGED <<alphabet, file, where, junk>>
  /\ \/ /\ ctx.stage = 0
        /\ size' = ctx.loc
        /\ \E s \in Starts : start' = s /\ ctx' = [ctx EXCEPT !.stage = 1, !.loc = s]
     \/ /\ ctx.stage > 0
        /\ ctx' = Then(Check(ctx, ctx.loc - start = size, "size"),
                       LAMBDA c1 : [c1 EXCEPT !.stage = @ + 1, !.loc = start])
        /\ UNCHANGED <<start, size>>

Next == ReadNew \/ ReadAgain \/ EndOfFile

Spec == Init /\ [][Next]_vars
----------------------------------------------------------------------------
(* What a line says, for the processor *)

Done == ctx.stage = 3
Labelled(i) == file[i].kind # "op" /\ file[i].label # ""
Labels == {file[i].label : i \in {k \in DOMAIN file : Labelled(k)}}
LabelAt(name) == where[CHOOSE i \in DOMAIN file : Labelled(i) /\ file[i].label = name]
Number(v) == IF v.sym = "" THEN v.num ELSE LabelAt(v.sym)

Sum(f) == LET S[i \in 0 .. Len(f)] == IF i = 0 THEN 0 ELSE S[i - 1] + f[i] IN S[Len(f)]

\* A direct operand, with its shifts to the right.
Meant(t) ==
  LET Term(m) == LET x == Number(m.value)
                     y == Number(m.second)
                     v == CASE m.with = "shl" -> x * 2 ^ y
                            [] m.with = "shr" -> x \div 2 ^ y
                            [] m.with = "or" -> BitOr(x, y)
                            [] m.with = "*" -> x * y
                            [] OTHER -> x
                 IN  CASE m.sign = "+" -> v [] m.sign = "-" -> -v [] m.sign = "not" -> -v - 1
  IN  Sum([i \in DOMAIN t.terms |-> Term(t.terms[i])])

\* The address that is written in brackets.
Address(t) ==
  LET Times(m, r) == IF m.reg # "" /\ RegNumber(m.reg) = r THEN IF m.scale = 0 THEN 1 ELSE m.scale ELSE 0
      Disp(m) == IF m.reg = "" THEN m.sign * Number(m.value) ELSE 0
  IN  [coef |-> [r \in 0 .. 7 |-> Sum([i \in DOMAIN t.terms |-> Times(t.terms[i], r)])],
       disp |-> Sum([i \in DOMAIN t.terms |-> Disp(t.terms[i])])]

TextSize(t) == CASE t.kind = "reg" -> RegSize(t.reg) [] t.kind = "ind" -> t.size [] OTHER -> 0

\* The size of an operand in memory that is written without one: 8 bits for
\* movzx, movsx and the bytes of setcc; else that of the other operand of
\* add, bsf and the like; else 32 bits.
DefaultSize(name, texts) ==
  LET given == {TextSize(texts[i]) : i \in DOMAIN texts} \ {0}
  IN  CASE name \in DOMAIN MovzxLike \union DOMAIN Setcc -> 1
        [] name \in DOMAIN AddLike \union DOMAIN BsfLike /\ given # {} -> CHOOSE z \in given : TRUE
        [] OTHER -> 3

SizeOf(name, texts, t) ==
  IF name = "lea" \/ TextSize(t) = 0 THEN DefaultSize(name, texts) ELSE TextSize(t)

Counts == DOMAIN Shifts \union DOMAIN Bits \union DOMAIN ShldLike \union {"int"}
Relative == DOMAIN Jumps \union DOMAIN Loops \union DOMAIN Jcc

Wanted(name, texts) ==
  LET Arg(t) == LET z == SizeOf(name, texts, t) IN
        CASE t.kind = "reg" -> Reg(z, RegNumber(t.reg))
          [] t.kind = "ind" -> Mem(z, Address(t).coef, Address(t).disp)
          [] t.kind = "imm" -> CASE name \in Relative -> Rel(Meant(t))
                                 [] name \in Counts -> Imm(1, Meant(t))
                                 [] OTHER -> Imm(SizeOf(name, texts, texts[1]), Meant(t))
      args == [i \in DOMAIN texts |-> Arg(texts[i])]
  IN  CASE name \in DOMAIN StosLike -> <<>>
        [] name = "imul" /\ Len(texts) = 2 /\ texts[2].kind = "imm" -> <<args[1], args[1], args[2]>>
        [] OTHER -> args

\* An instruction is the one that the line names, with these operands.
Matches(l, texts, is, want) ==
  /\ l.name \in is.names
  /\ l.name \in DOMAIN StosLike =>
       l.name = "xlat" \/ l.name \o <<"b", "w", "d">>[SizeOf(l.name, texts, texts[1])] \in is.names
  /\ \/ is.args = want
     \/ l.name \in {"test", "xchg"} /\ is.args = <<want[2], want[1]>>
Says(l, texts, a, rep) ==
  /\ Repeated(ctx.memory, a) = rep
  /\ Matches(l, texts, Decode(ctx.memory, a), Wanted(l.name, texts))

End(i) == IF i < Len(file) THEN where[i + 1] ELSE start + size

AsWritten(i) ==
  LET l == file[i]
      At[g \in 1 .. Len(l.groups) + 1] ==
        IF g = 1 THEN where[i] ELSE Decode(ctx.memory, At[g - 1]).next
      width == <<1, 2, 4, 8>>[l.size]
      n == Meant(l.values[1])
      filled == End(i) - where[i]
      zeros == filled > 0 => Cell(ctx.memory, where[i], filled) = 0
  IN  CASE l.kind = "op" -> /\ \A g \in DOMAIN l.groups : Says(l, l.groups[g], At[g], l.rep /\ g = 1)
                            /\ At[Len(l.groups) + 1] = End(i)
        [] l.kind = "label" -> where[i] = End(i)
        [] l.kind = "data" /\ l.type = "d" ->
             /\ filled = width * Len(l.values)
             /\ \A k \in DOMAIN l.values :
                  Cell(ctx.memory, where[i] + (k - 1) * width, IF l.size = 4 THEN 4 ELSE width)
                    = Imm(l.size, Meant(l.values[k])).n
        [] l.kind = "data" /\ l.type = "r" -> filled = (IF n > 0 THEN n * width ELSE 0) /\ zeros
        [] l.kind = "data" /\ l.type = "align" -> End(i) % n = 0 /\ filled < n /\ zeros

\* Lines that the assembler is known not to take at their word: the table has
\* the codes of other instructions for cdq and movsd; a segment register does
\* not fit in ModRM; there is no bt, bsf, .. on bytes; a scaled register takes
\* the place of an index; and shr shifts to the left.
Texts(l) == IF l.kind = "op" THEN UNION {{l.groups[g][k] : k \in DOMAIN l.groups[g]} : g \in DOMAIN l.groups}
            ELSE IF l.kind = "data" THEN {l.values[k] : k \in DOMAIN l.values} ELSE {}

Usual(l) ==
  /\ l.kind = "op" =>
       /\ l.name \notin {"cdq", "movsd"}
       /\ l.name \in DOMAIN Bits \union DOMAIN BsfLike => \A t \in Texts(l) : TextSize(t) # 1
  /\ \A t \in Texts(l) :
       /\ t.kind = "reg" => RegNumber(t.reg) < 8
       /\ t.kind = "ind" => Cardinality({k \in DOMAIN t.terms : t.terms[k].reg # ""}) <= 2
                            /\ Cardinality({k \in DOMAIN t.terms : t.terms[k].scale # 0}) <= 1
       /\ t.kind = "imm" => \A k \in DOMAIN t.terms : t.terms[k].with # "shr"

\* The size of a line depends on where the code is, or on a symbol.
Named(t) == \E k \in DOMAIN t.terms : t.terms[k].value.sym # "" \/ t.terms[k].second.sym # ""
Relocates(l) ==
  /\ l.kind = "data" /\ l.type \in {"r", "align"}
  /\ Named(l.values[1]) \/ (l.type = "align" /\ 4 % Meant(l.values[1]) # 0)

----------------------------------------------------------------------------
(* Properties *)

\* What the first reading accepted is refused later only for what that one
\* cannot know: a label that is there twice or not at all, a short jump that is
\* too long.  The assertions of asmctx_compile ("error 1") and
\* asmctx_add_symbol ("error 1", "error 2") can fail only if the size of a line
\* depends on where the code is.
StagesAgree ==
  ctx.stage > 0 =>
    \/ ctx.error \in {"", "duplicate", "undefined", "far"}
    \/ ctx.error \in {"size", "internal"} /\ \E i \in DOMAIN file : Relocates(file[i])

\* The processor, reading what was written, finds every instruction with its
\* operands, every jump going to its label, and the data in their places.
AssembledAsWritten == Done => \A i \in DOMAIN file : Usual(file[i]) => AsWritten(i)

\* The symbols that are handed to the program are where the labels are.
SymbolsPlaced == Done => ctx.symbols = [name \in Labels |-> LabelAt(name)]

\* The code is written into the block that was allocated for it, not elsewhere.
StaysInside ==
  (\A i \in DOMAIN file : ~Relocates(file[i])) =>
    \A a \in DOMAIN ctx.memory : start <= a /\ a + ctx.memory[a].w <= start + size

\* Every line is assembled to what it says, those that are known included.
MnemonicsAsWritten == Done => \A i \in DOMAIN file : AsWritten(i)
=============================================================================
