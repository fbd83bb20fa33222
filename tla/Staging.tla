------------------------------- MODULE Staging -------------------------------
(***************************************************************************)
(* The assembler in C (attic/staging.c), from which asmasm.asm was written *)
(* and which takes its tables of opcodes from there.  It reads a file      *)
(* twice: stage 0 finds out where the symbols are, stage 1 writes the      *)
(* code.  A file is a sequence of lines from an alphabet, a line is what   *)
(* process_line makes of the text: an opcode and its operands.             *)
(*                                                                         *)
(* An operand is a register, a place in memory or a value; a value is      *)
(* [sym |-> "" or a name, num |-> n].  Memory has cells as in X86.         *)
(***************************************************************************)
EXTENDS Integers, Sequences, FiniteSets, TLC, X86

CONSTANTS
  Alphabets,         \* kinds of files: name -> [lines |-> set of lines, max |-> how many]
  StartLoc,
  SYMBOL_TABLE_LEN

VARIABLES
  alphabet,
  file,      \* the lines read so far, in stage 0
  line,      \* how many lines of this stage were processed
  ctx,       \* stage, current_loc, the symbols, what was written, panicked
  where      \* where the code of each line went, in stage 1

vars == <<alphabet, file, line, ctx, where>>

Init ==
  /\ alphabet \in DOMAIN Alphabets
  /\ file = <<>> /\ line = 0 /\ where = <<>>
  /\ ctx = [stage |-> 0, loc |-> StartLoc, symbols |-> <<>>, memory |-> <<>>, panicked |-> FALSE]

Panic(c) == [c EXCEPT !.panicked = TRUE]
Check(c, holds) == IF holds THEN c ELSE Panic(c)

----------------------------------------------------------------------------
(* Symbols, numbers and what is emitted *)

add_symbol(c, name, loc) ==
  IF name \in DOMAIN c.symbols \/ Cardinality(DOMAIN c.symbols) >= SYMBOL_TABLE_LEN THEN Panic(c)
  ELSE [c EXCEPT !.symbols = (name :> loc) @@ @]

add_symbol_wrapper(c, name, loc) ==
  IF c.stage = 0 THEN add_symbol(c, name, loc)
  ELSE Check(c, name \in DOMAIN c.symbols /\ c.symbols[name] = loc)

\* Is the symbol looked up?  In stage 0 it is worth 0, unless it must be known.
LooksUp_Late(c, v, force_symbol) == v.sym # "" /\ c.stage = 1      \* mutant: it need not be known
LooksUp(c, v, force_symbol) == v.sym # "" /\ (c.stage = 1 \/ force_symbol)

Decodes(c, v, force_symbol) == LooksUp(c, v, force_symbol) => v.sym \in DOMAIN c.symbols
decode_number_or_symbol(c, v, force_symbol) ==
  IF LooksUp(c, v, force_symbol) THEN c.symbols[v.sym] ELSE IF v.sym = "" THEN v.num ELSE 0

Put(c, w, v) ==
  [c EXCEPT !.loc = @ + w,
            !.memory = IF c.stage = 1 THEN (c.loc :> [w |-> w, v |-> v]) @@ @ ELSE @]
emit(c, b) == Put(c, 1, b % 256)
emit32(c, x) == Put(c, 4, x)
Zeros(c, n) == IF n > 0 THEN Put(c, n, 0) ELSE c

\* A value is decoded and emitted; what cannot be decoded ends in a panic.
EmitValue(c, v, w) ==
  IF ~Decodes(c, v, FALSE) THEN Panic(c)
  ELSE IF w = 1 THEN emit(c, decode_number_or_symbol(c, v, FALSE))
  ELSE emit32(c, decode_number_or_symbol(c, v, FALSE))

----------------------------------------------------------------------------
(* Operands *)

decode_reg32 == [eax |-> 0, ecx |-> 1, edx |-> 2, ebx |-> 3, esp |-> 4, ebp |-> 5, esi |-> 6, edi |-> 7]
decode_reg8 == [al |-> 0, cl |-> 1, dl |-> 2, bl |-> 3, ah |-> 4, ch |-> 5, dh |-> 6, bh |-> 7]

NotDecoded == [res |-> FALSE, is_direct |-> TRUE, reg |-> -1, disp |-> 0, is8 |-> FALSE, is32 |-> FALSE]
Direct(reg, is8) == [NotDecoded EXCEPT !.res = TRUE, !.reg = reg, !.is8 = is8, !.is32 = ~is8]
Indirect(reg, disp, sz) ==
  [res |-> TRUE, is_direct |-> FALSE, reg |-> reg, disp |-> disp, is8 |-> sz = 1, is32 |-> sz = 3]

\* [reg] and [reg+disp], with BYTE (1), DWORD (3) or nothing (0) before it; a
\* register; everything else is refused.
decode_operand(c, t) ==
  CASE t.kind = "mem" ->
         IF t.reg \in DOMAIN decode_reg32 /\ Decodes(c, t.disp, FALSE)
         THEN Indirect(decode_reg32[t.reg], decode_number_or_symbol(c, t.disp, FALSE), t.size) ELSE NotDecoded
    [] t.kind = "reg" ->
         IF t.reg \in DOMAIN decode_reg32 THEN Direct(decode_reg32[t.reg], FALSE)
         ELSE IF t.reg \in DOMAIN decode_reg8 THEN Direct(decode_reg8[t.reg], TRUE) ELSE NotDecoded
    [] t.kind = "val" -> NotDecoded

\* What was refused is tried as a number or a symbol: its text is one that no
\* symbol has, unless it is written as a value.
AsValue(t) == IF t.kind = "val" THEN t.value ELSE [sym |-> "no such symbol", num |-> 0]

----------------------------------------------------------------------------
(* Instructions *)

\* The tables: the opcode, in the second byte a second one or the middle digit
\* of ModRM, and 10000 if it is an opcode.  \hf0 says that there is none.
rm32_opcode ==
  [push |-> \h06ff, pop |-> \h008f, jmp |-> \h04ff, call |-> \h02ff, mul |-> \h04f7, imul |-> \h05f7]
imm32_opcode ==
  [jmp |-> \he9, call |-> \he8, je |-> \h1840f, jne |-> \h1850f, ja |-> \h1870f, jna |-> \h1860f,
   jae |-> \h1830f, jnae |-> \h1820f, jb |-> \h1820f, jnb |-> \h1830f, jbe |-> \h1860f, jnbe |-> \h1870f,
   jg |-> \h18f0f, jng |-> \h18e0f, jge |-> \h18d0f, jnge |-> \h18c0f, jl |-> \h18c0f, jnl |-> \h18d0f,
   jle |-> \h18e0f, jnle |-> \h18f0f]
rm8r8_opcode == [add |-> \h00, sub |-> \h28, mov |-> \h88, cmp |-> \h38, and |-> \h20, or |-> \h08]
rm32r32_opcode == [add |-> \h01, sub |-> \h29, mov |-> \h89, cmp |-> \h39, and |-> \h21, or |-> \h09]
r8rm8_opcode == [add |-> \h02, sub |-> \h2a, mov |-> \h8a, cmp |-> \h3a, and |-> \h22, or |-> \h0a]
r32rm32_opcode == [add |-> \h03, sub |-> \h2b, mov |-> \h8b, cmp |-> \h3b, and |-> \h23, or |-> \h0b]
rm8imm8_opcode ==
  [add |-> \h0080, sub |-> \h0580, mov |-> \h00c6, cmp |-> \h0780, and |-> \h0480, or |-> \h0180]
rm32imm32_opcode ==
  [add |-> \h0081, sub |-> \h0581, mov |-> \h00c7, cmp |-> \h0781, and |-> \h0481, or |-> \h0181]
Row(table, op) == IF op \in DOMAIN table THEN table[op] ELSE \hf0

emit_modrm(c, mod, reg, rm) ==
  IF mod = 2 /\ rm = 4 THEN emit(emit(c, mod * 64 + reg * 8 + rm), \h24)
  ELSE emit(c, mod * 64 + reg * 8 + rm)

HelperModRM(c, data, is_direct, reg, rm) ==
  IF rm = -1 THEN c
  ELSE emit_modrm(c, IF is_direct THEN 3 ELSE 2, IF reg = -1 THEN (data \div 256) % 256 ELSE reg, rm)
HelperOpcode(c, data) ==
  IF data >= \h10000 THEN emit(emit(c, data), data \div 256) ELSE emit(c, data)
HelperDisp(c, is_direct, disp) == IF is_direct THEN c ELSE emit32(c, disp)
emit_helper(c, data, is_direct, reg, rm, disp) ==
  IF data % 256 = \hf0 THEN Panic(c)
  ELSE HelperDisp(HelperModRM(HelperOpcode(c, data), data, is_direct, reg, rm), is_direct, disp)

Relative(c, v) ==
  IF Decodes(c, v, FALSE) THEN emit32(c, decode_number_or_symbol(c, v, FALSE) - c.loc - 4) ELSE Panic(c)

JmpLike(c, op, d, t) ==
  IF d.res
  THEN Check(emit_helper(c, Row(rm32_opcode, op), d.is_direct, -1, d.reg, d.disp), ~d.is8)
  ELSE Relative(emit_helper(c, Row(imm32_opcode, op), TRUE, -1, -1, 0), AsValue(t))
process_jmp_like(c, op, t) == JmpLike(c, op, decode_operand(c, t), t)

PushLike(c, op, d, t) ==
  IF d.res
  THEN Check(emit_helper(c, Row(rm32_opcode, op), d.is_direct, -1, d.reg, d.disp), ~d.is8)
  ELSE Check(EmitValue(emit(c, \h68), AsValue(t), 4), op = "push")
process_push_like(c, op, t) == PushLike(c, op, decode_operand(c, t), t)

\* Of the two operands, one is a register; that or the keyword before the
\* other decides on the size.
AddOperands(c, op, d, s, is8, is32) ==
  IF is8 = is32 \/ (~d.is_direct /\ ~s.is_direct) THEN Panic(c)
  ELSE IF d.is_direct
  THEN emit_helper(c, Row(IF is8 THEN r8rm8_opcode ELSE r32rm32_opcode, op), s.is_direct, d.reg, s.reg, s.disp)
  ELSE emit_helper(c, Row(IF is8 THEN rm8r8_opcode ELSE rm32r32_opcode, op), FALSE, s.reg, d.reg, d.disp)
AddImmediate(c, op, d, v) ==
  IF ~(d.is8 \/ d.is32) THEN Panic(c)
  ELSE EmitValue(emit_helper(c, Row(IF d.is8 THEN rm8imm8_opcode ELSE rm32imm32_opcode, op),
                             d.is_direct, -1, d.reg, d.disp), v, IF d.is8 THEN 1 ELSE 4)
AddLike(c, op, d, s, src) ==
  CASE ~d.res -> Panic(c)
    [] d.res /\ s.res -> AddOperands(c, op, d, s, d.is8 \/ s.is8, d.is32 \/ s.is32)
    [] d.res /\ ~s.res -> AddImmediate(c, op, d, AsValue(src))
process_add_like(c, op, dest, src) == AddLike(c, op, decode_operand(c, dest), decode_operand(c, src), src)

\* The range check looks at the result of decoding instead of the number.
process_int(c, t) == EmitValue(emit(c, \hcd), AsValue(t), 1)

InOut(c, opcode, port, reg) ==
  CASE port # "dx" -> Panic(c)
    [] port = "dx" /\ reg = "al" -> emit(c, opcode)
    [] port = "dx" /\ reg = "ax" -> emit(emit(c, \h66), opcode + 1)
    [] port = "dx" /\ reg = "eax" -> emit(c, opcode + 1)
    [] OTHER -> Panic(c)
process_in_like(c, op, x, y) == IF op = "in" THEN InOut(c, \hec, y.reg, x.reg) ELSE InOut(c, \hee, x.reg, y.reg)

PushOps == {"push", "pop"}
AddOps == {"add", "sub", "mov", "cmp", "and", "or"}
JmpOps == DOMAIN imm32_opcode \union {"mul", "imul"}
process_text_line(c, l) ==
  CASE l.op \in PushOps -> process_push_like(c, l.op, l.args[1])
    [] l.op \in AddOps -> IF Len(l.args) < 2 THEN Panic(c) ELSE process_add_like(c, l.op, l.args[1], l.args[2])
    [] l.op \in JmpOps -> process_jmp_like(c, l.op, l.args[1])
    [] l.op = "int" -> process_int(c, l.args[1])
    [] l.op = "ret" -> Check(emit(c, \hc3), l.args = <<>>)
    [] l.op \in {"in", "out"} -> process_in_like(c, l.op, l.args[1], l.args[2])

----------------------------------------------------------------------------
(* Lines *)

\* resb, resd: the number of bytes or words; the value must be known.
process_bss_line(c, l) ==
  IF ~Decodes(c, l.value, TRUE) THEN Panic(c)
  ELSE Zeros(c, l.width * decode_number_or_symbol(c, l.value, TRUE))

\* db and dd; db 'text' emits its characters.
RECURSIVE EmitAll(_, _)
EmitAll(c, chars) == IF chars = <<>> THEN c ELSE EmitAll(emit(c, Head(chars)), Tail(chars))
process_data_line(c, l) == IF l.text # <<>> THEN EmitAll(c, l.text) ELSE EmitValue(c, l.value, l.width)

\* align: a location that is aligned already is moved all the same.
Align(c, val) == IF val = 0 THEN Panic(c) ELSE Zeros(c, val - (c.loc % val))
process_directive_line(c, l) ==
  CASE l.op \in {"section", "global"} -> c
    [] l.op = "align" ->
         IF Decodes(c, l.value, TRUE) THEN Align(c, decode_number_or_symbol(c, l.value, TRUE)) ELSE Panic(c)
    [] l.op = "extern" -> add_symbol_wrapper(c, l.name, 0)

process_equ_line(c, l) ==
  IF Decodes(c, l.value, FALSE) THEN add_symbol_wrapper(c, l.name, decode_number_or_symbol(c, l.value, FALSE))
  ELSE Panic(c)

process_line(c, l) ==
  CASE l.kind = "directive" -> process_directive_line(c, l)
    [] l.kind = "bss" -> process_bss_line(c, l)
    [] l.kind = "text" -> process_text_line(c, l)
    [] l.kind = "data" -> process_data_line(c, l)
    [] l.kind = "equ" -> process_equ_line(c, l)
    [] l.kind = "label" -> add_symbol_wrapper(c, l.name, c.loc)
    [] OTHER -> Panic(c)

----------------------------------------------------------------------------
(* assemble *)

Going == ~ctx.panicked /\ ctx.stage < 2

\* Nothing is done after a panic.
After(c) == IF c.panicked THEN Panic(ctx) ELSE c
Processed(l) ==
  /\ ctx' = After(process_line(ctx, l))
  /\ line' = line + 1
  /\ where' = IF ctx.stage = 1 THEN Append(where, ctx.loc) ELSE where
  /\ UNCHANGED alphabet

ReadNew ==
  /\ Going /\ ctx.stage = 0 /\ Len(file) < Alphabets[alphabet].max
  /\ \E l \in Alphabets[alphabet].lines : Processed(l) /\ file' = Append(file, l)

ReadAgain ==
  /\ Going /\ ctx.stage = 1 /\ line < Len(file)
  /\ Processed(file[line + 1])
  /\ UNCHANGED file

EndOfFile ==
  /\ Going /\ line = Len(file)
  /\ line' = 0
  /\ ctx' = [ctx EXCEPT !.stage = @ + 1, !.loc = IF ctx.stage = 0 THEN StartLoc ELSE @]
  /\ UNCHANGED <<alphabet, file, where>>

Next == ReadNew \/ ReadAgain \/ EndOfFile

Spec == Init /\ [][Next]_vars

----------------------------------------------------------------------------
(* What a line says, for the processor *)

Done == ctx.stage = 2
End(i) == IF i < Len(file) THEN where[i + 1] ELSE ctx.loc

\* A symbol stands for the place of its label, the value of its equ, or 0 if
\* it is external.
Defines(l, name) == l.kind \in {"label", "equ", "directive"} /\ l.name = name
DefinedAt(name) == CHOOSE i \in DOMAIN file : Defines(file[i], name)
RECURSIVE Meant(_)
Meant(v) ==
  IF v.sym = "" THEN v.num
  ELSE LET i == DefinedAt(v.sym)
       IN  CASE file[i].kind = "label" -> where[i] [] file[i].kind = "equ" -> Meant(file[i].value)
             [] OTHER -> 0

Size(t) ==
  CASE t.kind = "mem" -> t.size [] t.kind = "val" -> 0
    [] t.kind = "reg" -> IF t.reg \in DOMAIN decode_reg8 THEN 1 ELSE IF t.reg \in DOMAIN decode_reg32 THEN 3 ELSE 2
Given(l) == {Size(l.args[k]) : k \in DOMAIN l.args} \ {0}
SizeOf(l) == IF l.op \in AddOps THEN CHOOSE z \in Given(l) : TRUE ELSE 3

RegNumber == decode_reg32 @@ decode_reg8 @@ [ax |-> 0, dx |-> 2]
WantedArg(l, t, z) ==
  CASE t.kind = "reg" -> Reg(Size(t), RegNumber[t.reg])
    [] t.kind = "mem" -> Mem(z, [NoCoef EXCEPT ![decode_reg32[t.reg]] = 1], Meant(t.disp))
    [] t.kind = "val" -> IF l.op \in JmpOps THEN Rel(Meant(t.value))
                         ELSE Imm(IF l.op = "int" THEN 1 ELSE z, Meant(t.value))
Wanted(l) == [k \in DOMAIN l.args |-> WantedArg(l, l.args[k], SizeOf(l))]
Says(l, is, end) == l.op \in is.names /\ is.args = Wanted(l) /\ is.next = end

AsWritten(i, l, at) ==
  CASE l.kind = "text" -> Says(l, Decode(ctx.memory, at), End(i))
    [] l.kind = "bss" -> End(i) - at = l.width * Meant(l.value)
    [] l.kind = "data" -> IF l.text = <<>> THEN Cell(ctx.memory, at, l.width) = Imm(l.width, Meant(l.value)).n
                          ELSE \A k \in DOMAIN l.text : Byte(ctx.memory, at + k - 1) = l.text[k]
    [] l.kind = "directive" /\ l.op = "align" ->
         End(i) % Meant(l.value) = 0 /\ End(i) - at \in 1 .. Meant(l.value)
    [] OTHER -> End(i) = at

----------------------------------------------------------------------------
(* Properties *)

\* A file that stage 0 has accepted is refused in stage 1 only for a symbol
\* that is nowhere defined, which is also what an operand that the processor
\* does not have ([al], dx) is taken for; but an equ of a symbol, which stage 0 takes for 0,
\* fails the assertion of add_symbol_wrapper if the symbol is not 0.
ValuesOf(l) ==
  CASE l.kind = "text" -> UNION {IF t.kind = "val" THEN {t.value} ELSE IF t.kind = "mem" THEN {t.disp} ELSE {} :
                                   t \in {l.args[k] : k \in DOMAIN l.args}}
    [] l.kind \in {"data", "bss", "equ"} -> {l.value}
    [] OTHER -> {}
Undefined(l) == \E v \in ValuesOf(l) : v.sym # "" /\ v.sym \notin DOMAIN ctx.symbols
NoOperand(l) ==
  l.kind = "text" /\ \E k \in DOMAIN l.args :
    LET t == l.args[k]
    IN  \/ l.op = "int" /\ t.kind # "val"
        \/ t.kind = "reg" /\ Size(t) = 2
        \/ t.kind = "mem" /\ t.reg \notin DOMAIN decode_reg32
StagesAgree ==
  ctx.stage = 1 /\ ctx.panicked =>
    LET l == file[line] IN Undefined(l) \/ NoOperand(l) \/ (l.kind = "equ" /\ l.value.sym # "")

\* The processor, reading what was written, finds every instruction with its
\* operands, every jump going to its label, and the data in their places.
AssembledAsWritten == Done => \A i \in DOMAIN file : AsWritten(i, file[i], where[i])
=============================================================================
