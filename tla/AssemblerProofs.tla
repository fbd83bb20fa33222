-------------------------- MODULE AssemblerProofs --------------------------
(***************************************************************************)
(* Proofs about the assembler of asmg: whatever lines a file has, the      *)
(* symbols that the program gets are where its labels are.                 *)
(***************************************************************************)
EXTENDS Assembler, ProofLibrary

----------------------------------------------------------------------------
(* The table of instructions (asm_opcodes.g) *)

\* A row of the table as the handlers need it.
Handlers == {"add", "sal", "lea", "stos", "movzx", "jmp", "shld", "imul", "bsf", "ret"}
IsRow(o) ==
  /\ o.handler \in Handlers
  /\ o.handler = "add" => o.ARG_NUM = 2
  /\ o.handler = "jmp" => o.ARG_NUM = 1
AllRows(f) == \A n \in DOMAIN f : IsRow(f[n])

\* A row with a handler has it, whatever other fields are set.
LEMMA RowWith ==
  ASSUME NEW h \in Handlers, NEW a, h = "add" => a = 2, h = "jmp" => a = 1, NEW g
  PROVE  IsRow(Over(Row(h, a), g))
BY DEF Over, Row, IsRow, Handlers

\* A row of a jump, with the fields of both kinds that Near, Short, .. add.
LEMMA JumpWith ==
  ASSUME NEW g, NEW k, DOMAIN k \intersect {"handler", "ARG_NUM"} = {}
  PROVE  /\ IsRow(Over(Over(Row("jmp", 1), g), k))
         /\ IsRow(Over(k, Over(Row("jmp", 1), g)))
BY DEF Over, Row, IsRow, Handlers

\* Every row of the table of asm_opcodes.g names one of the ten handlers, and
\* those of add and of jumps read as many operands as the handlers take.
LEMMA TableRows ==
  /\ AllRows(AddLike) /\ AllRows(LeaLike) /\ AllRows(Jumps) /\ AllRows(Loops) /\ AllRows(Jcc) /\ AllRows(Setcc)
  /\ AllRows(Unary) /\ AllRows(Stack) /\ AllRows(ImulLike) /\ AllRows(Shifts) /\ AllRows(Bits)
  /\ AllRows(MovzxLike) /\ AllRows(Plain) /\ AllRows(StosLike) /\ AllRows(ShldLike) /\ AllRows(BsfLike)
<1> USE RowWith, JumpWith, SMT DEF AllRows, Handlers
<1>1. AllRows(AddLike)
  BY DEF AddLike, Two
<1>2. AllRows(LeaLike)
  BY DEF LeaLike
<1>3. AllRows(Jumps)
  BY DEF Jumps, Near, JmpLike
<1>4. AllRows(Loops)
  BY DEF Loops, Short, JmpLike
<1>5. AllRows(Jcc)
  BY DEF Jcc, Jump, JmpLike
<1>6. AllRows(Setcc)
  BY DEF Setcc, Flag, JmpLike
<1>7. AllRows(Unary)
  BY DEF Unary, One, JmpLike
<1>8. AllRows(Stack)
  BY DEF Stack, JmpLike
<1>9. AllRows(ImulLike)
  BY DEF ImulLike
<1>10. AllRows(Shifts)
  BY DEF Shifts, Shifted
<1>11. AllRows(Bits)
  BY DEF Bits, Bit
<1>12. AllRows(MovzxLike)
  BY DEF MovzxLike, Extended
<1>13. AllRows(Plain)
  BY DEF Plain, None
<1>14. AllRows(StosLike)
  BY DEF StosLike, Str
<1>15. AllRows(ShldLike)
  BY DEF ShldLike, Double
<1>16. AllRows(BsfLike)
  BY DEF BsfLike, Scan
<1>17. QED
  BY ONLY <1>1, <1>2, <1>3, <1>4, <1>5, <1>6, <1>7, <1>8, <1>9, <1>10, <1>11, <1>12, <1>13, <1>14, <1>15, <1>16

\* So does every row of the map that the assembler looks names up in.
LEMMA MapRows == AllRows(build_opcode_map)
<1>1. \A i \in DOMAIN Tables : AllRows(Tables[i])
  BY TableRows DEF Tables
<1> HIDE DEF Tables
<1>2. ASSUME NEW n \in DOMAIN build_opcode_map
      PROVE  IsRow(build_opcode_map[n])
  <2> DEFINE i == CHOOSE i \in DOMAIN Tables : n \in DOMAIN Tables[i]
  <2>1. i \in DOMAIN Tables /\ n \in DOMAIN Tables[i]
    BY <1>2 DEF build_opcode_map
  <2>2. build_opcode_map[n] = Tables[i][n]
    BY <1>2 DEF build_opcode_map
  <2>3. QED BY <1>1, <2>1, <2>2 DEF AllRows
<1>3. QED BY <1>2 DEF AllRows

----------------------------------------------------------------------------
(* Writing (asm_preproc.g) *)

\* A context has five fields; a step keeps two of them.
Context(c) == \E s, l, y, m, e : c = [stage |-> s, loc |-> l, symbols |-> y, memory |-> m, error |-> e]
Keeps(c, d) == Context(c) /\ Context(d) /\ d.symbols = c.symbols /\ d.stage = c.stage

\* Writing a cell keeps the stage and the symbols.
LEMMA PutKeeps ==
  ASSUME NEW c, Context(c), NEW w, NEW v
  PROVE  Keeps(c, Put(c, w, v))
BY DEF Context, Keeps, Put

\* So does writing a byte (asmctx_emit),
LEMMA EmitKeeps ==
  ASSUME NEW c, Context(c), NEW v
  PROVE  Keeps(c, asmctx_emit(c, v))
BY PutKeeps DEF asmctx_emit

\* What two steps keep, both of them keep.
LEMMA KeepsTrans ==
  ASSUME NEW a, NEW b, NEW c, Keeps(a, b), Keeps(b, c)
  PROVE  Keeps(a, c)
BY DEF Keeps

\* A context keeps what it has.
LEMMA KeepsSelf ==
  ASSUME NEW c, Context(c)
  PROVE  Keeps(c, c)
BY DEF Keeps

\* a value of one of the four sizes (emit_size),
LEMMA SizeKeeps ==
  ASSUME NEW c, Context(c), NEW v, NEW sz \in 1 .. 4
  PROVE  Keeps(c, emit_size(c, v, sz))
<1>1. Keeps(c, Put(c, 4, v)) /\ Keeps(Put(c, 4, v), Put(Put(c, 4, v), 4, 0))
  BY PutKeeps DEF Keeps
<1>2. Keeps(c, Put(Put(c, 4, v), 4, 0))
  BY <1>1, KeepsTrans
<1>3. QED BY <1>1, <1>2, PutKeeps, EmitKeeps DEF emit_size

\* and an opcode of up to three bytes (emit_multibyte).
LEMMA MultiKeeps ==
  ASSUME NEW c, Context(c), NEW data
  PROVE  Keeps(c, emit_multibyte(c, data))
<1> DEFINE Body(f) == [i \in 0 .. 3 |-> IF i = 0 THEN c ELSE asmctx_emit(f[i - 1], data \div 256 ^ i)]
           Emit == CHOOSE f : f = Body(f)
           n == data % 256
           e1 == asmctx_emit(c, data \div 256 ^ 1)
           e2 == asmctx_emit(e1, data \div 256 ^ 2)
           e3 == asmctx_emit(e2, data \div 256 ^ 3)
           w == [i \in 0 .. 3 |-> IF i = 0 THEN c ELSE IF i = 1 THEN e1 ELSE IF i = 2 THEN e2 ELSE e3]
<1>1. w = Body(w)
  <2>1. w[0] = c /\ w[1] = e1 /\ w[2] = e2 /\ w[3] = e3
    OBVIOUS
  <2> HIDE DEF w
  <2>2. Body(w)[0] = c /\ Body(w)[1] = e1 /\ Body(w)[2] = e2 /\ Body(w)[3] = e3
    BY <2>1
  <2>3. \A i \in 0 .. 3 : w[i] = Body(w)[i]
    <3> HIDE DEF e1, e2, e3, Body
    <3> QED BY <2>1, <2>2
  <2>4. w = [i \in 0 .. 3 |-> w[i]]
    BY DEF w
  <2>5. Body(w) = [i \in 0 .. 3 |-> Body(w)[i]]
    OBVIOUS
  <2> HIDE DEF Body
  <2>6. QED BY <2>3, <2>4, <2>5
<1>2. Emit = Body(Emit)
  <2> HIDE DEF w, Body
  <2> QED BY <1>1
<1> HIDE DEF Emit
<1>3. Emit[1] = e1 /\ Emit[2] = e2 /\ Emit[3] = e3
  <2>1. Emit[0] = c
    BY <1>2
  <2>2. Emit[1] = e1
    BY <1>2, <2>1
  <2>3. Emit[2] = e2
    BY <1>2, <2>2
  <2>4. Emit[3] = e3
    BY <1>2, <2>3
  <2>5. QED BY <2>2, <2>3, <2>4
<1>4. Keeps(c, e1) /\ Keeps(c, e2) /\ Keeps(c, e3)
  <2>1. Keeps(c, e1) /\ Context(e1)
    BY EmitKeeps DEF Keeps
  <2>2. Keeps(e1, e2) /\ Context(e2)
    BY <2>1, EmitKeeps DEF Keeps
  <2>3. Keeps(e2, e3)
    BY <2>2, EmitKeeps DEF Keeps
  <2>4. QED BY <2>1, <2>2, <2>3, KeepsTrans
<1>5. emit_multibyte(c, data) = IF n \in 1 .. 3 THEN Emit[n] ELSE Check(c, FALSE, "operand")
  BY DEF emit_multibyte, Emit
<1>6. Keeps(c, Check(c, FALSE, "operand"))
  BY DEF Check, Keeps, Context
<1> HIDE DEF e1, e2, e3, n
<1>7. n \in 1 .. 3 => Keeps(c, Emit[n])
  BY <1>3, <1>4
<1>8. QED BY <1>5, <1>6, <1>7

\* An opcode, its operand and the displacement keep the symbols.
LEMMA WithOperandKeeps ==
  ASSUME NEW c, Context(c), NEW word, NEW op, NEW reg
  PROVE  Keeps(c, WithOperand(c, word, op, reg))
<1> DEFINE a == emit_multibyte(c, word)
           Displaced(c1) == IF op.type = IND THEN Put(c1, 4, op.offset) ELSE c1
           e == emit_multibyte(a, op_to_modrm(op, reg))
<1>1. Keeps(c, a)
  BY MultiKeeps
<1>2. PICK d : d = Check(a, op.type # IMM /\ ~(op.type = IND /\ op.index = 4), "operand")
  OBVIOUS
<1>3. WithOperand(c, word, op, reg) = IF d.error # "" THEN d ELSE Displaced(emit_multibyte(d, op_to_modrm(op, reg)))
  BY <1>2 DEF WithOperand, Then
<1>4. Keeps(a, d)
  BY <1>1, <1>2 DEF Context, Keeps, Check
<1>5. Keeps(d, emit_multibyte(d, op_to_modrm(op, reg)))
  BY <1>4, MultiKeeps DEF Keeps
<1> HIDE DEF a
<1>6. PICK f : f = emit_multibyte(d, op_to_modrm(op, reg))
  OBVIOUS
<1>7. Keeps(f, Displaced(f))
  BY <1>5, <1>6, PutKeeps, KeepsSelf DEF Keeps
<1> HIDE DEF Displaced
<1>8. QED BY <1>1, <1>3, <1>4, <1>5, <1>6, <1>7, KeepsTrans

\* The prefix of 16 bits keeps them.
LEMMA PrefixKeeps ==
  ASSUME NEW c, Context(c), NEW sz
  PROVE  Keeps(c, Prefix(c, sz))
BY EmitKeeps, KeepsSelf DEF Prefix

----------------------------------------------------------------------------
(* Handlers (asm_opcodes.g) *)

\* An operand that asmctx_parse_operand read.
IsRead(op) == op.type \in {IND, REG, IMM} /\ op.size \in 0 .. 3

\* The handler of add, mov, cmp, .. keeps the stage and the symbols: the size
\* of an immediate is one that emit_size writes.
LEMMA AddKeeps ==
  ASSUME NEW c, Context(c), NEW o, NEW ops, IsRead(ops[1]), IsRead(ops[2])
  PROVE  Keeps(c, add_like_handler(c, o, ops))
<1>1. PICK a : a = ops[1]
  OBVIOUS
<1>2. PICK b : b = ops[2]
  OBVIOUS
<1> DEFINE sz == IF Common(a, b) = 0 /\ o.DEFAULT_32 THEN 3 ELSE Common(a, b)
           ok == /\ Agree(a, b) /\ sz # 0
                 /\ a.type # IMM /\ (b.type = IMM => o.ALLOW_IMM)
                 /\ b.type = IND => a.type = REG
           Code(c1) ==
             CASE b.type = IMM -> WithImmediate(c1, BySize(o, sz, "RM8IMM8", "RM32IMM32"), a,
                                                LAMBDA c2 : emit_size(c2, b.offset, sz))
               [] b.type = REG -> WithOperand(c1, BySize(o, sz, "RM8R8", "RM32R32"), a, b.reg)
               [] b.type = IND -> WithOperand(c1, BySize(o, sz, "R8RM8", "R32RM32"), b, a.reg)
<1>3. PICK d : d = Check(c, ok, "operand")
  OBVIOUS
<1>4. Keeps(c, d) /\ Context(d)
  BY <1>3 DEF Context, Keeps, Check
<1>5. add_like_handler(c, o, ops) = IF d.error # "" THEN d ELSE Code(Prefix(d, sz))
  BY <1>1, <1>2, <1>3 DEF add_like_handler, Then
<1>6. ASSUME d.error = "" PROVE sz \in 1 .. 3
  <2>1. sz \in 0 .. 3
    BY <1>1, <1>2 DEF IsRead, Common
  <2>2. sz # 0
    <3> HIDE DEF sz
    <3> QED BY <1>3, <1>6 DEF Check, Context
  <2>3. QED BY <2>1, <2>2
<1> HIDE DEF sz
<1>7. ASSUME NEW e, Context(e), sz \in 1 .. 3 PROVE Keeps(e, Code(e))
  <2>1. PICK f : f = WithOperand(e, BySize(o, sz, "RM8IMM8", "RM32IMM32"), a,
                                 opcode_to_reg(BySize(o, sz, "RM8IMM8", "RM32IMM32")))
    OBVIOUS
  <2>2. Keeps(e, f) /\ Context(f)
    BY <1>7, <2>1, WithOperandKeeps DEF Keeps
  <2>3. Keeps(f, emit_size(f, b.offset, sz))
    BY <1>7, <2>2, SizeKeeps
  <2>4. CASE b.type = IMM
    <3>1. Code(e) = IF f.error # "" THEN f ELSE emit_size(f, b.offset, sz)
      BY <2>1, <2>4 DEF WithImmediate, Then, REG, IMM, IND
    <3> HIDE DEF Code
    <3>2. QED BY <2>2, <2>3, <3>1, KeepsTrans
  <2>5. CASE b.type = REG
    BY <1>7, <2>5, WithOperandKeeps DEF REG, IMM
  <2>6. CASE b.type = IND
    BY <1>7, <2>6, WithOperandKeeps DEF REG, IMM, IND
  <2> HIDE DEF Code
  <2>7. QED BY <1>2, <2>4, <2>5, <2>6 DEF IsRead
<1> HIDE DEF Code
<1>8. Keeps(d, Prefix(d, sz)) /\ Context(Prefix(d, sz))
  BY <1>4, PrefixKeeps DEF Keeps
<1>9. CASE d.error # ""
  BY <1>4, <1>5, <1>9
<1>10. CASE d.error = ""
  <2>1. Keeps(Prefix(d, sz), Code(Prefix(d, sz)))
    BY <1>6, <1>7, <1>8, <1>10
  <2>2. QED BY <1>4, <1>5, <1>8, <1>10, <2>1, KeepsTrans
<1>11. QED BY <1>9, <1>10

\* What follows an opcode and its operand, if anything.
LEMMA ImmediateKeeps ==
  ASSUME NEW c, Context(c), NEW word, NEW op
  PROVE  Keeps(c, WithImmediate(c, word, op, LAMBDA c1 : c1))
<1>1. Keeps(c, WithOperand(c, word, op, opcode_to_reg(word)))
  BY WithOperandKeeps
<1>2. QED BY <1>1 DEF WithImmediate, Then

\* The handler of shifts and bits keeps them.
LEMMA SalKeeps ==
  ASSUME NEW c, Context(c), NEW o, NEW ops
  PROVE  Keeps(c, sal_like_handler(c, o, ops))
<1>1. PICK a : a = ops[1]
  OBVIOUS
<1>2. PICK b : b = ops[2]
  OBVIOUS
<1> DEFINE sz == IF a.size = 0 THEN 3 ELSE a.size
           with_cl == o.ALLOW_CL /\ b.type # IMM
           ok == /\ o.FORCE_32 => sz = 3
                 /\ a.type # IMM
                 /\ b.type = IMM \/ (with_cl /\ b.type = REG /\ b.size = 1 /\ b.reg = 1)
           Cl(e) == WithImmediate(e, BySize(o, sz, "RM8CL", "RM32CL"), a, LAMBDA c2 : c2)
           Im(e) == WithImmediate(e, BySize(o, sz, "RM8IMM8", "RM32IMM8"), a, LAMBDA c2 : asmctx_emit(c2, b.offset))
<1>3. PICK d : d = Check(c, ok, "operand")
  OBVIOUS
<1>4. Keeps(c, d) /\ Context(d)
  BY <1>3 DEF Context, Keeps, Check
<1>5. PICK e : e = Prefix(d, sz)
  OBVIOUS
<1>6. Keeps(c, e) /\ Context(e)
  BY <1>4, <1>5, PrefixKeeps, KeepsTrans DEF Keeps
<1>7. sal_like_handler(c, o, ops) \in {d, Cl(e), Im(e)}
  BY <1>1, <1>2, <1>3, <1>5 DEF sal_like_handler, Then
<1>8. Keeps(e, Cl(e))
  BY <1>6, ImmediateKeeps
<1>9. Keeps(e, Im(e))
  <2>1. PICK f : f = WithOperand(e, BySize(o, sz, "RM8IMM8", "RM32IMM8"), a,
                                 opcode_to_reg(BySize(o, sz, "RM8IMM8", "RM32IMM8")))
    OBVIOUS
  <2>2. Keeps(e, f) /\ Context(f)
    BY <1>6, <2>1, WithOperandKeeps DEF Keeps
  <2>3. Im(e) = IF f.error # "" THEN f ELSE asmctx_emit(f, b.offset)
    BY <2>1 DEF WithImmediate, Then
  <2> HIDE DEF Im
  <2>4. QED BY <2>2, <2>3, EmitKeeps, KeepsTrans
<1> HIDE DEF Cl, Im
<1>10. QED BY <1>4, <1>6, <1>7, <1>8, <1>9, KeepsTrans

\* The handler of lea keeps them.
LEMMA LeaKeeps ==
  ASSUME NEW c, Context(c), NEW o, NEW ops
  PROVE  Keeps(c, lea_like_handler(c, o, ops))
<1>1. PICK d : d = Check(c, ops[1].size = 3 /\ ops[1].type = REG /\ ops[2].type = IND, "operand")
  OBVIOUS
<1>2. Keeps(c, d) /\ Context(d)
  BY <1>1 DEF Context, Keeps, Check
<1>3. lea_like_handler(c, o, ops) \in {d, WithOperand(d, o.RM32M, ops[2], ops[1].reg)}
  BY <1>1 DEF lea_like_handler, Then
<1>4. QED BY <1>2, <1>3, WithOperandKeeps, KeepsTrans

\* The handler of string instructions keeps them.
LEMMA StosKeeps ==
  ASSUME NEW c, Context(c), NEW o, NEW ops
  PROVE  Keeps(c, stos_like_handler(c, o, ops))
<1>1. PICK sz : sz = IF o.FORCE_8 /\ ops[1].size = 0 THEN 1 ELSE ops[1].size
  OBVIOUS
<1>2. PICK d : d = Check(c, sz # 0 /\ (o.FORCE_8 => sz = 1), "operand")
  OBVIOUS
<1>3. Keeps(c, d) /\ Context(d)
  BY <1>2 DEF Context, Keeps, Check
<1>4. stos_like_handler(c, o, ops) \in {d, emit_multibyte(d, Field(o, <<"M8", "M16", "M32">>[sz]))}
  BY <1>1, <1>2 DEF stos_like_handler, Then
<1>5. QED BY <1>3, <1>4, MultiKeeps, KeepsTrans

\* The handler of movzx and movsx keeps them.
LEMMA MovzxKeeps ==
  ASSUME NEW c, Context(c), NEW o, NEW ops
  PROVE  Keeps(c, movzx_like_handler(c, o, ops))
<1>1. PICK a : a = ops[1]
  OBVIOUS
<1>2. PICK b : b = ops[2]
  OBVIOUS
<1>3. PICK from : from = IF b.size = 0 THEN 1 ELSE b.size
  OBVIOUS
<1> DEFINE ok == /\ a.size \in {2, 3} /\ from \in {1, 2} /\ ~(from = 2 /\ a.size = 2)
                 /\ a.type = REG /\ b.type # IMM
<1>4. PICK d : d = Check(c, ok, "operand")
  OBVIOUS
<1>5. Keeps(c, d) /\ Context(d)
  BY <1>4 DEF Context, Keeps, Check
<1>6. PICK e : e = Prefix(d, a.size)
  OBVIOUS
<1>7. Keeps(c, e) /\ Context(e)
  BY <1>5, <1>6, PrefixKeeps, KeepsTrans DEF Keeps
<1>8. movzx_like_handler(c, o, ops) \in {d, WithOperand(e, BySize(o, from, "R32RM8", "R32RM16"), b, a.reg)}
  BY <1>1, <1>2, <1>3, <1>4, <1>6 DEF movzx_like_handler, Then
<1>9. QED BY <1>5, <1>7, <1>8, WithOperandKeeps, KeepsTrans

\* The handler of bsf and bsr keeps them.
LEMMA BsfKeeps ==
  ASSUME NEW c, Context(c), NEW o, NEW ops
  PROVE  Keeps(c, bsf_like_handler(c, o, ops))
<1>1. PICK a : a = ops[1]
  OBVIOUS
<1>2. PICK b : b = ops[2]
  OBVIOUS
<1>3. PICK d : d = Check(c, Agree(a, b) /\ Common(a, b) # 0 /\ a.type = REG /\ b.type # IMM, "operand")
  OBVIOUS
<1>4. Keeps(c, d) /\ Context(d)
  BY <1>3 DEF Context, Keeps, Check
<1>5. PICK e : e = Prefix(d, Common(a, b))
  OBVIOUS
<1>6. Keeps(c, e) /\ Context(e)
  BY <1>4, <1>5, PrefixKeeps, KeepsTrans DEF Keeps
<1>7. bsf_like_handler(c, o, ops) \in {d, WithOperand(e, o.R32RM32, b, a.reg)}
  BY <1>1, <1>2, <1>3, <1>5 DEF bsf_like_handler, Then
<1>8. QED BY <1>4, <1>6, <1>7, WithOperandKeeps, KeepsTrans

\* The handler of shld and shrd keeps them.
LEMMA ShldKeeps ==
  ASSUME NEW c, Context(c), NEW o, NEW ops
  PROVE  Keeps(c, shld_like_handler(c, o, ops))
<1>1. PICK a : a = ops[1]
  OBVIOUS
<1>2. PICK b : b = ops[2]
  OBVIOUS
<1>3. PICK n : n = ops[3]
  OBVIOUS
<1> DEFINE ok == /\ a.type # IMM /\ a.size \in {0, 3} /\ b.type = REG /\ b.size \in {0, 3}
                 /\ n.size \in {0, 1} /\ (n.type = IMM \/ (n.type = REG /\ n.reg = 1))
<1>4. PICK d : d = Check(c, ok, "operand")
  OBVIOUS
<1>5. Keeps(c, d) /\ Context(d)
  BY <1>4 DEF Context, Keeps, Check
<1>6. PICK e : e = WithOperand(d, IF n.type = IMM THEN o.RM32R32IMM8 ELSE o.RM32R32CL, a, b.reg)
  OBVIOUS
<1>7. Keeps(c, e) /\ Context(e)
  BY <1>5, <1>6, WithOperandKeeps, KeepsTrans DEF Keeps
<1>8. shld_like_handler(c, o, ops) \in {d, e, asmctx_emit(e, n.offset)}
  BY <1>1, <1>2, <1>3, <1>4, <1>6 DEF shld_like_handler, Then
<1>9. QED BY <1>5, <1>7, <1>8, EmitKeeps, KeepsTrans

\* The handler of imul, with one, two or three operands, keeps them.
LEMMA ImulKeeps ==
  ASSUME NEW c, Context(c), NEW o, NEW ops
  PROVE  Keeps(c, imul_like_handler(c, o, ops))
<1>1. PICK a : a = ops[1]
  OBVIOUS
<1> DEFINE n == Len(ops)
           sz == IF a.size = 0 THEN 3 ELSE a.size
           three == n = 3 \/ (n = 2 /\ ops[2].type = IMM)
           b == IF n = 2 /\ three THEN a ELSE ops[2]
           Single == WithImmediate(c, BySize(o, sz, "RM8", "RM32"), a, LAMBDA c1 : c1)
           e == WithOperand(c, IF three THEN o.R32RM32IMM32 ELSE o.R32RM32, b, a.reg)
           Refused == Check(c, FALSE, "operand")
<1>2. imul_like_handler(c, o, ops) \in {Single, e, Put(e, 4, ops[n].offset), Refused}
  BY <1>1 DEF imul_like_handler, Then
<1>3. Keeps(c, Single)
  BY ImmediateKeeps
<1>4. Keeps(c, e) /\ Context(e)
  BY WithOperandKeeps DEF Keeps
<1>5. Keeps(c, Refused)
  BY DEF Context, Keeps, Check
<1> HIDE DEF e, Single, Refused
<1>6. Keeps(e, Put(e, 4, ops[n].offset))
  BY <1>4, PutKeeps
<1>7. QED BY <1>2, <1>3, <1>4, <1>5, <1>6, KeepsTrans

\* The handler of instructions without operands keeps them.
LEMMA RetKeeps ==
  ASSUME NEW c, Context(c), NEW o, NEW ops
  PROVE  Keeps(c, ret_like_handler(c, o, ops))
BY MultiKeeps DEF ret_like_handler

\* The handler of jumps, push, pop and int keeps them, short jumps that are
\* too long included.
LEMMA JmpKeeps ==
  ASSUME NEW c, Context(c), NEW o, NEW ops, IsRead(ops[1])
  PROVE  Keeps(c, jmp_like_handler(c, o, ops))
<1>1. PICK op : op = ops[1]
  OBVIOUS
<1>2. PICK sz : sz = CASE op.size # 0 -> op.size
                       [] op.size = 0 /\ o.FORCE_8 -> 1
                       [] OTHER -> 3
  OBVIOUS
<1>3. sz \in 1 .. 4
  BY <1>1, <1>2 DEF IsRead
<1> DEFINE ok == /\ o.FORCE_32 => sz = 3
                 /\ o.FORCE_8 => sz = 1
                 /\ IF op.type = IMM THEN o.ALLOW_IMM ELSE o.ALLOW_RM
           off(x) == Distance(x, o, sz, op.offset)
<1>4. PICK d : d = Check(c, ok, "operand")
  OBVIOUS
<1>5. Keeps(c, d) /\ Context(d)
  BY <1>4 DEF Context, Keeps, Check
<1>6. PICK e : e = Prefix(d, sz)
  OBVIOUS
<1>7. Keeps(c, e) /\ Context(e)
  BY <1>5, <1>6, PrefixKeeps, KeepsTrans DEF Keeps
<1>8. PICK f : f = emit_multibyte(e, BySize(o, sz, "IMM8", "IMM32"))
  OBVIOUS
<1>9. Keeps(c, f) /\ Context(f)
  BY <1>7, <1>8, MultiKeeps, KeepsTrans DEF Keeps
<1>10. PICK g : g = Check(f, ~Far(f, o, sz, off(f)), "far")
  OBVIOUS
<1>11. Keeps(c, g) /\ Context(g)
  <2>1. Keeps(f, g)
    BY <1>9, <1>10 DEF Context, Keeps, Check
  <2>2. QED BY <1>9, <2>1, KeepsTrans DEF Keeps
<1>12. PICK h : h = WithImmediate(e, BySize(o, sz, "RM8", "RM32"), op, LAMBDA c2 : c2)
  OBVIOUS
<1>13. Keeps(c, h)
  BY <1>7, <1>12, ImmediateKeeps, KeepsTrans
<1>14. jmp_like_handler(c, o, ops) \in {d, h, f, g, emit_size(g, off(f), sz)}
  BY <1>1, <1>2, <1>4, <1>6, <1>8, <1>10, <1>12 DEF jmp_like_handler, Then
<1>15. QED BY <1>3, <1>5, <1>9, <1>11, <1>13, <1>14, SizeKeeps, KeepsTrans

----------------------------------------------------------------------------
(* Operands (asmctx_parse_operand) *)

\* An operand of this type and size.
Fields(type, sz, reg, offset, scale, index, error) ==
  [type |-> type, size |-> sz, reg |-> reg, offset |-> offset, scale |-> scale, index |-> index, error |-> error]
IsOf(op, type, sz) ==
  \E reg, offset, scale, index, error : op = Fields(type, sz, reg, offset, scale, index, error)

\* Changing another field of an operand leaves its type and its size.
LEMMA FieldsSet ==
  ASSUME NEW type, NEW sz, NEW reg, NEW offset, NEW scale, NEW index, NEW error, NEW op,
         op = Fields(type, sz, reg, offset, scale, index, error), NEW x, NEW y
  PROVE  /\ IsOf(op, type, sz)
         /\ IsOf([op EXCEPT !.error = x], type, sz)
         /\ IsOf([op EXCEPT !.offset = x], type, sz)
         /\ IsOf([op EXCEPT !.reg = x], type, sz)
         /\ IsOf([op EXCEPT !.index = x, !.scale = y], type, sz)
<1>1. [op EXCEPT !.error = x] = Fields(type, sz, reg, offset, scale, index, x)
  <2>1. [op EXCEPT !.error = x] = [f \in DOMAIN op |-> IF f = "error" THEN x ELSE op[f]]
    BY Zenon
  <2>2. QED BY <2>1 DEF Fields
<1>2. [op EXCEPT !.offset = x] = Fields(type, sz, reg, x, scale, index, error)
  <2>1. [op EXCEPT !.offset = x] = [f \in DOMAIN op |-> IF f = "offset" THEN x ELSE op[f]]
    BY Zenon
  <2>2. QED BY <2>1 DEF Fields
<1>3. [op EXCEPT !.reg = x] = Fields(type, sz, x, offset, scale, index, error)
  <2>1. [op EXCEPT !.reg = x] = [f \in DOMAIN op |-> IF f = "reg" THEN x ELSE op[f]]
    BY Zenon
  <2>2. QED BY <2>1 DEF Fields
<1>4. [op EXCEPT !.index = x, !.scale = y] = Fields(type, sz, reg, offset, y, x, error)
  <2>1. [op EXCEPT !.index = x, !.scale = y] = [f \in DOMAIN op |-> IF f = "scale" THEN y ELSE IF f = "index" THEN x ELSE op[f]]
    BY Zenon
  <2>2. QED BY <2>1 DEF Fields
<1> HIDE DEF Fields
<1>5. IsOf([op EXCEPT !.error = x], type, sz)
  BY <1>1 DEF IsOf
<1>6. IsOf([op EXCEPT !.offset = x], type, sz)
  BY <1>2 DEF IsOf
<1>7. IsOf([op EXCEPT !.reg = x], type, sz)
  BY <1>3 DEF IsOf
<1>8. IsOf([op EXCEPT !.index = x, !.scale = y], type, sz)
  BY <1>4 DEF IsOf
<1>9. IsOf(op, type, sz)
  BY DEF IsOf
<1>10. QED BY <1>5, <1>6, <1>7, <1>8, <1>9, Zenon

\* A term in brackets leaves the type and the size of the operand.
LEMMA AddTermIs ==
  ASSUME NEW op, NEW type, NEW sz, IsOf(op, type, sz), NEW c, NEW m
  PROVE  IsOf(AddTerm(op, c, m), type, sz)
<1>1. PICK reg, offset, scale, index, error : op = Fields(type, sz, reg, offset, scale, index, error)
  BY DEF IsOf
<1>2. PICK k : k = CHOOSE s \in 0 .. 3 : 2 ^ s = m.scale
  OBVIOUS
<1>3. PICK a : a = [op EXCEPT !.error = "undefined"]
  OBVIOUS
<1>4. PICK b : b = [op EXCEPT !.offset = op.offset + m.sign * Value(c, m.value)]
  OBVIOUS
<1>5. PICK d : d = [op EXCEPT !.error = "operand"]
  OBVIOUS
<1>6. PICK e : e = [op EXCEPT !.index = RegNumber(m.reg), !.scale = k]
  OBVIOUS
<1>7. PICK f : f = [op EXCEPT !.reg = RegNumber(m.reg)]
  OBVIOUS
<1>8. PICK g : g = [op EXCEPT !.index = RegNumber(m.reg), !.scale = 0]
  OBVIOUS
<1>9. AddTerm(op, c, m) \in {op, a, b, d, e, f, g}
  BY <1>1, <1>2, <1>3, <1>4, <1>5, <1>6, <1>7, <1>8 DEF AddTerm, Bad, Fields
<1>10. IsOf(a, type, sz)
  BY <1>1, <1>3, FieldsSet, Zenon
<1>11. IsOf(b, type, sz)
  BY <1>1, <1>4, FieldsSet, Zenon
<1>12. IsOf(d, type, sz)
  BY <1>1, <1>5, FieldsSet, Zenon
<1>13. IsOf(e, type, sz)
  BY <1>1, <1>6, FieldsSet, Zenon
<1>14. IsOf(f, type, sz)
  BY <1>1, <1>7, FieldsSet, Zenon
<1>15. IsOf(g, type, sz)
  BY <1>1, <1>8, FieldsSet, Zenon
<1>16. QED BY <1>9, <1>10, <1>11, <1>12, <1>13, <1>14, <1>15

\* A term of a direct operand leaves them.
LEMMA AddValueIs ==
  ASSUME NEW op, NEW type, NEW sz, IsOf(op, type, sz), NEW c, NEW m
  PROVE  IsOf(AddValue(op, c, m), type, sz)
<1>1. PICK reg, offset, scale, index, error : op = Fields(type, sz, reg, offset, scale, index, error)
  BY DEF IsOf
<1> DEFINE v == CASE m.with \in {"shl", "shr"} -> Value(c, m.value) * 2 ^ Value(c, m.second)
                  [] m.with = "or" -> BitOr(Value(c, m.value), Value(c, m.second))
                  [] m.with = "*" -> Value(c, m.value) * Value(c, m.second)
                  [] OTHER -> Value(c, m.value)
<1>2. PICK x : x = CASE m.sign = "+" -> op.offset + v
                     [] m.sign = "-" -> op.offset - v
                     [] m.sign = "not" -> op.offset - v - 1
  OBVIOUS
<1>3. PICK a : a = [op EXCEPT !.error = "undefined"]
  OBVIOUS
<1>4. PICK b : b = [op EXCEPT !.offset = x]
  OBVIOUS
<1>5. AddValue(op, c, m) \in {op, a, b}
  BY <1>1, <1>2, <1>3, <1>4 DEF AddValue, Bad, Fields
<1>6. IsOf(a, type, sz)
  BY <1>1, <1>3, FieldsSet, Zenon
<1>7. IsOf(b, type, sz)
  BY <1>1, <1>4, FieldsSet, Zenon
<1>8. QED BY <1>5, <1>6, <1>7

\* Every register of asm_regs.g has 8, 16 or 32 bits.
LEMMA RegSizes == \A r \in DOMAIN parse_register : RegSize(r) \in 1 .. 3
BY DEF parse_register, RegSize

\* An operand is made with its type and size.
LEMMA OperandOf ==
  ASSUME NEW type, NEW sz, NEW reg, NEW offset, NEW op, op = Operand(type, sz, reg, offset)
  PROVE  op.type = type /\ op.size = sz
BY DEF Operand

\* asmctx_parse_operand returns an operand of one of the three kinds, of a
\* size that the handlers know.
LEMMA OperandIs ==
  ASSUME NEW c, NEW t, IsOperand(t)
  PROVE  IsRead(asmctx_parse_operand(c, t))
<1> DEFINE First == IF t.kind = "ind" THEN Operand(IND, t.size, NONE, 0) ELSE Operand(IMM, 0, NONE, 0)
           Add(op, m) == IF t.kind = "ind" THEN AddTerm(op, c, m) ELSE AddValue(op, c, m)
           n == Len(t.terms)
           Body(f) == [i \in 0 .. n |-> IF i = 0 THEN First ELSE Add(f[i - 1], t.terms[i])]
           S == CHOOSE f : f = Body(f)
           type == IF t.kind = "ind" THEN IND ELSE IMM
           sz == IF t.kind = "ind" THEN t.size ELSE 0
<1>1. asmctx_parse_operand(c, t) =
        IF t.kind = "reg" THEN Operand(REG, RegSize(t.reg), RegNumber(t.reg), 0) ELSE S[n]
  BY DEF asmctx_parse_operand
<1>2. CASE t.kind = "reg"
  <2>1. RegSize(t.reg) \in 0 .. 3
    BY <1>2, RegSizes DEF IsOperand
  <2>2. asmctx_parse_operand(c, t) = Operand(REG, RegSize(t.reg), RegNumber(t.reg), 0)
    BY <1>1, <1>2
  <2> HIDE DEF S, n, Body, First
  <2>3. PICK op : op = asmctx_parse_operand(c, t)
    OBVIOUS
  <2>4. op.type = REG /\ op.size = RegSize(t.reg)
    BY <2>2, <2>3, OperandOf
  <2>5. QED BY <2>1, <2>3, <2>4 DEF IsRead
<1>3. CASE t.kind # "reg"
  <2>1. n \in Nat /\ type \in {IND, IMM} /\ sz \in 0 .. 3
    BY <1>3 DEF IsOperand, IsList
  <2>2. IsOf(First, type, sz)
    BY DEF Operand, IsOf, Fields
  <2>3. \A op, m : IsOf(op, type, sz) => IsOf(Add(op, m), type, sz)
    BY AddTermIs, AddValueIs
  <2> HIDE DEF First, Add, n, type, sz
  <2>4. \E f : f = Body(f)
    <3> DEFINE Sol(m, f) == /\ f = [k \in 0 .. m |-> f[k]] /\ f[0] = First
                            /\ \A k \in 1 .. m : f[k] = Add(f[k - 1], t.terms[k])
               T == {m \in Nat : \E f : Sol(m, f)}
    <3>1. 0 \in T
      <4> DEFINE f == [k \in 0 .. 0 |-> First]
      <4>1. Sol(0, f)
        OBVIOUS
      <4> HIDE DEF f, Sol
      <4>2. QED BY <4>1
    <3>2. ASSUME NEW m \in Nat, m \in T PROVE m + 1 \in T
      <4>1. PICK f : Sol(m, f)
        BY <3>2
      <4>2. PICK x : x = Add(f[m], t.terms[m + 1])
        OBVIOUS
      <4> DEFINE g == [k \in 0 .. m + 1 |-> IF k = m + 1 THEN x ELSE f[k]]
      <4>3. g = [k \in 0 .. m + 1 |-> g[k]] /\ g[m + 1] = x /\ \A k \in 0 .. m : g[k] = f[k]
        OBVIOUS
      <4> HIDE DEF g
      <4>4. ASSUME NEW k \in 1 .. m + 1 PROVE g[k] = Add(g[k - 1], t.terms[k])
        <5>1. CASE k = m + 1
          <6>1. k - 1 = m /\ m \in 0 .. m
            BY <5>1
          <6>2. g[k - 1] = f[m]
            BY <4>3, <6>1
          <6>3. QED BY <4>2, <4>3, <5>1, <6>2
        <5>2. CASE k # m + 1
          <6>1. k \in 1 .. m /\ k - 1 \in 0 .. m /\ k \in 0 .. m
            BY <4>4, <5>2
          <6>2. QED BY <4>1, <4>3, <6>1
        <5>3. QED BY <5>1, <5>2
      <4>5. Sol(m + 1, g)
        <5>1. g[0] = First
          <6>1. 0 \in 0 .. m
            OBVIOUS
          <6>2. g[0] = f[0]
            BY <4>3, <6>1
          <6>3. QED BY <4>1, <6>2
        <5>2. QED BY <4>3, <4>4, <5>1
      <4> HIDE DEF Sol
      <4>6. QED BY <4>5
    <3> HIDE DEF T
    <3>3. n \in T
      BY <2>1, <3>1, <3>2, SetInduction
    <3>4. PICK f : Sol(n, f)
      BY <3>3 DEF T
    <3>5. ASSUME NEW k \in 0 .. n PROVE f[k] = IF k = 0 THEN First ELSE Add(f[k - 1], t.terms[k])
      <4>1. k = 0 \/ k \in 1 .. n
        BY <2>1
      <4>2. QED BY <3>4, <4>1
    <3>6. f = Body(f)
      BY <3>4, <3>5
    <3> HIDE DEF Body
    <3>7. QED BY <3>6
  <2>5. S = Body(S)
    <3> HIDE DEF Body
    <3> QED BY <2>4
  <2> HIDE DEF S
  <2> DEFINE T == {m \in Nat : m <= n => IsOf(S[m], type, sz)}
  <2>6. 0 \in T
    BY <2>1, <2>2, <2>5
  <2>7. ASSUME NEW m \in Nat, m \in T PROVE m + 1 \in T
    BY <2>1, <2>3, <2>5, <2>7
  <2> HIDE DEF T
  <2>8. n \in T
    BY <2>1, <2>6, <2>7, SetInduction
  <2>9. IsOf(S[n], type, sz)
    BY <2>1, <2>8 DEF T
  <2>10. S[n].type = type /\ S[n].size = sz
    BY <2>9 DEF IsOf, Fields
  <2>11. QED BY <1>1, <1>3, <2>1, <2>10 DEF IsRead
<1>4. QED BY <1>2, <1>3

----------------------------------------------------------------------------
(* Lines (asmctx_parse_line) *)

\* It does so for each operand of a list (asmctx_parse_operands).
LEMMA OperandsList ==
  ASSUME NEW c, NEW texts, AreOperands(texts), NEW ops,
         ops = [i \in DOMAIN texts |-> asmctx_parse_operand(c, texts[i])]
  PROVE  /\ Len(ops) \in Nat /\ DOMAIN ops = 1 .. Len(ops)
         /\ \A i \in 1 .. Len(ops) : IsRead(ops[i])
<1> DEFINE n == Len(texts)
           R == {ops[i] : i \in 1 .. n}
<1>1. n \in Nat /\ DOMAIN texts = 1 .. n
  BY DEF AreOperands, IsList
<1>2. ops \in [1 .. n -> R] /\ DOMAIN ops = 1 .. n
  BY <1>1
<1>3. ops \in Seq(R)
  BY <1>1, <1>2, SeqDef
<1>4. Len(ops) = n
  BY <1>1, <1>2, <1>3, LenProperties
<1>5. QED BY <1>1, <1>2, <1>4, OperandIs DEF AreOperands

\* One instruction with its operands keeps the stage and the symbols, whatever
\* row of the table it has.
LEMMA GroupKeeps ==
  ASSUME NEW c, Context(c), NEW o, IsRow(o), NEW texts, AreOperands(texts)
  PROVE  Keeps(c, Group(c, o, texts))
<1> DEFINE ops == [i \in DOMAIN texts |-> asmctx_parse_operand(c, texts[i])]
           wrong == {i \in DOMAIN ops : ops[i].error # ""}
           first == CHOOSE i \in wrong : \A k \in wrong : i <= k
           what == IF wrong = {} THEN "operand" ELSE ops[first].error
           Handled(c1) == CASE o.handler = "add" -> add_like_handler(c1, o, ops)
                            [] o.handler = "sal" -> sal_like_handler(c1, o, ops)
                            [] o.handler = "lea" -> lea_like_handler(c1, o, ops)
                            [] o.handler = "stos" -> stos_like_handler(c1, o, ops)
                            [] o.handler = "movzx" -> movzx_like_handler(c1, o, ops)
                            [] o.handler = "jmp" -> jmp_like_handler(c1, o, ops)
                            [] o.handler = "shld" -> shld_like_handler(c1, o, ops)
                            [] o.handler = "imul" -> imul_like_handler(c1, o, ops)
                            [] o.handler = "bsf" -> bsf_like_handler(c1, o, ops)
                            [] o.handler = "ret" -> ret_like_handler(c1, o, ops)
           d == Check(c, wrong = {} /\ o.ARG_NUM \in {\hff, Len(ops)}, what)
<1>1. Group(c, o, texts) = IF d.error # "" THEN d ELSE Handled(d)
  BY DEF Group, Then
<1>2. /\ Len(ops) \in Nat /\ DOMAIN ops = 1 .. Len(ops)
      /\ \A i \in 1 .. Len(ops) : IsRead(ops[i])
  <2>1. ops = [i \in DOMAIN texts |-> asmctx_parse_operand(c, texts[i])]
    OBVIOUS
  <2> HIDE DEF ops
  <2>2. QED BY <2>1, OperandsList, Zenon
<1> HIDE DEF ops
<1>3. what # ""
  <2>1. CASE wrong = {}
    BY <2>1
  <2>2. CASE wrong # {}
    <3>1. wrong \in SUBSET Nat
      <4>1. \A i \in DOMAIN ops : i \in Nat
        BY <1>2
      <4>2. wrong \subseteq DOMAIN ops
        OBVIOUS
      <4> HIDE DEF wrong
      <4>3. QED BY <4>1, <4>2
    <3>2. \E i \in wrong : \A k \in wrong : i <= k
      BY <2>2, <3>1, LeastNat
    <3>3. first \in wrong
      BY <3>2
    <3>4. QED BY <2>2, <3>3
  <2>3. QED BY <2>1, <2>2
<1> HIDE DEF wrong, what
<1>4. Keeps(c, d) /\ Context(d)
  BY DEF Context, Keeps, Check
<1>5. d.error = "" => o.ARG_NUM \in {\hff, Len(ops)}
  BY <1>3 DEF Check, Context
<1> HIDE DEF d
<1>6. CASE d.error = ""
  <2>1. ASSUME o.handler = "add" PROVE IsRead(ops[1]) /\ IsRead(ops[2])
    <3>1. o.ARG_NUM = 2
      BY <2>1, Zenon DEF IsRow
    <3>2. Len(ops) = 2
      <4>1. 2 \in {\hff, Len(ops)}
        BY ONLY <1>5, <1>6, <3>1, Zenon
      <4>2. \hff # 2
        BY ONLY SMT
      <4>3. QED BY ONLY <4>1, <4>2, Zenon
    <3>3. QED BY <1>2, <3>2
  <2>2. ASSUME o.handler = "jmp" PROVE IsRead(ops[1])
    <3>1. o.ARG_NUM = 1
      BY <2>2, Zenon DEF IsRow
    <3>2. Len(ops) = 1
      <4>1. 1 \in {\hff, Len(ops)}
        BY ONLY <1>5, <1>6, <3>1, Zenon
      <4>2. \hff # 1
        BY ONLY SMT
      <4>3. QED BY ONLY <4>1, <4>2, Zenon
    <3>3. QED BY <1>2, <3>2
  <2>3. o.handler = "add" => Keeps(d, Handled(d))
    BY <1>4, <2>1, AddKeeps
  <2>4. o.handler = "jmp" => Keeps(d, Handled(d))
    BY <1>4, <2>2, JmpKeeps
  <2>5. o.handler \in {"sal", "lea", "stos"} => Keeps(d, Handled(d))
    BY <1>4, SalKeeps, LeaKeeps, StosKeeps
  <2>6. o.handler \in {"movzx", "shld", "imul"} => Keeps(d, Handled(d))
    BY <1>4, MovzxKeeps, ShldKeeps, ImulKeeps
  <2>7. o.handler \in {"bsf", "ret"} => Keeps(d, Handled(d))
    BY <1>4, BsfKeeps, RetKeeps
  <2> HIDE DEF Handled
  <2>8. Keeps(d, Handled(d))
    BY <2>3, <2>4, <2>5, <2>6, <2>7 DEF IsRow, Handlers
  <2>9. QED BY <1>4, <1>1, <1>6, <2>8, KeepsTrans
<1>7. CASE d.error # ""
  <2> HIDE DEF Handled
  <2>1. QED BY <1>4, <1>1, <1>7
<1>8. QED BY <1>6, <1>7

\* A line with an instruction keeps them, for any number of groups of operands.
LEMMA InstructionKeeps ==
  ASSUME NEW c, Context(c), NEW l, IsLine(l), l.kind = "op"
  PROVE  Keeps(c, Instruction(c, l))
<1>1. PICK o : o = build_opcode_map[l.name]
  OBVIOUS
<1>2. IsRow(o)
  BY <1>1, MapRows DEF AllRows, IsLine
<1> DEFINE n == Len(l.groups)
           First == IF l.rep THEN asmctx_emit(c, \hf3) ELSE c
           More(e, i) == IF i = 1 THEN Group(e, o, l.groups[1])
                         ELSE Then(Check(e, o.repeats, "operand"), LAMBDA c1 : Group(c1, o, l.groups[i]))
           Elem(f, i) ==
             CASE i = 0 -> IF l.rep THEN asmctx_emit(c, \hf3) ELSE c
               [] i = 1 -> Group(f[0], o, l.groups[1])
               [] OTHER -> Then(Check(f[i - 1], o.repeats, "operand"), LAMBDA c1 : Group(c1, o, l.groups[i]))
           Body(f) == [i \in 0 .. n |-> Elem(f, i)]
           Do == CHOOSE f : f = Body(f)
<1>3. Instruction(c, l) = Do[n]
  BY <1>1 DEF Instruction
<1>4. n \in Nat /\ \A g \in 1 .. n : AreOperands(l.groups[g])
  BY DEF IsLine, IsList
<1>5. Keeps(c, First)
  BY EmitKeeps, KeepsSelf
<1>6. ASSUME NEW e, Keeps(c, e), NEW i \in 1 .. n PROVE Keeps(c, More(e, i))
  <2>1. CASE i = 1
    <3>1. Keeps(e, Group(e, o, l.groups[1]))
      BY <1>2, <1>4, <1>6, <2>1, GroupKeeps DEF Keeps
    <3>2. QED BY <1>6, <2>1, <3>1, KeepsTrans
  <2>2. CASE i # 1
    <3>1. PICK d : d = Check(e, o.repeats, "operand")
      OBVIOUS
    <3>2. Keeps(e, d) /\ Context(d)
      BY <1>6, <3>1 DEF Context, Keeps, Check
    <3>3. Keeps(d, Group(d, o, l.groups[i]))
      BY <1>2, <1>4, <1>6, <3>2, GroupKeeps
    <3>4. More(e, i) \in {d, Group(d, o, l.groups[i])}
      BY <2>2, <3>1 DEF Then
    <3> HIDE DEF More
    <3>5. QED BY <1>6, <3>2, <3>3, <3>4, KeepsTrans
  <2>3. QED BY <2>1, <2>2
<1>7. \A f, i : i \in 0 .. n => Elem(f, i) = IF i = 0 THEN First ELSE More(f[i - 1], i)
  <2>1. ASSUME NEW f, NEW i \in 0 .. n PROVE Elem(f, i) = IF i = 0 THEN First ELSE More(f[i - 1], i)
    <3>1. CASE i = 0
      BY <3>1
    <3>2. CASE i = 1
      BY <3>2
    <3>3. CASE i \notin {0, 1}
      BY <3>3
    <3>4. QED BY <3>1, <3>2, <3>3
  <2>2. QED BY <2>1
<1> HIDE DEF First, More, n, Elem
<1>8. \A f : \A k \in 0 .. n : Body(f)[k] = IF k = 0 THEN First ELSE More(f[k - 1], k)
  BY <1>7
<1>9. \E f : f = Body(f)
  <2> DEFINE Sol(m, f) == /\ f = [k \in 0 .. m |-> f[k]] /\ f[0] = First
                          /\ \A k \in 1 .. m : f[k] = More(f[k - 1], k)
             T == {m \in Nat : \E f : Sol(m, f)}
  <2>1. 0 \in T
    <3> DEFINE f == [k \in 0 .. 0 |-> First]
    <3>1. Sol(0, f)
      OBVIOUS
    <3> HIDE DEF f, Sol
    <3>2. QED BY <3>1
  <2>2. ASSUME NEW m \in Nat, m \in T PROVE m + 1 \in T
    <3>1. PICK f : Sol(m, f)
      BY <2>2
    <3>2. PICK x : x = More(f[m], m + 1)
      OBVIOUS
    <3> DEFINE g == [k \in 0 .. m + 1 |-> IF k = m + 1 THEN x ELSE f[k]]
    <3>3. g = [k \in 0 .. m + 1 |-> g[k]] /\ g[m + 1] = x /\ \A k \in 0 .. m : g[k] = f[k]
      OBVIOUS
    <3> HIDE DEF g
    <3>4. ASSUME NEW k \in 1 .. m + 1 PROVE g[k] = More(g[k - 1], k)
      <4>1. CASE k = m + 1
        <5>1. k - 1 = m /\ m \in 0 .. m
          BY <4>1
        <5>2. g[k - 1] = f[m]
          BY <3>3, <5>1
        <5>3. QED BY <3>2, <3>3, <4>1, <5>2
      <4>2. CASE k # m + 1
        <5>1. k \in 1 .. m /\ k - 1 \in 0 .. m /\ k \in 0 .. m
          BY <3>4, <4>2
        <5>2. QED BY <3>1, <3>3, <5>1
      <4>3. QED BY <4>1, <4>2
    <3>5. g[0] = First
      <4>1. 0 \in 0 .. m
        OBVIOUS
      <4>2. g[0] = f[0]
        BY <3>3, <4>1
      <4>3. QED BY <3>1, <4>2
    <3>6. Sol(m + 1, g)
      BY <3>3, <3>4, <3>5
    <3> HIDE DEF Sol
    <3>7. QED BY <3>6
  <2> HIDE DEF T
  <2>3. n \in T
    BY <1>4, <2>1, <2>2, SetInduction
  <2>4. PICK f : Sol(n, f)
    BY <2>3 DEF T
  <2>5. ASSUME NEW k \in 0 .. n PROVE f[k] = Body(f)[k]
    <3>1. k = 0 \/ (k \in 1 .. n /\ k # 0)
      BY <1>4
    <3>2. f[k] = IF k = 0 THEN First ELSE More(f[k - 1], k)
      BY <2>4, <3>1
    <3> HIDE DEF Body
    <3>3. QED BY <1>8, <3>2
  <2>6. f = Body(f)
    BY <2>4, <2>5
  <2> HIDE DEF Body
  <2>7. QED BY <2>6
<1> HIDE DEF Body
<1>10. Do = Body(Do)
  BY <1>9
<1> HIDE DEF Do
<1>11. \A k \in 0 .. n : Do[k] = IF k = 0 THEN First ELSE More(Do[k - 1], k)
  BY <1>8, <1>10
<1> DEFINE T == {m \in Nat : m <= n => Keeps(c, Do[m])}
<1>12. 0 \in T
  BY <1>4, <1>5, <1>11
<1>13. ASSUME NEW m \in Nat, m \in T PROVE m + 1 \in T
  BY <1>4, <1>6, <1>11, <1>13
<1> HIDE DEF T
<1>14. n \in T
  BY <1>4, <1>12, <1>13, SetInduction
<1>15. Keeps(c, Do[n])
  BY <1>4, <1>14 DEF T
<1>16. QED BY <1>3, <1>15

\* A line with data (d, r or align) keeps them, apart from its label.
LEMMA DataKeeps ==
  ASSUME NEW c, Context(c), NEW l, IsLine(l), l.kind = "data"
  PROVE  Keeps(c, asmctx_parse_data(c, l))
<1> DEFINE ops == [i \in DOMAIN l.values |-> asmctx_parse_operand(c, l.values[i])]
           Checked(c1, i) == Check(Check(c1, ops[i].error = "", ops[i].error), ops[i].type = IMM, "operand")
           n == Len(l.values)
           z == l.size
           More(e, i) == Then(Checked(e, i), LAMBDA c1 : emit_size(c1, ops[i].offset, z))
           Body(f) == [i \in 0 .. n |-> IF i = 0 THEN c ELSE More(f[i - 1], i)]
           Do == CHOOSE f : f = Body(f)
           x == ops[1].offset
<1>1. asmctx_parse_data(c, l) =
        CASE l.type = "d" -> Do[n]
          [] l.type = "r" -> Then(Checked(c, 1), LAMBDA c1 : Fill(c1, x, z))
          [] l.type = "align" -> Then(Check(Checked(c, 1), x # 0, "trap"),
                                      LAMBDA c1 : Fill(c1, Padding(c1.loc, x), 1))
  BY DEF asmctx_parse_data
<1>2. l.type \in {"d", "r", "align"} /\ z \in 1 .. 4 /\ n \in Nat
  BY DEF IsLine, AreOperands, IsList
<1>3. Keeps(c, Do[n])
  <2> HIDE DEF ops, n, z
  <2>1. ASSUME NEW e, Context(e), NEW i PROVE Keeps(e, Checked(e, i)) /\ Context(Checked(e, i))
    <3>1. PICK d : d = Check(e, ops[i].error = "", ops[i].error)
      OBVIOUS
    <3>2. Keeps(e, d) /\ Context(d)
      BY <2>1, <3>1 DEF Check, Context, Keeps
    <3>3. PICK g : g = Check(d, ops[i].type = IMM, "operand")
      OBVIOUS
    <3>4. Keeps(d, g) /\ Context(g)
      BY <3>2, <3>3 DEF Check, Context, Keeps
    <3>5. g = Checked(e, i)
      BY <3>1, <3>3
    <3> HIDE DEF Checked
    <3>6. QED BY <3>2, <3>4, <3>5, KeepsTrans
  <2>2. ASSUME NEW e, Keeps(c, e), NEW i PROVE Keeps(c, More(e, i))
    <3>1. PICK d : d = Checked(e, i)
      OBVIOUS
    <3> HIDE DEF Checked
    <3>2. Keeps(e, d) /\ Context(d)
      BY <2>1, <2>2, <3>1 DEF Keeps
    <3>3. More(e, i) \in {d, emit_size(d, ops[i].offset, z)}
      BY <3>1 DEF Then
    <3>4. Keeps(d, emit_size(d, ops[i].offset, z))
      BY <1>2, <3>2, SizeKeeps
    <3> HIDE DEF More
    <3>5. QED BY <2>2, <3>2, <3>3, <3>4, KeepsTrans
  <2> HIDE DEF More
  <2>3. \E f : f = Body(f)
    <3> DEFINE Sol(m, f) == /\ f = [k \in 0 .. m |-> f[k]] /\ f[0] = c
                            /\ \A k \in 1 .. m : f[k] = More(f[k - 1], k)
               T == {m \in Nat : \E f : Sol(m, f)}
    <3>1. 0 \in T
      <4> DEFINE f == [k \in 0 .. 0 |-> c]
      <4>1. Sol(0, f)
        OBVIOUS
      <4> HIDE DEF f, Sol
      <4>2. QED BY <4>1
    <3>2. ASSUME NEW m \in Nat, m \in T PROVE m + 1 \in T
      <4>1. PICK f : Sol(m, f)
        BY <3>2
      <4>2. PICK y : y = More(f[m], m + 1)
        OBVIOUS
      <4> DEFINE g == [k \in 0 .. m + 1 |-> IF k = m + 1 THEN y ELSE f[k]]
      <4>3. g = [k \in 0 .. m + 1 |-> g[k]] /\ g[m + 1] = y /\ \A k \in 0 .. m : g[k] = f[k]
        OBVIOUS
      <4> HIDE DEF g
      <4>4. ASSUME NEW k \in 1 .. m + 1 PROVE g[k] = More(g[k - 1], k)
        <5>1. CASE k = m + 1
          <6>1. k - 1 = m /\ m \in 0 .. m
            BY <5>1
          <6>2. g[k - 1] = f[m]
            BY <4>3, <6>1
          <6>3. QED BY <4>2, <4>3, <5>1, <6>2
        <5>2. CASE k # m + 1
          <6>1. k \in 1 .. m /\ k - 1 \in 0 .. m /\ k \in 0 .. m
            BY <4>4, <5>2
          <6>2. QED BY <4>1, <4>3, <6>1
        <5>3. QED BY <5>1, <5>2
      <4>5. g[0] = c
        <5>1. 0 \in 0 .. m
          OBVIOUS
        <5>2. g[0] = f[0]
          BY <4>3, <5>1
        <5>3. QED BY <4>1, <5>2
      <4>6. Sol(m + 1, g)
        BY <4>3, <4>4, <4>5
      <4> HIDE DEF Sol
      <4>7. QED BY <4>6
    <3> HIDE DEF T
    <3>3. n \in T
      BY <1>2, <3>1, <3>2, SetInduction
    <3>4. PICK f : Sol(n, f)
      BY <3>3 DEF T
    <3>5. ASSUME NEW k \in 0 .. n PROVE f[k] = IF k = 0 THEN c ELSE More(f[k - 1], k)
      <4>1. k = 0 \/ (k \in 1 .. n /\ k # 0)
        BY <1>2
      <4>2. QED BY <3>4, <4>1
    <3>6. f = Body(f)
      BY <3>4, <3>5
    <3> HIDE DEF Body
    <3>7. QED BY <3>6
  <2>4. Do = Body(Do)
    <3> HIDE DEF Body
    <3> QED BY <2>3
  <2> HIDE DEF Do
  <2>5. \A k \in 0 .. n : Do[k] = IF k = 0 THEN c ELSE More(Do[k - 1], k)
    BY <2>4
  <2> DEFINE T == {m \in Nat : m <= n => Keeps(c, Do[m])}
  <2>6. 0 \in T
    BY <1>2, <2>5, KeepsSelf
  <2>7. ASSUME NEW m \in Nat, m \in T PROVE m + 1 \in T
    <3>1. SUFFICES ASSUME m + 1 <= n PROVE Keeps(c, Do[m + 1])
      OBVIOUS
    <3>2. Keeps(c, Do[m])
      BY <1>2, <2>7, <3>1
    <3>3. Do[m + 1] = More(Do[m], m + 1)
      BY <1>2, <2>5, <3>1
    <3>4. QED BY <2>2, <3>2, <3>3
  <2> HIDE DEF T
  <2>8. n \in T
    BY <1>2, <2>6, <2>7, SetInduction
  <2>9. QED BY <1>2, <2>8 DEF T
<1> HIDE DEF Do, n, ops, z
<1>4. PICK a : a = Check(c, ops[1].error = "", ops[1].error)
  OBVIOUS
<1>5. PICK b : b = Check(a, ops[1].type = IMM, "operand")
  OBVIOUS
<1>6. PICK d : d = Check(b, x # 0, "trap")
  OBVIOUS
<1>7. Keeps(c, a) /\ Context(a)
  BY <1>4 DEF Check, Context, Keeps
<1>8. Keeps(a, b) /\ Context(b)
  BY <1>5, <1>7 DEF Check, Context, Keeps
<1>9. Keeps(b, d) /\ Context(d)
  BY <1>6, <1>8 DEF Check, Context, Keeps
<1>10. Keeps(c, b) /\ Keeps(c, d)
  BY <1>7, <1>8, <1>9, KeepsTrans
<1> HIDE DEF x
<1>11. \A e, m, w : Context(e) => Keeps(e, Fill(e, m, w))
  BY PutKeeps, KeepsSelf DEF Fill
<1>12. asmctx_parse_data(c, l) \in {Do[n], b, Fill(b, x, z), d, Fill(d, Padding(d.loc, x), 1)}
  BY <1>1, <1>2, <1>4, <1>5, <1>6 DEF Then
<1>13. Keeps(b, Fill(b, x, z)) /\ Keeps(d, Fill(d, Padding(d.loc, x), 1))
  BY <1>8, <1>9, <1>11
<1>14. QED BY <1>3, <1>10, <1>12, <1>13, KeepsTrans

----------------------------------------------------------------------------
(* Labels (asmctx_add_symbol) *)

\* A line that defines a label.
HasLabel(l) == l.kind # "op" /\ l.label # ""

\* The symbols y after the label of a line was added to those of c.
Adds(c, name, y) ==
  IF c.stage = 1 THEN name \notin DOMAIN c.symbols /\ y = Over([x \in {name} |-> c.loc], c.symbols)
  ELSE y = c.symbols /\ (c.stage = 2 => name \in DOMAIN c.symbols /\ c.symbols[name] = c.loc)

\* asmctx_add_symbol adds a new name in the second reading, and in the third
\* one it takes only a name that has the value of the current location.
LEMMA SymbolAdds ==
  ASSUME NEW c, Context(c), NEW name, NEW d, d = asmctx_add_symbol(c, name)
  PROVE  /\ Context(d) /\ d.stage = c.stage
         /\ d.error = "" => Adds(c, name, d.symbols)
<1> DEFINE dup == Check(c, name \notin DOMAIN c.symbols, "duplicate")
           new == [dup EXCEPT !.symbols = Over([x \in {name} |-> dup.loc], dup.symbols)]
           old == Check(c, name \in DOMAIN c.symbols /\ c.symbols[name] = c.loc, "internal")
<1>1. /\ c.stage = 1 => d = IF dup.error # "" THEN dup ELSE new
      /\ c.stage = 2 => d = old
      /\ c.stage \notin {1, 2} => d = c
  <2>1. d = CASE c.stage = 1 -> IF dup.error # "" THEN dup ELSE new
              [] c.stage = 2 -> old
              [] OTHER -> c
    BY Zenon DEF asmctx_add_symbol, Then
  <2> HIDE DEF dup, new, old
  <2>2. 1 # 2
    OBVIOUS
  <2>3. c.stage = 1 => d = IF dup.error # "" THEN dup ELSE new
    BY <2>1, <2>2, Zenon
  <2>4. c.stage = 2 => d = old
    BY <2>1, <2>2, Zenon
  <2>5. c.stage \notin {1, 2} => d = c
    BY <2>1, Zenon
  <2>6. QED BY <2>3, <2>4, <2>5
<1>2. PICK e : e = dup
  OBVIOUS
<1>3. Context(e) /\ e.stage = c.stage /\ e.symbols = c.symbols /\ e.loc = c.loc
      /\ (e.error = "" => name \notin DOMAIN c.symbols)
  BY <1>2 DEF Context, Check
<1>4. PICK f : f = new
  OBVIOUS
<1>5. f = [e EXCEPT !.symbols = Over([x \in {name} |-> e.loc], e.symbols)]
  BY <1>2, <1>4, Zenon
<1>6. PICK g : g = old
  OBVIOUS
<1>7. Context(g) /\ g.stage = c.stage /\ g.symbols = c.symbols
      /\ (g.error = "" => name \in DOMAIN c.symbols /\ c.symbols[name] = c.loc)
  BY <1>6 DEF Context, Check
<1> HIDE DEF dup, new, old
<1>8. CASE c.stage = 1
  <2>1. d = IF e.error # "" THEN e ELSE f
    BY <1>1, <1>2, <1>4, <1>8
  <2>2. CASE e.error # ""
    BY <1>3, <2>1, <2>2
  <2>3. CASE e.error = ""
    <3>1. d = f
      BY <2>1, <2>3
    <3>2. Context(f) /\ f.stage = c.stage /\ f.symbols = Over([x \in {name} |-> c.loc], c.symbols)
      BY <1>3, <1>5 DEF Context
    <3>3. Adds(c, name, f.symbols)
      BY <1>3, <1>8, <2>3, <3>2 DEF Adds
    <3>4. QED BY <3>1, <3>2, <3>3
  <2>4. QED BY <2>2, <2>3
<1>9. CASE c.stage = 2
  <2>1. d = g
    BY <1>1, <1>6, <1>9
  <2>2. c.stage # 1
    BY <1>9
  <2>3. g.error = "" => Adds(c, name, g.symbols)
    BY <1>7, <2>2, Zenon DEF Adds
  <2>4. QED BY <1>7, <2>1, <2>3
<1>10. CASE c.stage \notin {1, 2}
  BY <1>1, <1>10 DEF Adds
<1>11. QED BY <1>8, <1>9, <1>10

\* A line that is accepted adds its label, if it has one, and no other symbol.
LEMMA LineSteps ==
  ASSUME NEW c, Context(c), NEW l, IsLine(l), NEW d, d = asmctx_parse_line(c, l)
  PROVE  /\ Context(d) /\ d.stage = c.stage
         /\ d.error = "" => IF HasLabel(l) THEN Adds(c, l.label, d.symbols) ELSE d.symbols = c.symbols
<1>1. CASE l.kind = "op"
  <2>1. d = Instruction(c, l)
    BY <1>1 DEF asmctx_parse_line
  <2>2. QED BY <1>1, <2>1, InstructionKeeps DEF HasLabel, Keeps
<1>2. CASE l.kind = "label"
  <2>1. d = asmctx_add_symbol(c, l.label)
    BY <1>2 DEF asmctx_parse_line
  <2>2. HasLabel(l)
    BY <1>2 DEF HasLabel, IsLine
  <2>3. QED BY <2>1, <2>2, SymbolAdds
<1>3. CASE l.kind = "data"
  <2>1. PICK e : e = IF l.label = "" THEN c ELSE asmctx_add_symbol(c, l.label)
    OBVIOUS
  <2>2. d = IF e.error # "" THEN e ELSE asmctx_parse_data(e, l)
    BY <1>3, <2>1 DEF asmctx_parse_line, Then
  <2>3. /\ Context(e) /\ e.stage = c.stage
        /\ e.error = "" => IF HasLabel(l) THEN Adds(c, l.label, e.symbols) ELSE e.symbols = c.symbols
    <3>1. CASE l.label = ""
      BY <2>1, <3>1 DEF HasLabel
    <3>2. CASE l.label # ""
      <4>1. e = asmctx_add_symbol(c, l.label) /\ HasLabel(l)
        BY <1>3, <2>1, <3>2 DEF HasLabel
      <4>2. QED BY <4>1, SymbolAdds
    <3>3. QED BY <3>1, <3>2
  <2>4. Keeps(e, asmctx_parse_data(e, l))
    BY <1>3, <2>3, DataKeeps
  <2>5. QED BY <2>2, <2>3, <2>4 DEF Keeps
<1>4. QED BY <1>1, <1>2, <1>3 DEF IsLine

----------------------------------------------------------------------------
(* Readings (asmctx_compile) *)

\* The lines of all kinds of files.
Lines == UNION {Alphabets[a].lines : a \in DOMAIN Alphabets}

\* The labels of the first n lines of a file, none of them defined twice, and
\* the symbols being the places w of their lines.
LabelsTo(f, n) == {f[i].label : i \in {k \in 1 .. n : HasLabel(f[k])}}
Once(f, n) ==
  \A i, k \in 1 .. n : HasLabel(f[i]) /\ HasLabel(f[k]) /\ f[i].label = f[k].label => i = k
Placed(f, y, w, n) == \A i \in 1 .. n : HasLabel(f[i]) => y[f[i].label] = w[i]

\* What holds at any time; and, while there is no error, in the first reading, in
\* the second one and from the third one on.
Read ==
  /\ Context(ctx) /\ ctx.stage \in 0 .. 3 /\ (ctx.stage = 3 => ctx.error = "")
  /\ alphabet \in DOMAIN Alphabets /\ file \in Seq(Lines) /\ line \in 0 .. Len(file) /\ \E X : where \in Seq(X)
\* y is a table of these names.
Symbols(y, names) == y = [x \in names |-> y[x]]
First == ctx.stage = 0 => Symbols(ctx.symbols, {}) /\ where = <<>> /\ line = Len(file)
Second == ctx.stage = 1 => Symbols(ctx.symbols, LabelsTo(file, line)) /\ Once(file, line) /\ where = <<>>
Third ==
  ctx.stage \in {2, 3} =>
    LET n == IF ctx.stage = 2 THEN line ELSE Len(file)
    IN  /\ Symbols(ctx.symbols, LabelsTo(file, Len(file))) /\ Once(file, Len(file))
        /\ Len(where) = n /\ Placed(file, ctx.symbols, where, n)

\* The inductive invariant.
IInv == Read /\ (ctx.error = "" => First /\ Second /\ Third)

\* Every line of a file is a line that the parser makes.
LEMMA LineOf ==
  ASSUME NEW f \in Seq(Lines), NEW i \in 1 .. Len(f)
  PROVE  IsLine(f[i])
<1>1. f[i] \in Lines
  OBVIOUS
<1>2. QED BY <1>1, LinesParsed DEF Lines

\* The symbols after one more name.
LEMMA OverOne ==
  ASSUME NEW y, NEW names, Symbols(y, names), NEW name, NEW v, NEW z, z = Over([x \in {name} |-> v], y)
  PROVE  Symbols(z, names \union {name})
<1>1. DOMAIN y = names
  BY DEF Symbols
<1>2. QED BY <1>1 DEF Over, Symbols

\* The labels of one more line.
LEMMA NextLabel ==
  ASSUME NEW f, NEW n \in Nat
  PROVE  LabelsTo(f, n + 1) = LabelsTo(f, n) \union (IF HasLabel(f[n + 1]) THEN {f[n + 1].label} ELSE {})
<1>1. 1 .. n + 1 = 1 .. n \union {n + 1}
  OBVIOUS
<1>2. QED BY <1>1 DEF LabelsTo

\* A label that is not among the earlier ones leaves every label defined once.
LEMMA NextOnce ==
  ASSUME NEW f, NEW n \in Nat, Once(f, n), HasLabel(f[n + 1]) => f[n + 1].label \notin LabelsTo(f, n)
  PROVE  Once(f, n + 1)
<1> SUFFICES ASSUME NEW i \in 1 .. n + 1, NEW k \in 1 .. n + 1, HasLabel(f[i]), HasLabel(f[k]), f[i].label = f[k].label
             PROVE  i = k
  BY DEF Once
<1>1. CASE i \in 1 .. n /\ k \in 1 .. n
  BY <1>1 DEF Once
<1>2. CASE i = n + 1 /\ k \in 1 .. n
  BY <1>2 DEF LabelsTo
<1>3. CASE i \in 1 .. n /\ k = n + 1
  BY <1>3 DEF LabelsTo
<1>4. QED BY <1>1, <1>2, <1>3

\* Before the first reading there are no lines and no symbols.
LEMMA InvInit == Init => IInv
<1> SUFFICES ASSUME Init PROVE IInv
  OBVIOUS
<1>1. ctx = [stage |-> 0, loc |-> 0, symbols |-> <<>>, memory |-> <<>>, error |-> ""]
  BY DEF Init
<1>2. Context(ctx) /\ ctx.stage = 0 /\ ctx.symbols = <<>>
  BY <1>1 DEF Context
<1>3. file = <<>> /\ line = 0 /\ where = <<>> /\ alphabet \in DOMAIN Alphabets
  BY DEF Init
<1>4. Read
  <2>1. file \in Seq(Lines) /\ where \in Seq({}) /\ Len(file) = 0
    BY <1>3, EmptySeq
  <2>2. line \in 0 .. Len(file) /\ ctx.stage \in 0 .. 3 /\ ctx.stage # 3
    BY <1>2, <1>3, <2>1
  <2>3. QED BY <1>2, <1>3, <2>1, <2>2, Zenon DEF Read
<1>5. <<>> = [x \in {} |-> <<>>[x]]
  OBVIOUS
<1>6. First
  BY <1>2, <1>3, <1>5 DEF First, Symbols
<1>7. Second /\ Third
  BY <1>2 DEF Second, Third
<1>8. QED BY <1>4, <1>6, <1>7 DEF IInv

\* The places of the lines, with one more at the end.
LEMMA AppendOf ==
  ASSUME NEW X, NEW w \in Seq(X), NEW v
  PROVE  /\ Append(w, v) \in Seq(X \union {v}) /\ Len(w) \in Nat /\ Len(Append(w, v)) = Len(w) + 1
         /\ Append(w, v)[Len(w) + 1] = v /\ \A i \in 1 .. Len(w) : Append(w, v)[i] = w[i]
<1>1. w \in Seq(X \union {v})
  BY SeqOfMore
<1>2. QED BY <1>1, AppendProperties, LenProperties

\* Except in the second reading, a line that is accepted adds no symbol; in the
\* third one its label has the value of the place where the line goes.
LEMMA AddsNothing ==
  ASSUME NEW c, Context(c), c.stage # 1, NEW l, IsLine(l), NEW d, d = asmctx_parse_line(c, l)
  PROVE  /\ Context(d) /\ d.stage = c.stage
         /\ d.error = "" => /\ d.symbols = c.symbols
                            /\ c.stage = 2 /\ HasLabel(l) => c.symbols[l.label] = c.loc
<1>1. HasLabel(l) /\ Adds(c, l.label, d.symbols) =>
        d.symbols = c.symbols /\ (c.stage = 2 => c.symbols[l.label] = c.loc)
  BY Zenon DEF Adds
<1>2. QED BY <1>1, LineSteps, Zenon

\* The four stages, told apart.
LEMMA StagesApart ==
  ASSUME NEW s
  PROVE  /\ s = 0 => s \in 0 .. 3 /\ s # 1 /\ s # 2 /\ s # 3 /\ s \notin {2, 3}
         /\ s = 1 => s \in 0 .. 3 /\ s # 0 /\ s # 2 /\ s # 3 /\ s \notin {2, 3}
         /\ s = 2 => s \in 0 .. 3 /\ s # 0 /\ s # 1 /\ s # 3 /\ s \in {2, 3}
         /\ s = 3 => s \in 0 .. 3 /\ s # 0 /\ s # 1 /\ s # 2 /\ s \in {2, 3}
OBVIOUS

\* The first reading keeps the invariant: it adds lines and no symbols.
LEMMA ReadNewInv == IInv /\ ReadNew => IInv'
<1> SUFFICES ASSUME IInv, ReadNew PROVE IInv'
  OBVIOUS
<1>1. PICK l \in Alphabets[alphabet].lines : Assembled(l) /\ file' = Append(file, l)
  BY DEF ReadNew
<1>2. ctx.error = "" /\ ctx.stage = 0
  BY Zenon DEF ReadNew, Going
<1>3. ctx.stage # 1 /\ ctx.stage # 2
  BY <1>2, StagesApart, Zenon
<1>4. ctx' = asmctx_parse_line(ctx, l) /\ line' = line + 1 /\ alphabet' = alphabet
  BY <1>1, Zenon DEF Assembled
<1>5. where' = where
  BY <1>1, <1>3, Zenon DEF Assembled
<1>6. Read /\ First
  BY <1>2, Zenon DEF IInv
<1>7. l \in Lines /\ IsLine(l)
  BY <1>6, LinesParsed DEF Lines, Read
<1>8. PICK c : c = ctx
  OBVIOUS
<1>9. PICK d : d = ctx'
  OBVIOUS
<1>10. Context(c) /\ c.stage = 0
  BY <1>2, <1>6, <1>8, Zenon DEF Read
<1>11. d = asmctx_parse_line(c, l)
  BY <1>4, <1>8, <1>9, Zenon
<1>12. Context(d) /\ d.stage = 0 /\ (d.error = "" => d.symbols = c.symbols)
  <2>1. c.stage # 1
    BY <1>10
  <2>2. QED BY <1>7, <1>10, <1>11, <2>1, AddsNothing, Zenon
<1>13. d.stage \in 0 .. 3 /\ d.stage # 1 /\ d.stage \notin {2, 3} /\ d.stage # 3
  BY <1>12, StagesApart, Zenon
<1>14. file' \in Seq(Lines) /\ Len(file') = Len(file) + 1 /\ Len(file) \in Nat
  <2>1. file \in Seq(Lines)
    BY <1>6, Zenon DEF Read
  <2>2. QED BY <1>1, <1>7, <2>1, AppendProperties, LenProperties
<1>15. line' = Len(file')
  <2>1. line = Len(file)
    BY <1>2, <1>6, Zenon DEF First
  <2>2. QED BY <1>4, <1>14, <2>1
<1>16. Read'
  <2>1. line' \in 0 .. Len(file')
    BY <1>14, <1>15
  <2>2. QED BY <1>4, <1>5, <1>6, <1>9, <1>12, <1>13, <1>14, <2>1, Zenon DEF Read
<1>17. ASSUME ctx'.error = "" PROVE First' /\ Second' /\ Third'
  <2>1. ctx'.symbols = ctx.symbols
    BY <1>8, <1>9, <1>12, <1>17, Zenon
  <2>2. First'
    BY <1>2, <1>5, <1>6, <1>15, <2>1, Zenon DEF First, Symbols
  <2>3. Second' /\ Third'
    BY <1>9, <1>13, Zenon DEF Second, Third
  <2>4. QED BY <2>2, <2>3, Zenon
<1>18. QED BY <1>16, <1>17, Zenon DEF IInv

\* So do the others: the second one adds the label of each line, once; the third
\* one finds each line where its label says.
LEMMA ReadAgainInv == IInv /\ ReadAgain => IInv'
<1> SUFFICES ASSUME IInv, ReadAgain PROVE IInv'
  OBVIOUS
<1>1. Assembled(file[line + 1]) /\ file' = file
  BY Zenon DEF ReadAgain
<1>2. PICK l : l = file[line + 1]
  OBVIOUS
<1>3. PICK c : c = ctx
  OBVIOUS
<1>4. PICK d : d = ctx'
  OBVIOUS
<1>5. Read /\ Second /\ Third /\ c.error = ""
  BY <1>3, Zenon DEF IInv, ReadAgain, Going
<1>6. Context(c) /\ file \in Seq(Lines) /\ line \in 0 .. Len(file) /\ c.stage \in 0 .. 3
  BY <1>3, <1>5, Zenon DEF Read
<1>7. c.stage \in {1, 2}
  <2>1. c.stage < 3 /\ c.stage > 0
    BY <1>3, Zenon DEF ReadAgain, Going
  <2>2. QED BY <1>6, <2>1
<1>8. line < Len(file) /\ Len(file) \in Nat /\ line \in Nat
  <2>1. line < Len(file)
    BY Zenon DEF ReadAgain
  <2>2. QED BY <1>6, <2>1, LenProperties
<1>9. line + 1 \in 1 .. Len(file) /\ line + 1 \in 0 .. Len(file)
  BY <1>8
<1>10. IsLine(l)
  BY <1>2, <1>6, <1>9, LineOf, Zenon
<1>11. d = asmctx_parse_line(c, l) /\ line' = line + 1 /\ alphabet' = alphabet
  BY <1>1, <1>2, <1>3, <1>4, Zenon DEF Assembled
<1>12. /\ Context(d) /\ d.stage = c.stage
       /\ d.error = "" => IF HasLabel(l) THEN Adds(c, l.label, d.symbols) ELSE d.symbols = c.symbols
  BY <1>6, <1>10, <1>11, LineSteps, Zenon
<1>13. d.stage \in 0 .. 3 /\ d.stage # 0 /\ d.stage # 3
  <2>1. c.stage = 1 \/ c.stage = 2
    BY <1>7
  <2>2. QED BY <1>12, <2>1, StagesApart, Zenon
<1>14. CASE c.stage = 1
  <2>1. c.stage # 2 /\ d.stage # 2 /\ d.stage \notin {2, 3}
    BY <1>12, <1>14, StagesApart, Zenon
  <2>2. where' = where
    BY <1>1, <1>3, <2>1, Zenon DEF Assembled
  <2>3. Read'
    BY <1>1, <1>4, <1>5, <1>9, <1>11, <1>12, <1>13, <2>2, Zenon DEF Read
  <2>4. Symbols(c.symbols, LabelsTo(file, line)) /\ Once(file, line) /\ where = <<>>
    BY <1>3, <1>5, <1>14, Zenon DEF Second
  <2>5. ASSUME d.error = "" PROVE Symbols(d.symbols, LabelsTo(file, line + 1)) /\ Once(file, line + 1)
    <3>1. CASE HasLabel(l)
      <4>1. l.label \notin DOMAIN c.symbols /\ d.symbols = Over([x \in {l.label} |-> c.loc], c.symbols)
        BY <1>12, <1>14, <2>5, <3>1, Zenon DEF Adds
      <4>2. DOMAIN c.symbols = LabelsTo(file, line)
        BY <2>4 DEF Symbols
      <4>3. Once(file, line + 1)
        BY <1>2, <1>8, <2>4, <4>1, <4>2, NextOnce, Zenon
      <4>4. LabelsTo(file, line + 1) = LabelsTo(file, line) \union {l.label}
        BY <1>2, <1>8, <3>1, NextLabel, Zenon
      <4>5. Symbols(d.symbols, LabelsTo(file, line) \union {l.label})
        BY <2>4, <4>1, OverOne, Zenon
      <4>6. QED BY <4>3, <4>4, <4>5, Zenon
    <3>2. CASE ~HasLabel(l)
      <4>1. LabelsTo(file, line + 1) = LabelsTo(file, line)
        <5>1. LabelsTo(file, line + 1) = LabelsTo(file, line) \union {}
          BY <1>2, <1>8, <3>2, NextLabel, Zenon
        <5>2. QED BY <5>1, Zenon
      <4>2. Once(file, line + 1)
        BY <1>2, <1>8, <2>4, <3>2, NextOnce, Zenon
      <4>3. QED BY <1>12, <2>4, <2>5, <3>2, <4>1, <4>2, Zenon
    <3>3. QED BY <3>1, <3>2
  <2>6. ASSUME ctx'.error = "" PROVE First' /\ Second' /\ Third'
    <3>1. First' /\ Third'
      BY <1>4, <1>13, <2>1, Zenon DEF First, Third
    <3>2. Second'
      <4>1. Symbols(ctx'.symbols, LabelsTo(file', line')) /\ Once(file', line')
        BY <1>1, <1>4, <1>11, <2>5, <2>6, Zenon
      <4>2. QED BY <2>2, <2>4, <4>1, Zenon DEF Second
    <3>3. QED BY <3>1, <3>2
  <2>7. QED BY <2>3, <2>6, Zenon DEF IInv
<1>15. CASE c.stage = 2
  <2>1. c.stage # 1 /\ d.stage # 1 /\ d.stage = 2 /\ c.stage \in {2, 3}
    BY <1>12, <1>15, StagesApart, Zenon
  <2>2. where' = Append(where, c.loc)
    BY <1>1, <1>3, <1>15, Zenon DEF Assembled
  <2>3. PICK X : where \in Seq(X)
    BY <1>5, Zenon DEF Read
  <2>4. /\ where' \in Seq(X \union {c.loc}) /\ Len(where') = Len(where) + 1
        /\ where'[Len(where) + 1] = c.loc /\ \A i \in 1 .. Len(where) : where'[i] = where[i]
    BY <2>2, <2>3, AppendOf
  <2>5. Read'
    <3>1. \E Y : where' \in Seq(Y)
      BY <2>4
    <3>2. QED BY <1>1, <1>4, <1>5, <1>9, <1>11, <1>12, <1>13, <3>1, Zenon DEF Read
  <2>6. /\ Symbols(c.symbols, LabelsTo(file, Len(file))) /\ Once(file, Len(file))
        /\ Len(where) = line /\ Placed(file, c.symbols, where, line)
    BY <1>3, <1>5, <1>15, <2>1, Zenon DEF Third
  <2>7. ASSUME d.error = ""
        PROVE  d.symbols = c.symbols /\ Placed(file, d.symbols, where', line + 1)
    <3>1. d.symbols = c.symbols /\ (HasLabel(l) => c.symbols[l.label] = c.loc)
      BY <1>6, <1>10, <1>11, <1>15, <2>1, <2>7, AddsNothing, Zenon
    <3>2. SUFFICES ASSUME NEW i \in 1 .. line + 1, HasLabel(file[i])
                   PROVE  d.symbols[file[i].label] = where'[i]
      BY <3>1 DEF Placed
    <3>3. CASE i = line + 1
      BY <1>2, <2>4, <2>6, <3>1, <3>2, <3>3, Zenon
    <3>4. CASE i \in 1 .. line
      BY <2>4, <2>6, <3>1, <3>2, <3>4, Zenon DEF Placed
    <3>5. i = line + 1 \/ i \in 1 .. line
      BY <1>8
    <3>6. QED BY <3>3, <3>4, <3>5
  <2>8. ASSUME ctx'.error = "" PROVE First' /\ Second' /\ Third'
    <3>1. First' /\ Second'
      BY <1>4, <1>13, <2>1, Zenon DEF First, Second
    <3>2. ctx'.symbols = c.symbols /\ Placed(file', ctx'.symbols, where', line')
      BY <1>1, <1>4, <1>11, <2>7, <2>8, Zenon
    <3>3. Len(where') = line'
      BY <1>11, <2>4, <2>6, Zenon
    <3>4. Third'
      <4>1. ctx'.stage = 2
        BY <1>4, <2>1
      <4>2. QED BY <1>1, <2>6, <3>2, <3>3, <4>1, Zenon DEF Third
    <3>5. QED BY <3>1, <3>4
  <2>9. QED BY <2>5, <2>8, Zenon DEF IInv
<1>16. QED BY <1>7, <1>14, <1>15

\* The end of a reading keeps it: what the second reading says of all lines is
\* what the third one starts from.
LEMMA EndOfFileInv == IInv /\ EndOfFile => IInv'
<1> SUFFICES ASSUME IInv, EndOfFile PROVE IInv'
  OBVIOUS
<1>1. PICK c : c = ctx
  OBVIOUS
<1>2. PICK d : d = ctx'
  OBVIOUS
<1>3. Read /\ First /\ Second /\ Third /\ c.error = ""
  BY <1>1, Zenon DEF IInv, EndOfFile, Going
<1>4. Context(c) /\ file \in Seq(Lines) /\ line \in 0 .. Len(file) /\ c.stage \in 0 .. 3
  BY <1>1, <1>3, Zenon DEF Read
<1>5. c.stage \in {0, 1, 2}
  <2>1. c.stage < 3
    BY <1>1, Zenon DEF EndOfFile, Going
  <2>2. QED BY <1>4, <2>1
<1>6. line' = 0 /\ alphabet' = alphabet /\ file' = file /\ where' = where /\ line = Len(file)
  BY Zenon DEF EndOfFile
<1>7. Len(file) \in Nat /\ 0 \in 0 .. Len(file)
  <2>1. Len(file) \in Nat
    BY <1>4, LenProperties
  <2>2. QED BY <2>1
<1>8. ASSUME Context(d), d.stage \in 0 .. 3, d.stage = 3 => d.error = "" PROVE Read'
  BY <1>2, <1>3, <1>6, <1>7, <1>8, Zenon DEF Read
<1>9. CASE c.stage = 0
  <2>1. \E s \in Starts : d = [c EXCEPT !.stage = 1, !.loc = s]
    <3>1. ~(c.stage > 0)
      BY <1>9
    <3>2. QED BY <1>1, <1>2, <3>1, Zenon DEF EndOfFile
  <2>2. Context(d) /\ d.stage = 1 /\ d.symbols = c.symbols
    BY <1>4, <2>1 DEF Context
  <2>3. d.stage \in 0 .. 3 /\ d.stage # 0 /\ d.stage # 3 /\ d.stage \notin {2, 3}
    BY <2>2, StagesApart, Zenon
  <2>4. LabelsTo(file, 0) = {} /\ Once(file, 0)
    <3>1. 1 .. 0 = {}
      OBVIOUS
    <3>2. QED BY <3>1, Zenon DEF LabelsTo, Once
  <2>5. Second'
    <3>1. Symbols(c.symbols, {}) /\ where = <<>>
      BY <1>1, <1>3, <1>9, Zenon DEF First
    <3>2. QED BY <1>2, <1>6, <2>2, <2>4, <3>1, Zenon DEF Second
  <2>6. First' /\ Third'
    BY <1>2, <2>3, Zenon DEF First, Third
  <2>7. QED BY <1>8, <2>2, <2>3, <2>5, <2>6, Zenon DEF IInv
<1>10. CASE c.stage # 0
  <2> DEFINE e == Check(c, c.loc - start = size, "size")
             f == [e EXCEPT !.stage = @ + 1, !.loc = start]
  <2>1. d = IF e.error # "" THEN e ELSE f
    BY <1>1, <1>2, <1>10, Zenon DEF EndOfFile, Then
  <2>2. PICK g : g = e
    OBVIOUS
  <2>3. Context(g) /\ g.stage = c.stage /\ g.symbols = c.symbols
    BY <1>4, <2>2 DEF Context, Check
  <2>4. PICK h : h = f
    OBVIOUS
  <2>5. h = [g EXCEPT !.stage = @ + 1, !.loc = start]
    BY <2>2, <2>4, Zenon
  <2>6. Context(h) /\ h.stage = c.stage + 1 /\ h.symbols = c.symbols /\ h.error = g.error
    BY <2>3, <2>5 DEF Context
  <2>7. d = IF g.error # "" THEN g ELSE h
    BY <2>1, <2>2, <2>4, Zenon
  <2> HIDE DEF e, f
  <2>8. CASE g.error # ""
    <3>1. d = g /\ d.error # ""
      BY <2>7, <2>8, Zenon
    <3>2. Context(d) /\ d.stage \in 0 .. 3 /\ d.stage # 3
      <4>1. c.stage # 3
        BY <1>5
      <4>2. QED BY <1>4, <2>3, <3>1, <4>1, Zenon
    <3>3. QED BY <1>2, <1>8, <3>1, <3>2, Zenon DEF IInv
  <2>9. CASE g.error = ""
    <3>1. d = h
      BY <2>7, <2>9, Zenon
    <3>2. CASE c.stage = 1
      <4>1. d.stage = 2 /\ Context(d) /\ d.symbols = c.symbols
        BY <2>6, <3>1, <3>2
      <4>2. d.stage \in 0 .. 3 /\ d.stage # 0 /\ d.stage # 1 /\ d.stage # 3
        BY <4>1, StagesApart, Zenon
      <4>3. Symbols(c.symbols, LabelsTo(file, Len(file))) /\ Once(file, Len(file)) /\ where = <<>>
        BY <1>1, <1>3, <1>6, <3>2, Zenon DEF Second
      <4>4. Len(where) = 0
        BY <4>3
      <4>5. Placed(file, c.symbols, where, 0)
        <5>1. 1 .. 0 = {}
          OBVIOUS
        <5>2. QED BY <5>1, Zenon DEF Placed
      <4>6. Third'
        <5>1. ctx'.stage = 2 /\ ctx'.symbols = c.symbols
          BY <1>2, <4>1, Zenon
        <5>2. Len(where') = line' /\ Placed(file', ctx'.symbols, where', line')
          BY <1>6, <4>4, <4>5, <5>1, Zenon
        <5>3. QED BY <1>6, <4>3, <5>1, <5>2, Zenon DEF Third
      <4>7. First' /\ Second'
        BY <1>2, <4>2, Zenon DEF First, Second
      <4>8. QED BY <1>8, <4>1, <4>2, <4>6, <4>7, Zenon DEF IInv
    <3>3. CASE c.stage = 2
      <4>1. d.stage = 3 /\ Context(d) /\ d.symbols = c.symbols /\ d.error = ""
        <5>1. c.stage + 1 = 3
          BY <3>3
        <5>2. QED BY <2>6, <2>9, <3>1, <5>1, Zenon
      <4>2. d.stage \in 0 .. 3 /\ d.stage # 0 /\ d.stage # 1 /\ d.stage # 2
        BY <4>1, StagesApart, Zenon
      <4>3. c.stage \in {2, 3}
        BY <3>3
      <4>4. /\ Symbols(c.symbols, LabelsTo(file, Len(file))) /\ Once(file, Len(file))
            /\ Len(where) = Len(file) /\ Placed(file, c.symbols, where, Len(file))
        BY <1>1, <1>3, <1>6, <3>3, <4>3, Zenon DEF Third
      <4>5. Third'
        BY <1>2, <1>6, <4>1, <4>2, <4>4, Zenon DEF Third
      <4>6. First' /\ Second'
        BY <1>2, <4>2, Zenon DEF First, Second
      <4>7. QED BY <1>8, <4>1, <4>2, <4>5, <4>6, Zenon DEF IInv
    <3>4. QED BY <1>5, <1>10, <3>2, <3>3
  <2>10. QED BY <2>8, <2>9
<1>11. QED BY <1>9, <1>10

\* At the end the symbols are the labels of the file, each with the place of the
\* one line that defines it.
LEMMA SymbolsFromInv == IInv => SymbolsPlaced
<1> SUFFICES ASSUME IInv, Done PROVE ctx.symbols = [name \in Labels |-> LabelAt(name)]
  BY DEF SymbolsPlaced
<1>1. ctx.stage = 3
  BY DEF Done
<1>2. Read /\ Third
  <2>1. Read
    BY Zenon DEF IInv
  <2>2. ctx.error = ""
    BY <1>1, <2>1, Zenon DEF Read
  <2>3. QED BY <2>1, <2>2, Zenon DEF IInv
<1>3. /\ Symbols(ctx.symbols, LabelsTo(file, Len(file))) /\ Once(file, Len(file))
      /\ Placed(file, ctx.symbols, where, Len(file))
  BY <1>1, <1>2, StagesApart, Zenon DEF Third
<1>4. DOMAIN file = 1 .. Len(file)
  <2>1. file \in Seq(Lines)
    BY <1>2, Zenon DEF Read
  <2>2. QED BY <2>1
<1>5. \A i : Labelled(i) <=> HasLabel(file[i])
  BY Zenon DEF Labelled, HasLabel
<1>6. Labels = LabelsTo(file, Len(file))
  <2>1. {k \in DOMAIN file : Labelled(k)} = {k \in 1 .. Len(file) : HasLabel(file[k])}
    BY <1>4, <1>5, Zenon
  <2>2. QED BY <2>1, Zenon DEF Labels, LabelsTo
<1>7. ASSUME NEW name \in Labels PROVE ctx.symbols[name] = LabelAt(name)
  <2>1. PICK i \in 1 .. Len(file) : HasLabel(file[i]) /\ file[i].label = name
    BY <1>6, <1>7, Zenon DEF LabelsTo
  <2>2. (CHOOSE k \in DOMAIN file : Labelled(k) /\ file[k].label = name) = i
    <3>1. \A k \in DOMAIN file : Labelled(k) /\ file[k].label = name => k = i
      BY <1>3, <1>4, <1>5, <2>1, Zenon DEF Once
    <3>2. i \in DOMAIN file /\ Labelled(i) /\ file[i].label = name
      BY <1>4, <1>5, <2>1, Zenon
    <3>3. QED BY <3>1, <3>2, Zenon
  <2>3. LabelAt(name) = where[i]
    BY <2>2, Zenon DEF LabelAt
  <2>4. QED BY <1>3, <2>1, <2>3, Zenon DEF Placed
<1>8. ctx.symbols = [name \in Labels |-> ctx.symbols[name]]
  BY <1>3, <1>6, Zenon DEF Symbols
<1>9. QED BY <1>7, <1>8

\* The symbols that asmctx_compile hands to the program are the labels of the
\* file, each where the third reading put its line, for every kind of file, of
\* any length, wherever platform_allocate puts the code.
THEOREM SymbolsArePlaced == Spec => []SymbolsPlaced
<1>1. IInv /\ [Next]_vars => IInv'
  <2> SUFFICES ASSUME IInv, [Next]_vars PROVE IInv'
    OBVIOUS
  <2>1. CASE UNCHANGED vars
    <3>1. /\ ctx' = ctx /\ alphabet' = alphabet /\ file' = file /\ line' = line /\ where' = where
      BY <2>1 DEF vars
    <3>2. QED BY <3>1, Zenon DEF IInv, Read, First, Second, Third
  <2>2. CASE Next
    BY <2>2, ReadNewInv, ReadAgainInv, EndOfFileInv, Zenon DEF Next
  <2>3. QED BY <2>1, <2>2
<1>2. QED BY <1>1, InvInit, SymbolsFromInv, PTL DEF Spec
=============================================================================
