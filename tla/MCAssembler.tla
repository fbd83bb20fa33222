---------------------------- MODULE MCAssembler ----------------------------
(* Files for the two assemblers, the one of asmg and the one in C: one line *)
(* with every mnemonic, one line with every kind of operand, and a few      *)
(* lines with labels, jumps and data.  A behaviour is that of one of them,  *)
(* by the alphabet of its file.                                             *)
EXTENDS Assembler

CONSTANT StagingAlphabets    \* the kinds of files of the assembler in C

Stg == INSTANCE Staging WITH Alphabets <- StagingAlphabets, StartLoc <- 8, SYMBOL_TABLE_LEN <- 3
InC == alphabet \in DOMAIN StagingAlphabets

BothInit == Init \/ (Stg!Init /\ start = 8 /\ size = 0 /\ junk = 0)
BothNext == (~InC /\ Next) \/ (InC /\ Stg!Next /\ UNCHANGED <<start, size, junk>>)
BothSpec == BothInit /\ [][BothNext]_vars

\* A file that the first reading has accepted is refused later only for what
\* that reading cannot know (StagesAgree of Assembler and of Staging).
BothStagesAgree == IF InC THEN Stg!StagesAgree ELSE StagesAgree

\* The processor finds what the lines of the file say (AssembledAsWritten of
\* Assembler and of Staging).
BothAsWritten == IF InC THEN Stg!AssembledAsWritten ELSE AssembledAsWritten

\* The assembler of asmg writes into the block that it allocated (StaysInside
\* of Assembler; the one in C writes to a file).
InsideBlock == InC \/ StaysInside

Num(n) == [sym |-> "", num |-> n]
Sym(name) == [sym |-> name, num |-> 0]

RegOp(r) == [kind |-> "reg", reg |-> r]
Scaled(r, scale) == [reg |-> r, scale |-> scale, sign |-> 1, value |-> Num(0)]
Plus(sign, v) == [reg |-> "", scale |-> 0, sign |-> sign, value |-> v]
MemOp(sz, terms) == [kind |-> "ind", size |-> sz, terms |-> terms]
Expr(v, with, second, sign) == [value |-> v, with |-> with, second |-> second, sign |-> sign]
ImmOp(v) == [kind |-> "imm", terms |-> <<Expr(v, "", Num(0), "+")>>]
Exprs(terms) == [kind |-> "imm", terms |-> terms]

Op(name, texts) == [kind |-> "op", rep |-> FALSE, name |-> name, groups |-> <<texts>>]
Label(name) == [kind |-> "label", label |-> name]
Data(type, sz, values) == [kind |-> "data", label |-> "", type |-> type, size |-> sz, values |-> values]

\* The operands of the mnemonics, and lists of up to three of them.
Few == {RegOp("al"), RegOp("cl"), RegOp("ax"), RegOp("eax"), MemOp(0, <<Scaled("ebx", 0)>>), MemOp(1, <<Scaled("ebx", 0)>>), ImmOp(Num(5))}
Lists == {<<>>} \union {<<t>> : t \in Few} \union {<<t, u>> : t, u \in Few}
Threes == {<<t, RegOp("edx"), u>> : t \in {RegOp("eax"), MemOp(0, <<Scaled("ebx", 0)>>)}, u \in {RegOp("cl"), ImmOp(Num(5)), ImmOp(Num(300))}}
Mnemonics ==
  {Op(name, texts) : name \in DOMAIN build_opcode_map, texts \in Lists}
  \union {Op(name, texts) : name \in {"imul", "shld", "shrd"}, texts \in Threes}

\* Registers, addresses and values.
Addresses ==
  {<<Plus(1, Num(5))>>, <<Scaled("eax", 0)>>, <<Scaled("esp", 0), Plus(1, Num(8))>>, <<Scaled("ebp", 0), Plus(-1, Num(4))>>,
   <<Scaled("eax", 0), Scaled("ecx", 4)>>, <<Scaled("ecx", 2), Plus(1, Num(8))>>, <<Scaled("esp", 0), Scaled("eax", 0)>>,
   <<Scaled("eax", 0), Scaled("esp", 0)>>, <<Scaled("ebp", 8), Scaled("ebp", 0)>>, <<Scaled("eax", 0), Scaled("ecx", 0), Scaled("edx", 0)>>,
   <<Scaled("eax", 0), Scaled("ecx", 0), Scaled("edx", 2)>>, <<Scaled("al", 0)>>, <<Scaled("eax", 3)>>, <<Plus(1, Sym("L")), Scaled("edi", 0)>>}
Operands ==
  {RegOp(r) : r \in {"al", "ah", "cl", "ax", "bp", "ds", "eax", "esp", "ebp", "edi"}}
  \union {MemOp(sz, a) : sz \in 0 .. 3, a \in Addresses} \union {ImmOp(Num(5)), ImmOp(Num(-1)), ImmOp(Num(300)), ImmOp(Sym("L"))}
Encodings ==
  {Op(name, <<t, u>>) : name \in {"add", "xchg", "lea", "movzx", "sal", "bt", "bsf"},
                        t \in Operands, u \in {RegOp("al"), RegOp("cx"), RegOp("edx"), ImmOp(Num(5)), MemOp(0, <<Scaled("ebx", 0)>>)}}
  \union {Op(name, <<u, t>>) : name \in {"adc", "test", "lea", "movsx", "shr", "imul", "bsr"},
                               t \in Operands, u \in {RegOp("al"), RegOp("cx"), RegOp("edx"), MemOp(0, <<Scaled("ebx", 0)>>)}}

\* Labels, jumps, data and the space between them.
Expressions ==
  {Exprs(<<Expr(Num(7), "", Num(0), "+"), Expr(Sym("L"), "", Num(0), "-")>>), Exprs(<<Expr(Num(1), "shl", Num(4), "not")>>),
   Exprs(<<Expr(Num(6), "or", Num(3), "+")>>), Exprs(<<Expr(Num(3), "*", Num(5), "+"), Expr(Num(1), "", Num(0), "+")>>),
   Exprs(<<Expr(Num(16), "shr", Num(2), "+")>>)}
Programs ==
  {Label("L"), Label("K"), Op("jmp", <<ImmOp(Sym("L"))>>), Op("je", <<ImmOp(Sym("K"))>>), Op("loop", <<ImmOp(Sym("L"))>>),
   Op("call", <<RegOp("eax")>>), Op("cdq", <<>>),
   [Op("push", <<RegOp("eax")>>) EXCEPT !.groups = <<<<RegOp("eax")>>, <<ImmOp(Sym("L"))>>>>],
   [Op("inc", <<RegOp("eax")>>) EXCEPT !.groups = <<<<RegOp("eax")>>, <<RegOp("ebx")>>>>],
   [Op("stosb", <<>>) EXCEPT !.rep = TRUE],
   [Data("d", 3, <<ImmOp(Sym("K")), ImmOp(Num(1))>>) EXCEPT !.label = "K"],
   Data("d", 4, <<ImmOp(Sym("L"))>>), Data("d", 2, <<ImmOp(Num(-1))>>), Data("d", 1, <<RegOp("al")>>),
   Data("r", 1, <<ImmOp(Num(-1))>>), Data("r", 2, <<ImmOp(Num(1))>>), Data("r", 1, <<ImmOp(Sym("L"))>>),
   Data("align", 1, <<ImmOp(Num(8))>>), Data("align", 1, <<ImmOp(Sym("K"))>>)}
  \union {Data("d", 1, <<x>>) : x \in Expressions}
Spaces ==
  {Label("L"), Op("loop", <<ImmOp(Sym("L"))>>), Data("r", 1, <<ImmOp(Num(125))>>), Data("r", 1, <<ImmOp(Num(126))>>),
   Data("r", 1, <<ImmOp(Num(1))>>), Data("align", 1, <<ImmOp(Num(4))>>)}

MCAlphabets ==
  [mnemonics |-> [lines |-> Mnemonics, max |-> 1], encodings |-> [lines |-> Encodings, max |-> 1],
   programs |-> [lines |-> Programs, max |-> 3], spaces |-> [lines |-> Spaces, max |-> 4]]
CdqAlphabet == [cdq |-> [lines |-> {Op("cdq", <<>>)}, max |-> 1]]

-----------------------------------------------------------------------------
(* Files for the assembler in C *)

At(sz, r, v) == [kind |-> "mem", size |-> sz, reg |-> r, disp |-> v]
Val(v) == [kind |-> "val", value |-> v]

Text(op, args) == [kind |-> "text", op |-> op, args |-> args]
LabelLine(name) == [kind |-> "label", name |-> name]
Equ(name, v) == [kind |-> "equ", name |-> name, value |-> v]
Extern(name) == [kind |-> "directive", op |-> "extern", name |-> name]
AlignTo(v) == [kind |-> "directive", op |-> "align", name |-> "", value |-> v]
Section == [kind |-> "directive", op |-> "section", name |-> ""]
Reserve(width, v) == [kind |-> "bss", width |-> width, value |-> v]
Datum(width, v) == [kind |-> "data", width |-> width, value |-> v, text |-> <<>>]
Chars(text) == [kind |-> "data", width |-> 1, value |-> Num(0), text |-> text]

Wide == {"eax", "ecx", "edx", "ebx", "esp", "ebp", "esi", "edi"}
Narrow == {"al", "cl", "dl", "bl", "ah", "ch", "dh", "bh"}
PushOps == {"push", "pop"}
AddOps == {"add", "sub", "mov", "cmp", "and", "or"}
JmpOps ==
  {"jmp", "call", "je", "jne", "ja", "jna", "jae", "jnae", "jb", "jnb", "jbe", "jnbe", "jg", "jng", "jge", "jnge",
   "jl", "jnl", "jle", "jnle", "mul", "imul"}

StagingOperands ==
  {RegOp(r) : r \in Wide \union Narrow \union {"dx"}}
  \union {At(z, r, v) : z \in {0, 1, 3}, r \in {"eax", "esp", "ebp", "al"}, v \in {Num(0), Num(300)}}
  \union {Val(Num(5)), Val(Num(300)), Val(Sym("no"))}

OneOperand ==
  {Text(op, <<a>>) : op \in PushOps \union {"jmp", "call", "je", "jnle", "mul", "imul", "int"}, a \in StagingOperands}
  \union {Text(op, <<Val(Num(40))>>) : op \in JmpOps}
  \union {Text("ret", <<>>), Text("add", <<RegOp("eax")>>)}
TwoOperands ==
  {Text(op, <<a, b>>) : op \in {"add", "mov"}, a \in StagingOperands, b \in StagingOperands}
  \union {Text(op, <<RegOp("ecx"), b>>) : op \in AddOps, b \in StagingOperands}
  \union {Text(op, <<At(1, "esp", Num(4)), b>>) : op \in AddOps, b \in StagingOperands}
  \union {Text("in", <<RegOp(r), RegOp(p)>>) : r \in {"al", "ax", "eax", "cl"}, p \in {"dx", "al"}}
  \union {Text("out", <<RegOp(p), RegOp(r)>>) : r \in {"al", "ax", "eax", "cl"}, p \in {"dx", "al"}}

StagingProgram ==
  {LabelLine("a"), LabelLine("b"), Text("jmp", <<Val(Sym("a"))>>), Text("mov", <<RegOp("edx"), At(0, "esp", Sym("b"))>>),
   Equ("b", Num(3)), Equ("k", Sym("a")), Extern("b"), AlignTo(Num(4)), AlignTo(Sym("b")), AlignTo(Num(0)), Section,
   Reserve(4, Sym("b")), Reserve(1, Num(3)), Datum(1, Num(300)), Datum(4, Sym("a")), Chars(<<65, 66>>), Text("push", <<Val(Sym("k"))>>)}

MCStagingAlphabets ==
  [single |-> [lines |-> OneOperand, max |-> 1], double |-> [lines |-> TwoOperands, max |-> 1],
   program |-> [lines |-> StagingProgram, max |-> 4]]
=============================================================================

