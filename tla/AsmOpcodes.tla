----------------------------- MODULE AsmOpcodes -----------------------------
(* The table of instructions of the assembler (build_opcode_map in          *)
(* asm_opcodes.g) and the registers (asm_regs.g).  A row holds the fields   *)
(* that the code sets; the others are whatever malloc returned.  A word of  *)
(* the table packs, from the lowest byte: how many bytes the opcode has,    *)
(* the bytes, and the middle digit of ModRM.                                *)
EXTENDS Integers

Unset == -1

\* The fields of both records, or the entries of both tables: those of the
\* first one hide those of the second.
Over(f, g) == [x \in DOMAIN f \union DOMAIN g |-> IF x \in DOMAIN f THEN f[x] ELSE g[x]]

parse_register ==
  [al |-> \h10, cl |-> \h11, dl |-> \h12, bl |-> \h13, ah |-> \h14, ch |-> \h15, dh |-> \h16, bh |-> \h17,
   ax |-> \h20, cx |-> \h21, dx |-> \h22, bx |-> \h23, sp |-> \h24, bp |-> \h25, si |-> \h26, di |-> \h27,
   eax |-> \h30, ecx |-> \h31, edx |-> \h32, ebx |-> \h33, esp |-> \h34, ebp |-> \h35, esi |-> \h36,
   edi |-> \h37, cs |-> \h28, ss |-> \h29, ds |-> \h2a, es |-> \h2b, fs |-> \h2c, gs |-> \h2d]

\* The rows of each handler.  repeats is the upper byte of ARG_NUM.
Row(handler, args) == [handler |-> handler, ARG_NUM |-> args, repeats |-> FALSE]

Two(imm, default, rm8imm8, rm32imm32, rm8r8, rm32r32, r8rm8, r32rm32) ==
  Over(Row("add", 2),
       [ALLOW_IMM |-> imm, DEFAULT_32 |-> default, RM8IMM8 |-> rm8imm8, RM32IMM32 |-> rm32imm32,
        RM8R8 |-> rm8r8, RM32R32 |-> rm32r32, R8RM8 |-> r8rm8, R32RM32 |-> r32rm32])

JmpLike(imm, rm, relative, force8, force32) ==
  Over(Row("jmp", 1),
       [ALLOW_IMM |-> imm, ALLOW_RM |-> rm, RELATIVE |-> relative, FORCE_8 |-> force8, FORCE_32 |-> force32])
Near(rm32, imm32) == Over(JmpLike(TRUE, TRUE, TRUE, FALSE, TRUE), [RM32 |-> rm32, IMM32 |-> imm32])
Short(imm8) == Over(JmpLike(TRUE, FALSE, TRUE, TRUE, FALSE), [IMM8 |-> imm8])
Jump(imm32) == Over(JmpLike(TRUE, FALSE, TRUE, FALSE, TRUE), [IMM32 |-> imm32])
Flag(rm8) == Over(JmpLike(FALSE, TRUE, FALSE, TRUE, FALSE), [RM8 |-> rm8])
One(rm8, rm32) == Over(JmpLike(FALSE, TRUE, FALSE, FALSE, FALSE), [RM8 |-> rm8, RM32 |-> rm32])

Shifted(rm8imm8, rm32imm8, rm8cl, rm32cl) ==
  Over(Row("sal", 2),
       [FORCE_32 |-> FALSE, ALLOW_CL |-> TRUE, RM8IMM8 |-> rm8imm8, RM32IMM8 |-> rm32imm8,
        RM8CL |-> rm8cl, RM32CL |-> rm32cl])
Bit(rm32imm8) == Over(Row("sal", 2), [FORCE_32 |-> FALSE, ALLOW_CL |-> FALSE, RM32IMM8 |-> rm32imm8])
None(code) == Over(Row("ret", 0), [NO_OPERAND |-> code])
Extended(rm8, rm16) == Over(Row("movzx", 2), [R32RM8 |-> rm8, R32RM16 |-> rm16])
Str(args, m8, m16, m32) == Over(Row("stos", args), [FORCE_8 |-> FALSE, M8 |-> m8, M16 |-> m16, M32 |-> m32])
Double(imm8, cl) == Over(Row("shld", 3), [RM32R32IMM8 |-> imm8, RM32R32CL |-> cl])
Scan(code) == Over(Row("bsf", 2), [R32RM32 |-> code])

AddLike ==
  [add |-> Two(TRUE, TRUE, \h8001, \h8101, \h1, \h101, \h201, \h301),
   sub |-> Two(TRUE, TRUE, \h5008001, \h5008101, \h2801, \h2901, \h2a01, \h2b01),
   adc |-> Two(TRUE, FALSE, \h2008001, \h2008101, \h1001, \h1101, \h1201, \h1301),
   sbb |-> Two(TRUE, FALSE, \h3008001, \h3008101, \h1801, \h1901, \h1a01, \h1b01),
   mov |-> Two(TRUE, TRUE, \hc601, \hc701, \h8801, \h8901, \h8a01, \h8b01),
   cmp |-> Two(TRUE, TRUE, \h7008001, \h7008101, \h3801, \h3901, \h3a01, \h3b01),
   and |-> Two(TRUE, TRUE, \h4008001, \h4008101, \h2001, \h2101, \h2201, \h2301),
   or |-> Two(TRUE, TRUE, \h1008001, \h1008101, \h801, \h901, \ha01, \hb01),
   xor |-> Two(TRUE, TRUE, \h6008001, \h6008101, \h3001, \h3101, \h3201, \h3301),
   test |-> Two(TRUE, TRUE, \hf601, \hf701, \h8401, \h8501, \h8401, \h8501),
   xchg |-> Two(FALSE, FALSE, Unset, Unset, \h8601, \h8701, \h8601, \h8701)]

LeaLike == [lea |-> Over(Row("lea", 2), [RM32M |-> \h8d01])]

Jumps ==
  [jmp |-> Near(\h400ff01, \he901),
   call |-> Near(\h200ff01, \he801)]

Loops ==
  [jcxz |-> Short(\he36702), jecxz |-> Short(\he301),
   loop |-> Short(\he201), loope |-> Short(\he101),
   loopne |-> Short(\he001), loopnz |-> Short(\he001),
   loopnzd |-> Short(\he001)]

Jcc ==
  [ja |-> Jump(\h870f02), jae |-> Jump(\h830f02), jb |-> Jump(\h820f02),
   jbe |-> Jump(\h860f02), jc |-> Jump(\h820f02), je |-> Jump(\h840f02),
   jz |-> Jump(\h840f02), jg |-> Jump(\h8f0f02), jge |-> Jump(\h8d0f02),
   jl |-> Jump(\h8c0f02), jle |-> Jump(\h8e0f02), jna |-> Jump(\h860f02),
   jnae |-> Jump(\h820f02), jnb |-> Jump(\h830f02), jnbe |-> Jump(\h870f02),
   jnc |-> Jump(\h830f02), jne |-> Jump(\h850f02), jng |-> Jump(\h8e0f02),
   jnge |-> Jump(\h8c0f02), jnl |-> Jump(\h8d0f02), jnle |-> Jump(\h8f0f02),
   jno |-> Jump(\h810f02), jnp |-> Jump(\h8b0f02), jns |-> Jump(\h890f02),
   jnz |-> Jump(\h850f02), jo |-> Jump(\h800f02), jp |-> Jump(\h8a0f02),
   jpe |-> Jump(\h8a0f02), jpo |-> Jump(\h8b0f02), js |-> Jump(\h880f02)]

Setcc ==
  [seta |-> Flag(\h970f02), setae |-> Flag(\h930f02), setb |-> Flag(\h920f02),
   setbe |-> Flag(\h960f02), setc |-> Flag(\h920f02), sete |-> Flag(\h940f02),
   setg |-> Flag(\h9f0f02), setge |-> Flag(\h9d0f02), setl |-> Flag(\h9c0f02),
   setle |-> Flag(\h9e0f02), setna |-> Flag(\h960f02), setnae |-> Flag(\h920f02),
   setnc |-> Flag(\h930f02), setne |-> Flag(\h950f02), setng |-> Flag(\h9e0f02),
   setnge |-> Flag(\h9c0f02), setnl |-> Flag(\h9d0f02), setnle |-> Flag(\h9f0f02),
   setno |-> Flag(\h910f02), setnp |-> Flag(\h9b0f02), setns |-> Flag(\h990f02),
   setnz |-> Flag(\h950f02), seto |-> Flag(\h900f02), setp |-> Flag(\h9a0f02),
   setpe |-> Flag(\h9a0f02), setpo |-> Flag(\h9b0f02), sets |-> Flag(\h980f02),
   setz |-> Flag(\h940f02)]

Unary ==
  [mul |-> One(\h400f601, \h400f701), div |-> One(\h600f601, \h600f701),
   idiv |-> One(\h700f601, \h700f701), not |-> One(\h200f601, \h200f701),
   neg |-> One(\h300f601, \h300f701), inc |-> One(\hfe01, \hff01),
   dec |-> One(\h100fe01, \h100ff01)]

Stack ==
  [push |-> Over([repeats |-> TRUE, RM32 |-> \h600ff01, IMM32 |-> \h6801],
                 JmpLike(TRUE, TRUE, FALSE, FALSE, TRUE)),
   pop |-> Over([repeats |-> TRUE, RM32 |-> \h8f01], JmpLike(FALSE, TRUE, FALSE, FALSE, TRUE)),
   int |-> Over(JmpLike(TRUE, FALSE, FALSE, TRUE, FALSE), [IMM8 |-> \hcd01])]

\* Any number of operands (ARG_NUM is 0xff).
ImulLike ==
  [imul |-> Over(Row("imul", \hff), [RM8 |-> \h500f601, RM32 |-> \h500f701, R32RM32 |-> \haf0f02,
                                       R32RM32IMM32 |-> \h6901])]

Shifts ==
  [sal |-> Shifted(\h400c001, \h400c101, \h400d201, \h400d301),
   shl |-> Shifted(\h400c001, \h400c101, \h400d201, \h400d301),
   sar |-> Shifted(\h700c001, \h700c101, \h700d201, \h700d301),
   shr |-> Shifted(\h500c001, \h500c101, \h500d201, \h500d301),
   rcl |-> Shifted(\h200c001, \h200c101, \h200d201, \h200d301),
   rcr |-> Shifted(\h300c001, \h300c101, \h300d201, \h300d301),
   rol |-> Shifted(\hc001, \hc101, \hd201, \hd301),
   ror |-> Shifted(\h100c001, \h100c101, \h100d201, \h100d301)]

Bits ==
  [bt |-> Bit(\h4ba0f02), btc |-> Bit(\h7ba0f02),
   btr |-> Bit(\h6ba0f02), bts |-> Bit(\h5ba0f02)]

MovzxLike == [movzx |-> Extended(\hb60f02, \hb70f02), movsx |-> Extended(\hbe0f02, \hbf0f02)]

Plain ==
  [ret |-> None(\hc301), retn |-> None(\hc301), rdpmc |-> None(\h330f02),
   rdmsr |-> None(\h320f02), wrmsr |-> None(\h300f02), clc |-> None(\hf801),
   cld |-> None(\hfc01), cli |-> None(\hfa01), cmc |-> None(\hf501),
   stc |-> None(\hf901), std |-> None(\hfd01), sti |-> None(\hfb01),
   cdq |-> None(\h9801), xlatb |-> None(\hd701), lodsb |-> None(\hac01),
   lodsw |-> None(\had6602), lodsd |-> None(\had01), stosb |-> None(\haa01),
   stosw |-> None(\hab6602), stosd |-> None(\hab01), scasb |-> None(\hae01),
   scasw |-> None(\haf6602), scasd |-> None(\haf01), movsb |-> None(\ha401),
   movsw |-> None(\ha56602), movsd |-> None(\ha401), cmpsb |-> None(\ha601),
   cmpsw |-> None(\ha76602), cmpsd |-> None(\ha701), cbw |-> None(\h986602),
   cwde |-> None(\h9801), salc |-> None(\hd601)]

StosLike ==
  [xlat |-> Over(Row("stos", 1), [FORCE_8 |-> TRUE, M8 |-> \hd701]),
   lods |-> Str(1, \hac01, \had6602, \had01), stos |-> Str(1, \haa01, \hab6602, \hab01),
   scas |-> Str(1, \hae01, \haf6602, \haf01), movs |-> Str(2, \ha401, \ha56602, \ha501),
   cmps |-> Str(2, \ha601, \ha76602, \ha701)]

ShldLike == [shld |-> Double(\ha40f02, \ha50f02), shrd |-> Double(\hac0f02, \had0f02)]
BsfLike == [bsf |-> Scan(\hbc0f02), bsr |-> Scan(\hbd0f02)]

Tables ==
  <<AddLike, LeaLike, Jumps, Loops, Jcc, Setcc, Unary, Stack, ImulLike, Shifts, Bits, MovzxLike, Plain,
    StosLike, ShldLike, BsfLike>>

build_opcode_map ==
  [name \in UNION {DOMAIN Tables[i] : i \in DOMAIN Tables} |->
     Tables[CHOOSE i \in DOMAIN Tables : name \in DOMAIN Tables[i]][name]]
=============================================================================
