-------------------------------- MODULE X86 --------------------------------
(* How the processor reads the instructions that the assembler (asm_*.g)    *)
(* writes, from its manual: external to the repository.  Memory is a        *)
(* function from locations to the cells that were written there, of 1, 2    *)
(* or 4 bytes: [w |-> width, v |-> value].                                  *)
EXTENDS Integers, Sequences

Unwritten == 1000000007

Cell(m, a, w) == IF a \in DOMAIN m /\ m[a].w = w THEN m[a].v ELSE Unwritten
Byte(m, a) == Cell(m, a, 1)
Signed8(x) == IF x > 127 /\ x < 256 THEN x - 256 ELSE x

\* What an instruction works on.  coef[r] says how many times register r
\* counts in an address.  Sizes are 1, 2, 3 for 8, 16 and 32 bits.
NoCoef == [r \in 0 .. 7 |-> 0]
Reg(size, n) == [t |-> "reg", size |-> size, n |-> n, coef |-> NoCoef]
Mem(size, coef, disp) == [t |-> "mem", size |-> size, n |-> disp, coef |-> coef]
Imm(size, v) ==
  [t |-> "imm", size |-> size, coef |-> NoCoef,
   n |-> CASE size = 1 -> v % 256 [] size = 2 -> v % 65536 [] OTHER -> v]
Rel(target) == [t |-> "rel", size |-> 3, n |-> target, coef |-> NoCoef]

\* The operand of the ModRM byte at a, and where the instruction goes on.
ModRM(m, a, size) ==
  LET modrm == Byte(m, a)
      mod == modrm \div 64
      rm == modrm % 8
      sib == Byte(m, a + 1) % 256
      hasSib == mod # 3 /\ rm = 4
      base == IF hasSib THEN sib % 8 ELSE rm
      index == (sib \div 8) % 8
      noBase == mod = 0 /\ base = 5
      b == IF hasSib THEN a + 2 ELSE a + 1
      coef == [r \in 0 .. 7 |->
                 (IF r = base /\ ~noBase THEN 1 ELSE 0)
                 + (IF hasSib /\ r = index /\ index # 4 THEN 2 ^ (sib \div 64) ELSE 0)]
  IN  CASE mod = 3 -> [arg |-> Reg(size, rm), next |-> a + 1]
        [] mod = 2 \/ noBase -> [arg |-> Mem(size, coef, Cell(m, b, 4)), next |-> b + 4]
        [] mod = 1 -> [arg |-> Mem(size, coef, Signed8(Byte(m, b))), next |-> b + 1]
        [] OTHER -> [arg |-> Mem(size, coef, 0), next |-> b]

Arith == <<"add", "or", "adc", "sbb", "and", "sub", "xor", "cmp">>
Shift == <<{"rol"}, {"ror"}, {"rcl"}, {"rcr"}, {"shl", "sal"}, {"shr"}, {}, {"sar"}>>
Group3 == <<"test", "", "not", "neg", "mul", "imul", "div", "idiv">>
Group5 == <<"inc", "dec", "call", "", "jmp", "", "push", "">>
BitTest == <<"", "", "", "", "bt", "bts", "btr", "btc">>
Conditions ==
  <<{"o"}, {"no"}, {"b", "c", "nae"}, {"ae", "nb", "nc"}, {"e", "z"}, {"ne", "nz"}, {"be", "na"},
    {"a", "nbe"}, {"s"}, {"ns"}, {"p", "pe"}, {"np", "po"}, {"l", "nge"}, {"ge", "nl"},
    {"le", "ng"}, {"g", "nle"}>>

Is(names, form) == [names |-> names, form |-> form]
Sized(name, size) == {name, name \o <<"b", "w", "d">>[size]}

\* The names an instruction goes by and its operands: E is the operand of the
\* ModRM byte, G its register, I an immediate, Ib one of 8 bits, J a distance,
\* A the accumulator, DX the port.
\* d is the middle digit of the byte after the opcode, sz the operand size.
OneByte(b, d, sz, short) ==
  CASE b < \h40 /\ b % 8 < 4 -> Is({Arith[b \div 8 + 1]}, IF b % 4 < 2 THEN <<"E", "G">> ELSE <<"G", "E">>)
    [] b \in {\h80, \h81} -> Is({Arith[d + 1]}, <<"E", "I">>)
    [] b \in {\h84, \h85} -> Is({"test"}, <<"E", "G">>)
    [] b \in {\h86, \h87} -> Is({"xchg"}, <<"E", "G">>)
    [] b \in {\h88, \h89} -> Is({"mov"}, <<"E", "G">>)
    [] b \in {\h8a, \h8b} -> Is({"mov"}, <<"G", "E">>)
    [] b = \h8d -> Is({"lea"}, <<"G", "E">>)
    [] b = \h8f -> Is({"pop"}, <<"E">>)
    [] b \in {\hc6, \hc7} /\ d = 0 -> Is({"mov"}, <<"E", "I">>)
    [] b \in {\hf6, \hf7} -> Is({Group3[d + 1]}, IF d = 0 THEN <<"E", "I">> ELSE <<"E">>)
    [] b \in {\hc0, \hc1} -> Is(Shift[d + 1], <<"E", "Ib">>)
    [] b \in {\hd2, \hd3} -> Is(Shift[d + 1], <<"E", "CL">>)
    [] b = \hfe -> Is(IF d < 2 THEN {Group5[d + 1]} ELSE {}, <<"E">>)
    [] b = \hff -> Is({Group5[d + 1]}, <<"E">>)
    [] b = \he0 -> Is({"loopne", "loopnz", "loopnzd"}, <<"Jb">>)
    [] b = \he1 -> Is({"loope"}, <<"Jb">>)
    [] b = \he2 -> Is({"loop"}, <<"Jb">>)
    [] b = \he3 -> Is({IF short THEN "jcxz" ELSE "jecxz"}, <<"Jb">>)
    [] b = \he8 -> Is({"call"}, <<"J">>)
    [] b = \he9 -> Is({"jmp"}, <<"J">>)
    [] b = \h68 -> Is({"push"}, <<"I">>)
    [] b = \h69 -> Is({"imul"}, <<"G", "E", "I">>)
    [] b = \hcd -> Is({"int"}, <<"Ib">>)
    [] b \in {\ha4, \ha5} -> Is(Sized("movs", sz), <<>>)
    [] b \in {\ha6, \ha7} -> Is(Sized("cmps", sz), <<>>)
    [] b \in {\haa, \hab} -> Is(Sized("stos", sz), <<>>)
    [] b \in {\hac, \had} -> Is(Sized("lods", sz), <<>>)
    [] b \in {\hae, \haf} -> Is(Sized("scas", sz), <<>>)
    [] b \in {\hec, \hed} -> Is({"in"}, <<"A", "DX">>)
    [] b \in {\hee, \hef} -> Is({"out"}, <<"DX", "A">>)
    [] b = \h98 -> Is({IF sz = 2 THEN "cbw" ELSE "cwde"}, <<>>)
    [] b = \h99 -> Is({IF sz = 2 THEN "cwd" ELSE "cdq"}, <<>>)
    [] b = \hd7 -> Is({"xlat", "xlatb"}, <<>>)
    [] b = \hc3 -> Is({"ret", "retn"}, <<>>)
    [] b = \hd6 -> Is({"salc"}, <<>>)
    [] b = \hf5 -> Is({"cmc"}, <<>>)
    [] b = \hf8 -> Is({"clc"}, <<>>)
    [] b = \hf9 -> Is({"stc"}, <<>>)
    [] b = \hfa -> Is({"cli"}, <<>>)
    [] b = \hfb -> Is({"sti"}, <<>>)
    [] b = \hfc -> Is({"cld"}, <<>>)
    [] b = \hfd -> Is({"std"}, <<>>)
    [] OTHER -> Is({}, <<>>)

\* The same for the instructions of which the first byte is 0f.
TwoByte(b, d) ==
  CASE b \in \h80 .. \h8f -> Is({"j" \o c : c \in Conditions[(b % 16) + 1]}, <<"J">>)
    [] b \in \h90 .. \h9f -> Is({"set" \o c : c \in Conditions[(b % 16) + 1]}, <<"E">>)
    [] b = \ha4 -> Is({"shld"}, <<"E", "G", "Ib">>)
    [] b = \ha5 -> Is({"shld"}, <<"E", "G", "CL">>)
    [] b = \hac -> Is({"shrd"}, <<"E", "G", "Ib">>)
    [] b = \had -> Is({"shrd"}, <<"E", "G", "CL">>)
    [] b = \haf -> Is({"imul"}, <<"G", "E">>)
    [] b = \hba -> Is({BitTest[d + 1]}, <<"E", "Ib">>)
    [] b \in {\hb6, \hb7} -> Is({"movzx"}, <<"G", "E">>)
    [] b \in {\hbe, \hbf} -> Is({"movsx"}, <<"G", "E">>)
    [] b = \hbc -> Is({"bsf"}, <<"G", "E">>)
    [] b = \hbd -> Is({"bsr"}, <<"G", "E">>)
    [] b = \h30 -> Is({"wrmsr"}, <<>>)
    [] b = \h32 -> Is({"rdmsr"}, <<>>)
    [] b = \h33 -> Is({"rdpmc"}, <<>>)
    [] OTHER -> Is({}, <<>>)

\* The operands, by the letters of the form.  rm is the operand of the ModRM
\* byte, reg its middle digit, and the immediate of width bytes is at a.
Instruction86(m, a, is, rm, reg, size, width) ==
  LET Arg(k) == CASE k = "E" -> rm.arg
                  [] k = "G" -> Reg(size, reg)
                  [] k = "I" -> Imm(size, Cell(m, a, width))
                  [] k = "Ib" -> Imm(1, Byte(m, a))
                  [] k = "CL" -> Reg(1, 1)
                  [] k = "A" -> Reg(size, 0)
                  [] k = "DX" -> Reg(2, 2)
                  [] k = "Jb" -> Rel(a + 1 + Signed8(Byte(m, a)))
                  [] k = "J" -> Rel(a + 4 + Cell(m, a, 4))
  IN  [names |-> is.names, next |-> a + width, args |-> [i \in DOMAIN is.form |-> Arg(is.form[i])]]

\* The same with the letters alone: what is at a follows the opcode.
AfterOpcode(m, a, is, uses, reg, size, esize) ==
  LET width == CASE uses \cap {"Ib", "Jb"} # {} -> 1
                 [] "J" \in uses -> 4
                 [] "I" \in uses -> <<1, 2, 4>>[size]
                 [] OTHER -> 0
      From(rm) == Instruction86(m, IF "E" \in uses THEN rm.next ELSE a, is, rm, reg, size, width)
  IN  From(ModRM(m, a, esize))

WithForm(m, a, is, reg, size, esize) ==
  AfterOpcode(m, a, is, {is.form[i] : i \in DOMAIN is.form}, reg, size, esize)

\* The opcode b was read before a; two says whether 0f was before it.
Opcode(m, a, b, two, full, p67) ==
  LET reg == (Byte(m, a) \div 8) % 8
  IN  IF two THEN WithForm(m, a, TwoByte(b, reg), reg, full,
                        CASE b \in \h90 .. \h9f \union {\hb6, \hbe} -> 1
                          [] b \in {\hb7, \hbf} -> 2
                          [] OTHER -> full)
      ELSE LET size == IF b % 2 = 0 /\ b \notin {\h68, \h98} THEN 1 ELSE full
           IN  WithForm(m, a, OneByte(b, reg, size, p67), reg, size, size)

WithoutPrefix(m, a, full, p67) ==
  IF Byte(m, a) = \h0f THEN Opcode(m, a + 2, Byte(m, a + 1), TRUE, full, p67)
  ELSE Opcode(m, a + 1, Byte(m, a), FALSE, full, p67)

AfterSize(m, a, full) ==
  IF Byte(m, a) = \h67 THEN WithoutPrefix(m, a + 1, full, TRUE) ELSE WithoutPrefix(m, a, full, FALSE)

\* The instruction at a: what it may be called, its operands and the location
\* of the next one; and whether it is repeated.
Repeated(m, a) == Byte(m, a) = \hf3
Decode(m, at) ==
  LET From(a) == IF Byte(m, a) = \h66 THEN AfterSize(m, a + 1, 2) ELSE AfterSize(m, a, 3)
  IN  From(IF Repeated(m, at) THEN at + 1 ELSE at)
=============================================================================
