------------------------------ MODULE GMachine ------------------------------
(***************************************************************************)
(* Running what the G compiler emitted.  The processor is external; what   *)
(* is modelled of it is the stack, the branches and the returns, for the   *)
(* instruction sequences that asmg.asm emits.  A slot of the stack holds   *)
(* the address of the instruction that made it, so that a reference to a   *)
(* local variable can be compared with the declaration it was compiled     *)
(* from.  A conditional jump may go either way; a called function returns  *)
(* with the stack it was given.                                            *)
(***************************************************************************)
EXTENDS GCompiler

CONSTANT MaxStack    \* bound: slots of a frame

VARIABLES
  ip,      \* the instruction to run, 0 when no function runs
  stack    \* slots above the frame pointer, the last one at the top

mvars == <<s, alphabet, file, pos, files, ip, stack>>

Here == s.code[ip]
\* How many values the instruction takes from the stack, and what is left
\* above the frame pointer (nothing, if it takes more than there is).
Takes ==
  CASE Here.op \in {"pop", "je"} -> 1
    [] Here.op = "add_esp" -> Here.arg
    [] Here.op = "call" -> Here.n
    [] Here.op = "icall" -> Here.n + 1
    [] OTHER -> 0
Left == SubSeq(stack, 1, Len(stack) - Takes)
Falls == ip' = ip + Here.len

MInit == Init /\ ip = 0 /\ stack = <<>>

Start ==
  /\ s.mode = "done" /\ ip = 0 /\ files = alphabet.files
  /\ \E f \in {x \in DOMAIN s.code : s.code[x].op = "enter"} : ip' = f
  /\ stack' = <<>>

Push ==
  /\ Here.op \in {"push", "load", "slot", "sub_esp"}
  /\ stack' = Append(stack, ip)
  /\ Falls

Pop ==
  /\ Here.op \in {"pop", "add_esp"}
  /\ stack' = Left
  /\ Falls

Calls ==
  /\ Here.op \in {"call", "icall"}
  /\ stack' = Append(Left, ip)
  /\ Falls

Jump ==
  /\ Here.op \in {"je", "jmp", "enter"}
  /\ stack' = Left
  /\ \/ Here.op # "jmp" /\ Falls
     \/ Here.op # "enter" /\ ip' = Here.arg

Return ==
  /\ Here.op = "ret"
  /\ ip' = -1
  /\ stack' = <<>>

Run == ip > 0 /\ Len(stack) <= MaxStack /\ (Push \/ Pop \/ Calls \/ Jump \/ Return)

\* The files are compiled, then one of their functions runs.
MNext ==
  \/ (Compile \/ platform_g_compile) /\ UNCHANGED <<ip, stack>>
  \/ Start /\ UNCHANGED vars
  \/ Run /\ UNCHANGED vars

MSpec == MInit /\ [][MNext]_mvars

----------------------------------------------------------------------------
(* Properties.  Except for the last one they hold of the programs in which   *)
(* the condition of every while pushes one value (~s.uneven): the code of a *)
(* loop returns to the start of its condition, and what the condition left  *)
(* there the time before is still on the stack.                             *)

\* Control stays within the code: jumps land on instructions, never in the
\* middle of one, in a string or past the end of a function, and calls on the
\* prologue of a function of as many parameters.
BranchesLand == CallsLandOnEntry /\ (ip > 0 => ip \in DOMAIN s.code /\ Here.op # "data")

Resolves == Len(stack) > Here.arg /\ stack[Len(stack) - Here.arg] = Here.decl

\* On every path, a local variable is found in the slot that its declaration
\* made; no instruction takes what the function did not push; and at a return
\* the frame is empty, so that what is popped next is the caller's frame
\* pointer and the return address.
SlotsResolve ==
  ~s.uneven /\ ip > 0 => Takes <= Len(stack) /\ (Here.op = "ret" => stack = <<>>) /\ (Here.op = "slot" => Resolves)

\* The same whatever the condition of a while pushes, as "any sequence of
\* tokens" may stand there.
SlotsResolveAnyCondition == ip > 0 /\ Here.op = "slot" => Resolves
=============================================================================
