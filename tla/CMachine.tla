------------------------------ MODULE CMachine ------------------------------
(***************************************************************************)
(* Running the code of CStatements, and what C says of the same program.   *)
(*                                                                         *)
(* A program is a tree; its text is what the compiler reads, and a place   *)
(* in it is <<token, i>>, i being 1 but for the later operands of an       *)
(* expression.  Control, as C has it, is a set of edges between places:    *)
(* from a place where something is evaluated an edge for each outcome,     *)
(* and a silent one where control only passes.  Nothing of it follows the  *)
(* compiler.                                                               *)
(***************************************************************************)
EXTENDS CStatements, FiniteSets

CONSTANT MaxStack    \* bound: words of the stack

VARIABLE m           \* the processor: status, ip, stack, registers, what ran last

-----------------------------------------------------------------------------
(* Trees and their text.  A guard or a value is the token of an expression. *)

Init_(t) == IF t.init = "" THEN <<>> ELSE <<"=", t.init>>

RECURSIVE Text(_), TextOfAll(_)
TextOfAll(items) == IF items = <<>> THEN <<>> ELSE Text(items[1]) \o TextOfAll(Tail(items))
Text(t) ==
  CASE t.k = "expr" -> <<t.e, ";">>
    [] t.k \in {"break", "continue"} -> <<t.k, ";">>
    [] t.k = "return" -> <<"return">> \o t.e \o <<";">>
    [] t.k = "decl" -> <<t.type, t.x>> \o Init_(t) \o <<";">>
    [] t.k = "block" -> <<"{">> \o TextOfAll(t.items) \o <<"}">>
    [] t.k = "if" -> <<"if", "(", t.g, ")">> \o Text(t.a)
    [] t.k = "ifelse" -> <<"if", "(", t.g, ")">> \o Text(t.a) \o <<"else">> \o Text(t.b)
    [] t.k = "while" -> <<"while", "(", t.g, ")">> \o Text(t.a)
    [] t.k = "do" -> <<"do">> \o Text(t.a) \o <<"while", "(", t.g, ")", ";">>
    [] t.k = "for" -> <<"for", "(">> \o t.i \o <<";">> \o t.g \o <<";">> \o t.s \o <<")">> \o Text(t.a)
    [] t.k = "switch" -> <<"switch", "(", "e", ")">> \o Text(t.a)
    [] t.k = "case" -> <<"case", t.v, ":">> \o Text(t.a)
    [] t.k = "default" -> <<"default", ":">> \o Text(t.a)
    [] t.k = "label" -> <<t.l, ":">> \o Text(t.a)
    [] t.k = "goto" -> <<"goto", t.l, ";">>
    [] t.k = "empty" -> <<";">>

\* A function: void or int, parameters as pairs of a type and a name, a body.
RECURSIVE Header(_)
Header(params) == IF params = <<>> THEN <<>> ELSE params[1] \o Header(Tail(params))
RECURSIVE TextOfFunctions(_)
TextOfFunctions(fs) ==
  IF fs = <<>> THEN <<>>
  ELSE <<fs[1].type>> \o Header(fs[1].params) \o Text(fs[1].body) \o TextOfFunctions(Tail(fs))

-----------------------------------------------------------------------------
(* Control.  env is where break, continue, return and the labels lead, and *)
(* the variables in scope, the last one innermost.                         *)

P(p) == <<p, 1>>
Silent == -1
Edge(p, i, val, to, env) == [from |-> <<p, i>>, val |-> val, to |-> to, scope |-> env.scope]
Passes(p, to, env) == {Edge(p, 1, Silent, to, env)}

\* An expression at p, from which 1 leads to yes and 0 to no.
Decides(p, e, yes, no, env) ==
  CASE e = "e" -> {Edge(p, 1, 1, yes, env), Edge(p, 1, 0, no, env)}
    [] e = "and" -> {Edge(p, 1, 1, <<p, 2>>, env), Edge(p, 1, 0, no, env), Edge(p, 2, 1, yes, env), Edge(p, 2, 0, no, env)}
    [] e = "or" -> {Edge(p, 1, 1, yes, env), Edge(p, 1, 0, <<p, 2>>, env), Edge(p, 2, 1, yes, env), Edge(p, 2, 0, no, env)}
    [] e = "cond" -> {Edge(p, 1, 1, <<p, 2>>, env), Edge(p, 1, 0, <<p, 3>>, env)}
                     \union {Edge(p, i, 1, yes, env) : i \in {2, 3}} \union {Edge(p, i, 0, no, env) : i \in {2, 3}}
\* Its value is not used: a variable, or an expression whose last value is 0.
Evaluates(p, e, to, env) ==
  CASE e = "e" -> {Edge(p, 1, 0, to, env)}
    [] e = "cond" -> {Edge(p, 1, 1, <<p, 2>>, env), Edge(p, 1, 0, <<p, 3>>, env), Edge(p, 2, 0, to, env), Edge(p, 3, 0, to, env)}
    [] e \in {"and", "or"} -> Decides(p, e, to, to, env)
    [] OTHER -> {Edge(p, 1, 0, to, env)}

\* The parts of a statement that are statements, with their places.
RECURSIVE Places(_, _)
Places(items, p) == IF items = <<>> THEN <<>> ELSE <<<<items[1], p>>>> \o Places(Tail(items), p + Len(Text(items[1])))
Parts(t, p) ==
  CASE t.k = "block" -> Places(t.items, p + 1)
    [] t.k \in {"if", "while", "switch"} -> <<<<t.a, p + 4>>>>
    [] t.k = "ifelse" -> <<<<t.a, p + 4>>, <<t.b, p + 5 + Len(Text(t.a))>>>>
    [] t.k = "do" -> <<<<t.a, p + 1>>>>
    [] t.k = "for" -> <<<<t.a, p + 5 + Len(t.i) + Len(t.g) + Len(t.s)>>>>
    [] t.k = "case" -> <<<<t.a, p + 3>>>>
    [] t.k \in {"default", "label"} -> <<<<t.a, p + 2>>>>
    [] OTHER -> <<>>

RECURSIVE Within(_, _)
Within(t, p) == {<<t, p>>} \union UNION {Within(Parts(t, p)[i][1], Parts(t, p)[i][2]) : i \in DOMAIN Parts(t, p)}

\* The case and default labels of a switch, not those of one inside it.
RECURSIVE CasesOf(_, _)
CasesOf(t, p) ==
  (IF t.k \in {"case", "default"} THEN {<<IF t.k = "case" THEN t.v ELSE "default", p>>} ELSE {})
  \union (IF t.k = "switch" THEN {} ELSE UNION {CasesOf(Parts(t, p)[i][1], Parts(t, p)[i][2]) : i \in DOMAIN Parts(t, p)})

ValueOf == [v \in {"0", "1", "2"} |-> IF v = "0" THEN 0 ELSE IF v = "1" THEN 1 ELSE 2]
Selects(cases, v, to) ==
  LET hit == {l \in cases : l[1] # "default" /\ ValueOf[l[1]] = v}
      dflt == {l \in cases : l[1] = "default"}
  IN  IF hit # {} THEN {P(l[2]) : l \in hit} ELSE IF dflt # {} THEN {P(l[2]) : l \in dflt} ELSE {to}

Declared(t, p) == [x |-> t.x, at |-> p, words |-> IF t.type = "long" THEN 2 ELSE 1]

RECURSIVE Flow(_, _, _, _), FlowOfAll(_, _, _, _)
FlowOfAll(items, p, to, env) ==
  IF items = <<>> THEN {}
  ELSE LET t == items[1]
           q == p + Len(Text(t))
           next == IF Len(items) = 1 THEN to ELSE P(q)
           inner == IF t.k = "decl" THEN [env EXCEPT !.scope = Append(@, Declared(t, p))] ELSE env
       IN  Flow(t, p, next, inner) \union FlowOfAll(Tail(items), q, to, inner)

Flow(t, p, to, env) ==
  LET looping == [env EXCEPT !.brk = to]
      a == Parts(t, p)[1][2]
  IN
  CASE t.k = "expr" -> Evaluates(p, t.e, to, env)
    [] t.k = "empty" -> Passes(p, to, env)
    [] t.k = "break" -> Passes(p, env.brk, env)
    [] t.k = "continue" -> Passes(p, env.cont, env)
    [] t.k = "goto" -> {Edge(p, 1, Silent, P(l[2]), env) : l \in {k \in env.labels : k[1] = t.l}}
    [] t.k = "return" -> IF t.e = <<>> THEN Passes(p, env.exit, env)
                         ELSE Passes(p, P(p + 1), env) \union Evaluates(p + 1, t.e[1], env.exit, env)
    [] t.k = "decl" -> IF t.init = "" THEN Passes(p, to, env)
                       ELSE Passes(p, P(p + 3), env) \union Evaluates(p + 3, t.init, to, env)
    [] t.k = "block" -> Passes(p, IF t.items = <<>> THEN to ELSE P(p + 1), env) \union FlowOfAll(t.items, p + 1, to, env)
    [] t.k = "if" -> Passes(p, P(p + 2), env) \union Decides(p + 2, t.g, P(a), to, env) \union Flow(t.a, a, to, env)
    [] t.k = "ifelse" -> Passes(p, P(p + 2), env) \union Decides(p + 2, t.g, P(a), P(Parts(t, p)[2][2]), env)
                         \union Flow(t.a, a, to, env) \union Flow(t.b, Parts(t, p)[2][2], to, env)
    [] t.k = "while" -> Passes(p, P(p + 2), env) \union Decides(p + 2, t.g, P(a), to, env)
                        \union Flow(t.a, a, P(p + 2), [looping EXCEPT !.cont = P(p + 2)])
    [] t.k = "do" -> LET g == a + Len(Text(t.a)) + 2
                     IN  Passes(p, P(a), env) \union Decides(g, t.g, P(a), to, env)
                         \union Flow(t.a, a, P(g), [looping EXCEPT !.cont = P(g)])
    [] t.k = "for" -> LET g == p + 3 + Len(t.i)
                          s == g + Len(t.g) + 1
                      IN  Passes(p, P(IF t.i = <<>> THEN g ELSE p + 2), env)
                          \union (IF t.i = <<>> THEN {} ELSE Evaluates(p + 2, t.i[1], P(g), env))
                          \union (IF t.g = <<>> THEN Passes(g, P(a), env) ELSE Decides(g, t.g[1], P(a), to, env))
                          \union (IF t.s = <<>> THEN Passes(s, P(g), env) ELSE Evaluates(s, t.s[1], P(g), env))
                          \union Flow(t.a, a, P(s), [looping EXCEPT !.cont = P(s)])
    [] t.k = "switch" -> Passes(p, P(p + 2), env)
                         \union UNION {{Edge(p + 2, 1, v, q, env) : q \in Selects(CasesOf(t.a, a), v, to)} : v \in 0 .. 2}
                         \union Flow(t.a, a, to, looping)
    [] t.k \in {"case", "default", "label"} -> Passes(p, P(a), env) \union Flow(t.a, a, to, env)

-----------------------------------------------------------------------------
(* A job: its functions, their text, and what C says of them *)

Exit(n) == <<0, n>>
Nowhere == <<0, 0>>
Labels(t, p) == {<<u[1].l, u[2]>> : u \in {v \in Within(t, p) : v[1].k = "label"}}

Reference(f, p, n) ==
  LET b == p + 1 + 2 * Len(f.params)
      scope == [i \in DOMAIN f.params |-> [x |-> f.params[i][2], at |-> 0, words |-> cctx_type_footprint(f.params[i][1])]]
      labels == Labels(f.body, b)
      edges == Flow(f.body, b, Exit(n),
                    [brk |-> Nowhere, cont |-> Nowhere, exit |-> Exit(n), labels |-> labels, scope |-> <<>>])
  IN  [params |-> scope, entry |-> P(b), exit |-> Exit(n), edges |-> edges,
       \* Each label is there once, and each goto has one.
       labelled |-> /\ \A k, l \in labels : k[1] = l[1] => k = l
                    /\ \A u \in Within(f.body, b) : u[1].k = "goto" => \E l \in labels : l[1] = u[1].l,
       \* A label of a switch is in the scope of a variable of its body.
       declares |-> \E u \in Within(f.body, b) :
                      /\ u[1].k = "switch"
                      /\ \E l \in CasesOf(u[1].a, u[2] + 4), d, e \in edges :
                           d.from = P(u[2]) /\ e.from = P(l[2]) /\ d.scope # e.scope]

RECURSIVE References(_, _, _)
References(fs, p, n) ==
  IF fs = <<>> THEN <<>>
  ELSE <<Reference(fs[1], p, n)>> \o References(Tail(fs), p + Len(TextOfFunctions(<<fs[1]>>)), n + 1)

JobOf(fs) == [toks |-> TextOfFunctions(fs), functions |-> References(fs, 1, 1)]

Function == job.functions[m.f]
From(place) == {e \in Function.edges : e.from = place}
\* Where control gets from a set of places without evaluating anything.
RECURSIVE Reached(_)
Reached(places) ==
  LET more == places \union {e.to : e \in {d \in Function.edges : d.from \in places /\ d.val = Silent}}
  IN  IF more = places THEN places ELSE Reached(more)

\* What may be evaluated next, when last was evaluated with the outcome val.
NextInC ==
  LET starts == IF m.last = Nowhere THEN {Function.entry} ELSE {e.to : e \in {d \in From(m.last) : d.val = m.val}}
  IN  {q \in Reached(starts) : q = Function.exit \/ \E e \in From(q) : e.val # Silent}

-----------------------------------------------------------------------------
(* The processor, external.  The stack grows to the right; the words of a  *)
(* frame before base are arguments and the return address.                 *)

Junk == -2
Stopped == [status |-> "none", f |-> 1, ip |-> 0, stack |-> <<>>, base |-> 0,
            eax |-> 0, ecx |-> 0, edx |-> 0, zero |-> FALSE, ah |-> FALSE, last |-> Nowhere, val |-> 0]

RECURSIVE WordsOf(_)
WordsOf(scope) == IF scope = <<>> THEN 0 ELSE scope[1].words + WordsOf(Tail(scope))

mvars == <<job, c, m>>
MInit == Init /\ m = Stopped
Running == m.status = "runs"
Instr == c.code[m.ip - Base + 1]

\* A caller has pushed the arguments, and the call the return address.
Calls ==
  /\ c.stage = 3 /\ c.error = "" /\ m.status = "none"
  /\ \E f \in DOMAIN c.entries :
       m' = [Stopped EXCEPT !.status = "runs", !.f = f, !.ip = c.entries[f],
               !.stack = [i \in 1 .. WordsOf(job.functions[f].params) + 1 |-> Junk]]
  /\ UNCHANGED <<job, c>>

Observes == Running /\ Instr.op \in {"eval", "read"}
Top(i) == m.stack[Len(m.stack) - i + 1]
Push(words) == [m EXCEPT !.stack = @ \o words]
Pop(n) == [m EXCEPT !.stack = SubSeq(@, 1, Len(@) - n)]

\* How many words the instruction takes, and whether they are there.
Takes ==
  CASE Instr.op \in {"pop", "widen"} -> 1
    [] Instr.op = "compare" -> 4
    [] Instr.op = "add" -> Instr.n
    [] OTHER -> 0
Fits == Takes <= Len(m.stack) /\ Len(m.stack) <= MaxStack
Executes(ops, x) == Running /\ Instr.op \in ops /\ Fits /\ m' = [x EXCEPT !.ip = @ + 1] /\ UNCHANGED <<job, c>>

Enters == Executes({"prologue"}, [Push(<<Junk>>) EXCEPT !.base = Len(m.stack) + 1])
Evaluated ==
  /\ Running /\ Instr.op = "eval"
  /\ \E v \in Instr.vals : Executes({"eval"}, [Push(<<v>>) EXCEPT !.last = Instr.at, !.val = v])
Reads == Executes({"read"}, [Push(<<Junk>>) EXCEPT !.last = Instr.at, !.val = 0])
Pushes == Executes({"push", "const"}, Push(<<IF Instr.op = "push" THEN m.eax ELSE Instr.n>>))
Widens == Executes({"widen"}, [Pop(1) EXCEPT !.stack = @ \o <<0, Top(1)>>])
Pops == Executes({"pop"}, [Pop(1) EXCEPT !.eax = Top(1)])
Moves == Executes({"mov", "setnz"}, [m EXCEPT !.eax = IF Instr.op = "mov" THEN Instr.n ELSE IF m.zero THEN 0 ELSE 1])
Writes == Executes({"write"}, m)
\* add esp, n: the sum is not zero.
Adds ==
  LET x == IF Instr.n >= 0 THEN Pop(Instr.n) ELSE Push([i \in 1 .. -Instr.n |-> Junk])
  IN  Executes({"add"}, [x EXCEPT !.zero = FALSE])
SetsFlags ==
  Executes({"test", "lahf", "sahf"},
           CASE Instr.op = "test" -> [m EXCEPT !.zero = m.eax = 0]
             [] Instr.op = "lahf" -> [m EXCEPT !.ah = m.zero]
             [] Instr.op = "sahf" -> [m EXCEPT !.zero = m.ah])
Jumps ==
  LET taken == Instr.op = "jmp" \/ (Instr.op = "jz" /\ m.zero) \/ (Instr.op = "jnz" /\ ~m.zero)
  IN  Executes({"jmp", "jz", "jnz"}, [m EXCEPT !.ip = IF taken THEN Instr.to - 1 ELSE @])

\* pop eax; pop edx; sub eax, [esp]; sub edx, [esp+4]; or eax, edx; pop ecx; pop edx
Compares ==
  Executes({"compare"}, [Pop(4) EXCEPT !.zero = Top(1) = Top(3) /\ Top(2) = Top(4), !.ecx = Top(3), !.edx = Top(4)])
\* push edx; push ecx
Restores == Executes({"restore"}, Push(<<m.edx, m.ecx>>))

\* pop ebp; ret.  What is on top must be what the prologue and the call left.
Returns ==
  /\ Running /\ Instr.op = "epilogue"
  /\ m' = [m EXCEPT !.status = IF Len(m.stack) = m.base THEN "done" ELSE "lost"]
  /\ UNCHANGED <<job, c>>
Overflows == Running /\ ~Fits /\ m' = [m EXCEPT !.status = "lost"] /\ UNCHANGED <<job, c>>

Execute ==
  \/ Enters \/ Evaluated \/ Reads \/ Pushes \/ Widens \/ Pops \/ Moves \/ Writes
  \/ Adds \/ SetsFlags \/ Jumps \/ Compares \/ Restores \/ Returns \/ Overflows

\* The compiler has failed, or the function has returned or is lost.
Over == (c.error # "" \/ m.status \in {"done", "lost"}) /\ UNCHANGED mvars

MNext == (Compile /\ UNCHANGED m) \/ Calls \/ Execute \/ Over
MSpec == MInit /\ [][MNext]_mvars

-----------------------------------------------------------------------------
(* Properties *)

Accepted == \A f \in DOMAIN job.functions : job.functions[f].labelled

\* A file is refused when a label is missing or there twice, and for nothing
\* else, whichever of the three readings notices; and a program that was
\* accepted evaluates what C says, in that order, and returns where C does:
\* loops, switches, jumps in and out of blocks, short circuits.
RunsAsC ==
  /\ c.error # "" => ~Accepted
  /\ c.stage = 3 => Accepted
  /\ Observes => Instr.at \in NextInC
  /\ m.status = "done" => Function.exit \in NextInC

\* Where C has a name for the variable: the innermost declaration, or the
\* parameter, and the words from the frame pointer to it.
SlotOf(scope, name) ==
  LET named == {i \in DOMAIN scope : scope[i].x = name}
      last == CHOOSE i \in named : \A j \in named : j <= i
      args == Function.params
      arg == CHOOSE i \in DOMAIN args : args[i].x = name
  IN  IF named # {} THEN -WordsOf(SubSeq(scope, 1, last)) ELSE 2 + WordsOf(SubSeq(args, 1, arg - 1))
ScopeAt(place) == (CHOOSE e \in Function.edges : e.from = place).scope

\* On every path to an expression the stack is as high as the variables in
\* scope make it, a variable is found in the place of the innermost
\* declaration, and a function returns to its caller.  Programs in which a
\* switch declares a variable before one of its labels are left out: the
\* stack is moved for the label also when its test fails.
VariablesInPlace ==
  LET declares == Function.declares IN
  /\ m.status = "lost" => declares
  /\ Observes /\ ~declares => Len(m.stack) = m.base + WordsOf(ScopeAt(Instr.at))
  /\ Running /\ Instr.op = "read" => Instr.loc = SlotOf(ScopeAt(Instr.at), TokAt(Instr.at[1]))
  /\ Running /\ Instr.op = "write" => Instr.loc = SlotOf(ScopeAt(Instr.at), TokAt(Instr.at[1] - 2))
=============================================================================
