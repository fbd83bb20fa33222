----------------------------- MODULE MCMachine -----------------------------
(* Functions for the C compiler: loops in loops, switches, jumps, scopes.   *)
EXTENDS CMachine

E == [k |-> "expr", e |-> "e"]
Ex(e) == [k |-> "expr", e |-> e]
Use(x) == [k |-> "expr", e |-> x]
Break_ == [k |-> "break"]
Continue_ == [k |-> "continue"]
Ret == [k |-> "return", e |-> <<"e">>]
RetVoid == [k |-> "return", e |-> <<>>]
Nop == [k |-> "empty"]
Var(type, x) == [k |-> "decl", type |-> type, x |-> x, init |-> "e"]
Bare(x) == [k |-> "decl", type |-> "int", x |-> x, init |-> ""]
Blk(items) == [k |-> "block", items |-> items]
IfThen(g, a) == [k |-> "if", g |-> g, a |-> a]
IfElse(g, a, b) == [k |-> "ifelse", g |-> g, a |-> a, b |-> b]
WhileDo(g, a) == [k |-> "while", g |-> g, a |-> a]
DoWhile(a, g) == [k |-> "do", a |-> a, g |-> g]
ForDo(i, g, s, a) == [k |-> "for", i |-> i, g |-> g, s |-> s, a |-> a]
SwitchOn(a) == [k |-> "switch", a |-> a]
CaseOf(v, a) == [k |-> "case", v |-> v, a |-> a]
DefaultOf(a) == [k |-> "default", a |-> a]
LabelOf(l, a) == [k |-> "label", l |-> l, a |-> a]
GotoOf(l) == [k |-> "goto", l |-> l]

Fn(items) == [type |-> "f", params |-> <<>>, body |-> Blk(items)]
Void(params, items) == [type |-> "void", params |-> params, body |-> Blk(items)]

Leaves == {Break_, Continue_, Ret, E}
Inner ==
  Leaves \union {IfThen("e", a) : a \in Leaves} \union {IfElse("e", a, E) : a \in {Break_, Continue_}}
  \union {Blk(<<Var("int", "x"), IfThen("e", a), Use("x")>>) : a \in {Break_, Continue_}}
Loops(S) ==
  {WhileDo("e", a) : a \in S} \union {DoWhile(a, "e") : a \in S}
  \union {ForDo(i, g, s, a) : i \in {<<>>, <<"e">>}, g \in {<<>>, <<"e">>}, s \in {<<>>, <<"e">>}, a \in S}
Around(a) == {<<a, E>>, <<Var("long", "x"), a, Use("x")>>}
FewLoops(a) == {WhileDo("e", a), DoWhile(a, "e"), ForDo(<<"e">>, <<"e">>, <<"e">>, a)}
Nested ==
  UNION {FewLoops(Blk(<<Var("int", "y"), l, a>>)) : l \in UNION {FewLoops(b) : b \in Inner}, a \in {Break_, Continue_, Use("y")}}
LoopPrograms == UNION {Around(a) : a \in Loops(Inner)} \union {<<a, E>> : a \in Nested}

\* Bodies of a switch.
Items ==
  {CaseOf("0", E), CaseOf("1", E), DefaultOf(E), Break_, Continue_, Var("int", "x"), IfThen("e", Break_),
   Blk(<<Var("int", "y"), CaseOf("2", Use("y")), IfThen("e", Break_)>>),
   Blk(<<Var("int", "y"), Use("y")>>), SwitchOn(Blk(<<CaseOf("0", Break_), DefaultOf(E)>>)), WhileDo("e", Break_)}
Distinct(items) == \A i, j \in DOMAIN items : i # j => items[i] # items[j] \/ items[i].k = "break"
Bodies == {<<a, b, d>> : a, b \in Items, d \in {CaseOf("0", E), DefaultOf(E), Continue_, WhileDo("e", Break_)}} \union {<<CaseOf("1", Nop), a, CaseOf("0", E), b>> : a, b \in Items}
Good(items) ==
  /\ Distinct(items)
  /\ Cardinality({i \in DOMAIN items : items[i] \in {CaseOf("1", E), CaseOf("1", Nop)}}) <= 1
SwitchPrograms ==
  {<<WhileDo("e", Blk(<<Var("int", "z"), SwitchOn(Blk(b)), Use("z")>>))>> : b \in {d \in Bodies : Good(d)}}
  \union {<<WhileDo("e", SwitchOn(a))>> : a \in {CaseOf("1", Break_), DefaultOf(Continue_), E}}

\* Labels and jumps in any order and place, missing and double ones, too.
Steps ==
  {LabelOf("l", E), LabelOf("n", Nop), GotoOf("l"), IfThen("e", GotoOf("l")), IfThen("e", GotoOf("n")), Var("int", "x"),
   Blk(<<Var("long", "y"), LabelOf("n", Use("y"))>>), Blk(<<Var("long", "y"), IfThen("e", GotoOf("l")), Use("y")>>)}
GotoPrograms == {<<a, b, d>> : a, b, d \in Steps} \union {<<a, b, LabelOf("l", E), Ret>> : a, b \in Steps}

\* Names that hide one another; operands that are not evaluated.
Scopes ==
  {Var("int", "x"), Var("long", "x"), Bare("y"), Use("x"), Use("y"), Use("a"), Ex("and"), Ex("cond"), RetVoid,
   Blk(<<Var("long", "x"), Use("x")>>), Blk(<<Bare("y"), Var("int", "a"), Use("x"), Use("y")>>),
   IfThen("or", Use("a")), IfElse("cond", Use("x"), Blk(<<>>)), WhileDo("and", Use("y"))}
ScopePrograms ==
  {<<Void(<<<<"int", "x">>, <<"long", "y">>, <<"int", "a">>>>, <<a, b, d>>)>> :
     a, b \in Scopes, d \in {Use("x"), Use("y"), RetVoid, WhileDo("and", Use("y"))}}
Twice ==
  {<<Fn(<<a, LabelOf("l", E)>>), Void(<<<<"long", "x">>>>, <<b, LabelOf("l", Use("x"))>>)>> :
     a \in {GotoOf("l"), WhileDo("e", Break_), Ret}, b \in {GotoOf("l"), RetVoid, Var("int", "x")}}

MCJobs == {JobOf(<<Fn(p)>>) : p \in LoopPrograms \union SwitchPrograms \union GotoPrograms}
          \union {JobOf(p) : p \in ScopePrograms \union Twice}
=============================================================================
