----------------------------- MODULE MCLibrary -----------------------------
EXTENDS CFrontend

Seqs(S, n) == UNION {[1 .. k -> S] : k \in 0 .. n}

----------------------------------------------------------------------------
\* string.h: every pair of places in ten bytes; every pair of strings of up to
\* two characters, one of them above 127.
Ten == [a \in 0 .. 9 |-> a + 200]
Copy(fn, d, s, n) == [fn |-> fn, mem |-> Ten, d |-> d, s |-> s, n |-> n]
Copies ==
  {Copy("memmove", d, s, n) : d \in 0 .. 5, s \in 0 .. 5, n \in 0 .. 5}
  \union {Copy("memcpy", d, 9 - d, n) : d \in 0 .. 4, n \in 0 .. 1}
  \union {Copy("memset", d, c, n) : d \in 0 .. 5, c \in {0, 255, -1, 256}, n \in 0 .. 5}

Bytes == {0, 1, 200}
Two(x, y) == [a \in 0 .. 5 |-> IF a < 2 THEN x[a + 1] ELSE IF a \in {2, 5} THEN 0 ELSE y[a - 2]]
Pairs == {Two(x, y) : x \in [1 .. 2 -> Bytes], y \in [1 .. 2 -> Bytes]}
Compared == [fn : {"search"}, mem : Pairs, d : {0}, s : {3}, n : 0 .. 3, c : Bytes]

Source(x, y) == [a \in 0 .. 9 |-> IF a = 0 THEN y ELSE IF a \in 6 .. 8 THEN x[a - 5] ELSE 0]
Copied == [fn : {"strcpy", "strcat"}, mem : {Source(x, y) : x \in [1 .. 3 -> Bytes], y \in {0, 5}}, d : {0}, s : {6}]

MCStrings == Copies \union Compared \union Copied

----------------------------------------------------------------------------
\* Numbers of up to five characters, around the limits of both types:
\* the digits reach 9, the letters f and x, in four bases.
Shown == {<<49, 50, 55>>, <<49, 50, 56>>, <<45, 49, 50, 56>>, <<45, 49, 50, 57>>, <<50, 53, 53>>, <<50, 53, 54>>,
          <<48, 120, 55, 102>>, <<48, 120, 56, 48>>, <<48, 120, 102, 102, 102>>, <<50, 48, 52, 55>>,
          <<50, 48, 52, 56>>, <<45, 50, 48, 52, 56>>, <<45, 50, 48, 52, 57>>, <<52, 48, 57, 53>>,
          <<52, 48, 57, 54>>, <<45, 52, 48, 57, 54>>, <<43, 70, 70, 32>>, <<32, 9, 45, 55, 122>>}
MCConversions ==
  [fn : {"strtox"}, mem : {<<>>}, base : {0, 8, 10, 16},
   text : Seqs({32, 45, 48, 57, 102, 120}, 4) \union Shown]

----------------------------------------------------------------------------
FlagChar == [minus |-> 45, plus |-> 43, space |-> 32, alt |-> 35, zero |-> 48]
FlagText(flags) ==
  LET Of(f) == IF f \in flags THEN <<FlagChar[f]>> ELSE <<>>
  IN  Of("minus") \o Of("plus") \o Of("space") \o Of("alt") \o Of("zero")
Decimal(k) == IF k < 10 THEN <<48 + k>> ELSE <<48 + k \div 10, 48 + (k % 10)>>

\* A conversion: its letter, base, sign, case, prefix and length.
Conversion(char, base, unsigned, upper, prefix, length, bits) ==
  [char |-> char, base |-> base, unsigned |-> unsigned, upper |-> upper, prefix |-> prefix,
   length |-> length, bits |-> bits]
Lower(length, bits) == Conversion(120, 16, TRUE, FALSE, <<48, 120>>, length, bits)
SignedC(length, bits) == Conversion(100, 10, FALSE, FALSE, <<>>, length, bits)
Plain == {SignedC(<<>>, 8), Conversion(117, 10, TRUE, FALSE, <<>>, <<>>, 8), Lower(<<>>, 8),
          Conversion(88, 16, TRUE, TRUE, <<48, 88>>, <<>>, 8)}
Sized == {SignedC(<<104, 104>>, 4), SignedC(<<104>>, 6), SignedC(<<108>>, 8), SignedC(<<108, 108>>, 12),
          SignedC(<<106>>, 12), Lower(<<104, 104>>, 4), Lower(<<104>>, 6), Lower(<<108, 108>>, 12),
          Lower(<<122>>, 8), Conversion(111, 8, TRUE, FALSE, <<48>>, <<>>, 8)}
Text2 == Conversion(115, 0, FALSE, FALSE, <<>>, <<>>, 0)
One == Conversion(99, 0, FALSE, FALSE, <<>>, <<>>, 0)

\* A width or a precision is written out, or is an argument.
PrintJob(c, flags, width, prec, star, value, before, after, n) ==
  [fn |-> "printf", base |-> c.base, unsigned |-> c.unsigned, upper |-> c.upper, prefix |-> c.prefix,
   bits |-> c.bits, flags |-> flags, width |-> width, prec |-> prec, value |-> value, before |-> before,
   after |-> after, mem |-> [k \in 0 .. 13 |-> 1], n |-> n,
   text |-> before \o <<37>> \o FlagText(flags)
            \o (IF star THEN <<42>> ELSE IF width > 0 THEN Decimal(width) ELSE <<>>)
            \o (IF prec < 0 THEN <<>> ELSE <<46>> \o IF star THEN <<42>> ELSE Decimal(prec))
            \o c.length \o <<c.char>> \o after,
   args |-> (IF star THEN <<width>> \o (IF prec < 0 THEN <<>> ELSE <<prec>>) ELSE <<>>)
            \o <<IF c.char = 99 THEN value[1] ELSE value>>]

AllFlags == SUBSET {"minus", "plus", "space", "alt", "zero"}
Few == {{}, {"minus"}, {"zero", "plus"}}
Room(width, prec, value) == 4 + ((width + prec + value) % 9)
Numbers ==
  {PrintJob(c, f, w, p, FALSE, v, <<>>, <<33>>, Room(w, p, v)) :
     c \in Plain, f \in AllFlags, w \in {0, 2, 6}, p \in {-1, 0, 3}, v \in {0, 7, -20, -128}}
Lengths ==
  {PrintJob(c, f, w, p, FALSE, v, <<>>, <<>>, Room(w, p, v)) :
     c \in Sized, f \in Few, w \in {0, 5}, p \in {-1, 2}, v \in {0, 1, -1, 9, 100, -2048}}
Stars ==
  {PrintJob(c, f, w, p, TRUE, v, <<65>>, <<37, 37>>, Room(w, p, v)) :
     c \in Plain, f \in Few, w \in {0, 5}, p \in {-1, 4}, v \in {-20, 7}}
Texts ==
  {PrintJob(Text2, f, w, p, FALSE, v, <<65>>, <<66>>, n) :
     f \in {{}, {"minus"}}, w \in {0, 2, 5}, p \in {-1, 0, 2}, v \in Seqs({97, 98}, 3), n \in {0, 1, 4, 9}}
  \union {PrintJob(One, f, w, -1, FALSE, <<97>>, <<>>, <<66>>, n) :
            f \in {{}, {"minus"}}, w \in {0, 1, 4}, n \in {0, 1, 3, 9}}

\* A percent sign in the text after the conversion is written twice.
MCPrints == Numbers \union Lengths \union {[j EXCEPT !.after = <<37>>] : j \in Stars} \union Texts

----------------------------------------------------------------------------
ScanJob(c, width, text) ==
  [fn |-> "scanf", mem |-> <<>>, text |-> text, base |-> c.base, signed |-> c.signed, width |-> width,
   set |-> <<>>, negative |-> FALSE,
   format |-> <<37>> \o (IF width > 0 THEN <<48 + width>> ELSE <<>>) \o <<c.char>>]
Readers ==
  {[char |-> 100, base |-> 10, signed |-> TRUE], [char |-> 105, base |-> 0, signed |-> TRUE],
   [char |-> 111, base |-> 8, signed |-> FALSE], [char |-> 117, base |-> 10, signed |-> FALSE],
   [char |-> 120, base |-> 16, signed |-> FALSE]}
SetJob(set, negative, text) ==
  [fn |-> "scanf", mem |-> <<>>, text |-> text, base |-> -1, signed |-> FALSE, width |-> 0, set |-> set,
   negative |-> negative,
   format |-> <<37, 91>> \o (IF negative THEN <<94>> ELSE <<>>) \o set \o <<93>>]
MCScans ==
  {ScanJob(c, w, t) : c \in Readers, w \in {0, 1, 2, 3},
     t \in Seqs({32, 45, 48, 49, 97, 120}, 3) \union [1 .. 4 -> {45, 48, 97, 120}]}
  \union {SetJob(set, n, t) : set \in Seqs({45, 97, 99}, 4) \ {<<>>}, n \in BOOLEAN, t \in Seqs({45, 97, 98, 100}, 2)}

----------------------------------------------------------------------------
\* Arrays with equal keys, and longer ones in many orders.
Array(keys) == [i \in 0 .. Len(keys) - 1 |-> [key |-> keys[i + 1], id |-> i]]
SortJob(keys) == [fn |-> "qsort", a |-> Array(keys), n |-> Len(keys)]
Steps(n, m) == [i \in 1 .. n |-> (i * m) % 29]
Mountain(n) == [i \in 1 .. n |-> IF 2 * i <= n THEN i ELSE n - i]
MCSorts ==
  {SortJob(k) : k \in Seqs(1 .. 3, 6) \union [1 .. 9 -> 1 .. 2] \union {Steps(28, m) : m \in 1 .. 28}
                      \union {Mountain(n) : n \in 10 .. 24}}

----------------------------------------------------------------------------
\* Source texts of up to three pieces.
Literal(string, bytes) == [string |-> string, bytes |-> bytes]
Name(w) == [text |-> w, tokens |-> <<w>>, literals |-> <<>>]
Comment(c) == [text |-> <<Hash>> \o c \o <<Newline>>, tokens |-> <<>>, literals |-> <<>>]
Quoted(bytes) == [text |-> StringOf(bytes), tokens |-> <<StringOf(bytes)>>, literals |-> <<Literal(TRUE, bytes)>>]
Single(b) == [text |-> CharacterOf(b), tokens |-> <<CharacterOf(b)>>, literals |-> <<Literal(FALSE, <<b>>)>>]
Odd == {0, 9, 10, 32, Quote, Tick, Backslash, Hash, 97}
Pieces ==
  {Name(<<97, 98>>), Name(<<59>>), Comment(<<97, Quote, 32>>), Comment(<<>>)}
  \union {Quoted(b) : b \in {<<>>, <<Hash, 32, Quote>>, <<Backslash, 110>>} \union {<<b>> : b \in Odd}}
  \union {Single(b) : b \in Odd}
Beside(x, sep, y) == [text |-> x.text \o sep \o y.text, tokens |-> x.tokens \o y.tokens,
                      literals |-> x.literals \o y.literals]
LexJob(x) == [fn |-> "lex", mem |-> <<>>, text |-> x.text, tokens |-> x.tokens, literals |-> x.literals]
MCLexed ==
  {LexJob(Beside(Beside(x, <<32>>, y), s, z)) :
     x \in Pieces, y \in Pieces, s \in {<<10>>, <<9, 32>>}, z \in {Name(<<97>>), Comment(<<Tick>>), Quoted(<<10>>)}}

----------------------------------------------------------------------------
\* Expressions of two operators in every combination, and of three from one
\* of each level.
Leaf(name) == Operand(name, "")
Tree(name, l, m, x) == Operator(name, l, m, x, "")
Infixes == UNION {Levels[l] : l \in DOMAIN Levels} \ {"?"}
Unaries == {AsPrefix(tok) : tok \in Prefixes \ {"defined"}}
\* Every operator on operands x, y and z.
Around(x, y, z) ==
  {Tree(name, x, NoTree, y) : name \in Infixes \union {"[", "("}}
  \union {Tree(name, Placeholder, NoTree, x) : name \in Unaries}
  \union {Tree(name, x, NoTree, Placeholder) : name \in {"++_POST", "--_POST", "("}}
  \union {Tree(name, x, NoTree, Leaf("m")) : name \in {".", "->"}}
  \union {Tree("?", x, z, y), Operator("(_PRE", Placeholder, NoTree, x, "int")}
A == Leaf("a")
Leveled == {"=", "+=", "?", "||", "&&", "|", "^", "&", "==", "<", "<<", "-", "%", ",", "(_PRE", "*_PRE", "--_PRE",
            "sizeof_PRE", "--_POST", "[", "(", "."}
Coarse == {"=", "?", "-", "*_PRE", "["}
Some(names, x, y, z) == {e \in Around(x, y, z) : e.name \in names}
Single1 == Around(A, A, A) \union {Operand("sizeof", "int")}
Nested ==
  UNION {Around(e, A, A) \union Around(A, e, A) \union Around(A, A, e) :
           e \in Some(Leveled, A, A, A) \union {Operand("sizeof", "int")}}
Thrice ==
  UNION {Some(Coarse, e, A, A) \union Some(Coarse, A, e, A) \union Some(Coarse, A, A, e) :
           e \in UNION {Some(Coarse, f, A, A) \union Some(Coarse, A, f, A) \union Some(Coarse, A, A, f) : f \in Some(Coarse, A, A, A)}}
ExpressionJob(toks, tree, constant) ==
  [fn |-> "expression", mem |-> <<>>, toks |-> toks, tree |-> tree, constant |-> constant]
Meant(trees, constant) == {ExpressionJob(Derived(e, Whole), e, constant) : e \in trees}
Loose ==
  {ExpressionJob(toks, NoTree, FALSE) : toks \in [1 .. 4 -> {"a", "-", "=", "++", "?", ":", "(", ")"}]}

Computed(x, y, z) ==
  {Tree(name, x, NoTree, y) : name \in Infixes \ (Assigning \union {","})}
  \union {Tree(name, Placeholder, NoTree, x) : name \in {"!_PRE", "~_PRE", "-_PRE"}} \union {Tree("?", x, z, y)}
Constants1 ==
  UNION {Computed(e, z, Leaf("3")) \union Computed(z, e, Leaf("3")) :
           z \in {Leaf("1"), Leaf("3")}, e \in UNION {Computed(v, Leaf("2"), Leaf("1")) : v \in {Leaf("0"), Leaf("3")}}}

MCExpressions ==
  Meant(Single1 \union Nested \union Thrice, FALSE) \union Meant(Constants1, TRUE) \union Loose
----------------------------------------------------------------------------
\* Two macros with parameters, which call each other's results, and one
\* without; a text with one use of them.
UnitJob(fn, lines, files) == [fn |-> fn, mem |-> <<>>, lines |-> lines, files |-> files]
Object(toks) == Subst(FALSE, <<>>, toks)
OfX(toks) == Subst(TRUE, <<"x">>, toks)
OfXY(toks) == Subst(TRUE, <<"x", "y">>, toks)
Objects == {<<>>, <<"1">>, <<"a", " ", "1">>, <<"G">>, <<"G", "(", "1", ")">>}
Inner ==
  {OfX(t) : t \in {<<>>, <<"x">>, <<"x", "x">>, <<"#", "x">>, <<"a", " ", "##", " ", "x">>, <<"x", "##", "1">>}}
  \union {OfXY(t) : t \in {<<"x", "##", "y">>, <<"y", " ", "x">>, <<"#", "x", "#", "y">>, <<"(", "x", "+", "y", ")">>}}
Call(name, arguments) == <<name, "(">> \o arguments \o <<")">>
Outer == {<<"x">>, <<"A", " ", "x">>, <<"#", "x">>, <<"G", "##", "x">>} \union
         {Call("G", t) : t \in {<<"x">>, <<"x", ",", "A">>, <<"A", " ", "x">>, <<"x", "##", "1">>, <<"1", ",", "x">>}}
Uses ==
  {<<"A">>, <<"F">>, <<"F", " ", "\n", "(", "1", ")">>}
  \union {Call("F", t) : t \in {<<>>, <<"a">>, <<"A">>, <<"1", " ", "A">>, <<"(", "1", ",", "1", ")">>, Call("G", <<"1">>),
                                Call("G", <<"1", ",", "A">>), Call("F", <<"1">>)}}
  \union {Call("G", t) : t \in {<<"1">>, <<"a", ",", "A">>, <<"A">>, <<" ", "a", " ", ",", "1">>}}
Definitions(o, g, f) == <<DefineLine("A", Object(o)), DefineLine("G", g), DefineLine("F", OfX(f))>>
MCExpansions ==
  {UnitJob("expansion", Append(Definitions(o, g, f), TextLine(<<"!">> \o u \o <<"!">>)), <<>>) :
     o \in Objects, g \in Inner, f \in Outer, u \in Uses}

\* A file with a group of up to three branches that tests, defines and forgets
\* two macros, with another group inside; and files that include one another.
Show(toks) == TextLine(<<"!">> \o toks)
Set(name, toks) == DefineLine(name, Object(toks))
EitherOr(test, name, first, second) ==
  Groups(<<Branch(test, Leaf(name), first), Branch("else", NoTree, second)>>)
Beginnings ==
  {<<>>, <<Set("A", <<"1">>)>>, <<Show(<<"A">>), Set("B", <<"0">>), Set("A", <<"(", "B", ")">>)>>,
   <<Set("A", <<"1">>), Show(<<"A">>), UndefLine("A"), Show(<<"A">>)>>}
Bodies ==
  {<<Show(<<"A", "B">>)>>, <<Show(<<"B">>), Set("B", <<"3">>), Show(<<"B">>)>>, <<UndefLine("A"), Show(<<"A">>)>>,
   <<EitherOr("ifndef", "B", <<Set("B", <<"A">>), Show(<<"B">>)>>, <<UndefLine("B"), Show(<<"B">>)>>)>>}
IsDefined(name) == Tree("defined_PRE", Placeholder, NoTree, Leaf(name))
Negated(e) == Tree("!_PRE", Placeholder, NoTree, e)
Test(e, lines) == Branch("if", e, lines)
Tests ==
  {Leaf("A"), Negated(IsDefined("A")), Tree("&&", IsDefined("B"), NoTree, Tree("==", Leaf("A"), NoTree, Leaf("B")))}
Openings(lines) ==
  {Branch(t, Leaf("A"), lines) : t \in {"ifdef", "ifndef"}} \union {Test(e, lines) : e \in Tests}
Endings == {<<>>, <<Branch("else", NoTree, <<Show(<<"A", "B">>)>>)>>}
Branches ==
  UNION {{<<o>> \o e, <<o, t>> \o e} :
           o \in UNION {Openings(l) : l \in Bodies}, e \in Endings, t \in {Test(u, l) : u \in Tests, l \in Bodies}}
Conditional == {b \o <<Groups(g), Show(<<"A", " ", "B">>)>> : b \in Beginnings, g \in Branches}

Guarded(name, lines) == <<Groups(<<Branch("ifndef", Leaf(name), <<Set(name, <<>>)>> \o lines)>>)>>
Header(lines) == ("h" :> lines) @@ ("k" :> Guarded("B", <<IncludeLine("h")>>))
Including(l) == <<Show(<<"A">>), IncludeLine("k"), Show(<<"A">>), IncludeLine(l), Show(<<"A", "B">>)>>
MCUnits ==
  {UnitJob("unit", l, <<>>) : l \in Conditional}
  \union {UnitJob("unit", b \o Including(l), Header(h)) :
            b \in Beginnings, l \in {"h", "k"}, h \in {Guarded("A", c) : c \in Bodies} \union Bodies}
MCIncludePath == <<"/old/", "/inc/">>
MCAtoi == ("0" :> 0) @@ ("1" :> 1) @@ ("2" :> 2) @@ ("3" :> 3)
=============================================================================
