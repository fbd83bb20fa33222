----------------------------- MODULE MCGMachine -----------------------------
EXTENDS GStaging

T(k) == [k |-> k, name |-> NoName, n |-> 0, sym |-> NoName]
N(k, text, n) == [k |-> k, name |-> Name(text), n |-> n, sym |-> NoName]
Braces == {T("{"), T("}")}

f == N("fun", "f", 0)
one == N("num", "", 1)

\* Control structure; locals and temporaries; strings and calls; symbols.
Control ==
  [tokens |-> Braces \union {f, T("if"), T("else"), T("while"), one}, max |-> 11, files |-> 1]
Locals ==
  [tokens |-> Braces \union {f, T("if"), N("alloc", "x", 0), N("name", "x", 0), T(";"), T("ret"), one},
   max |-> 9, files |-> 1]
Applied ==
  [tokens |-> Braces \union {f, N("str", "", 2), N("name", "+", 0), N("name", "f", 0),
                             N("addr", "f", 0), N("icall", "", 0), T("ret"), T(";")},
   max |-> 8, files |-> 1]
Symbols ==
  [tokens |-> Braces \union {f, N("ifun", "f", 0), N("const", "c", 7), N("var", "v", 0), N("array", "a", 3),
                             N("name", "f", 0), N("name", "c", 0), N("addr", "v", 0), T(";")},
   max |-> 7, files |-> 1]
Loops ==
  [tokens |-> Braces \union {f, N("alloc", "x", 0), N("name", "x", 0), T("while"), T(";")},
   max |-> 10, files |-> 1]

\* Two files in a row: prototypes, definitions and calls that cross them; the
\* labels of one and of the next; data and constants, one given by a symbol.
Calling ==
  [tokens |-> Braces \union {f, N("fun", "g", 1), N("ifun", "g", 1), one,
                             N("name", "g", 0), N("name", "f", 0), T(";")},
   max |-> 7, files |-> 2]
Branching ==
  [tokens |-> Braces \union {f, N("fun", "h", 0), one, T("if")}, max |-> 7, files |-> 2]
Data ==
  [tokens |-> {N("var", "v", 0), N("const", "c", 7), N("array", "a", 3),
               [N("const", "d", 0) EXCEPT !.sym = Name("c")],
               [N("array", "b", 0) EXCEPT !.sym = Name("c")]},
   max |-> 4, files |-> 2]

MCAlphabets ==
  {Control, Locals, Applied, Symbols, Loops, Calling, Branching, Data}
LoopAlphabet == {Loops}
MCKernel == PreambleSymbols
=============================================================================
