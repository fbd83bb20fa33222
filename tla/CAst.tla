-------------------------------- MODULE CAst --------------------------------
(***************************************************************************)
(* The expression parser of the C compiler (asmg/c_ast.g), which the       *)
(* compiler and the preprocessor share, and the evaluation of constant     *)
(* expressions.  A token is a string, an expression a sequence of them.    *)
(* The parser keeps a stack of operators and one of operands; operators    *)
(* with one operand get a placeholder for the other.                       *)
(***************************************************************************)
EXTENDS Integers, Sequences

CONSTANTS
  TypeNames,   \* tokens at which ASTINT_PARSE_TYPE finds a type: none in the preprocessor
  Word         \* 2^32: numbers have two words

\* A node.  A placeholder is an operand without a name.
Operand(name, cast) == [kind |-> "operand", name |-> name, cast |-> cast]
Operator(name, left, center, right, cast) ==
  [kind |-> "operator", name |-> name, left |-> left, center |-> center, right |-> right, cast |-> cast]
Placeholder == Operand("", "")
NoTree == [kind |-> "none", name |-> ""]

Assigning == {"=", "+=", "-=", "*=", "/=", "%=", "<<=", ">>=", "&=", "^=", "|="}
Prefixes == {"defined", "sizeof", "!", "~", "++", "--", "+", "-", "*", "&"}

ast_is_operator(str) ==
  str \in Assigning \union Prefixes
          \union {".", "->", "/", "%", "<<", ">>", "<", "<=", ">", ">=", "==", "!=", "^", "|", "&&", "||", "?", ","}

\* The name of an operator as a prefix and after its operand.
AsPrefix(tok) == tok \o "_PRE"
AsPostfix(tok) == tok \o "_POST"

NotAnOperator == 0
ast_get_priority(str) ==
  CASE str \in {"++_POST", "--_POST", "(", "[", ".", "->"} -> 1
    [] str = "(_PRE" \/ \E tok \in Prefixes : str = AsPrefix(tok) -> 2
    [] str \in {"*", "/", "%"} -> 3
    [] str \in {"+", "-"} -> 4
    [] str \in {"<<", ">>"} -> 5
    [] str \in {"<", "<=", ">", ">="} -> 6
    [] str \in {"==", "!="} -> 7
    [] str = "&" -> 8
    [] str = "^" -> 9
    [] str = "|" -> 10
    [] str = "&&" -> 11
    [] str = "||" -> 12
    [] str = "?" -> 13
    [] str \in Assigning -> 14
    [] str = "," -> 15
    [] str = " " -> 100
    [] OTHER -> NotAnOperator

\* TRUE is left to right.
ast_get_ass_direction(str) == ast_get_priority(str) \notin {2, 13, 14, 100}

-----------------------------------------------------------------------------
(* The stacks.  A state of the parser that has failed an assertion has    *)
(* failed set and is not continued.                                        *)

Top(s) == s[Len(s)]
Start == [failed |-> FALSE, expect_operator |-> FALSE, operators |-> <<>>, operands |-> <<>>, centers |-> <<>>]
Failed == [Start EXCEPT !.failed = TRUE]

\* The operator below the top of the stack takes the two operands on top.
Reduced(s, n) ==
  LET name == s.operators[n - 1]
      center == s.centers[n - 1]
      ast == Operator(name, s.operands[n - 1], IF name = "?" THEN center ELSE NoTree, s.operands[n],
                      IF name = "(_PRE" THEN center.name ELSE "")
  IN  IF name = "?" /\ center = NoTree THEN Failed
      ELSE [s EXCEPT !.operators = SubSeq(@, 1, n - 2) \o <<@[n]>>, !.centers = SubSeq(@, 1, n - 2) \o <<@[n]>>,
                     !.operands = SubSeq(@, 1, n - 2) \o <<ast>>]

\* Mutant: all operators group from the left.
Yields_Left(top, below) == ast_get_priority(top) >= ast_get_priority(below)
\* What is on top binds less than what is below it.
Yields(top, below) ==
  \/ ast_get_priority(top) > ast_get_priority(below)
  \/ ast_get_priority(top) = ast_get_priority(below) /\ ast_get_ass_direction(top)

RECURSIVE ast_rewind_stack(_)
ast_rewind_stack(s) ==
  LET n == Len(s.operators)
  IN  IF s.failed \/ Len(s.operands) # n \/ Len(s.centers) # n THEN Failed
      ELSE IF n < 2 THEN s
      ELSE IF NotAnOperator \in {ast_get_priority(s.operators[n]), ast_get_priority(s.operators[n - 1])} THEN Failed
      ELSE IF Yields(s.operators[n], s.operators[n - 1]) THEN ast_rewind_stack(Reduced(s, n))
      ELSE s

PushOperator(s, name, center) ==
  [s EXCEPT !.operators = Append(@, name), !.centers = Append(@, center)]
PushOperand(s, ast) == [s EXCEPT !.operands = Append(@, ast)]

-----------------------------------------------------------------------------
(* The parser.  toks is what ASTINT_GET_TOKEN delivers; p is the next one.*)

Peek(toks, p) == IF p > Len(toks) THEN "" ELSE toks[p]

\* A parse goes on at p with the stacks s; when it is over, tree is the result.
Here(s, p) == [s |-> s, p |-> p]
Stops == Here(Failed, 1)
Parsed(tree, p) == [failed |-> FALSE, tree |-> tree, p |-> p]
Refused == [failed |-> TRUE, tree |-> NoTree, p |-> 1]

RECURSIVE ast_parsev(_, _, _)

\* An expression e was parsed up to a token, which is there.
Enclosed(toks, e, close) == ~e.failed /\ Peek(toks, e.p) = close

Binary(s, name, center) == [ast_rewind_stack(PushOperator(s, name, center)) EXCEPT !.expect_operator = FALSE]
Applied(s, name, argument) == PushOperand(ast_rewind_stack(PushOperator(s, name, NoTree)), argument)

\* After an operand: an operator, a call or an index.
Close(tok) == CASE tok = "?" -> ":" [] tok = "(" -> ")" [] tok = "[" -> "]"
WithInner(toks, s, tok, e) ==
  IF ~Enclosed(toks, e, Close(tok)) THEN Stops
  ELSE Here(IF tok = "?" THEN Binary(s, tok, e.tree) ELSE Applied(s, tok, e.tree), e.p + 1)

AfterOperand(toks, p, s) ==
  LET tok == toks[p]
  IN  CASE tok \in {"++", "--"} -> Here(Applied(s, AsPostfix(tok), Placeholder), p + 1)
        [] tok = "(" /\ Peek(toks, p + 1) = ")" -> Here(Applied(s, tok, Placeholder), p + 2)
        [] tok \in {"?", "(", "["} /\ ~(tok = "(" /\ Peek(toks, p + 1) = ")") ->
             WithInner(toks, s, tok, ast_parsev(toks, p + 1, {Close(tok)}))
        [] ast_is_operator(tok) /\ tok \notin {"++", "--", "?"} -> Here(Binary(s, tok, NoTree), p + 1)
        [] OTHER -> Stops

Found(s, ast) == [PushOperand(s, ast) EXCEPT !.expect_operator = TRUE]
Unary(s, name, center) == PushOperand(PushOperator(s, name, center), Placeholder)

Parenthesised(toks, s, e) ==
  IF Enclosed(toks, e, ")") THEN Here(Found(s, e.tree), e.p + 1) ELSE Stops

\* Where an operand is due: a prefix operator, a cast, a parenthesis, an
\* operand.  sizeof of a type is an operand.
WhereOperand(toks, p, s) ==
  LET tok == toks[p]
      type == Peek(toks, p + 1)
      sized == Peek(toks, p + 2)
  IN  CASE tok = "sizeof" /\ type = "(" /\ sized \in TypeNames ->
             IF Peek(toks, p + 3) = ")" THEN Here(Found(s, Operand(tok, sized)), p + 4) ELSE Stops
        [] tok \in Prefixes /\ ~(tok = "sizeof" /\ type = "(" /\ sized \in TypeNames) ->
             Here(Unary(s, AsPrefix(tok), NoTree), p + 1)
        [] ast_is_operator(tok) /\ tok \notin Prefixes -> Stops
        [] tok = "(" /\ type \in TypeNames ->
             IF sized = ")" THEN Here(Unary(s, "(_PRE", Operand(type, "")), p + 3) ELSE Stops
        [] tok = "(" /\ type \notin TypeNames ->
             Parenthesised(toks, s, ast_parsev(toks, p + 1, {")"}))
        [] OTHER -> Here(Found(s, Operand(tok, "")), p + 1)

\* A last operator that yields to all others empties the stacks.
Emptied(s, p) == IF s.failed \/ Len(s.operators) # 1 THEN Refused ELSE Parsed(s.operands[1], p)
Finished(s, p) ==
  IF ~s.expect_operator THEN Refused ELSE Emptied(ast_rewind_stack(PushOperator(s, " ", NoTree)), p)

\* What precedes an operand is rewound, too.
Settled(a) == IF a.s.expect_operator THEN a ELSE Here(ast_rewind_stack(a.s), a.p)

RECURSIVE Loop(_, _, _)
Loop(toks, a, end_toks) ==
  IF a.s.failed THEN Refused
  ELSE IF a.p > Len(toks) \/ Peek(toks, a.p) \in end_toks THEN Finished(a.s, a.p)
  ELSE IF toks[a.p] = " " THEN Loop(toks, Here(a.s, a.p + 1), end_toks)
  ELSE Loop(toks, Settled(IF a.s.expect_operator THEN AfterOperand(toks, a.p, a.s)
                          ELSE WhereOperand(toks, a.p, a.s)), end_toks)

ast_parsev(toks, p, end_toks) == Loop(toks, Here(Start, p), end_toks)
ast_parse1(toks, p, end_tok) == ast_parsev(toks, p, {end_tok})

-----------------------------------------------------------------------------
(* Constant expressions: the numbers are those of int64.g, of two words,  *)
(* here without sign.                                                     *)

Wide == Word * Word
SignedWide(v) == IF 2 * v >= Wide THEN v - Wide ELSE v
Truth(b) == IF b THEN 1 ELSE 0
Cut(v) == v % Wide

\* Bit by bit: bit[n + 1] is the result when n of the two bits are set.
BitWise(bit, x, y) ==
  LET from[k \in 0 .. 31] ==
        IF 2^k >= Wide THEN 0
        ELSE bit[((x \div 2^k) % 2) + ((y \div 2^k) % 2) + 1] * 2^k + from[k + 1]
  IN  from[0]

\* The count of a shift: of the lower word, and modulo a word once more when
\* it is that long.
WordBits == CHOOSE b \in 1 .. 32 : 2^b = Word
Count(y) == IF y % Word < WordBits THEN y % Word ELSE WordBits + ((y % Word) % WordBits)

NoValue == -1       \* the system stops

EvalPrefix(name, x) ==
  CASE name = "!_PRE" -> Truth(x = 0)
    [] name = "~_PRE" -> Wide - 1 - x
    [] name = "-_PRE" -> Cut(Wide - x)

EvalBinary(name, x, y) ==
  CASE name = "&&" -> Truth(x # 0 /\ y # 0)
    [] name = "||" -> Truth(x # 0 \/ y # 0)
    [] name = "&" -> BitWise(<<0, 0, 1>>, x, y)
    [] name = "|" -> BitWise(<<0, 1, 1>>, x, y)
    [] name = "^" -> BitWise(<<0, 1, 0>>, x, y)
    [] name = "==" -> Truth(x = y)
    [] name = "!=" -> Truth(x # y)
    [] name = ">=" -> Truth(SignedWide(x) >= SignedWide(y))
    [] name = "<=" -> Truth(SignedWide(x) <= SignedWide(y))
    [] name = ">" -> Truth(SignedWide(x) > SignedWide(y))
    [] name = "<" -> Truth(SignedWide(x) < SignedWide(y))
    [] name = "+" -> Cut(x + y)
    [] name = "-" -> Cut(Wide + x - y)
    [] name = "*" -> Cut(x * y)
    [] name = "/" -> IF y = 0 THEN NoValue ELSE x \div y
    [] name = "%" -> IF y = 0 THEN NoValue ELSE x % y
    [] name = "<<" -> Cut(x * 2^Count(y))
    [] name = ">>" -> x \div 2^Count(y)
    [] OTHER -> NoValue
=============================================================================
