------------------------------- MODULE GLexer -------------------------------
(***************************************************************************)
(* The lexer of the G compiler in C (attic/gstaging.c), and how it reads   *)
(* its literals.  Characters are codes; a text is a sequence of them.      *)
(***************************************************************************)
EXTENDS CString

Quote == 34       \* "
Tick == 39        \* '
Backslash == 92
Hash == 35
Newline == 10

is_whitespace2(x) == x \in {32, 9, 10}

\* The six states of get_token2, by number in the code: outside (0), in a
\* comment (1), in a string (2), after a backslash there (3), in a character
\* (4), after a backslash there (5).
Rule(state, save, stop) == [state |-> state, save |-> save, stop |-> stop]

Outside(x, some) ==
  IF is_whitespace2(x) THEN Rule(0, FALSE, some)
  ELSE IF x = Hash THEN Rule(1, FALSE, FALSE)
  ELSE Rule(IF x = Quote THEN 2 ELSE IF x = Tick THEN 4 ELSE 0, TRUE, FALSE)

\* Mutant: what follows a backslash may end the literal.
Within_NoEscape(state, x, close) == Rule(IF x = close THEN 0 ELSE state, TRUE, FALSE)

Within(state, x, close) ==
  Rule(IF x = close THEN 0 ELSE IF x = Backslash THEN state + 1 ELSE state, TRUE, FALSE)

\* some: a token has begun.
Lex(state, x, some) ==
  CASE state = 0 -> Outside(x, some)
    [] state = 1 -> IF x = Newline THEN Rule(0, FALSE, some) ELSE Rule(1, FALSE, FALSE)
    [] state = 2 -> Within(2, x, Quote)
    [] state = 4 -> Within(4, x, Tick)
    [] state \in {3, 5} -> Rule(state - 1, TRUE, FALSE)

RECURSIVE Token(_, _, _, _)
Token(text, p, state, token) ==
  IF p > Len(text) THEN [token |-> token, p |-> p]
  ELSE LET l == Lex(state, text[p], token # <<>>)
           t == IF l.save THEN Append(token, text[p]) ELSE token
       IN  IF l.stop THEN [token |-> t, p |-> p + 1] ELSE Token(text, p + 1, l.state, t)

get_token2(text, p) == Token(text, p, 0, <<>>)

\* The tokens up to the empty one, which is the end of the file.
RECURSIVE Tokens(_, _)
Tokens(text, p) ==
  LET t == get_token2(text, p)
  IN  IF t.token = <<>> THEN <<>> ELSE <<t.token>> \o Tokens(text, t.p)

----------------------------------------------------------------------------

escaped2(x) ==
  CASE x = 110 -> 10 [] x = 116 -> 9 [] x = 48 -> 0
    [] x \in {Backslash, Tick, Quote} -> x [] OTHER -> 0

Panics == <<-1>>       \* not bytes

\* emit_escaped_string2, from the character at p on: the closing quote is the
\* last character of the token.
RECURSIVE EmitFrom(_, _, _)
EmitFrom(token, p, bytes) ==
  IF p > Len(token) THEN Panics
  ELSE IF token[p] = Quote THEN IF p = Len(token) THEN bytes ELSE Panics
  ELSE IF token[p] # Backslash THEN EmitFrom(token, p + 1, Append(bytes, token[p]))
  ELSE IF p = Len(token) THEN Panics
  ELSE EmitFrom(token, p + 2, Append(bytes, escaped2(token[p + 1])))

emit_escaped_string2(token) == IF token[1] = Quote THEN EmitFrom(token, 2, <<>>) ELSE Panics

\* decode_number_or_char2, for a character.
CharAt(token, i, length) ==
  IF Len(token) = length /\ token[length] = Tick THEN <<token[i]>> ELSE Panics
decode_number_or_char2(token) ==
  IF Len(token) > 1 /\ token[2] = Backslash
  THEN IF CharAt(token, 3, 4) = Panics THEN Panics ELSE <<escaped2(token[3])>>
  ELSE CharAt(token, 2, 3)
=============================================================================
