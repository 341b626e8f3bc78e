----------------------------- MODULE Tl13Parser -----------------------------
(***************************************************************************)
(* program() of tl13/src/Parser.java: the tokens of a program become a     *)
(* syntax tree, or an exception.                                           *)
(*                                                                         *)
(* q is a Scanner that has scanned; nextToken is token i of its list, and  *)
(* its lexeme is lexeme i.  A method of the parser returns a record: the   *)
(* token it stops at and the tree, or Fails.  A list that has no token i   *)
(* makes getNextToken throw, which no method survives.                     *)
(***************************************************************************)
EXTENDS Tl13Scanner, Tl13Types

Fails == [i |-> 0, e |-> "none"]

Tok(q, i) == IF i \in DOMAIN q.tokens THEN q.tokens[i] ELSE "-"

Lexeme(q, i) == q.lexemes[i]

(* What a name, a number and a character stand for. *)
Place == [c \in Capital \cup Digit |->
            CHOOSE n \in 0 .. 13 : <<"0", "1", "2", "3", "4", "5", "6", "7", "8", "9",
                                     "A", "B", "C", "D">>[n + 1] = c]

NumberOf(lexeme) == FoldLeft(LAMBDA v, c : 10 * v + Place[c], 0, lexeme)
NameOf(lexeme) == FoldLeft(LAMBDA v, c : 14 * v + Place[c] - 9, 0, lexeme)
CodeOf(lexeme) ==
    CASE lexeme[1] = "a" -> 5 [] lexeme[1] = "b" -> 6 [] lexeme[1] = "'" -> 7 [] OTHER -> -8

Leaves == {"IDENT", "NUMBER", "TRUE", "FALSE", "CHARACTER"}

LeafOf(q, i) ==
    LET l == Lexeme(q, i)
    IN  CASE Tok(q, i) = "IDENT" -> [kind |-> "ident", name |-> NameOf(l)]
          [] Tok(q, i) = "NUMBER" -> [kind |-> "num", v |-> NumberOf(l)]
          [] Tok(q, i) = "CHARACTER" -> [kind |-> "char", v |-> CodeOf(l)]
          [] Tok(q, i) \in {"TRUE", "FALSE"} ->
               [kind |-> "bool", v |-> IF Tok(q, i) = "TRUE" THEN 1 ELSE 0]

TermOf == "TIMES" :> "mult" @@ "DIVIDE" :> "div" @@ "MOD" :> "mod"
SumOf == "PLUS" :> "add" @@ "MINUS" :> "sub"
RelationOf ==
    "EQUAL" :> "cmp_EQ" @@ "UNEQUAL" :> "cmp_NE" @@ "MORE" :> "cmp_GT" @@ "MOREEQ" :> "cmp_GE"
        @@ "LESS" :> "cmp_LT" @@ "LESSEQ" :> "cmp_LE"

(* The methods call each other by parse[method, token], defined below.      *)

(* An operand, and a second one behind an operator of this level; without   *)
(* an operator, a token of follow must come next.                           *)
Level(q, parse, i, operand, ops, follow) ==
    LET left == parse[operand, i]
        right == parse[operand, left.i + 1]
    IN  CASE left.i = 0 -> Fails
          [] left.i # 0 /\ Tok(q, left.i) \in DOMAIN ops ->
               IF right.i = 0 THEN Fails
               ELSE [i |-> right.i, e |-> [kind |-> "op", op |-> ops[Tok(q, left.i)],
                                           left |-> left.e, right |-> right.e]]
          [] left.i # 0 /\ Tok(q, left.i) \in follow -> left
          [] left.i # 0 /\ Tok(q, left.i) \notin DOMAIN ops \cup follow -> Fails

ExpressionEnd == {"SC", "DO", "THEN"}

(* The expression in parentheses ends with an SC, as every expression does; *)
(* where a factor is due, an SC is an empty factor.                         *)
factor(q, parse, i) ==
    LET inner == parse["expression", i + 1]
    IN  CASE Tok(q, i) \in Leaves -> [i |-> i + 1, e |-> LeafOf(q, i)]
          [] Tok(q, i) = "LPAREN" ->
               IF inner.i # 0 /\ Tok(q, inner.i + 1) = "RPAREN"
               THEN [inner EXCEPT !.i = @ + 2] ELSE Fails
          [] Tok(q, i) = "SC" -> [i |-> i, e |-> [kind |-> "empty"]]
          [] Tok(q, i) \notin Leaves \cup {"LPAREN", "SC"} -> Fails

term(q, parse, i) ==
    Level(q, parse, i, "factor", TermOf,
          ExpressionEnd \cup DOMAIN RelationOf \cup DOMAIN SumOf)

simpleExpression(q, parse, i) ==
    Level(q, parse, i, "term", SumOf, ExpressionEnd \cup DOMAIN RelationOf)

(* Mutant: the operands of a comparison change places. *)
expression_Swapped(q, parse, i) ==
    LET r == Level(q, parse, i, "simpleExpression", RelationOf, ExpressionEnd)
    IN  IF r.i # 0 /\ r.e.kind = "op" /\ r.e.op \in RelationOps
        THEN [r EXCEPT !.e.left = r.e.right, !.e.right = r.e.left] ELSE r

expression(q, parse, i) == Level(q, parse, i, "simpleExpression", RelationOf, ExpressionEnd)

Starts == {"IDENT", "NUMBER", "TRUE", "FALSE", "LPAREN"}

(* An expression, or none at all. *)
Optional(q, parse, i) ==
    IF Tok(q, i) \in Starts THEN parse["expression", i] ELSE [i |-> i, e |-> [kind |-> "none"]]

assignment(q, parse, i) ==
    LET e == parse["expression", i + 2]
        name == NameOf(Lexeme(q, i))
    IN  CASE Tok(q, i + 1) = "ASSIGN" /\ Tok(q, i + 2) = "READINT" ->
               [i |-> i + 3, e |-> [kind |-> "read", name |-> name]]
          [] Tok(q, i + 1) = "ASSIGN" /\ Tok(q, i + 2) \in Starts \cup {"CHARACTER"} ->
               [i |-> e.i, e |-> [kind |-> "assign", name |-> name, e |-> e.e]]
          [] OTHER -> Fails

writeInt_(q, parse, i) ==
    LET e == Optional(q, parse, i + 1) IN [i |-> e.i, e |-> [kind |-> "write", e |-> e.e]]

(* Where the statements of a program or a body end, and those of a then.    *)
StopsOf == "statements" :> {"END"} @@ "then" :> {"ELSE", "END"}

Statements(q, parse, i, method) ==
    LET first == parse["statementSequence", i]
        rest == parse[method, first.i]
    IN  IF i = 0 \/ Tok(q, i) \in StopsOf[method] THEN [i |-> i, e |-> <<>>]
        ELSE [i |-> rest.i, e |-> <<first.e>> \o rest.e]

(* An if or a while: its expression, a keyword, its statements.             *)
Head_(q, parse, i, keyword) ==
    LET e == Optional(q, parse, i + 1)
    IN  IF e.i # 0 /\ Tok(q, e.i) = keyword THEN [e EXCEPT !.i = @ + 1] ELSE Fails

(* The else is not passed over: the statements behind it are looked for at  *)
(* the else, which starts none.                                             *)
ifStatement(q, parse, i) ==
    LET cond == Head_(q, parse, i, "THEN")
        then == parse["then", cond.i]
        else == parse["statements", then.i]
    IN  IF else.i = 0 THEN Fails
        ELSE [i |-> else.i + 1,
              e |-> [kind |-> "if", e |-> cond.e, body |-> then.e, else |-> else.e]]

whileStatement(q, parse, i) ==
    LET cond == Head_(q, parse, i, "DO")
        body == parse["statements", cond.i]
    IN  IF body.i = 0 THEN Fails
        ELSE [i |-> body.i + 1,
              e |-> [kind |-> "while", e |-> cond.e, body |-> body.e, else |-> <<>>]]

EndOfStatement(q, s) ==
    IF s.i # 0 /\ Tok(q, s.i) = "SC" THEN [s EXCEPT !.i = @ + 1] ELSE Fails

statementSequence(q, parse, i) ==
    EndOfStatement(q,
        CASE Tok(q, i) = "IDENT" -> assignment(q, parse, i)
          [] Tok(q, i) = "IF" -> ifStatement(q, parse, i)
          [] Tok(q, i) = "WHILE" -> whileStatement(q, parse, i)
          [] Tok(q, i) = "WRITEINT" -> writeInt_(q, parse, i)
          [] OTHER -> Fails)

TypeNames == "INT" :> "int" @@ "BOOL" :> "bool" @@ "CHAR" :> "char"

declarations(q, parse, i) ==
    LET rest == parse["declarations", i + 5]
        is(n, toks) == Tok(q, i + n) \in toks
    IN  CASE is(0, {"BEGIN"}) -> [i |-> i, e |-> <<>>]
          [] /\ is(0, {"VAR"}) /\ is(1, {"IDENT"}) /\ is(2, {"AS"})
             /\ is(3, DOMAIN TypeNames) /\ is(4, {"SC"}) ->
               [i |-> rest.i, e |-> <<[name |-> NameOf(Lexeme(q, i + 1)),
                                       type |-> TypeNames[Tok(q, i + 3)]]>> \o rest.e]
          [] OTHER -> [i |-> 0, e |-> <<>>]

Methods == {"factor", "term", "simpleExpression", "expression", "statementSequence",
            "declarations"} \cup DOMAIN StopsOf

program_(q) ==
    LET parse[m \in Methods, i \in Nat] ==
          CASE m = "factor" -> factor(q, parse, i)
            [] m = "term" -> term(q, parse, i)
            [] m = "simpleExpression" -> simpleExpression(q, parse, i)
            [] m = "expression" -> expression(q, parse, i)
            [] m = "statementSequence" -> statementSequence(q, parse, i)
            [] m = "declarations" -> declarations(q, parse, i)
            [] m \in DOMAIN StopsOf -> Statements(q, parse, i, m)
        decls == parse["declarations", 2]
        stmts == parse["statements", decls.i + 1]
    IN  IF /\ Tok(q, 1) = "PROGRAM"
           /\ decls.i # 0
           /\ stmts.i # 0
           /\ Tok(q, stmts.i + 1) = "EOF"
        THEN [i |-> stmts.i, e |-> [decls |-> decls.e, stmts |-> stmts.e]]
        ELSE Fails
=============================================================================
