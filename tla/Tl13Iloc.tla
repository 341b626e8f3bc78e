----------------------------- MODULE Tl13Iloc -----------------------------
(***************************************************************************)
(* program_iloc of tl13/src/Program_ast.java: the ILOC program of a syntax *)
(* tree.  Register rN is the number N and r_X, of name X, is -X.  A step   *)
(* of the generation is a record of the code and of the next register and  *)
(* block number.                                                           *)
(***************************************************************************)
EXTENDS Integers, Sequences

ExitLabel == -1

label(l) == [op |-> "label", l |-> l]
jumpI(l) == [op |-> "jumpI", l |-> l]
cbr(r, l, m) == [op |-> "cbr", s |-> r, l |-> l, m |-> m]
loadI(v, r) == [op |-> "loadI", v |-> v, t |-> r]
i2i(r, t) == [op |-> "i2i", s |-> r, t |-> t]
bin(f, a, b, r) == [op |-> "bin", f |-> f, a |-> a, b |-> b, t |-> r]
readInt(r) == [op |-> "readInt", s |-> r]
writeInt(r) == [op |-> "writeInt", s |-> r]

Var(x) == -x

(* true and false, which the code hands on as text, are 1 and 0 here: no    *)
(* assembler takes the text, and no program that is compiled has one.       *)
factor_iloc(e, r) ==
    IF e.kind = "ident" THEN i2i(Var(e.name), r) ELSE loadI(e.v, r)

(* expression_iloc, simpleExpression_iloc and term_iloc. *)
RECURSIVE expression_iloc(_, _)
expression_iloc(e, r) ==
    IF e.kind = "empty" THEN [code |-> <<>>, r |-> r]
    ELSE IF e.kind # "op" THEN [code |-> <<factor_iloc(e, r)>>, r |-> r + 1]
    ELSE LET left == expression_iloc(e.left, r)
             right == expression_iloc(e.right, left.r)
         IN  [code |-> left.code \o right.code
                         \o <<bin(e.op, left.r - 1, right.r - 1, right.r)>>,
              r |-> right.r + 1]

(* Mutant: behind the statements of an if the program always ends.          *)
ThenJump_Exit(last, b, c) == jumpI(ExitLabel)

(* Behind the statements of an if. *)
ThenJump(last, b, c) == jumpI(IF last THEN ExitLabel ELSE c)

(* Mutant: the while goes on with its statements, not its condition.        *)
WhileJump_Body(a, b) == jumpI(b)

(* Behind the statements of a while. *)
WhileJump(a, b) == jumpI(a)

Put(gen, instructions) == [gen EXCEPT !.code = @ \o instructions]

(* gen is [code, r, block].  last holds of the program's last statement     *)
(* only: statements.indexOf does not find a statement of an if or a while.  *)
RECURSIVE statement_iloc(_, _, _), statements_iloc(_, _, _)

assignment_iloc(s, gen) ==
    LET right == expression_iloc(s.e, gen.r)
    IN  IF s.kind = "read" THEN Put(gen, <<readInt(Var(s.name))>>)
        ELSE Put([gen EXCEPT !.r = right.r], right.code \o <<i2i(right.r - 1, Var(s.name))>>)

writeInt_iloc(s, gen) ==
    LET e == expression_iloc(s.e, gen.r)
    IN  Put([gen EXCEPT !.r = e.r], e.code \o <<writeInt(e.r - 1)>>)

(* The cbr is put before label b when the statements have been generated.   *)
whileStatement_iloc(s, last, gen) ==
    LET a == gen.block
        b == a + 1
        cond == expression_iloc(s.e, gen.r)
        body == statements_iloc(s.body, FALSE, [code |-> <<>>, r |-> cond.r, block |-> b + 1])
        c == body.block
    IN  [code |-> gen.code \o <<jumpI(a), label(a)>> \o cond.code
                    \o <<cbr(body.r, b, IF last THEN ExitLabel ELSE c), label(b)>>
                    \o body.code \o <<WhileJump(a, b)>>
                    \o IF last THEN <<>> ELSE <<label(c)>>,
         r |-> body.r + 1,
         block |-> IF last THEN c ELSE c + 1]

(* The cbr is put before label a, and the jump before label b, at the end.  *)
ifStatement_iloc(s, last, gen) ==
    LET cond == expression_iloc(s.e, gen.r)
        a == gen.block
        then == statements_iloc(s.body, FALSE, [code |-> <<>>, r |-> cond.r, block |-> a + 1])
        b == then.block
        else == statements_iloc(s.else, FALSE, [code |-> <<>>, r |-> then.r, block |-> b + 1])
        c == else.block
    IN  [code |-> gen.code \o cond.code \o <<cbr(else.r, a, b), label(a)>>
                    \o then.code \o <<ThenJump(last, b, c), label(b)>> \o else.code
                    \o IF last THEN <<jumpI(ExitLabel)>> ELSE <<jumpI(c), label(c)>>,
         r |-> else.r + 1,
         block |-> IF last THEN c ELSE c + 1]

statement_iloc(s, last, gen) ==
    CASE s.kind \in {"assign", "read"} -> assignment_iloc(s, gen)
      [] s.kind = "write" -> writeInt_iloc(s, gen)
      [] s.kind = "while" -> whileStatement_iloc(s, last, gen)
      [] s.kind = "if" -> ifStatement_iloc(s, last, gen)

statements_iloc(ss, top, gen) ==
    IF ss = <<>> THEN gen
    ELSE statements_iloc(Tail(ss), top, statement_iloc(Head(ss), top /\ Len(ss) = 1, gen))

(* A variable of type bool begins with the text false, which is 0 here; no  *)
(* program that is compiled has one.                                        *)
declaration_iloc(decls) == [n \in DOMAIN decls |-> loadI(0, Var(decls[n].name))]

program_iloc(prog) ==
    statements_iloc(prog.stmts, TRUE,
        [code |-> <<label(0)>> \o declaration_iloc(prog.decls), r |-> 0, block |-> 1]).code
=============================================================================
