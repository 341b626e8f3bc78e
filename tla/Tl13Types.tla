----------------------------- MODULE Tl13Types -----------------------------
(***************************************************************************)
(* The type checker of the tl13 compiler: typeChecking of Program_ast and  *)
(* of the classes of statements and expressions.                           *)
(*                                                                         *)
(* An expression is a record: a leaf of kind "num", "char", "bool" or      *)
(* "ident", or an operation of a Term_ast, a SimpleExpression_ast or an    *)
(* Expression_ast; a level without an operator is the level below it.  A   *)
(* Factor_ast that has nothing is "empty"; a statement without an          *)
(* expression has "none".                                                  *)
(***************************************************************************)
EXTENDS Sequences, Tl13Word

Types == {"int", "bool", "char"}

TermOps == {"mult", "div", "mod"}
SimpleOps == {"add", "sub"}
RelationOps == {"cmp_EQ", "cmp_NE", "cmp_LT", "cmp_GT", "cmp_LE", "cmp_GE"}

(* typeChecking of an expression returns a type, a Type_ast without a type  *)
(* ("null"), no Type_ast ("NULL"), or throws.                               *)
NoType == {"null", "NULL", "throws"}

(* left.type.equals("int") && right.type.equals("int") *)
BothInts(l, r, type, otherwise) ==
    CASE l \in NoType -> "throws"
      [] l \in Types \ {"int"} -> otherwise
      [] l = "int" /\ r \in NoType -> "throws"
      [] l = "int" /\ r \in Types \ {"int"} -> otherwise
      [] l = "int" /\ r = "int" -> type

(* left.type.equals("int") || right.type.equals("int") *)
OneInt(l, r) ==
    CASE l = "int" -> "int"
      [] l \in NoType -> "throws"
      [] l \in Types \ {"int"} /\ r \in NoType -> "throws"
      [] l \in Types \ {"int"} /\ r = "int" -> "int"
      [] l \in Types \ {"int"} /\ r \in Types \ {"int"} -> "NULL"

(* Mutant: a comparison is an int, as an addition is. *)
OperationType_Same(op, l, r) ==
    CASE op \in TermOps -> OneInt(l, r)
      [] op \in SimpleOps -> BothInts(l, r, "int", "NULL")
      [] op \in RelationOps -> BothInts(l, r, "int", "null")

OperationType(op, l, r) ==
    CASE op \in TermOps -> OneInt(l, r)
      [] op \in SimpleOps -> BothInts(l, r, "int", "NULL")
      [] op \in RelationOps -> BothInts(l, r, "bool", "null")

(* parseInt throws where the number is no int of Java; Integer.MAX_VALUE is *)
(* out of range, as the message says.                                       *)
NumberType(v) == CASE v < Half - 1 -> "int" [] v = Half - 1 -> "null" [] v >= Half -> "throws"

(* list is the symbol list: the types of the declared names. *)
RECURSIVE TypeOf(_, _)
TypeOf(e, list) ==
    CASE e.kind = "num" -> NumberType(e.v)
      [] e.kind = "char" -> "char"
      [] e.kind = "bool" -> "bool"
      [] e.kind = "ident" -> IF e.name \in DOMAIN list THEN list[e.name] ELSE "throws"
      [] e.kind = "empty" -> "NULL"
      [] e.kind = "op" -> OperationType(e.op, TypeOf(e.left, list), TypeOf(e.right, list))

(* The right operand is not looked at when the left one settles it.         *)
LooksRight(e, list) ==
    IF e.op \in TermOps THEN TypeOf(e.left, list) # "int" ELSE TypeOf(e.left, list) = "int"

(* A message is printed while the type of e is found. *)
RECURSIVE Says(_, _)
Says(e, list) ==
    \/ e.kind = "num" /\ NumberType(e.v) = "null"
    \/ /\ e.kind = "op"
       /\ \/ Says(e.left, list)
          \/ LooksRight(e, list) /\ Says(e.right, list)
          \/ TypeOf(e, list) \in {"null", "NULL"}

Check(b) == IF b THEN "true" ELSE "false"

(* typeChecking of a statement: "true", "false", or it throws.  An if and a *)
(* while forget what their statements return.                               *)
RECURSIVE StatementCheck(_, _)

AssignmentCheck(s, list) ==
    CASE s.name \notin DOMAIN list -> "false"
      [] s.name \in DOMAIN list /\ s.kind = "read" -> Check(list[s.name] = "int")
      [] s.name \in DOMAIN list /\ s.kind = "assign" ->
           IF TypeOf(s.e, list) \in {"NULL", "throws"} THEN "throws"
           ELSE Check(TypeOf(s.e, list) = list[s.name])

WriteIntCheck(s, list) ==
    CASE s.e.kind = "none" -> "false"
      [] s.e.kind # "none" ->
           IF TypeOf(s.e, list) \in NoType THEN "throws" ELSE Check(TypeOf(s.e, list) = "int")

NoneThrows(ss, list) == \A n \in DOMAIN ss : StatementCheck(ss[n], list) # "throws"

(* Without an expression, what is nested is checked. *)
ConditionCheck(e, list, nested) ==
    LET type == IF e.kind = "none" THEN "bool" ELSE TypeOf(e, list)
    IN  CASE type \in {"NULL", "throws"} -> "throws"
          [] type \in {"null", "int", "char"} -> "false"
          [] type = "bool" -> IF nested THEN "true" ELSE "throws"

IfStatementCheck(s, list) ==
    ConditionCheck(s.e, list, NoneThrows(s.body, list) /\ NoneThrows(s.else, list))

WhileStatementCheck(s, list) == ConditionCheck(s.e, list, NoneThrows(s.body, list))

StatementCheck(s, list) ==
    CASE s.kind \in {"assign", "read"} -> AssignmentCheck(s, list)
      [] s.kind = "write" -> WriteIntCheck(s, list)
      [] s.kind = "if" -> IfStatementCheck(s, list)
      [] s.kind = "while" -> WhileStatementCheck(s, list)

(* A program is [decls, stmts]; decls is a sequence of [name, type].  The   *)
(* first declaration of a name counts.                                      *)
SymbolList(decls) ==
    [x \in {decls[n].name : n \in DOMAIN decls} |->
        decls[CHOOSE n \in DOMAIN decls :
                decls[n].name = x /\ \A o \in 1 .. n - 1 : decls[o].name # x].type]

CheckThrows(prog) ==
    \E n \in DOMAIN prog.stmts : StatementCheck(prog.stmts[n], SymbolList(prog.decls)) = "throws"

(* A message is printed while a statement is checked: for an expression,    *)
(* for the statement itself, or for one of the statements in it.  A         *)
(* writeInt without an expression is "false" without a message.             *)
RECURSIVE Prints(_, _)
Prints(s, list) ==
    LET check == StatementCheck(s, list)
        says == s.kind # "read" /\ Says(s.e, list)
    IN  CASE s.kind \in {"assign", "read"} -> check = "false" \/ says
          [] s.kind = "write" -> s.e.kind # "none" /\ (check = "false" \/ says)
          [] s.kind \in {"if", "while"} ->
               check = "false" \/ says
                 \/ (\E n \in DOMAIN s.body : Prints(s.body[n], list))
                 \/ (\E n \in DOMAIN s.else : Prints(s.else[n], list))

(* A message is printed for a declaration or a statement; the statements of *)
(* the program, not those nested in them, have one more if they are "false". *)
Complains(prog) ==
    \/ \E n, o \in DOMAIN prog.decls : n # o /\ prog.decls[n].name = prog.decls[o].name
    \/ \E n \in DOMAIN prog.stmts :
         \/ StatementCheck(prog.stmts[n], SymbolList(prog.decls)) = "false"
         \/ Prints(prog.stmts[n], SymbolList(prog.decls))
=============================================================================
