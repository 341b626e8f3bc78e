----------------------------- MODULE Tl13Source -----------------------------
(***************************************************************************)
(* What a tl13 program means: the reference that the compiler's output is  *)
(* compared with.  The rules are those that the compiler states in its     *)
(* messages; nothing here is the compiler's.                               *)
(***************************************************************************)
EXTENDS Tl13Types, Tl13Word

(* The rule: "The operands of all OP2, OP3, and OP4 operators must be       *)
(* integers."                                                               *)
RECURSIVE RightType(_, _)
RightType(e, list) ==
    IF e.kind \in {"empty", "none"} THEN "wrong"
    ELSE IF e.kind # "op" THEN TypeOf(e, list)
    ELSE IF RightType(e.left, list) = "int" /\ RightType(e.right, list) = "int"
         THEN IF e.op \in RelationOps THEN "bool" ELSE "int"
         ELSE "wrong"

RECURSIVE RightStatement(_, _)
RightStatement(s, list) ==
    LET right(ss) == \A n \in DOMAIN ss : RightStatement(ss[n], list)
    IN  CASE s.kind = "assign" ->
               s.name \in DOMAIN list /\ RightType(s.e, list) = list[s.name]
          [] s.kind = "read" -> s.name \in DOMAIN list /\ list[s.name] = "int"
          [] s.kind = "write" -> RightType(s.e, list) = "int"
          [] s.kind \in {"if", "while"} ->
               RightType(s.e, list) = "bool" /\ right(s.body) /\ right(s.else)

WellTyped(prog) ==
    /\ \A n, o \in DOMAIN prog.decls : prog.decls[n].name = prog.decls[o].name => n = o
    /\ \A n \in DOMAIN prog.stmts : RightStatement(prog.stmts[n], SymbolList(prog.decls))

-----------------------------------------------------------------------------
(* A run of a program: its variables, what is left to read, what has been   *)
(* written, the steps it may still take, and how it goes on.                *)
Undefined == "undefined"

RECURSIVE Value(_, _)
Value(e, env) ==
    CASE e.kind \in {"num", "char", "bool"} -> {e.v}
      [] e.kind = "ident" -> {env[e.name]}
      [] e.kind = "op" ->
           UNION {Results(e.op, x, y) : x \in Value(e.left, env), y \in Value(e.right, env)}

Stop(run, how) == [run EXCEPT !.how = how]

(* A program that divides by a negative number or by 0 has no meaning.      *)
RECURSIVE Run(_, _)
Run(ss, run) ==
    IF ss = <<>> \/ run.how # "runs" THEN run
    ELSE IF run.fuel = 0 THEN Stop(run, "goes on")
    ELSE
    LET s == Head(ss)
        rest == Tail(ss)
        next == [run EXCEPT !.fuel = @ - 1]
        vs == Value(s.e, run.env)
        v == CHOOSE v \in vs : TRUE
    IN
    CASE s.kind = "read" /\ run.inp = <<>> -> Stop(run, "reads")
      [] s.kind = "read" /\ run.inp # <<>> ->
           Run(rest, [next EXCEPT !.env[s.name] = Head(run.inp), !.inp = Tail(@)])
      [] s.kind # "read" /\ vs # {v} -> Stop(run, Undefined)
      [] s.kind = "assign" /\ vs = {v} -> Run(rest, [next EXCEPT !.env[s.name] = v])
      [] s.kind = "write" /\ vs = {v} -> Run(rest, [next EXCEPT !.out = Append(@, v)])
      [] s.kind = "if" /\ vs = {v} -> Run((IF v # 0 THEN s.body ELSE s.else) \o rest, next)
      [] s.kind = "while" /\ vs = {v} -> Run(IF v # 0 THEN s.body \o ss ELSE rest, next)

Meaning(prog, input, fuel) ==
    Run(prog.stmts,
        [env |-> [x \in DOMAIN SymbolList(prog.decls) |-> 0], inp |-> input, out |-> <<>>,
         fuel |-> fuel, how |-> "runs"])
=============================================================================
