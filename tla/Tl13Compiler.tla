--------------------------- MODULE Tl13Compiler ---------------------------
(***************************************************************************)
(* main of tl13/src/Compiler.java: a text is scanned and parsed, the       *)
(* syntax tree is checked and translated, and what comes out is run.       *)
(***************************************************************************)
EXTENDS Tl13Parser, Tl13Text, Tl13Mips, Tl13Iloc, Tl13Source

CONSTANTS
    Sources,           \* what is compiled: records of
                       \*   tokens, gaps: what is written in the file
                       \*   tree: the syntax tree of the tokens, or NoTree
    NoTree,
    Fuel               \* the bound on the steps of a program's meaning

VARIABLES
    source,            \* the file
    phase,             \* "scan", "parse", "check", "translate", "compiled"; or how
                       \* it ends: "hangs", "rejected", "throws"
    scanner,           \* the scanner, with its lists
    prog,              \* program_ast
    verdict,           \* of typeChecking: "none", "silent", "complained"
    meaning            \* what the program means, given what is typed

frontVars == <<source, phase, scanner, prog, verdict, meaning>>
compilerVars == <<vars, frontVars>>

CompilerInit ==
    /\ MipsInit
    /\ code = <<>>
    /\ source \in Sources
    /\ phase = "scan"
    /\ scanner = [tokens |-> <<>>, lexemes |-> <<>>]
    /\ prog = NoTree
    /\ verdict = "none"
    /\ meaning = IF source.tree # NoTree /\ WellTyped(source.tree)
                 THEN Meaning(source.tree, inp, Fuel) ELSE [how |-> Undefined]

Scan ==
    /\ phase = "scan"
    /\ \E s \in {scan(TextOf(source))} :
         /\ scanner' = [tokens |-> s.tokens, lexemes |-> s.lexemes]
         /\ phase' = IF s.stuck THEN "hangs" ELSE "parse"
    /\ UNCHANGED <<vars, source, prog, verdict, meaning>>

Parse ==
    /\ phase = "parse"
    /\ \E p \in {program_(scanner)} :
         IF p.i = 0 THEN phase' = "rejected" /\ UNCHANGED prog
                    ELSE phase' = "check" /\ prog' = p.e
    /\ UNCHANGED <<vars, source, scanner, verdict, meaning>>

TypeChecking ==
    /\ phase = "check"
    /\ IF CheckThrows(prog) THEN phase' = "throws" /\ UNCHANGED verdict
       ELSE /\ phase' = "translate"
            /\ verdict' = IF Complains(prog) THEN "complained" ELSE "silent"
    /\ UNCHANGED <<vars, source, scanner, prog, meaning>>

(* A statement without an expression is not translated: expression_iloc     *)
(* throws.  What mips() makes of the instructions before it is left out.    *)
RECURSIVE Lacks(_)
Lacks(ss) ==
    \E n \in DOMAIN ss :
        LET s == ss[n] IN \/ s.kind \in {"write", "if", "while"} /\ s.e.kind = "none"
                          \/ s.kind \in {"if", "while"} /\ (Lacks(s.body) \/ Lacks(s.else))

(* A complaint of the type checker does not keep the program from being     *)
(* translated.                                                              *)
ProgramIloc ==
    /\ phase = "translate"
    /\ prog.stmts # <<>> /\ ~ Lacks(prog.stmts)
    /\ Given(program_iloc(prog))
    /\ phase' = "compiled"
    /\ UNCHANGED <<source, scanner, prog, verdict, meaning>>

(* statements.get(statements.size() - 1) throws, or expression_iloc(null).  *)
NoStatements ==
    /\ phase = "translate"
    /\ prog.stmts = <<>> \/ Lacks(prog.stmts)
    /\ phase' = "throws"
    /\ UNCHANGED <<vars, source, scanner, prog, verdict, meaning>>

Mips == Translate /\ UNCHANGED frontVars

RunMips == Execute /\ UNCHANGED frontVars

FrontEnd == Scan \/ Parse \/ TypeChecking \/ ProgramIloc \/ NoStatements

CompilerNext == FrontEnd \/ Mips \/ RunMips

CompilerSpec ==
    /\ CompilerInit
    /\ [][CompilerNext]_compilerVars
    /\ WF_compilerVars(Mips)
    /\ WF_compilerVars(RunMips)

-----------------------------------------------------------------------------
(* As long as every $ comment begins with a character of its own, the       *)
(* scanner finds the tokens that are written and only these, whatever       *)
(* blanks, lines and comments stand before, between and behind them, but    *)
(* for those that a comment takes with it; and it reads for ever if, and    *)
(* only if, the file ends in a comment that is not closed.                  *)
FindsTokens ==
    phase \in {"parse", "hangs"} /\ (\A c \in CommentsOf(source) : IsProper(c)) =>
        /\ phase = "hangs" <=> \E c \in CommentsOf(source) : ~ IsClosed(c)
        /\ phase = "parse" =>
             /\ scanner.tokens = KindsOf(Left(source)) \o <<"EOF">>
             /\ SubSeq(scanner.lexemes, 1, Len(Left(source))) = LexemesOf(Left(source))

(* tl13/README.txt:7 and 16: comments from a $ to the next one are          *)
(* complete, and there is no bug.  So a closed comment that stands clear of *)
(* the tokens leaves them as they are, whatever is in it.                   *)
CommentsAreLeftOut ==
    /\ phase \in {"parse", "hangs"}
    /\ \A c \in CommentsOf(source) : IsClosed(c)
    /\ Left(source) = source.tokens
    => scanner.tokens = KindsOf(source.tokens) \o <<"EOF">>

(* The tokens that the parser is given. *)
Found ==
    [n \in 1 .. Len(scanner.tokens) - 1 |-> <<scanner.tokens[n], scanner.lexemes[n]>>]

(* What the parser has no case for: an else, and a character as the first   *)
(* token behind a writeInt, an if or a while.                               *)
Refused(tokens) ==
    \E n \in DOMAIN tokens :
        \/ tokens[n][1] = "ELSE"
        \/ /\ n > 1
           /\ tokens[n][1] = "CHARACTER"
           /\ tokens[n - 1][1] \in {"WRITEINT", "IF", "WHILE"}

(* A tree that is written down is parsed into the same tree, unless it has  *)
(* an else, or a character where the parser expects none: then it is not    *)
(* accepted.                                                                *)
FindsTree ==
    phase \in {"check", "rejected"} /\ source.tree # NoTree /\ Found = source.tokens =>
        IF Refused(source.tokens) THEN phase = "rejected" ELSE prog = source.tree

(* A text that is accepted is the one that its tree is written as, but for  *)
(* parentheses that are not needed and for the token before a closing one,  *)
(* which is not looked at: nothing else is passed over or added.            *)
AcceptsOnlyItsText == phase = "check" => TokensOf(prog) \in LessParentheses(Plain(Found))

(* The parser turns the text of a tree into that tree, and what else it     *)
(* accepts is that text with parentheses.                                   *)
ParsesTree == FindsTree /\ AcceptsOnlyItsText

(* A compiled program that is well typed and whose meaning is defined has,  *)
(* when it exits, written what it means, and its variables hold what they   *)
(* mean; one that lacks input does not exit.                                *)
ComputesMeaning ==
    st = "exited" =>
      /\ meaning.how # "reads"
      /\ meaning.how = "runs" =>
           /\ out = meaning.out
           /\ \A x \in DOMAIN meaning.env : mem[SlotOf(Var(x))] = meaning.env[x]

(* A compiled program comes to its end when its meaning does.               *)
Halts == meaning.how = "runs" /\ phase = "compiled" ~> st = "exited"

(* All operations of an expression. *)
RECURSIVE Operations_(_)
Operations_(e) == IF e.kind = "op" THEN {e} \cup Operations_(e.left) \cup Operations_(e.right) ELSE {}

RECURSIVE StatementsIn(_)
StatementsIn(ss) ==
    UNION {{ss[n]} \cup (IF ss[n].kind \in {"if", "while"}
                         THEN StatementsIn(ss[n].body) \cup StatementsIn(ss[n].else) ELSE {}) :
             n \in DOMAIN ss}

OperationsIn(tree) ==
    UNION {Operations_(s.e) : s \in {s \in StatementsIn(tree.stmts) : s.kind # "read"}}

OperandTypes(e, tree) ==
    {RightType(o, SymbolList(tree.decls)) : o \in {e.left, e.right}}

(* The checker does not look at the other operand of a product that has an  *)
(* integer (Term_ast.java:16, although the message at 21 says that the      *)
(* operands must be integers), and misses no expression.                    *)
Overlooked(tree) ==
    \/ \E e \in OperationsIn(tree) :
         e.op \in TermOps /\ "int" \in OperandTypes(e, tree) /\ OperandTypes(e, tree) # {"int"}
    \/ \E s \in StatementsIn(tree.stmts) : s.kind # "read" /\ s.e.kind = "none"

(* The type checker finds the programs that are not well typed, and only    *)
(* those: it prints no message for a well-typed one and does not throw, and *)
(* it prints one, or throws, for any other, however deep in the statements  *)
(* of ifs and whiles the mistake is, but for what it overlooks.             *)
ChecksTypes ==
    phase \in {"translate", "throws"} =>
        IF WellTyped(prog) THEN verdict = "silent"
        ELSE verdict = "silent" => Overlooked(prog)
=============================================================================
