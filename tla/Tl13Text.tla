------------------------------ MODULE Tl13Text ------------------------------
(***************************************************************************)
(* How a tl13 program is written: the tokens of a syntax tree, their       *)
(* spelling, and what may stand between them.  The reference that the      *)
(* scanner and the parser are compared with; nothing here is theirs.       *)
(*                                                                         *)
(* A token is a pair of its kind and its lexeme.                           *)
(***************************************************************************)
EXTENDS Integers, Sequences, SequencesExt

Names == <<"A", "B", "C", "D">>
Figures == <<"0", "1", "2", "3", "4", "5", "6", "7", "8", "9">>
Characters == 5 :> "a" @@ 6 :> "b" @@ 7 :> "'" @@ -8 :> "\\"

word(kind, w) == <<kind, <<w>>>>

Operator ==
    [mult |-> word("TIMES", "*"), div |-> word("DIVIDE", "div"), mod |-> word("MOD", "mod"),
     add |-> word("PLUS", "+"), sub |-> word("MINUS", "-"), cmp_EQ |-> word("EQUAL", "="),
     cmp_NE |-> <<"UNEQUAL", <<"!", "=">>>>, cmp_LT |-> word("LESS", "<"),
     cmp_GT |-> word("MORE", ">"), cmp_LE |-> <<"LESSEQ", <<"<", "=">>>>,
     cmp_GE |-> <<"MOREEQ", <<">", "=">>>>]

SC == word("SC", ";")
Name(x) == word("IDENT", Names[x])

(* The levels of an operation: 1 for a comparison, 2 for a sum, 3 for a     *)
(* product; an operand of the same level or a lower one is in parentheses.  *)
LevelOf(e) ==
    IF e.kind # "op" THEN 4
    ELSE CASE e.op \in {"mult", "div", "mod"} -> 3
           [] e.op \in {"add", "sub"} -> 2
           [] OTHER -> 1

RECURSIVE Expression(_)
Operand(e, level) ==
    IF LevelOf(e) > level THEN Expression(e)
    ELSE <<word("LPAREN", "(")>> \o Expression(e) \o <<SC, word("RPAREN", ")")>>

Expression(e) ==
    CASE e.kind = "num" -> <<word("NUMBER", Figures[e.v + 1])>>
      [] e.kind = "char" -> <<word("CHARACTER", Characters[e.v])>>
      [] e.kind = "bool" -> <<IF e.v = 1 THEN word("TRUE", "true") ELSE word("FALSE", "false")>>
      [] e.kind = "ident" -> <<Name(e.name)>>
      [] e.kind \in {"empty", "none"} -> <<>>
      [] e.kind = "op" -> Operand(e.left, LevelOf(e)) \o <<Operator[e.op]>>
                            \o Operand(e.right, LevelOf(e))

RECURSIVE Statement(_)
Body(ss) == FlattenSeq([n \in DOMAIN ss |-> Statement(ss[n])])

Statement(s) ==
    LET becomes == <<Name(s.name), <<"ASSIGN", <<":", "=">>>>>>
        end == <<word("END", "end")>>
    IN  CASE s.kind = "assign" -> becomes \o Expression(s.e) \o <<SC>>
          [] s.kind = "read" -> becomes \o <<word("READINT", "readInt"), SC>>
          [] s.kind = "write" -> <<word("WRITEINT", "writeInt")>> \o Expression(s.e) \o <<SC>>
          [] s.kind = "while" -> <<word("WHILE", "while")>> \o Expression(s.e)
                                   \o <<word("DO", "do")>> \o Body(s.body) \o end \o <<SC>>
          [] s.kind = "if" -> <<word("IF", "if")>> \o Expression(s.e) \o <<word("THEN", "then")>>
                                \o Body(s.body)
                                \o (IF s.else = <<>> THEN <<>>
                                    ELSE <<word("ELSE", "else")>> \o Body(s.else))
                                \o end \o <<SC>>

Types_ == [int |-> "INT", bool |-> "BOOL", char |-> "CHAR"]

Declaration(d) ==
    <<word("VAR", "var"), Name(d.name), word("AS", "as"), word(Types_[d.type], d.type), SC>>

TokensOf(tree) ==
    <<word("PROGRAM", "program")>>
        \o FlattenSeq([n \in DOMAIN tree.decls |-> Declaration(tree.decls[n])])
        \o <<word("BEGIN", "begin")>> \o Body(tree.stmts) \o <<word("END", "end")>>

-----------------------------------------------------------------------------
Spelling(token) ==
    CASE token = word("CHARACTER", "'") -> <<"'", "\\", "'", "'">>
      [] token[1] = "CHARACTER" /\ token # word("CHARACTER", "'") -> <<"'">> \o token[2] \o <<"'">>
      [] token[1] # "CHARACTER" -> token[2]

Signs == {"TIMES", "PLUS", "MINUS", "EQUAL", "UNEQUAL", "LESS", "MORE", "LESSEQ", "MOREEQ",
          "ASSIGN", "SC", "LPAREN", "RPAREN", "CHARACTER"}

(* What stands between two tokens is a gap: a sequence of blanks, new lines *)
(* and comments.  A comment is what README.txt:7 and the scanner's classes  *)
(* COMMENTSIGN and COMMENT are: from a % to the end of the line, and from a *)
(* $ to the next one.                                                       *)
SPACE == <<" ">>
LINE == <<"\n">>

IsComment(piece) == piece[1] \in {"%", "$"}
IsClosed(piece) == Len(piece) > 1 /\ Last(piece) = (IF piece[1] = "%" THEN "\n" ELSE "$")

(* The character behind the $ is not a blank, a new line or another $.      *)
IsProper(piece) ==
    piece[1] = "$" /\ Len(piece) > 1 => piece[2] \notin {" ", "\n", "$"}

(* A layout: what it puts behind a token.                                   *)
Between(layout, token, next) ==
    CASE layout = "blanks" -> <<SPACE>>
      [] layout = "tight" -> IF token[1] \in Signs \/ next[1] \in Signs THEN <<>> ELSE <<SPACE>>
      [] layout = "lines" -> <<LINE>>
      [] layout = "comments" ->
           IF token[1] = "SC"
           THEN <<SPACE, <<"%", "x", "'", "$", "\n">>, <<"%", ";", "\n">>, LINE>>
           ELSE IF next[1] = "ASSIGN" THEN <<SPACE, <<"$", "x", "%", "\n", ":", "$">>>>
           ELSE <<SPACE>>
      [] layout = "indented" ->
           IF token[1] = "SC" THEN <<LINE, SPACE, <<"$", "x", "$">>>> ELSE <<LINE, SPACE>>
      [] layout = "touching" ->
           IF token[1] \in {"SC", "NUMBER", "CHARACTER", "DO"}
           THEN <<<<"$", "x", "$">>, SPACE>> ELSE <<SPACE>>
      [] layout = "below" ->
           IF token[1] \in {"SC", "CHARACTER"} THEN <<LINE, LINE, <<"%", "x", "\n">>>> ELSE <<SPACE>>

(* The gaps of a text in a layout; the first one is ahead of all tokens.    *)
Gaps(tokens, layout) ==
    <<IF layout \in {"comments", "indented"}
      THEN <<<<"%", "x", "\n">>, <<"$", "x", "\n", "$">>, LINE>> ELSE <<>> >>
      \o [n \in DOMAIN tokens |->
            IF n = Len(tokens) THEN <<LINE>> ELSE Between(layout, tokens[n], tokens[n + 1])]

(* A source is a record with tokens and gaps, one gap more than tokens.     *)
TextOf(source) ==
    FlattenSeq(source.gaps[1])
      \o FlattenSeq([n \in DOMAIN source.tokens |->
                        Spelling(source.tokens[n]) \o FlattenSeq(source.gaps[n + 1])])

CommentsOf(source) ==
    {piece \in UNION {Range(source.gaps[n]) : n \in DOMAIN source.gaps} : IsComment(piece)}

(* A comment directly behind a token takes the token with it, and so does   *)
(* one that begins the next line, unless the token is a character: for the  *)
(* scanner reads on to it before it lists the token.                        *)
Lost(source, n) ==
    LET gap == source.gaps[n + 1] IN
    \E k \in DOMAIN gap :
        /\ IsComment(gap[k])
        /\ \A j \in 1 .. k - 1 : gap[j] = LINE
        /\ k = 1 \/ source.tokens[n][1] # "CHARACTER"

(* What the scanner should find. *)
Left(source) ==
    FlattenSeq([n \in DOMAIN source.tokens |->
                  IF Lost(source, n) THEN <<>> ELSE <<source.tokens[n]>>])

KindsOf(tokens) == [n \in DOMAIN tokens |-> tokens[n][1]]
LexemesOf(tokens) == [n \in DOMAIN tokens |-> tokens[n][2]]

-----------------------------------------------------------------------------
(* What the parser does not look at: the token before the ) that closes a   *)
(* factor (an SC by rights), and whether the parentheses are needed.        *)

IsClosing(tokens) ==
    LET closing[m \in 1 .. Len(tokens) + 1] ==
          /\ m <= Len(tokens)
          /\ tokens[m][1] = "RPAREN"
          /\ ~ closing[m + 1]
    IN  closing

Plain(tokens) ==
    LET closing == IsClosing(tokens)
    IN  [m \in DOMAIN tokens |-> IF closing[m + 1] THEN SC ELSE tokens[m]]

Without(tokens, D) ==
    FlattenSeq([n \in DOMAIN tokens |-> IF n \in D THEN <<>> ELSE <<tokens[n]>>])

(* The tokens with some parentheses left out, and the SCs that belong to    *)
(* them.                                                                    *)
LessParentheses(tokens) ==
    LET at(kind) == {n \in DOMAIN tokens : tokens[n][1] = kind} IN
    {Without(tokens, L \cup R \cup {m - 1 : m \in R}) :
        <<L, R>> \in {p \in (SUBSET at("LPAREN")) \X (SUBSET at("RPAREN")) :
                        Cardinality(p[1]) = Cardinality(p[2])}}
=============================================================================
