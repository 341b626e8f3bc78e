-------------------------- MODULE MCTl13Programs --------------------------
(***************************************************************************)
(* Small tl13 programs: straight lines of assignments, an if and a while   *)
(* nested in each other, and the program of test input/euclid.tl13.        *)
(***************************************************************************)
EXTENDS Tl13Iloc, Tl13Source, Tl13Text, Tl13Scanner

num(v) == [kind |-> "num", v |-> v]
char(v) == [kind |-> "char", v |-> v]
id(x) == [kind |-> "ident", name |-> x]
op(f, l, r) == [kind |-> "op", op |-> f, left |-> l, right |-> r]

assign(x, e) == [kind |-> "assign", name |-> x, e |-> e]
get(x) == [kind |-> "read", name |-> x]
put(e) == [kind |-> "write", e |-> e]
if(e, ss, tt) == [kind |-> "if", e |-> e, body |-> ss, else |-> tt]
while(e, ss) == [kind |-> "while", e |-> e, body |-> ss, else |-> <<>>]

int(x) == [name |-> x, type |-> "int"]
Decls == <<int(1), int(2)>>
programOf(ss) == [decls |-> Decls, stmts |-> ss]

Conditions ==
    {op(f, id(1), e) : f \in RelationOps, e \in {num(1), op("add", id(2), num(1))}}

Simple == {assign(1, op("sub", id(1), num(1))), put(id(1))}

Operations ==
    {op(f, id(1), id(2)) : f \in TermOps \cup SimpleOps}
      \cup {op("add", op("mult", id(1), num(3)), op("mod", id(2), num(2)))}

(* Read two numbers and write what an expression of them is. *)
Lines == {<<get(1), get(2), assign(2, e), put(op("sub", id(2), id(1)))>> : e \in Operations}

Ifs == {if(c, <<s>>, tt) : c \in Conditions, s \in Simple, tt \in {<<>>, <<assign(2, num(1))>>}}

Down(ss) == while(op("cmp_GT", id(1), num(0)), ss \o <<assign(1, op("sub", id(1), num(1)))>>)

Whiles == {Down(<<>>), Down(<<assign(2, op("add", id(2), num(2)))>>), Down(<<assign(2, id(1)),
            while(op("cmp_NE", id(2), num(0)), <<assign(2, op("sub", id(2), num(1)))>>)>>),
           while(op("cmp_LT", id(1), num(2)), <<>>)}
      \cup {Down(<<s>>) : s \in {i \in Ifs : i.body = <<put(id(1))>>}}

Nested == {if(op("cmp_GE", id(1), num(2)), <<w>>, <<v>>) :
            w \in {Down(<<>>), Down(<<put(id(1))>>)}, v \in {Down(<<>>)} \cup {i \in Ifs : i.else # <<>>}}

(* The statement of interest comes last, or is followed by another. *)
Controls ==
    UNION {{<<get(1), s>>, <<get(1), s, put(id(2))>>} : s \in Ifs \cup Whiles \cup Nested}

Swap == if(op("cmp_GT", id(1), id(2)),
           <<assign(3, id(1)), assign(1, id(2)), assign(2, id(3))>>, <<>>)

Euclid ==
    [decls |-> <<int(1), int(2), int(3)>>,
     stmts |-> <<get(2), get(1), Swap,
                 while(op("cmp_GT", id(1), num(0)),
                       <<assign(2, op("sub", id(2), id(1))), Swap>>),
                 put(id(2))>>]

(* Programs that are not well typed, and one without statements.            *)
Wrong ==
    {programOf(<<>>), programOf(<<assign(3, num(1))>>), programOf(<<put(id(3))>>),
     programOf(<<if(id(1), <<put(id(1))>>, <<>>)>>),
     programOf(<<if(op("add", id(1), char(5)), <<put(id(1))>>, <<>>)>>),
     programOf(<<get(1), if(op("cmp_GT", id(1), char(5)), <<put(id(1))>>, <<>>)>>),
     programOf(<<assign(1, op("add", id(1), char(5))), put(id(1))>>),
     programOf(<<assign(1, op("mult", id(1), char(5))), put(id(1))>>),
     [decls |-> Decls \o <<int(1)>>, stmts |-> <<assign(1, num(1)), put(id(1))>>],
     [decls |-> <<int(1), [name |-> 2, type |-> "char"]>>, stmts |-> <<get(2), assign(2, char(6))>>]}

(* Mistakes, and numbers at the end of the integers; by themselves and      *)
(* inside an if or a while, which forgets what the checker says of them.    *)
Mistakes ==
    {assign(3, num(1)), get(3), put(char(5)), assign(1, char(6)), assign(1, num(7)), assign(1, num(8)),
     put([kind |-> "none"]), put(op("mult", char(5), char(6))), put(op("mult", id(1), char(6))),
     put(op("mult", id(1), num(7))), put(op("mult", num(7), id(1))),
     if(num(1), <<put(num(2))>>, <<>>), if(op("cmp_EQ", id(1), char(5)), <<>>, <<>>)}

Deep ==
    {programOf(<<get(1), s>>) : s \in
        UNION {{m, if(op("cmp_GT", id(1), num(1)), <<put(id(1)), m>>, <<>>),
                while(op("cmp_GT", id(1), num(1)),
                      <<if(op("cmp_LT", id(1), num(3)), <<m>>, <<>>), assign(1, num(0))>>)} :
                  m \in Mistakes}}

(* Expressions that need parentheses, characters, and factors that are      *)
(* missing.                                                                 *)
Written ==
    {programOf(<<assign(1, op("mult", op("add", id(1), num(2)), num(3))), put(id(1))>>),
     programOf(<<assign(1, op("sub", num(1), op("sub", num(2), num(3)))), put(id(1))>>),
     programOf(<<assign(1, op("mult", num(2), [kind |-> "empty"])), put(id(1))>>),
     programOf(<<put([kind |-> "none"])>>),
     programOf(<<get(1), while([kind |-> "none"], <<put(id(1))>>)>>),
     [decls |-> <<[name |-> 2, type |-> "char"], int(1)>>,
      stmts |-> <<assign(2, char(7)), assign(2, char(-8)), assign(2, char(6)), put(num(2))>>]}

MCTrees == {programOf(ss) : ss \in Lines \cup Controls} \cup {Euclid} \cup Wrong \cup Deep \cup Written

MCPrograms == {program_iloc(p) : p \in {p \in MCTrees : WellTyped(p) /\ p.stmts # <<>>}}

(* The text of a tree, in a layout. *)
Source(tree, layout) ==
    [tree |-> tree, tokens |-> TokensOf(tree), gaps |-> Gaps(TokensOf(tree), layout)]

NoSuchTree == [decls |-> <<>>, stmts |-> <<[kind |-> "none"]>>]

(* A text without a tree, or of which tokens are lost. *)
Text(tokens, layout) == [tree |-> NoSuchTree, tokens |-> tokens, gaps |-> Gaps(tokens, layout)]

(* A text with a comment and a blank more in one of its gaps. *)
Commented(tokens, n, c) ==
    [Text(tokens, "blanks") EXCEPT !.gaps[n] = @ \o <<c, SPACE>>]

(* Tokens of which one is missing, or doubled, or two are exchanged.        *)
Damaged(tokens) ==
    LET from(n) == SubSeq(tokens, n, Len(tokens))
        upTo(n) == SubSeq(tokens, 1, n)
    IN  (UNION {{upTo(n - 1) \o from(n + 1), upTo(n) \o from(n)} : n \in DOMAIN tokens}
          \cup {upTo(n - 1) \o <<tokens[n + 1], tokens[n]>> \o from(n + 2) :
                  n \in 1 .. Len(tokens) - 1}) \ {tokens}

Sample ==
    programOf(<<get(1), if(op("cmp_LE", id(1), num(2)), <<assign(1, op("mult", id(1), num(3)))>>, <<>>),
                put(id(1))>>)

Sample2 ==
    programOf(<<assign(2, op("mult", op("add", id(1), num(2)), num(1))),
                while(op("cmp_GT", id(2), num(0)),
                      <<if(op("cmp_NE", id(1), num(2)), <<put(num(1))>>, <<put(num(2))>>),
                        assign(2, op("sub", id(2), num(1)))>>)>>)

(* Parentheses that are not needed, and any token before the closing one.   *)
Paren(ts) == <<word("LPAREN", "(")>> \o ts
Close(t) == <<t, word("RPAREN", ")")>>
ReadBy(ts) == <<word("PROGRAM", "program"), word("VAR", "var"), Name(1), word("AS", "as"),
                word("INT", "int"), SC, word("BEGIN", "begin")>> \o ts \o <<word("END", "end")>>
Becomes(ts) == ReadBy(<<Name(1), <<"ASSIGN", <<":", "=">>>>>> \o ts \o <<SC>>)

AnyToken ==
    {Operator[o] : o \in DOMAIN Operator}
      \cup {word(Keyword[w], w) : w \in DOMAIN Keyword}
      \cup {SC, Name(1), word("NUMBER", "1"), word("CHARACTER", "a"), word("LPAREN", "("),
            word("RPAREN", ")"), <<"ASSIGN", <<":", "=">>>>}

Parentheses ==
    LET a == <<Name(1)>>
        sum == a \o <<Operator.add>> \o a \o <<Operator.mult>> \o a
        test(ts) == ReadBy(<<word("IF", "if")>> \o ts \o <<word("THEN", "then")>>
                             \o <<word("END", "end"), SC>>)
    IN  {Becomes(Paren(a) \o Close(SC)), Becomes(Paren(Paren(a) \o Close(SC)) \o Close(SC)),
         Becomes(Paren(a) \o Close(SC) \o <<Operator.sub>> \o Paren(sum) \o Close(SC)),
         Becomes(Paren(<<>>) \o Close(SC))}
          \cup {Becomes(Paren(a) \o Close(t)) : t \in AnyToken}
          \cup {Becomes(Paren(a \o <<Operator.cmp_EQ>> \o a) \o Close(t)) : t \in AnyToken}
          \cup {test(Paren(a \o <<Operator.cmp_EQ>> \o ts) \o Close(t)) :
                  ts \in {sum, a \o <<Operator.mod>> \o Paren(a) \o Close(SC)}, t \in AnyToken}

(* Comments that are not closed, and such that begin with a blank, a new    *)
(* line or a $.                                                             *)
Comments ==
    {<<"%", "x">>, <<"$", "x", "\n">>, <<"$">>, <<"$", "$">>, <<"$", "\n", "x", "$">>,
     <<"$", " ", "x", "$">>, <<"$", "x", " ", "$">>, <<"$", "'", "%", "$">>, <<"%", " ", "$", "\n">>}

Layouts == {"tight", "lines", "comments", "indented"}

MCSources ==
    {Source(t, "blanks") : t \in MCTrees}
      \cup {Source(t, l) : t \in {Euclid, Sample, Sample2} \cup Written, l \in Layouts}
      \cup {Text(TokensOf(t), l) : t \in {Sample2} \cup Written, l \in {"touching", "below"}}
      \cup {Text(ts, "blanks") : ts \in Parentheses \cup Damaged(TokensOf(Sample)) \cup Damaged(TokensOf(Sample2))}
      \cup {Commented(TokensOf(Sample), n, c) :
              n \in {7, Len(TokensOf(Sample)) + 1}, c \in {c \in Comments : IsClosed(c)}}
      \cup {Commented(TokensOf(Sample), Len(TokensOf(Sample)) + 1, c) : c \in Comments}

MCInputs == {<<3, 2>>, <<2, 3>>, <<0, 5>>, <<-2, 1>>, <<1>>}
=============================================================================
