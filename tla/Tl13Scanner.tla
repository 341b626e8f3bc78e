---------------------------- MODULE Tl13Scanner ----------------------------
(***************************************************************************)
(* tl13/src/Scanner.java: the characters of a program become tokens.       *)
(*                                                                         *)
(* A text is a sequence of strings.  A lower-case word that is a keyword   *)
(* is one string; everything else is a character.  A tab is a blank and a  *)
(* carriage return is a "\n".                                              *)
(***************************************************************************)
EXTENDS Integers, Sequences, SequencesExt

Capital == {"A", "B", "C", "D"}
Digit == {"0", "1", "2", "3", "4", "5", "6", "7", "8", "9"}

Keyword ==
    [begin |-> "BEGIN", end |-> "END", if |-> "IF", else |-> "ELSE", then |-> "THEN",
     div |-> "DIVIDE", mod |-> "MOD", while |-> "WHILE", do |-> "DO", program |-> "PROGRAM",
     var |-> "VAR", as |-> "AS", int |-> "INT", bool |-> "BOOL", char |-> "CHAR",
     readInt |-> "READINT", writeInt |-> "WRITEINT", false |-> "FALSE", true |-> "TRUE"]

(* A word that is not a keyword ends the scan. *)
getKey(lexeme) ==
    IF Len(lexeme) = 1 /\ lexeme[1] \in DOMAIN Keyword THEN Keyword[lexeme[1]] ELSE "EOF"

Lowercase == DOMAIN Keyword \cup {"a", "b", "x"}

(* The signs, alone and with a = behind them. *)
Sign ==
    "+" :> "PLUS" @@ "-" :> "MINUS" @@ "*" :> "TIMES" @@ "(" :> "LPAREN" @@ ")" :> "RPAREN"
        @@ "=" :> "EQUAL" @@ ";" :> "SC" @@ ">" :> "MORE" @@ "<" :> "LESS"
SignEqual == ":" :> "ASSIGN" @@ "!" :> "UNEQUAL" @@ ">" :> "MOREEQ" @@ "<" :> "LESSEQ"

Blank == {" ", "\n"}

ClassOf(c) ==
    CASE c \in Capital -> "CAPITAL"
      [] c \in Digit -> "DIGIT"
      [] c \in Lowercase -> "LOWERCASE"
      [] c = "'" -> "CHARACTER"
      [] c = "\n" -> "LINE"
      [] OTHER -> "UNKNOWN"

(* A Scanner is a record: what is left of the file, nextChar, charClass,    *)
(* nextToken, the lexeme, the two lists, and whether it reads for ever.     *)
Scanner ==
    [rest : Seq(STRING), next : STRING, class : STRING, tok : STRING, lexeme : Seq(STRING),
     tokens : Seq(STRING), lexemes : Seq(Seq(STRING)), stuck : BOOLEAN]

peek(s) == IF s.rest = <<>> THEN "-1" ELSE Head(s.rest)

read(s) == [s EXCEPT !.rest = IF @ = <<>> THEN @ ELSE Tail(@)]

(* The % stays in the file; the first character of a $ comment does not.    *)
getChar[s \in Scanner] ==
    CASE peek(s) = "-1" -> [s EXCEPT !.next = "-1", !.class = "EOF"]
      [] peek(s) = "%" -> [s EXCEPT !.next = "%", !.class = "COMMENTSIGN"]
      [] peek(s) = "$" -> [read(read(s)) EXCEPT !.next = peek(read(s)), !.class = "COMMENT"]
      [] peek(s) \notin {"-1", "%", "$"} ->
           [read(s) EXCEPT !.next = peek(s), !.class = ClassOf(peek(s))]

addChar(s) == [s EXCEPT !.lexeme = Append(@, s.next)]

getNonBlank[s \in Scanner] == IF s.next \in Blank THEN getNonBlank[getChar[s]] ELSE s

clearLine[s \in Scanner] == IF s.next = "\n" THEN clearLine[getChar[s]] ELSE s

AddWhile[s \in Scanner, classes \in SUBSET STRING] ==
    IF s.class \in classes THEN AddWhile[getChar[addChar(s)], classes] ELSE s

AfterLine[s \in Scanner] == IF s.class = "LINE" THEN clearLine[s] ELSE s

Keyed(s) == [s EXCEPT !.tok = getKey(s.lexeme)]

Word_(s) == AfterLine[Keyed(AddWhile[s, {"LOWERCASE", "CAPITAL"}])]

Ident(s) == AfterLine[[AddWhile[s, {"CAPITAL", "DIGIT"}] EXCEPT !.tok = "IDENT"]]

Number(s) == AfterLine[[AddWhile[s, {"DIGIT"}] EXCEPT !.tok = "NUMBER"]]

(* 'c', '\' or '\''; what else starts with a ' keeps the token before it.   *)
Closed[s \in Scanner] == IF s.next = "'" THEN [s EXCEPT !.tok = "CHARACTER"] ELSE s

Escaped[s \in Scanner] ==
    IF s.next # "'" THEN s
    ELSE IF peek(s) # "'" THEN Closed[[s EXCEPT !.lexeme = Append(@, "\\")]]
                          ELSE Closed[read([s EXCEPT !.lexeme = Append(@, "'")])]

Quoted[s \in Scanner] ==
    IF s.next = "\\" THEN Escaped[getChar[s]] ELSE Closed[getChar[addChar(s)]]

Character(s) == getChar[Quoted[getChar[s]]]

(* Mutant: the = behind a sign is not taken with it. *)
lookUp_One(s) ==
    [s EXCEPT !.lexeme = <<s.next>>, !.tok = IF s.next \in DOMAIN Sign THEN Sign[s.next] ELSE "EOF"]

lookUp(s) ==
    IF s.next \in DOMAIN SignEqual /\ peek(s) = "="
    THEN [read(s) EXCEPT !.lexeme = <<s.next, "=">>, !.tok = SignEqual[s.next]]
    ELSE [s EXCEPT !.lexeme = <<s.next>>,
                   !.tok = IF s.next \in DOMAIN Sign THEN Sign[s.next] ELSE "EOF"]

(* The rest of a comment is read; what has been found before it is dropped. *)
SkipComment(s, last) ==
    LET ends == {n \in DOMAIN s.rest : s.rest[n] = last}
    IN  IF ends = {} THEN [s EXCEPT !.stuck = TRUE]
        ELSE getChar[[s EXCEPT !.rest = SubSeq(@, Min(ends) + 1, Len(@)), !.tok = "EXITCOMMENT"]]

Lexed[s \in Scanner] ==
    CASE s.class = "LOWERCASE" -> Word_(s)
      [] s.class = "CAPITAL" -> Ident(s)
      [] s.class = "DIGIT" -> Number(s)
      [] s.class = "CHARACTER" -> Character(s)
      [] s.class = "UNKNOWN" -> AfterLine[getChar[lookUp(s)]]
      [] s.class = "EOF" -> [s EXCEPT !.tok = "EOF"]
      [] s.class \in {"LINE", "COMMENTSIGN", "COMMENT"} -> s

Listed[s \in Scanner] ==
    CASE s.class = "COMMENTSIGN" -> SkipComment(s, "\n")
      [] s.class = "COMMENT" -> SkipComment(s, "$")
      [] s.class \notin {"COMMENTSIGN", "COMMENT"} -> [s EXCEPT !.lexemes = Append(@, s.lexeme)]

lex[s \in Scanner] == Listed[Lexed[[getNonBlank[s] EXCEPT !.lexeme = <<>>]]]

(* What lex() finds while it looks for the end of a comment is not a token. *)
UntilComment[s \in Scanner] ==
    IF s.tok \in {"EXITCOMMENT", "EOF"} \/ s.stuck THEN s ELSE UntilComment[lex[s]]

commentFilter(s) == IF s.class \in {"COMMENTSIGN", "COMMENT"} THEN UntilComment[s] ELSE s

Kept[s \in Scanner] ==
    IF s.tok = "EXITCOMMENT" \/ s.stuck THEN s ELSE [s EXCEPT !.tokens = Append(@, s.tok)]

ScanOn[s \in Scanner] ==
    IF s.tok = "EOF" \/ s.stuck THEN s ELSE ScanOn[Kept[lex[commentFilter(s)]]]

scan(text) ==
    ScanOn[getChar[[rest |-> text, next |-> "-1", class |-> "EOF", tok |-> "none",
                    lexeme |-> <<>>, tokens |-> <<>>, lexemes |-> <<>>, stuck |-> FALSE]]]
=============================================================================
