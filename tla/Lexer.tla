-------------------------------- MODULE Lexer --------------------------------
(* The lexer of src/src/compiler/lexer.cpp: from the text of a program to the
   tokens that Parser reads.  A token is a tuple of its type and, for literals and
   names, its value; the end-of-file token is the end of the sequence.  A number
   with a fraction is kept as its whole part and the digits after the point.   *)
EXTENDS Text

Blanks == Chars(" \t\r\n")
Digits == Chars("0123456789")
Letters == Chars("abcdefghijklmnopqrstuvwxyzABCDEFGHIJKLMNOPQRSTUVWXYZ_")

\* identifier_type: the words that are no names.
Keywords == {"let", "fn", "if", "else", "while", "for", "in", "return", "break", "continue",
             "class", "this", "super", "new", "and", "or", "not", "include", "await",
             "switch", "case", "default", "try", "catch", "throw", "signal", "effect",
             "enum", "true", "false", "nil"}
Symbols == {"(", ")", "{", "}", "[", "]", ",", ":", ";", "+", "*", "%", "-", "->", ".", "..",
            "...", "/", "=", "==", "!", "!=", "<", "<=", "<<", ">", ">=", ">>", "&", "&&",
            "|", "||", "^", "~", "@"}

\* skip_whitespace: the place of the next token from i on.
RECURSIVE Skip(_, _)
Skip(s, i) ==
    IF Char(s, i) \in Blanks THEN Skip(s, i + 1)
    ELSE IF Piece(s, i, 2) = "//"
         THEN Skip(s, Min({Len(s) + 1} \union {j \in i..Len(s) : Char(s, j) = "\n"}))
    ELSE i

Read(token, next) == [token |-> token, next |-> next]
Wrong(s) == Read(<<"error">>, Len(s) + 1)

\* A word, which is a name unless it is a keyword.
ReadWord(s, i) ==
    LET j == EndOf(s, i, Letters \union Digits)
        word == SubSeq(s, i, j - 1)
    IN Read(IF word \in Keywords THEN <<word>> ELSE <<"id", word>>, j)

\* A number; a point belongs to it only when a digit follows.
RECURSIVE Decimal(_, _)
Decimal(s, value) ==
    IF s = "" THEN value ELSE Decimal(Tail(s), 10 * value + Place(Char(s, 1)) - Place("0"))
ReadNumber(s, i) ==
    LET j == EndOf(s, i, Digits)
        k == EndOf(s, j + 1, Digits)
        whole == Decimal(SubSeq(s, i, j - 1), 0)
    IN IF Char(s, j) = "." /\ Char(s, j + 1) \in Digits
       THEN Read(<<"num", whole, SubSeq(s, j + 1, k - 1)>>, k)
       ELSE Read(<<"num", whole>>, j)

\* A string from after its quote on; a backslash takes the next character along.
Escaped(c) == CASE c = "n" -> "\n" [] c = "t" -> "\t" [] c = "r" -> "\r" [] OTHER -> c
RECURSIVE ReadString(_, _, _, _)
ReadString(s, i, quote, value) ==
    CASE i > Len(s) -> Wrong(s)
      [] i <= Len(s) /\ Char(s, i) = quote -> Read(<<"str", value>>, i + 1)
      [] i <= Len(s) /\ Char(s, i) = "\\" ->
            ReadString(s, i + 2, quote, value \o Escaped(Char(s, i + 1)))
      [] OTHER -> ReadString(s, i + 1, quote, value \o Char(s, i))

\* The longest symbol at i.
ReadSymbol(s, i) ==
    LET ns == {n \in 1..3 : Piece(s, i, n) \in Symbols}
    IN IF ns = {} THEN Wrong(s) ELSE Read(<<Piece(s, i, Max(ns))>>, i + Max(ns))

NextToken(s, i) ==
    LET c == Char(s, i)
    IN CASE c \in Letters -> ReadWord(s, i)
         [] c \in Digits -> ReadNumber(s, i)
         [] c \in {"\"", "'"} -> ReadString(s, i + 1, c, "")
         [] OTHER -> ReadSymbol(s, i)

\* tokenize, which stops after an error.
RECURSIVE Tokens(_, _, _)
Tokens(s, i, done) ==
    LET at == Skip(s, i)
        r == NextToken(s, at)
    IN IF at > Len(s) THEN done ELSE Tokens(s, r.next, Append(done, r.token))
Tokenize(s) == Tokens(s, 1, <<>>)
=============================================================================
