------------------------------- MODULE Grammar -------------------------------
(* The concrete syntax of docs/language.md, written as the inverse of the lexer
   and the parser: the tokens of a tree, with no parentheses but the ones that
   precedence and associativity ask for, and the shortest text of those tokens.
   Reading that text back must give the tree.  docs/language.md:676-677 also has
   && and ||, which the lexer reads and no production accepts: they are left out. *)
EXTENDS Lexer, TLC
LOCAL INSTANCE SequencesExt

\* How tightly an operator binds, from "or" to "*".
Binding == ("or" :> 1) @@ ("and" :> 2) @@ ("|" :> 3) @@ ("^" :> 4) @@ ("&" :> 5)
        @@ ("==" :> 6) @@ ("!=" :> 6) @@ ("<" :> 7) @@ ("<=" :> 7) @@ (">" :> 7) @@ (">=" :> 7)
        @@ ("<<" :> 8) @@ (">>" :> 8) @@ (".." :> 9) @@ ("+" :> 10) @@ ("-" :> 10)
        @@ ("*" :> 11) @@ ("/" :> 11) @@ ("%" :> 11)
Rank(e) == CASE e[1] \in {"assign", "setindex", "setfield"} -> 0
             [] e[1] \in {"bin", "logic"} -> Binding[e[2]]
             [] e[1] = "range" -> Binding[".."]
             [] e[1] = "un" -> 12
             [] OTHER -> 13

Tok(k) == << <<k>> >>
Id(x) == << <<"id", x>> >>
Separated(parts) ==
    FoldLeft(LAMBDA acc, p : IF acc = <<>> THEN p ELSE acc \o Tok(",") \o p, <<>>, parts)

RECURSIVE Written(_), Printed(_)
\* e as an operand that must bind at least as tightly as rank.
In(e, rank) == IF Rank(e) >= rank THEN Written(e) ELSE Tok("(") \o Written(e) \o Tok(")")
All(es) == Separated([i \in DOMAIN es |-> In(es[i], 0)])
FunctionText(f) ==
    LET n == Len(f[3])
        names == [i \in 1..n |-> IF f[4] /\ i = n THEN Tok("...") \o Id(f[3][i]) ELSE Id(f[3][i])]
    IN (IF f[2] = "" THEN <<>> ELSE Id(f[2])) \o Tok("(") \o Separated(names) \o Tok(")") \o Printed(f[5])

Written(e) ==
    CASE e[1] \in {"num", "str", "id", "nil", "this"} -> <<e>>
      [] e[1] = "bool"  -> Tok(IF e[2] THEN "true" ELSE "false")
      [] e[1] = "super" -> Tok("super") \o Tok(".") \o Id(e[2])
      [] e[1] \in {"bin", "logic"} -> In(e[3], Rank(e)) \o Tok(e[2]) \o In(e[4], Rank(e) + 1)
      [] e[1] = "range" -> In(e[2], 10) \o Tok("..") \o (IF e[4] THEN Tok("=") ELSE <<>>) \o In(e[3], 10)
      [] e[1] = "un"    -> Tok(e[2]) \o In(e[3], 12)
      [] e[1] = "call"  -> In(e[2], 13) \o Tok("(") \o All(e[3]) \o Tok(")")
      [] e[1] = "index" -> In(e[2], 13) \o Tok("[") \o In(e[3], 0) \o Tok("]")
      [] e[1] = "field" -> In(e[2], 13) \o Tok(".") \o Id(e[3])
      [] e[1] = "array" -> Tok("[") \o All(e[2]) \o Tok("]")
      [] e[1] = "map"   -> Tok("{") \o Separated([i \in DOMAIN e[2] |->
                                In(e[2][i][1], 0) \o Tok(":") \o In(e[2][i][2], 0)]) \o Tok("}")
      [] e[1] = "fn"    -> Tok("fn") \o FunctionText(e)
      [] e[1] = "assign"   -> Id(e[2]) \o Tok("=") \o In(e[3], 0)
      [] e[1] = "setindex" -> In(e[2], 13) \o Tok("[") \o In(e[3], 0) \o Tok("]") \o Tok("=") \o In(e[4], 0)
      [] e[1] = "setfield" -> In(e[2], 13) \o Tok(".") \o Id(e[3]) \o Tok("=") \o In(e[4], 0)

Opt(e) == IF e = <<"none">> THEN <<>> ELSE Written(e)
PrintedAll(ss) == FlattenSeq([i \in DOMAIN ss |-> Printed(ss[i])])
Ending(tokens) == tokens \o Tok(";")
Variant(v) == IF v[2] = <<"none">> THEN Id(v[1]) ELSE Id(v[1]) \o Tok("(") \o Written(v[2]) \o Tok(")")
Printed(s) ==
    CASE s[1] = "expr"   -> Ending(Written(s[2]))
      [] s[1] = "block"  -> Tok("{") \o PrintedAll(s[2]) \o Tok("}")
      [] s[1] = "let"    -> Ending(Tok("let") \o Id(s[2]) \o
                                   (IF s[3] = <<"none">> THEN <<>> ELSE Tok("=") \o Written(s[3])))
      [] s[1] = "unpack" -> Ending(Tok("let") \o Tok("[") \o Separated([i \in DOMAIN s[2] |-> Id(s[2][i])])
                                   \o Tok("]") \o Tok("=") \o Written(s[3]))
      [] s[1] = "if"     -> Tok("if") \o Tok("(") \o Written(s[2]) \o Tok(")") \o Printed(s[3])
                            \o (IF s[4] = <<"none">> THEN <<>> ELSE Tok("else") \o Printed(s[4]))
      [] s[1] = "while"  -> Tok("while") \o Tok("(") \o Written(s[2]) \o Tok(")") \o Printed(s[3])
      [] s[1] = "for"    -> Tok("for") \o Tok("(")
                            \o (IF s[2] = <<"none">> THEN Tok(";")
                                ELSE IF s[2][1] = "let" THEN Printed(s[2]) ELSE Ending(Written(s[2])))
                            \o Ending(Opt(s[3])) \o Opt(s[4]) \o Tok(")") \o Printed(s[5])
      [] s[1] = "forin"  -> Tok("for") \o Id(s[2]) \o Tok("in") \o Written(s[3]) \o Printed(s[4])
      [] s[1] \in {"break", "continue"} -> Ending(Tok(s[1]))
      [] s[1] = "return" -> Ending(Tok("return") \o All(s[2]))
      [] s[1] \in {"throw", "await"} -> Ending(Tok(s[1]) \o Written(s[2]))
      [] s[1] = "fn"     -> Tok("fn") \o FunctionText(s)
      [] s[1] = "class"  -> Tok("class") \o Id(s[2]) \o Tok("{")
                            \o FlattenSeq([i \in DOMAIN s[3] |-> FunctionText(s[3][i])]) \o Tok("}")
      [] s[1] = "enum"   -> Tok("enum") \o Id(s[2]) \o Tok("{")
                            \o Separated([i \in DOMAIN s[3] |-> Variant(s[3][i])]) \o Tok("}")
      [] s[1] = "include" -> Ending(Tok("include") \o << <<"str", s[2]>> >>)
      [] s[1] \in {"signal", "export"} ->
            Ending((IF s[1] = "signal" THEN Tok("signal") ELSE Tok("@") \o Id("export"))
                   \o Id(s[2]) \o Tok("=") \o Written(s[3]))
      [] s[1] = "effect" -> Tok("effect") \o Printed(s[2])
      [] s[1] = "try"    -> Tok("try") \o Printed(s[2]) \o Tok("catch") \o Tok("(") \o Id(s[3])
                            \o Tok(")") \o Printed(s[4])
      [] s[1] = "switch" -> Tok("switch") \o Tok("(") \o Written(s[2]) \o Tok(")") \o Tok("{")
                            \o FlattenSeq([i \in DOMAIN s[3] |->
                                   Tok("case") \o All(s[3][i][1]) \o Tok(":") \o PrintedAll(s[3][i][2][2])])
                            \o (IF s[4] = <<"none">> THEN <<>>
                                ELSE Tok("default") \o Tok(":") \o PrintedAll(s[4][2])) \o Tok("}")

\* The shortest text of tokens: a blank only where two of them would merge.
Spelled(t) == CASE t[1] = "num" -> ToString(t[2])
                [] t[1] = "str" -> "'" \o t[2] \o "'"
                [] t[1] = "id"  -> t[2]
                [] OTHER        -> t[1]
Glued(a, b) == IF Tokenize(Spelled(a) \o Spelled(b)) = <<a, b>> THEN Spelled(b) ELSE " " \o Spelled(b)
RECURSIVE Joined(_)
Joined(ts) == IF Len(ts) < 2 THEN (IF ts = <<>> THEN "" ELSE Spelled(ts[1]))
              ELSE Joined(SubSeq(ts, 1, Len(ts) - 1)) \o Glued(ts[Len(ts) - 1], ts[Len(ts)])
TextOf(tree) == Joined(PrintedAll(tree[2]))
=============================================================================
