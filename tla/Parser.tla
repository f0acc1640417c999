------------------------------- MODULE Parser -------------------------------
(* The recursive-descent parser of src/src/compiler/parser.cpp.  A token is a
   tuple whose first element is its type and whose second one, for literals and
   names, is its value; a tree is a tuple whose first element is its node type.
   A parsing operator takes the tokens that are left and gives [t, r]: the tree
   and the tokens left after it.  Parser::error throws out of parse_program, so
   an error leaves the rest Bad, which no operator ever consumes.  Line numbers
   and messages are left out.                                                *)
EXTENDS Integers, Sequences

None == <<"none">>
Bad == << <<"bad">> >>

Is(r, k) == r # <<>> /\ Head(r) = <<k>>
HasKind(r, k) == r # <<>> /\ Head(r)[1] = k
Expect(r, k) == IF Is(r, k) THEN Tail(r) ELSE Bad
Match(r, k) == IF Is(r, k) THEN Tail(r) ELSE r
More(r, stops) == r \notin {<<>>, Bad} /\ \A k \in stops : ~Is(r, k)
Got(tree, rest) == [t |-> tree, r |-> rest]

\* A name that must stand here, and the rest after it.
Named(r) == IF HasKind(r, "id") THEN Got(Head(r)[2], Tail(r)) ELSE Got("?", Bad)

RECURSIVE Expression(_), Level(_, _), Chain(_, _), Unary(_), Postfix(_),
          Items(_, _), Pairs(_, _), Names(_, _), Params(_, _),
          Statement(_), Declaration(_), Body(_, _), Clauses(_, _), Methods(_, _),
          Variants(_, _)

(* ------------------------------ Expressions ------------------------------ *)

(* The binary operators, from the loosest to the tightest; each level parses its
   operands with the next one and is left-associative, except the range, which
   does not chain and has the inclusive form ..=                             *)
\* Mutant: as in C, & binds tighter than ==.
Levels_BitsTighter == << {"or"}, {"and"}, {"|"}, {"^"}, {"==", "!="}, {"&"},
                         {"<", "<=", ">", ">="}, {"<<", ">>"}, {".."}, {"+", "-"},
                         {"*", "/", "%"} >>
Levels == << {"or"}, {"and"}, {"|"}, {"^"}, {"&"}, {"==", "!="},
             {"<", "<=", ">", ">="}, {"<<", ">>"}, {".."}, {"+", "-"},
             {"*", "/", "%"} >>
RangeLevel == 9
Operands(k, op, x, y) == <<IF k <= 2 THEN "logic" ELSE "bin", op, x, y>>

RangeTail(p) ==
    LET end == Level(RangeLevel + 1, Match(Tail(p.r), "="))
    IN IF ~Is(p.r, "..") THEN p
       ELSE Got(<<"range", p.t, end.t, Is(Tail(p.r), "=")>>, end.r)

Chain(k, p) ==
    IF p.r # <<>> /\ Head(p.r)[1] \in Levels[k]
    THEN LET q == Level(k + 1, Tail(p.r))
         IN Chain(k, Got(Operands(k, Head(p.r)[1], p.t, q.t), q.r))
    ELSE p

Level(k, r) ==
    IF k > Len(Levels) THEN Unary(r)
    ELSE IF k = RangeLevel THEN RangeTail(Level(k + 1, r))
    ELSE Chain(k, Level(k + 1, r))

Unary(r) ==
    IF \E op \in {"-", "!", "not", "~"} : Is(r, op)
    THEN LET p == Unary(Tail(r)) IN Got(<<"un", Head(r)[1], p.t>>, p.r)
    ELSE Postfix(r)

\* assignment(): right-associative, and only to a name, an index or a field.
AssignTo(target, value) ==
    CASE target[1] = "id"    -> <<"assign", target[2], value>>
      [] target[1] = "index" -> <<"setindex", target[2], target[3], value>>
      [] target[1] = "field" -> <<"setfield", target[2], target[3], value>>

Expression(r) ==
    LET p == Level(1, r)
        v == Expression(Tail(p.r))
    IN IF ~Is(p.r, "=") THEN p
       ELSE Got(IF p.t[1] \in {"id", "index", "field"} THEN AssignTo(p.t, v.t) ELSE None,
                IF p.t[1] \in {"id", "index", "field"} THEN v.r ELSE Bad)

\* expression {"," expression}, as in arguments, arrays and case values.
Items(r, done) ==
    LET p == Expression(r)
    IN IF Is(p.r, ",") THEN Items(Tail(p.r), Append(done, p.t))
       ELSE Got(Append(done, p.t), p.r)
ListUpTo(r, close) ==
    IF Is(r, close) THEN Got(<<>>, Tail(r))
    ELSE LET p == Items(r, <<>>) IN Got(p.t, Expect(p.r, close))

\* call(): calls, indexing and fields, applied to a primary from left to right.
RECURSIVE Suffixes(_)
Suffixes(p) ==
    LET args  == ListUpTo(Tail(p.r), ")")
        index == Expression(Tail(p.r))
        name  == Named(Tail(p.r))
    IN CASE Is(p.r, "(") -> Suffixes(Got(<<"call", p.t, args.t>>, args.r))
         [] Is(p.r, "[") -> Suffixes(Got(<<"index", p.t, index.t>>, Expect(index.r, "]")))
         [] Is(p.r, ".") -> Suffixes(Got(<<"field", p.t, name.t>>, name.r))
         [] OTHER        -> p

Pairs(r, done) ==
    LET key   == Expression(r)
        value == Expression(Expect(key.r, ":"))
        all   == Append(done, <<key.t, value.t>>)
    IN IF Is(value.r, ",") THEN Pairs(Tail(value.r), all) ELSE Got(all, value.r)
MapLiteral(r) ==
    LET p == Pairs(r, <<>>)
    IN IF Is(r, "}") THEN Got(<<"map", <<>>>>, Tail(r))
       ELSE Got(<<"map", p.t>>, Expect(p.r, "}"))

\* Parameters up to ")": [names, and whether the last one takes the rest].
Params(r, done) ==
    LET rest == Named(Tail(r))
        p    == Named(r)
        all  == Append(done, p.t)
    IN IF Is(r, "...") THEN Got(<<Append(done, rest.t), TRUE>>, Expect(rest.r, ")"))
       ELSE IF Is(p.r, ",") THEN Params(Tail(p.r), all)
       ELSE Got(<<all, FALSE>>, Expect(p.r, ")"))
ParamList(r) == IF Is(r, ")") THEN Got(<< <<>>, FALSE >>, Tail(r)) ELSE Params(r, <<>>)
Block(r) == LET p == Body(r, <<>>) IN Got(<<"block", p.t>>, Expect(p.r, "}"))
Function(name, r) ==
    LET ps == ParamList(Expect(r, "("))
        b  == Block(Expect(ps.r, "{"))
    IN Got(<<"fn", name, ps.t[1], ps.t[2], b.t>>, b.r)

Postfix(r) ==
    LET inner == Expression(Tail(r))
        items == ListUpTo(Tail(r), "]")
        class == Named(Tail(r))
        args  == ListUpTo(Expect(class.r, "("), ")")
        super == Named(Expect(Tail(r), "."))
    IN Suffixes(
         CASE HasKind(r, "num") \/ HasKind(r, "str") \/ HasKind(r, "id") -> Got(Head(r), Tail(r))
           [] Is(r, "true") \/ Is(r, "false") -> Got(<<"bool", Is(r, "true")>>, Tail(r))
           [] Is(r, "nil") \/ Is(r, "this")   -> Got(Head(r), Tail(r))
           [] Is(r, "super") -> Got(<<"super", super.t>>, super.r)
           [] Is(r, "(")     -> Got(inner.t, Expect(inner.r, ")"))
           [] Is(r, "[")     -> Got(<<"array", items.t>>, items.r)
           [] Is(r, "new")   -> Got(<<"call", <<"id", class.t>>, args.t>>, args.r)
           [] Is(r, "fn")    -> Function("", Tail(r))
           [] Is(r, "{")     -> MapLiteral(Tail(r))
           [] OTHER          -> Got(<<"nil">>, Bad))

(* ------------------------------- Statements ------------------------------ *)

\* A statement's expression, with the optional semicolon after it.
Ended(r) == LET p == Expression(r) IN Got(p.t, Match(p.r, ";"))

\* Declarations up to "}" (or a "case" or "default" of a switch) or the end.
Body(r, done) ==
    LET p == Declaration(r)
    IN IF More(r, {"}"}) THEN Body(p.r, Append(done, p.t)) ELSE Got(done, r)
RECURSIVE CaseBody(_, _)
CaseBody(r, done) ==
    LET p == Declaration(r)
    IN IF More(r, {"case", "default", "}"}) THEN CaseBody(p.r, Append(done, p.t))
       ELSE Got(<<"block", done>>, r)

Names(r, done) ==
    LET p == Named(r)
    IN IF Is(p.r, ",") THEN Names(Tail(p.r), Append(done, p.t))
       ELSE Got(Append(done, p.t), p.r)
Let(r) ==
    LET names == IF Is(Tail(r), "]") THEN Got(<<>>, Tail(r)) ELSE Names(Tail(r), <<>>)
        from  == Ended(Expect(Expect(names.r, "]"), "="))
        name  == Named(r)
        init  == Ended(Tail(name.r))
    IN IF Is(r, "[") THEN Got(<<"unpack", names.t, from.t>>, from.r)
       ELSE IF Is(name.r, "=") THEN Got(<<"let", name.t, init.t>>, init.r)
       ELSE Got(<<"let", name.t, None>>, Match(name.r, ";"))

\* Methods up to "}"; a parameter of theirs that takes the rest is a syntax error.
Methods(r, done) ==
    LET name == Named(r)
        m    == Function(name.t, name.r)
    IN IF ~More(r, {"}"}) THEN Got(done, Expect(r, "}"))
       ELSE IF m.t[4] THEN Got(done, Bad)
       ELSE Methods(m.r, Append(done, m.t))
Class(r) ==
    LET name == Named(r)
        ms   == Methods(Expect(name.r, "{"), <<>>)
    IN Got(<<"class", name.t, ms.t>>, ms.r)

Variants(r, done) ==
    LET name  == Named(r)
        value == Expression(Tail(name.r))
        p     == CASE Is(name.r, "(") -> Got(<<name.t, value.t>>, Expect(value.r, ")"))
                   [] Is(name.r, "=") -> Got(<<name.t, value.t>>, value.r)
                   [] OTHER           -> Got(<<name.t, None>>, name.r)
    IN IF Is(p.r, ",") THEN Variants(Tail(p.r), Append(done, p.t))
       ELSE Got(Append(done, p.t), p.r)
Enum(r) ==
    LET name == Named(r)
        open == Expect(name.r, "{")
        vs   == IF Is(open, "}") THEN Got(<<>>, open) ELSE Variants(open, <<>>)
    IN Got(<<"enum", name.t, vs.t>>, Match(Expect(vs.r, "}"), ";"))

\* signal x = e, and @export [let] x = e: kind is "signal" or "export".
SignalLike(kind, r) ==
    LET name == Named(r)
        init == Ended(Expect(name.r, "="))
    IN Got(<<kind, name.t, init.t>>, init.r)
Annotation(r) ==
    IF r # <<>> /\ Head(r) = <<"id", "export">> THEN SignalLike("export", Match(Tail(r), "let"))
    ELSE Got(None, Bad)

Declaration(r) ==
    LET name == Named(Tail(r))
        path == IF HasKind(Tail(r), "str") THEN Got(Head(Tail(r))[2], Tail(Tail(r))) ELSE Got("?", Bad)
        body == Block(Expect(Tail(r), "{"))
    IN CASE Is(r, "@")       -> Annotation(Tail(r))
         [] Is(r, "let")     -> Let(Tail(r))
         [] Is(r, "fn")      -> Function(name.t, name.r)
         [] Is(r, "class")   -> Class(Tail(r))
         [] Is(r, "include") -> Got(<<"include", path.t>>, Match(path.r, ";"))
         [] Is(r, "signal")  -> SignalLike("signal", Tail(r))
         [] Is(r, "effect")  -> Got(<<"effect", body.t>>, body.r)
         [] Is(r, "enum")    -> Enum(Tail(r))
         [] OTHER            -> Statement(r)

\* if and while: a condition in parentheses and a statement.  An else belongs to
\* the nearest if, because the inner statement() takes it first.
Condition(r) == LET p == Expression(Expect(r, "(")) IN Got(p.t, Expect(p.r, ")"))
If(r) ==
    LET c == Condition(r)
        a == Statement(c.r)
        b == Statement(Tail(a.r))
    IN IF Is(a.r, "else") THEN Got(<<"if", c.t, a.t, b.t>>, b.r)
       ELSE Got(<<"if", c.t, a.t, None>>, a.r)
While(r) ==
    LET c == Condition(r)
        b == Statement(c.r)
    IN Got(<<"while", c.t, b.t>>, b.r)

ForIn(r) ==
    LET e == Expression(Tail(Tail(r)))
        b == Statement(e.r)
    IN Got(<<"forin", Head(r)[2], e.t, b.t>>, b.r)
For(r) ==
    LET open == Expect(r, "(")
        init == IF Is(open, "let") THEN Let(Tail(open))
                ELSE IF Is(open, ";") THEN Got(None, Tail(open)) ELSE Ended(open)
        cond == IF Is(init.r, ";") THEN Got(None, init.r) ELSE Expression(init.r)
        next == Match(cond.r, ";")
        upd  == IF Is(next, ")") THEN Got(None, next) ELSE Expression(next)
        b    == Statement(Expect(upd.r, ")"))
    IN IF HasKind(r, "id") /\ Is(Tail(r), "in") THEN ForIn(r)
       ELSE Got(<<"for", init.t, cond.t, upd.t, b.t>>, b.r)

Return(r) ==
    LET vs == IF More(r, {";", "}"}) THEN Items(r, <<>>) ELSE Got(<<>>, r)
    IN Got(<<"return", vs.t>>, Match(vs.r, ";"))

\* The clauses of a switch: [cases, default body or None].
Clauses(r, acc) ==
    LET vs   == Items(Tail(r), <<>>)
        body == CaseBody(Expect(vs.r, ":"), <<>>)
        dflt == CaseBody(Expect(Tail(r), ":"), <<>>)
    IN CASE ~More(r, {"}"})  -> Got(acc, Expect(r, "}"))
         [] Is(r, "case")    -> Clauses(body.r, <<Append(acc[1], <<vs.t, body.t>>), acc[2]>>)
         [] Is(r, "default") -> Clauses(dflt.r, <<acc[1], dflt.t>>)
         [] OTHER            -> Got(acc, Bad)
Switch(r) ==
    LET c  == Condition(r)
        cs == Clauses(Expect(c.r, "{"), << <<>>, None >>)
    IN Got(<<"switch", c.t, cs.t[1], cs.t[2]>>, cs.r)

Try(r) ==
    LET b    == Block(Expect(r, "{"))
        name == Named(Expect(Expect(b.r, "catch"), "("))
        c    == Block(Expect(Expect(name.r, ")"), "{"))
    IN Got(<<"try", b.t, name.t, c.t>>, c.r)

Statement(r) ==
    LET e == Ended(Tail(r))
        x == Ended(r)
    IN CASE Is(r, "if")     -> If(Tail(r))
         [] Is(r, "while")  -> While(Tail(r))
         [] Is(r, "for")    -> For(Tail(r))
         [] Is(r, "return") -> Return(Tail(r))
         [] Is(r, "break") \/ Is(r, "continue") -> Got(Head(r), Match(Tail(r), ";"))
         [] Is(r, "await") \/ Is(r, "throw")    -> Got(<<Head(r)[1], e.t>>, e.r)
         [] Is(r, "switch") -> Switch(Tail(r))
         [] Is(r, "try")    -> Try(Tail(r))
         [] Is(r, "{")      -> Block(Tail(r))
         [] OTHER           -> Got(<<"expr", x.t>>, x.r)

\* parse_program(): the declarations of a program, or None after an error.
RECURSIVE Program(_, _)
Program(r, done) ==
    LET p == Declaration(r)
    IN IF r = <<>> THEN <<"block", done>>
       ELSE IF p.r = Bad THEN None
       ELSE Program(p.r, Append(done, p.t))
Parse(tokens) == Program(tokens, <<>>)
=============================================================================
