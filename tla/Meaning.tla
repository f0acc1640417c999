------------------------------ MODULE Meaning ------------------------------
(* What a program means: a big-step evaluator of trees that knows variables,
   scopes and completions but no registers, bytecode or stack.  It is the promise
   of docs/language.md and docs/operators.md against which the compiler and the
   interpreter are checked.  A world w holds the cells of variables, the heap, the
   globals (name -> cell), what was printed and the number of enums; env maps the names in scope to
   cells.  Evaluating gives [w, v, c] and executing [w, env, v, c]: v a value, or
   the message of a throw, and c how the evaluation ended.                    *)
EXTENDS StandardLibrary, Bitwise
LOCAL INSTANCE SequencesExt

Nothing == << >>
World == [cells |-> <<>>, heap |-> <<>>, globals |-> Nothing, out |-> <<>>, enums |-> 0]
Is_(w, v, kind) == v[1] = "obj" /\ w.heap[v[2]].kind = kind
Lookup(f, k) == IF k \in DOMAIN f THEN f[k] ELSE Nil
Plus(f, k, v) == (k :> v) @@ f
True(v) == v \notin {Nil, Bool(FALSE)}

Value(w, v) == [w |-> w, v |-> v, c |-> "ok"]
Thrown(w, message) == [w |-> w, v |-> Str(message), c |-> "throw"]
Then(r, K(_)) == IF r.c = "ok" THEN K(r) ELSE r
Made(w, o) == Value([w EXCEPT !.heap = Append(@, o)], Obj(Len(w.heap) + 1))
Cell(w, v) == [w EXCEPT !.cells = Append(@, v)]

RECURSIVE Eval(_, _, _), EvalAll(_, _, _, _), Apply(_, _, _), Exec(_, _, _, _), ExecAll(_, _, _, _)

(* -------------------------------- Operators ------------------------------ *)

MagicOf == ("+" :> "__add") @@ ("-" :> "__sub") @@ ("*" :> "__mul") @@ ("/" :> "__div")
        @@ ("%" :> "__mod") @@ ("<" :> "__lt") @@ ("<=" :> "__le") @@ (">" :> "__gt")
        @@ (">=" :> "__ge") @@ ("==" :> "__eq")
OpName == ("+" :> "ADD") @@ ("-" :> "SUB") @@ ("*" :> "MUL") @@ ("/" :> "DIV") @@ ("%" :> "MOD")
       @@ ("<" :> "LT") @@ ("<=" :> "LTE") @@ (">" :> "GT") @@ (">=" :> "GTE")
BitsOf(op, x, y) ==
    CASE op = "&" -> x & y [] op = "|" -> x | y [] op = "^" -> x ^^ y
      [] op = "<<" -> x * 2^y [] op = ">>" -> x \div 2^y

MethodOf(w, v, name) ==
    IF Is_(w, v, "inst") THEN Lookup(w.heap[w.heap[v[2]].class].methods, Str(name)) ELSE Nil
\* a op b is a.__op(b) when the class of a says so and the operands are not both
\* numbers or both strings.
Operate(op, x, y, w) ==
    LET n == OpName[op]
        overload == IF op \in DOMAIN MagicOf THEN MethodOf(w, x, MagicOf[op]) ELSE Nil
    IN CASE op \in {"==", "!="} ->
              IF op = "==" /\ overload # Nil /\ Is_(w, y, "inst") THEN Apply(overload, <<x, y>>, w)
              ELSE Value(w, Bool((op = "==") = (x = y)))
         [] op \in {"&", "|", "^", "<<", ">>"} ->
              IF BothNum(x, y) THEN Value(w, Num(BitsOf(op, x[2], y[2])))
              ELSE Thrown(w, "Operands must be numbers")
         [] op \in {"<", "<=", ">", ">="} ->
              IF BothNum(x, y) \/ BothStr(x, y) THEN Value(w, Bool(Ordered(n, x, y)))
              ELSE IF overload # Nil THEN Apply(overload, <<x, y>>, w)
              ELSE Thrown(w, "Operands must be two numbers or two strings")
         [] OTHER ->
              IF BothNum(x, y) THEN IF DividesByZero(n, y[2]) THEN Thrown(w, ZeroMessage(n))
                                    ELSE Value(w, Num(Arithmetic(n, x[2], y[2])))
              ELSE IF op = "+" /\ BothStr(x, y) THEN Value(w, Str(x[2] \o y[2]))
              ELSE IF overload # Nil THEN Apply(overload, <<x, y>>, w)
              ELSE Thrown(w, "Operands must be numbers")
Negate(op, x, w) ==
    CASE op = "-" -> IF IsNum(x) THEN Value(w, Num(-x[2]))
                     ELSE IF MethodOf(w, x, "__neg") # Nil THEN Apply(MethodOf(w, x, "__neg"), <<x>>, w)
                     ELSE Thrown(w, "Operand must be a number")
      [] op = "~" -> IF IsNum(x) THEN Value(w, Num(-x[2] - 1)) ELSE Thrown(w, "Operands must be numbers")
      [] OTHER    -> Value(w, Bool(~True(x)))

(* --------------------------- Collections and fields ---------------------- *)

Spot(n, len) == IF n < 0 THEN n + len ELSE n
At(w, o, k) ==
    LET items == IF IsStr(o) THEN [j \in 1..Len(o[2]) |-> Str(Char(o[2], j))] ELSE w.heap[o[2]].items
        n == Len(items)
    IN CASE Is_(w, o, "array") \/ IsStr(o) ->
              IF ~IsNum(k) THEN Thrown(w, "Index must be a number")
              ELSE IF Spot(k[2], n) \notin 0..(n - 1) THEN Thrown(w, "Index out of bounds")
              ELSE Value(w, items[Spot(k[2], n) + 1])
         [] Is_(w, o, "map") -> IF IsStr(k) THEN Value(w, Lookup(w.heap[o[2]].entries, k))
                                ELSE Thrown(w, "Map key must be a string")
         [] OTHER -> Thrown(w, "Cannot index this value")
Store(w, o, k, v) ==
    LET items == w.heap[o[2]].items
        at == Spot(k[2], Len(items)) + 1
        grown == items \o [j \in 1..(at - Len(items)) |-> Nil]
    IN CASE Is_(w, o, "array") ->
              IF ~IsNum(k) THEN Thrown(w, "Index must be a number")
              ELSE IF at < 1 THEN Thrown(w, "Index out of bounds")
              ELSE Value([w EXCEPT !.heap[o[2]].items =
                             [(IF at > Len(items) THEN grown ELSE items) EXCEPT ![at] = v]], v)
         [] Is_(w, o, "map") ->
              IF IsStr(k) THEN Value([w EXCEPT !.heap[o[2]].entries = Plus(@, k, v)], v)
              ELSE Thrown(w, "Map key must be a string")
         [] OTHER -> Thrown(w, "Cannot index this value")
Dot(w, v, f) ==
    LET o == w.heap[v[2]]
    IN CASE Is_(w, v, "inst")  -> IF Str(f) \in DOMAIN o.fields THEN o.fields[Str(f)]
                                  ELSE Lookup(w.heap[o.class].methods, Str(f))
         [] Is_(w, v, "map")   -> Lookup(o.entries, Str(f))
         [] Is_(w, v, "class") -> Lookup(o.methods, Str(f))
         [] IsStr(v) \/ Is_(w, v, "array") ->
              IF f # "length" THEN Nil ELSE Num(Len(IF IsStr(v) THEN v[2] ELSE o.items))
         [] OTHER -> Nil
DotSet(w, o, f, v) ==
    CASE Is_(w, o, "inst")  -> Value([w EXCEPT !.heap[o[2]].fields = Plus(@, Str(f), v)], v)
      [] Is_(w, o, "class") -> Value([w EXCEPT !.heap[o[2]].methods = Plus(@, Str(f), v)], v)
      [] Is_(w, o, "map")   -> Value([w EXCEPT !.heap[o[2]].entries = Plus(@, Str(f), v)], v)
      [] OTHER -> Thrown(w, "Cannot set field on this value")
\* What a for-in takes as its k-th item, or nothing; Nil for what has no items.
ItemAt(w, v, k) ==
    LET es == w.heap[v[2]].entries
        lo == es[Str("start")][2]
        hi == es[Str("end")][2]
        items == IF IsStr(v) THEN [j \in 1..Len(v[2]) |-> Str(Char(v[2], j))] ELSE w.heap[v[2]].items
    IN CASE IsStr(v) \/ Is_(w, v, "array") -> IF k <= Len(items) THEN <<items[k]>> ELSE <<>>
         [] Is_(w, v, "map") -> IF k > Absolute(hi - lo) + 1 THEN <<>>
                                ELSE <<Num(IF lo <= hi THEN lo + k - 1 ELSE lo - k + 1)>>
         [] OTHER -> <<>>
Iterable(w, v) ==
    IsStr(v) \/ Is_(w, v, "array") \/ (Is_(w, v, "map") /\ Str("__type__") \in DOMAIN w.heap[v[2]].entries)

(* ------------------------------- Expressions ----------------------------- *)

EvalAll(es, env, w, done) ==
    IF es = <<>> THEN Value(w, done)
    ELSE Then(Eval(Head(es), env, w), LAMBDA r : EvalAll(Tail(es), env, r.w, Append(done, r.v)))
MapFrom(vs) == [k \in {vs[2 * j - 1] : j \in 1..(Len(vs) \div 2)} |->
                   vs[2 * Max({j \in 1..(Len(vs) \div 2) : vs[2 * j - 1] = k})]]
Fun(name, params, variadic, body, env) ==
    [kind |-> "closure", name |-> name, params |-> params, variadic |-> variadic, body |-> body, env |-> env]
Natives == Names \union {"print", "every", "some"}
CellOf(x, env, w) == IF x \in DOMAIN env THEN env[x] ELSE IF x \in DOMAIN w.globals THEN w.globals[x] ELSE 0
\* Natives are variables that were there before the program; other names must have
\* been declared (docs/language.md:46).
Assigned(x, v, env, w) ==
    LET k == CellOf(x, env, w)
    IN IF k > 0 THEN Value([w EXCEPT !.cells[k] = v], v)
       ELSE IF x \in Natives
       THEN Value([Cell(w, v) EXCEPT !.globals = Plus(@, x, Len(w.cells) + 1)], v)
       ELSE Thrown(w, "Undefined variable")
RangeOfNums(x, y, w) ==
    IF BothNum(x, y)
    THEN Made(w, [kind |-> "map", entries |-> (Str("start") :> x) @@ (Str("end") :> y)
                                              @@ (Str("__type__") :> Str("range"))])
    ELSE Thrown(w, "Range bounds must be numbers")

\* A method call looks the method up after its arguments.
CallOf(f, args, env, w) ==
    IF f[1] = "field"
    THEN Then(EvalAll(<<f[2]>> \o args, env, w, <<>>), LAMBDA r : Apply(Dot(r.w, r.v[1], f[3]), r.v, r.w))
    ELSE Then(EvalAll(<<f>> \o args, env, w, <<>>), LAMBDA r : Apply(r.v[1], Tail(r.v), r.w))

Eval(e, env, w) ==
    CASE e[1] = "num"   -> Value(w, e)
      [] e[1] = "str"   -> Value(w, e)
      [] e[1] = "bool"  -> Value(w, e)
      [] e[1] \in {"nil", "super"} -> Value(w, Nil)
      [] e[1] \in {"id", "this"} ->
            LET x == IF e[1] = "this" THEN "this" ELSE e[2]
                k == CellOf(x, env, w)
            IN IF k > 0 THEN Value(w, w.cells[k])
               ELSE IF x \in Natives THEN Value(w, <<"native", x>>)
               ELSE IF e[1] = "this" THEN Value(w, Nil) ELSE Thrown(w, "Undefined variable")
      [] e[1] = "bin"   -> Then(EvalAll(<<e[3], e[4]>>, env, w, <<>>),
                                LAMBDA r : Operate(e[2], r.v[1], r.v[2], r.w))
      [] e[1] = "logic" -> Then(Eval(e[3], env, w),
                                LAMBDA r : IF True(r.v) = (e[2] = "and") THEN Eval(e[4], env, r.w) ELSE r)
      [] e[1] = "un"    -> Then(Eval(e[3], env, w), LAMBDA r : Negate(e[2], r.v, r.w))
      [] e[1] = "range" -> Then(EvalAll(<<e[2], e[3]>>, env, w, <<>>),
                                LAMBDA r : RangeOfNums(r.v[1], r.v[2], r.w))
      [] e[1] = "call"  -> CallOf(e[2], e[3], env, w)
      [] e[1] = "index" -> Then(EvalAll(<<e[2], e[3]>>, env, w, <<>>), LAMBDA r : At(r.w, r.v[1], r.v[2]))
      [] e[1] = "field" -> Then(Eval(e[2], env, w), LAMBDA r : Value(r.w, Dot(r.w, r.v, e[3])))
      [] e[1] = "array" -> Then(EvalAll(e[2], env, w, <<>>),
                                LAMBDA r : Made(r.w, [kind |-> "array", items |-> r.v]))
      [] e[1] = "map"   -> Then(EvalAll(FlattenSeq(e[2]), env, w, <<>>),
                                LAMBDA r : Made(r.w, [kind |-> "map", entries |-> MapFrom(r.v)]))
      [] e[1] = "fn"    -> Made(w, Fun(e[2], e[3], e[4], e[5], env))
      [] e[1] = "assign"   -> Then(Eval(e[3], env, w), LAMBDA r : Assigned(e[2], r.v, env, r.w))
      [] e[1] = "setindex" -> Then(EvalAll(<<e[2], e[3], e[4]>>, env, w, <<>>),
                                   LAMBDA r : Store(r.w, r.v[1], r.v[2], r.v[3]))
      [] e[1] = "setfield" -> Then(EvalAll(<<e[2], e[4]>>, env, w, <<>>),
                                   LAMBDA r : DotSet(r.w, r.v[1], e[3], r.v[2]))

(* ---------------------------------- Calls -------------------------------- *)

\* The value of a call is that of its return, else that of a last expression; a
\* constructor's is the instance.
Body_(f, env, w) ==
    LET ss == f.body[2]
        last == f.name # "init" /\ ss # <<>> /\ ss[Len(ss)][1] = "expr"
        run == ExecAll(IF last THEN Front(ss) ELSE ss, env, w, FALSE)
    IN CASE run.c = "return" -> Value(run.w, run.v)
         [] run.c = "throw"  -> run
         [] OTHER -> IF last THEN Eval(ss[Len(ss)][2], run.env, run.w)
                     ELSE Value(run.w, IF f.name = "init" THEN run.w.cells[env["this"]] ELSE Nil)
Entered(f, args, w) ==
    LET last == Len(f.params)
        r == IF f.variadic THEN Made(w, [kind |-> "array", items |-> SubSeq(args, last, Len(args))])
             ELSE Value(w, Nil)
        vs == IF f.variadic THEN Append(SubSeq(args, 1, last - 1), r.v) ELSE args
        n == Len(r.w.cells)
        mine == [x \in ToSet(f.params) |-> n + Max({j \in DOMAIN f.params : f.params[j] = x})]
    IN Body_(f, mine @@ f.env, [r.w EXCEPT !.cells = @ \o vs])
\* every and some ask f of one item after the other, until the answer is clear.
RECURSIVE Asked(_, _, _, _)
Asked(x, f, items, w) ==
    IF items = <<>> THEN Value(w, Bool(x = "every"))
    ELSE Then(Apply(f, <<Head(items)>>, w), LAMBDA r :
             IF Truthy(r.v) = (x = "some") THEN Value(r.w, Bool(x = "some")) ELSE Asked(x, f, Tail(items), r.w))
Native_(x, args, w) ==
    LET r == Lib(x, args, w.heap)
    IN CASE x = "print" -> Value([w EXCEPT !.out = Append(@, [k \in DOMAIN args |-> Shown(w.heap, args[k])])], Nil)
         [] x \in {"every", "some"} ->
              IF Len(args) >= 2 /\ Is_(w, args[1], "array") /\ (args[2][1] = "native" \/ Is_(w, args[2], "closure"))
              THEN Asked(x, args[2], w.heap[args[1][2]].items, w) ELSE Value(w, Bool(FALSE))
         [] OTHER -> Value([w EXCEPT !.heap = r.h], r.v)
Apply(v, args, w) ==
    LET f == w.heap[v[2]]
        init == Lookup(f.methods, Str("init"))
        n == Len(f.params)
        made == Made(w, [kind |-> "inst", class |-> v[2], fields |-> Nothing])
    IN CASE v[1] = "native" -> Native_(v[2], args, w)
         [] Is_(w, v, "closure") ->
              IF Len(args) = n \/ (f.variadic /\ Len(args) >= n - 1) THEN Entered(f, args, w)
              ELSE Thrown(w, "Wrong number of arguments")
         [] Is_(w, v, "class") ->
              IF init = Nil THEN made ELSE Apply(init, <<made.v>> \o args, made.w)
         [] OTHER -> Thrown(w, "Can only call functions and classes")

(* -------------------------------- Statements ----------------------------- *)

Done(w, env) == [w |-> w, env |-> env, v |-> Nil, c |-> "ok"]
Ends(r, env, c) == [w |-> r.w, env |-> env, v |-> r.v, c |-> c]
\* An expression as a statement, or a part of one.
Step_(r, env, K(_)) == IF r.c = "ok" THEN K(r) ELSE Ends(r, env, r.c)
Declared(x, v, env, w, top) ==
    LET n == Len(w.cells) + 1
    IN IF top THEN Done([Cell(w, v) EXCEPT !.globals = Plus(@, x, n)], env)
       ELSE Done(Cell(w, v), Plus(env, x, n))
ExecAll(ss, env, w, top) ==
    IF ss = <<>> THEN Done(w, env)
    ELSE LET r == Exec(Head(ss), env, w, top)
         IN IF r.c = "ok" THEN ExecAll(Tail(ss), r.env, r.w, top) ELSE r
\* The names of a block end with it.
Scoped(r, env) == [r EXCEPT !.env = env]

RECURSIVE Loop(_, _, _, _, _), LoopIn(_, _, _, _, _, _), Choose_(_, _, _, _, _)
\* while and for: condition, body and update; break and continue end here.
Loop(c, b, upd, env, w) ==
    Step_(IF c = <<"none">> THEN Value(w, Bool(TRUE)) ELSE Eval(c, env, w), env, LAMBDA r :
        IF ~True(r.v) THEN Done(r.w, env)
        ELSE LET x == Exec(b, env, r.w, FALSE)
             IN IF x.c = "break" THEN Done(x.w, env)
                ELSE IF x.c \in {"return", "throw"} THEN x
                ELSE Step_(IF upd = <<"none">> THEN Value(x.w, Nil) ELSE Eval(upd, env, x.w), env,
                           LAMBDA u : Loop(c, b, upd, env, u.w)))
LoopIn(cell, v, k, b, env, w) ==
    LET item == ItemAt(w, v, k)
        x == Exec(b, env, [w EXCEPT !.cells[cell] = item[1]], FALSE)
    IN IF item = <<>> \/ x.c = "break" THEN Done(IF item = <<>> THEN w ELSE x.w, env)
       ELSE IF x.c \in {"return", "throw"} THEN x
       ELSE LoopIn(cell, v, k + 1, b, env, x.w)
\* The clause of a switch whose value equals v; its statements are in no block of
\* their own, and a break ends the switch.
Choose_(v, cs, dflt, env, w) ==
    IF cs = <<>> THEN IF dflt = <<"none">> THEN Done(w, env) ELSE ExecAll(dflt[2], env, w, FALSE)
    ELSE IF Head(cs)[1] = <<>> THEN Choose_(v, Tail(cs), dflt, env, w)
    ELSE Step_(Then(Eval(Head(Head(cs)[1]), env, w), LAMBDA r : Operate("==", r.v, v, r.w)), env, LAMBDA r :
             IF True(r.v) THEN ExecAll(Head(cs)[2][2], env, r.w, FALSE)
             ELSE Choose_(v, <<(<<Tail(Head(cs)[1]), Head(cs)[2]>>)>> \o Tail(cs), dflt, env, r.w))

RECURSIVE Bindings(_, _, _, _, _, _)
Bindings(names, k, v, env, w, top) ==
    IF k > Len(names) THEN Done(w, env)
    ELSE LET item == At(w, v, Num(k - 1))
             d == Declared(names[k], IF item.c = "ok" THEN item.v ELSE Nil, env, w, top)
         IN Bindings(names, k + 1, v, d.env, d.w, top)
ClassOf(x, ms, env, w) ==
    LET n == Len(w.heap)
        methods == [k \in {Str(ms[j][2]) : j \in DOMAIN ms} |->
                       Obj(n + Max({j \in DOMAIN ms : Str(ms[j][2]) = k}))]
        funs == [j \in DOMAIN ms |-> Fun(ms[j][2], <<"this">> \o ms[j][3], ms[j][4], ms[j][5], env)]
    IN Made([w EXCEPT !.heap = @ \o funs], [kind |-> "class", name |-> x, methods |-> methods])
EnumOf(x, vs, w) ==
    Made([w EXCEPT !.enums = @ + 1],
         [kind |-> "class", name |-> x,
          methods |-> [k \in {Str(vs[j][1]) : j \in DOMAIN vs} |->
              <<"enum", w.enums, (CHOOSE j \in DOMAIN vs : Str(vs[j][1]) = k) - 1>>]])
\* A function below the top level sees its own name.
Named_(f, env, w, top) ==
    LET n == Len(w.cells) + 1
        e == IF top THEN env ELSE Plus(env, f[2], n)
        r == Made(w, Fun(f[2], f[3], f[4], f[5], e))
    IN Declared(f[2], r.v, env, r.w, top)

Exec(s, env, w, top) ==
    CASE s[1] = "expr"   -> Step_(Eval(s[2], env, w), env, LAMBDA r : Done(r.w, env))
      [] s[1] = "block"  -> Scoped(ExecAll(s[2], env, w, FALSE), env)
      [] s[1] \in {"let", "signal", "export"} ->
                       Step_(IF s[3] = <<"none">> THEN Value(w, Nil) ELSE Eval(s[3], env, w), env,
                                  LAMBDA r : Declared(s[2], r.v, env, r.w, top))
      [] s[1] = "unpack" -> Step_(Eval(s[3], env, w), env, LAMBDA r : Bindings(s[2], 1, r.v, env, r.w, top))
      [] s[1] = "if"     -> Step_(Eval(s[2], env, w), env, LAMBDA r :
                                IF True(r.v) THEN Scoped(Exec(s[3], env, r.w, FALSE), env)
                                ELSE IF s[4] = <<"none">> THEN Done(r.w, env)
                                ELSE Scoped(Exec(s[4], env, r.w, FALSE), env))
      [] s[1] = "while"  -> Loop(s[2], s[3], <<"none">>, env, w)
      [] s[1] = "for"    ->
            LET i == IF s[2] = <<"none">> THEN Done(w, env)
                     ELSE Exec(IF s[2][1] = "let" THEN s[2] ELSE <<"expr", s[2]>>, env, w, FALSE)
            IN IF i.c # "ok" THEN i ELSE Scoped(Loop(s[3], s[5], s[4], i.env, i.w), env)
      [] s[1] = "forin"  -> Step_(Eval(s[3], env, w), env, LAMBDA r :
            IF ~Iterable(r.w, r.v) THEN Ends(Thrown(r.w, "Cannot iterate this value"), env, "throw")
            ELSE LET d == Declared(s[2], Nil, env, r.w, FALSE)
                 IN Scoped(LoopIn(d.env[s[2]], r.v, 1, s[4], d.env, d.w), env))
      [] s[1] \in {"break", "continue"} -> [Done(w, env) EXCEPT !.c = s[1]]
      [] s[1] = "return" -> Step_(EvalAll(s[2], env, w, <<>>), env, LAMBDA r :
            CASE Len(r.v) = 0 -> Ends(Value(r.w, Nil), env, "return")
              [] Len(r.v) = 1 -> Ends(Value(r.w, r.v[1]), env, "return")
              [] OTHER -> Ends(Made(r.w, [kind |-> "array", items |-> r.v]), env, "return"))
      [] s[1] = "fn"     -> Named_(s, env, w, top)
      [] s[1] = "class"  -> Step_(ClassOf(s[2], s[3], env, w), env, LAMBDA r : Declared(s[2], r.v, env, r.w, top))
      [] s[1] = "enum"   -> Step_(EnumOf(s[2], s[3], w), env, LAMBDA r : Declared(s[2], r.v, env, r.w, top))
      [] s[1] = "await"  -> Step_(Eval(s[2], env, w), env, LAMBDA r : Done(r.w, env))
      [] s[1] = "effect" -> Done(w, env)
      [] s[1] = "throw"  -> Step_(Eval(s[2], env, w), env, LAMBDA r : Ends(Value(r.w, ToMessage(r.v)), env, "throw"))
      [] s[1] = "try"    ->
            LET b == ExecAll(s[2][2], env, w, FALSE)
                d == Declared(s[3], b.v, env, b.w, FALSE)
            IN Scoped(IF b.c # "throw" THEN b ELSE ExecAll(s[4][2], d.env, d.w, FALSE), env)
      [] s[1] = "switch" -> Step_(Eval(s[2], env, w), env, LAMBDA r :
            LET x == Choose_(r.v, s[3], s[4], env, r.w)
            IN Scoped([x EXCEPT !.c = IF @ = "break" THEN "ok" ELSE @], env))

\* What a program prints and, when it ends in an error, the message.
Outcome(ss) ==
    LET r == ExecAll(ss, Nothing, World, TRUE)
    IN [out |-> r.w.out, err |-> IF r.c = "throw" THEN r.v ELSE <<"absent">>]
=============================================================================
