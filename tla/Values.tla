------------------------------- MODULE Values -------------------------------
(* Values and their operations: src/src/common/value.cpp, and what the handlers of
   src/src/vm/vm.cpp compute from numbers and strings.  A value is <<"num", n>>,
   <<"str", s>>, <<"bool", b>>, <<"nil">>, <<"obj", h>> with h a heap address,
   <<"native", x>> or <<"enum", type, variant>>.  Doubles are integers here: no
   model divides without an exact result.  Names and strings are interned alike,
   so a name is the string value of its text.                                *)
EXTENDS Text, TLC

Num(n) == <<"num", n>>
Str(s) == <<"str", s>>
Bool(b) == <<"bool", b>>
Obj(h) == <<"obj", h>>
Nil == <<"nil">>
IsNum(v) == v[1] = "num"
IsStr(v) == v[1] = "str"
BothNum(v, w) == IsNum(v) /\ IsNum(w)
BothStr(v, w) == IsStr(v) /\ IsStr(w)

\* Value::is_truthy; Value::operator== is TLA+ equality of these tuples.
Truthy(v) == v \notin {Nil, Bool(FALSE), Num(0)}

\* Whether v op w for an ordering op, of two numbers or two strings.
Less(v, w) == IF IsNum(v) THEN v[2] < w[2] ELSE Precedes(v[2], w[2])
Ordered(op, v, w) ==
    CASE op = "LT" -> Less(v, w) [] op = "LTE" -> ~Less(w, v)
      [] op = "GT" -> Less(w, v) [] op = "GTE" -> ~Less(v, w)

Absolute(n) == IF n < 0 THEN -n ELSE n
Quotient(x, y) ==
    LET q == Absolute(x) \div Absolute(y) IN IF (x < 0) = (y < 0) THEN q ELSE -q
\* The number x op y; fmod takes the sign of x.
Arithmetic(op, x, y) ==
    CASE op = "ADD" -> x + y
      [] op = "SUB" -> x - y
      [] op = "MUL" -> x * y
      [] op = "DIV" -> Quotient(x, y)
      [] op = "MOD" -> x - y * Quotient(x, y)
DividesByZero(op, y) == op \in {"DIV", "MOD"} /\ y = 0
ZeroMessage(op) == IF op = "DIV" THEN "Division by zero" ELSE "Modulo by zero"

\* to_string of a value that a throw turns into its message.
ToMessage(v) ==
    CASE v[1] = "str"  -> v
      [] v[1] \in {"num", "bool"} -> Str(ToString(v[2]))
      [] OTHER -> Str(v[1])

\* What print shows of v: everything that to_string distinguishes.
RECURSIVE Shown(_, _)
Shown(heap, v) ==
    IF v[1] # "obj" THEN v
    ELSE LET o == heap[v[2]]
         IN CASE o.kind = "array" -> <<"array", [i \in DOMAIN o.items |-> Shown(heap, o.items[i])]>>
              [] o.kind = "map"   -> <<"map", [k \in DOMAIN o.entries |-> Shown(heap, o.entries[k])]>>
              [] OTHER            -> <<o.kind>>
=============================================================================
