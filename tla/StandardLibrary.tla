-------------------------- MODULE StandardLibrary --------------------------
(* What docs/stdlib.md and the comments of src/src/vm/native.cpp promise of the
   functions on strings and arrays: given the heap h and the arguments, the heap and
   the value [h, v] of a call, in terms of sequences.                         *)
EXTENDS Values
LOCAL INSTANCE SequencesExt

Names == {"len", "type", "to_string", "push", "pop", "insert", "remove", "shift", "unshift", "index_of", "slice",
          "reverse", "sort", "fill", "clear", "flatten", "unique", "concat_arrays", "abs", "concat", "contains",
          "replace", "split", "join", "substr", "range", "min", "max", "clamp", "sign"}
Holds(h, v, kind) == v[1] = "obj" /\ h[v[2]].kind = kind
Just(h, v) == [h |-> h, v |-> v]
Array(h, items) == Just(Append(h, [kind |-> "array", items |-> items]), Obj(Len(h) + 1))
Update(h, a, items, v) == Just([h EXCEPT ![a[2]].items = items], v)
\* The items at the places for which T holds.
Those(items, T(_)) ==
    LET places == SelectSeq([k \in DOMAIN items |-> k], T) IN [k \in DOMAIN places |-> items[places[k]]]
Letters(s) == [k \in 1..Len(s) |-> Char(s, k)]
Text_(letters) == FoldLeft(LAMBDA s, c : s \o c, "", letters)
Occurs(t, s) == \E i, j \in 0..Len(s) : SubSeq(s, i + 1, j) = t /\ (t = "" \/ i < j)

\* s in front of the first d in it, and what is behind.
RECURSIVE Between(_, _), Glued(_, _)
Between(s, d) ==
    IF ~Occurs(d, s) THEN <<s>>
    ELSE LET e == Min({k \in 1..Len(s) : Occurs(d, SubSeq(s, 1, k))})
         IN <<SubSeq(s, 1, e - Len(d))>> \o Between(SubSeq(s, e + 1, Len(s)), d)
Glued(parts, d) ==
    IF parts = <<>> THEN "" ELSE IF Len(parts) = 1 THEN parts[1] ELSE parts[1] \o d \o Glued(Tail(parts), d)

\* A sorted sequence of the same items: nil, truth values, numbers, strings.
Kinds == <<"nil", "bool", "num", "str">>
UpTo(v, w) ==
    LET rank(u) == CHOOSE k \in DOMAIN Kinds : Kinds[k] = u[1]
    IN rank(v) < rank(w) \/ v = w \/ (v[1] = w[1] /\ (IF v[1] = "bool" THEN w[2] ELSE Less(v, w)))
Sorted(items) ==
    CHOOSE s \in {[k \in DOMAIN items |-> items[f[k]]] : f \in Permutations(DOMAIN items)} :
        \A k \in 2..Len(s) : UpTo(s[k - 1], s[k])

\* Whether a call has the arguments that the function asks for.
Asks(h, x, args) ==
    LET n == Len(args)
        number(k) == n >= k /\ IsNum(args[k])
        string(k) == n >= k /\ IsStr(args[k])
        array == n >= 1 /\ Holds(h, args[1], "array")
    IN CASE x \in {"len", "type", "to_string"} -> n = 1
         [] x = "abs" -> n = 1 /\ number(1)
         [] x \in {"min", "max", "sign"} -> number(1)
         [] x = "clamp" -> number(1) /\ number(2) /\ number(3)
         [] x = "pop" -> n = 1 /\ array
         [] x = "push" -> n = 2 /\ array
         [] x \in {"shift", "reverse", "sort", "clear", "flatten", "unique"} -> array
         [] x \in {"unshift", "index_of"} -> n >= 2 /\ array
         [] x \in {"remove", "slice"} -> number(2) /\ array
         [] x = "insert" -> n >= 3 /\ number(2) /\ array
         [] x = "join" -> string(2) /\ array
         [] x = "fill" -> number(2)
         [] x = "range" -> number(1) /\ number(2)
         [] x = "split" -> string(1) /\ string(2)
         [] x = "replace" -> string(1) /\ string(2) /\ string(3)
         [] x = "substr" -> string(1) /\ number(2)
         [] x = "contains" -> n >= 2
         [] OTHER -> TRUE

Performed(x, args, h) ==
    LET a == args[1]
        v == args[2]
        items == h[a[2]].items
        n == Len(items)
        more == Len(args) >= 3 /\ IsNum(args[3])
        shown(u) == ToMessage(u)[2]
        numbers == {u \in ToSet(args) : IsNum(u)}
        index(k) == IF k < 0 THEN k + n ELSE k
        until == IF more THEN index(args[3][2]) ELSE n
        step == IF more /\ args[3][2] # 0 THEN args[3][2] ELSE 1
    IN CASE x = "len" -> Just(h, IF IsStr(a) THEN Num(Len(a[2])) ELSE IF Holds(h, a, "array") THEN Num(n)
                                 ELSE IF Holds(h, a, "map") THEN Num(Cardinality(DOMAIN h[a[2]].entries)) ELSE Nil)
         [] x = "type" -> Just(h, Str(
                CASE IsNum(a) -> "number" [] IsStr(a) -> "string" [] a[1] \in {"nil", "bool", "enum"} -> a[1]
                  [] Holds(h, a, "closure") -> "function" [] Holds(h, a, "inst") -> "instance"
                  [] a[1] = "native" -> "unknown" [] OTHER -> h[a[2]].kind))
         [] x = "to_string" -> Just(h, ToMessage(a))
         [] x = "abs" -> Just(h, IF a[2] < 0 THEN Num(-a[2]) ELSE a)
         [] x = "min" -> Just(h, CHOOSE u \in numbers : \A w \in numbers : u[2] <= w[2])
         [] x = "max" -> Just(h, CHOOSE u \in numbers : \A w \in numbers : u[2] >= w[2])
         [] x = "clamp" -> Just(h, IF a[2] < v[2] THEN v ELSE IF a[2] > args[3][2] THEN args[3] ELSE a)
         [] x = "sign" -> Just(h, Num(IF a[2] > 0 THEN 1 ELSE IF a[2] < 0 THEN -1 ELSE 0))
         [] x = "push" -> Update(h, a, items \o <<v>>, a)
         [] x = "pop" -> IF n = 0 THEN Just(h, Nil) ELSE Update(h, a, Front(items), items[n])
         [] x = "shift" -> IF n = 0 THEN Just(h, Nil) ELSE Update(h, a, Tail(items), Head(items))
         [] x = "unshift" -> Update(h, a, <<v>> \o items, a)
         [] x = "insert" -> Update(h, a, Those(items, LAMBDA k : k <= v[2]) \o <<args[3]>>
                                         \o Those(items, LAMBDA k : k > v[2]), a)
         [] x = "remove" -> IF v[2] < 0 \/ v[2] >= n THEN Just(h, Nil)
                            ELSE Update(h, a, Those(items, LAMBDA k : k # v[2] + 1), items[v[2] + 1])
         [] x = "index_of" -> LET at == {k \in 0..(n - 1) : items[k + 1] = v}
                              IN Just(h, Num(IF at = {} THEN -1 ELSE Min(at)))
         [] x = "slice" -> Array(h, Those(items, LAMBDA k : k > index(v[2]) /\ k <= until))
         [] x = "reverse" -> Update(h, a, [k \in 1..n |-> items[n + 1 - k]], a)
         [] x = "sort" -> Update(h, a, Sorted(items), a)
         [] x = "clear" -> Update(h, a, <<>>, a)
         [] x = "fill" -> Array(h, [k \in 1..v[2] |-> a])
         [] x = "flatten" -> Array(h, FlattenSeq([k \in 1..n |->
                IF Holds(h, items[k], "array") THEN h[items[k][2]].items ELSE <<items[k]>>]))
         [] x = "unique" -> Array(h, Those(items, LAMBDA k : \A j \in 1..(k - 1) : items[j] # items[k]))
         [] x = "concat_arrays" -> LET arrays == SelectSeq(args, LAMBDA u : Holds(h, u, "array"))
                                   IN Array(h, FlattenSeq([k \in DOMAIN arrays |-> h[arrays[k][2]].items]))
         [] x = "contains" -> Just(h, Bool(
                CASE IsStr(a) -> IsStr(v) /\ Occurs(v[2], a[2]) [] Holds(h, a, "array") -> \E k \in 1..n : items[k] = v
                  [] Holds(h, a, "map") -> v \in DOMAIN h[a[2]].entries [] OTHER -> FALSE))
         [] x = "replace" -> Just(h, IF v[2] = "" THEN a ELSE Str(Glued(Between(a[2], v[2]), args[3][2])))
         [] x = "split" -> LET parts == IF v[2] = "" THEN Letters(a[2]) ELSE Between(a[2], v[2])
                           IN Array(h, [k \in DOMAIN parts |-> Str(parts[k])])
         [] x = "join" -> Just(h, Str(Glued([k \in 1..n |-> shown(items[k])], v[2])))
         [] x = "concat" -> Just(h, Str(Text_([k \in DOMAIN args |-> shown(args[k])])))
         [] x = "substr" -> Just(h, Str(Text_(Those(Letters(a[2]), LAMBDA k :
                k > v[2] /\ k <= (IF more THEN Max({v[2], 0}) + args[3][2] ELSE Len(a[2]))))))
         [] x = "range" -> Array(h, LET last == Absolute(v[2] - a[2]) + 1
                                    IN [k \in DOMAIN Those([j \in 1..last |-> a[2] + (j - 1) * step], LAMBDA j :
                                            (a[2] + (j - 1) * step - v[2]) * step <= 0) |-> Num(a[2] + (k - 1) * step)])
Failed(x) == CASE x = "index_of" -> Num(-1) [] x = "sign" -> Num(0) [] x = "contains" -> Bool(FALSE) [] OTHER -> Nil
Lib(x, args, h) == IF Asks(h, x, args) THEN Performed(x, args, h) ELSE Just(h, Failed(x))
=============================================================================
