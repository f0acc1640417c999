------------------------------ MODULE Natives ------------------------------
(* The native functions of src/src/vm/native.cpp that work on strings and arrays.
   A native is given m, which has the objects m.heap and the printed m.out, and its
   arguments, and yields [m, v] with the value of the call.  Doubles are integers
   here, so what rounds and what computes with fractions is left out, as are clocks,
   random numbers, input, format, and the limits of fill and range (10^6 and 10^7 items).
   A native that is given something else than it expects returns nil.         *)
EXTENDS Values
LOCAL INSTANCE SequencesExt

IsKind(m, v, kind) == v[1] = "obj" /\ m.heap[v[2]].kind = kind
Gives(m, v) == [m |-> m, v |-> v]
ItemsOf(m, v) == m.heap[v[2]].items
\* An array that has new items, and a new array.
Changed(m, v, items) == [m EXCEPT !.heap[v[2]].items = items]
NewArray(m, items) ==
    Gives([m EXCEPT !.heap = Append(@, [kind |-> "array", items |-> items])], Obj(Len(m.heap) + 1))
\* n, but at least lo and at most hi.
Clamp(n, lo, hi) == IF n < lo THEN lo ELSE IF n > hi THEN hi ELSE n

(* --------------------------------- Arrays -------------------------------- *)

Inserted(m, a, n, v) == Gives(Changed(m, a, InsertAt(ItemsOf(m, a), Clamp(n, 0, Len(ItemsOf(m, a))) + 1, v)), a)
Removed(m, a, n) ==
    IF n \notin 0..(Len(ItemsOf(m, a)) - 1) THEN Gives(m, Nil)
    ELSE Gives(Changed(m, a, RemoveAt(ItemsOf(m, a), n + 1)), ItemsOf(m, a)[n + 1])
\* Mutant: the end counts from the front, whatever its sign.
Slice_Forward(m, a, from, to) ==
    LET n == Len(ItemsOf(m, a))
        start == Clamp(IF from < 0 THEN from + n ELSE from, 0, n)
    IN NewArray(m, SubSeq(ItemsOf(m, a), start + 1, Clamp(to, 0, n)))
Slice(m, a, from, to) ==
    LET n == Len(ItemsOf(m, a))
        start == Clamp(IF from < 0 THEN from + n ELSE from, 0, n)
        end == Clamp(IF to < 0 THEN to + n ELSE to, 0, n)
    IN NewArray(m, SubSeq(ItemsOf(m, a), start + 1, end))
\* The order of sort; objects, which it orders by their addresses, are left out.
Rank(v) == CASE v = Nil -> 0 [] v[1] = "bool" -> 1 [] IsNum(v) -> 2 [] IsStr(v) -> 3 [] OTHER -> 4
Before(v, w) ==
    IF BothNum(v, w) \/ BothStr(v, w) THEN Less(v, w)
    ELSE Rank(v) < Rank(w) \/ (v = Bool(FALSE) /\ w = Bool(TRUE))
Flattened(m, a) ==
    LET join(acc, v) == IF IsKind(m, v, "array") THEN acc \o ItemsOf(m, v) ELSE Append(acc, v)
    IN FoldLeft(join, <<>>, ItemsOf(m, a))
Distinct(items) ==
    LET add(acc, v) == IF Contains(acc, v) THEN acc ELSE Append(acc, v) IN FoldLeft(add, <<>>, items)
RangeItems(start, end, step0) ==
    LET step == IF step0 = 0 THEN 1 ELSE step0
        count == IF step > 0 /\ start <= end THEN (end - start) \div step + 1
                 ELSE IF step < 0 /\ start >= end THEN (start - end) \div (-step) + 1 ELSE 0
    IN [k \in 1..count |-> Num(start + (k - 1) * step)]

(* -------------------------------- Strings -------------------------------- *)

\* string::find: the first place of t in s from i on, 0 for npos.
Found(s, t, i) ==
    LET at == {j \in i..(Len(s) - Len(t) + 1) : SubSeq(s, j, j + Len(t) - 1) = t}
    IN IF at = {} THEN 0 ELSE Min(at)
RECURSIVE Replaced_(_, _, _, _), Split_(_, _, _)
\* replace: the search goes on behind what was put in.
Replaced_(s, old, new, i) ==
    LET j == Found(s, old, i)
    IN IF j = 0 THEN s
       ELSE Replaced_(SubSeq(s, 1, j - 1) \o new \o SubSeq(s, j + Len(old), Len(s)), old, new, j + Len(new))
Split_(s, d, i) ==
    LET j == Found(s, d, i)
    IN IF j = 0 THEN <<Str(SubSeq(s, i, Len(s)))>> ELSE <<Str(SubSeq(s, i, j - 1))>> \o Split_(s, d, j + Len(d))
Parts(s, d) == IF d = "" THEN [k \in 1..Len(s) |-> Str(Char(s, k))] ELSE Split_(s, d, 1)
Joined(vs, d) ==
    LET glue(acc, k) == acc \o (IF k > 1 THEN d ELSE "") \o ToMessage(vs[k])[2]
    IN FoldLeft(glue, "", [k \in DOMAIN vs |-> k])
Substring(s, from, count) ==
    LET start == IF from < 0 THEN 0 ELSE from
    IN IF start >= Len(s) THEN "" ELSE SubSeq(s, start + 1, Clamp(start + Clamp(count, 0, Len(s)), 0, Len(s)))

(* -------------------------------- Any value ------------------------------ *)

SizeOf(m, v) ==
    CASE IsStr(v) -> Num(Len(v[2]))
      [] IsKind(m, v, "array") -> Num(Len(ItemsOf(m, v)))
      [] IsKind(m, v, "map") -> Num(Cardinality(DOMAIN m.heap[v[2]].entries))
      [] OTHER -> Nil
TypeOf(m, v) ==
    LET name == ("closure" :> "function") @@ ("inst" :> "instance")
        kind == m.heap[v[2]].kind
    IN CASE v[1] = "num" -> "number" [] v[1] = "str" -> "string" [] v[1] = "native" -> "unknown"
         [] v[1] \in {"nil", "bool", "enum"} -> v[1]
         [] OTHER -> IF kind \in DOMAIN name THEN name[kind] ELSE kind
Has(m, c, k) ==
    CASE IsStr(c) -> IsStr(k) /\ Found(c[2], k[2], 1) > 0
      [] IsKind(m, c, "array") -> Contains(ItemsOf(m, c), k)
      [] IsKind(m, c, "map") -> k \in DOMAIN m.heap[c[2]].entries
      [] OTHER -> FALSE

(* --------------------------------- Calls --------------------------------- *)

\* How many arguments a native takes, at least and at most.
Many == 99
Takes == [x \in {"len", "type", "to_string", "pop", "abs"} |-> <<1, 1>>]
      @@ [x \in {"shift", "reverse", "sort", "clear", "flatten", "unique", "min", "max", "sign"} |-> <<1, Many>>]
      @@ [x \in {"remove", "unshift", "slice", "fill", "contains", "split", "join", "substr", "range", "index_of", "every", "some"} |-> <<2, Many>>]
      @@ [x \in {"insert", "replace", "clamp"} |-> <<3, Many>>]
      @@ [x \in {"print", "concat", "concat_arrays"} |-> <<0, Many>>]
      @@ ("push" :> <<2, 2>>)
\* The kinds of the first arguments that a native asks for.
OnArray == {"push", "pop", "shift", "unshift", "index_of", "reverse", "sort", "clear", "flatten", "unique",
            "insert", "remove", "slice", "join", "every", "some"}
Fits(m, x, args) ==
    LET n(k) == IsNum(args[k])
        s(k) == IsStr(args[k])
    IN /\ Len(args) \in Takes[x][1]..Takes[x][2]
       /\ x \in OnArray => Len(args) > 0 /\ IsKind(m, args[1], "array")
       /\ x \in {"insert", "remove", "slice", "fill"} => n(2)
       /\ x \in {"range", "clamp"} => n(1) /\ n(2)
       /\ x \in {"abs", "min", "max", "sign"} => n(1)
       /\ x \in {"split", "replace", "substr"} => s(1)
       /\ x \in {"split", "join", "replace"} => s(2)
       /\ x = "replace" => s(3)
       /\ x = "clamp" => n(3)
       /\ x = "substr" => n(2)
\* The numbers among the arguments.
Numbers(args) == {args[k][2] : k \in {j \in DOMAIN args : IsNum(args[j])}}
\* The optional third argument.
Third(args, default) == IF Len(args) >= 3 /\ IsNum(args[3]) THEN args[3][2] ELSE default
Failing(x) == CASE x = "index_of" -> Num(-1) [] x = "sign" -> Num(0)
                []  x \in {"every", "some", "contains"} -> Bool(FALSE) [] OTHER -> Nil

Single(m, x, args) ==
    LET a == args[1]
        v == args[2]
        items == ItemsOf(m, a)
        size == Len(items)
    IN IF ~Fits(m, x, args) THEN Gives(m, Failing(x))
       ELSE CASE x = "print" -> Gives([m EXCEPT !.out = Append(@, [k \in DOMAIN args |-> Shown(m.heap, args[k])])], Nil)
         [] x = "len" -> Gives(m, SizeOf(m, a))
         [] x = "type" -> Gives(m, Str(TypeOf(m, a)))
         [] x = "to_string" -> Gives(m, ToMessage(a))
         [] x = "abs" -> Gives(m, Num(Absolute(a[2])))
         [] x = "min" -> Gives(m, Num(Min(Numbers(args))))
         [] x = "max" -> Gives(m, Num(Max(Numbers(args))))
         [] x = "clamp" -> Gives(m, Num(Clamp(a[2], v[2], args[3][2])))
         [] x = "sign" -> Gives(m, Num(Clamp(a[2], -1, 1)))
         [] x = "push" -> Inserted(m, a, size, v)
         [] x = "pop" -> Removed(m, a, size - 1)
         [] x = "insert" -> Inserted(m, a, v[2], args[3])
         [] x = "remove" -> Removed(m, a, v[2])
         [] x = "shift" -> Removed(m, a, 0)
         [] x = "unshift" -> Inserted(m, a, 0, v)
         [] x = "index_of" -> Gives(m, Num(IF Contains(items, v) THEN SelectInSeq(items, LAMBDA w : w = v) - 1 ELSE -1))
         [] x = "slice" -> Slice(m, a, v[2], Third(args, size))
         [] x = "reverse" -> Gives(Changed(m, a, Reverse(items)), a)
         [] x = "sort" -> Gives(Changed(m, a, SortSeq(items, Before)), a)
         [] x = "clear" -> Gives(Changed(m, a, <<>>), a)
         [] x = "fill" -> NewArray(m, [k \in 1..v[2] |-> a])
         [] x = "flatten" -> NewArray(m, Flattened(m, a))
         [] x = "unique" -> NewArray(m, Distinct(items))
         [] x = "concat_arrays" -> NewArray(m, FlattenSeq([k \in DOMAIN args |->
                IF IsKind(m, args[k], "array") THEN ItemsOf(m, args[k]) ELSE <<>>]))
         [] x = "contains" -> Gives(m, Bool(Has(m, a, v)))
         [] x = "replace" -> Gives(m, IF v[2] = "" THEN a ELSE Str(Replaced_(a[2], v[2], args[3][2], 1)))
         [] x = "split" -> NewArray(m, Parts(a[2], v[2]))
         [] x = "join" -> Gives(m, Str(Joined(items, v[2])))
         [] x = "substr" -> Gives(m, Str(Substring(a[2], v[2], Third(args, Len(a[2])))))
         [] x = "range" -> NewArray(m, RangeItems(a[2], v[2], Third(args, 1)))
         [] x = "concat" -> Gives(m, Str(Joined(args, "")))
\* every and some, with a native: they end at an item for which it is not, or is, true.
\* Each other of the two, as their native, lacks an argument and is false.
Tested(m, x, f, items) ==
    LET test(acc, item) ==
            LET r == IF f \in {"every", "some"} THEN Gives(acc.m, Bool(FALSE)) ELSE Single(acc.m, f, <<item>>)
            IN IF acc.v = Bool(x = "some") THEN acc ELSE Gives(r.m, Bool(Truthy(r.v)))
    IN FoldLeft(test, Gives(m, Bool(x = "every")), items)
Applied(m, x, args) ==
    IF x \notin {"every", "some"} THEN Single(m, x, args)
    ELSE IF Fits(m, x, args) /\ args[2][1] = "native" THEN Tested(m, x, args[2][2], ItemsOf(m, args[1]))
    ELSE Gives(m, Bool(FALSE))
=============================================================================
