---------------------------- MODULE Interpreter ----------------------------
(* The rest of the handlers of run() in src/src/vm/vm.cpp: collections, fields,
   classes, iterators and enums, the copies of all handlers behind the WIDE
   prefix, and the step that fetches and executes one instruction.           *)
EXTENDS Machine

(* -------------------------- Collections and fields ------------------------ *)

DoNewArray(m, i) == LET n == New(m, [kind |-> "array", items |-> <<>>]) IN Put(n, i.a, Newest(n))
DoNewMap(m, i) == LET n == New(m, [kind |-> "map", entries |-> Empty]) IN Put(n, i.a, Newest(n))

\* A negative index counts from the end.
Position(n, len) == IF n < 0 THEN n + len ELSE n
Element(items, n) == items[Position(n, Len(items)) + 1]
Within(n, len) == Position(n, len) \in 0..(len - 1)
DoGetIndex(m, i) ==
    LET o == Reg(m, i.b)
        k == Reg(m, i.c)
        items == IF IsStr(o) THEN [j \in 1..Len(o[2]) |-> Str(Char(o[2], j))] ELSE m.heap[o[2]].items
    IN CASE IsKind(m, o, "array") \/ IsStr(o) ->
              IF ~IsNum(k) THEN Raise(m, "Index must be a number")
              ELSE IF ~Within(k[2], Len(items)) THEN Raise(m, "Index out of bounds")
              ELSE Put(m, i.a, Element(items, k[2]))
         [] IsKind(m, o, "map") ->
              IF IsStr(k) THEN Put(m, i.a, Get(m.heap[o[2]].entries, k))
              ELSE Raise(m, "Map key must be a string")
         [] OTHER -> Raise(m, "Cannot index this value")

\* An array grows, with nils, up to the index that is stored to.
Grown(items, at, v) ==
    [j \in 1..Max({Len(items), at + 1}) |->
        IF j = at + 1 THEN v ELSE IF j <= Len(items) THEN items[j] ELSE Nil]
Stored(m, i, limited) ==
    LET o == Reg(m, i.a)
        k == Reg(m, i.b)
        items == m.heap[o[2]].items
        at == Position(k[2], Len(items))
    IN CASE IsKind(m, o, "array") ->
              IF ~IsNum(k) THEN Raise(m, "Index must be a number")
              ELSE IF at < 0 THEN Raise(m, "Index out of bounds")
              ELSE IF limited /\ at >= Len(items) /\ at > MaxIndex THEN Raise(m, "Array index too large")
              ELSE [m EXCEPT !.heap[o[2]].items = Grown(items, at, Reg(m, i.c))]
         [] IsKind(m, o, "map") ->
              IF IsStr(k) THEN [m EXCEPT !.heap[o[2]].entries = With(@, k, Reg(m, i.c))]
              ELSE Raise(m, "Map key must be a string")
         [] OTHER -> Raise(m, "Cannot index this value")
DoSetIndex(m, i) == Stored(m, i, FALSE)

\* A field of a value; what has no such field gives nil.
FieldOf(m, v, f) ==
    LET o == m.heap[v[2]]
        length == f \in {Str("length"), Str(Hashed("length"))}
    IN CASE IsKind(m, v, "inst") -> IF f \in DOMAIN o.fields THEN o.fields[f]
                                    ELSE Get(m.heap[o.class].methods, f)
         [] IsKind(m, v, "map")   -> Get(o.entries, f)
         [] IsKind(m, v, "class") -> Get(o.methods, f)
         [] IsStr(v)              -> IF length THEN Num(Len(v[2])) ELSE Nil
         [] IsKind(m, v, "array") -> IF length THEN Num(Len(o.items)) ELSE Nil
         [] OTHER                 -> Nil
DoGetField(m, i) == Put(m, i.a, FieldOf(m, Reg(m, i.b), Const(m, i.c)))
DoSetField(m, i) ==
    LET o == Reg(m, i.a)
        f == Const(m, i.b)
        v == Reg(m, i.c)
    IN CASE IsKind(m, o, "inst")  -> [m EXCEPT !.heap[o[2]].fields = With(@, f, v)]
         [] IsKind(m, o, "class") -> [m EXCEPT !.heap[o[2]].methods = With(@, f, v)]
         [] IsKind(m, o, "map")   -> [m EXCEPT !.heap[o[2]].entries = With(@, f, v)]
         [] OTHER                 -> Raise(m, "Cannot set field on this value")
DoNewClass(m, i) ==
    LET n == New(m, [kind |-> "class", name |-> Const(m, i.b), methods |-> Empty])
    IN Put(n, i.a, Newest(n))

(* ------------------------------ Ranges, loops ----------------------------- *)

RangeMap(x, y) ==
    (Str("start") :> x) @@ (Str("end") :> y) @@ (Str("__type__") :> Str("range"))
DoNewRange(m, i) ==
    LET n == New(m, [kind |-> "map", entries |-> RangeMap(Reg(m, i.b), Reg(m, i.c))])
    IN IF BothNum(Reg(m, i.b), Reg(m, i.c)) THEN Put(n, i.a, Newest(n))
       ELSE Raise(m, "Range bounds must be numbers")

\* An iterator over a range runs from pos by step to its end, inclusive; one over
\* an array or a string has pos items behind it.
Iterator(m, v) ==
    LET es == m.heap[v[2]].entries
        lo == es[Str("start")][2]
        hi == es[Str("end")][2]
        it == [kind |-> "iter", over |-> v, pos |-> 0, step |-> 1, end |-> 0, done |-> FALSE]
        range == IsKind(m, v, "map") /\ Get(es, Str("__type__")) = Str("range")
    IN CASE IsKind(m, v, "array") \/ IsStr(v) -> it
         [] range -> [it EXCEPT !.over = Nil, !.pos = lo, !.end = hi, !.step = IF lo <= hi THEN 1 ELSE -1]
         [] OTHER -> [it EXCEPT !.over = Absent]
DoIterInit(m, i) ==
    LET it == Iterator(m, Reg(m, i.b))
        n == New(m, it)
    IN IF it.over = Absent THEN Raise(m, "Cannot iterate this value") ELSE Put(n, i.a, Newest(n))

Upcoming(m, it) ==
    LET items == m.heap[it.over[2]].items
    IN CASE it.over = Nil -> IF it.step * (it.end - it.pos) >= 0 THEN Num(it.pos) ELSE Absent
         [] it.over # Nil /\ IsStr(it.over) ->
                IF it.pos < Len(it.over[2]) THEN Str(Char(it.over[2], it.pos + 1)) ELSE Absent
         [] OTHER -> IF it.pos < Len(items) THEN items[it.pos + 1] ELSE Absent
DoIterNext(m, i) ==
    LET v == Reg(m, i.b)
        it == m.heap[v[2]]
        next == Upcoming(m, it)
    IN IF ~IsKind(m, v, "iter") THEN Raise(m, "Invalid iterator")
       ELSE IF next = Absent THEN Put([m EXCEPT !.heap[v[2]].done = TRUE], i.a, Nil)
       ELSE Put([m EXCEPT !.heap[v[2]].pos = @ + it.step], i.a, next)
DoIterDone(m, i) ==
    LET v == Reg(m, i.b)
    IN Put(m, i.a, Bool(IsKind(m, v, "iter") => m.heap[v[2]].done))

(* ---------------------------------- Enums --------------------------------- *)

TypeId == Str("_type_id")
DoEnumCreate(m, i) ==
    LET n == New(m, [kind |-> "class", name |-> Const(m, i.b), methods |-> TypeId :> Num(m.enums)])
    IN Put([n EXCEPT !.enums = @ + 1], i.a, Newest(n))
SetVariant(m, i, v) ==
    LET c == Reg(m, i.a)
    IN IF IsKind(m, c, "class") THEN [m EXCEPT !.heap[c[2]].methods = With(@, Const(m, i.b), v)]
       ELSE Raise(m, "Not a class")
DoEnumVariant(m, i) ==
    SetVariant(m, i, <<"enum", m.heap[Reg(m, i.a)[2]].methods[TypeId][2], Const(m, i.c)[2]>>)
DoEnumDataVariant(m, i) == SetVariant(m, i, Str("__data_variant__"))

(* --------------------------------- Signals -------------------------------- *)

\* Signals of a program without effects, which Reactive models: nobody subscribes.
DoSignalCreate(m, i) ==
    LET n == New(m, [kind |-> "signal", value |-> Reg(m, i.b)]) IN Put(n, i.a, Newest(n))
DoSignalGet(m, i) ==
    IF IsKind(m, Reg(m, i.b), "signal") THEN Put(m, i.a, m.heap[Reg(m, i.b)[2]].value)
    ELSE Raise(m, "SIGNAL_GET: not a signal")
DoSignalSet(m, i) ==
    IF IsKind(m, Reg(m, i.a), "signal") THEN [m EXCEPT !.heap[Reg(m, i.a)[2]].value = Reg(m, i.b)]
    ELSE Raise(m, "SIGNAL_SET: not a signal")
DoExport(m, i) ==
    IF IsKind(m, Reg(m, i.a), "signal")
    THEN [m EXCEPT !.exports = Append(@, <<Const(m, i.b), Reg(m, i.a)>>)] ELSE m

(* ------------------------------ Wide handlers ----------------------------- *)

(* The WIDE switch repeats the handlers.  It does what they do, except where its
   definition says otherwise: it never quickens, overloads nothing, JMP counts
   from the end of the instruction, and JMP_IF_FALSE asks is_truthy.  Effects and
   exports behind the prefix are left out.                                   *)
WideLoad(m, i) == DoLoad(m, i)
WideUpvalue(m, i) == IF i.op = "GET_UPVALUE" THEN DoGetUpvalue(m, i) ELSE DoSetUpvalue(m, i)
WideGlobal(m, i) == IF i.op = "GET_GLOBAL" THEN DoGetGlobal(m, i) ELSE DoSetGlobal(m, i)
WideArithmetic(m, i) ==
    LET x == Reg(m, i.b)
        y == Reg(m, i.c)
    IN CASE BothNum(x, y) -> IF DividesByZero(i.op, y[2]) THEN Raise(m, ZeroMessage(i.op))
                             ELSE Put(m, i.a, Num(Arithmetic(i.op, x[2], y[2])))
         [] i.op = "ADD" /\ BothStr(x, y) -> Put(m, i.a, Str(x[2] \o y[2]))
         [] OTHER -> Raise(m, "Operands must be numbers")
WideNumeric(m, i) == DoNumeric(m, i)
WideConcat(m, i) == DoConcat(m, i)
WideModEqZero(m, i) == DoModEqZero(m, i)
WideNeg(m, i) == IF IsNum(Reg(m, i.b)) THEN Put(m, i.a, Num(-Reg(m, i.b)[2]))
                 ELSE Raise(m, "Operand must be a number")
WideOrder(m, i) ==
    LET x == Reg(m, i.b)
        y == Reg(m, i.c)
    IN IF BothNum(x, y) \/ BothStr(x, y) THEN Put(m, i.a, Bool(Ordered(i.op, x, y)))
       ELSE Raise(m, "Operands must be two numbers or two strings")
WideEqual(m, i) == Put(m, i.a, Bool((i.op = "EQ") = (Reg(m, i.b) = Reg(m, i.c))))
WideNot(m, i) == DoNot(m, i)
WideCompareNum(m, i) == DoCompareNum(m, i)
WideBits(m, i) == IF i.op = "BIT_NOT" THEN DoBitNot(m, i) ELSE DoBits(m, i)
WideCloseUpvalue(m, i) == DoCloseUpvalue(m, i)
WideClosure(m, i) == DoClosure(m, i)
WideReturn(m, i) == DoReturn(m, i)
WideTailCall(m, i) == TailCalled(m, i, FALSE)
WideAwait(m, i) == DoAwait(m, i)
WideThrow(m, i) == DoThrow(m, i)
WideTry(m, i) == IF i.op = "TRY_BEGIN" THEN DoTryBegin(m, i) ELSE DoTryEnd(m, i)
WideJmp(m, i) ==
    CASE i.op = "JMP" -> Jump(m, i.b)
      [] i.op = "JMP_IF_FALSE" -> IF Truthy(Reg(m, i.a)) THEN m ELSE Jump(m, i.b)
      [] i.op = "JMP_IF_TRUE" -> IF Truthy(Reg(m, i.a)) THEN Jump(m, i.b) ELSE m
WideNew(m, i) == IF i.op = "NEW_ARRAY" THEN DoNewArray(m, i) ELSE DoNewMap(m, i)
WideGetIndex(m, i) == DoGetIndex(m, i)
WideSetIndex(m, i) == Stored(m, i, TRUE)
WideGetField(m, i) == DoGetField(m, i)
WideSetField(m, i) == DoSetField(m, i)
WideNewClass(m, i) == DoNewClass(m, i)
WideRange(m, i) == DoNewRange(m, i)
WideSignal(m, i) == CASE i.op = "SIGNAL_CREATE" -> DoSignalCreate(m, i)
                      [] i.op = "SIGNAL_GET" -> DoSignalGet(m, i)
                      [] i.op = "SIGNAL_SET" -> DoSignalSet(m, i)
WideIterInit(m, i) == DoIterInit(m, i)
WideIterNext(m, i) == DoIterNext(m, i)
WideIterDone(m, i) == DoIterDone(m, i)

ExecuteWide(m, i) ==
    CASE i.op \in {"LOAD_CONST", "LOAD_NIL", "LOAD_TRUE", "LOAD_FALSE", "LOAD_IMM", "MOVE"} -> WideLoad(m, i)
      [] i.op \in {"GET_UPVALUE", "SET_UPVALUE"} -> WideUpvalue(m, i)
      [] i.op \in {"GET_GLOBAL", "SET_GLOBAL"} -> WideGlobal(m, i)
      [] i.op \in DOMAIN Quickened -> WideArithmetic(m, i)
      [] i.op \in DOMAIN Plain -> WideNumeric(m, i)
      [] i.op = "ADD_STR" -> WideConcat(m, i)
      [] i.op = "MOD_EQ_ZERO" -> WideModEqZero(m, i)
      [] i.op = "NEG" -> WideNeg(m, i)
      [] i.op \in {"LT", "LTE", "GT", "GTE"} -> WideOrder(m, i)
      [] i.op \in {"EQ", "NEQ"} -> WideEqual(m, i)
      [] i.op = "NOT" -> WideNot(m, i)
      [] i.op \in DOMAIN PlainCompare -> WideCompareNum(m, i)
      [] i.op \in {"BIT_AND", "BIT_OR", "BIT_XOR", "BIT_NOT", "SHL", "SHR"} -> WideBits(m, i)
      [] i.op = "CALL" -> DoCall(m, i)
      [] i.op = "CLOSE_UPVALUE" -> WideCloseUpvalue(m, i)
      [] i.op = "CLOSURE" -> WideClosure(m, i)
      [] i.op = "RETURN" -> WideReturn(m, i)
      [] i.op = "TAIL_CALL" -> WideTailCall(m, i)
      [] i.op = "AWAIT" -> WideAwait(m, i)
      [] i.op = "THROW" -> WideThrow(m, i)
      [] i.op \in {"TRY_BEGIN", "TRY_END"} -> WideTry(m, i)
      [] i.op \in {"JMP", "JMP_IF_FALSE", "JMP_IF_TRUE"} -> WideJmp(m, i)
      [] i.op \in {"NEW_ARRAY", "NEW_MAP"} -> WideNew(m, i)
      [] i.op = "GET_INDEX" -> WideGetIndex(m, i)
      [] i.op = "SET_INDEX" -> WideSetIndex(m, i)
      [] i.op = "GET_FIELD" -> WideGetField(m, i)
      [] i.op = "SET_FIELD" -> WideSetField(m, i)
      [] i.op = "NEW_CLASS" -> WideNewClass(m, i)
      [] i.op = "NEW_RANGE" -> WideRange(m, i)
      [] i.op = "ITER_INIT" -> WideIterInit(m, i)
      [] i.op = "ITER_NEXT" -> WideIterNext(m, i)
      [] i.op = "ITER_DONE" -> WideIterDone(m, i)
      [] i.op \in {"SIGNAL_CREATE", "SIGNAL_GET", "SIGNAL_SET"} -> WideSignal(m, i)
      [] i.op \in {"ENUM_CREATE", "ENUM_VARIANT", "ENUM_DATA_VARIANT"} ->
             Raise(m, "Opcode cannot be used with WIDE prefix")

(* ------------------------------- One step --------------------------------- *)

Execute(m, i) ==
    CASE i.op \in {"LOAD_CONST", "LOAD_NIL", "LOAD_TRUE", "LOAD_FALSE", "LOAD_IMM", "MOVE"} -> DoLoad(m, i)
      [] i.op = "GET_UPVALUE" -> DoGetUpvalue(m, i)
      [] i.op = "SET_UPVALUE" -> DoSetUpvalue(m, i)
      [] i.op = "GET_GLOBAL" -> DoGetGlobal(m, i)
      [] i.op = "SET_GLOBAL" -> DoSetGlobal(m, i)
      [] i.op \in DOMAIN Quickened -> DoArithmetic(m, i)
      [] i.op \in DOMAIN Plain -> DoNumeric(m, i)
      [] i.op = "ADD_STR" -> DoConcat(m, i)
      [] i.op = "ADD_IMM" -> DoAddImm(m, i)
      [] i.op = "MOD_EQ_ZERO" -> DoModEqZero(m, i)
      [] i.op = "NEG" -> DoNeg(m, i)
      [] i.op \in {"LT", "LTE", "GT", "GTE"} -> DoOrder(m, i)
      [] i.op \in {"EQ", "NEQ"} -> DoEqual(m, i)
      [] i.op = "NOT" -> DoNot(m, i)
      [] i.op \in DOMAIN PlainCompare -> DoCompareNum(m, i)
      [] i.op = "BIT_NOT" -> DoBitNot(m, i)
      [] i.op \in {"BIT_AND", "BIT_OR", "BIT_XOR", "SHL", "SHR"} -> DoBits(m, i)
      [] i.op = "CALL" -> DoCall(m, i)
      [] i.op = "CLOSE_UPVALUE" -> DoCloseUpvalue(m, i)
      [] i.op = "CLOSURE" -> DoClosure(m, i)
      [] i.op = "RETURN" -> DoReturn(m, i)
      [] i.op = "TAIL_CALL" -> DoTailCall(m, i)
      [] i.op = "AWAIT" -> DoAwait(m, i)
      [] i.op = "THROW" -> DoThrow(m, i)
      [] i.op = "TRY_BEGIN" -> DoTryBegin(m, i)
      [] i.op = "TRY_END" -> DoTryEnd(m, i)
      [] i.op = "JMP" -> DoJmp(m, i)
      [] i.op = "JMP_IF_FALSE" -> DoJmpIfFalse(m, i)
      [] i.op = "JMP_IF_TRUE" -> DoJmpIfTrue(m, i)
      [] i.op \in DOMAIN FusedCompare \union {"JMP_IF_NOT_EQ"} -> DoFused(m, i)
      [] i.op = "NEW_ARRAY" -> DoNewArray(m, i)
      [] i.op = "NEW_MAP" -> DoNewMap(m, i)
      [] i.op = "GET_INDEX" -> DoGetIndex(m, i)
      [] i.op = "SET_INDEX" -> DoSetIndex(m, i)
      [] i.op = "GET_FIELD" -> DoGetField(m, i)
      [] i.op = "SET_FIELD" -> DoSetField(m, i)
      [] i.op = "NEW_CLASS" -> DoNewClass(m, i)
      [] i.op = "NEW_RANGE" -> DoNewRange(m, i)
      [] i.op = "ITER_INIT" -> DoIterInit(m, i)
      [] i.op = "ITER_NEXT" -> DoIterNext(m, i)
      [] i.op = "ITER_DONE" -> DoIterDone(m, i)
      [] i.op = "ENUM_CREATE" -> DoEnumCreate(m, i)
      [] i.op = "ENUM_VARIANT" -> DoEnumVariant(m, i)
      [] i.op = "ENUM_DATA_VARIANT" -> DoEnumDataVariant(m, i)
      [] i.op = "SIGNAL_CREATE" -> DoSignalCreate(m, i)
      [] i.op = "SIGNAL_GET" -> DoSignalGet(m, i)
      [] i.op = "SIGNAL_SET" -> DoSignalSet(m, i)
      [] i.op = "EXPORT_REGISTER" -> DoExport(m, i)
      [] i.op = "NOP" -> m

\* Whether the ip has left the code, and the instruction at the ip if it has not.
Lost(m) == Frame(m).ip \notin 0..(Len(m.protos[Frame(m).p].code) - 1)
Fetched(m) ==
    LET f == Frame(m)
        code == m.protos[f.p].code
        wide == code[f.ip + 1][1] = "WIDE"
        s == code[f.ip + (IF wide THEN 2 ELSE 1)]
    IN [op |-> s[1], a |-> s[2], b |-> s[3], c |-> s[4], at |-> f.ip, wide |-> wide]
Stepped(m) ==
    LET i == Fetched(m)
        n == Goto(m, Frame(m).ip + (IF i.wide THEN 2 ELSE 1))
        r == IF i.wide THEN ExecuteWide(n, i) ELSE Execute(n, i)
    IN IF Lost(m) \/ (r.nested > 0 /\ r.status # "run") THEN [m EXCEPT !.status = "wild"] ELSE r

\* run_function on a new VM: the closure in register 0 and its frame.
Started(protos, entry) ==
    LET m == [protos |-> protos, stack |-> [l \in 0..(MaxStack - 1) |-> Nil], top |-> 1,
              frames |-> <<>>, heap |-> << [kind |-> "closure", fn |-> entry, ups |-> <<>>] >>,
              globals |-> [x \in {Str(n) : n \in DOMAIN Takes} \union {Str(Hashed(n)) : n \in DOMAIN Takes} |->
                              <<"native", CHOOSE n \in DOMAIN Takes : x[2] \in {n, Hashed(n)}>>],
              open |-> <<>>, tries |-> <<>>, out |-> <<>>, status |-> "run", err |-> Absent, enums |-> 0, exports |-> <<>>, nested |-> 0]
    IN Invoke([m EXCEPT !.stack[0] = Obj(1)], 1, 0, 0)
=============================================================================
