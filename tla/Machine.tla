------------------------------ MODULE Machine ------------------------------
(* The bytecode interpreter of src/src/vm/vm.cpp: what each handler of run() does
   to the state m of the VM.  m.protos holds the functions (a handler may rewrite
   its own opcode), m.stack the registers of all frames, m.top stack_top_,
   m.frames the call frames (ip is where they are and kept the ip they store),
   m.open the open upvalues from the highest register down, m.tries the try
   frames, m.nested how many calls of run() there are inside natives, m.heap the
   objects, m.out what was printed.  A handler takes m, whose ip is already behind
   the instruction, and the instruction i = [op, a, b, c, at].  Maps, fields and globals are functions from
   names and strings.  The JIT, profiler, collector, fibers, signals and effects
   are left out: other modules model them.                                   *)
EXTENDS Natives, Bitwise
LOCAL INSTANCE SequencesExt

CONSTANTS MaxStack, MaxFrames, MaxTry,  \* the limits of the arrays of the VM
          MaxIndex,                     \* the largest index a wide store may grow to
          Native(_, _, _)               \* [m, v] of a native's call, which is Applied

ASSUME MachineAssumption == {MaxStack, MaxFrames, MaxTry, MaxIndex} \subseteq Nat

Absent == <<"absent">>
Empty == <<>>

Frame(m) == m.frames[Len(m.frames)]
Base(m) == Frame(m).base
Reg(m, r) == m.stack[Base(m) + r]
Put(m, r, v) == [m EXCEPT !.stack[Base(m) + r] = v]
Goto(m, at) == [m EXCEPT !.frames[Len(m.frames)].ip = at]
Jump(m, off) == Goto(m, Frame(m).ip + off)
Const(m, k) == m.protos[m.heap[Frame(m).clo].fn].consts[k + 1]
New(m, o) == [m EXCEPT !.heap = Append(@, o)]
Newest(m) == Obj(Len(m.heap))
Get(f, k) == IF k \in DOMAIN f THEN f[k] ELSE Nil
With(f, k, v) == (k :> v) @@ f

(* -------------------------- Upvalues and exceptions ----------------------- *)

\* Mutant: the upvalue of the first register stays open.
CloseUpvalues_Above(m, loc) ==
    LET closing == {h \in ToSet(m.open) : m.heap[h].loc > loc}
    IN [m EXCEPT !.open = SelectSeq(@, LAMBDA h : h \notin closing),
                 !.heap = [h \in DOMAIN @ |-> IF h \in closing
                              THEN [@[h] EXCEPT !.val = m.stack[m.heap[h].loc], !.loc = -1] ELSE @[h]]]
\* Every open upvalue at or above a location takes its value along.
CloseUpvalues(m, loc) ==
    LET closing == {h \in ToSet(m.open) : m.heap[h].loc >= loc}
    IN [m EXCEPT !.open = SelectSeq(@, LAMBDA h : h \notin closing),
                 !.heap = [h \in DOMAIN @ |-> IF h \in closing
                              THEN [@[h] EXCEPT !.val = m.stack[m.heap[h].loc], !.loc = -1] ELSE @[h]]]
RECURSIVE Unwind(_, _)
Unwind(m, n) ==
    IF Len(m.frames) <= n THEN m
    ELSE Unwind([CloseUpvalues(m, Base(m)) EXCEPT !.frames = Front(@)], n)

\* throw_to_catch, and THROW: the last handler's frame goes on at its catch.
Caught(m, v) ==
    LET t == Last(m.tries)
        u == Unwind([m EXCEPT !.tries = Front(@)], t.frames)
        f == [u EXCEPT !.frames[Len(u.frames)].ip = t.ip, !.frames[Len(u.frames)].p = t.p]
    IN Put(f, t.reg, v)
\* runtime_error
Raise(m, message) ==
    IF m.tries = <<>> THEN [m EXCEPT !.status = "error", !.err = Str(message)]
    ELSE LET c == Caught(m, Str(message))
         IN [c EXCEPT !.frames[Len(c.frames)].kept = <<Frame(c).p, Frame(c).ip>>]

DoThrow(m, i) ==
    LET v == ToMessage(Reg(m, i.a))
    IN IF m.tries = <<>> THEN [m EXCEPT !.status = "error", !.err = v] ELSE Caught(m, v)
DoTryBegin(m, i) ==
    LET t == [frames |-> Len(m.frames), p |-> Frame(m).p, ip |-> Frame(m).ip + i.b, reg |-> i.a]
    IN IF Len(m.tries) >= MaxTry THEN Raise(m, "Too many nested try blocks")
       ELSE [m EXCEPT !.tries = Append(@, t)]
DoTryEnd(m, i) == Jump([m EXCEPT !.tries = IF @ = <<>> THEN @ ELSE Front(@)], i.b)

(* ------------------------------ Loads and names --------------------------- *)

Held(m, h) == IF m.heap[h].loc < 0 THEN m.heap[h].val ELSE m.stack[m.heap[h].loc]
UpvalueOf(m, k) == m.heap[Frame(m).clo].ups[k + 1]

DoLoad(m, i) ==
    Put(m, i.a, CASE i.op = "LOAD_CONST" -> Const(m, i.b)
                  [] i.op = "LOAD_NIL"   -> Nil
                  [] i.op = "LOAD_TRUE"  -> Bool(TRUE)
                  [] i.op = "LOAD_FALSE" -> Bool(FALSE)
                  [] i.op = "LOAD_IMM"   -> Num(i.b)
                  [] i.op = "MOVE"       -> Reg(m, i.b))
DoGetUpvalue(m, i) == Put(m, i.a, Held(m, UpvalueOf(m, i.b)))
\* Mutant: the cell is written while the register is still shared.
DoSetUpvalue_Cell(m, i) == [m EXCEPT !.heap[UpvalueOf(m, i.b)].val = Reg(m, i.a)]
DoSetUpvalue(m, i) ==
    LET h == UpvalueOf(m, i.b)
    IN IF m.heap[h].loc < 0 THEN [m EXCEPT !.heap[h].val = Reg(m, i.a)]
       ELSE [m EXCEPT !.stack[m.heap[h].loc] = Reg(m, i.a)]
DoGetGlobal(m, i) ==
    IF Const(m, i.b) \in DOMAIN m.globals THEN Put(m, i.a, m.globals[Const(m, i.b)])
    ELSE Raise(m, "Undefined variable")
DoSetGlobal(m, i) == [m EXCEPT !.globals = With(@, Const(m, i.b), Reg(m, i.a))]

(* ---------------------------------- Calls --------------------------------- *)

\* VM::call, and the inline path of CALL: a frame whose registers from argc on are
\* nil, but for the array of a variadic function's further arguments.
Pushed(m, h, argc, callee) ==
    LET p == m.heap[h].fn
        caller == IF m.frames = <<>> THEN m.frames
                  ELSE [m.frames EXCEPT ![Len(m.frames)].kept = <<Frame(m).p, Frame(m).ip>>]
    IN [m EXCEPT !.frames = Append(caller, [clo |-> h, p |-> p, ip |-> 0, kept |-> <<p, 0>>, base |-> callee + 1,
                                            callee |-> callee, saved |-> m.top])]
Cleared(m, from, to, but) ==
    [m EXCEPT !.stack = [l \in DOMAIN @ |-> IF l \in (from..to) \ but THEN Nil ELSE @[l]]]
Gathered(m, f, argc, args) ==
    LET rest == [k \in 1..(argc - f.arity) |-> m.stack[args + f.arity + k - 1]]
        n == New(m, [kind |-> "array", items |-> rest])
    IN [n EXCEPT !.stack[args + f.arity] = Newest(n), !.top = args + f.arity + 1]
Invoke(m, h, argc, callee) ==
    LET f == m.protos[m.heap[h].fn]
        args == callee + 1
        v == Pushed(IF f.varargs THEN Gathered(m, f, argc, args) ELSE m, h, argc, callee)
        end == args + f.regs
    IN CASE Len(m.frames) >= MaxFrames -> Raise(m, "Stack overflow")
         [] Len(m.frames) < MaxFrames /\ (argc < f.arity \/ (argc > f.arity /\ ~f.varargs)) ->
                Raise(m, "Wrong number of arguments")
         [] OTHER -> IF end > MaxStack THEN Raise(v, "Stack overflow")
                     ELSE [Cleared(v, args + argc, end - 1, IF f.varargs THEN {args + f.arity} ELSE {})
                           EXCEPT !.top = IF @ > end THEN @ ELSE end]

\* call_function, which every and some call: the closure and an item are pushed, and
\* a new run() goes on in all the frames there are, the caller's from where its ip
\* was stored last.  It ends when no frame is left, or with an error; what the
\* natives that wait for it then do with the frames that are gone is left out, as is
\* a closure that does not take the item.
CallBack(m, h, item) ==
    LET k == Len(m.frames)
        f == m.protos[m.heap[h].fn]
        end == m.top + 1 + f.regs
        n == [m EXCEPT !.stack[m.top] = Obj(h), !.stack[m.top + 1] = item, !.top = Max({@ + 2, end}),
                       !.nested = @ + 1, !.frames[k].p = Frame(m).kept[1], !.frames[k].ip = Frame(m).kept[2]]
    IN IF f.arity # 1 \/ f.varargs \/ k >= MaxFrames \/ end > MaxStack THEN [m EXCEPT !.status = "wild"]
       ELSE Pushed(Cleared(n, m.top + 2, end - 1, {}), h, 1, m.top)
\* call_native: the result is the new top.
NativeCall(m, x, argc, callee) ==
    LET args == [k \in 1..argc |-> m.stack[callee + k]]
        r == Native(m, x, args)
        tested == Fits(m, x, args) /\ x \in {"every", "some"} /\ IsKind(m, args[2], "closure")
    IN IF tested /\ ItemsOf(m, args[1]) # <<>> THEN CallBack(m, args[2][2], ItemsOf(m, args[1])[1])
       ELSE [r.m EXCEPT !.stack[callee] = IF tested THEN Bool(x = "every") ELSE r.v, !.top = callee + 1]

\* The init of a class, also under its hashed name, or Absent.
InitOf(m, class) ==
    LET ms == m.heap[class].methods
    IN IF Str("init") \in DOMAIN ms THEN ms[Str("init")]
       ELSE IF Str(Hashed("init")) \in DOMAIN ms THEN ms[Str(Hashed("init"))] ELSE Absent
\* The instance in the callee's place, and with it before the arguments.
Instantiated(m, class, callee) ==
    LET n == New(m, [kind |-> "inst", class |-> class, fields |-> Empty])
    IN [n EXCEPT !.stack[callee] = Newest(n)]
Shifted(m, argc, callee) ==
    [m EXCEPT !.stack = [l \in DOMAIN @ |-> IF l \in (callee + 1)..(callee + argc + 1) THEN @[l - 1] ELSE @[l]],
              !.top = @ + 1]
Construct(m, class, argc, callee) ==
    LET n == Instantiated(m, class, callee)
        init == InitOf(m, class)
        arity == m.protos[m.heap[init[2]].fn].arity
    IN IF init = Absent THEN n
       ELSE IF argc + 1 # arity THEN Raise(n, "Wrong number of arguments")
       ELSE IF callee + argc + 2 > MaxStack THEN Raise(n, "Stack overflow")
       ELSE Invoke(Shifted(n, argc, callee), init[2], argc + 1, callee)

DoCall(m, i) ==
    LET at == Base(m) + i.a
        v == m.stack[at]
    IN CASE IsKind(m, v, "closure") -> Invoke(m, v[2], i.b, at)
         [] v[1] = "native"         -> NativeCall(m, v[2], i.b, at)
         [] IsKind(m, v, "class")   -> Construct(m, v[2], i.b, at)
         [] OTHER                   -> Raise(m, "Can only call functions and classes")

\* The frame becomes that of closure h, its arguments after register src.
Replaced(m, h, argc, src) ==
    LET b == Base(m)
        f == m.protos[m.heap[h].fn]
        c == CloseUpvalues(m, b)
        moved == [l \in DOMAIN m.stack |->
                     IF l \in b..(b + argc - 1) THEN c.stack[src + 1 + l - b]
                     ELSE IF l \in (b + argc)..(b + f.regs - 1) THEN Nil ELSE c.stack[l]]
        k == Len(m.frames)
    IN IF b + f.regs > MaxStack THEN Raise(c, "Stack overflow")
       ELSE [c EXCEPT !.stack = moved, !.top = b + f.regs,
                      !.frames[k].clo = h, !.frames[k].p = m.heap[h].fn, !.frames[k].ip = 0]
\* A frame leaves with a result: RETURN, AWAIT of nil; top is the new stack_top_.
Left(m, v, top) ==
    LET f == Frame(m)
    IN IF Len(m.frames) = 1
       THEN [m EXCEPT !.frames = <<>>, !.stack[0] = v, !.top = 1, !.status = "ok"]
       ELSE [m EXCEPT !.frames = Front(@), !.stack[f.callee] = v, !.top = top]
Returned(m, v) == Left(m, v, Max({Frame(m).saved, Frame(m).callee + 1}))

\* checked: the narrow handler compares the arity of a constructor, the wide one
\* does not.
TailCalled(m, i, checked) ==
    LET at == Base(m) + i.a
        v == m.stack[at]
        n == Instantiated(m, v[2], at)
        init == InitOf(m, v[2])
        called == NativeCall(m, v[2], i.b, at)
        arity(h) == m.protos[m.heap[h].fn].arity
    IN CASE IsKind(m, v, "closure") ->
                IF i.b # arity(v[2]) THEN Raise(m, "Wrong number of arguments")
                ELSE Replaced(m, v[2], i.b, at)
         [] v[1] = "native" -> IF called.nested > m.nested THEN called ELSE Left(called, called.stack[at], Frame(m).callee + 1)
         [] IsKind(m, v, "class") ->
                IF init = Absent THEN n
                ELSE IF checked /\ i.b + 1 # arity(init[2]) THEN Raise(n, "Wrong number of arguments")
                ELSE Replaced(Shifted(n, i.b, at), init[2], i.b + 1, at)
         [] OTHER -> Raise(m, "Tail call target must be a function or class")
DoTailCall(m, i) == TailCalled(m, i, TRUE)
DoReturn(m, i) == Returned(m, Reg(m, i.a))
DoAwait(m, i) == IF Reg(m, i.a) = Nil THEN Returned(m, Nil) ELSE m

\* CLOSURE shares an open upvalue of the register or inserts one in order.
Captured(m, d) ==
    LET loc == Base(m) + d[1]
        same == {h \in ToSet(m.open) : m.heap[h].loc = loc}
        n == New(m, [kind |-> "up", loc |-> loc, val |-> Nil])
        above(h) == n.heap[h].loc > loc
        below(h) == n.heap[h].loc < loc
    IN CASE ~d[2] -> [m |-> m, h |-> UpvalueOf(m, d[1])]
         [] d[2] /\ same # {} -> [m |-> m, h |-> CHOOSE h \in same : TRUE]
         [] OTHER -> [m |-> [n EXCEPT !.open = SelectSeq(@, above) \o <<Len(n.heap)>> \o SelectSeq(@, below)],
                      h |-> Len(n.heap)]
DoClosure(m, i) ==
    LET fn == Const(m, i.b)[2]
        add(acc, d) == LET c == Captured(acc.m, d) IN [m |-> c.m, hs |-> Append(acc.hs, c.h)]
        all == FoldLeft(add, [m |-> m, hs |-> <<>>], m.protos[fn].ups)
        n == New(all.m, [kind |-> "closure", fn |-> fn, ups |-> all.hs])
    IN Put(n, i.a, Newest(n))
DoCloseUpvalue(m, i) == CloseUpvalues(m, Base(m) + i.a)

(* ------------------------------- Arithmetic ------------------------------- *)

Magic == ("ADD" :> "__add") @@ ("SUB" :> "__sub") @@ ("MUL" :> "__mul") @@ ("DIV" :> "__div")
      @@ ("MOD" :> "__mod") @@ ("LT" :> "__lt") @@ ("LTE" :> "__le") @@ ("GT" :> "__gt")
      @@ ("GTE" :> "__ge") @@ ("NEG" :> "__neg") @@ ("EQ" :> "__eq")
Quickened == ("ADD" :> "ADD_NUM") @@ ("SUB" :> "SUB_NUM") @@ ("MUL" :> "MUL_NUM")
          @@ ("DIV" :> "DIV_NUM") @@ ("MOD" :> "MOD_NUM")
Plain == [op \in {Quickened[x] : x \in DOMAIN Quickened} |->
             CHOOSE x \in DOMAIN Quickened : Quickened[x] = op]

\* The magic method of an instance, or Absent.
Overload(m, v, op) ==
    LET ms == m.heap[m.heap[v[2]].class].methods
    IN IF IsKind(m, v, "inst") /\ Str(Magic[op]) \in DOMAIN ms THEN ms[Str(Magic[op])] ELSE Absent
\* TRY_OP_OVERLOAD: both operands are references to registers, and the left one
\* is stored before the right one is read.
Overloaded(m, i, method) ==
    LET x == Put(m, i.a + 1, Reg(m, i.b))
    IN Invoke(Put(x, i.a + 2, Reg(x, i.c)), method[2], 2, Base(m) + i.a)

Rewritten(m, i, op) == [m EXCEPT !.protos[Frame(m).p].code[i.at + 1][1] = op]
\* ADD, SUB, MUL, DIV, MOD, which rewrite themselves after the first numbers.
DoArithmetic(m, i) ==
    LET x == Reg(m, i.b)
        y == Reg(m, i.c)
        method == Overload(m, x, i.op)
    IN CASE BothNum(x, y) ->
              IF DividesByZero(i.op, y[2]) THEN Raise(m, ZeroMessage(i.op))
              ELSE Rewritten(Put(m, i.a, Num(Arithmetic(i.op, x[2], y[2]))), i, Quickened[i.op])
         [] i.op = "ADD" /\ BothStr(x, y) -> Rewritten(Put(m, i.a, Str(x[2] \o y[2])), i, "ADD_STR")
         [] OTHER -> IF method # Absent THEN Overloaded(m, i, method)
                     ELSE Raise(m, "Operands must be numbers")

\* An unchecked operation takes a value that is no number for the NaN its bits are,
\* and yields the canonical NaN, which is of no kind.
Unproved(x, y, v) == IF BothNum(x, y) THEN v ELSE <<"nan">>
DoNumeric(m, i) ==
    LET x == Reg(m, i.b)
        y == Reg(m, i.c)
    IN IF IsNum(y) /\ DividesByZero(Plain[i.op], y[2]) THEN Raise(m, ZeroMessage(Plain[i.op]))
       ELSE Put(m, i.a, Unproved(x, y, Num(Arithmetic(Plain[i.op], x[2], y[2]))))
\* ADD_STR takes its operands for strings: what others do is undefined.
DoConcat(m, i) ==
    IF BothStr(Reg(m, i.b), Reg(m, i.c)) THEN Put(m, i.a, Str(Reg(m, i.b)[2] \o Reg(m, i.c)[2]))
    ELSE [m EXCEPT !.status = "wild"]
DoAddImm(m, i) ==
    Put(m, i.a, Unproved(Reg(m, i.b), Num(i.c), Num(Reg(m, i.b)[2] + i.c)))
DoModEqZero(m, i) ==
    LET x == Reg(m, i.b)
        y == Reg(m, i.c)
    IN IF y = Num(0) THEN Raise(m, "Modulo by zero")
       ELSE Put(m, i.a, Bool(BothNum(x, y) /\ Arithmetic("MOD", x[2], y[2]) = 0))
DoNeg(m, i) ==
    LET x == Reg(m, i.b)
        method == Overload(m, x, "NEG")
    IN CASE IsNum(x) -> Put(m, i.a, Num(-x[2]))
         [] ~IsNum(x) /\ method # Absent -> Invoke(Put(m, i.a + 1, x), method[2], 1, Base(m) + i.a)
         [] OTHER -> Raise(m, "Operand must be a number")

Bits(op, x, y) ==
    CASE op = "BIT_AND" -> x & y [] op = "BIT_OR" -> x | y [] op = "BIT_XOR" -> x ^^ y
      [] op = "SHL" -> x * 2^y   [] op = "SHR" -> x \div 2^y
DoBits(m, i) ==
    LET x == Reg(m, i.b)
        y == Reg(m, i.c)
    IN IF BothNum(x, y) THEN Put(m, i.a, Num(Bits(i.op, x[2], y[2])))
       ELSE Raise(m, "Operands must be numbers")
DoBitNot(m, i) ==
    IF IsNum(Reg(m, i.b)) THEN Put(m, i.a, Num(-Reg(m, i.b)[2] - 1))
    ELSE Raise(m, "Operands must be numbers")

(* -------------------------- Comparisons and jumps ------------------------- *)

DoOrder(m, i) ==
    LET x == Reg(m, i.b)
        y == Reg(m, i.c)
        method == Overload(m, x, i.op)
    IN CASE BothNum(x, y) \/ BothStr(x, y) -> Put(m, i.a, Bool(Ordered(i.op, x, y)))
         [] OTHER -> IF method # Absent THEN Overloaded(m, i, method)
                     ELSE Raise(m, "Operands must be two numbers or two strings")
DoEqual(m, i) ==
    LET x == Reg(m, i.b)
        y == Reg(m, i.c)
    IN CASE i.op = "NEQ" -> Put(m, i.a, Bool(x # y))
         [] i.op = "EQ" -> IF IsKind(m, y, "inst") /\ Overload(m, x, "EQ") # Absent
                           THEN Overloaded(m, i, Overload(m, x, "EQ"))
                           ELSE Put(m, i.a, Bool(x = y))
\* The _NUM comparisons: a NaN is only unequal to everything.
Compared(op, x, y) ==
    IF ~BothNum(x, y) THEN op = "NEQ"
    ELSE CASE op = "EQ" -> x = y [] op = "NEQ" -> x # y [] OTHER -> Ordered(op, x, y)
PlainCompare == ("EQ_NUM" :> "EQ") @@ ("NEQ_NUM" :> "NEQ") @@ ("LT_NUM" :> "LT") @@ ("LTE_NUM" :> "LTE")
             @@ ("GT_NUM" :> "GT") @@ ("GTE_NUM" :> "GTE")
DoCompareNum(m, i) ==
    Put(m, i.a, Bool(Compared(PlainCompare[i.op], Reg(m, i.b), Reg(m, i.c))))
DoNot(m, i) == Put(m, i.a, Bool(~Truthy(Reg(m, i.b))))

DoJmp(m, i) == Goto(m, i.at + i.b)
\* The narrow JMP_IF_FALSE takes every number that is no NaN for true.
DoJmpIfFalse(m, i) ==
    IF Reg(m, i.a) \in {Nil, Bool(FALSE)} THEN Jump(m, i.b) ELSE m
DoJmpIfTrue(m, i) == IF Truthy(Reg(m, i.a)) THEN Jump(m, i.b) ELSE m
FusedCompare == ("JMP_IF_NOT_LT" :> "LT") @@ ("JMP_IF_NOT_LTE" :> "LTE")
             @@ ("JMP_IF_NOT_GT" :> "GT") @@ ("JMP_IF_NOT_GTE" :> "GTE")
DoFused(m, i) ==
    LET x == Reg(m, i.a)
        y == Reg(m, i.b)
        holds == IF i.op = "JMP_IF_NOT_EQ" THEN x = y ELSE Compared(FusedCompare[i.op], x, y)
    IN IF holds THEN m ELSE Jump(m, i.c)
=============================================================================
