------------------------------ MODULE CodeGen ------------------------------
(* The code generator of src/src/compiler/codegen.cpp, from a tree of Parser to
   functions of bytecode, before the peephole passes.  A compiling operator
   takes and returns the CompilerScope s of the function it is in, extended with
   the part g of the CodeGenerator that all functions share; s.outer holds the
   enclosing scope.  compile_expr always leaves its result in the register that
   was next, so Expr(e, s) returns the new scope only.  Code is a sequence of
   four-byte slots <<op, a, b, c>>, a wide instruction being a WIDE slot and the
   slot of its operands; a BX operand stands in b; offsets count slots.      *)
EXTENDS Parser, Lexer, TLC

CONSTANTS Byte,           \* the largest narrow operand: 255
          MaxRegisters,   \* registers of a function: 65536
          Files           \* what an include can open: path -> text

ASSUME CodeGenAssumption == Byte \in Nat /\ MaxRegisters \in Nat /\ MaxRegisters > 0

NewScope(g, outer) ==
    [code |-> <<>>, consts |-> <<>>, locals |-> <<>>, ups |-> <<>>, depth |-> 0,
     next |-> 0, max |-> 0, breaks |-> <<>>, conts |-> <<>>,
     types |-> [r \in 0..MaxRegisters |-> "?"], outer |-> outer, g |-> g]
NewGenerator == [signals |-> {}, scopes |-> <<>>, protos |-> <<>>, seen |-> {},
                 base |-> "", enums |-> 0, idents |-> {}, literals |-> {}, err |-> FALSE]

TopLevel(s) == s.outer = <<>> /\ s.depth = 0

(* ------------------------ Registers, scopes, names ----------------------- *)

\* Mutant: the count of registers is the highest register.
Alloc_OneLess(s) ==
    IF s.next >= MaxRegisters THEN [s EXCEPT !.g.err = TRUE]
    ELSE [s EXCEPT !.next = @ + 1, !.max = IF @ > s.next THEN @ ELSE s.next,
                   !.types[s.next] = "?"]
\* alloc_register: fails at the limit and forgets the type of the last user.
Alloc(s) ==
    IF s.next >= MaxRegisters THEN [s EXCEPT !.g.err = TRUE]
    ELSE [s EXCEPT !.next = @ + 1, !.max = IF @ > s.next THEN @ ELSE s.next + 1,
                   !.types[s.next] = "?"]
Free(s) == [s EXCEPT !.next = IF @ > 0 THEN @ - 1 ELSE 0]
FreeN(s, n) == [s EXCEPT !.next = IF @ > n THEN @ - n ELSE 0]
SetType(s, r, t) == [s EXCEPT !.types[r] = t]

Declare(s, x, r) ==
    [s EXCEPT !.locals = Append(@, [name |-> x, reg |-> r, depth |-> s.depth, cap |-> FALSE])]
\* The index of the innermost local called x, 0 if there is none.
LocalIndex(s, x) == Max({0} \union {i \in 1..Len(s.locals) : s.locals[i].name = x})
Local(s, x) == IF LocalIndex(s, x) = 0 THEN -1 ELSE s.locals[LocalIndex(s, x)].reg
IsPlainLocal(s, e) == e[1] = "id" /\ Local(s, e[2]) >= 0 /\ e[2] \notin s.g.signals

\* add_upvalue takes the register as one byte, and shares equal descriptors.
AddUpvalue(s, index, isLocal) ==
    LET u    == <<index % (Byte + 1), isLocal>>
        same == {i \in 1..Len(s.ups) : s.ups[i] = u}
    IN IF same # {} THEN [s |-> s, i |-> Min(same) - 1]
       ELSE [s |-> [s EXCEPT !.ups = Append(@, u)], i |-> Len(s.ups)]

\* resolve_upvalue: the descriptor of x in s and what it adds to the scopes
\* around it; -1 when no enclosing function has x.
RECURSIVE Upvalue(_, _)
Upvalue(s, x) ==
    LET out == s.outer[1]
        k   == LocalIndex(out, x)
        up  == Upvalue(out, x)
    IN IF s.outer = <<>> THEN [s |-> s, i |-> -1]
       ELSE IF k > 0
            THEN AddUpvalue([s EXCEPT !.outer[1].locals[k].cap = TRUE], out.locals[k].reg, TRUE)
       ELSE IF up.i >= 0
            THEN AddUpvalue([s EXCEPT !.outer[1] = up.s], up.i, FALSE)
       ELSE [s |-> s, i |-> -1]

(* -------------------------------- Emission ------------------------------- *)

Wide(s, op, a, b, c) ==
    [s EXCEPT !.code = @ \o << <<"WIDE", 0, 0, 0>>, <<op, a, b, c>> >>]
Emit(s, op, a, b, c) ==
    IF a > Byte \/ b > Byte \/ c > Byte THEN Wide(s, op, a, b, c)
    ELSE [s EXCEPT !.code = Append(@, <<op, a, b, c>>)]
\* emit_bx; a negative offset is a uint16_t beyond one byte.
EmitX(s, op, a, x) ==
    IF a > Byte \/ (s.next > Byte /\ (x > Byte \/ x < 0)) THEN Wide(s, op, a, x, 0)
    ELSE [s EXCEPT !.code = Append(@, <<op, a, x, 0>>)]

Here(s) == Len(s.code)
\* A distance in slots of four bytes as an int16_t number of bytes keeps it: one of
\* 8192 slots and more wraps.
Jump16(k) == ((k + 8192) % 16384) - 8192
PatchJump(s, at, offset) ==
    IF s.code[at + 1][1] = "WIDE" THEN [s EXCEPT !.code[at + 2][3] = Jump16(offset - 1)]
    ELSE [s EXCEPT !.code[at + 1][3] = Jump16(offset)]
\* What the callers of patch_jump compute: JMP is relative to itself, the others
\* to the instruction after them.
JumpHere(s, at)   == PatchJump(s, at, Here(s) - at)
BranchHere(s, at) == PatchJump(s, at, Here(s) - at - 1)
RECURSIVE JumpAll(_, _, _)
JumpAll(s, ats, target) ==
    IF ats = <<>> THEN s
    ELSE JumpAll(PatchJump(s, Head(ats), target - Head(ats)), Tail(ats), target)

\* add_constant shares equal constants; ConstOf is the index it returns.
ConstOf(s, v) ==
    LET same == {i \in 1..Len(s.consts) : s.consts[i] = v}
    IN IF same = {} THEN Len(s.consts) ELSE Min(same) - 1
AddConst(s, v) == IF ConstOf(s, v) < Len(s.consts) THEN s ELSE [s EXCEPT !.consts = Append(@, v)]
\* make_identifier_constant: the name x, an interned string like any literal.
Ident(x) == <<"str", x>>
AddName(s, x) == [AddConst(s, Ident(x)) EXCEPT !.g.idents = @ \union {x}]
NameAt(s, x) == ConstOf(s, Ident(x))
\* emit_bx of a constant: LOAD_CONST, CLOSURE, GET_GLOBAL, SET_GLOBAL, ...
EmitConst(s, op, a, v) == EmitX(AddConst(s, v), op, a, ConstOf(s, v))
EmitName(s, op, a, x) == EmitX(AddName(s, x), op, a, NameAt(s, x))

RECURSIVE Expr(_, _), Exprs(_, _, _), Stmt(_, _), Stmts(_, _), Function_(_, _, _, _, _)
\* The expressions es one after the other, and the register of each.
Exprs(es, s, regs) ==
    IF es = <<>> THEN [s |-> s, regs |-> regs]
    ELSE Exprs(Tail(es), Expr(Head(es), s), Append(regs, s.next))

(* ------------------------------- Expressions ----------------------------- *)

OpCode == ("+" :> "ADD") @@ ("-" :> "SUB") @@ ("*" :> "MUL") @@ ("/" :> "DIV") @@ ("%" :> "MOD")
       @@ ("==" :> "EQ") @@ ("!=" :> "NEQ") @@ ("<" :> "LT") @@ ("<=" :> "LTE")
       @@ (">" :> "GT") @@ (">=" :> "GTE") @@ ("&" :> "BIT_AND") @@ ("|" :> "BIT_OR")
       @@ ("^" :> "BIT_XOR") @@ ("<<" :> "SHL") @@ (">>" :> "SHR")
Compares == {"==", "!=", "<", "<=", ">", ">="}
Unchecked == ("ADD" :> "ADD_NUM") @@ ("SUB" :> "SUB_NUM") @@ ("MUL" :> "MUL_NUM")
          @@ ("DIV" :> "DIV_NUM") @@ ("MOD" :> "MOD_NUM") @@ ("EQ" :> "EQ_NUM")
          @@ ("NEQ" :> "NEQ_NUM") @@ ("LT" :> "LT_NUM") @@ ("LTE" :> "LTE_NUM")
          @@ ("GT" :> "GT_NUM") @@ ("GTE" :> "GTE_NUM")
Specialized(op, numbers) ==
    IF numbers /\ op \in DOMAIN Unchecked THEN Unchecked[op] ELSE op

Number(n, s, reg) ==
    LET t == SetType(s, reg, "num")
    IN IF n \in 0..Byte THEN Emit(t, "LOAD_IMM", reg, n, 0)
       ELSE EmitConst(t, "LOAD_CONST", reg, <<"num", n>>)

String(x, s, reg) ==
    LET t == EmitConst(SetType(s, reg, "str"), "LOAD_CONST", reg, <<"str", x>>)
    IN [t EXCEPT !.g.literals = @ \union {x}]

\* es into a new array in reg: the elements lie in regs and are stored by index.
RECURSIVE StoreItems(_, _, _, _)
StoreItems(s, reg, regs, i) ==
    LET k == Alloc(s)
        t == EmitConst(k, "LOAD_CONST", s.next, <<"num", i>>)
    IN IF i = Len(regs) THEN s
       ELSE StoreItems(Free(Emit(t, "SET_INDEX", reg, s.next, regs[i + 1])), reg, regs, i + 1)
Array(es, s, reg) ==
    LET p == Exprs(es, s, <<>>)
        n == Emit(p.s, "NEW_ARRAY", reg, Len(es) % (Byte + 1), 0)
    IN FreeN(StoreItems(n, reg, p.regs, 0), Len(es))

RECURSIVE StorePairs(_, _, _)
StorePairs(s, reg, regs) ==
    IF regs = <<>> THEN s
    ELSE StorePairs(Emit(s, "SET_INDEX", reg, regs[1], regs[2]), reg, Tail(Tail(regs)))
RECURSIVE Flat(_)
Flat(pairs) == IF pairs = <<>> THEN <<>> ELSE Head(pairs) \o Flat(Tail(pairs))
MapOf(pairs, s, reg) ==
    LET p == Exprs(Flat(pairs), Emit(s, "NEW_MAP", reg, 0, 0), <<>>)
    IN FreeN(StorePairs(p.s, reg, p.regs), 2 * Len(pairs))

\* A name: a local, an upvalue or a global, read through SIGNAL_GET when a signal
\* of that name is in scope.
Name(x, s, reg) ==
    LET l == Local(s, x)
        u == Upvalue(s, x)
        a == Alloc(u.s)
        held == IF u.i >= 0 THEN Emit(a, "GET_UPVALUE", u.s.next, u.i, 0)
                ELSE EmitName(a, "GET_GLOBAL", u.s.next, x)
    IN CASE x \in s.g.signals /\ l >= 0 -> Emit(s, "SIGNAL_GET", reg, l, 0)
         [] x \in s.g.signals /\ l < 0  -> Free(Emit(held, "SIGNAL_GET", reg, u.s.next, 0))
         [] x \notin s.g.signals /\ l >= 0 -> Emit(SetType(s, reg, s.types[l]), "MOVE", reg, l, 0)
         [] OTHER -> IF u.i >= 0 THEN Emit(u.s, "GET_UPVALUE", reg, u.i, 0)
                     ELSE EmitName(s, "GET_GLOBAL", reg, x)

\* An operand that is a plain local is used where it is, without a temporary.
Operand(e, s) ==
    IF IsPlainLocal(s, e) THEN [s |-> s, r |-> Local(s, e[2]), tmp |-> 0]
    ELSE [s |-> Expr(e, s), r |-> s.next, tmp |-> 1]

Binary(op, l, r, s, reg) ==
    LET modZero == op = "==" /\ l[1] = "bin" /\ l[2] = "%" /\ r = <<"num", 0>>
        a == IF modZero THEN Operand(l[3], s) ELSE Operand(l, s)
        b == IF modZero THEN Operand(l[4], a.s) ELSE Operand(r, a.s)
        both(t) == b.s.types[a.r] = t /\ b.s.types[b.r] = t
        code == IF modZero THEN "MOD_EQ_ZERO"
                ELSE IF both("str") /\ op = "+" THEN "ADD_STR"
                ELSE Specialized(OpCode[op], both("num"))
        type == CASE modZero -> "bool"
                  [] code = "ADD_STR" -> "str"
                  [] ~modZero /\ code # "ADD_STR" /\ (both("num") \/ both("str")) ->
                         IF op \in Compares THEN "bool" ELSE "num"
                  [] OTHER -> "?"
    IN FreeN(Emit(SetType(b.s, reg, type), code, reg, a.r, b.r), a.tmp + b.tmp)

UnaryOp(op, e, s, reg) ==
    LET t == Expr(e, s)
    IN Free(CASE op = "-" -> Emit(SetType(t, reg, "num"), "NEG", reg, s.next, 0)
              [] op = "~" -> Emit(SetType(t, reg, "num"), "BIT_NOT", reg, s.next, 0)
              [] OTHER    -> Emit(SetType(t, reg, "bool"), "NOT", reg, s.next, 0))

Logical(op, l, r, s, reg) ==
    LET a == Free(Emit(Expr(l, s), "MOVE", reg, s.next, 0))
        j == EmitX(a, IF op = "and" THEN "JMP_IF_FALSE" ELSE "JMP_IF_TRUE", reg, 0)
        b == Free(Emit(Expr(r, j), "MOVE", reg, j.next, 0))
    IN BranchHere(b, Here(a))

\* Moves of the registers regs to base, base + 1, ... from left to right.
RECURSIVE MoveArgs(_, _, _)
MoveArgs(s, regs, base) ==
    IF regs = <<>> THEN s
    ELSE MoveArgs(IF Head(regs) = base THEN s ELSE Emit(s, "MOVE", base, Head(regs), 0),
                  Tail(regs), base + 1)
\* After a call everything above its result is free.
Called(s, callee, n, reg) ==
    LET t == Emit(s, "CALL", callee, n, 0)
    IN [(IF callee # reg THEN Emit(t, "MOVE", reg, callee, 0) ELSE t) EXCEPT !.next = reg + 1]

MethodCall(f, args, s, reg) ==
    LET o == AddName(Expr(f[2], s), f[3])
        this == o.next + 1
        p == Exprs(args, Emit(Alloc(Alloc(o)), "MOVE", this, s.next, 0), <<>>)
        g == Emit(p.s, "GET_FIELD", o.next, this, NameAt(o, f[3]))
    IN Called(MoveArgs(g, p.regs, this + 1), o.next, Len(args) + 1, reg)
PlainCall(f, args, s, reg) ==
    LET p == Exprs(args, Expr(f, s), <<>>)
        callee == IF s.next > Byte THEN p.s.next ELSE s.next
        t == IF s.next > Byte THEN Emit(Alloc(p.s), "MOVE", callee, s.next, 0) ELSE p.s
    IN Called(MoveArgs(t, p.regs, callee + 1), callee, Len(args), reg)
Call(f, args, s, reg) ==
    IF f[1] = "field" THEN MethodCall(f, args, s, reg) ELSE PlainCall(f, args, s, reg)

Index(o, i, s, reg) ==
    LET a == Expr(o, s)
        b == Expr(i, a)
    IN FreeN(Emit(b, "GET_INDEX", reg, s.next, a.next), 2)
Field(o, f, s, reg) ==
    LET a == Expr(o, s)
    IN Free(Emit(AddName(a, f), "GET_FIELD", reg, s.next, NameAt(a, f)))
FieldSet(o, f, v, s, reg) ==
    LET a == Expr(o, s)
        b == Expr(v, a)
        t == Emit(AddName(b, f), "SET_FIELD", s.next, NameAt(b, f), a.next)
    IN FreeN(Emit(SetType(t, reg, b.types[a.next]), "MOVE", reg, a.next, 0), 2)
IndexSet(o, i, v, s, reg) ==
    LET a == Expr(o, s)
        b == Expr(i, a)
        c == Expr(v, b)
        t == Emit(c, "SET_INDEX", s.next, a.next, b.next)
    IN FreeN(Emit(SetType(t, reg, c.types[b.next]), "MOVE", reg, b.next, 0), 3)
RangeOf(x, y, s, reg) ==
    LET a == Expr(x, s)
        b == Expr(y, a)
    IN FreeN(Emit(b, "NEW_RANGE", reg, s.next, a.next), 2)

AssignSignal(x, e, s, reg) ==
    LET v == Expr(e, s)
        l == Local(v, x)
        u == Upvalue(v, x)
        a == Alloc(u.s)
        held == IF u.i >= 0 THEN Emit(a, "GET_UPVALUE", u.s.next, u.i, 0)
                ELSE EmitName(a, "GET_GLOBAL", u.s.next, x)
        t == IF l >= 0 THEN Emit(v, "SIGNAL_SET", l, s.next, 0)
             ELSE Free(Emit(held, "SIGNAL_SET", u.s.next, s.next, 0))
    IN Free(Emit(t, "MOVE", reg, s.next, 0))

\* x = x op e on a local works in its register; an operator without such a form
\* falls back after e has been compiled once already.
InPlace(x, e, s) == e[1] = "bin" /\ Local(s, x) >= 0 /\ e[3][1] = "id" /\ Local(s, e[3][2]) = Local(s, x)
AssignInPlace(x, e, s, reg) ==
    LET l == Local(s, x)
        here == e[4][1] = "id" /\ Local(s, e[4][2]) >= 0
        b == IF here THEN s ELSE Expr(e[4], s)
        r == IF here THEN Local(s, e[4][2]) ELSE s.next
        numbers == b.types[l] = "num" /\ b.types[r] = "num"
        t == Emit(b, Specialized(OpCode[e[2]], numbers), l, l, r)
    IN Emit(IF here THEN t ELSE Free(t), "MOVE", reg, l, 0)
AssignPlain(x, e, s, reg) ==
    LET v == Expr(e, s)
        l == Local(v, x)
        u == Upvalue(v, x)
        t == CASE l >= 0 -> Emit(SetType(SetType(v, l, v.types[s.next]), reg, v.types[s.next]),
                                 "MOVE", l, s.next, 0)
               [] l < 0 /\ u.i >= 0 -> Emit(u.s, "SET_UPVALUE", s.next, u.i, 0)
               [] OTHER -> EmitName(v, "SET_GLOBAL", s.next, x)
    IN Free(Emit(t, "MOVE", reg, s.next, 0))
Assign(x, e, s, reg) ==
    CASE x \in s.g.signals -> AssignSignal(x, e, s, reg)
      [] x \notin s.g.signals /\ InPlace(x, e, s) ->
            IF e[2] \in Compares
            THEN AssignPlain(x, e, IF e[4][1] = "id" /\ Local(s, e[4][2]) >= 0 THEN s
                                   ELSE Expr(e[4], s), reg)
            ELSE AssignInPlace(x, e, s, reg)
      [] OTHER -> AssignPlain(x, e, s, reg)

This(s, reg) ==
    LET u == Upvalue(s, "this")
    IN IF Local(s, "this") >= 0 THEN Emit(s, "MOVE", reg, Local(s, "this"), 0)
       ELSE IF u.i >= 0 THEN Emit(u.s, "GET_UPVALUE", reg, u.i, 0)
       ELSE Emit(s, "LOAD_NIL", reg, 0, 0)

\* The closure of the function a compile_function has just added to the protos.
Closure(t, reg) == EmitConst(t, "CLOSURE", reg, <<"proto", Len(t.g.protos)>>)

Expr(e, s) ==
    LET reg == s.next
        t   == Alloc(s)
    IN CASE e[1] = "num"   -> Number(e[2], t, reg)
         [] e[1] = "str"   -> String(e[2], t, reg)
         [] e[1] = "bool"  -> Emit(SetType(t, reg, "bool"), IF e[2] THEN "LOAD_TRUE" ELSE "LOAD_FALSE", reg, 0, 0)
         [] e[1] \in {"nil", "super"} -> Emit(t, "LOAD_NIL", reg, 0, 0)
         [] e[1] = "array" -> Array(e[2], t, reg)
         [] e[1] = "map"   -> MapOf(e[2], t, reg)
         [] e[1] = "id"    -> Name(e[2], t, reg)
         [] e[1] = "bin"   -> Binary(e[2], e[3], e[4], t, reg)
         [] e[1] = "un"    -> UnaryOp(e[2], e[3], t, reg)
         [] e[1] = "logic" -> Logical(e[2], e[3], e[4], t, reg)
         [] e[1] = "call"  -> Call(e[2], e[3], t, reg)
         [] e[1] = "index" -> Index(e[2], e[3], t, reg)
         [] e[1] = "field" -> Field(e[2], e[3], t, reg)
         [] e[1] = "range" -> RangeOf(e[2], e[3], t, reg)
         [] e[1] = "this"  -> This(t, reg)
         [] e[1] = "assign"   -> Assign(e[2], e[3], t, reg)
         [] e[1] = "setfield" -> FieldSet(e[2], e[3], e[4], t, reg)
         [] e[1] = "setindex" -> IndexSet(e[2], e[3], e[4], t, reg)
         [] e[1] = "fn"    -> Closure(Function_(e[2], e[3], e[4], e[5], t), reg)

(* -------------------------------- Statements ----------------------------- *)

Stmts(ss, s) == IF ss = <<>> THEN s ELSE Stmts(Tail(ss), Stmt(Head(ss), s))
\* The statements of a body that opens no scope of its own: a case, a try, a catch.
Inline(b, s) == IF b[1] = "block" THEN Stmts(b[2], s) ELSE Stmt(b, s)

BeginScope(s) == [s EXCEPT !.depth = @ + 1, !.g.scopes = Append(@, {})]
RECURSIVE PopLocals(_)
PopLocals(s) ==
    LET last == s.locals[Len(s.locals)]
        t == IF last.cap THEN Emit(s, "CLOSE_UPVALUE", last.reg, 0, 0) ELSE s
    IN IF s.locals = <<>> \/ last.depth <= s.depth THEN s
       ELSE PopLocals(Free([t EXCEPT !.locals = SubSeq(@, 1, Len(@) - 1)]))
EndScope(s) ==
    LET t == PopLocals([s EXCEPT !.depth = @ - 1])
        n == Len(t.g.scopes)
    IN [t EXCEPT !.g.signals = @ \ t.g.scopes[n], !.g.scopes = SubSeq(@, 1, n - 1)]

\* A top-level declaration becomes a global and gives its register back, any
\* other one a local of that register.
Bind(s, x, reg) ==
    IF TopLevel(s) THEN Free(EmitName(s, "SET_GLOBAL", reg, x)) ELSE Declare(s, x, reg)

IfStmt(c, a, b, s) ==
    LET t == Expr(c, s)
        j == Free(EmitX(t, "JMP_IF_FALSE", s.next, 0))
        x == Stmt(a, j)
        y == BranchHere(EmitX(x, "JMP", 0, 0), Here(t))
    IN IF b = None THEN BranchHere(x, Here(t)) ELSE JumpHere(Stmt(b, y), Here(x))

\* vector::resize: a switch in the body may have cleared the jumps of loops around.
Resized(js, n) == [i \in 1..n |-> IF i <= Len(js) THEN js[i] ELSE 0]

\* The end of every loop: jump back, let the exit (when there is one) and the
\* breaks of the body s out here, and the continues to cont.
EndLoop(s, old, start, exit, cont) ==
    LET t == EmitX(s, "JMP", 0, Jump16(start - Here(s)))
        x == IF exit >= 0 THEN BranchHere(t, exit) ELSE t
        mine(js, n) == SubSeq(js, n + 1, Len(js))
        y == JumpAll(x, mine(s.breaks, Len(old.breaks)), Here(x))
        z == JumpAll(y, mine(s.conts, Len(old.conts)), cont)
    IN [z EXCEPT !.breaks = Resized(@, Len(old.breaks)), !.conts = Resized(@, Len(old.conts))]

WhileStmt(c, b, s) ==
    LET t == Expr(c, s)
        j == Free(EmitX(t, "JMP_IF_FALSE", s.next, 0))
    IN EndLoop(Stmt(b, j), j, Here(s), Here(t), Here(s))

\* Mutant: continue goes to the condition, past the update.
ForStmt_ContinueEarly(init, c, upd, b, s) ==
    LET i == IF init = None THEN BeginScope(s) ELSE Stmt(init, BeginScope(s))
        t == IF c = None THEN i ELSE Expr(c, i)
        j == IF c = None THEN i ELSE Free(EmitX(t, "JMP_IF_FALSE", i.next, 0))
        x == Stmt(b, j)
        u == IF upd = None THEN x ELSE Free(Expr(upd, x))
    IN EndScope(EndLoop(u, j, Here(i), IF c = None THEN -1 ELSE Here(t), Here(i)))
ForStmt(init, c, upd, b, s) ==
    LET i == IF init = None THEN BeginScope(s) ELSE Stmt(init, BeginScope(s))
        t == IF c = None THEN i ELSE Expr(c, i)
        j == IF c = None THEN i ELSE Free(EmitX(t, "JMP_IF_FALSE", i.next, 0))
        x == Stmt(b, j)
        u == IF upd = None THEN x ELSE Free(Expr(upd, x))
    IN EndScope(EndLoop(u, j, Here(i), IF c = None THEN -1 ELSE Here(t), Here(x)))

ForInStmt(v, e, b, s) ==
    LET it == Expr(e, BeginScope(s)).next
        i == Alloc(Expr(e, BeginScope(s)))
        d == Declare(Alloc(Emit(i, "ITER_INIT", it, s.next, 0)), v, it + 1)
        t == Emit(Alloc(Emit(d, "ITER_NEXT", it + 1, it, 0)), "ITER_DONE", it + 2, it, 0)
        j == EmitX(t, "JMP_IF_TRUE", it + 2, 0)
    IN FreeN(EndScope(Free(EndLoop(Stmt(b, j), j, Here(d), Here(t), Here(d)))), 2)

\* The captured locals of the function are closed before it returns.
RECURSIVE CloseFrom(_, _)
CloseFrom(s, i) ==
    IF i > Len(s.locals) THEN s
    ELSE CloseFrom(IF s.locals[i].cap THEN Emit(s, "CLOSE_UPVALUE", s.locals[i].reg, 0, 0) ELSE s, i + 1)
CloseCaptured(s) == CloseFrom(s, 1)

ReturnStmt(es, s) ==
    LET tail == Len(es) = 1 /\ es[1][1] = "call" /\ es[1][2][1] # "field"
        p == Exprs(es[1][3], Expr(es[1][2], s), <<>>)
        q == Exprs(es, s, <<>>)
        arr == Emit(Alloc(q.s), "NEW_ARRAY", q.s.next, Len(es) % (Byte + 1), 0)
        back(t, reg) == Emit(CloseCaptured(t), "RETURN", reg, 0, 0)
    IN CASE es = <<>> -> Free(back(Emit(Alloc(s), "LOAD_NIL", s.next, 0, 0), s.next))
         [] tail -> Emit(CloseCaptured(MoveArgs(p.s, p.regs, s.next + 1)),
                         "TAIL_CALL", s.next, Len(es[1][3]), 0)
         [] Len(es) = 1 /\ ~tail -> back(q.s, s.next)
         [] OTHER -> back(StoreItems(arr, q.s.next, q.regs, 0), q.s.next)

\* let keeps its register as a local even where it also sets a global.
LetStmt(x, e, s) ==
    LET v == IF e = None THEN Emit(Alloc(s), "LOAD_NIL", s.next, 0, 0) ELSE Expr(e, s)
        d == Declare(v, x, s.next)
    IN IF TopLevel(s) THEN EmitName(d, "SET_GLOBAL", s.next, x) ELSE d

RECURSIVE Unpack(_, _, _, _, _)
Unpack(names, i, s, init, len) ==
    LET v == Emit(Alloc(s), "LOAD_NIL", s.next, 0, 0)
        k == EmitConst(Alloc(v), "LOAD_CONST", v.next, <<"num", i>>)
        c == Emit(Alloc(k), "LT", k.next, v.next, len)
        j == Emit(EmitX(c, "JMP_IF_FALSE", k.next, 0), "GET_INDEX", s.next, init, v.next)
        t == FreeN(BranchHere(j, Here(c)), 2)
    IN IF i = Len(names) THEN s ELSE Unpack(names, i + 1, Bind(t, names[i + 1], s.next), init, len)
UnpackStmt(names, e, s) ==
    LET v == Expr(e, s)
        l == AddName(Alloc(v), "length")
    IN Unpack(names, 0, Emit(l, "GET_FIELD", v.next, s.next, NameAt(v, "length")), s.next, v.next)

\* A named function below the top level is declared before its body, which may
\* call it.
FnStmt(f, s) ==
    LET d == IF TopLevel(s) THEN s ELSE Declare(Emit(Alloc(s), "LOAD_NIL", s.next, 0, 0), f[2], s.next)
        b == Function_(f[2], f[3], f[4], f[5], d)
    IN IF TopLevel(s) THEN Bind(Closure(Alloc(b), b.next), f[2], b.next) ELSE Closure(b, s.next)

RECURSIVE AddMethods(_, _, _)
AddMethods(ms, s, class) ==
    LET m == Head(ms)
        b == Function_(m[2], <<"this">> \o m[3], m[4], m[5], s)
        c == AddName(Closure(Alloc(b), b.next), m[2])
    IN IF ms = <<>> THEN s
       ELSE AddMethods(Tail(ms), Free(Emit(c, "SET_FIELD", class, NameAt(c, m[2]), b.next)), class)
ClassStmt(x, ms, s) ==
    Bind(AddMethods(ms, EmitName(Alloc(s), "NEW_CLASS", s.next, x), s.next), x, s.next)

\* The tests of a case: each match jumps to the body, else on to the next case.
RECURSIVE Matches(_, _, _, _)
Matches(vs, s, cond, jumps) ==
    LET v == Expr(Head(vs), s)
        t == Free(Emit(Alloc(v), "EQ", v.next, cond, s.next))
    IN IF vs = <<>> THEN [s |-> s, jumps |-> jumps]
       ELSE Matches(Tail(vs), Free(EmitX(t, "JMP_IF_TRUE", v.next, 0)), cond, Append(jumps, Here(t)))
RECURSIVE BranchAll(_, _)
BranchAll(s, ats) == IF ats = <<>> THEN s ELSE BranchAll(BranchHere(s, Head(ats)), Tail(ats))
RECURSIVE Cases(_, _, _, _)
Cases(cs, s, cond, ends) ==
    LET m == Matches(Head(cs)[1], s, cond, <<>>)
        b == Inline(Head(cs)[2], BranchAll(EmitX(m.s, "JMP", 0, 0), m.jumps))
        t == JumpHere(EmitX(b, "JMP", 0, 0), Here(m.s))
    IN IF cs = <<>> THEN [s |-> s, ends |-> ends]
       ELSE Cases(Tail(cs), t, cond, Append(ends, Here(b)))
\* At the end every break collected so far, those of a loop around included, is
\* sent here and forgotten.
SwitchStmt(e, cs, dflt, s) ==
    LET p == Cases(cs, Expr(e, s), s.next, <<>>)
        d == IF dflt = None THEN p.s ELSE Inline(dflt, p.s)
        t == JumpAll(JumpAll(d, p.ends, Here(d)), d.breaks, Here(d))
    IN Free([t EXCEPT !.breaks = <<>>])

TryStmt(b, x, c, s) ==
    LET t == Inline(b, EmitX(Alloc(s), "TRY_BEGIN", s.next, 0))
        e == BranchHere(EmitX(t, "TRY_END", 0, 0), Here(s))
    IN BranchHere(Inline(c, Bind(e, x, s.next)), Here(t))

\* What parse_program makes of a text.
ReadTree(text) == LET tokens == Tokenize(text) IN Parse(tokens)

\* An include compiles the statements of the file in place, once per path; a path
\* is relative to the directory of the including file.
Directory(path) ==
    LET slashes == {i \in 1..Len(path) : Char(path, i) = "/"}
    IN IF slashes = {} THEN {} ELSE {SubSeq(path, 1, Max(slashes) - 1)}
IncludeStmt(path, s) ==
    LET p == IF s.g.base # "" /\ Char(path, 1) # "/" THEN s.g.base \o "/" \o path ELSE path
        tree == ReadTree(Files[p])
        dir == IF Directory(p) = {} THEN s.g.base ELSE CHOOSE d \in Directory(p) : TRUE
        t == Inline(tree, [s EXCEPT !.g.seen = @ \union {p}, !.g.base = dir])
    IN IF p \in s.g.seen THEN s
       ELSE IF p \notin DOMAIN Files \/ tree = None THEN [s EXCEPT !.g.err = TRUE]
       ELSE [t EXCEPT !.g.base = s.g.base]

\* signal x = e, and @export x = e, which also enters x in the export registry.
SignalStmt(kind, x, e, s) ==
    LET v == Emit(Expr(e, s), "SIGNAL_CREATE", s.next, s.next, 0)
        n == Len(v.g.scopes)
        t == [v EXCEPT !.g.signals = @ \union {x},
                       !.g.scopes = IF TopLevel(s) \/ n = 0 THEN @ ELSE [@ EXCEPT ![n] = @ \union {x}]]
        b == IF TopLevel(s) THEN EmitName(t, "SET_GLOBAL", s.next, x) ELSE Declare(t, x, s.next)
        r == IF kind = "export" THEN EmitName(b, "EXPORT_REGISTER", s.next, x) ELSE b
    IN IF TopLevel(s) THEN Free(r) ELSE r

EffectStmt(b, s) ==
    LET f == Function_("__effect__", <<>>, FALSE, b, s)
        c == Closure(Alloc(f), f.next)
        e == Free(Emit(Alloc(c), "EFFECT_CREATE", c.next, f.next, 0))
    IN Free(Emit(e, "EFFECT_RUN", c.next, 0, 0))

RECURSIVE VariantsOf(_, _, _, _)
VariantsOf(vs, i, s, class) ==
    LET v == Head(vs)
        n == AddName(s, v[1])
        k == AddConst(n, <<"num", i>>)
        t == IF v[2] # None THEN Emit(n, "ENUM_DATA_VARIANT", class, NameAt(s, v[1]), 0)
             ELSE Free(Emit(Alloc(k), "ENUM_VARIANT", class, NameAt(s, v[1]), ConstOf(n, <<"num", i>>)))
    IN IF vs = <<>> THEN s ELSE VariantsOf(Tail(vs), i + 1, t, class)
EnumStmt(x, vs, s) ==
    LET e == EmitName(Alloc(s), "ENUM_CREATE", s.next, x)
        t == AddConst([e EXCEPT !.g.enums = @ + 1], <<"num", e.g.enums>>)
    IN Bind(VariantsOf(vs, 0, t, s.next), x, s.next)

Stmt(n, s) ==
    CASE n[1] = "expr"    -> Free(Expr(n[2], s))
      [] n[1] = "block"   -> EndScope(Stmts(n[2], BeginScope(s)))
      [] n[1] = "if"      -> IfStmt(n[2], n[3], n[4], s)
      [] n[1] = "while"   -> WhileStmt(n[2], n[3], s)
      [] n[1] = "for"     -> ForStmt(n[2], n[3], n[4], n[5], s)
      [] n[1] = "forin"   -> ForInStmt(n[2], n[3], n[4], s)
      [] n[1] = "break"    -> [EmitX(s, "JMP", 0, 0) EXCEPT !.breaks = Append(@, Here(s))]
      [] n[1] = "continue" -> [EmitX(s, "JMP", 0, 0) EXCEPT !.conts = Append(@, Here(s))]
      [] n[1] = "return"  -> ReturnStmt(n[2], s)
      [] n[1] = "let"     -> LetStmt(n[2], n[3], s)
      [] n[1] = "fn"      -> FnStmt(n, s)
      [] n[1] = "class"   -> ClassStmt(n[2], n[3], s)
      [] n[1] = "include" -> IncludeStmt(n[2], s)
      [] n[1] = "await"   -> Free(Emit(Expr(n[2], s), "AWAIT", s.next, 0, 0))
      [] n[1] = "throw"   -> Free(Emit(Expr(n[2], s), "THROW", s.next, 0, 0))
      [] n[1] = "unpack"  -> UnpackStmt(n[2], n[3], s)
      [] n[1] = "switch"  -> SwitchStmt(n[2], n[3], n[4], s)
      [] n[1] = "try"     -> TryStmt(n[2], n[3], n[4], s)
      [] n[1] \in {"signal", "export"} -> SignalStmt(n[1], n[2], n[3], s)
      [] n[1] = "effect"  -> EffectStmt(n[2], s)
      [] n[1] = "enum"    -> EnumStmt(n[2], n[3], s)
      [] OTHER            -> Free(Expr(n, s))

(* --------------------------------- Functions ----------------------------- *)

Proto(name, arity, varargs, s) ==
    [name |-> name, arity |-> arity, varargs |-> varargs, code |-> s.code,
     consts |-> s.consts, ups |-> s.ups, regs |-> s.max]

RECURSIVE Parameters(_, _)
Parameters(ps, s) == IF ps = <<>> THEN s ELSE Parameters(Tail(ps), Declare(Alloc(s), Head(ps), s.next))

\* compile_function: the value of a last expression statement is returned (but an
\* init returns this), and so is nil unless the code already ends in a RETURN.
Function_(name, params, varargs, body, s) ==
    LET ss == body[2]
        n  == Len(ss)
        value == name # "init" /\ n > 0 /\ ss[n][1] = "expr"
        p == Parameters(params, NewScope(s.g, <<s>>))
        b == Stmts(IF value THEN SubSeq(ss, 1, n - 1) ELSE ss, p)
        v == Emit(CloseCaptured(Expr(ss[n][2], b)), "RETURN", b.next, 0, 0)
        t == IF value THEN v ELSE b
        c == CloseCaptured(t)
        nil == Emit(Alloc(c), IF name = "init" THEN "MOVE" ELSE "LOAD_NIL", c.next, 0, 0)
        returns == t.code # <<>> /\ t.code[Len(t.code)][1] = "RETURN"
        f == IF returns THEN t ELSE Emit(nil, "RETURN", c.next, 0, 0)
        arity == Len(params) - (IF varargs THEN 1 ELSE 0)
    IN [f.outer[1] EXCEPT !.g = [f.g EXCEPT !.protos = Append(@, Proto(name, arity, varargs, f))]]

\* compile(): a statement of the script; the first error ends the compilation.
Compiled(n, s) == LET t == Stmt(n, s) IN IF s.g.err THEN s ELSE t
\* compile(): the script, after its statements, ends with LOAD_NIL and RETURN.
Script(s) ==
    LET t == Emit(Emit(Alloc(s), "LOAD_NIL", s.next, 0, 0), "RETURN", s.next, 0, 0)
    IN Proto("<script>", 0, FALSE, t)
=============================================================================
