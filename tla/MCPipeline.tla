----------------------------- MODULE MCPipeline -----------------------------
(* The programs that Pipeline is checked with, and the references: Meaning, the
   abstract specification of what a program does, and Grammar.               *)
EXTENDS Pipeline

Ideal == INSTANCE Meaning
Syntax == INSTANCE Grammar
IdealOutcome(ss) == LET outcome == Ideal!Outcome(ss) IN outcome
NativeResult(vm, x, args) == LET result == Applied(vm, x, args) IN result
SyntaxText(tree0) == LET text == Syntax!TextOf(tree0) IN text

\* Arithmetic, strings, loops, logic and unpacking.
Basics == {
  "let x = 1 + 2 * 3; print(x, x == 7, -x, !nil, ~5 & 7);",
  "let s = 'ab' + 'c'; print(s[1], s[-1], s.length, len(s), s < 'b', 'a' != s)",
  "fn f(a, b) { let c = a * 10; c = c - b; return c % 7 } print(f(3, 4), f(100, 90))",
  "let n = 100; let i = 0; while (i < n) { i = i + 30; if (i > 80) { break } if (i == 60) { continue } print(i) } print(i)",
  "let t = 0; for (let i = 3; i > 0; i = i - 1) { if (i == 2) continue; t = t + i } print(t)",
  "for i in 1..3 { print(i) } for c in 'ab' { print(c) } for v in [4, 'x', nil] { print(v) } for k in 3..2 print(k)",
  "let a = 5; let b = nil; print(a > 2 and 'yes' or 'no', b or a, b and b.c)",
  "fn g(n) { if (n % 3 == 0) { return 'fizz' } else { return n } } print(g(9), g(10))",
  "let q = 7; q = q + q; q = q - 4; let [u, v, w] = [q, q * 2]; print(q, u, v, w)",
  "fn q() { let x = 8; let y = 2; let z = x / y; return [z, x < y, x <= y, x > y, x >= y, x == y, x != y, z / y] } print(q(), 12 / 4)" }

\* Arrays, maps, enums, ranges, variadic and multiple results.
Data == {
  "let a = [1, [2, 3]]; a[3] = a[1][0]; a[-4] = 'z'; print(a, len(a), a[2])",
  "let m = {'k': 1, 'v': {'k': 70}}; m.k = m['k'] + m.v.k; m['new'] = m.none; print(m, m.k, len(m))",
  "enum E { A, B, C(1) } print(E.A == E.A, E.A == E.B, E.B, E.D)",
  "let r = 2..4; print(r['start'], r['end']); let o = [fn(x) { return x * x }, len]; print(o[0](9), o[1]('four'))",
  "fn rest(a, ...b) { return [a, b] } print(rest(1), rest(1, 2, 3)[1])",
  "fn two() { return 1, 'b' } let [p, q] = two(); print(p, q); let z; print(z)" }

\* Closures, recursion, tail calls and variadic calls.
Functions == {
  "fn mk() { let c = 0; fn inc() { c = c + 1; return c } return inc } let i = mk(); let j = mk(); i(); print(i(), j())",
  "fn fact(n) { if (n < 2) { return 1 } return n * fact(n - 1) } print(fact(4))",
  "fn down(n, acc) { if (n == 0) { return acc } return down(n - 1, acc + n) } print(down(3, 100))",
  "let fs = []; for (let i = 0; i < 2; i = i + 1) { let k = i * 10; fs[i] = fn() { k = k + i; k } } print(fs[0](), fs[0](), fs[1]())",
  "fn outer() { let a = 1; fn mid() { fn inn() { a = a + 1; return a } return inn } let f = mid(); f(); let t = f(); return a + t } print(outer())",
  "fn even(n) { fn odd(k) { if (k == 0) { return false } return even(k - 1) } if (n == 0) { return true } return odd(n - 1) } print(even(3), even(2))",
  "fn ap(f, ...xs) { let t = 0; for x in xs { t = t + f(x) } return t } print(ap(fn(v) { v * 2 }, 3, 4), (fn() { 8 })())",
  "fn none() {} fn w(x) { while (true) { x = x + 1; if (x > 66) { return x } } } print(none(), w(64), print)" }

\* Classes, methods and overloaded operators.
Classes == {
  "class P { init(x, y) { this.x = x; this.y = y } sum(k) { return this.x + this.y * k } } let p = P(1, 2); p.x = 64; print(p.sum(3), p.z, P)",
  "class C { init() { this.n = 0 } inc() { this.n = this.n + 1; return this } } print(C().inc().inc().n, new C().n)",
  "class V { init(x) { this.x = x } __add(o) { return V(this.x + o.x) } __eq(o) { return this.x == o.x } __lt(o) { return this.x < o.x } __neg() { return V(-this.x) } } let a = V(1); let b = V(2); let c = a + b; print(c.x, a == b, a == a, a < b, V(5).x, (-c).x)",
  "class D { f() { fn g() { return this.v } return g } } let d = D(); d.v = 5; let g = d.f(); print(g())" }

\* Exceptions that are caught, rethrown or end the program, and closures over the frames they leave.
Errors == {
  "try { throw 'boom' } catch (e) { print(e) } try { print(1 + nil) } catch (e) { print(e) } print('on')",
  "fn f(n) { if (n == 0) { throw 'deep' } return f(n - 1) + 1 } try { f(2) } catch (e) { print('got ' + e) }",
  "fn g() { try { let x = 8; let h = fn() { x = x + 1; return x }; h(); throw h } catch (e) { return e } } print(g())",
  "try { try { nil() } catch (e) { throw e + '!' } } catch (o) { print(o) } let arr = [1]; print(arr[4])",
  "fn f(x) { x } print(f(1)); f(1, 2)",
  "let a = 1; print(missing)",
  "print(5 % 0)",
  "throw 70",
  "fn k() { let v = 5; fn get() { return v } return get } let t = k(); try { nil.f = 1 } catch (e) { print(t()) } print([1] < 2)" }

\* Switch.
Switches == {
  "fn s(v) { switch (v) { case 1, 2: return 'low' case 'x': return 'ex' default: return 'other' } return 0 } print(s(2), s('x'), s(9))",
  "let v = 3; switch (v) { case 3: print('three'); case 4: print('four') } switch (v) { case 5: print('five') default: print('none') }" }

\* Included files, signals, blocks and bits.
FilesAndSignals == {
  "include 'lib'; include 'dir/a'; include 'lib'; print(twice(4), both(1))",
  "signal x = 5; let y = x + 70; x = y - 1; print(x); @export let z = x; fn see() { effect { print(x) } let x = 3; signal q = x; q = q * 2; return q } print(z)",
  "let a = 9; { let a = 8; let b = a - 70; a = b; print(a, b) } { let c = a; print(c) } await a; print(a >> 1, a << 2, 12 ^ 10, 6 | 1)" }

\* Texts that the parser or the code generator rejects.
Rejected == {
  "let = 4",
  "print(1",
  "let x = 'abc",
  "5 = 3",
  "class { }",
  "let $ = 1",
  "fn f() { if (1) { }",
  "class C { f(...a) { } }",
  "switch (1) { let x = 2 }",
  "include 'gone'" }

\* Sixteen registers before the code that matters, whose instructions need the
\* prefix WIDE from there on, and a block that reserves registers for calls.  Loops and
\* what the README lists are left out.
Narrow == "fn w(p, ...r) { let a = 1; let b = 2; let c = 'c'; let d = nil; let e = [5]; let g = {'k': 6}; let i1 = 1; let i2 = 2; let i3 = 3; let i4 = 4; let i5 = 5; let i6 = 6; let i7 = 7; let i8 = 8; { let k1 = 1; let k2 = k1; let k3 = k1; let k4 = k1; let k5 = k1; let k6 = k1 } "
Widened == {
  Narrow \o "let h = a + b; let i = h * p - a % b; let j = c + 'x'; return [h, i, j, -i, !d, true, false, nil, 300] } print(w(8))",
  Narrow \o "let h = a < p; let i = b >= a; let j = c <= 'd'; let k = a > 'x'; return h } try { w(3) } catch (x) { print(x) }",
  Narrow \o "let h = a < p; let i = b >= a; let j = c <= 'd'; return [h, i, j, h == i, c != 'c', p > b] } print(w(8))",
  Narrow \o "let h = 3; let i = h & 6; let j = (i | 8) ^ p; return [i, j, ~j, h << b, j >> 1] } print(w(8))",
  Narrow \o "let h = e[0]; e[2] = h + p; let i = g.k; g.n = i; g['m'] = h; return [e, g.n, g['m'], i, c[0], e[-1]] } print(w(8))",
  Narrow \o "class K { init(v) { this.v = v } get() { return this.v } } let h = K(p); h.u = 3; return h.u + h.v } print(w(8))",
  Narrow \o "let h = 2; try { let z = nil; z.f = h; print('no') } catch (x) { print([x, h]) } try { throw h } catch (y) { h = y } return h } print(w(8))",
  Narrow \o "let h = p; if (h > 7) { h = 'big' } else { h = 'small' } return [h, h == 'big' and a, d or h] } print(w(8))",
  Narrow \o "let h = 1; let i = 2; return w2([h, i]) } fn w2(x) { return x[0] - x[1] } print(w(1))",
  Narrow \o "let h = 1; let i = h + p; if (i > 3) { return i } return w(i) } print(w(1))",
  Narrow \o "switch (p) { case 8: return 'eight' default: return 'other' } return 0 } print(w(8))",
  Narrow \o "let h = 1..b; signal s = p; s = s + 1; let i = s; return [h['end'], i, len] } print(w(8))",
  Narrow \o "let h = a; let [i, j] = [p, h]; return i, j } print(w(8))",
  Narrow \o "let h = missing; return h } w(1)",
  Narrow \o "newglobal = p; let h = newglobal; return h + newglobal } let newglobal = 0; print(w(8))",
  Narrow \o "let h = fn(x) { return x - a }; let q = h(p); { let u = 1; let v = q; let z = v; q = z + u } return q } print(w(8))",
  Narrow \o "let h = p; h = h + 1; h = h - 5; let i = h % 2 == 0; return [h, i] } print(w(8))",
  Narrow \o "let h = p; let i = (h - 1) * (h + 1) / 7 - a; return i } print(w(8))",
  Narrow \o "let h = [p, [a, b], g]; let i = h[1][1]; h[1][0] = i; return h } print(w(8))",
  Narrow \o "let h = fn(x) { return x + p + a }; let i = fn() { b = b + 1; return b }; p = 4; let q = h(1); { let u = 1; let v = i(); let z = v; q = z + q } return [q, r] } print(w(8, 9, 7))",
  Narrow \o "let h = p; { let i = h; h = i + 1 } { let k = 3; h = h * k } return h } print(w(8))",
  Narrow \o "let h = b / a; let i = [a < b, a <= b, a > b, a >= b, a == b, a != b]; let j = [p % b, b * b, b - a, p >= a]; await p; return [h, i, j, {'z': h}] } print(w(8))" }

\* Every pair of binary operators, in expressions of three variables.
Operators == {"+", "-", "*", "%", "&", "|", "^", "<<", ">>", "==", "!=", "<", "<=", ">", ">="}
Calculated == {"fn f(a, b, c) { return a " \o p \o " b " \o q \o " c } print(f(7, 3, 2), f(12, 5, 5))" : p, q \in Operators}
Grouped == {"fn f(a, b, c) { return a " \o p \o " (b " \o q \o " c) } fn g(a, b, c) { return (a " \o p \o " b) " \o q
            \o " c } print(f(7, 3, 2)); print(g(7, 3, 2))" : p, q \in Operators}
\* Every operator in assignments to a local, a parameter and a global through a closure.
Updated == {"let g = 9; fn f(a) { let l = a; fn u() { l = l " \o p \o " g; g = g " \o p \o " 2; a = a " \o p
            \o " l; return [l, g, a] } u(); return u() } print(f(7))" : p \in {"+", "-", "*", "%", "&", "|", "^"}}
\* Every pair of conditions, in a loop and a branch.
Conditions == {"a < b", "a == b", "a % 2 == 0", "!(a >= b)", "a <= b", "b >= a", "c", "b != 3"}
Decided == {"fn f(a, b, c) { let t = 0; while (" \o p \o j \o q \o ") { a = a + 1; if (" \o q
            \o ") { t = t + 10 } else { t = t - 1 } if (a > 5) { break } } return t } print(f(1, 3, nil), f(4, 2, true))" :
               p, q \in Conditions, j \in {" and ", " or "}}
\* Every kind of loop around every pair of statements, but for the pairs that the
\* README lists: a jump out of the iteration behind a captured variable, and a break
\* before a switch.
Heads == {"for (let i = 0; i < 4; i = i + 1) {", "for i in 0..3 {", "let i = -1; while (i < 3) { i = i + 1;"}
Continuing == " if (i == 1) { continue } "
Breaking == " if (i == 2) { break } "
Capturing == " let k = i * 2; fs[n] = fn() { k = k + 1; return k }; n = n + 1; "
Choosing == " switch (i) { case 1: t = t + 7 default: t = t + 9 } "
Plainly == {" t = t + i; ", " try { if (i == 1) { throw 'o' } t = t + 1 } catch (e) { t = t + 5 } ", " { let k = t; t = k + 1 } "}
Iterations == ({Continuing, Breaking, Capturing, Choosing} \union Plainly) \X ({Continuing, Breaking, Capturing, Choosing} \union Plainly)
         \ {<<Capturing, Continuing>>, <<Capturing, Breaking>>, <<Breaking, Choosing>>}
Looped == {"fn f() { let t = 0; let n = 0; let fs = []; " \o h \o p[1] \o p[2]
           \o "} for g in fs { t = t + g() } return t } print(f())" : h \in Heads, p \in Iterations}

\* The functions on arrays and strings: what they do to shared arrays, and at and
\* beyond the ends of what they are given.
Standard == {
  "let a = [3, 1]; let b = a; push(a, 'x'); unshift(b, nil); print(pop(a), shift(b), a, pop([]), shift([]))",
  "let a = [1, 2, 3]; insert(a, 1, 'i'); insert(a, -5, 's'); insert(a, 99, 'e'); print(a, remove(a, 0), remove(a, -1), remove(a, 9), a)",
  "let a = [5, 'b', nil, 2, true, 'a', false, 5]; let b = sort(a); print(b, index_of(a, 5), index_of(a, 6), reverse([]), reverse(b))",
  "let a = ['b', 'a', 'ab', 'a']; print(sort(a), unique(a), index_of(a, 'a'), contains(a, 'ab'), contains(a, 'c'))",
  "let a = [1, [2, [3]], [], 'x']; print(flatten(a), concat_arrays(a, 7, [8], []), concat_arrays(), len(flatten([a, a])))",
  "let a = [1]; let b = fill(a, 2); push(b[0], 2); print(a, b, fill(0, -1), clear(a), b, unique([a, a, [1]]))",
  "print(replace('aXbXX', 'X', 'XY'), replace('aaa', 'aa', 'b'), replace('ab', '', 'c'), replace('ab', 'b', ''), replace('b', 'b', 'bb'))",
  "print(split('a,b,,c', ','), split('abc', ''), split('', ','), split('aaa', 'aa'), join(['a', 1, nil], '--'), join([], 'x'), join(split('1-2', '-'), '+'))",
  "print(contains('abc', 'bc'), contains('abc', ''), contains('a', 'ab'), contains({'k': 1}, 'k'), contains({'k': 1}, 1), contains(5, 5), contains('a', 1))",
  "print(type(1), type('a'), type(nil), type([]), type({'k': 1}), type(len), type(fn() { 1 }), abs(-4), to_string(12), concat('a', 1, nil), concat())",
  "class K { init() { this.a = 1 } } enum E { A } let k = K(); print(type(k), type(K), type(E.A), len(nil), push(1, 2), pop('a'), abs('x'), index_of('a', 'a'))",
  "print(len(1, 2), slice(1, 2), substr('a'), range('a', 1), split('a', 1), join('a', 'b'), insert([1], 'a', 2), every([1]), some(1, len), type())",
  "print(min(3, -1, 'a'), max(3, 'b', 9), min(nil, 1), max(), clamp(5, 1, 3), clamp(-5, 1, 3), clamp(2, 3, 1), clamp(1, 2), sign(-7), sign('a'), sign(0), sign(4))",
  "print(every([1, 2], abs), every([], abs), every([nil, 2], len), some([nil, 'a'], len), some([0], abs), some([], abs), every([1, 2], print))",
  "print(every([], fn(x) { x }), some([], fn(x) { x }), every([1], 5), every([[1], [2]], pop), some([[], ['a']], pop))",
  "fn last(a) { return pop(a) } fn f(a) { return every(a, type) } print(last([1, 2]), f([1]), f([])); return 0",
  "let a = [1]; let g = [push, a]; g[0](a, 5); fn h() { return push(a, 6) } h(); signal s = a; push(s, 7); print(a, len(s))" }
Windowed == {"for j in -4..4 { print(slice([1, 2, 3], " \o i \o ", j), substr('abc', j, " \o i \o "), range(" \o i \o ", j, 2)) }" :
                 i \in {"-4", "-3", "-1", "0", "1", "2", "4"}}
Stepping == {"for j in -3..3 { print(range(1, j, " \o i \o "), slice([1, 2, 3], j), substr('abc', j), remove([1, 2], j)) }" :
                 i \in {"-2", "-1", "0", "1", "3"}}

\* The files that the programs include.
Library == ("lib" :> "fn twice(x) { return x * 2 }")
        @@ ("dir/a" :> "include 'b'; print('a')")
        @@ ("dir/b" :> "fn both(x) { return [x, twice(x)] }")

Texts == Basics \union Data \union Functions \union Classes \union Errors \union Switches \union FilesAndSignals
         \union Rejected \union Widened \union Calculated \union Grouped \union Updated \union Decided \union Looped
         \union Standard \union Windowed \union Stepping

\* docs/operators.md:201: in a + b, this is a and the parameter is b.
OneOverload == {"class V { init(x) { this.x = x } __add(o) { return V(this.x + o.x) } } let a = V(1); print((a + V(10)).x)"}
\* src/src/vm/native.cpp:303: this is true, and the program goes on to its end.
Callback == {"print(every([1, 2], fn(x) { return x < 5 })); print('end')"}
\* docs/language.md:325: a break stops the loop.
BreakSwitch == {"for i in 0..3 { if (i == 2) { break } switch (i) { case 1: print('one') default: print(i) } }"}
\* include/akar/common/opcodes.h:104: ADD_IMM stands for a load and an addition.
Doubled == {"fn f() { let x = 5; let y = x + x; return y } print(f())"}
\* src/src/compiler/codegen.cpp:110: the code of every function ends in a return.
OpenEnded == {"fn f(c) { if (c) { return 1 } } print(f(false))"}
\* docs/language.md:46: y = 5 is an error where y was not declared.
Undeclared == {"fn f() { y = 5; return y } print(f())"}
\* docs/operators.md:23: every a + b first checks the types of its operands.
TwoTypes == {"fn f(a, b) { return a + b } print(f(1, 2)); print(f('a', 'b'))"}
=============================================================================
