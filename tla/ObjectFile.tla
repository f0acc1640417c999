----------------------------- MODULE ObjectFile -----------------------------
(* Object files: src/src/vm/object_file.cpp.  A file is a record of its sections,
   a section a sequence of fields; a field of 8 or 16 bits keeps its value modulo
   2^8 or 2^16.  The function that runs first is written across the sections, all
   others inside the constants of the functions that create them.  Opening,
   headers and offsets are left out, and with them the failures to read.     *)
EXTENDS Text, TLC
LOCAL INSTANCE SequencesExt

U8(n) == n % 256
U16(n) == n % 65536

\* collect_all_strings: in the order in which they are first met.
RECURSIVE StringsOf(_, _, _)
StringsOf(fs, consts, found) ==
    FoldLeft(LAMBDA acc, v :
                 CASE v[1] = "str" -> IF v[2] \in ToSet(acc) THEN acc ELSE Append(acc, v[2])
                   [] v[1] = "proto" -> StringsOf(fs, fs[v[2]].consts, acc)
                   [] OTHER -> acc,
             found, consts)
IndexIn(strings, x) == (CHOOSE i \in DOMAIN strings : strings[i] = x) - 1
Bit(b) == IF b THEN 1 ELSE 0

\* serialize_value; strings is the table before any name in it is hashed.
RECURSIVE Serialized(_, _, _, _)
\* Mutant: the flag of variadic functions is not written.
FunctionHead_NoVarargs(f, strip) ==
    <<IF strip THEN Hashed(f.name) ELSE f.name, U16(f.arity), U16(f.regs), 0>>
FunctionHead(f, strip) ==
    <<IF strip THEN Hashed(f.name) ELSE f.name, U16(f.arity), U16(f.regs), Bit(f.varargs)>>
Serialized(fs, v, strings, strip) ==
    LET f == fs[v[2]]
        ups == [i \in DOMAIN f.ups |-> <<U8(f.ups[i][1]), Bit(f.ups[i][2])>>]
        consts == [i \in DOMAIN f.consts |-> Serialized(fs, f.consts[i], strings, strip)]
    IN CASE v[1] = "nil" -> <<0>>
         [] v[1] = "bool" -> <<1, Bit(v[2])>>
         [] v[1] = "num" -> <<2, v[2]>>
         [] v[1] = "str" -> <<3, 0, IndexIn(strings, v[2])>>
         [] v[1] = "proto" ->
                <<3, 1>> \o FunctionHead(f, strip) \o <<Len(ups)>> \o FlattenSeq(ups)
                \o <<Len(consts)>> \o FlattenSeq(consts) \o <<Len(f.code)>> \o f.code

\* collect_strings: a stripped file hashes the names that are no literals.
StringTable(strings, strip, idents, literals) ==
    [i \in DOMAIN strings |->
        IF strip /\ strings[i] \in idents \ literals THEN Hashed(strings[i]) ELSE strings[i]]
WriteFile(fs, entry, strip, idents, literals) ==
    LET strings == StringsOf(fs, fs[entry].consts, <<>>)
        consts == fs[entry].consts
    IN [strings |-> StringTable(strings, strip, idents, literals),
        constants |-> <<Len(consts)>> \o
            FlattenSeq([i \in DOMAIN consts |-> Serialized(fs, consts[i], strings, strip)]),
        bytecode |-> fs[entry].code,
        functions |-> FunctionHead(fs[entry], strip)]

(* deserialize_value: reading r gives the value, the rest of r and the functions
   fs with those that were read; a function follows the ones it creates.      *)
Taken(v, r, fs) == [v |-> v, r |-> r, fs |-> fs]
RECURSIVE ReadValue(_, _, _), ReadValues(_, _, _, _, _)
ReadValues(n, r, strings, fs, done) ==
    LET p == ReadValue(r, strings, fs)
    IN IF n = 0 THEN Taken(done, r, fs) ELSE ReadValues(n - 1, p.r, strings, p.fs, Append(done, p.v))
ReadFunction(r, strings, fs) ==
    LET n == r[5]
        ups == [i \in 1..n |-> <<r[4 + 2 * i], r[5 + 2 * i] # 0>>]
        after == SubSeq(r, 6 + 2 * n, Len(r))
        p == ReadValues(after[1], Tail(after), strings, fs, <<>>)
        f == [name |-> r[1], arity |-> r[2], regs |-> r[3], varargs |-> r[4] # 0, ups |-> ups,
              consts |-> p.v, code |-> SubSeq(p.r, 2, p.r[1] + 1)]
    IN Taken(<<"proto", Len(p.fs) + 1>>, SubSeq(p.r, p.r[1] + 2, Len(p.r)), Append(p.fs, f))
ReadValue(r, strings, fs) ==
    LET rest(n) == SubSeq(r, n + 1, Len(r))
    IN CASE r[1] = 1 -> Taken(<<"bool", r[2] # 0>>, rest(2), fs)
         [] r[1] = 2 -> Taken(<<"num", r[2]>>, rest(2), fs)
         [] r[1] = 3 /\ r[2] = 0 -> Taken(<<"str", strings[r[3] + 1]>>, rest(3), fs)
         [] r[1] = 3 /\ r[2] = 1 -> ReadFunction(rest(2), strings, fs)
         [] OTHER -> Taken(<<"nil">>, rest(1), fs)

\* ObjectFileReader::read: the functions of the file, the first one to run last.
ReadFile(file) ==
    LET p == ReadValues(file.constants[1], Tail(file.constants), file.strings, <<>>, <<>>)
        h == file.functions
    IN Append(p.fs, [name |-> h[1], arity |-> h[2], regs |-> h[3], varargs |-> h[4] # 0, ups |-> <<>>,
                     consts |-> p.v, code |-> file.bytecode])
=============================================================================
