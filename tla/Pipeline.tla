------------------------------ MODULE Pipeline ------------------------------
(* A program's way from its text to its result, as src/src/vm_main.cpp and
   src/src/compiler_main.cpp take it: lex and parse, generate code one top-level
   statement at a time, optimise it in passes, run it at once or by way of an
   object file, and execute it one instruction at a time.  The two recursive
   stages are parameters, and so are the two references they are held against. *)
EXTENDS CodeGen, Peephole, Interpreter, ObjectFile

CONSTANTS Sources,         \* the texts of the programs
          Budget,          \* more instructions than any of them may take
          TreeOf(_),       \* lexer and parser: the tree of a text
          Generated(_, _), \* code generator: the scope after a statement
          ShortestText(_), \* the shortest text of a tree
          Meaning(_)       \* what statements print and the error they end with

VARIABLES source,      \* the text of the program
          phase,       \* what has been done with it
          tree,        \* its tree
          todo,        \* its statements that are not compiled yet
          scope,       \* the script's CompilerScope and the CodeGenerator
          fns,         \* the compiled functions, the script last
          file,        \* the object file
          strip,       \* whether the file was written without symbols
          m,           \* the virtual machine
          steps        \* the instructions it has executed

vars == <<source, phase, tree, todo, scope, fns, file, strip, m, steps>>
Idle == [status |-> "idle"]

Init ==
    /\ source \in Sources
    /\ phase = "text"
    /\ tree = None /\ todo = <<>> /\ fns = <<>> /\ file = <<>> /\ strip = FALSE
    /\ scope = NewScope(NewGenerator, <<>>)
    /\ m = Idle /\ steps = 0

\* Lexer::tokenize and Parser::parse_program; a syntax error ends everything.
ReadText ==
    /\ phase = "text"
    /\ tree' = TreeOf(source)
    /\ phase' = IF tree' = None THEN "rejected" ELSE "parsed"
    /\ todo' = IF tree' = None THEN <<>> ELSE tree'[2]
    /\ UNCHANGED <<source, scope, fns, file, strip, m, steps>>

\* CodeGenerator::compile: a statement of the script, and its end.
CompileStatement ==
    /\ phase = "parsed" /\ todo # <<>>
    /\ scope' = Generated(Head(todo), scope)
    /\ phase' = IF scope'.g.err THEN "rejected" ELSE phase
    /\ todo' = Tail(todo)
    /\ UNCHANGED <<source, tree, fns, file, strip, m, steps>>
CompileEnd ==
    /\ phase = "parsed" /\ todo = <<>>
    /\ fns' = Append(scope.g.protos, Script(scope))
    /\ phase' = Passes[1]
    /\ UNCHANGED <<source, tree, todo, scope, file, strip, m, steps>>

\* A pass of peephole_optimize over every function.
Optimize ==
    /\ \E k \in DOMAIN Passes :
           /\ phase = Passes[k]
           /\ phase' = IF k < Len(Passes) THEN Passes[k + 1] ELSE "compiled"
           /\ fns' = [i \in DOMAIN fns |-> [fns[i] EXCEPT !.code = Pass(phase, @)]]
    /\ UNCHANGED <<source, tree, todo, scope, file, strip, m, steps>>

\* akarc and akarc --release write an object file, which akar reads.
SaveFile ==
    /\ phase = "compiled"
    /\ strip' \in BOOLEAN
    /\ file' = WriteFile(fns, Len(fns), strip', scope.g.idents, scope.g.literals)
    /\ phase' = "saved"
    /\ UNCHANGED <<source, tree, todo, scope, fns, m, steps>>
LoadFile ==
    /\ phase = "saved"
    /\ fns' = ReadFile(file)
    /\ phase' = "loaded"
    /\ UNCHANGED <<source, tree, todo, scope, file, strip, m, steps>>

\* run_function, then an instruction of run().
Start ==
    /\ phase \in {"compiled", "loaded"}
    /\ m' = Started(fns, Len(fns))
    /\ phase' = "running"
    /\ UNCHANGED <<source, tree, todo, scope, fns, file, strip, steps>>
Step ==
    /\ phase = "running"
    /\ m' = Stepped(m)
    /\ steps' = steps + 1
    /\ phase' = IF m'.status = "run" THEN "running" ELSE "done"
    /\ UNCHANGED <<source, tree, todo, scope, fns, file, strip>>

Next == \/ ReadText \/ CompileStatement \/ CompileEnd \/ Optimize
        \/ SaveFile \/ LoadFile \/ Start \/ Step
Spec == Init /\ [][Next]_vars

(* ------------------------------- Properties ------------------------------ *)

\* The tree that was read, written with the fewest parentheses and blanks and read
\* again, is the same tree: precedence, associativity and token boundaries.
RoundTrip == phase = "parsed" /\ todo = tree[2] => TreeOf(ShortestText(tree)) = tree

\* The offsets that control can reach from those in ps.
RECURSIVE Reach(_, _)
Reach(code, ps) ==
    LET all == ps \union UNION {Follow(code, p) : p \in ps \intersect Starts(code)}
    IN IF all = ps THEN ps ELSE Reach(code, all)

\* Wherever control can go in a function, an instruction starts there: no jump leads
\* into or over one, between the passes and after the last, which moves all code,
\* and no path runs off the end.
JumpsLand ==
    phase \in Range(Passes) \union {"compiled"} =>
        \A f \in Range(fns) :
            Encoded(f.code) /\ Reach(f.code, {0}) \subseteq Starts(f.code)

\* The last pass moves code and changes nothing else: an instruction that is left does
\* what it did, and goes on where the instructions behind it, or at its target, are now.
\* Code with wide instructions that moves is not adjusted so (codegen.cpp:1882).
PathsKept == [][phase = "compact" =>
                    \A i \in DOMAIN fns :
                        Unwidened(fns[i].code) => SamePaths(fns[i].code, fns'[i].code)]_vars

\* The registers that the instruction in slot s reads or writes, but for the two
\* behind the result in which an overloaded operator passes its operands: those may
\* lie behind the window, where the frame that is pushed there takes them.
ABC == DOMAIN Quickened \union DOMAIN Plain \union DOMAIN PlainCompare \union
       {"LT", "LTE", "GT", "GTE", "EQ", "NEQ", "ADD_STR", "MOD_EQ_ZERO", "BIT_AND", "BIT_OR",
        "BIT_XOR", "SHL", "SHR", "GET_INDEX", "SET_INDEX", "NEW_RANGE"}
AB == {"MOVE", "NEG", "NOT", "BIT_NOT", "GET_FIELD", "ITER_INIT", "ITER_NEXT", "ITER_DONE", "ADD_IMM",
       "SIGNAL_CREATE", "SIGNAL_GET", "SIGNAL_SET", "EFFECT_CREATE"} \union Fused
Touched(s) ==
    CASE s[1] \in ABC -> {s[2], s[3], s[4]}
      [] s[1] \in AB -> {s[2], s[3]}
      [] s[1] = "SET_FIELD" -> {s[2], s[4]}
      [] s[1] \in {"CALL", "TAIL_CALL"} -> s[2]..(s[2] + s[3])
      [] s[1] \in {"JMP", "TRY_END", "WIDE", "NOP"} -> {}
      [] OTHER -> {s[2]}
\* A function's register_count covers every register its code touches: a call clears
\* and reserves that many, and the frame above begins behind them.
WithinFrame ==
    phase = "compiled" =>
        \A f \in Range(fns) : \A s \in Range(f.code) : \A r \in Touched(s) : r < f.regs

\* The open upvalues are sorted by their registers, and those are below the end of
\* the window of the frame on top: a frame that is left has closed its own.
OpenUpvaluesLive ==
    phase = "running" =>
        LET locs == [i \in DOMAIN m.open |-> m.heap[m.open[i]].loc]
        IN /\ \A i \in 1..(Len(locs) - 1) : locs[i] > locs[i + 1]
           /\ \A i \in DOMAIN locs : locs[i] < Base(m) + m.protos[Frame(m).p].regs

\* The statements ss of a file in the directory base, with those of an included file
\* in the place of its first include.
RECURSIVE Spliced(_, _, _)
Spliced(ss, base, seen) ==
    LET p == (IF base = "" THEN "" ELSE base \o "/") \o Head(ss)[2]
        inner == CHOOSE d \in (IF Directory(p) = {} THEN {base} ELSE Directory(p)) : TRUE
        own == IF Head(ss)[1] # "include" THEN [ss |-> <<Head(ss)>>, seen |-> seen]
               ELSE IF p \in seen THEN [ss |-> <<>>, seen |-> seen]
               ELSE Spliced(TreeOf(Files[p])[2], inner, seen \union {p})
        rest == Spliced(Tail(ss), base, own.seen)
    IN IF ss = <<>> THEN [ss |-> <<>>, seen |-> seen]
       ELSE [ss |-> own.ss \o rest.ss, seen |-> rest.seen]

\* Compiled, optimised, stored and run, a program prints what it means, and ends
\* with the error that it means to end with.  A file without symbols has lost the
\* names of the methods that overload operators, which the VM looks up by them.
Overloads == scope.g.idents \intersect Range(Magic) # {}
SameResult ==
    phase = "done" /\ ~(strip /\ Overloads) =>
        m.status # "wild" /\ [out |-> m.out, err |-> m.err] = Meaning(Spliced(tree[2], "", {}).ss)

\* An object file with its symbols holds the functions that were written.
FileKeepsFunctions == [][phase = "saved" /\ ~strip => fns' = fns]_vars

\* Every program comes to its end: no jump of the compiled code closes a loop that
\* the program does not have.
Ends == steps < Budget
=============================================================================
