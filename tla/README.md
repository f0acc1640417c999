# AkarScript: specification and proofs

This directory models AkarScript in TLA+: the way of a program from its text
through lexer, parser, code generator, peephole passes and object file to the
bytecode interpreter and its native functions, and the parts of the virtual
machine whose difficulty is what interleaves: the garbage collector, signals and
effects, the register stack with call frames and fibers, and exceptions. TLC checks
the modules on small instances; TLAPS proves the central invariants of the virtual
machine for every value of the constants. Paths below are those of the
repository; `vm.cpp` is `src/vm/vm.cpp`, `codegen.cpp` is `src/compiler/codegen.cpp`,
and so on.

## 1. The system

AkarScript compiles source text to 4-byte register instructions and runs them in
one interpreter loop, `VM::run`. There are no threads. What interleaves is: the
program with the incremental collector, which works at loop back-edges; the
program with effects, which the dispatch macro runs between any two
instructions; frames with the native functions, effects and fibers that are
pushed on top of them; the host with the programs it starts.

| Part | State | Operations | Interacts with |
|---|---|---|---|
| Garbage collector (`common/value.cpp`, `VM::mark_roots`, `collect_garbage`, `gc_step`) | `g_all_objects`, mark bits, gray stack, `g_gc_marking`, `gc_phase_` | allocate, mark, trace, sweep, barriers | every instruction that stores a reference; roots are registers, frames, globals, open upvalues, queues |
| Signals and effects (`SIGNAL_*`, `EFFECT_*`, `RETURN`, drain loop) | `effect_queue_`, `current_effect_`, `effect_frame_depth_`, `write_generation_`, and per effect state, dirty, reruns, dependencies; per signal subscribers | create, get, set, run, finish, drain | call frames (bodies are frames), exceptions, host writes |
| Register stack, frames (`CALL`, `TAIL_CALL`, `RETURN`, `call`, `call_native`) | `stack_`, `stack_top_`, `frames_`, `frame_count_` | push, pop, replace a frame | everything that pushes: effects, fibers, natives |
| Fibers (`HANDLE_FIBER_YIELD`, fiber cases of `CALL`, `native.cpp`) | `active_fiber_`, per fiber state, parent, `frame_base`, saved stack and frames | create, resume, yield, finish | the register stack, upvalues, exceptions |
| Exceptions (`TRY_*`, `THROW`, `throw_to_catch`) | `try_frames_`, `try_count_` | push, pop, unwind | frames, upvalues, effects, fibers |
| Closures and upvalues | `open_upvalues_`, cells | capture, get, set, close | frames, fibers, collector |
| Native functions (`native.cpp`) | none of their own | strings, maths, arrays, maps, fibers, callbacks | collector, stack, interpreter (`call_function`) |
| Lexer, parser | position in the text | tokens, tree | code generator |
| Code generator (`codegen.cpp`) | per function: scopes, locals, upvalues, types, registers, break and continue jumps, bytecode; shared: constants, included files | compile a statement, a function, an include; emit narrow or WIDE instructions; patch jumps | parser (includes), the VM's stack discipline |
| Peephole passes | the bytecode of one function | fuse, drop, move code, adjust jumps | the interpreter's fused instructions |
| Bytecode interpreter (`VM::run`) | registers, frames, open upvalues, try frames, globals, heap; the code itself, as it is quickened | one handler per opcode, and again behind WIDE | all other parts of the VM |
| JIT, traces | compiled code, counters | compile, execute, bail out | frames, signals |
| Object file | byte stream | write, read | functions and constants |
| Profiler | call records | record call, return | frames |
| Host API | sessions | compile, run, set and get globals | VM |
| SmallVec, NaN-boxed values | inline or heap buffer; 64-bit words | vector operations; tag tests | everything |
| System natives, SSL, REPL, executables | operating system handles | input and output | none of the above |

### What is hard, and what must hold

- *Collector*: the program changes the heap between two steps. Nothing reachable
  may be freed (`NoDangling`); a black object never points to a white one
  (`TriColour`); garbage is freed at the end of the cycle that began after it
  became garbage (`DeadIsFreed`); and a program cannot tell that there is a
  collector (`CollectorUnseen`). `gc_step` runs in one of 128 turns of loops and
  traces 64 objects, while every object that is made meanwhile is gray: a
  cycle must end all the same (`CycleEnds`), and the memory limit must not be
  met by a program that holds little (`LimitKept`).
- *Signals and effects*: an effect writes what it reads, effects trigger and
  nest in one another, are cut short by exceptions and native tail calls, the
  generation counter wraps, the host writes. Subscriptions and queue must stay
  consistent (`LinksAgree`, `QueueMatchesState`), no effect is entered twice
  (`NoReentry`), no write is lost (`RestingIsFresh`, `EffectsFollowSignals`),
  reads are attributed to the right effect (`CurrentIsOwner`), and the program
  gets on (`ProgramReturns`).
- *Stack and fibers*: `stack_top_` is one number that calls, natives, effects and
  fibers set by different rules. A frame must find its registers as it left
  them (`RegistersIntact`), frames must not overlap (`CallersBelow`), and control
  must get back to the resumer of a fiber (`FiberChain`).

- *Exceptions*: one array of handlers serves every call and every fiber, and
  nothing but the end of a block and an exception takes a handler off. An
  exception must find the handler of the innermost open try block on top
  (`HandlersAreOpen`), so that the array implements what the language promises
  lexically (`LexicalHandlers`); an exception drops frames, and the active fiber
  must keep its own (`FiberOnStack`).

- *Compiler and interpreter*: precedence and token boundaries (`RoundTrip`);
  registers that are allocated as a stack under nested expressions
  (`WithinFrame`); jumps that are patched, fused, and moved over instructions of
  two lengths (`JumpsLand`, `PathsKept`, `Ends`); captured registers that must be closed on
  every way out (`OpenUpvaluesLive`); names and functions that must survive
  an object file (`FileKeepsFunctions`). Each part relies on the others, and a
  mistake mostly shows as a wrong value somewhere else, so the main property is of
  the whole: every program prints and fails as its tree means (`SameResult`).

`PROJECT.json` lists every hazard at its line, those no property covers yet too.

## 2. Modules

| Module | Models | Extends, instances | Proofs |
|---|---|---|---|
| `Memory` | abstract: what a program sees of its heap | | |
| `Gc` | collector and mutator | `Memory` (refinement) | `GcProofs`, `MemoryProofs` |
| `Pacing` | when the collector is called, and whether it keeps up, in numbers of objects | | model-checked |
| `Reactive` | signals, effects, queue, frames, one try block, failed programs, host writes | | `ReactiveProofs`, `EffectProofs` |
| `Stack` | registers, frames, native calls, effects, fibers | | `StackProofs`, `FiberProofs` |
| `Handlers` | abstract: what try, catch and throw promise | | |
| `Exceptions` | the handler array, frames, fibers, failed programs | `Handlers` (refinement) | `ExceptionsProofs` |
| `Text`, `Lexer`, `Parser` | characters, tokens, productions | each the one before (`Parser` alone) | |
| `CodeGen` | `CodeGenerator`: from trees to bytecode | `Lexer`, `Parser` (includes) | |
| `Peephole` | the four passes over bytecode | | `PeepholeProofs` |
| `ObjectFile` | `ObjectFileWriter`, `ObjectFileReader` | `Text` | |
| `Values`, `Natives` | values; native functions on strings, arrays and numbers | `Text` | |
| `Machine`, `Interpreter` | the handlers of `VM::run`; collections, classes, WIDE and the step | `Natives`, `Machine` | |
| `Pipeline` | the composition: a program from text to result, as a state machine | `CodeGen`, `Peephole`, `Interpreter`, `ObjectFile` | model-checked |
| `Grammar` | abstract: the shortest text of a tree | `Lexer` | |
| `Meaning`, `StandardLibrary` | abstract: what a program does, by recursion on its tree; what the documentation promises of the native functions | `Values` | |
| `MCGc`, `MCReactive`, `MCStack`, `MCExceptions`, `MCPipeline` | instances for TLC: symmetry and sets of programs | one each | |

In `Gc`, `Stack` and `Exceptions` a constant `Programs` says which kinds of
programs there are, each by the features it uses; a behaviour picks one at its
start (variable `program`) and keeps it. A property that only holds of some
programs is checked on those and refuted on the others, and the proofs assume
of `Programs` what they need.

### Gc

An object has a `type` and a set `refs` of references, which is what
`gc_trace_references` would mark for it. All root slots are one set `roots`;
`table` is the string table, whose strings are never released. Mutator actions
are `Allocate`, `Intern`, `Load` (a field is read into a register), `Store` and
`Take` (into and out of arrays, maps and instances, with the barrier),
`SignalSet`, `UpvalueSet` and `FiberYield` (which store without one) and `Drop`
of a register. Collector actions are the phases of `gc_step` (`StepBegin`,
`StepResume`, `Trace`, `StepPause`, `StepRemark`, `Sweep`) and of
`collect_garbage` (`FullBegin`, `Trace`, `Sweep`). `gcpc` keeps the program out
while either function runs. Byte counters only say when a cycle starts; a cycle
may start at any back-edge here (`Pacing` has the counters). A program has `types`, the
objects it uses; `loops`, as `gc_step` is called at back-edges only, so that a program
without loops meets full collections alone; and `constructs`, whether it has classes
with constructors. `mark_roots` scans the stack up to `stack_top_`, and a
constructor's call raises that by one for good (vm.cpp:1219): what earlier
calls have left above the stack (`popped`) may then be below `stack_top_` again, without
belonging to any frame (`stale`), and is among the roots. In a program
without constructors every slot below `stack_top_` belongs to a frame and both sets
are empty. `doomed` is history: what was unreachable when the current cycle began.

`Memory` is a memory without a collector: no marks, phases or free list. It knows the
objects that registers, globals and the string table lead to, with their types and
references, and forgets at once what they no longer lead to; a new object is one it
does not know. The refinement mapping restricts `type` and `refs` to `Reachable`.
`Allocate` and `Intern` map to `New` and `Intern`, `Load`, `Drop` and `Take` to their
namesakes, `Store`, `SignalSet` and `UpvalueSet` to `Write`, `FiberYield` to `Park`;
barriers and all actions of the collector map to no step.

### Pacing

The heap of `Gc` is reduced to how many objects are white, gray and black, how many the
program holds and how many white ones marking may still reach (`due`). The program
allocates, drops and stores; `BackEdge` is a jump back with `CHECK_MEMORY_LIMIT`, which
calls `gc_step` once in `Period` turns (`Skip` below the threshold, else `Begin` or
`Resume`, then `Trace` up to `MarkWork` objects and `Pause`, `Remark` or `Sweep`), and
`CheckLimit`. How many objects one that is traced leads to, and what is dropped,
is any number that the counts allow. Every object is one unit of
`g_allocated_bytes`. `made` is history: what has been allocated since the last
`gc_step`.

### Reactive

A frame runs the main program, the body of an effect or a helper function, and
executes any instructions up to its fuel. The dispatch macro drains the queue
before every instruction, so instructions require an empty queue and `Drain`
requires a non-empty one. `Enter` is what `EFFECT_RUN` and the drain loop share;
`Finish` is the block of `RETURN` that ends an effect. The order in which
subscribers of one signal are queued depends on swap-removal and is left open.
`TailNative`, `Throw`, `Fail` and `HostSet` are the ways around `RETURN` and
`SIGNAL_SET`. After `Fail` the host runs its next program on the frames that are left
(`Interpret`), and when that one is done the instructions of those frames follow.
`read`, `stale`, `hosted` and `gaveUp` are history: what an effect has read, what
was written since, whether the host wrote it, and which effects the rerun limit
dropped. Subscriber and dependency vectors are sets: `SIGNAL_GET` looks for a
duplicate before it appends.

### Stack

A value is named after the register it was written to, so a register that was
overwritten, lost or moved to a wrong place shows. The compiler allocates the
registers of a frame from the bottom and a call goes to the next free slot;
`live` counts the allocated ones. Each action is one way of moving
`stack_top_`: `Call`, `CallNative`, `TailCall`, `Return`, `TailNative`,
`RunEffect`, `ResumeCreated`, `ResumeSuspended`, `ResumeRunning`, `Yield`. The
features of a program are `"natives"`, `"natives in fibers"`, `"native tails"`,
`"effects"`, `"fibers"`, `"nested fibers"` and `"helpers yield"`.

### Handlers and Exceptions

`Handlers` has no handlers. A call is a place, the code it runs and the number of
try blocks open around it, and an exception goes to the latest call that has
one open. `Exceptions` has what the VM has: `frames`, `handlers` (`try_frames_`:
the frame count and the catch block, named by the activation whose code it is in
and the blocks around it), `active_fiber_` and the fibers. A frame is `id` (its
closure and registers), `code` and `open` (where its instruction pointer is)
and `entry` (pushed by `run_function`).
A runtime error goes through `throw_to_catch`, as an exception does, so both are
`Throw`, or `Fail` without a handler; `Interpret` after a `Fail` starts on the
frames that were left, and `NewVM` is a host that makes a new VM instead. The
features of a program are `"leave"` (return, break or continue inside a try
block), `"fibers"`, `"yield"` (inside a try block), `"escape"` (exceptions leave
fibers) and `"again"` (a program after a failed one).

The refinement mapping takes `stack` to the places of `frames` while a program
runs, and to the empty sequence otherwise, and `parked` to the places of the
frames that each suspended fiber has saved. Steps map as follows: `Interpret`,
`Call`, `ResumeCreated` to `Call`; `TailCall`, `Return`, `Throw`, `Fail` to their
namesakes; `TryBegin` to `Enter`; `TryEnd` to `Leave`; `Yield` to `Suspend`,
`ResumeSuspended` to `Resume`, `NewVM` to `Discard`. It holds for the programs
of `Promised`: structured (neither `"leave"` nor `"yield"`) and not `"again"`.

### Pipeline and its stages

`Pipeline` is the state machine of `vm_main.cpp` and `compiler_main.cpp`.
`ReadText` lexes and parses `source`; `CompileStatement` compiles one top-level
statement and `CompileEnd` ends the script; `Optimize` is one peephole pass over all
functions; `SaveFile` and `LoadFile` go through an object file, with symbols or
without (`strip`); `Start` and each `Step`, one instruction, execute. `phase` says
what comes next. A text that is rejected by the parser or the generator ends
in `"rejected"`.

- *Parser*: one operator per production, which takes the tokens left and gives a
  tree and the tokens left after it. An error throws out of `parse_program`, so it
  leaves `Bad`, which nothing consumes.
- *CodeGen*: an operator per `compile_...` method, from a `CompilerScope` to a
  `CompilerScope`; the scope of an enclosing function is inside it (`outer`), what all
  functions share is `g`. Code is a sequence of 4-byte slots `<<op, a, b, c>>`; a WIDE
  instruction is two. Offsets count slots, so an offset of the code is a quarter
  of that in the source.
- *Peephole*: passes 1 to 4 of `peephole_optimize`. Their candidates are pairs of
  neighbours that cannot overlap, so a pass is a function on code and not a loop.
- *Machine, Interpreter*: an operator `Do...` per handler, from the VM's state `m`
  to the next; `Stepped` fetches and dispatches. Opcodes that quicken rewrite
  themselves in `m.protos`. Frames have the two instruction pointers of the code:
  the local one of `run()` (`ip`) and the one stored at calls (`kept`), which is where a
  nested `run()` begins (`CallBack`). Handlers behind WIDE are those of the source, not
  the narrow ones with wider operands: they check other things. Where the code
  reads or calls what is not there (`status = "wild"`), anything may follow, and no
  property but failure is claimed.
- *Natives*: an operator per family of native functions; `Takes` and `Fits` are the
  checks of arguments at their heads.
- *Meaning*: cells, environments and completions; no registers, bytecode or stack.
  Where the documentation is silent it follows the order of the tree, and where the
  code differs from it, it follows the documentation: a name is declared before it
  is assigned.

The recursive stages reach `Pipeline` as constant operators (`TreeOf`, `Generated`,
`Native`), and so do the two references (`ShortestText`, `Meaning`): they are what
`Pipeline` is held against and not a part of it, and TLC counts the evaluations of a
recursive operator per path through the actions, of which there would be too many.

To validate the translation, the programs of `MCPipeline`, 826 of them with 1885
functions, were also compiled by the real code generator with its limit of 255
narrow operands lowered to 15: all bytecode agrees with that of the
model. The programs of native functions, and the ones of the table of
divergences below, were run by the real interpreter: it prints what the model prints.

What is abstracted: doubles are integers (no program divides without an exact
result); a message is its cause and the line numbers and wording are left out; maps,
fields and globals are functions, so nothing depends on the order of a hash
table; symbols have distinct hashes; files can be opened. The JIT, profiler and
collector are left out, and so are effects and fibers, which `Reactive`, `Stack` and
`Exceptions` model with the rest of the VM abstracted; `ENUM_*` and export annotations
have no form behind WIDE that is modelled.

### Abstractions common to the models of the VM

In `Reactive` and `Stack` a program error (stack overflow, too many frames) ends
the run: the action is not enabled. `Reactive` has one try block, which is left
before the function around it returns; `Exceptions` has them all. A yield of
an active fiber that has no frames left (after an exception has escaped from it)
is not modelled. The copies of their handlers in the WIDE switch and in the JIT are
not modelled. Formatting and the contents of values are left out.

## 3. What is checked

Passing runs:

| Run | Question | Bounds |
|---|---|---|
| `GcSafe` | Is the collector safe and complete, incremental for programs of arrays, maps, instances and strings, and in full collections for programs of all types? Does it implement a memory that has none? | 3 objects, 2 references in each, 1 object traced per step, so that every interleaving of tracing and stores occurs; symmetric in the objects |
| `PacingKeepsUp` | Does the collector keep up with a program that allocates in a loop? | 6 turns between two calls of `gc_step`, 3 objects traced by each, as 128 is to 64 in the code; 2 objects allocated in between, 4 held at a time, and room for 28 |
| `ReactiveOne` | Does one effect follow its signals, and does the program return? | 1 effect, 2 signals, 1 rerun, main and body 3 instructions, helper functions, 2 programs |
| `ReactiveTwo` | What survives nesting, exceptions, failed programs, native tails and host writes? | 2 effects, 2 signals; body 2 instructions; one program of 3, or two of 2 and 1 |
| `StackSafe` | Do calls, natives, native tails and a fiber resumed at different depths keep registers, up to the limits? Do effects on top of any frame? | 3 activations, 1 fiber, 3 registers, 11 slots, 3 frames, 1 argument |
| `StackNest` | Fibers that resume fibers: who gets control back? | 4 activations, 2 fibers, 4 frames, 7 slots, 1 register |
| `ExceptionsSafe` | Does an exception find its handler, across calls, fibers and programs? Does the array implement lexical handlers? | 4 activations, 2 fibers, 4 frames, 2 handlers; programs `{"leave"}`, `{"fibers", "again"}`, `{"fibers", "escape"}` |
| `PipelineSafe` | Does every program do what it means, read back, compiled, optimised, stored and executed? Do the passes leave every path through the code where it was? | some 800 programs (below); 15 for the largest narrow operand, 32 registers, 32 slots for a fused branch, 128 stack slots, 6 frames, 3 handlers, 500 instructions |

Marking one object per step is the finest interleaving there is; a gray object, a
store into a black one and a later remark need two objects, and the third is
dropped, allocated or loaded meanwhile. `PacingKeepsUp` has no bound on what is
allocated in all; it takes as its premise that a program allocates less between two
steps than a step traces (2 and 3 here, 63 and 64 in the code), which is what the
collector needs and not what the code ensures: see below. With `MemoryLimit` 24
it fails, with 28 it holds: the worst case is a cycle that begins late and keeps all
that was made. Two effects suffice for one to be run
by, nested in, or queued behind another. Fuel bounds a frame's instructions: a
body of three reads, writes and calls a helper, or reads both signals and writes
one. `GenMod` 64 is larger than the number of writes in any behaviour of these
instances, so the counter does not wrap in them; it stands for 2^32. `MaxStack`
admits some two full windows and a half and is reached, as are `MaxFrames` and
`MaxTry`: the largest windows, the deepest calls and full handler arrays are
where the guards matter. In `StackNest` one register leaves
room for four frames, two of fibers between two others; registers are the
question of `StackSafe`.

`PipelineSafe` bounds the program and not its execution: `MCPipeline` has programs of
every construct (arithmetic, data, functions, classes, exceptions, switches,
includes, signals as variables), texts that are rejected, and families that are
products: all pairs of binary operators, grouped and not; all pairs of
conditions under `and` and `or` in a loop and a branch; all kinds of loops around
all pairs of statements; all operators in assignments to locals, parameters and
captured variables; windows of arrays and strings from before their start to behind
their end. `Byte` is 15 instead of 255, so that a function with sixteen locals
needs WIDE (`Widened` has one for each kind of instruction); `Near` is the real limit of
a fused branch. `MaxStack`, `MaxFrames` and `MaxTry` are as large as the deepest of the
programs needs; what happens at and beyond these limits, which `Meaning` does not
have, is the subject of `Stack` and `Exceptions`. `Budget` is
above the longest program (under 360 steps), so that `Ends` only fails where control
goes where it should not. A script has no input: its behaviours are those
of `SaveFile`, so one behaviour is one program run directly, from a file or from a
stripped file.

`JumpsLand` says of the code before, between and after the passes that control which
starts at the beginning stays on instructions, and that jumps are as they can be
encoded: `TRY_END` forward and fused branches near. `PathsKept` is about the step of the last
pass, which moves code: an instruction that is left keeps its operands and goes on at
the new places of the instructions it went on at. Both speak of offsets; that the
instructions reached do the right thing is the question of `SameResult`.

`SameResult` leaves out stripped files of programs with overloaded operators: their
names `__add` are hashed like any other, and the VM looks them up by their texts.

Each property of a passing run is also checked against a mutated definition of
the model (`PROJECT.json`, `mutants`: a dropped barrier, a
stack top not raised, a handler not popped, ...), which TLC must find to violate it.

Runs that TLC refutes (each checks one sentence of the documentation or of a
comment; `PROJECT.json` quotes it):

| Run | What the code does |
|---|---|
| `GcLost` | `SIGNAL_SET`, `SET_UPVALUE` and a yield store references without a barrier while the collector marks: a reachable object is freed |
| `ReactiveQueue` | Two effects queued by one write: the second starts on top of the first before it has executed anything, `current_effect_` is lost, the first never re-runs |
| `ExceptionsStale` | A return, break or continue out of a try block leaves its handler, and a later exception puts another call into that catch block |
| `PipelineQuickened` | An `ADD` that has seen two numbers becomes `ADD_NUM` for good, and takes the strings of the next call for numbers |

Further divergences that TLC shows when one constant of a run is changed:

| Change | Violated | Behaviour |
|---|---|---|
| `ReactiveOne` with two effects, `EffectsNest` TRUE | `CurrentIsOwner` | the end of an inner effect clears `current_effect_` for the rest of the outer one |
| `ReactiveOne` with `Throwing` or `NativeTails` TRUE | `EffectsFollowSignals`, `CurrentIsOwner` | an effect left by an exception, or by `return native(...)`, stays Running, and current, for ever |
| `ReactiveOne` with `Failing` TRUE | `CurrentIsOwner` | a program that fails in an effect leaves `current_effect_` to the next one, whose reads subscribe the effect |
| `ReactiveOne` with `HostWriting` TRUE | `EffectsFollowSignals` | `akar_set_global` on an exported signal triggers no effect |
| `ReactiveOne` with `GenMod` 3 | `RestingIsFresh` | a write whose wrapped generation equals `last_queued_gen` is lost |
| `StackSafe` with `"helpers yield"` and `"fibers"` | `RegistersIntact` | `caller_stack_top` is not rebased when a fiber is resumed at another depth |
| `StackSafe` with `"nested fibers"` and `"fibers"` | `RegistersIntact` | after a resumption `stack_top_` is low, and a yield saves the slots below it only |
| `StackSafe` with `"natives"`, `"natives in fibers"`, `"fibers"` | `RegistersIntact` | the same after a native call in the fiber |
| `StackSafe` with `"effects"` and `"fibers"` | `RegistersIntact` | a yield restores the `stack_top_` of the resumption, inside the window of the resumer, and an effect is pushed over its registers |
| `StackNest` with `"natives in fibers"`, `"native tails"` | `FiberChain` | a fiber that ends in `return native(...)` is never done |
| `PacingKeepsUp` with `Rate` 3 | `CycleEnds`, `LimitKept` | a program that allocates as many objects between two steps as one traces keeps the gray stack from emptying: the cycle never ends, nothing is freed and the memory limit is met. In the real interpreter a loop of ten million turns that makes an array in each fails with "Memory limit exceeded" though it holds one at a time, and one that makes an array in every fourth turn does not |
| `GcLost` with `Programs <- Constructing` | `NoDangling` | a constructor adds a slot to the stack that is never taken off (vm.cpp:1219); what an earlier call left there is freed, and then marked as a root, against vm.cpp:55, "Mark the entire live stack region". AddressSanitizer reports the use of freed memory in the real interpreter, for deep calls that are followed by a loop of constructor calls |
| `GcLost` with `"upvalue"`, or `"fiber"`, in place of `UnbarrieredTypes` | `NoDangling` | a closed upvalue, or a fiber that yields, is enough without signals |
| `ExceptionsSafe` with `"fibers"`, `"yield"` | `OwnCode` | a fiber that yields inside try leaves its handler to its resumer |
| `ExceptionsSafe`, `FiberOnStack` without its premise | `FiberOnStack` | an exception caught outside a fiber leaves it active without frames |
| `StackSafe` with `"natives"`, `"effects"` | `CallersBelow` | a native call lowers `stack_top_` into its caller's window (vm.cpp:3796), and the next effect is pushed over live registers, against the comment at vm.cpp:51 |

`PipelineSafe` leaves out programs like that of `PipelineQuickened`, and the ones below. What
TLC finds with `Sources` such a program alone (the set of `MCPipeline` that is named, if
one is) the real compiler and interpreter do, too:

| Program | Violated | Behaviour |
|---|---|---|
| `print(every([1, 2], fn(x) { return x < 5 })); print('end')` (`Callback`) | `Ends` | when the closure returns, the nested `run()` of `call_function` (vm.cpp:3645) goes on in the frames of the caller, from where their instruction pointers were stored last, and calls `every` again, for ever; the real program ends when the C stack does |
| `fn f() { y = 5; return y } print(f())` (`Undeclared`) | `SameResult` | an assignment to a name that was not declared makes a global of it (vm.cpp:538), where docs/language.md:46 has "error: undefined variable 'y'" |
| `fn f() { let x = 5; let y = x + x; return y } print(f())` (`Doubled`) | `SameResult` | pass 1 drops the load of a local in front of an addition (codegen.cpp:1740) |
| `fn f(c) { if (c) { return 1 } } print(f(false))` (`OpenEnded`) | `JumpsLand` | the code ends in a `RETURN`, so no other is added, and the branch around it runs off the end (codegen.cpp:110) |
| `for i in 0..3 { if (i == 2) { break } switch (i) { case 1: print('one') default: print(i) } }` (`BreakSwitch`) | `SameResult` | the switch patches and clears the `break` of the loop (codegen.cpp:1213) |
| `class V { init(x) { this.x = x } __add(o) { return V(this.x + o.x) } } let a = V(1); print((a + V(10)).x)` (`OneOverload`) | `SameResult` | an overloaded operator with a temporary on its right is given the left operand twice (vm.cpp:388) |
| `fn f(c) { let x = 'a'; if (c) { x = 1 } return x + x } print(f(false))` | `SameResult` | the type of a local is the one assigned last in the text |
| `fn f(x) { return x + 5 } try { print(f(nil)) } catch (e) { print(e) }` | `SameResult` | `ADD_IMM` takes any operand for a number |
| `let n = 0; fn g() { n = n + 1; return n } fn f(x) { x = x < g(); return x } print(f(5), n)` | `SameResult` | the right operand is compiled, and executed, twice (codegen.cpp:683) |
| `class C { f() { return 1 } } fn mk() { return C() } print(mk())` | `SameResult` | a tail call of a class without `init` returns nil |
| `fn v(...r) { return r } fn f() { return v(1, 2) } print(f())` | `SameResult` | a tail call of a variadic function checks its arity |
| `fn f(a, b) { if (a < b) { return 'less' } return 'not' } print(f('a', 'b'))` | `SameResult` | a fused branch compares numbers only: no strings, no overloaded operators |
| `if (0) { print('zero') }` | `SameResult` | a branch takes 0 for true where `!0` is true (docs/language.md:170) |
| `let fs = []; let n = 0; for i in 0..2 { let k = i; fs[n] = fn() { return k }; n = n + 1; if (i == 1) { continue } } print(fs[1]())` | `SameResult` | `break` and `continue` close no upvalues: two iterations share one variable (codegen.cpp:948) |
| `fn f() { let a = 1; fn g() { a = 5; return 1 } return a + g() } print(f())` | `SameResult` | the left operand is read when the addition is executed |

Found by reading, and left out of the programs for the same reason: `&&` and `||`, which
docs/language.md:676 lists, are read by the lexer (lexer.cpp:149) and accepted by no
production (parser.cpp:385); a jump of 32 KB and more wraps, which `Jump16` has and no
program reaches; pass 2b compares raw bytes where a jump back leads to a wide
instruction (codegen.cpp:1836), where `Dead` compares operation and operand; an
overloaded operator passes its operands behind the result, perhaps behind the window, which
`WithinFrame` does not count (vm.cpp:388); a loop in a
function of more than 255 registers jumps back by 8 bytes too few; code that moves
is not counted in WIDE slots by the last pass (codegen.cpp:1882); `TRY_BEGIN` behind WIDE
is not adjusted; `x = x + sig` on a local reads the signal object; `let` at the top level
makes a local and a global of the name; an upvalue's index has 8 bits (codegen.cpp:1408)
and a frame's `register_count` 16 in a file; a WIDE call leaves the registers its
function reserves. docs/vm.md:197 has a `gc_step`
every 128 opcodes, but jumps back are counted (vm.cpp:318): a program that recurses
instead of looping never comes to one. Writes to signals are not batched, as docs/reactive.md:168 has
it, but drained before the next instruction (vm.cpp:376). After a program that
failed the next one of the same VM runs on the frames it left (vm.cpp:230), against
docs/api.md:70.

In the host API, also by reading: the values on the auxiliary stack and in the array
and map builders of a session (akar_api.cpp:26) are no roots of the collector, so a host
may keep only what the program can reach; `akar_call` on a native function passes no
closure to `call_function` (akar_api.cpp:337), and `akar_fiber_resume` is such a call.

`ReturnTop` of an effect is one slot above the slot its closure was pushed on, so
every run of an effect leaves one slot on the stack until the program ends.

### Fairness

`Reactive`: `WF_vars(Step)`, a program that was started keeps executing
instructions; the host need not start another. `Pacing`: `WF_vars(Next)`, a program in a
loop keeps executing and a call of `gc_step` returns; that a turn of the loop ends is
assumed with it, as `Allocate`, `Drop` and `Store` are bounded between two
turns (`Rate`, `Keep`, `due`). `Gc`, `Stack` and `Exceptions` are
checked for safety only, and so is `Pipeline`: that a program comes to its end is the
invariant `Ends`, which needs no fairness.

## 4. What is proved

Every invariant that a passing run checks for `Gc`, `Reactive`, `Stack` and `Exceptions` is a
theorem, and so are the action property `DeadIsFreed` and the refinements
`CollectorUnseen` and `LexicalHandlers`. Of the compiler, the peephole passes have
theorems, for code of any length. The constants are those of the modules, with their assumptions; what a
theorem assumes beyond them is named here. The passing runs satisfy it (not
`ReactiveTwo`, which is about what remains without `Plain`), and the runs and changes of
section 3 show that the property fails without it.

| Theorem | Property | Holds of |
|---|---|---|
| `HeapTyped` | `Gc.TypeOK` | every program |
| `MemorySafety`, `Colours`, `GarbageIsFreed` | `NoDangling`, `TriColour`, `DeadIsFreed` | `SafeConfig`: each program uses only types whose stores have a barrier, or has no loops, and has no constructors |
| `CollectorIsUnseen` | `CollectorUnseen`, the refinement of `Memory` | `SafeConfig` |
| `CompactKeepsPaths` | as `PathsKept`: the last pass moves code and keeps its paths | all `Unwidened`, `Encoded` code |
| `PassKeepsConfined`, `OptimizedConfined` | as `JumpsLand`: each pass, and all of them, keep control on instructions | all `Encoded` code; with the last pass, `Unwidened` too |
| `Subscriptions`, `QueueIsExact`, `ReactiveTyped`, `BodiesEnteredOnce` | `LinksAgree`, `QueueMatchesState`, `TypeOK`, `NoReentry` | every program with finitely many effects |
| `NothingMissed` | `RestingIsFresh` | the same, while `write_generation_` has not come to its last value (`NoWrap`) |
| `OwnerIsCurrent` | `CurrentIsOwner` | `Plain`: one effect; no exceptions, native tails or failures |
| `SignalsFollowed` | `EffectsFollowSignals` | `Plain`, no host writes, `NoWrap` |
| `RegistersSafe`, `CallersStayBelow`, `StackTyped` | `RegistersIntact`, `CallersBelow`, `Stack.TypeOK` | `Disciplined` (below) |
| `ChainOfResumers` | `FiberChain` | `NoTailsInFibers`: no fiber ends in `return native(...)` |
| `TypesHold` | `Exceptions.TypeOK` | every program |
| `OpenBlocksHaveHandlers`, `HandlersImplemented`, `FibersStayOnStack` | `HandlersAreOpen`, `LexicalHandlers`, `FiberOnStack` | the programs their properties name |

- `GcProofs`, any heap, work limit and number of fields. `NoDangling` is not inductive: a
  sweep needs that everything reachable is marked. `GcInv` adds the tri-colour
  invariant, that gray is a subset of marked and marked of alive, that outside a
  cycle nothing is marked unless the barrier is up, and that at a sweep roots are
  marked and the gray stack is empty; closure of the marked set under references
  then follows and the sweep keeps it. `GcLost`, with its programs and with `Constructing`,
  shows that both parts of `SafeConfig` are needed. `DoomedIsApart` (what is doomed is referenced by nothing else and never
  marked) gives `DeadIsFreed`. `HeapTyped` needs none of this: `TypeOK` is
  inductive, so a missing barrier costs colours and lifetimes and nothing else.
- `MemoryProofs`, from `GcInv`. A step of the program changes roots, one object or its
  references; in each case a set that holds the roots and is closed under references
  before the step gives one after it (what was loaded was reachable, what is stored was
  held), so `Reachable` changes as `Memory` says. Tracing, marking and barriers change
  nothing that can be seen. The sweep is where it could go wrong: the tri-colour
  invariant with an empty gray stack and marked roots makes the marked objects such a
  set, so what the sweep takes is not reachable and what can be seen stays.
- `PeepholeProofs`, code of any length and instructions with any operands. `Confined`
  says that some set of offsets holds the first one, consists of starts of instructions
  and is closed under `Follow`; the set that `JumpsLand` computes is the least such one, so
  both say the same. A pass that overwrites pairs in place keeps every confining set, as each
  instruction it writes goes on where one of the pair did. The last pass needs its
  moved offsets: `Before` counts the instructions left before an offset, and a function is compacted to a place per
  instruction left, in order (`CompactSqueezes`); the new confining set is the
  image of the old one. `Unwidened` is code without WIDE, which the last pass miscounts
  (codegen.cpp:1882): TLC refutes `PathsKept` without that premise.
  `Encoded`, the part of `JumpsLand` about single jumps, is what keeps a fused branch
  near and a `TRY_END` adjusted. The length of compacted code and the count need induction over numbers, which `SetInduction`
  replaces by the pigeonhole principle of the library.
- `ReactiveProofs`. The inductive invariant adds to `LinksAgree` and
  `QueueMatchesState` that the queue is a sequence of distinct effects and that an
  effect that is notified was not queued in the same generation.
- `EffectProofs` is about the runs of effects, in three layers on that invariant.
  `EffectInv` adds that an effect with its body on the stack is Running
  (`Bodies`), from which `NoReentry` follows because both entrances ask for another
  state, and that the body of the current effect is at `depth` and nowhere else: that is
  why `RETURN` only makes the effect idle whose body it leaves. `FreshInv` adds what a
  running effect knows: it is subscribed to all it has read and, unless it is dirty,
  nothing of that is stale (`Attended`), so that it is fresh when it comes to rest; and no
  `last_queued_gen` is ahead of `write_generation_`, so that before the counter wraps
  every write reaches every subscriber. `NoWrap` cannot be dropped (`GenMod` 3 in
  section 3), and is the only thing `NothingMissed` asks of a program. `PlainInv`
  adds the shape of the stack of a program with one effect (`Layers`): its own frames,
  and above them, from `depth` on, those of the effect. With two effects the end of an
  inner one clears `current_effect_`; an exception, a native tail or a failure
  leaves the effect Running. `TrackedInv` adds that an effect at rest is
  subscribed to all it has read, which the end of a run and swap-removal could
  break, and combines the layers to `EffectsFollowSignals`.
- `StackProofs`, any sizes of stack, frames and functions. `Disciplined`: a program with effects has
  neither natives nor fibers, and one with fibers resumes them from outside
  fibers, calls no native inside and yields in the function the fiber was made of;
  native calls, native tails and resumptions at different depths are in. `FrameInv` adds to
  `RegistersIntact` that windows are inside the stack, that the callee of a frame is
  above the allocated registers of all frames below (`Above`), that
  activations are distinct and, with effects, that `stack_top_` is above the window of the
  frame that runs and saved so for those that wait (`Reserve`). For fibers
  `FiberPart` adds where the frames of the running fiber begin (`Inside`), that
  inside a fiber `stack_top_` is above the window that runs, so that a yield copies all
  registers in use (`Deep`), and that a suspended fiber has its one frame and
  its registers with it and shares its activation with no other (`Parked`). Each
  part of `Disciplined` is needed: without it TLC finds a lost register (section 3).
- `FiberProofs`, any number of fibers, resumed in any nesting. `FiberChain` says that
  the resumer of a running fiber runs and that one that is not active has resumed
  another; that a yield keeps this needs that the chain is ordered by `base`:
  running fibers are between different depths of the stack, the active one on top
  (`Seated`), and the resumer of each is the next one below (`Linked`).
  `RETURN` tells the end of a fiber from the depth of the frames alone, which is
  enough because of that order.
- `ExceptionsProofs`, any number of calls, fibers, handlers and programs.
  `HandlersAreOpen` is a bijection between the handlers and the open blocks that
  keeps their order; it is not inductive alone. `Control` adds that a running program
  has a frame (there is something for a handler to be recorded in), that a fiber is
  resumed from a frame, that a structured program that is not running has no
  handlers (so that the next one starts with none), and that the frames a fiber has
  saved are outside try blocks (so that coming back adds no open block without a
  handler). `HandlersImplemented` is the refinement: every step of a
  promised program is a step of `Handlers` or none. Its core is that the handler on
  top is the one of the latest call with an open block, which follows from the
  order. `FibersStayOnStack` adds that a suspended fiber's frames are not empty.

The invariants were checked by TLC on instances like those of the runs before they were
proved.

Only model-checked: the properties of `Pipeline` (`RoundTrip`, `JumpsLand`, `PathsKept`,
`WithinFrame`, `OpenUpvaluesLive`, `SameResult`, `FileKeepsFunctions`, `Ends`). Its
stages are recursive operators on trees and code and its arithmetic uses the bit
operators; the prover handles neither, so no theorem can name these properties, and
induction over trees, which statements about all programs would need, is out of its
reach too. The theorems about `Peephole` are of the pass alone: that the generator's
code is confined and encoded to begin with is what `JumpsLand` checks before them. Also
only model-checked are the liveness properties `CycleEnds` and `ProgramReturns`, as the
prover knows neither fairness nor `ENABLED`, and the invariants of `Pacing`.

## 5. Not modelled, and the plan

Done: `Gc` with `Memory`, `Pacing`, `Reactive`, `Stack`, `Exceptions` with `Handlers`, and their
proofs; the pipeline from text to result with `Meaning`, `Grammar` and
`StandardLibrary`, and proofs about its peephole passes. Next:

1. Fibers in `Machine`, for upvalues shared between a fiber and its resumer
   (`open_upvalues_` is replaced at a yield and at a resumption).
2. Failed programs in `Stack` (`stack_top_`), and resumptions that do not fit.
3. SmallVec and NaN boxing; the profiler's pairing of calls and returns.
4. The JIT's helpers for signals and its bail-out.

Theorems planned: the frames of suspended fibers under further disciplines; that the
peephole passes keep what code computes, which needs the handlers of `Machine` without
their recursion.

Partly modelled: `call_function` up to the end of a nested `run()`, as what a native then
does with frames that are gone is memory corruption; the host API, but for signals
and programs one after another; native functions that compute with fractions,
hash order, clocks, random numbers or input.

Left out for good: machine code emission and the recorder of traces (`jit.cpp`,
`jit_arm64.cpp`, `trace.cpp`, which are only active on ARM64), operating system and
TLS wrappers, the REPL and the executables' flags: they are input and output, or below the
level at which TLC says anything.
