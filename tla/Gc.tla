--------------------------------- MODULE Gc ---------------------------------
(***************************************************************************)
(* The tri-colour incremental mark-sweep collector of the Akar VM          *)
(* (src/common/value.cpp, VM::mark_roots, VM::collect_garbage and          *)
(* VM::gc_step in src/vm/vm.cpp) together with the mutator: the running    *)
(* program, which loads, drops, allocates and stores object references     *)
(* between two steps of the collector.                                     *)
(*                                                                         *)
(* A heap object is an element of Objects; refs[o] is the set of objects   *)
(* that gc_trace_references would mark for o.  What the program holds in   *)
(* registers, globals, frame closures, open upvalues and pending fibers    *)
(* and effects is folded into one set, roots; table is the set of interned *)
(* strings, which are never released.  mark_roots also walks slots of the  *)
(* stack that are nobody's register: stale is what these hold, and popped  *)
(* what the slots above them were left with.                               *)
(*                                                                         *)
(* When gc_step is called, and when it has work to do, is the subject of   *)
(* Pacing; here it may be called at any back-edge.  gc_step and            *)
(* collect_garbage run to their end without the mutator: gcpc says where   *)
(* in them control is, and every mutator action requires gcpc = "off".     *)
(***************************************************************************)
EXTENDS Naturals, FiniteSets

CONSTANTS
  Objects,      \* the objects that may ever be allocated
  Programs,     \* the kinds of programs: the object types one uses, whether
                \* it runs loops, so that gc_step is reached, and whether it
                \* makes instances of classes that have a constructor
  MarkWork,     \* VM::GC_MARK_WORK, gray objects traced per gc_step
  MaxFields     \* bound: references held by one array, map or instance

\* Types whose only stores after allocation go through SET_INDEX, SET_FIELD,
\* push, insert or unshift, and types with no outgoing reference at all.
BarrieredTypes == {"container", "string"}

\* Types with a store that has no barrier: SIGNAL_SET, SET_UPVALUE and
\* CLOSE_UPVALUE, and the stack saved by a yielding fiber.
UnbarrieredTypes == {"signal", "upvalue", "fiber"}

ASSUME ProgramsAssumption ==
  Programs \subseteq [types : SUBSET (BarrieredTypes \cup UnbarrieredTypes),
                      loops : BOOLEAN, constructs : BOOLEAN]
ASSUME MarkWorkAssumption == MarkWork \in Nat \ {0}
ASSUME MaxFieldsAssumption == MaxFields \in Nat

VARIABLES
  program,  \* what is running
  alive,    \* g_objects: allocated and not deleted
  type,     \* Obj::type of the objects in alive
  refs,     \* what each object references
  roots,    \* what registers, globals and the other places of the VM hold
  table,    \* g_string_table
  popped,   \* what the stack still holds above the slots that are scanned
  stale,    \* what the scanned slots hold that are no registers
  marked,   \* the objects whose mark bit is set
  gray,     \* g_gray_stack (the order of popping is immaterial)
  marking,  \* g_gc_marking, the flag both barriers test
  phase,    \* VM::gc_phase_ between two calls
  gcpc,     \* control inside the collector: off, step, full or sweep
  work,     \* the local counter of gc_step
  doomed    \* history: what was garbage when the current cycle began

slots == <<popped, stale>>
heapVars == <<alive, type, refs, roots, table, slots>>
gcVars == <<marked, gray, marking, phase, gcpc, work>>
ghosts == <<program, doomed>>
vars == <<heapVars, gcVars, ghosts>>

Init ==
  /\ program \in Programs
  /\ alive = {}
  /\ type = [o \in Objects |-> "string"]
  /\ refs = [o \in Objects |-> {}]
  /\ roots = {}
  /\ table = {}
  /\ popped = {} /\ stale = {}
  /\ marked = {}
  /\ gray = {}
  /\ marking = FALSE
  /\ phase = "Idle"
  /\ gcpc = "off"
  /\ work = 0
  /\ doomed = {}

-----------------------------------------------------------------------------
(* Marking *)

\* gc_mark_object over a set: set the mark bit and push what was white.
Mark(S) ==
  /\ marked' = marked \cup S
  /\ gray' = gray \cup (S \ marked)

\* The barrier of the store instructions: mark the stored value while marking.
StoreBarrier_None(S) == UNCHANGED <<marked, gray>>
StoreBarrier(S) ==
  IF marking THEN Mark(S) ELSE UNCHANGED <<marked, gray>>

\* gc_write_barrier: the same for an object that has just been allocated.
AllocBarrier(o) == StoreBarrier({o})

\* What the program and the string table hold.
Live == roots \cup table

\* mark_roots of every active VM, then gc_mark_string_table: the stack is
\* scanned up to stack_top_, whatever its slots hold.
RootSet == Live \cup stale

-----------------------------------------------------------------------------
(* The mutator *)

Types == program.types

Mutating == gcpc = "off"

\* CALL of a class with a constructor makes an instance and raises stack_top_
\* by one, which no return takes back: what an earlier call left in the slot is
\* below stack_top_ again.
Uncovered(t) ==
  /\ stale' \in {stale \cup T : T \in IF program.constructs /\ t = "container"
                                      THEN SUBSET popped ELSE {{}}}
  /\ UNCHANGED popped

\* Registers that held S are popped or overwritten: a return lowers stack_top_,
\* and the slots above it keep what they hold until they are written.
Popped(S) ==
  IF program.constructs
    THEN popped' \in SUBSET (popped \cup stale \cup S) /\ stale' \in SUBSET stale
    ELSE UNCHANGED slots

\* A fresh object o: allocate_X links it and applies the allocation barrier,
\* the handler fills it from registers and stores it in one.
Allocate(o, t, S) ==
  /\ Mutating
  /\ o \notin alive
  /\ t = "string" => S = {}
  /\ alive' = alive \cup {o}
  /\ type' = [type EXCEPT ![o] = t]
  /\ refs' = [refs EXCEPT ![o] = S]
  /\ roots' = roots \cup {o}
  /\ AllocBarrier(o)
  /\ Uncovered(t)
  /\ UNCHANGED <<table, marking, phase, gcpc, work, ghosts>>

\* StringTable::intern of a text seen for the first time.
Intern(o) ==
  /\ Mutating
  /\ "string" \in Types
  /\ o \notin alive
  /\ alive' = alive \cup {o}
  /\ type' = [type EXCEPT ![o] = "string"]
  /\ table' = table \cup {o}
  /\ AllocBarrier(o)
  /\ UNCHANGED <<refs, roots, slots, marking, phase, gcpc, work, ghosts>>

\* GET_INDEX, GET_FIELD, GET_UPVALUE, SIGNAL_GET, fiber resume: copy a
\* reference out of a reachable object into a register.
Load(c, x) ==
  /\ Mutating
  /\ c \in roots
  /\ x \in refs[c]
  /\ roots' = roots \cup {x}
  /\ UNCHANGED <<alive, type, refs, table, slots, gcVars, ghosts>>

\* The last register or global that holds x is overwritten or popped.
Drop(x) ==
  /\ Mutating
  /\ x \in roots
  /\ roots' = roots \ {x}
  /\ Popped({x})
  /\ UNCHANGED <<alive, type, refs, table, gcVars, ghosts>>

\* SET_INDEX, SET_FIELD, push, insert, unshift: x is stored in c, over the
\* elements Old if the slot was taken; barrier first.
Store(c, x, Old) ==
  /\ Mutating
  /\ {c, x} \subseteq roots
  /\ type[c] = "container"
  /\ Old \subseteq refs[c]
  /\ Cardinality((refs[c] \ Old) \cup {x}) <= MaxFields
  /\ refs' = [refs EXCEPT ![c] = (refs[c] \ Old) \cup {x}]
  /\ StoreBarrier({x})
  /\ UNCHANGED <<alive, type, roots, table, slots, marking, phase, gcpc, work, ghosts>>

\* pop, remove, shift: x leaves c and is returned in a register.  There is
\* no deletion barrier.
Take(c, x) ==
  /\ Mutating
  /\ c \in roots
  /\ type[c] = "container"
  /\ x \in refs[c]
  /\ refs' = [refs EXCEPT ![c] = @ \ {x}]
  /\ roots' = roots \cup {x}
  /\ UNCHANGED <<alive, type, table, slots, gcVars, ghosts>>

\* SIGNAL_SET: sig->value = S(b), without a barrier.  SIGNAL_GET appends to
\* the subscribers of s, which are references too, in the same way.
SignalSet(s, x, Old) ==
  /\ Mutating
  /\ {s, x} \subseteq roots
  /\ type[s] = "signal"
  /\ Old \subseteq refs[s]
  /\ Cardinality((refs[s] \ Old) \cup {x}) <= MaxFields
  /\ refs' = [refs EXCEPT ![s] = (@ \ Old) \cup {x}]
  /\ UNCHANGED <<alive, type, roots, table, slots, gcVars, ghosts>>

\* SET_UPVALUE on a closed upvalue, or CLOSE_UPVALUE: uv->closed takes a
\* value from the stack, without a barrier.
UpvalueSet(u, x) ==
  /\ Mutating
  /\ {u, x} \subseteq roots
  /\ type[u] = "upvalue"
  /\ refs' = [refs EXCEPT ![u] = {x}]
  /\ UNCHANGED <<alive, type, roots, table, slots, gcVars, ghosts>>

\* HANDLE_FIBER_YIELD: the registers S move into f->saved_stack in place of
\* its old contents, without a barrier; whoever resumed f still holds it, and
\* f keeps its entry closure and its initial arguments.
FiberYield(f, Old, S) ==
  /\ Mutating
  /\ f \in roots
  /\ type[f] = "fiber"
  /\ Old \subseteq refs[f]
  /\ S \subseteq roots \ {f}
  /\ Cardinality((refs[f] \ Old) \cup S) <= MaxFields
  /\ refs' = [refs EXCEPT ![f] = (@ \ Old) \cup S]
  /\ roots' = roots \ S
  /\ Popped(S)
  /\ UNCHANGED <<alive, type, table, gcVars, ghosts>>

Mutator ==
  \/ \E o \in Objects, t \in Types, S \in SUBSET roots :
       Cardinality(S) <= MaxFields /\ Allocate(o, t, S)
  \/ \E o \in Objects : Intern(o) \/ Drop(o)
  \/ \E c, x \in Objects : Load(c, x) \/ Take(c, x) \/ UpvalueSet(c, x)
  \/ \E c, x \in Objects : \E Old \in SUBSET refs[c] :
       /\ Cardinality(Old) <= 1
       /\ Store(c, x, Old) \/ SignalSet(c, x, Old)
  \/ \E f \in Objects, S \in SUBSET roots : \E Old \in SUBSET refs[f] :
       FiberYield(f, Old, S)

-----------------------------------------------------------------------------
(* The collector *)

\* What the program can reach: the least set that holds the roots and is
\* closed under references.
Reachable ==
  LET Closed == {M \in SUBSET alive : /\ Live \cap alive \subseteq M
                                     /\ \A p \in M : refs[p] \cap alive \subseteq M}
  IN {o \in alive : \A M \in Closed : o \in M}

\* Garbage when a cycle begins.  Objects allocated while the barrier is up
\* are marked at birth, so a cycle that begins with the barrier still up
\* (collect_garbage ran in the middle of one) promises nothing.
Doomed == IF marking THEN {} ELSE alive \ Reachable

\* gc_step of an idle collector over its threshold: mark the roots, raise the
\* barrier and fall through to Marking.
StepBegin ==
  /\ program.loops
  /\ gcpc = "off" /\ phase = "Idle"
  /\ Mark(RootSet)
  /\ phase' = "Marking"
  /\ marking' = TRUE
  /\ gcpc' = "step" /\ work' = 0
  /\ doomed' = Doomed
  /\ UNCHANGED <<heapVars, program>>

\* gc_step of a collector in the middle of Marking.
StepResume ==
  /\ program.loops
  /\ gcpc = "off" /\ phase = "Marking"
  /\ gcpc' = "step" /\ work' = 0
  /\ UNCHANGED <<heapVars, marked, gray, marking, phase, ghosts>>

\* One turn of the marking loop of gc_step, or of gc_drain_gray_stack, which
\* has no work limit: pop a gray object and mark what it references.
MayTrace_OffByOne == gcpc = "full" \/ (gcpc = "step" /\ work <= MarkWork)
MayTrace == gcpc = "full" \/ (gcpc = "step" /\ work < MarkWork)
Traced_NotPushed(o) == gray \ {o}
Traced(o) == (gray \ {o}) \cup (refs[o] \ marked)
Trace(o) ==
  /\ MayTrace
  /\ o \in gray
  /\ marked' = marked \cup refs[o]
  /\ gray' = Traced(o)
  /\ work' = IF gcpc = "step" THEN work + 1 ELSE work
  /\ UNCHANGED <<heapVars, marking, phase, gcpc, ghosts>>

\* The work limit is reached with gray objects left: return to the program.
StepPause ==
  /\ gcpc = "step"
  /\ gray # {} /\ work = MarkWork
  /\ gcpc' = "off" /\ work' = 0
  /\ UNCHANGED <<heapVars, marked, gray, marking, phase, ghosts>>

\* The gray stack ran empty: mark the roots again and, when that adds
\* nothing, lower the barrier and fall through to Sweeping.
Remarked_Nothing == {}
Remarked == RootSet
StepRemark ==
  /\ gcpc = "step"
  /\ gray = {}
  /\ Mark(Remarked)
  /\ work' = 0
  /\ IF gray' = {}
       THEN marking' = FALSE /\ phase' = "Sweeping" /\ gcpc' = "sweep"
       ELSE gcpc' = "off" /\ UNCHANGED <<marking, phase>>
  /\ UNCHANGED <<heapVars, ghosts>>

\* collect_garbage, in any phase of the incremental collector: mark the
\* roots and drain the gray stack before sweeping.
FullBegin ==
  /\ gcpc = "off"
  /\ Mark(RootSet)
  /\ gcpc' = "full"
  /\ doomed' = IF phase = "Idle" THEN Doomed ELSE doomed
  /\ UNCHANGED <<heapVars, marking, phase, work, program>>

\* gc_sweep: delete every white object and clear the other mark bits.  Both
\* callers then set the phase to Idle; collect_garbage leaves g_gc_marking as
\* it is.
SweptMarks_Kept == marked
SweptMarks == {}
Sweep ==
  /\ \/ gcpc = "sweep"
     \/ gcpc = "full" /\ gray = {}
  /\ alive' = alive \cap marked
  /\ refs' = [o \in Objects |-> IF o \in marked THEN refs[o] ELSE {}]
  /\ type' = [o \in Objects |-> IF o \in marked THEN type[o] ELSE "string"]
  /\ marked' = SweptMarks
  /\ phase' = "Idle"
  /\ gcpc' = "off"
  /\ doomed' = doomed \cap alive'
  /\ UNCHANGED <<roots, table, slots, gray, marking, work, program>>

Collector ==
  \/ StepBegin \/ StepResume \/ StepPause \/ StepRemark
  \/ FullBegin
  \/ Sweep
  \/ \E o \in Objects : Trace(o)

Next == Mutator \/ Collector

Spec == Init /\ [][Next]_vars

-----------------------------------------------------------------------------
(* Properties *)

TypeOK ==
  /\ program \in Programs
  /\ alive \subseteq Objects
  /\ type \in [Objects -> BarrieredTypes \cup UnbarrieredTypes]
  /\ refs \in [Objects -> SUBSET Objects]
  /\ roots \subseteq Objects
  /\ table \subseteq Objects
  /\ popped \subseteq Objects
  /\ stale \subseteq Objects
  /\ marked \subseteq Objects
  /\ gray \subseteq Objects
  /\ marking \in BOOLEAN
  /\ phase \in {"Idle", "Marking", "Sweeping"}
  /\ gcpc \in {"off", "step", "full", "sweep"}
  /\ work \in 0..MarkWork
  /\ doomed \subseteq Objects

\* Memory safety: nothing the program can still reach has been deleted by
\* gc_sweep; no register, global or live object holds a freed pointer, and
\* no slot of the stack that mark_roots will follow.  This is what the "write
\* barrier" of value.cpp:238 and the "entire live stack region" of vm.cpp:55
\* are there for.
NoDangling ==
  /\ RootSet \subseteq alive
  /\ \A o \in alive : refs[o] \subseteq alive

\* The tri-colour invariant the barriers maintain: a black object (marked,
\* off the gray stack) references no white one, so an empty gray stack and
\* marked roots leave nothing reachable to sweep.
TriColour == \A o \in marked \ gray : refs[o] \subseteq marked

\* A sweep deletes everything that was unreachable when its cycle began:
\* whatever the program did during the cycle, floating garbage is garbage
\* made after the roots were first marked and dies in the next cycle.
DeadIsFreed == [][gcpc # "off" /\ phase' = "Idle" /\ gcpc' = "off"
                    => doomed \cap alive' = {}]_vars

\* The program cannot tell that there is a collector: its registers and globals,
\* and the types and references of what it can reach from them, change only as
\* its own instructions change them.
Seen(f, blank) == LET V == Reachable IN [o \in Objects |-> IF o \in V THEN f[o] ELSE blank]
Unmanaged == INSTANCE Memory WITH type <- Seen(type, "string"), refs <- Seen(refs, {})
CollectorUnseen == Unmanaged!Spec

\* The inductive strengthening of NoDangling and TriColour: what the mark
\* bits, the barrier flag and the place in the collector say of one another.
FreedIsBlank == \A o \in Objects \ alive : refs[o] = {}
OnlyUsedTypes == \A o \in alive : type[o] \in Types \cup {"string"}
MarksAreLive == gray \subseteq marked /\ marked \subseteq alive
BarrierUp ==
  /\ gcpc = "off" => marking \/ marked = {}
  /\ phase = "Marking" => marking
  /\ ~program.loops => ~marking
NothingStale == ~program.constructs => popped = {} /\ stale = {}
CollectorControl ==
  /\ gcpc = "step" => phase = "Marking"
  /\ gcpc = "sweep" => gray = {}
  /\ gcpc \in {"full", "sweep"} => RootSet \subseteq marked

\* The inductive strengthening of DeadIsFreed: the rest of the
\* heap holds no reference to what is doomed, a collector at rest dooms
\* nothing, and marking never reaches it.
DoomedIsApart ==
  /\ doomed \subseteq alive
  /\ RootSet \cap doomed = {}
  /\ \A o \in alive \ doomed : refs[o] \cap doomed = {}
  /\ marked \cap doomed = {}
  /\ phase = "Idle" /\ gcpc = "off" => doomed = {}

GcInv ==
  /\ TypeOK
  /\ NoDangling
  /\ TriColour
  /\ FreedIsBlank
  /\ OnlyUsedTypes
  /\ MarksAreLive
  /\ BarrierUp
  /\ NothingStale
  /\ CollectorControl
=============================================================================
