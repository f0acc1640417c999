------------------------------- MODULE Pacing -------------------------------
(***************************************************************************)
(* The pace of the collector: CHECK_MEMORY_LIMIT counts the turns of loops *)
(* and calls VM::gc_step (src/vm/vm.cpp) once in Period of them, while the *)
(* program goes on allocating.  The heap of Gc is reduced to how many      *)
(* objects are white, gray and black, and every object counts for one unit *)
(* of g_allocated_bytes: whether the collector keeps up with the program   *)
(* is a question of numbers.                                               *)
(***************************************************************************)
EXTENDS Naturals

CONSTANTS
  Period,       \* turns of loops between two calls of gc_step (128)
  MarkWork,     \* VM::GC_MARK_WORK, gray objects traced per gc_step (64)
  FirstGc,      \* the initial value of g_next_gc
  MemoryLimit,  \* g_memory_limit
  Keep,         \* bound: objects that the program can reach at a time
  Rate          \* bound: objects that it allocates between two calls of gc_step

ASSUME PacingAssumption ==
  /\ {Period, MarkWork, FirstGc, MemoryLimit} \subseteq Nat \ {0}
  /\ {Keep, Rate} \subseteq Nat

VARIABLES
  held,     \* how many objects the program can reach
  white,    \* the objects that are not marked
  due,      \* the white ones that marking may still reach: those that could
            \* be reached when the cycle began
  gray,     \* the length of g_gray_stack
  black,    \* the objects that are marked and traced
  marking,  \* gc_phase_ is Marking
  nextGc,   \* g_next_gc
  work,     \* the local counter of gc_step
  turns,    \* opcode_counter
  pc,       \* run, or where CHECK_MEMORY_LIMIT is: step, mark or limit; failed
  made      \* history: objects allocated since the last gc_step

heap == <<held, white, due, gray, black>>
pace == <<marking, nextGc, work, turns, pc>>
vars == <<heap, pace, made>>

\* g_allocated_bytes.
Allocated == white + gray + black

Init ==
  /\ held = 0 /\ white = 0 /\ due = 0 /\ gray = 0 /\ black = 0
  /\ marking = FALSE /\ nextGc = FirstGc /\ work = 0
  /\ turns = 0 /\ pc = "run"
  /\ made = 0

-----------------------------------------------------------------------------
(* The program *)

\* allocate_X and gc_write_barrier: an object that is made in a cycle is gray.
Allocate ==
  /\ pc = "run"
  /\ made < Rate /\ made' = made + 1
  /\ held < Keep /\ held' = held + 1
  /\ IF marking THEN gray' = gray + 1 /\ UNCHANGED white
                ELSE white' = white + 1 /\ UNCHANGED gray
  /\ UNCHANGED <<due, black, pace>>

\* A register or a reference is overwritten, and what it led to is lost.
Drop ==
  /\ pc = "run"
  /\ held' \in {n \in 0..Keep : n < held}
  /\ UNCHANGED <<white, due, gray, black, pace, made>>

\* The barrier of SET_INDEX, SET_FIELD, push, insert and unshift.
Store ==
  /\ pc = "run"
  /\ marking /\ due > 0
  /\ due' = due - 1 /\ white' = white - 1 /\ gray' = gray + 1
  /\ UNCHANGED <<held, black, pace, made>>

\* A jump back and CHECK_MEMORY_LIMIT.  Calls do not count: a program without loops
\* never comes to gc_step.
PeriodOver_Late == turns + 1 > Period
PeriodOver == turns + 1 >= Period
BackEdge ==
  /\ pc = "run"
  /\ IF PeriodOver THEN turns' = 0 /\ pc' = "step" /\ made' = 0
                   ELSE turns' = turns + 1 /\ UNCHANGED <<pc, made>>
  /\ UNCHANGED <<heap, marking, nextGc, work>>

-----------------------------------------------------------------------------
(* gc_step *)

\* An idle collector has nothing to do before the threshold.
Skip ==
  /\ pc = "step" /\ ~marking
  /\ Allocated < nextGc
  /\ pc' = "limit"
  /\ UNCHANGED <<heap, marking, nextGc, work, turns, made>>

\* A new cycle: mark_roots reaches some of what the program holds, and all of
\* it in the end.
Begin ==
  /\ pc = "step" /\ ~marking
  /\ Allocated >= nextGc
  /\ \E n \in 0..held :
       /\ n = 0 => held = 0
       /\ gray' = n /\ white' = white - n /\ due' = held - n
  /\ marking' = TRUE
  /\ pc' = "mark" /\ work' = 0
  /\ UNCHANGED <<held, black, nextGc, turns, made>>

Resume ==
  /\ pc = "step" /\ marking
  /\ pc' = "mark" /\ work' = 0
  /\ UNCHANGED <<heap, marking, nextGc, turns, made>>

\* Pop a gray object and mark the white ones that it references.
MayTrace_OneLess == work + 1 < MarkWork
MayTrace == work < MarkWork
Trace ==
  /\ pc = "mark"
  /\ gray > 0 /\ MayTrace
  /\ \E n \in 0..due :
       gray' = gray - 1 + n /\ white' = white - n /\ due' = due - n
  /\ black' = black + 1 /\ work' = work + 1
  /\ UNCHANGED <<held, marking, nextGc, turns, pc, made>>

\* The work limit is reached with gray objects left.
Pause ==
  /\ pc = "mark"
  /\ gray > 0 /\ ~MayTrace
  /\ pc' = "limit"
  /\ UNCHANGED <<heap, marking, nextGc, work, turns, made>>

\* The gray stack is empty, but marking the roots again finds white objects.
Remark ==
  /\ pc = "mark"
  /\ gray = 0
  /\ \E n \in 1..due :
       n <= held /\ gray' = n /\ white' = white - n /\ due' = due - n
  /\ pc' = "limit"
  /\ UNCHANGED <<held, black, marking, nextGc, work, turns, made>>

\* The gray stack stays empty: all that can be reached is black.  The white
\* objects are deleted, and the threshold is twice what is left.
Threshold_BeforeSweep == 2 * Allocated
Threshold == 2 * black
Sweep ==
  /\ pc = "mark"
  /\ gray = 0 /\ held <= black
  /\ white' = black /\ black' = 0 /\ due' = 0
  /\ nextGc' = Threshold
  /\ marking' = FALSE
  /\ pc' = "limit"
  /\ UNCHANGED <<held, gray, work, turns, made>>

\* memory_limit_exceeded after each gc_step: a runtime error.
LimitReached == Allocated >= MemoryLimit
CheckLimit ==
  /\ pc = "limit"
  /\ pc' = IF LimitReached THEN "failed" ELSE "run"
  /\ UNCHANGED <<heap, marking, nextGc, work, turns, made>>

Program == Allocate \/ Drop \/ Store \/ BackEdge
Collector == Skip \/ Begin \/ Resume \/ Trace \/ Pause \/ Remark \/ Sweep \/ CheckLimit
Next == Program \/ Collector

\* A program in a loop keeps executing instructions; it need not allocate.
Fairness == WF_vars(Next)
Spec == Init /\ [][Next]_vars /\ Fairness

-----------------------------------------------------------------------------
(* Properties *)

\* The counters stay in their ranges, and marking can get at all that the
\* program holds.
TypeOK ==
  /\ {white, gray, black, nextGc} \subseteq Nat
  /\ held \in 0..Keep /\ made \in 0..Rate
  /\ due \in 0..white
  /\ held <= Allocated /\ (marking => held <= due + gray + black)
  /\ marking \in BOOLEAN /\ (~marking => due = 0 /\ gray = 0 /\ black = 0)
  /\ work \in 0..MarkWork
  /\ turns \in 0..(Period - 1)
  /\ pc \in {"run", "step", "mark", "limit", "failed"}

\* A cycle that has begun ends, when the program allocates less between two calls
\* of gc_step than one of them traces: every object that is made meanwhile is gray
\* (value.cpp:238-244), and the gray stack must still empty and stay empty
\* when the roots are marked again, however the program drops and stores
\* (vm.cpp:160-172).
CycleEnds == marking ~> ~marking

\* Such a program, when it holds Keep objects at most, does not run out of memory:
\* the threshold after a sweep and what is allocated until the next one are bounded
\* by what the program holds (vm.cpp:188, 323).
LimitKept == pc # "failed"
=============================================================================
