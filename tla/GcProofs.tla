------------------------------ MODULE GcProofs ------------------------------
(***************************************************************************)
(* Memory safety of the collector of Gc for any set of objects, any number *)
(* of fields and any amount of work per step.                              *)
(***************************************************************************)
EXTENDS Gc, TLAPS

\* Either every store of a program goes through a barrier, or the collector
\* is only ever run to completion; and no class has a constructor.  The theorems
\* fail without either part: for UnsafePrograms and Constructing of MCGc.
SafeConfig ==
  \A p \in Programs :
    /\ p.types \cap UnbarrieredTypes = {} \/ ~p.loops
    /\ ~p.constructs

\* While the program runs, a set of objects stored with the store barrier is
\* black or gray and the tri-colour invariant survives: the argument shared by
\* allocation, interning and every barriered store.
LEMMA BarrierKeepsColours ==
  ASSUME GcInv, gcpc = "off", NEW S \in SUBSET Objects, StoreBarrier(S)
  PROVE  /\ marked' \subseteq marked \cup S
         /\ gray' \subseteq gray \cup S
         /\ marked \subseteq marked'
         /\ gray' \subseteq marked'
         /\ marked' \ gray' = marked \ gray
         /\ marking => S \subseteq marked'
         /\ ~marking => marked' = {} /\ gray' = {}
  <1>1. gray \subseteq marked
    BY DEF GcInv, MarksAreLive
  <1>2. CASE marking
    BY <1>1, <1>2 DEF StoreBarrier, Mark
  <1>3. CASE ~marking
    <2>1. marked = {} /\ marked' = marked /\ gray' = gray
      BY <1>3 DEF GcInv, StoreBarrier, BarrierUp, NothingStale
    <2>2. QED
      BY <1>1, <1>3, <2>1
  <1>4. QED
    BY <1>2, <1>3

LEMMA InitInv == Init => GcInv
  <1> SUFFICES ASSUME Init PROVE GcInv
    OBVIOUS
  <1>1. TypeOK
    <2>1. 0 \in 0..MarkWork
      BY MarkWorkAssumption
    <2>2. QED
      BY <2>1 DEF Init, TypeOK, BarrieredTypes
  <1>2. NoDangling /\ TriColour /\ FreedIsBlank /\ OnlyUsedTypes /\ MarksAreLive
    BY DEF Init, NoDangling, TriColour, FreedIsBlank, OnlyUsedTypes, Types, ghosts,
         MarksAreLive, RootSet, Live
  <1>3. BarrierUp /\ NothingStale /\ CollectorControl
    BY DEF Init, BarrierUp, CollectorControl, NothingStale
  <1>4. QED
    BY <1>1, <1>2, <1>3 DEF GcInv

\* A program without constructors leaves the slots above its registers alone.
LEMMA MutatorSlots ==
  ASSUME ~program.constructs, Mutator
  PROVE  UNCHANGED slots
  BY DEF Mutator, Allocate, Uncovered, Intern, Drop, Popped, Load, Take, Store, SignalSet,
         UpvalueSet, FiberYield, slots

\* Every action of the program preserves the invariant.
LEMMA MutatorInv == ASSUME SafeConfig, GcInv, Mutator PROVE GcInv'
  <1> USE DEF GcInv, NothingStale, RootSet, Live, slots
  <1>0. ~program.constructs /\ popped = {} /\ stale = {} /\ UNCHANGED slots
    <2>1. ~program.constructs
      BY DEF SafeConfig, TypeOK
    <2>2. QED
      BY <2>1, MutatorSlots
  <1> USE <1>0
  <1>1. ASSUME NEW o \in Objects, NEW t \in Types, NEW S \in SUBSET roots,
               Allocate(o, t, S)
        PROVE  GcInv'
    <2>1. StoreBarrier({o}) /\ {o} \in SUBSET Objects /\ gcpc = "off"
      BY <1>1 DEF Allocate, AllocBarrier, Mutating, Uncovered
    <2>2. /\ marked' \subseteq marked \cup {o} /\ gray' \subseteq gray \cup {o}
          /\ marked \subseteq marked' /\ gray' \subseteq marked'
          /\ marked' \ gray' = marked \ gray
          /\ ~marking => marked' = {} /\ gray' = {}
      BY <2>1, BarrierKeepsColours
    <2>3. /\ alive' = alive \cup {o} /\ roots' = roots \cup {o}
          /\ refs' = [refs EXCEPT ![o] = S] /\ type' = [type EXCEPT ![o] = t]
          /\ UNCHANGED <<table, marking, phase, gcpc, work, ghosts>>
          /\ o \notin alive
      BY <1>1 DEF Allocate, Uncovered
    <2>4. TypeOK'
      <3>1. t \in BarrieredTypes \cup UnbarrieredTypes
        BY ProgramsAssumption DEF TypeOK, Types
      <3>2. QED
        BY <2>2, <2>3, <3>1 DEF TypeOK, ghosts
    <2>5. NoDangling'
      BY <2>3 DEF NoDangling, TypeOK
    <2>6. TriColour'
      BY <2>2, <2>3 DEF TriColour, TypeOK, MarksAreLive
    <2>7. FreedIsBlank' /\ OnlyUsedTypes'
      BY <2>3 DEF FreedIsBlank, OnlyUsedTypes, Types, ghosts, TypeOK
    <2>8. MarksAreLive'
      BY <2>2, <2>3 DEF MarksAreLive
    <2>9. BarrierUp' /\ NothingStale' /\ CollectorControl'
      BY <2>1, <2>2, <2>3 DEF BarrierUp, CollectorControl, ghosts
    <2>10. QED
      BY <2>4, <2>5, <2>6, <2>7, <2>8, <2>9
  <1>2. ASSUME NEW o \in Objects, Intern(o)
        PROVE  GcInv'
    <2>1. StoreBarrier({o}) /\ {o} \in SUBSET Objects /\ gcpc = "off"
      BY <1>2 DEF Intern, AllocBarrier, Mutating
    <2>2. /\ marked' \subseteq marked \cup {o} /\ gray' \subseteq gray \cup {o}
          /\ marked \subseteq marked' /\ gray' \subseteq marked'
          /\ marked' \ gray' = marked \ gray
          /\ ~marking => marked' = {} /\ gray' = {}
      BY <2>1, BarrierKeepsColours
    <2>3. /\ alive' = alive \cup {o} /\ table' = table \cup {o}
          /\ type' = [type EXCEPT ![o] = "string"]
          /\ UNCHANGED <<refs, roots, marking, phase, gcpc, work, ghosts>>
          /\ o \notin alive
      BY <1>2 DEF Intern
    <2>4. TypeOK'
      BY <2>2, <2>3 DEF TypeOK, BarrieredTypes, ghosts
    <2>5. NoDangling'
      BY <2>3 DEF NoDangling, FreedIsBlank, TypeOK
    <2>6. TriColour'
      BY <2>2, <2>3 DEF TriColour, MarksAreLive
    <2>7. FreedIsBlank' /\ OnlyUsedTypes'
      BY <2>3 DEF FreedIsBlank, OnlyUsedTypes, Types, ghosts, TypeOK
    <2>8. MarksAreLive'
      BY <2>2, <2>3 DEF MarksAreLive
    <2>9. BarrierUp' /\ NothingStale' /\ CollectorControl'
      BY <2>1, <2>2, <2>3 DEF BarrierUp, CollectorControl, ghosts
    <2>10. QED
      BY <2>4, <2>5, <2>6, <2>7, <2>8, <2>9
  <1>3. ASSUME NEW x \in Objects, Drop(x)
        PROVE  GcInv'
    BY <1>3
    DEF Drop, Mutating, gcVars, ghosts, TypeOK, NoDangling, TriColour, FreedIsBlank,
        OnlyUsedTypes, MarksAreLive, BarrierUp, CollectorControl, Types, Popped
  <1>4. ASSUME NEW c \in Objects, NEW x \in Objects, Load(c, x)
        PROVE  GcInv'
    BY <1>4
    DEF Load, Mutating, gcVars, ghosts, TypeOK, NoDangling, TriColour, FreedIsBlank,
        OnlyUsedTypes, MarksAreLive, BarrierUp, CollectorControl, Types
  <1>5. ASSUME NEW c \in Objects, NEW x \in Objects, Take(c, x)
        PROVE  GcInv'
    BY <1>5
    DEF Take, Mutating, gcVars, ghosts, TypeOK, NoDangling, TriColour, FreedIsBlank,
        OnlyUsedTypes, MarksAreLive, BarrierUp, CollectorControl, Types
  <1>6. ASSUME NEW c \in Objects, NEW x \in Objects, NEW Old \in SUBSET refs[c],
               Store(c, x, Old)
        PROVE  GcInv'
    <2>1. StoreBarrier({x}) /\ {x} \in SUBSET Objects /\ gcpc = "off"
      BY <1>6 DEF Store, Mutating
    <2>2. /\ marked' \subseteq marked \cup {x} /\ gray' \subseteq gray \cup {x}
          /\ marked \subseteq marked' /\ gray' \subseteq marked'
          /\ marked' \ gray' = marked \ gray
          /\ marking => {x} \subseteq marked'
          /\ ~marking => marked' = {} /\ gray' = {}
      BY <2>1, BarrierKeepsColours
    <2>3. /\ refs' = [refs EXCEPT ![c] = (refs[c] \ Old) \cup {x}]
          /\ UNCHANGED <<alive, type, roots, table, marking, phase, gcpc, work, ghosts>>
          /\ c \in alive /\ x \in alive
      BY <1>6 DEF Store, NoDangling
    <2>4. TypeOK'
      BY <2>2, <2>3 DEF TypeOK, ghosts
    <2>5. NoDangling'
      BY <2>3 DEF NoDangling, TypeOK
    <2>6. TriColour'
      BY <2>2, <2>3 DEF TriColour, TypeOK
    <2>7. FreedIsBlank' /\ OnlyUsedTypes' /\ MarksAreLive'
      BY <2>2, <2>3 DEF FreedIsBlank, OnlyUsedTypes, Types, ghosts, MarksAreLive, TypeOK
    <2>8. BarrierUp' /\ NothingStale' /\ CollectorControl'
      BY <2>1, <2>2, <2>3 DEF BarrierUp, CollectorControl, ghosts
    <2>9. QED
      BY <2>4, <2>5, <2>6, <2>7, <2>8
  <1>7. ASSUME NEW s \in Objects, NEW S \in SUBSET roots, NEW Old \in SUBSET refs[s],
               s \in roots, Mutating, type[s] \in UnbarrieredTypes,
               refs' = [refs EXCEPT ![s] = (refs[s] \ Old) \cup S],
               roots' = roots \/ roots' = roots \ S,
               UNCHANGED <<alive, type, table, gcVars, ghosts>>
        PROVE  GcInv'
    <2>1. ~program.loops
      <3>1. s \in alive /\ type[s] \in Types \cup {"string"}
        BY <1>7 DEF NoDangling, OnlyUsedTypes, Types, ghosts
      <3>2. "string" \notin UnbarrieredTypes
        BY DEF UnbarrieredTypes
      <3>3. QED
        BY <1>7, <3>1, <3>2 DEF SafeConfig, TypeOK, Types
    <2>2. marked = {} /\ marked' = {} /\ gray' = gray
      BY <1>7, <2>1 DEF BarrierUp, Mutating, gcVars, ghosts
    <2>3. S \subseteq alive /\ s \in alive
      BY <1>7 DEF NoDangling
    <2>4. TypeOK'
      BY <1>7 DEF TypeOK, gcVars, ghosts
    <2>5. NoDangling'
      BY <1>7, <2>3 DEF NoDangling, TypeOK
    <2>6. TriColour' /\ FreedIsBlank' /\ OnlyUsedTypes'
      BY <1>7, <2>2, <2>3 DEF TriColour, FreedIsBlank, OnlyUsedTypes, Types, ghosts, TypeOK
    <2>7. MarksAreLive' /\ BarrierUp' /\ NothingStale' /\ CollectorControl'
      BY <1>7, <2>2
      DEF MarksAreLive, BarrierUp, CollectorControl, Mutating, gcVars, ghosts
    <2>8. QED
      BY <2>4, <2>5, <2>6, <2>7
  <1>8. ASSUME NEW s \in Objects, NEW x \in Objects, NEW Old \in SUBSET refs[s],
               SignalSet(s, x, Old)
        PROVE  GcInv'
    <2>1. /\ {x} \in SUBSET roots /\ type[s] \in UnbarrieredTypes
          /\ refs' = [refs EXCEPT ![s] = (refs[s] \ Old) \cup {x}]
      BY <1>8 DEF SignalSet, UnbarrieredTypes
    <2>2. QED
      BY <1>7, <1>8, <2>1 DEF SignalSet
  <1>9. ASSUME NEW u \in Objects, NEW x \in Objects, UpvalueSet(u, x)
        PROVE  GcInv'
    <2>1. /\ {x} \in SUBSET roots /\ type[u] \in UnbarrieredTypes
          /\ refs' = [refs EXCEPT ![u] = (refs[u] \ refs[u]) \cup {x}]
      BY <1>9 DEF UpvalueSet, UnbarrieredTypes
    <2>2. QED
      BY <1>7, <1>9, <2>1 DEF UpvalueSet
  <1>10. ASSUME NEW f \in Objects, NEW S \in SUBSET roots, NEW Old \in SUBSET refs[f],
                FiberYield(f, Old, S)
         PROVE  GcInv'
    <2>1. type[f] \in UnbarrieredTypes
      BY <1>10 DEF FiberYield, UnbarrieredTypes, Popped
    <2>2. QED
      BY <1>7, <1>10, <2>1 DEF FiberYield, Popped
  <1>11. QED
    BY <1>1, <1>2, <1>3, <1>4, <1>5, <1>6, <1>8, <1>9, <1>10 DEF Mutator

\* Every step of the collector preserves the invariant.
LEMMA CollectorInv == ASSUME GcInv, Collector PROVE GcInv'
  <1> USE DEF GcInv, NothingStale, RootSet, Live, slots
  <1>1. CASE StepBegin
    <2>1. RootSet \subseteq alive
      BY DEF NoDangling
    <2>2. TypeOK' /\ NoDangling' /\ FreedIsBlank' /\ OnlyUsedTypes'
      BY <1>1, MarkWorkAssumption
      DEF StepBegin, Doomed, Mark, heapVars, TypeOK, NoDangling, FreedIsBlank,
          OnlyUsedTypes, Types, ghosts
    <2>3. TriColour' /\ MarksAreLive'
      BY <1>1, <2>1 DEF StepBegin, Mark, heapVars, TriColour, MarksAreLive
    <2>4. BarrierUp' /\ NothingStale' /\ CollectorControl'
      BY <1>1 DEF StepBegin, heapVars, BarrierUp, CollectorControl
    <2>5. QED
      BY <2>2, <2>3, <2>4
  <1>2. CASE StepResume
    BY <1>2, MarkWorkAssumption
    DEF StepResume, heapVars, TypeOK, NoDangling, TriColour, FreedIsBlank, OnlyUsedTypes,
        MarksAreLive, BarrierUp, CollectorControl, ghosts, Types
  <1>3. CASE StepPause
    BY <1>3, MarkWorkAssumption
    DEF StepPause, heapVars, TypeOK, NoDangling, TriColour, FreedIsBlank, OnlyUsedTypes,
        MarksAreLive, BarrierUp, CollectorControl, ghosts, Types
  <1>4. CASE StepRemark
    <2>1. RootSet \subseteq alive
      BY DEF NoDangling
    <2>2. TypeOK' /\ NoDangling' /\ FreedIsBlank' /\ OnlyUsedTypes'
      <3>1. UNCHANGED <<heapVars, ghosts>>
        BY <1>4 DEF StepRemark, Remarked
      <3>2. work' \in 0..MarkWork /\ marked' \subseteq Objects /\ gray' \subseteq Objects
        BY <1>4, <2>1, MarkWorkAssumption DEF StepRemark, Remarked, Mark, TypeOK
      <3>3. /\ marking' \in BOOLEAN
            /\ phase' \in {"Idle", "Marking", "Sweeping"}
            /\ gcpc' \in {"off", "step", "full", "sweep"}
        BY <1>4 DEF StepRemark, Remarked, TypeOK
      <3>4. QED
        BY <3>1, <3>2, <3>3
        DEF heapVars, TypeOK, NoDangling, FreedIsBlank, OnlyUsedTypes, Types, ghosts
    <2>3. TriColour' /\ MarksAreLive'
      BY <1>4, <2>1 DEF StepRemark, Remarked, Mark, heapVars, TriColour, MarksAreLive
    <2>4. BarrierUp' /\ NothingStale' /\ CollectorControl'
      BY <1>4
      DEF StepRemark, Remarked, Mark, heapVars, ghosts, BarrierUp,
          CollectorControl
    <2>5. QED
      BY <2>2, <2>3, <2>4
  <1>5. CASE FullBegin
    <2>1. RootSet \subseteq alive
      BY DEF NoDangling
    <2>2. TypeOK' /\ NoDangling' /\ FreedIsBlank' /\ OnlyUsedTypes'
      BY <1>5
      DEF FullBegin, Doomed, Mark, heapVars, TypeOK, NoDangling, FreedIsBlank,
          OnlyUsedTypes, Types, ghosts
    <2>3. TriColour' /\ MarksAreLive'
      BY <1>5, <2>1 DEF FullBegin, Mark, heapVars, TriColour, MarksAreLive
    <2>4. BarrierUp' /\ NothingStale' /\ CollectorControl'
      BY <1>5
      DEF FullBegin, Mark, heapVars, BarrierUp, CollectorControl
    <2>5. QED
      BY <2>2, <2>3, <2>4
  <1>6. CASE Sweep
    <2>1. /\ gray = {}
          /\ RootSet \subseteq marked
          /\ \A o \in marked : refs[o] \subseteq marked
      BY <1>6 DEF Sweep, SweptMarks, CollectorControl, TriColour
    <2>2. marked \subseteq alive /\ marked \subseteq Objects
      BY DEF MarksAreLive, TypeOK
    <2>3. TypeOK'
      BY <1>6, <2>2 DEF Sweep, SweptMarks, TypeOK, BarrieredTypes
    <2>4. NoDangling' /\ FreedIsBlank' /\ OnlyUsedTypes'
      BY <1>6, <2>1, <2>2
      DEF Sweep, SweptMarks, NoDangling, FreedIsBlank, OnlyUsedTypes, Types, ghosts, TypeOK
    <2>5. TriColour' /\ MarksAreLive'
      BY <1>6, <2>1 DEF Sweep, SweptMarks, TriColour, MarksAreLive
    <2>6. BarrierUp' /\ NothingStale' /\ CollectorControl'
      BY <1>6 DEF Sweep, SweptMarks, BarrierUp, CollectorControl
    <2>7. QED
      BY <2>3, <2>4, <2>5, <2>6
  <1>7. ASSUME NEW o \in Objects, Trace(o)
        PROVE  GcInv'
    <2>1. /\ o \in marked /\ o \in alive
          /\ refs[o] \subseteq alive
          /\ gcpc \in {"step", "full"}
      BY <1>7 DEF Trace, MayTrace, Traced, MarksAreLive, NoDangling
    <2>2. TypeOK'
      <3>1. work' \in 0..MarkWork
        BY <1>7, MarkWorkAssumption DEF Trace, MayTrace, Traced, TypeOK
      <3>2. QED
        BY <1>7, <3>1 DEF Trace, MayTrace, Traced, heapVars, ghosts, TypeOK
    <2>3. NoDangling' /\ FreedIsBlank' /\ OnlyUsedTypes'
      BY <1>7 DEF Trace, MayTrace, Traced, heapVars, NoDangling, FreedIsBlank,
           OnlyUsedTypes, Types, ghosts
    <2>4. TriColour' /\ MarksAreLive'
      BY <1>7, <2>1 DEF Trace, MayTrace, Traced, heapVars, TriColour, MarksAreLive
    <2>5. BarrierUp' /\ NothingStale' /\ CollectorControl'
      BY <1>7, <2>1
      DEF Trace, MayTrace, Traced, heapVars, ghosts, BarrierUp, CollectorControl
    <2>6. QED
      BY <2>2, <2>3, <2>4, <2>5
  <1>8. QED
    BY <1>1, <1>2, <1>3, <1>4, <1>5, <1>6, <1>7 DEF Collector

LEMMA StutterInv == ASSUME GcInv, UNCHANGED vars PROVE GcInv'
  BY DEF vars, heapVars, gcVars, ghosts, Types, GcInv, TypeOK, NoDangling, TriColour,
       FreedIsBlank, OnlyUsedTypes, MarksAreLive, BarrierUp, CollectorControl, NothingStale,
       RootSet, Live, slots

\* The invariant holds in every reachable state.
THEOREM GcInvariant == ASSUME SafeConfig PROVE Spec => []GcInv
  <1>1. GcInv /\ [Next]_vars => GcInv'
    BY MutatorInv, CollectorInv, StutterInv DEF Next
  <1>2. QED
    BY <1>1, InitInv, PTL DEF Spec

\* Memory safety of the collector (value.cpp, VM::gc_step, collect_garbage):
\* whatever the program allocates, loads, stores and drops between two steps,
\* no sweep deletes an object the program can still reach.
THEOREM MemorySafety == ASSUME SafeConfig PROVE Spec => []NoDangling
  <1>1. GcInv => NoDangling
    BY DEF GcInv
  <1>2. QED
    BY <1>1, GcInvariant, PTL

\* The barriers of the store instructions and of the allocators keep every
\* reference of a black object marked.
THEOREM Colours == ASSUME SafeConfig PROVE Spec => []TriColour
  <1>1. GcInv => TriColour
    BY DEF GcInv
  <1>2. QED
    BY <1>1, GcInvariant, PTL

-----------------------------------------------------------------------------
(* Types, of any program *)

LEMMA MutatorTypes ==
  ASSUME TypeOK, Mutator
  PROVE  TypeOK'
  <1> USE DEF slots
  <1>1. ASSUME NEW o \in Objects, NEW t \in Types, NEW S \in SUBSET roots, Allocate(o, t, S)
        PROVE  TypeOK'
    <2>1. t \in BarrieredTypes \cup UnbarrieredTypes
      BY ProgramsAssumption DEF TypeOK, Types
    <2>2. marked' \subseteq Objects /\ gray' \subseteq Objects
      BY <1>1 DEF Allocate, AllocBarrier, StoreBarrier, Mark, TypeOK, Uncovered
    <2>3. QED
      BY <1>1, <2>1, <2>2 DEF Allocate, TypeOK, ghosts, Uncovered
  <1>2. ASSUME NEW o \in Objects, Intern(o)
        PROVE  TypeOK'
    <2>1. marked' \subseteq Objects /\ gray' \subseteq Objects
      BY <1>2 DEF Intern, AllocBarrier, StoreBarrier, Mark, TypeOK
    <2>2. QED
      BY <1>2, <2>1 DEF Intern, TypeOK, BarrieredTypes, ghosts
  <1>3. ASSUME NEW o \in Objects, Drop(o)
        PROVE  TypeOK'
    BY <1>3 DEF Drop, TypeOK, gcVars, ghosts, Popped
  <1>4. ASSUME NEW c \in Objects, NEW x \in Objects, Load(c, x) \/ Take(c, x) \/ UpvalueSet(c, x)
        PROVE  TypeOK'
    BY <1>4 DEF Load, Take, UpvalueSet, TypeOK, gcVars, ghosts
  <1>5. ASSUME NEW c \in Objects, NEW x \in Objects, NEW Old \in SUBSET refs[c], Store(c, x, Old)
        PROVE  TypeOK'
    <2>1. marked' \subseteq Objects /\ gray' \subseteq Objects
      BY <1>5 DEF Store, StoreBarrier, Mark, TypeOK
    <2>2. QED
      BY <1>5, <2>1 DEF Store, TypeOK, ghosts
  <1>6. ASSUME NEW c \in Objects, NEW x \in Objects, NEW Old \in SUBSET refs[c], SignalSet(c, x, Old)
        PROVE  TypeOK'
    BY <1>6 DEF SignalSet, TypeOK, gcVars, ghosts
  <1>7. ASSUME NEW f \in Objects, NEW S \in SUBSET roots, NEW Old \in SUBSET refs[f],
               FiberYield(f, Old, S)
        PROVE  TypeOK'
    BY <1>7 DEF FiberYield, TypeOK, gcVars, ghosts, Popped
  <1>8. QED
    BY <1>1, <1>2, <1>3, <1>4, <1>5, <1>6, <1>7 DEF Mutator

LEMMA CollectorTypes ==
  ASSUME TypeOK, Collector
  PROVE  TypeOK'
  <1> USE DEF slots
  <1>1. CASE StepBegin
    BY <1>1, MarkWorkAssumption DEF StepBegin, Doomed, Mark, RootSet, heapVars, TypeOK,
         Live
  <1>2. CASE StepResume
    BY <1>2, MarkWorkAssumption DEF StepResume, heapVars, ghosts, TypeOK
  <1>3. CASE StepPause
    BY <1>3, MarkWorkAssumption DEF StepPause, heapVars, ghosts, TypeOK
  <1>4. CASE StepRemark
    <2>1. marked' \subseteq Objects /\ gray' \subseteq Objects
      BY <1>4 DEF StepRemark, Remarked, Mark, RootSet, TypeOK, Live
    <2>2. marking' \in BOOLEAN /\ phase' \in {"Idle", "Marking", "Sweeping"}
          /\ gcpc' \in {"off", "step", "full", "sweep"} /\ work' = 0
      BY <1>4 DEF StepRemark, TypeOK
    <2>3. QED
      BY <1>4, <2>1, <2>2, MarkWorkAssumption DEF StepRemark, heapVars, ghosts, TypeOK,
           slots
  <1>5. CASE FullBegin
    BY <1>5 DEF FullBegin, Doomed, Mark, RootSet, heapVars, TypeOK, Live
  <1>6. CASE Sweep
    BY <1>6 DEF Sweep, SweptMarks, BarrieredTypes, TypeOK
  <1>7. ASSUME NEW o \in Objects, Trace(o)
        PROVE  TypeOK'
    <2>1. marked' \subseteq Objects /\ gray' \subseteq Objects
      BY <1>7 DEF Trace, Traced, TypeOK
    <2>2. work' \in 0..MarkWork
      BY <1>7, MarkWorkAssumption DEF Trace, MayTrace, TypeOK
    <2>3. QED
      BY <1>7, <2>1, <2>2 DEF Trace, heapVars, ghosts, TypeOK
  <1>8. QED
    BY <1>1, <1>2, <1>3, <1>4, <1>5, <1>6, <1>7 DEF Collector

\* Whatever a program stores, with or without a barrier, gc_step never exceeds
\* its work limit and the collector's control stays in its states.
THEOREM HeapTyped == Spec => []TypeOK
  <1>1. Init => TypeOK
    BY InitInv DEF GcInv
  <1>2. TypeOK /\ [Next]_vars => TypeOK'
    BY MutatorTypes, CollectorTypes DEF Next, vars, heapVars, gcVars, ghosts, TypeOK, slots
  <1>3. QED
    BY <1>1, <1>2, PTL DEF Spec

-----------------------------------------------------------------------------
(* What a new cycle dooms *)

\* What the program holds can be reached, and so can what is referenced there.
LEMMA ReachableIsClosed ==
  ASSUME GcInv
  PROVE  /\ Live \subseteq Reachable
         /\ \A o \in Reachable : refs[o] \subseteq Reachable
  <1>1. Live \subseteq Reachable
    BY DEF GcInv, NoDangling, RootSet, Reachable, Live
  <1>2. ASSUME NEW o \in Reachable, NEW x \in refs[o]
        PROVE  x \in Reachable
    <2>1. x \in alive /\ o \in alive
      BY <1>2 DEF GcInv, NoDangling, Reachable, RootSet, Live
    <2>2. ASSUME NEW M \in SUBSET alive, Live \cap alive \subseteq M,
                 \A p \in M : refs[p] \cap alive \subseteq M
          PROVE  x \in M
      <3>1. o \in M
        BY <1>2, <2>2 DEF Reachable
      <3>2. QED
        BY <1>2, <2>1, <2>2, <3>1
    <2>3. QED
      BY <2>1, <2>2 DEF Reachable
  <1>3. QED
    BY <1>1, <1>2

\* A new cycle over unmarked objects, or one that promises nothing.
LEMMA NewlyDoomed ==
  ASSUME GcInv, ~program.constructs, gcpc = "off"
  PROVE  /\ Doomed \subseteq alive /\ RootSet \cap Doomed = {}
         /\ \A o \in alive \ Doomed : refs[o] \cap Doomed = {}
         /\ marked \cap Doomed = {}
  <1>1. CASE marking
    BY <1>1 DEF Doomed
  <1>2. CASE ~marking
    <2>1. marked = {}
      BY <1>2 DEF GcInv, BarrierUp, NothingStale
    <2>2. Doomed = alive \ Reachable
      BY <1>2 DEF Doomed
    <2>3. \A o \in alive \ Doomed : o \in Reachable
      BY <2>2
    <2>4. RootSet = Live
      BY DEF GcInv, NothingStale, RootSet
    <2>5. QED
      BY <2>1, <2>2, <2>3, <2>4, ReachableIsClosed
  <1>3. QED
    BY <1>1, <1>2

\* No action of the program reaches into what is doomed.
LEMMA MutatorApart ==
  ASSUME GcInv, ~program.constructs, DoomedIsApart, Mutator
  PROVE  DoomedIsApart'
  <1> USE DEF DoomedIsApart, RootSet, Live, slots
  <1> UNCHANGED slots
    BY MutatorSlots
  <1>1. ASSUME NEW S \in SUBSET Objects, StoreBarrier(S), S \cap doomed = {}
        PROVE  marked' \cap doomed = {}
    BY <1>1 DEF StoreBarrier, Mark
  <1>2. ASSUME NEW o \in Objects, NEW t \in Types, NEW S \in SUBSET roots,
               Allocate(o, t, S)
        PROVE  DoomedIsApart'
    <2>1. o \notin doomed /\ StoreBarrier({o}) /\ S \cap doomed = {}
      BY <1>2 DEF Allocate, AllocBarrier, Uncovered
    <2>2. marked' \cap doomed = {}
      BY <1>1, <2>1
    <2>3. QED
      BY <1>2, <2>1, <2>2 DEF Allocate, ghosts, GcInv, TypeOK, Uncovered
  <1>3. ASSUME NEW o \in Objects, Intern(o)
        PROVE  DoomedIsApart'
    <2>1. o \notin doomed /\ StoreBarrier({o}) /\ refs[o] = {}
      BY <1>3 DEF Intern, AllocBarrier, GcInv, FreedIsBlank
    <2>2. marked' \cap doomed = {}
      BY <1>1, <2>1
    <2>3. QED
      BY <1>3, <2>1, <2>2 DEF Intern, ghosts
  <1>4. ASSUME NEW x \in Objects, Drop(x)
        PROVE  DoomedIsApart'
    BY <1>4 DEF Drop, ghosts, gcVars, Popped
  <1>5. ASSUME NEW c \in Objects, NEW x \in Objects, Load(c, x) \/ Take(c, x)
        PROVE  DoomedIsApart'
    <2>1. c \in alive \ doomed /\ x \in refs[c]
      BY <1>5 DEF Load, Take, GcInv, NoDangling
    <2>2. x \notin doomed
      BY <2>1
    <2>3. QED
      BY <1>5, <2>1, <2>2 DEF Load, Take, ghosts, gcVars, GcInv, TypeOK
  <1>6. ASSUME NEW c \in Objects, NEW S \in SUBSET roots, NEW Old \in SUBSET refs[c],
               c \in roots, refs' = [refs EXCEPT ![c] = (refs[c] \ Old) \cup S],
               roots' = roots \/ roots' = roots \ S, marked' \cap doomed = {},
               UNCHANGED <<alive, table, phase, gcpc, ghosts>>
        PROVE  DoomedIsApart'
    <2>1. S \cap doomed = {} /\ c \in alive \ doomed
      BY <1>6 DEF GcInv, NoDangling
    <2>2. \A o \in alive \ doomed : refs'[o] \cap doomed = {}
      BY <1>6, <2>1 DEF GcInv, TypeOK
    <2>3. QED
      BY <1>6, <2>2 DEF ghosts
  <1>7. ASSUME NEW c \in Objects, NEW x \in Objects, NEW Old \in SUBSET refs[c],
               Store(c, x, Old) \/ SignalSet(c, x, Old)
        PROVE  DoomedIsApart'
    <2>1. x \in roots /\ x \notin doomed
      BY <1>7 DEF Store, SignalSet
    <2>2. marked' \cap doomed = {}
      BY <1>1, <1>7, <2>1 DEF Store, SignalSet, gcVars
    <2>3. {x} \in SUBSET roots
      BY <2>1
    <2>4. QED
      BY <1>6, <1>7, <2>2, <2>3 DEF Store, SignalSet, gcVars
  <1>8. ASSUME NEW u \in Objects, NEW x \in Objects, UpvalueSet(u, x)
        PROVE  DoomedIsApart'
    <2>1. /\ {x} \in SUBSET roots /\ marked' \cap doomed = {}
          /\ refs' = [refs EXCEPT ![u] = (refs[u] \ refs[u]) \cup {x}]
      BY <1>8 DEF UpvalueSet, gcVars
    <2>2. QED
      BY <1>6, <1>8, <2>1 DEF UpvalueSet, gcVars
  <1>9. ASSUME NEW f \in Objects, NEW S \in SUBSET roots, NEW Old \in SUBSET refs[f],
               FiberYield(f, Old, S)
        PROVE  DoomedIsApart'
    BY <1>6, <1>9 DEF FiberYield, gcVars, Popped
  <1>10. QED
    BY <1>2, <1>3, <1>4, <1>5, <1>7, <1>8, <1>9 DEF Mutator

\* Marking starts from the roots, so it stays out of what is doomed, and a
\* sweep frees all of it.
LEMMA CollectorApart ==
  ASSUME GcInv, ~program.constructs, DoomedIsApart, Collector
  PROVE  DoomedIsApart'
  <1> USE DEF DoomedIsApart, RootSet, Live, slots
  <1>1. CASE StepBegin
    BY <1>1, NewlyDoomed DEF StepBegin, Mark, heapVars
  <1>2. CASE FullBegin
    <2>1. /\ doomed' = Doomed \/ doomed' = doomed
          /\ marked' = marked \cup RootSet /\ gcpc = "off" /\ gcpc' = "full"
          /\ UNCHANGED heapVars
      BY <1>2 DEF FullBegin, Mark
    <2>2. QED
      BY <2>1, NewlyDoomed DEF heapVars
  <1>3. CASE StepResume
    BY <1>3 DEF StepResume, heapVars, ghosts
  <1>4. CASE StepPause
    <2>1. phase = "Marking"
      BY <1>4 DEF StepPause, GcInv, CollectorControl
    <2>2. QED
      BY <1>4, <2>1 DEF StepPause, heapVars, ghosts
  <1>5. CASE StepRemark
    <2>1. phase = "Marking"
      BY <1>5 DEF StepRemark, GcInv, CollectorControl
    <2>2. /\ marked' = marked \cup RootSet /\ UNCHANGED <<heapVars, ghosts>>
          /\ gcpc' = "off" => phase' = "Marking"
      BY <1>5, <2>1 DEF StepRemark, Remarked, Mark
    <2>3. QED
      BY <2>2 DEF heapVars, ghosts
  <1>6. CASE Sweep
    <2>1. doomed' = {}
      BY <1>6 DEF Sweep
    <2>2. QED
      BY <2>1
  <1>7. ASSUME NEW o \in Objects, Trace(o)
        PROVE  DoomedIsApart'
    <2>1. o \in alive \ doomed
      BY <1>7 DEF Trace, GcInv, MarksAreLive
    <2>2. marked' \cap doomed = {}
      BY <1>7, <2>1 DEF Trace
    <2>3. QED
      BY <1>7, <2>2 DEF Trace, MayTrace, heapVars, ghosts
  <1>8. QED
    BY <1>1, <1>2, <1>3, <1>4, <1>5, <1>6, <1>7 DEF Collector

LEMMA DoomedInvariant == ASSUME SafeConfig PROVE Spec => [](GcInv /\ DoomedIsApart)
  <1>1. Init => DoomedIsApart
    BY DEF Init, DoomedIsApart, RootSet, Live
  <1>2. ASSUME GcInv, DoomedIsApart, UNCHANGED vars
        PROVE  DoomedIsApart'
    BY <1>2 DEF DoomedIsApart, RootSet, vars, heapVars, gcVars, ghosts, Live, slots
  <1>3. GcInv /\ DoomedIsApart /\ [Next]_vars => DoomedIsApart'
    <2>1. GcInv => ~program.constructs
      BY DEF SafeConfig, GcInv, TypeOK
    <2>2. QED
      BY <1>2, <2>1, MutatorApart, CollectorApart DEF Next
  <1>4. QED
    BY <1>1, <1>3, GcInvariant, PTL DEF Spec

\* The sweep that ends a cycle frees everything that was garbage when the cycle
\* began, however the program ran in between.
THEOREM GarbageIsFreed == ASSUME SafeConfig PROVE Spec => DeadIsFreed
  <1>1. ASSUME GcInv, DoomedIsApart, Next, gcpc # "off", phase' = "Idle", gcpc' = "off"
        PROVE  doomed \cap alive' = {}
    <2>1. CASE Sweep
      BY <1>1, <2>1 DEF Sweep, DoomedIsApart
    <2>2. CASE ~Sweep
      <3>1. phase = "Idle" /\ gcpc \in {"step", "full"}
        BY <1>1, <2>2
        DEF Next, Mutator, Collector, Mutating, Allocate, Intern, Drop, Load, Take, Store,
            SignalSet, UpvalueSet, FiberYield, StepBegin, StepResume, StepPause,
            StepRemark, FullBegin, Trace, gcVars, GcInv, TypeOK, CollectorControl,
            Uncovered, Popped, slots
      <3>2. QED
        BY <1>1, <2>2, <3>1
        DEF Next, Mutator, Collector, Mutating, Allocate, Intern, Drop, Load, Take, Store,
            SignalSet, UpvalueSet, FiberYield, StepBegin, StepResume, StepPause,
            StepRemark, FullBegin, Trace, gcVars, GcInv, CollectorControl, Uncovered,
            Popped, slots
    <2>3. QED
      BY <2>1, <2>2
  <1>2. GcInv /\ DoomedIsApart /\ [Next]_vars
          => [gcpc # "off" /\ phase' = "Idle" /\ gcpc' = "off" => doomed \cap alive' = {}]_vars
    BY <1>1
  <1>3. QED
    BY <1>2, DoomedInvariant, PTL DEF Spec, DeadIsFreed
=============================================================================
