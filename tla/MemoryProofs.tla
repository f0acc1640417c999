---------------------------- MODULE MemoryProofs -----------------------------
(***************************************************************************)
(* Gc implements Memory, for heaps of any size: the mutator's actions are  *)
(* its actions on what the program can reach, and the collector's are no   *)
(* step at all.  A set that is closed under references before and after a  *)
(* step and holds the roots shows that both heaps reach the same.          *)
(***************************************************************************)
EXTENDS GcProofs

Reach(R, r) == Unmanaged!Reach(R, r)

\* What is reached depends on the references of a closed set around it only.
LEMMA SameReach ==
  ASSUME NEW R, NEW V \in SUBSET Objects, R \subseteq V, NEW r, NEW s,
         \A p \in V : r[p] = s[p] /\ r[p] \subseteq V
  PROVE  Reach(R, r) = Reach(R, s) /\ Reach(R, r) \subseteq V
  <1>1. ASSUME NEW M \in SUBSET Objects, R \subseteq M, NEW t, \A p \in M : t[p] \subseteq M,
               \A p \in V : t[p] = r[p]
        PROVE  Reach(R, r) \subseteq M \cap V /\ Reach(R, s) \subseteq M \cap V
    <2>1. M \cap V \in SUBSET Objects /\ R \subseteq M \cap V
      BY <1>1
    <2>2. \A p \in M \cap V : r[p] \subseteq M \cap V /\ s[p] \subseteq M \cap V
      BY <1>1
    <2>3. QED
      BY <2>1, <2>2 DEF Reach, Unmanaged!Reach
  <1>2. Reach(R, r) \subseteq V
    BY <1>1
  <1>3. ASSUME NEW o \in Reach(R, r) PROVE o \in Reach(R, s)
    <2>1. ASSUME NEW M \in SUBSET Objects, R \subseteq M, \A p \in M : s[p] \subseteq M PROVE o \in M
      BY <1>1, <1>3, <2>1
    <2>2. QED
      BY <1>3, <2>1 DEF Reach, Unmanaged!Reach
  <1>4. ASSUME NEW o \in Reach(R, s) PROVE o \in Reach(R, r)
    <2>1. ASSUME NEW M \in SUBSET Objects, R \subseteq M, \A p \in M : r[p] \subseteq M PROVE o \in M
      BY <1>1, <1>4, <2>1
    <2>2. QED
      BY <1>4, <2>1 DEF Reach, Unmanaged!Reach
  <1>5. QED
    BY <1>2, <1>3, <1>4

\* The reachable objects of Gc, which it counts among the live ones.
LEMMA ReachableIs ==
  ASSUME GcInv
  PROVE  /\ Reachable = Reach(Live, refs) /\ Reachable \subseteq alive /\ alive \subseteq Objects
         /\ Live \subseteq Reachable /\ \A p \in Reachable : refs[p] \subseteq Reachable
  <1>1. Live \subseteq alive /\ alive \subseteq Objects /\ \A o \in alive : refs[o] \subseteq alive
    BY DEF GcInv, NoDangling, TypeOK, RootSet, Live
  <1>2. ASSUME NEW o \in Reachable, NEW M \in SUBSET Objects, Live \subseteq M,
               \A p \in M : refs[p] \subseteq M
        PROVE  o \in M
    <2>1. M \cap alive \in SUBSET alive /\ Live \cap alive \subseteq M \cap alive
      BY <1>2
    <2>2. \A p \in M \cap alive : refs[p] \cap alive \subseteq M \cap alive
      BY <1>2
    <2>3. o \in M \cap alive
      BY <1>2, <2>1, <2>2 DEF Reachable
    <2>4. QED
      BY <2>3
  <1>3. ASSUME NEW o \in Reach(Live, refs) PROVE o \in Reachable
    <2>1. o \in alive
      BY <1>1, <1>3 DEF Reach, Unmanaged!Reach
    <2>2. ASSUME NEW M \in SUBSET alive, Live \cap alive \subseteq M,
                 \A p \in M : refs[p] \cap alive \subseteq M
          PROVE  o \in M
      <3>1. M \in SUBSET Objects /\ Live \subseteq M /\ \A p \in M : refs[p] \subseteq M
        BY <1>1, <2>2
      <3>2. QED
        BY <1>3, <3>1 DEF Reach, Unmanaged!Reach
    <2>3. QED
      BY <2>1, <2>2 DEF Reachable
  <1>4. Reachable \subseteq alive
    BY DEF Reachable
  <1>5. Reachable \subseteq Reach(Live, refs)
    <2>1. Reachable \subseteq Objects
      BY <1>1, <1>4
    <2>2. QED
      BY <1>2, <2>1 DEF Reach, Unmanaged!Reach
  <1>6. Live \subseteq Reachable /\ \A p \in Reachable : refs[p] \subseteq Reachable
    BY <1>1, ReachableIsClosed DEF Reachable
  <1>7. QED
    BY <1>1, <1>3, <1>4, <1>5, <1>6

\* What the program sees of the heap.
LEMMA SeenIs ==
  ASSUME NEW f, NEW blank
  PROVE  /\ \A p \in Reachable : p \in Objects => Seen(f, blank)[p] = f[p]
         /\ DOMAIN Seen(f, blank) = Objects
  BY DEF Seen

LEMMA KnownIs == ASSUME GcInv PROVE Unmanaged!Known = Reachable
  <1>1. /\ Live \subseteq Reachable /\ Reachable \in SUBSET Objects
        /\ \A p \in Reachable : refs[p] \subseteq Reachable
    BY ReachableIs
  <1>2. \A p \in Reachable : Seen(refs, {})[p] = refs[p]
    BY <1>1, SeenIs
  <1>3. PICK r : r = Seen(refs, {})
    OBVIOUS
  <1>4. Reach(Live, r) = Reach(Live, refs)
    BY <1>1, <1>2, <1>3, SameReach
  <1>5. Unmanaged!Known = Reach(Live, r)
    BY <1>3 DEF Unmanaged!Known, Reach, Live
  <1>6. QED
    BY <1>4, <1>5, ReachableIs

\* After a step the program sees the types k and the references r, where they are
\* those of the heap on a closed set around the roots.
LEMMA SeenAfter ==
  ASSUME GcInv', NEW V \in SUBSET Objects, Live' \subseteq V, NEW k, NEW r,
         \A p \in V : k[p] = type'[p] /\ r[p] = refs'[p] /\ refs'[p] \subseteq V
  PROVE  Unmanaged!Left(k, r)
  <1>1. Reachable' = Reach(Live', refs')
    <2>1. (Reachable = Reach(Live, refs))'
      BY ReachableIs, PTL
    <2>2. QED
      BY <2>1 DEF Reach, Unmanaged!Reach
  <1>2. Reach(Live', r) = Reach(Live', refs') /\ Reach(Live', r) \subseteq V
    BY SameReach
  <1>3. Live' = roots' \cup table'
    BY DEF Live
  <1>4. PICK W : W = Reach(Live', r)
    OBVIOUS
  <1>5. Reachable' = W /\ W \subseteq V /\ W = Unmanaged!Reach(roots' \cup table', r)
    BY <1>1, <1>2, <1>3, <1>4 DEF Reach
  <1>6. Seen(type, "string")' = [o \in Objects |-> IF o \in W THEN k[o] ELSE "string"]
    BY <1>5 DEF Seen
  <1>7. Seen(refs, {})' = [o \in Objects |-> IF o \in W THEN r[o] ELSE {}]
    BY <1>5 DEF Seen
  <1>8. QED
    BY <1>5, <1>6, <1>7 DEF Unmanaged!Left

\* The facts about the program's view before and after a step that the cases need.
View(L, k, r) ==
  /\ L \in SUBSET Objects /\ L \subseteq alive /\ Live \subseteq L
  /\ Unmanaged!Known = L
  /\ \A p \in L : refs[p] \subseteq L
  /\ k \in [Objects -> BarrieredTypes \cup UnbarrieredTypes] /\ r \in [Objects -> SUBSET Objects]
  /\ k = Seen(type, "string") /\ r = Seen(refs, {})
  /\ \A p \in L : k[p] = type[p] /\ r[p] = refs[p]

LEMMA ViewExists == ASSUME GcInv PROVE \E L, k, r : View(L, k, r)
  <1>1. PICK L, k, r : L = Reachable /\ k = Seen(type, "string") /\ r = Seen(refs, {})
    OBVIOUS
  <1>2. /\ L \in SUBSET Objects /\ L \subseteq alive /\ Live \subseteq L
        /\ \A p \in L : refs[p] \subseteq L
    BY <1>1, ReachableIs
  <1>3. Unmanaged!Known = L
    BY <1>1, KnownIs
  <1>4. type \in [Objects -> BarrieredTypes \cup UnbarrieredTypes] /\ refs \in [Objects -> SUBSET Objects]
    BY DEF GcInv, TypeOK
  <1>5. k \in [Objects -> BarrieredTypes \cup UnbarrieredTypes] /\ r \in [Objects -> SUBSET Objects]
    BY <1>1, <1>4 DEF Seen, BarrieredTypes
  <1>6. \A p \in L : k[p] = type[p] /\ r[p] = refs[p]
    BY <1>1, <1>2, SeenIs
  <1>7. QED
    BY <1>1, <1>2, <1>3, <1>5, <1>6 DEF View

\* What the program sees of an object it holds after a step is what is there.
LEMMA SeenHeld ==
  ASSUME GcInv', NEW c \in roots'
  PROVE  Seen(refs, {})'[c] = refs'[c] /\ Seen(type, "string")'[c] = type'[c]
  <1>1. c \in Reachable' /\ c \in Objects
    <2>1. (Live \subseteq Reachable)' /\ (Reachable \subseteq alive)' /\ (alive \subseteq Objects)'
      BY ReachableIs, PTL
    <2>2. QED
      BY <2>1 DEF Live
  <1>2. QED
    BY <1>1 DEF Seen

\* A step that leaves the heap alone is seen by nobody.
LEMMA HeapStutter ==
  ASSUME UNCHANGED <<alive, type, refs, roots, table>>
  PROVE  UNCHANGED Unmanaged!vars
  BY DEF Unmanaged!vars, Seen, Reachable, Live

\* A store in an object that the program holds, of what it holds or was there.
LEMMA StoreSeen ==
  ASSUME GcInv, GcInv', NEW c \in roots, NEW N \in SUBSET (refs[c] \cup roots),
         refs' = [refs EXCEPT ![c] = N], UNCHANGED <<alive, type, roots, table>>
  PROVE  [Unmanaged!Next]_(Unmanaged!vars)
  <1>1. refs \in [Objects -> SUBSET Objects] /\ c \in Objects
    BY DEF GcInv, TypeOK
  <1>2. CASE refs[c] = N
    <2>1. refs' = refs
      BY <1>1, <1>2
    <2>2. QED
      BY <2>1, HeapStutter
  <1>3. CASE refs[c] # N
    <2>1. PICK L, k, r : View(L, k, r)
      BY ViewExists
    <2>2. c \in L /\ roots \subseteq L /\ refs[c] \subseteq L /\ N \subseteq L
      BY <2>1 DEF View, Live
    <2>3. refs'[c] = N /\ \A p \in Objects : p # c => refs'[p] = refs[p]
      BY <1>1
    <2>4. PICK s : s = [r EXCEPT ![c] = N]
      OBVIOUS
    <2>5. \A p \in L : k[p] = type'[p] /\ s[p] = refs'[p] /\ refs'[p] \subseteq L
      BY <2>1, <2>2, <2>3, <2>4 DEF View
    <2>6. Unmanaged!Left(k, s)
      BY <2>1, <2>5, SeenAfter DEF View, Live
    <2>7. Seen(refs, {})'[c] = N
      BY <2>3, SeenHeld
    <2>8. Unmanaged!Write(c)
      BY <1>3, <2>1, <2>2, <2>4, <2>6, <2>7 DEF Unmanaged!Write, View
    <2>9. QED
      BY <1>1, <2>8 DEF Unmanaged!Next
  <1>4. QED
    BY <1>2, <1>3

LEMMA AllocateSeen ==
  ASSUME GcInv, GcInv', NEW o \in Objects, NEW t \in Types, NEW S \in SUBSET roots, Allocate(o, t, S)
  PROVE  Unmanaged!New(o)
  <1>1. PICK L, k, r : View(L, k, r)
    BY ViewExists
  <1>2. /\ o \notin alive /\ roots' = roots \cup {o} /\ table' = table
        /\ type' = [type EXCEPT ![o] = t] /\ refs' = [refs EXCEPT ![o] = S]
    BY DEF Allocate
  <1>3. /\ type \in [Objects -> BarrieredTypes \cup UnbarrieredTypes]
        /\ refs \in [Objects -> SUBSET Objects] /\ roots \subseteq Objects /\ roots \subseteq L
    BY <1>1 DEF GcInv, TypeOK, View, Live
  <1>4. /\ type'[o] = t /\ refs'[o] = S
        /\ \A p \in Objects : p # o => type'[p] = type[p] /\ refs'[p] = refs[p]
    BY <1>2, <1>3
  <1>5. Seen(refs, {})'[o] = S /\ Seen(type, "string")'[o] = t
    BY <1>2, <1>4, SeenHeld
  <1>6. o \notin L /\ o \notin roots
    BY <1>1, <1>2, <1>3 DEF View
  <1>7. PICK k1, r1 : k1 = [k EXCEPT ![o] = t] /\ r1 = [r EXCEPT ![o] = S]
    OBVIOUS
  <1>8. \A p \in L \cup {o} : k1[p] = type'[p] /\ r1[p] = refs'[p] /\ refs'[p] \subseteq L \cup {o}
    <2>1. k1[o] = t /\ r1[o] = S
      BY <1>1, <1>7 DEF View
    <2>2. ASSUME NEW p \in L PROVE k1[p] = type[p] /\ r1[p] = refs[p] /\ refs[p] \subseteq L /\ p # o
      BY <1>1, <1>6, <1>7 DEF View
    <2>3. ASSUME NEW p \in L PROVE type'[p] = type[p] /\ refs'[p] = refs[p]
      BY <1>1, <1>4, <2>2 DEF View
    <2>4. QED
      BY <1>3, <1>4, <2>1, <2>2, <2>3
  <1>9. Live' \subseteq L \cup {o} /\ L \cup {o} \in SUBSET Objects
    BY <1>1, <1>2 DEF View, Live
  <1>10. Unmanaged!Left(k1, r1)
    BY <1>8, <1>9, SeenAfter
  <1>11. QED
    BY <1>1, <1>2, <1>5, <1>6, <1>7, <1>10 DEF Unmanaged!New, View

LEMMA InternSeen ==
  ASSUME GcInv, GcInv', NEW o \in Objects, Intern(o)
  PROVE  Unmanaged!Intern(o)
  <1>1. PICK L, k, r : View(L, k, r)
    BY ViewExists
  <1>2. /\ o \notin alive /\ roots' = roots /\ table' = table \cup {o}
        /\ type' = [type EXCEPT ![o] = "string"] /\ refs' = refs
    BY DEF Intern
  <1>3. /\ type \in [Objects -> BarrieredTypes \cup UnbarrieredTypes] /\ refs[o] = {}
    BY <1>2 DEF GcInv, TypeOK, FreedIsBlank
  <1>4. type'[o] = "string" /\ \A p \in Objects : p # o => type'[p] = type[p]
    BY <1>2, <1>3
  <1>5. o \notin L /\ o \notin table
    BY <1>1, <1>2 DEF View, Live
  <1>6. PICK k1, r1 : k1 = [k EXCEPT ![o] = "string"] /\ r1 = [r EXCEPT ![o] = {}]
    OBVIOUS
  <1>7. \A p \in L \cup {o} : k1[p] = type'[p] /\ r1[p] = refs'[p] /\ refs'[p] \subseteq L \cup {o}
    <2>1. k1[o] = "string" /\ r1[o] = {}
      BY <1>1, <1>6 DEF View
    <2>2. ASSUME NEW p \in L PROVE k1[p] = type[p] /\ r1[p] = refs[p] /\ refs[p] \subseteq L /\ p # o
      BY <1>1, <1>5, <1>6 DEF View
    <2>3. ASSUME NEW p \in L PROVE type'[p] = type[p]
      BY <1>1, <1>4, <2>2 DEF View
    <2>4. QED
      BY <1>2, <1>3, <1>4, <2>1, <2>2, <2>3
  <1>8. Live' \subseteq L \cup {o} /\ L \cup {o} \in SUBSET Objects
    BY <1>1, <1>2 DEF View, Live
  <1>9. Unmanaged!Left(k1, r1)
    BY <1>7, <1>8, SeenAfter
  <1>10. QED
    BY <1>1, <1>2, <1>5, <1>6, <1>9 DEF Unmanaged!Intern, View

LEMMA LoadSeen ==
  ASSUME GcInv, GcInv', NEW c \in Objects, NEW x \in Objects, Load(c, x)
  PROVE  [Unmanaged!Next]_(Unmanaged!vars)
  <1>1. c \in roots /\ x \in refs[c] /\ roots' = roots \cup {x} /\ UNCHANGED <<alive, type, refs, table>>
    BY DEF Load
  <1>2. CASE x \in roots
    <2>1. UNCHANGED <<alive, type, refs, roots, table>>
      BY <1>1, <1>2
    <2>2. QED
      BY <2>1, HeapStutter
  <1>3. CASE x \notin roots
    <2>1. PICK L, k, r : View(L, k, r)
      BY ViewExists
    <2>2. c \in L /\ x \in L /\ x \in r[c] /\ Live' \subseteq L
      BY <1>1, <2>1 DEF View, Live
    <2>3. \A p \in L : k[p] = type'[p] /\ r[p] = refs'[p] /\ refs'[p] \subseteq L
      BY <1>1, <2>1 DEF View
    <2>4. Unmanaged!Left(k, r)
      BY <2>1, <2>2, <2>3, SeenAfter DEF View
    <2>5. Unmanaged!Load(c, x)
      BY <1>1, <1>3, <2>1, <2>2, <2>4 DEF Unmanaged!Load, View
    <2>6. QED
      BY <2>5 DEF Unmanaged!Next
  <1>4. QED
    BY <1>2, <1>3

LEMMA DropSeen ==
  ASSUME GcInv, GcInv', NEW x \in Objects, Drop(x)
  PROVE  Unmanaged!Drop(x)
  <1>1. PICK L, k, r : View(L, k, r)
    BY ViewExists
  <1>2. x \in roots /\ roots' = roots \ {x} /\ UNCHANGED <<alive, type, refs, table>>
    BY DEF Drop
  <1>3. \A p \in L : k[p] = type'[p] /\ r[p] = refs'[p] /\ refs'[p] \subseteq L
    BY <1>1, <1>2 DEF View
  <1>4. Live' \subseteq L /\ L \in SUBSET Objects
    BY <1>1, <1>2 DEF View, Live
  <1>5. Unmanaged!Left(k, r)
    BY <1>3, <1>4, SeenAfter
  <1>6. QED
    BY <1>1, <1>2, <1>5 DEF Unmanaged!Drop, View

LEMMA TakeSeen ==
  ASSUME GcInv, GcInv', NEW c \in Objects, NEW x \in Objects, Take(c, x)
  PROVE  [Unmanaged!Next]_(Unmanaged!vars)
  <1>1. /\ c \in roots /\ x \in refs[c] /\ roots' = roots \cup {x} /\ UNCHANGED <<alive, type, table>>
        /\ refs' = [refs EXCEPT ![c] = refs[c] \ {x}]
    BY DEF Take
  <1>2. CASE x \in roots
    <2>1. roots' = roots /\ refs[c] \ {x} \in SUBSET (refs[c] \cup roots)
      BY <1>1, <1>2
    <2>2. QED
      BY <1>1, <2>1, StoreSeen
  <1>3. CASE x \notin roots
    <2>1. PICK L, k, r : View(L, k, r)
      BY ViewExists
    <2>2. c \in L /\ x \in L /\ x \in r[c] /\ Live' \subseteq L /\ r[c] = refs[c]
      BY <1>1, <2>1 DEF View, Live
    <2>3. refs \in [Objects -> SUBSET Objects]
      BY DEF GcInv, TypeOK
    <2>4. PICK s : s = [r EXCEPT ![c] = @ \ {x}]
      OBVIOUS
    <2>5. \A p \in L : k[p] = type'[p] /\ s[p] = refs'[p] /\ refs'[p] \subseteq L
      BY <1>1, <2>1, <2>2, <2>3, <2>4 DEF View
    <2>6. Unmanaged!Left(k, s)
      <3>1. L \in SUBSET Objects /\ Live' \subseteq L
        BY <2>1, <2>2 DEF View
      <3>2. QED
        BY <2>5, <3>1, SeenAfter
    <2>7. Unmanaged!Take(c, x)
      BY <1>1, <1>3, <2>1, <2>2, <2>4, <2>6 DEF Unmanaged!Take, View
    <2>8. QED
      BY <2>7 DEF Unmanaged!Next
  <1>4. QED
    BY <1>2, <1>3

LEMMA YieldSeen ==
  ASSUME GcInv, GcInv', NEW f \in Objects, NEW S \in SUBSET roots, NEW Old \in SUBSET refs[f],
         FiberYield(f, Old, S)
  PROVE  [Unmanaged!Next]_(Unmanaged!vars)
  <1>1. PICK N : N = (refs[f] \ Old) \cup S
    OBVIOUS
  <1>2. /\ f \in roots /\ type[f] = "fiber" /\ S \subseteq roots \ {f} /\ roots' = roots \ S
        /\ refs' = [refs EXCEPT ![f] = N] /\ UNCHANGED <<alive, type, table>>
    BY <1>1 DEF FiberYield
  <1>3. CASE roots' = roots
    BY <1>1, <1>2, <1>3, StoreSeen
  <1>4. CASE roots' # roots
    <2>1. PICK L, k, r : View(L, k, r)
      BY ViewExists
    <2>2. f \in L /\ Live' \subseteq L /\ r[f] = refs[f] /\ k[f] = "fiber" /\ N \subseteq L
      BY <1>1, <1>2, <2>1 DEF View, Live
    <2>3. refs \in [Objects -> SUBSET Objects]
      BY DEF GcInv, TypeOK
    <2>4. f \in roots' /\ refs'[f] = N
      BY <1>2, <2>3
    <2>5. Seen(refs, {})'[f] = N
      BY <2>4, SeenHeld
    <2>6. PICK s : s = [r EXCEPT ![f] = N]
      OBVIOUS
    <2>7. \A p \in L : k[p] = type'[p] /\ s[p] = refs'[p] /\ refs'[p] \subseteq L
      BY <1>2, <2>1, <2>2, <2>3, <2>6 DEF View
    <2>8. Unmanaged!Left(k, s)
      <3>1. L \in SUBSET Objects /\ Live' \subseteq L
        BY <2>1, <2>2 DEF View
      <3>2. QED
        BY <2>7, <3>1, SeenAfter
    <2>9. roots \ roots' \subseteq N /\ N \subseteq refs[f] \cup roots /\ roots' \subseteq roots
      BY <1>1, <1>2
    <2>10. Unmanaged!Park(f)
      BY <1>2, <1>4, <2>1, <2>2, <2>4, <2>5, <2>6, <2>8, <2>9 DEF Unmanaged!Park, View
    <2>11. QED
      BY <2>10 DEF Unmanaged!Next
  <1>5. QED
    BY <1>3, <1>4

\* Every action of the program is one of its unmanaged memory, or none.
LEMMA MutatorSeen ==
  ASSUME GcInv, GcInv', Mutator
  PROVE  [Unmanaged!Next]_(Unmanaged!vars)
  <1>1. ASSUME NEW o \in Objects, NEW t \in Types, NEW S \in SUBSET roots, Allocate(o, t, S)
        PROVE  [Unmanaged!Next]_(Unmanaged!vars)
    BY <1>1, AllocateSeen DEF Unmanaged!Next
  <1>2. ASSUME NEW o \in Objects, Intern(o) \/ Drop(o)
        PROVE  [Unmanaged!Next]_(Unmanaged!vars)
    BY <1>2, InternSeen, DropSeen DEF Unmanaged!Next
  <1>3. ASSUME NEW c \in Objects, NEW x \in Objects, Load(c, x) \/ Take(c, x)
        PROVE  [Unmanaged!Next]_(Unmanaged!vars)
    BY <1>3, LoadSeen, TakeSeen
  <1>4. ASSUME NEW c \in Objects, NEW x \in Objects, UpvalueSet(c, x)
        PROVE  [Unmanaged!Next]_(Unmanaged!vars)
    <2>1. /\ c \in roots /\ {x} \in SUBSET (refs[c] \cup roots)
          /\ refs' = [refs EXCEPT ![c] = {x}] /\ UNCHANGED <<alive, type, roots, table>>
      BY <1>4 DEF UpvalueSet
    <2>2. QED
      BY <2>1, StoreSeen
  <1>5. ASSUME NEW c \in Objects, NEW x \in Objects, NEW Old \in SUBSET refs[c],
               Store(c, x, Old) \/ SignalSet(c, x, Old)
        PROVE  [Unmanaged!Next]_(Unmanaged!vars)
    <2>1. PICK N : N = (refs[c] \ Old) \cup {x}
      OBVIOUS
    <2>2. /\ c \in roots /\ x \in roots
          /\ refs' = [refs EXCEPT ![c] = N] /\ UNCHANGED <<alive, type, roots, table>>
      BY <1>5, <2>1 DEF Store, SignalSet
    <2>3. N \in SUBSET (refs[c] \cup roots)
      BY <2>1, <2>2
    <2>4. QED
      BY <2>2, <2>3, StoreSeen
  <1>6. ASSUME NEW f \in Objects, NEW S \in SUBSET roots, NEW Old \in SUBSET refs[f], FiberYield(f, Old, S)
        PROVE  [Unmanaged!Next]_(Unmanaged!vars)
    BY <1>6, YieldSeen
  <1>7. QED
    BY <1>1, <1>2, <1>3, <1>4, <1>5, <1>6 DEF Mutator

\* A sweep leaves all that can be reached, for all of it is marked.
LEMMA SweepSeen ==
  ASSUME GcInv, GcInv', Sweep
  PROVE  UNCHANGED Unmanaged!vars
  <1>1. gray = {} /\ Live \subseteq marked /\ marked \subseteq Objects
    BY DEF Sweep, GcInv, CollectorControl, TypeOK, RootSet
  <1>2. \A p \in marked : refs[p] \subseteq marked
    BY <1>1 DEF GcInv, TriColour
  <1>3. Reachable \subseteq marked
    <2>1. Reach(Live, refs) \subseteq marked
      BY <1>1, <1>2, SameReach
    <2>2. QED
      BY <2>1, ReachableIs
  <1>4. /\ roots' = roots /\ table' = table /\ Live' = Live
        /\ refs' = [o \in Objects |-> IF o \in marked THEN refs[o] ELSE {}]
        /\ type' = [o \in Objects |-> IF o \in marked THEN type[o] ELSE "string"]
    BY DEF Sweep, Live
  <1>5. PICK L : L = Reachable
    OBVIOUS
  <1>6. L \in SUBSET Objects /\ Live \subseteq L /\ \A p \in L : refs[p] \subseteq L
    BY <1>5, ReachableIs
  <1>7. \A p \in L : refs[p] = refs'[p] /\ type[p] = type'[p]
    BY <1>3, <1>4, <1>5, <1>6
  <1>8. Reach(Live, refs) = Reach(Live, refs')
    BY <1>6, <1>7, SameReach
  <1>9. Reachable' = L
    <2>1. (Reachable = Reach(Live, refs))'
      BY ReachableIs, PTL
    <2>2. Reachable' = Reach(Live', refs')
      BY <2>1 DEF Reach, Unmanaged!Reach
    <2>3. QED
      BY <1>4, <1>5, <1>8, <2>2, ReachableIs
  <1>10. Seen(type, "string")' = Seen(type, "string") /\ Seen(refs, {})' = Seen(refs, {})
    BY <1>5, <1>7, <1>9 DEF Seen
  <1>11. QED
    BY <1>4, <1>10 DEF Unmanaged!vars

\* No step of the collector is seen.
LEMMA CollectorUnchanged ==
  ASSUME GcInv, GcInv', Collector
  PROVE  UNCHANGED Unmanaged!vars
  <1>1. CASE Sweep
    BY <1>1, SweepSeen
  <1>2. CASE ~Sweep
    <2>1. UNCHANGED heapVars
      BY <1>2 DEF Collector, StepBegin, StepResume, StepPause, StepRemark, FullBegin, Trace
    <2>2. QED
      BY <2>1, HeapStutter DEF heapVars
  <1>3. QED
    BY <1>1, <1>2

\* The collector implements a memory that has none: for any heap, program and amount
\* of work per step, what a program of SafeConfig can reach changes by its own
\* instructions only (value.cpp:238).
THEOREM CollectorIsUnseen == ASSUME SafeConfig PROVE Spec => CollectorUnseen
  <1>1. Init => Unmanaged!Init
    BY DEF Init, Unmanaged!Init, Seen
  <1>2. GcInv /\ GcInv' /\ [Next]_vars => [Unmanaged!Next]_(Unmanaged!vars)
    <2>1. ASSUME GcInv, GcInv', UNCHANGED vars PROVE UNCHANGED Unmanaged!vars
      BY <2>1, HeapStutter DEF vars, heapVars
    <2>2. QED
      BY <2>1, MutatorSeen, CollectorUnchanged DEF Next
  <1>3. QED
    BY <1>1, <1>2, GcInvariant, PTL DEF Spec, CollectorUnseen, Unmanaged!Spec
=============================================================================
