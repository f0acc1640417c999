--------------------------- MODULE PeepholeProofs ---------------------------
(* The passes of Peephole for functions of any length: where control goes in the
   code they leave.  What a function of JumpsLand can reach is the least set of
   offsets that confines it, so a pass keeps JumpsLand when it keeps Confined. *)
EXTENDS Peephole, FiniteSetTheorems, TLAPS

\* The opcodes that passes write are named: the provers do not know that they are strings.
Opcode == STRING \union {"NOP", "ADD_IMM"} \union Fused
Instruction == Opcode \X Int \X Int \X Int
Code == Seq(Instruction)

\* Control that is in the offsets ps stays there, on instructions of the code; and
\* control that starts at the beginning stays on instructions.
Confines(code, ps) == ps \subseteq Starts(code) /\ \A p \in ps : Follow(code, p) \subseteq ps
Confined(code) == \E ps : 0 \in ps /\ Confines(code, ps)

(* ------------------------- Induction and counting ------------------------ *)

\* Induction on a set of numbers.  If n were the first to be missing, adding one
\* would map the members below n into those that are not 0, which are fewer.
LEMMA SetInduction ==
  ASSUME NEW S, 0 \in S, \A n \in Nat : n \in S => n + 1 \in S
  PROVE  Nat \subseteq S
  <1> SUFFICES ASSUME NEW n \in Nat, n \notin S PROVE FALSE
    OBVIOUS
  <1> DEFINE A == {k \in 0..n : k \in S}
             f == [k \in A |-> k + 1]
  <1>1. IsFiniteSet(A) /\ 0 \in A
    <2>1. IsFiniteSet(0..n)
      BY FS_Interval
    <2>2. A \in SUBSET (0..n)
      OBVIOUS
    <2>3. QED
      BY <2>1, <2>2, FS_Subset
  <1>2. /\ IsFiniteSet(A \ {0}) /\ Cardinality(A) \in Nat
        /\ Cardinality(A \ {0}) = Cardinality(A) - 1
    BY <1>1, FS_RemoveElement, FS_CardinalityType
  <1>3. f \in [A -> A \ {0}]
    <2>1. ASSUME NEW k \in A PROVE k + 1 \in A \ {0}
      <3>1. k \in 0..n /\ k \in S
        OBVIOUS
      <3>2. k # n
        BY <3>1
      <3>3. QED
        BY <3>1, <3>2
    <2>2. QED
      BY <2>1
  <1>4. PICK x, y \in A : x # y /\ f[x] = f[y]
    <2> HIDE DEF A, f
    <2>1. Cardinality(A \ {0}) < Cardinality(A)
      BY <1>2
    <2>2. QED
      BY <1>1, <1>2, <1>3, <2>1, FS_PigeonHole
  <1>5. QED
    BY <1>4

\* The instructions before offset n that are left, and how many they are.
Left(code, n) == {q \in 0..(n - 1) : Op(code, q) # "NOP"}
Before(code, n) == Cardinality(Left(code, n))

LEMMA LeftFinite == ASSUME NEW code, NEW n \in Nat
                    PROVE  IsFiniteSet(Left(code, n)) /\ Before(code, n) \in Nat
  <1>1. IsFiniteSet(0..(n - 1)) /\ Left(code, n) \in SUBSET (0..(n - 1))
    BY FS_Interval DEF Left
  <1>2. IsFiniteSet(Left(code, n))
    BY <1>1, FS_Subset
  <1>3. QED
    BY <1>2, FS_CardinalityType DEF Before

LEMMA BeforeNext ==
  ASSUME NEW code, NEW n \in Nat
  PROVE  /\ Before(code, 0) = 0
         /\ Before(code, n + 1) = Before(code, n) + (IF Op(code, n) = "NOP" THEN 0 ELSE 1)
  <1>1. Left(code, 0) = {}
    BY DEF Left
  <1>2. Before(code, 0) = 0
    BY <1>1, FS_EmptySet DEF Before
  <1>3. IsFiniteSet(Left(code, n))
    BY LeftFinite
  <1>4. CASE Op(code, n) = "NOP"
    <2>1. Left(code, n + 1) = Left(code, n)
      BY <1>4 DEF Left
    <2>2. Before(code, n + 1) = Before(code, n) /\ Before(code, n) \in Nat
      BY <2>1, LeftFinite DEF Before
    <2>3. QED
      BY <1>2, <1>4, <2>2
  <1>5. CASE Op(code, n) # "NOP"
    <2>1. Left(code, n + 1) = Left(code, n) \cup {n} /\ n \notin Left(code, n)
      BY <1>5 DEF Left
    <2>2. Before(code, n + 1) = Before(code, n) + 1
      BY <1>3, <2>1, FS_AddElement DEF Before
    <2>3. QED
      BY <1>2, <1>5, <2>2
  <1>6. QED
    BY <1>4, <1>5

\* Compaction brings two instructions nearer to each other, and keeps their order.
LEMMA BeforeNear ==
  ASSUME NEW code, NEW m \in Nat, NEW n \in Nat, m <= n
  PROVE  Before(code, m) <= Before(code, n) /\ Before(code, n) <= Before(code, m) + (n - m)
  <1> DEFINE S == {d \in Nat : /\ Before(code, m) <= Before(code, m + d)
                               /\ Before(code, m + d) <= Before(code, m) + d}
  <1>1. 0 \in S
    BY LeftFinite
  <1>2. ASSUME NEW d \in Nat, d \in S PROVE d + 1 \in S
    <2>1. m + d \in Nat /\ m + (d + 1) = (m + d) + 1
      OBVIOUS
    <2>2. Before(code, m + (d + 1)) \in {Before(code, m + d), Before(code, m + d) + 1}
      BY <2>1, BeforeNext, LeftFinite
    <2>3. Before(code, m + d) \in Nat /\ Before(code, m) \in Nat
      BY <2>1, LeftFinite
    <2>4. QED
      BY <1>2, <2>2, <2>3
  <1>3. Nat \subseteq S
    <2> HIDE DEF S
    <2>1. QED
      BY <1>1, <1>2, SetInduction
  <1>4. n - m \in Nat /\ m + (n - m) = n
    OBVIOUS
  <1>5. QED
    BY <1>3, <1>4

LEMMA NarrowStarts ==
  ASSUME NEW code \in Code, Unwidened(code)
  PROVE  /\ Starts(code) = 0..(Len(code) - 1)
         /\ \A p \in Starts(code) : Moved(code, p) = Before(code, p) /\ Op(code, p) # "WIDE"
         /\ \A p \in Starts(code) : Slot(code, p) = code[p + 1] /\ After(code, p) = p + 1
  <1>1. \A p \in 0..(Len(code) - 1) : Op(code, p) # "WIDE"
    BY DEF Unwidened, Op, Code
  <1>2. Starts(code) = 0..(Len(code) - 1)
    <2>1. \A p \in 0..(Len(code) - 1) : p = 0 \/ p - 1 \in 0..(Len(code) - 1)
      OBVIOUS
    <2>2. QED
      BY <1>1, <2>1 DEF Starts
  <1>3. ASSUME NEW p \in Starts(code) PROVE Moved(code, p) = Before(code, p)
    <2>1. {q \in Starts(code) : q < p /\ Op(code, q) \notin {"NOP", "WIDE"}} = Left(code, p)
      BY <1>1, <1>2, <1>3 DEF Left
    <2>2. QED
      BY <1>3, <2>1 DEF Moved, Before
  <1>4. QED
    BY <1>1, <1>2, <1>3 DEF Slot, After

(* ------------------------------ Compaction ------------------------------- *)

\* The copying loop of Compact, and its equation.
Copy(code, f, n) == IF n = 0 THEN <<>>
                    ELSE IF code[n][1] = "NOP" THEN f[n - 1]
                    ELSE Append(f[n - 1], Relocated(code, n - 1))
Copied(code, f) == f = [n \in 0..Len(code) |-> Copy(code, f, n)]

LEMMA CopyExists == ASSUME NEW code \in Code PROVE \E f : Copied(code, f)
  <1> DEFINE To(n, f) == f = [k \in 0..n |-> Copy(code, f, k)]
             S == {n \in Nat : \E f : To(n, f)}
  <1>1. 0 \in S
    <2>1. To(0, [k \in 0..0 |-> <<>>])
      BY DEF Copy
    <2>2. QED
      BY <2>1
  <1>2. ASSUME NEW n \in Nat, n \in S PROVE n + 1 \in S
    <2>1. PICK f : To(n, f)
      BY <1>2
    <2> DEFINE g == [k \in 0..(n + 1) |-> IF k <= n THEN f[k] ELSE Copy(code, f, n + 1)]
    <2>2. \A k \in 0..n : g[k] = f[k] /\ f[k] = Copy(code, f, k)
      BY <2>1
    <2>3. ASSUME NEW k \in 0..(n + 1) PROVE g[k] = Copy(code, g, k)
      <3>1. k = 0 \/ g[k - 1] = f[k - 1]
        BY <2>2
      <3>2. Copy(code, g, k) = Copy(code, f, k)
        BY <3>1 DEF Copy
      <3>3. CASE k <= n
        BY <2>2, <3>2, <3>3
      <3>4. CASE k = n + 1
        BY <3>2, <3>4
      <3>5. QED
        BY <3>3, <3>4
    <2>4. g = [k \in 0..(n + 1) |-> g[k]]
      OBVIOUS
    <2>5. To(n + 1, g)
      <3> HIDE DEF g
      <3>1. QED
        BY <2>3, <2>4
    <2>6. \E h : To(n + 1, h)
      <3> HIDE DEF g, To
      <3>1. QED
        BY <2>5
    <2>7. QED
      BY <2>6
  <1>3. Nat \subseteq S
    <2> HIDE DEF S
    <2>1. QED
      BY <1>1, <1>2, SetInduction
  <1>4. Len(code) \in S
    BY <1>3 DEF Code
  <1>5. QED
    BY <1>4 DEF Copied

LEMMA CompactCopies ==
  ASSUME NEW code \in Code, ~ \A p \in Starts(code) : Op(code, p) # "NOP"
  PROVE  \E f : Copied(code, f) /\ Compact(code) = f[Len(code)]
  <1> DEFINE kept[n \in 0..Len(code)] ==
               IF n = 0 THEN <<>>
               ELSE IF code[n][1] = "NOP" THEN kept[n - 1]
               ELSE Append(kept[n - 1], Relocated(code, n - 1))
  <1>1. Compact(code) = kept[Len(code)]
    BY DEF Compact
  <1>2. PICK f : Copied(code, f)
    BY CopyExists
  <1>3. f = [n \in 0..Len(code) |->
               IF n = 0 THEN <<>>
               ELSE IF code[n][1] = "NOP" THEN f[n - 1]
               ELSE Append(f[n - 1], Relocated(code, n - 1))]
    BY <1>2 DEF Copied, Copy
  <1>4. kept = [n \in 0..Len(code) |->
               IF n = 0 THEN <<>>
               ELSE IF code[n][1] = "NOP" THEN kept[n - 1]
               ELSE Append(kept[n - 1], Relocated(code, n - 1))]
    BY <1>3
  <1> HIDE DEF kept
  <1>5. Copied(code, kept)
    BY <1>4 DEF Copied, Copy
  <1>6. QED
    BY <1>1, <1>5

\* What Compact makes of the first n slots of narrow code: the instructions that are
\* left, in order.
Squeezed(code, new, n) ==
  /\ new \in Seq({Relocated(code, p) : p \in Left(code, n)})
  /\ Len(new) = Before(code, n)
  /\ \A p \in Left(code, n) : /\ Before(code, p) \in 0..(Len(new) - 1)
                              /\ new[Before(code, p) + 1] = Relocated(code, p)

LEMMA SqueezedNext ==
  ASSUME NEW code, NEW n \in Nat, NEW s, Squeezed(code, s, n)
  PROVE  Squeezed(code, IF Op(code, n) = "NOP" THEN s ELSE Append(s, Relocated(code, n)), n + 1)
  <1>1. CASE Op(code, n) = "NOP"
    <2>1. Left(code, n + 1) = Left(code, n)
      BY <1>1 DEF Left
    <2>2. QED
      BY <1>1, <2>1 DEF Squeezed, Before
  <1>2. CASE Op(code, n) # "NOP"
    <2> DEFINE t == Append(s, Relocated(code, n))
               R == {Relocated(code, p) : p \in Left(code, n)}
               T == {Relocated(code, p) : p \in Left(code, n + 1)}
    <2>1. Left(code, n + 1) = Left(code, n) \cup {n}
      BY <1>2 DEF Left
    <2>2. R \subseteq T /\ Relocated(code, n) \in T
      BY <2>1
    <2>3. s \in Seq(R) /\ Len(s) = Before(code, n)
      BY DEF Squeezed
    <2> HIDE DEF R, T
    <2>4. s \in Seq(T)
      BY <2>2, <2>3
    <2>5. t \in Seq(T) /\ Len(t) = Len(s) + 1
      BY <2>2, <2>4
    <2>6. Before(code, n + 1) = Before(code, n) + 1 /\ Before(code, n) \in Nat
      BY <1>2, BeforeNext, LeftFinite
    <2>7. ASSUME NEW p \in Left(code, n + 1)
          PROVE  Before(code, p) \in 0..(Len(t) - 1) /\ t[Before(code, p) + 1] = Relocated(code, p)
      <3>1. CASE p = n
        BY <2>3, <2>5, <2>6, <3>1
      <3>2. CASE p \in Left(code, n)
        <4>1. Before(code, p) \in 0..(Len(s) - 1) /\ s[Before(code, p) + 1] = Relocated(code, p)
          BY <3>2 DEF Squeezed
        <4>2. t[Before(code, p) + 1] = s[Before(code, p) + 1]
          BY <2>4, <4>1
        <4>3. QED
          BY <2>5, <4>1, <4>2
      <3>3. QED
        BY <2>1, <3>1, <3>2
    <2>8. Squeezed(code, t, n + 1)
      <3> HIDE DEF t
      <3>1. QED
        BY <2>3, <2>5, <2>6, <2>7 DEF Squeezed, T
    <2>9. QED
      BY <1>2, <2>8
  <1>3. QED
    BY <1>1, <1>2

LEMMA CompactSqueezes ==
  ASSUME NEW code \in Code, ~ \A p \in Starts(code) : Op(code, p) # "NOP"
  PROVE  Squeezed(code, Compact(code), Len(code))
  <1>1. PICK f : Copied(code, f) /\ Compact(code) = f[Len(code)]
    BY CompactCopies
  <1> DEFINE S == {n \in Nat : n <= Len(code) => Squeezed(code, f[n], n)}
  <1>2. Len(code) \in Nat
    BY DEF Code
  <1>3. \A n \in 0..Len(code) : f[n] = Copy(code, f, n)
    BY <1>1 DEF Copied
  <1>4. 0 \in S
    <2>1. f[0] = <<>> /\ Left(code, 0) = {}
      BY <1>2, <1>3 DEF Copy, Left
    <2>2. Len(<<>>) = 0 /\ Before(code, 0) = 0
      BY BeforeNext
    <2>3. \A T : <<>> \in Seq(T)
      OBVIOUS
    <2>4. Squeezed(code, <<>>, 0)
      BY <2>1, <2>2, <2>3 DEF Squeezed
    <2>5. QED
      BY <2>1, <2>4
  <1>5. ASSUME NEW n \in Nat, n \in S PROVE n + 1 \in S
    <2>1. SUFFICES ASSUME n + 1 <= Len(code) PROVE Squeezed(code, f[n + 1], n + 1)
      OBVIOUS
    <2>2. Squeezed(code, f[n], n)
      BY <1>2, <1>5, <2>1
    <2>3. f[n + 1] = IF Op(code, n) = "NOP" THEN f[n] ELSE Append(f[n], Relocated(code, n))
      BY <1>2, <1>3, <2>1 DEF Copy, Op
    <2>4. QED
      BY <2>2, <2>3, SqueezedNext
  <1>6. Nat \subseteq S
    <2> HIDE DEF S
    <2>1. QED
      BY <1>4, <1>5, SetInduction
  <1>7. QED
    BY <1>1, <1>2, <1>6

(* --------------------------- Offsets that moved -------------------------- *)

LEMMA Slots ==
  ASSUME NEW code \in Code, NEW p \in 0..(Len(code) - 1)
  PROVE  /\ Len(code) \in Nat /\ p \in Nat /\ p + 1 \in DOMAIN code
         /\ code[p + 1] \in Instruction /\ Op(code, p) = code[p + 1][1]
         /\ code[p + 1][1] \in Opcode /\ code[p + 1][2] \in Int
         /\ code[p + 1][3] \in Int /\ code[p + 1][4] \in Int
  BY DEF Code, Instruction, Op

LEMMA AdjustedIs ==
  ASSUME NEW code \in Code, Unwidened(code), NEW p \in 0..(Len(code) - 1),
         NEW size \in {0, 1}, NEW old \in Int
  PROVE  /\ Adjusted(code, p, size, old) \in Int
         /\ p + size + old \in 0..(Len(code) - 1) =>
              Adjusted(code, p, size, old) = Before(code, p + size + old) - Before(code, p) - size
  <1>1. Moved(code, p) = Before(code, p) /\ Before(code, p) \in Nat
    BY NarrowStarts, LeftFinite
  <1>2. CASE p + size + old \in 0..(Len(code) - 1)
    <2>1. /\ Moved(code, p + size + old) = Before(code, p + size + old)
          /\ Before(code, p + size + old) \in Nat
      BY <1>2, NarrowStarts, LeftFinite
    <2>2. QED
      BY <1>1, <1>2, <2>1 DEF Adjusted
  <1>3. CASE p + size + old \notin 0..(Len(code) - 1)
    BY <1>3 DEF Adjusted
  <1>4. QED
    BY <1>2, <1>3

\* A fused branch stays near: pass 3 need not keep the old offset of one.
LEMMA NearStays ==
  ASSUME NEW code \in Code, Unwidened(code), NEW p \in 0..(Len(code) - 1), Op(code, p) # "NOP",
         NEW old \in -Near..(Near - 1), p + 1 + old \in 0..(Len(code) - 1)
  PROVE  Adjusted(code, p, 1, old) \in -Near..(Near - 1)
  <1> DEFINE t == p + 1 + old
  <1>0. p \in Nat /\ t \in Nat
    BY Slots
  <1>1. /\ Before(code, p) \in Nat /\ Before(code, p + 1) = Before(code, p) + 1
        /\ Before(code, t) \in Nat /\ t \in Nat
    BY <1>0, BeforeNext, LeftFinite
  <1>2. Adjusted(code, p, 1, old) = Before(code, t) - Before(code, p) - 1
    BY NearAssumption, AdjustedIs
  <1>3. CASE old >= 0
    <2>1. Before(code, p + 1) <= Before(code, t) /\ Before(code, t) <= Before(code, p + 1) + (t - (p + 1))
      BY <1>1, <1>3, NearAssumption, BeforeNear
    <2>2. QED
      BY <1>1, <1>2, <1>3, <2>1, NearAssumption
  <1>4. CASE old < 0
    <2>1. t <= p
      BY <1>4, NearAssumption
    <2>2. Before(code, t) <= Before(code, p) /\ Before(code, p) <= Before(code, t) + (p - t)
      BY <1>1, <2>1, BeforeNear
    <2>3. QED
      BY <1>1, <1>2, <1>4, <2>2, NearAssumption
  <1>5. QED
    BY <1>3, <1>4, NearAssumption

\* What Relocated makes of an instruction.
LEMMA RelocatedIs ==
  ASSUME NEW code \in Code, Unwidened(code), NEW p \in 0..(Len(code) - 1)
  PROVE  LET s == code[p + 1] new == Relocated(code, p)
         IN /\ new \in Instruction /\ new[1] = s[1] /\ new[2] = s[2]
            /\ s[1] \notin Fused => new[4] = s[4]
            /\ s[1] \notin Branches \union {"JMP"} => new[3] = s[3]
            /\ s[1] = "JMP" => new[3] = Adjusted(code, p, 0, s[3])
            /\ s[1] \in Branches =>
                 new[3] = IF s[1] = "TRY_END" /\ s[3] <= 0 THEN s[3] ELSE Adjusted(code, p, 1, s[3])
            /\ s[1] \in Fused =>
                 new[4] = IF Adjusted(code, p, 1, s[4]) \in -Near..(Near - 1)
                          THEN Adjusted(code, p, 1, s[4]) ELSE s[4]
  <1> DEFINE s == code[p + 1]
  <1>1. p \in Starts(code)
    BY NarrowStarts
  <1>2. s \in Instruction /\ s[3] \in Int /\ s[4] \in Int
    BY Slots
  <1>3. /\ Adjusted(code, p, 0, s[3]) \in Int /\ Adjusted(code, p, 1, s[3]) \in Int
        /\ Adjusted(code, p, 1, s[4]) \in Int
    BY <1>2, AdjustedIs
  <1>4. \A i \in Int : [s EXCEPT ![3] = i] \in Instruction /\ [s EXCEPT ![4] = i] \in Instruction
    BY <1>2 DEF Instruction
  <1>5. \A i : /\ [s EXCEPT ![3] = i][1] = s[1] /\ [s EXCEPT ![3] = i][2] = s[2]
               /\ [s EXCEPT ![3] = i][3] = i /\ [s EXCEPT ![3] = i][4] = s[4]
               /\ [s EXCEPT ![4] = i][1] = s[1] /\ [s EXCEPT ![4] = i][2] = s[2]
               /\ [s EXCEPT ![4] = i][3] = s[3] /\ [s EXCEPT ![4] = i][4] = i
    BY <1>2 DEF Instruction
  <1> DEFINE r == Relocated(code, p)
  <1> HIDE DEF s
  <1>6. CASE s[1] = "JMP"
    <2>1. s[1] \notin Branches /\ s[1] \notin Fused
      BY <1>6 DEF Branches, Fused
    <2>2. PICK i \in Int : i = Adjusted(code, p, 0, s[3]) /\ r = [s EXCEPT ![3] = i]
      BY <1>1, <1>3, <1>6, <2>1 DEF Relocated, s
    <2> HIDE DEF r
    <2>3. r \in Instruction /\ r[1] = s[1] /\ r[2] = s[2] /\ r[3] = i /\ r[4] = s[4]
      BY <1>4, <1>5, <2>2
    <2>4. QED
      BY <1>6, <2>1, <2>2, <2>3 DEF s, r
  <1>7. CASE s[1] \in Branches
    <2>1. s[1] # "JMP" /\ s[1] \notin Fused
      BY <1>7 DEF Branches, Fused
    <2>2. r = IF s[1] = "TRY_END" /\ s[3] <= 0 THEN s
              ELSE [s EXCEPT ![3] = Adjusted(code, p, 1, s[3])]
      BY <1>1, <1>7, <2>1 DEF Relocated, s
    <2>3. /\ r \in Instruction /\ r[1] = s[1] /\ r[2] = s[2] /\ r[4] = s[4]
          /\ r[3] = IF s[1] = "TRY_END" /\ s[3] <= 0 THEN s[3] ELSE Adjusted(code, p, 1, s[3])
      <3> HIDE DEF r
      <3>1. CASE s[1] = "TRY_END" /\ s[3] <= 0
        BY <1>2, <2>2, <3>1
      <3>2. CASE ~(s[1] = "TRY_END" /\ s[3] <= 0)
        BY <1>3, <1>4, <1>5, <2>2, <3>2
      <3>3. QED
        BY <3>1, <3>2
    <2> HIDE DEF r
    <2>4. QED
      BY <1>7, <2>1, <2>3 DEF s, r
  <1>8. CASE s[1] \in Fused
    <2>1. s[1] # "JMP" /\ s[1] \notin Branches
      BY <1>8 DEF Branches, Fused
    <2>2. PICK i \in Int : /\ r = [s EXCEPT ![4] = i]
                          /\ i = IF Adjusted(code, p, 1, s[4]) \in -Near..(Near - 1)
                                 THEN Adjusted(code, p, 1, s[4]) ELSE s[4]
      BY <1>1, <1>2, <1>3, <1>8, <2>1 DEF Relocated, s
    <2> HIDE DEF r
    <2>3. r \in Instruction /\ r[1] = s[1] /\ r[2] = s[2] /\ r[3] = s[3] /\ r[4] = i
      BY <1>4, <1>5, <2>2
    <2>4. QED
      BY <1>8, <2>1, <2>2, <2>3 DEF s, r
  <1>9. CASE s[1] \notin Branches \union Fused \union {"JMP"}
    <2>1. Relocated(code, p) = s
      BY <1>1, <1>9 DEF Relocated, s
    <2>2. QED
      BY <1>2, <1>9, <2>1 DEF s
  <1>10. QED
    BY <1>6, <1>7, <1>8, <1>9

(* ------------------------------ Paths that move -------------------------- *)

\* The instruction at p is at q in the code new, with its offset relocated.
MovedTo(code, p, new, q) ==
  /\ p \in 0..(Len(code) - 1) /\ Op(code, p) # "NOP" /\ q = Before(code, p)
  /\ new \in Code /\ Unwidened(new) /\ q \in 0..(Len(new) - 1)
  /\ new[q + 1] = Relocated(code, p)

LEMMA TargetIs ==
  ASSUME NEW code \in Code, Unwidened(code), NEW p \in 0..(Len(code) - 1)
  PROVE  LET s == code[p + 1]
         IN Target(code, p) = CASE s[1] = "JMP" -> p + s[3]
                                [] s[1] \in Branches -> p + 1 + s[3]
                                [] s[1] \in Fused -> p + 1 + s[4]
                                [] OTHER -> p + 1
  <1>1. Slot(code, p) = code[p + 1] /\ After(code, p) = p + 1 /\ Op(code, p) # "WIDE"
    BY NarrowStarts
  <1>2. p \in Nat /\ code[p + 1][3] \in Int
    BY Slots
  <1>3. "JMP" \notin Branches \union Fused /\ Branches \intersect Fused = {}
    BY DEF Branches, Fused
  <1>4. QED
    BY <1>1, <1>2, <1>3 DEF Target

LEMMA TargetMoves ==
  ASSUME NEW code \in Code, Unwidened(code), Encoded(code), NEW p, NEW new, NEW q,
         MovedTo(code, p, new, q), Target(code, p) \in Starts(code)
  PROVE  Target(new, q) = Before(code, Target(code, p))
  <1> DEFINE s == code[p + 1]
             r == new[q + 1]
  <1>1. /\ p \in 0..(Len(code) - 1) /\ q \in 0..(Len(new) - 1) /\ new \in Code /\ Unwidened(new)
        /\ q = Before(code, p) /\ r = Relocated(code, p) /\ Op(code, p) # "NOP"
    BY DEF MovedTo
  <1>2. /\ p \in Nat /\ p + 1 \in DOMAIN code /\ s[3] \in Int /\ s[4] \in Int
    BY <1>1, Slots
  <1>3. q \in Nat /\ Before(code, p + 1) = q + 1
    BY <1>1, <1>2, BeforeNext, LeftFinite
  <1>4. PICK t \in 0..(Len(code) - 1) : t = Target(code, p)
    BY NarrowStarts
  <1>5. Before(code, t) \in Nat
    BY LeftFinite, Slots
  <1>6. \A size \in {0, 1}, old \in Int :
          p + size + old = t => Adjusted(code, p, size, old) = Before(code, t) - q - size
    <2>1. SUFFICES ASSUME NEW size \in {0, 1}, NEW old \in Int, p + size + old = t
                   PROVE  Adjusted(code, p, size, old) = Before(code, t) - q - size
      OBVIOUS
    <2>2. p + size + old \in 0..(Len(code) - 1)
      BY <2>1
    <2>3. Adjusted(code, p, size, old) = Before(code, p + size + old) - Before(code, p) - size
      BY <1>1, <2>2, AdjustedIs
    <2>4. QED
      BY <1>1, <2>1, <2>3
  <1>7. "JMP" \notin Branches \union Fused /\ Branches \intersect Fused = {}
    BY DEF Branches, Fused
  <1>8. t = CASE s[1] = "JMP" -> p + s[3]
              [] s[1] \in Branches -> p + 1 + s[3]
              [] s[1] \in Fused -> p + 1 + s[4]
              [] OTHER -> p + 1
    BY <1>1, <1>4, TargetIs
  <1>9. Target(new, q) = CASE r[1] = "JMP" -> q + r[3]
                           [] r[1] \in Branches -> q + 1 + r[3]
                           [] r[1] \in Fused -> q + 1 + r[4]
                           [] OTHER -> q + 1
    BY <1>1, TargetIs
  <1>10. /\ r[1] = s[1] /\ r[3] \in Int /\ r[4] \in Int
         /\ s[1] = "JMP" => r[3] = Adjusted(code, p, 0, s[3])
         /\ s[1] \in Branches =>
              r[3] = IF s[1] = "TRY_END" /\ s[3] <= 0 THEN s[3] ELSE Adjusted(code, p, 1, s[3])
         /\ s[1] \in Fused =>
              r[4] = IF Adjusted(code, p, 1, s[4]) \in -Near..(Near - 1)
                     THEN Adjusted(code, p, 1, s[4]) ELSE s[4]
    <2>1. r[3] \in Int /\ r[4] \in Int
      BY <1>1, Slots
    <2>2. p \in 0..(Len(code) - 1) /\ r = Relocated(code, p)
      BY <1>1
    <2>3. QED
      BY <2>1, <2>2, RelocatedIs
  <1>11. /\ s[1] = "TRY_END" => s[3] >= 0
         /\ s[1] \in Fused => s[4] \in -Near..(Near - 1)
    BY <1>2 DEF Encoded
  <1>12. s[1] \in Fused => r[4] = Adjusted(code, p, 1, s[4])
    <2>1. SUFFICES ASSUME s[1] \in Fused PROVE Adjusted(code, p, 1, s[4]) \in -Near..(Near - 1)
      BY <1>10
    <2>2. p + 1 + s[4] \in 0..(Len(code) - 1)
      BY <1>7, <1>8, <2>1
    <2>3. QED
      BY <1>1, <1>11, <2>1, <2>2, NearStays
  <1> HIDE DEF s, r
  <1>13. CASE s[1] = "JMP"
    <2>1. t = p + s[3] /\ Target(new, q) = q + r[3]
      BY <1>7, <1>8, <1>9, <1>10, <1>13
    <2>2. p + 0 + s[3] = t
      BY <1>2, <2>1
    <2>3. Adjusted(code, p, 0, s[3]) = Before(code, t) - q - 0
      BY <1>2, <1>6, <2>2
    <2>4. QED
      BY <1>3, <1>4, <1>5, <1>10, <1>13, <2>1, <2>3
  <1>14. CASE s[1] \in Branches
    <2>1. t = p + 1 + s[3] /\ Target(new, q) = q + 1 + r[3]
      BY <1>7, <1>8, <1>9, <1>10, <1>14
    <2>2. Adjusted(code, p, 1, s[3]) = Before(code, t) - q - 1
      BY <1>2, <1>6, <2>1
    <2>3. CASE s[1] = "TRY_END" /\ s[3] <= 0
      <3>1. s[3] = 0 /\ r[3] = 0
        BY <1>2, <1>10, <1>11, <1>14, <2>3
      <3>2. QED
        BY <1>2, <1>3, <1>4, <2>1, <3>1
    <2>4. CASE ~(s[1] = "TRY_END" /\ s[3] <= 0)
      BY <1>3, <1>4, <1>5, <1>10, <1>14, <2>1, <2>2, <2>4
    <2>5. QED
      BY <2>3, <2>4
  <1>15. CASE s[1] \in Fused
    <2>1. t = p + 1 + s[4] /\ Target(new, q) = q + 1 + r[4]
      BY <1>7, <1>8, <1>9, <1>10, <1>15
    <2>2. Adjusted(code, p, 1, s[4]) = Before(code, t) - q - 1
      BY <1>2, <1>6, <2>1
    <2>3. QED
      BY <1>3, <1>4, <1>5, <1>12, <1>15, <2>1, <2>2
  <1>16. CASE s[1] \notin Branches \union Fused \union {"JMP"}
    <2>1. t = p + 1 /\ Target(new, q) = q + 1
      BY <1>8, <1>9, <1>10, <1>16
    <2>2. QED
      BY <1>3, <1>4, <2>1
  <1>17. QED
    BY <1>13, <1>14, <1>15, <1>16

LEMMA FollowMoves ==
  ASSUME NEW code \in Code, Unwidened(code), Encoded(code), NEW p, NEW new, NEW q,
         MovedTo(code, p, new, q), Follow(code, p) \subseteq Starts(code)
  PROVE  Follow(new, q) = {Moved(code, t) : t \in Follow(code, p)}
  <1> DEFINE s == code[p + 1]
             r == new[q + 1]
  <1>1. /\ p \in 0..(Len(code) - 1) /\ q \in 0..(Len(new) - 1) /\ new \in Code /\ Unwidened(new)
        /\ q = Before(code, p) /\ r = Relocated(code, p) /\ Op(code, p) # "NOP"
    BY DEF MovedTo
  <1>2. /\ Slot(code, p) = s /\ After(code, p) = p + 1
        /\ Slot(new, q) = r /\ After(new, q) = q + 1
    BY <1>1, NarrowStarts
  <1>3. r[1] = s[1]
    BY <1>1, RelocatedIs
  <1>4. Before(code, p + 1) = q + 1
    BY <1>1, BeforeNext, Slots
  <1>5. \A t \in Follow(code, p) : Moved(code, t) = Before(code, t)
    BY NarrowStarts
  <1>6. Target(code, p) \in Follow(code, p) => Target(new, q) = Before(code, Target(code, p))
    BY TargetMoves
  <1>7. CASE s[1] \in {"RETURN", "THROW", "TAIL_CALL"}
    BY <1>2, <1>3, <1>7 DEF Follow
  <1>8. CASE s[1] \in {"JMP", "TRY_END"}
    <2>1. Follow(code, p) = {Target(code, p)} /\ Follow(new, q) = {Target(new, q)}
      BY <1>2, <1>3, <1>8 DEF Follow
    <2>2. QED
      BY <1>5, <1>6, <2>1
  <1>9. CASE s[1] \notin {"RETURN", "THROW", "TAIL_CALL", "JMP", "TRY_END"}
    <2>1. Follow(code, p) = {p + 1, Target(code, p)} /\ Follow(new, q) = {q + 1, Target(new, q)}
      BY <1>2, <1>3, <1>9 DEF Follow
    <2>2. QED
      BY <1>4, <1>5, <1>6, <2>1
  <1>10. QED
    BY <1>7, <1>8, <1>9

LEMMA NothingMoves ==
  ASSUME NEW code \in Code, Unwidened(code), \A p \in Starts(code) : Op(code, p) # "NOP"
  PROVE  \A p \in Starts(code) : Moved(code, p) = p
  <1> DEFINE S == {n \in Nat : n <= Len(code) => Before(code, n) = n}
  <1>1. Len(code) \in Nat /\ Starts(code) = 0..(Len(code) - 1)
    BY NarrowStarts DEF Code
  <1>2. 0 \in S
    BY BeforeNext
  <1>3. ASSUME NEW n \in Nat, n \in S PROVE n + 1 \in S
    <2>1. SUFFICES ASSUME n + 1 <= Len(code) PROVE Before(code, n + 1) = n + 1
      OBVIOUS
    <2>2. Op(code, n) # "NOP" /\ Before(code, n) = n
      BY <1>1, <1>3, <2>1
    <2>3. QED
      BY <2>2, BeforeNext
  <1>4. Nat \subseteq S
    <2> HIDE DEF S
    <2>1. QED
      BY <1>2, <1>3, SetInduction
  <1>5. \A p \in Starts(code) : Before(code, p) = p
    BY <1>1, <1>4
  <1>6. QED
    BY <1>5, NarrowStarts

\* The code that Compact leaves.
LEMMA CompactMoves ==
  ASSUME NEW code \in Code, Unwidened(code), ~ \A p \in Starts(code) : Op(code, p) # "NOP"
  PROVE  /\ Compact(code) \in Code /\ Unwidened(Compact(code))
         /\ \A p \in Starts(code) :
              Op(code, p) # "NOP" => MovedTo(code, p, Compact(code), Before(code, p))
  <1> DEFINE n == Len(code)
             R == {Relocated(code, p) : p \in Left(code, n)}
  <1>1. PICK new : new = Compact(code)
    OBVIOUS
  <1>2. Squeezed(code, new, n)
    BY <1>1, CompactSqueezes
  <1>3. n \in Nat /\ Left(code, n) \subseteq 0..(n - 1) /\ Starts(code) = 0..(n - 1)
    BY NarrowStarts DEF Code, Left
  <1>4. ASSUME NEW r \in R PROVE r \in Instruction /\ r[1] # "WIDE"
    <2>1. PICK p \in 0..(n - 1) : r = Relocated(code, p)
      BY <1>3
    <2>2. code[p + 1][1] # "WIDE"
      BY <2>1, Slots DEF Unwidened
    <2>3. r \in Instruction /\ r[1] = code[p + 1][1]
      BY <2>1, RelocatedIs
    <2>4. QED
      BY <2>2, <2>3
  <1>5. new \in Seq(R)
    BY <1>2 DEF Squeezed
  <1> HIDE DEF R
  <1>6. new \in Code
    BY <1>4, <1>5 DEF Code
  <1>7. Unwidened(new)
    BY <1>4, <1>5 DEF Unwidened
  <1>8. ASSUME NEW p \in Starts(code), Op(code, p) # "NOP" PROVE MovedTo(code, p, new, Before(code, p))
    <2>1. p \in Left(code, n)
      BY <1>3, <1>8 DEF Left
    <2>2. Before(code, p) \in 0..(Len(new) - 1) /\ new[Before(code, p) + 1] = Relocated(code, p)
      BY <1>2, <2>1 DEF Squeezed
    <2>3. QED
      BY <1>3, <1>6, <1>7, <1>8, <2>2 DEF MovedTo
  <1>9. QED
    BY <1>1, <1>6, <1>7, <1>8

\* Pass 3 moves code and changes nothing else, whatever its length and its jumps.
THEOREM CompactKeepsPaths ==
  ASSUME NEW code \in Code, Unwidened(code), Encoded(code)
  PROVE  SamePaths(code, Compact(code))
  <1>1. SUFFICES ASSUME NEW p \in Starts(code), Op(code, p) # "NOP",
                        Follow(code, p) \subseteq Starts(code), NEW new, new = Compact(code)
                 PROVE  LET q == Moved(code, p)
                        IN /\ q \in Starts(new)
                           /\ \A k \in 1..4 \ Offset(code[p + 1]) : new[q + 1][k] = code[p + 1][k]
                           /\ Follow(new, q) = {Moved(code, t) : t \in Follow(code, p)}
    BY DEF SamePaths
  <1>2. CASE \A o \in Starts(code) : Op(code, o) # "NOP"
    <2>1. new = code
      BY <1>1, <1>2 DEF Compact
    <2>2. \A o \in Starts(code) : Moved(code, o) = o
      BY <1>2, NothingMoves
    <2>3. Follow(code, p) = {Moved(code, t) : t \in Follow(code, p)}
      BY <1>1, <2>2
    <2>4. QED
      BY <1>1, <2>1, <2>2, <2>3
  <1>3. CASE ~ \A o \in Starts(code) : Op(code, o) # "NOP"
    <2>1. PICK q : q = Moved(code, p)
      OBVIOUS
    <2>2. q = Before(code, p)
      BY <2>1, NarrowStarts
    <2>3. MovedTo(code, p, new, q)
      BY <1>1, <1>3, <2>2, CompactMoves
    <2>4. q \in Starts(new) /\ new[q + 1] = Relocated(code, p) /\ p \in 0..(Len(code) - 1)
      BY <2>3, NarrowStarts DEF MovedTo
    <2>5. Follow(new, q) = {Moved(code, t) : t \in Follow(code, p)}
      BY <1>1, <2>3, FollowMoves
    <2>6. ASSUME NEW k \in 1..4 \ Offset(code[p + 1]) PROVE new[q + 1][k] = code[p + 1][k]
      <3> DEFINE s == code[p + 1]
                 r == Relocated(code, p)
      <3>1. /\ r[1] = s[1] /\ r[2] = s[2]
            /\ s[1] \notin Fused => r[4] = s[4]
            /\ s[1] \notin Branches \union {"JMP"} => r[3] = s[3]
        BY <2>4, RelocatedIs
      <3>2. (Branches \union {"JMP"}) \intersect Fused = {}
        BY DEF Branches, Fused
      <3>3. k \in {1, 2, 3, 4} /\ (s[1] \in Fused => k # 4) /\ (s[1] \in Branches \union {"JMP"} => k # 3)
        BY <2>6, <3>2 DEF Offset
      <3>4. r[k] = s[k]
        <4> HIDE DEF r, s
        <4>1. QED
          BY <3>1, <3>3
      <3>5. QED
        BY <2>4, <3>4
    <2>7. QED
      BY <2>1, <2>4, <2>5, <2>6
  <1>4. QED
    BY <1>2, <1>3

(* -------------------------- Control that is confined --------------------- *)

\* From a place where control may be it comes to an instruction that is left, which
\* stands where that place has moved.
LEMMA NextLeft ==
  ASSUME NEW code \in Code, Unwidened(code), NEW ps, Confines(code, ps), NEW t \in ps
  PROVE  \E p \in ps : Op(code, p) # "NOP" /\ Before(code, p) = Before(code, t)
  <1> DEFINE S == {d \in Nat : \A o \in ps : o + d = Len(code) =>
                     \E p \in ps : Op(code, p) # "NOP" /\ Before(code, p) = Before(code, o)}
  <1>1. Len(code) \in Nat /\ ps \subseteq 0..(Len(code) - 1) /\ \A p \in ps : Follow(code, p) \subseteq ps
    BY NarrowStarts DEF Code, Confines
  <1>2. 0 \in S
    BY <1>1
  <1>3. ASSUME NEW d \in Nat, d \in S PROVE d + 1 \in S
    <2>1. SUFFICES ASSUME NEW o \in ps, o + (d + 1) = Len(code)
                   PROVE  \E p \in ps : Op(code, p) # "NOP" /\ Before(code, p) = Before(code, o)
      OBVIOUS
    <2>2. o \in Nat /\ o \in 0..(Len(code) - 1)
      BY <1>1
    <2>3. CASE Op(code, o) # "NOP"
      BY <2>3
    <2>4. CASE Op(code, o) = "NOP"
      <3>1. Slot(code, o)[1] = "NOP" /\ After(code, o) = o + 1
        BY <2>2, <2>4, NarrowStarts, Slots
      <3>2. o + 1 \in ps
        BY <1>1, <3>1 DEF Follow
      <3>3. Before(code, o + 1) = Before(code, o)
        BY <2>2, <2>4, BeforeNext, LeftFinite
      <3>4. (o + 1) + d = Len(code)
        BY <2>1, <2>2
      <3>5. QED
        BY <1>3, <3>2, <3>3, <3>4
    <2>5. QED
      BY <2>3, <2>4
  <1>4. Nat \subseteq S
    <2> HIDE DEF S
    <2>1. QED
      BY <1>2, <1>3, SetInduction
  <1>5. Len(code) - t \in Nat /\ t + (Len(code) - t) = Len(code)
    BY <1>1
  <1>6. QED
    BY <1>4, <1>5

LEMMA CompactConfines ==
  ASSUME NEW code \in Code, Unwidened(code), Encoded(code), Confined(code)
  PROVE  Confined(Compact(code))
  <1>1. CASE \A p \in Starts(code) : Op(code, p) # "NOP"
    BY <1>1 DEF Compact
  <1>2. CASE ~ \A p \in Starts(code) : Op(code, p) # "NOP"
    <2>1. PICK ps : 0 \in ps /\ Confines(code, ps)
      BY DEF Confined
    <2>2. PICK new : new = Compact(code)
      OBVIOUS
    <2> DEFINE qs == {Before(code, p) : p \in {o \in ps : Op(code, o) # "NOP"}}
    <2>3. ps \subseteq Starts(code) /\ \A p \in ps : Follow(code, p) \subseteq ps
      BY <2>1 DEF Confines
    <2>4. \A t \in ps : Before(code, t) \in qs
      BY <2>1, NextLeft
    <2>5. 0 \in qs
      BY <2>1, <2>4, BeforeNext
    <2>6. ASSUME NEW q \in qs PROVE q \in Starts(new) /\ Follow(new, q) \subseteq qs
      <3>1. PICK p \in ps : Op(code, p) # "NOP" /\ q = Before(code, p)
        OBVIOUS
      <3> HIDE DEF qs
      <3>2. MovedTo(code, p, new, q)
        BY <1>2, <2>2, <2>3, <3>1, CompactMoves
      <3>3. q \in Starts(new)
        BY <3>2, NarrowStarts DEF MovedTo
      <3>4. Follow(code, p) \subseteq ps /\ Follow(code, p) \subseteq Starts(code)
        BY <2>3, <3>1
      <3>5. Follow(new, q) = {Moved(code, t) : t \in Follow(code, p)}
        BY <3>2, <3>4, FollowMoves
      <3>6. \A t \in Follow(code, p) : Moved(code, t) = Before(code, t)
        BY <3>4, NarrowStarts
      <3>7. QED
        BY <2>4, <3>3, <3>4, <3>5, <3>6
    <2> HIDE DEF qs
    <2>7. Confines(new, qs)
      BY <2>6 DEF Confines
    <2>8. QED
      BY <2>2, <2>5, <2>7 DEF Confined
  <1>3. QED
    BY <1>1, <1>2

\* A pass that writes over the instructions at some offsets, none of them wide.
Overwrites(code, new, at) ==
  /\ new \in Code /\ Len(new) = Len(code) /\ at \subseteq Starts(code)
  /\ \A p \in at : /\ Op(code, p) # "WIDE" /\ Op(new, p) \notin {"WIDE", "TRY_END"}
                   /\ Op(new, p) \in Fused => new[p + 1][4] \in -Near..(Near - 1)
  /\ \A p \in 0..(Len(code) - 1) \ at : new[p + 1] = code[p + 1]

LEMMA OverwriteConfines ==
  ASSUME NEW code \in Code, Encoded(code), NEW new, NEW at, Overwrites(code, new, at),
         NEW ps, Confines(code, ps), \A p \in at \intersect ps : Follow(new, p) \subseteq ps
  PROVE  Confines(new, ps)
  <1>1. /\ Len(new) = Len(code) /\ at \subseteq Starts(code) /\ Len(code) \in Nat
        /\ \A p \in at : Op(code, p) # "WIDE" /\ Op(new, p) # "WIDE"
        /\ \A p \in 0..(Len(code) - 1) \ at : new[p + 1] = code[p + 1]
    BY DEF Overwrites, Code
  <1>2. \A p \in 0..(Len(code) - 1) : (Op(new, p) = "WIDE") <=> (Op(code, p) = "WIDE")
    BY <1>1 DEF Op
  <1>3. Starts(new) = Starts(code)
    <2>1. \A p \in 0..(Len(code) - 1) : p = 0 \/ p - 1 \in 0..(Len(code) - 1)
      BY <1>1
    <2>2. QED
      BY <1>1, <1>2, <2>1 DEF Starts
  <1>4. ps \subseteq Starts(code) /\ \A p \in ps : Follow(code, p) \subseteq ps
    BY DEF Confines
  <1>5. ASSUME NEW p \in ps, p \notin at PROVE Follow(new, p) = Follow(code, p)
    <2>1. p \in Starts(code) /\ p \in 0..(Len(code) - 1)
      BY <1>4 DEF Starts
    <2>2. new[p + 1] = code[p + 1] /\ Op(new, p) = Op(code, p)
      BY <1>1, <1>5, <2>1 DEF Op
    <2>3. ASSUME Op(code, p) = "WIDE" PROVE new[p + 2] = code[p + 2]
      <3>1. p + 1 \notin Starts(code)
        <4>1. p + 1 # 0 /\ (p + 1) - 1 = p
          BY <2>1
        <4>2. QED
          BY <2>3, <4>1 DEF Starts
      <3>2. p + 1 \in 0..(Len(code) - 1)
        <4>1. p + 1 \in DOMAIN code /\ code[p + 1][1] = "WIDE"
          BY <2>1, <2>3, Slots
        <4>2. p + 1 # Len(code)
          BY <4>1 DEF Encoded
        <4>3. QED
          BY <1>1, <2>1, <4>2
      <3>3. new[(p + 1) + 1] = code[(p + 1) + 1]
        BY <1>1, <3>1, <3>2
      <3>4. QED
        BY <2>1, <3>3
    <2>4. Slot(new, p) = Slot(code, p) /\ After(new, p) = After(code, p)
      BY <2>2, <2>3 DEF Slot, After
    <2>5. QED
      BY <2>2, <2>4 DEF Follow, Target
  <1>6. QED
    BY <1>3, <1>4, <1>5 DEF Confines

\* What all passes keep of the code they are given.
Sound(code, new) ==
  /\ new \in Code /\ Encoded(new)
  /\ Unwidened(code) => Unwidened(new)
  /\ Confined(code) => Confined(new)

LEMMA OverwriteSound ==
  ASSUME NEW code \in Code, Encoded(code), NEW new, NEW at, Overwrites(code, new, at),
         \A ps : Confines(code, ps) => \A p \in at \intersect ps : Follow(new, p) \subseteq ps
  PROVE  Sound(code, new)
  <1>1. /\ new \in Code /\ Len(new) = Len(code) /\ at \subseteq Starts(code) /\ Len(code) \in Nat
        /\ \A p \in at : /\ Op(code, p) # "WIDE" /\ Op(new, p) \notin {"WIDE", "TRY_END"}
                         /\ Op(new, p) \in Fused => new[p + 1][4] \in -Near..(Near - 1)
        /\ \A p \in 0..(Len(code) - 1) \ at : new[p + 1] = code[p + 1]
    BY DEF Overwrites, Code
  <1>2. DOMAIN new = DOMAIN code /\ DOMAIN code = 1..Len(code)
    BY <1>1 DEF Code
  <1>3. ASSUME NEW i \in DOMAIN code PROVE i - 1 \in 0..(Len(code) - 1) /\ (i - 1) + 1 = i
    BY <1>1, <1>2
  <1>4. ASSUME NEW i \in DOMAIN code
        PROVE  \/ new[i] = code[i]
               \/ /\ new[i][1] \notin {"WIDE", "TRY_END"}
                  /\ new[i][1] \in Fused => new[i][4] \in -Near..(Near - 1)
    <2>1. PICK p \in 0..(Len(code) - 1) : p = i - 1 /\ p + 1 = i
      BY <1>3
    <2>2. CASE p \in at
      BY <1>1, <2>1, <2>2 DEF Op
    <2>3. CASE p \notin at
      BY <1>1, <2>1, <2>3
    <2>4. QED
      BY <2>2, <2>3
  <1>5. Encoded(new)
    BY <1>1, <1>2, <1>4 DEF Encoded
  <1>6. Unwidened(code) => Unwidened(new)
    BY <1>2, <1>4 DEF Unwidened
  <1>7. Confined(code) => Confined(new)
    BY OverwriteConfines DEF Confined
  <1>8. QED
    BY <1>1, <1>5, <1>6, <1>7 DEF Sound

\* Instructions behind which control always goes on.
Straight == {"NOP", "LOAD_IMM", "ADD", "ADD_NUM", "ADD_IMM", "MOVE", "LT", "LTE", "GT", "GTE", "EQ",
             "LT_NUM", "LTE_NUM", "GT_NUM", "GTE_NUM", "EQ_NUM"}

LEMMA StraightFollow ==
  ASSUME NEW code, NEW p, Op(code, p) \in Straight
  PROVE  Follow(code, p) = {p + 1}
  <1>1. Slot(code, p) = code[p + 1] /\ After(code, p) = p + 1 /\ Op(code, p) = code[p + 1][1]
    BY DEF Slot, After, Op, Straight
  <1>2. /\ code[p + 1][1] \notin Branches \union Fused
        /\ code[p + 1][1] \notin {"RETURN", "THROW", "TAIL_CALL", "JMP", "TRY_END"}
    BY <1>1 DEF Straight, Branches, Fused
  <1>3. Target(code, p) = p + 1
    BY <1>1, <1>2 DEF Target
  <1>4. QED
    BY <1>1, <1>2, <1>3 DEF Follow

\* The neighbours that a pass pairs up are instructions of the code.
LEMMA PairIs ==
  ASSUME NEW code \in Code, NEW p, NEW ops1, NEW ops2, Pair(code, p, ops1, ops2), "WIDE" \notin ops1
  PROVE  /\ p \in Nat /\ p \in 0..(Len(code) - 1) /\ p + 1 \in 0..(Len(code) - 1)
         /\ p \in Starts(code) /\ p + 1 \in Starts(code)
         /\ Op(code, p) \in ops1 /\ Op(code, p + 1) \in ops2
  <1>1. /\ p \in 0..(Len(code) - 1) /\ p + 1 < Len(code) /\ Len(code) \in Nat
        /\ p \in Starts(code) /\ Op(code, p) \in ops1 /\ Op(code, p + 1) \in ops2
    BY DEF Pair, Starts, Code
  <1>2. p \in Nat /\ p + 1 \in 0..(Len(code) - 1) /\ (p + 1) - 1 = p
    BY <1>1
  <1>3. p + 1 \in Starts(code)
    BY <1>1, <1>2 DEF Starts
  <1>4. QED
    BY <1>1, <1>2, <1>3

LEMMA NopIs == ASSUME NEW s \in Instruction PROVE Nop(s) \in Instruction /\ Nop(s)[1] = "NOP"
  <1>1. "NOP" \in Opcode
    BY DEF Opcode
  <1>2. QED
    BY <1>1 DEF Nop, Instruction

LEMMA AddImmIs ==
  ASSUME NEW load \in Instruction, NEW add \in Instruction
  PROVE  AddImm(load, add) \in Instruction /\ AddImm(load, add)[1] = "ADD_IMM"
  <1>1. PICK k \in Int : k = IF add[3] = load[2] THEN add[4] ELSE add[3]
    BY DEF Instruction
  <1>2. AddImm(load, add) = <<"ADD_IMM", add[2], k, load[3]>>
    BY <1>1 DEF AddImm
  <1>3. add[2] \in Int /\ load[3] \in Int /\ "ADD_IMM" \in Opcode
    BY DEF Instruction, Opcode
  <1>4. QED
    BY <1>2, <1>3 DEF Instruction

LEMMA FusedOfIs ==
  ASSUME NEW op \in {"LT", "LTE", "GT", "GTE", "EQ", "LT_NUM", "LTE_NUM", "GT_NUM", "GTE_NUM", "EQ_NUM"}
  PROVE  FusedOf(op) \in Fused
  <1>1. CASE op \in {"LT", "LT_NUM"}
    BY <1>1 DEF FusedOf, Fused
  <1>2. CASE op \in {"LTE", "LTE_NUM"}
    BY <1>2 DEF FusedOf, Fused
  <1>3. CASE op \in {"GT", "GT_NUM"}
    BY <1>3 DEF FusedOf, Fused
  <1>4. CASE op \in {"GTE", "GTE_NUM"}
    BY <1>4 DEF FusedOf, Fused
  <1>5. CASE op \in {"EQ", "EQ_NUM"}
    BY <1>5 DEF FusedOf, Fused
  <1>6. QED
    BY <1>1, <1>2, <1>3, <1>4, <1>5

LEMMA JumpFollow ==
  ASSUME NEW code, NEW p, Op(code, p) = "JMP_IF_FALSE"
  PROVE  Follow(code, p) = {p + 1, p + 1 + code[p + 1][3]}
  <1>1. Slot(code, p) = code[p + 1] /\ After(code, p) = p + 1 /\ code[p + 1][1] = "JMP_IF_FALSE"
    BY DEF Slot, After, Op
  <1>2. Target(code, p) = p + 1 + code[p + 1][3]
    BY <1>1 DEF Target, Branches, Fused
  <1>3. QED
    BY <1>1, <1>2 DEF Follow

LEMMA ImmediateSound ==
  ASSUME NEW code \in Code, Encoded(code)
  PROVE  Sound(code, FuseImmediate(code))
  <1> DEFINE First(p) == Addition(code, p)
             Second(p) == ~First(p) /\ p > 0 /\ First(p - 1)
             at == {p \in 0..(Len(code) - 1) : First(p) \/ Second(p)}
  <1>1. PICK new : new = FuseImmediate(code)
    OBVIOUS
  <1>2. Len(code) \in Nat /\ DOMAIN code = 1..Len(code)
    BY DEF Code
  <1>3. ASSUME NEW p \in 0..(Len(code) - 1)
        PROVE  new[p + 1] = IF First(p) THEN Nop(code[p + 1])
                            ELSE IF Second(p) THEN AddImm(code[p], code[p + 1]) ELSE code[p + 1]
    <2>1. p + 1 \in DOMAIN code /\ (p + 1) - 1 = p /\ (p + 1) - 2 = p - 1 /\ (p + 1 > 1 <=> p > 0)
      BY <1>2
    <2>2. QED
      BY <1>1, <2>1 DEF FuseImmediate
  <1>4. ASSUME NEW p \in 0..(Len(code) - 1), First(p)
        PROVE  p \in Starts(code) /\ Op(code, p) = "LOAD_IMM" /\ Op(code, p + 1) \in {"ADD", "ADD_NUM"}
    BY <1>4, PairIs DEF Addition
  <1>5. ASSUME NEW p \in 0..(Len(code) - 1), Second(p)
        PROVE  /\ p \in Starts(code) /\ Op(code, p) \in {"ADD", "ADD_NUM"}
               /\ code[p] \in Instruction /\ code[p + 1] \in Instruction
    <2>1. p - 1 \in 0..(Len(code) - 1) /\ (p - 1) + 1 = p
      BY <1>2, <1>5
    <2>2. p \in Starts(code) /\ Op(code, p) \in {"ADD", "ADD_NUM"}
      BY <1>5, <2>1, PairIs DEF Addition
    <2>3. QED
      BY <2>1, <2>2, Slots
  <1>6. ASSUME NEW p \in 0..(Len(code) - 1)
        PROVE  /\ new[p + 1] \in Instruction
               /\ First(p) => Op(new, p) = "NOP"
               /\ Second(p) => Op(new, p) = "ADD_IMM"
    <2>1. CASE First(p)
      <3>1. new[p + 1] = Nop(code[p + 1]) /\ ~Second(p)
        BY <1>3, <2>1
      <3>2. code[p + 1] \in Instruction
        BY Slots
      <3>3. QED
        BY <2>1, <3>1, <3>2, NopIs DEF Op
    <2>2. CASE Second(p)
      <3>1. new[p + 1] = AddImm(code[p], code[p + 1])
        BY <1>3, <2>2
      <3>2. new[p + 1] \in Instruction /\ new[p + 1][1] = "ADD_IMM"
        BY <1>5, <2>2, <3>1, AddImmIs
      <3>3. QED
        BY <2>2, <3>2 DEF Op
    <2>3. CASE ~First(p) /\ ~Second(p)
      BY <1>3, <2>3, Slots
    <2>4. QED
      BY <2>1, <2>2, <2>3
  <1>7. new \in Code /\ Len(new) = Len(code)
    <2>1. new = [i \in 1..Len(code) |-> new[i]]
      BY <1>1, <1>2 DEF FuseImmediate
    <2>2. \A i \in 1..Len(code) : new[i] \in Instruction
      <3>1. ASSUME NEW i \in 1..Len(code) PROVE new[i] \in Instruction
        <4>1. i - 1 \in 0..(Len(code) - 1) /\ (i - 1) + 1 = i
          BY <1>2
        <4>2. QED
          BY <1>6, <4>1
      <3>2. QED
        BY <3>1
    <2>3. QED
      BY <1>2, <2>1, <2>2 DEF Code
  <1> HIDE DEF First, Second
  <1>8. Overwrites(code, new, at)
    <2>1. ASSUME NEW p \in at
          PROVE  /\ p \in Starts(code) /\ Op(code, p) # "WIDE" /\ Op(new, p) \in {"NOP", "ADD_IMM"}
      BY <1>4, <1>5, <1>6
    <2>2. \A p \in 0..(Len(code) - 1) \ at : new[p + 1] = code[p + 1]
      BY <1>3
    <2> HIDE DEF at
    <2>3. QED
      BY <1>7, <2>1, <2>2 DEF Overwrites, Fused
  <1>9. ASSUME NEW ps, Confines(code, ps), NEW p \in at \intersect ps PROVE Follow(new, p) \subseteq ps
    <2>1. Op(new, p) \in Straight /\ Op(code, p) \in Straight
      BY <1>4, <1>5, <1>6 DEF Straight
    <2>2. Follow(new, p) = Follow(code, p)
      BY <2>1, StraightFollow
    <2>3. QED
      BY <1>9, <2>2 DEF Confines
  <1> HIDE DEF at
  <1>10. QED
    BY <1>1, <1>8, <1>9, OverwriteSound

\* Pass 2 moves a branch one place forward, onto the comparison before it.
LEMMA BranchSound ==
  ASSUME NEW code \in Code, Encoded(code)
  PROVE  Sound(code, FuseBranch(code))
  <1> DEFINE First(p) == Comparison(code, p)
             Second(p) == ~First(p) /\ p > 0 /\ First(p - 1)
             at == {p \in 0..(Len(code) - 1) : First(p) \/ Second(p)}
             Compares == {"LT", "LTE", "GT", "GTE", "EQ", "LT_NUM", "LTE_NUM", "GT_NUM",
                          "GTE_NUM", "EQ_NUM"}
  <1>1. PICK new : new = FuseBranch(code)
    OBVIOUS
  <1>2. Len(code) \in Nat /\ DOMAIN code = 1..Len(code)
    BY DEF Code
  <1>3. ASSUME NEW p \in 0..(Len(code) - 1)
        PROVE  new[p + 1] =
                 IF First(p) THEN <<FusedOf(code[p + 1][1]), code[p + 1][3], code[p + 1][4], code[p + 2][3] + 1>>
                 ELSE IF Second(p) THEN Nop(code[p + 1]) ELSE code[p + 1]
    <2>1. /\ p + 1 \in DOMAIN code /\ (p + 1) - 1 = p /\ (p + 1) - 2 = p - 1 /\ (p + 1) + 1 = p + 2
          /\ p + 1 > 1 <=> p > 0
      BY <1>2
    <2>2. QED
      BY <1>1, <2>1 DEF FuseBranch
  <1>4. ASSUME NEW p \in 0..(Len(code) - 1), First(p)
        PROVE  /\ p \in Starts(code) /\ Op(code, p) \in Compares
               /\ p + 1 \in Starts(code) /\ p + 1 \in 0..(Len(code) - 1)
               /\ Op(code, p + 1) = "JMP_IF_FALSE"
               /\ code[p + 2][3] \in Int /\ code[p + 2][3] + 1 \in -Near..(Near - 1)
    <2>1. Pair(code, p, Compares, {"JMP_IF_FALSE"}) /\ code[p + 2][3] + 1 \in -Near..(Near - 1)
      BY <1>4 DEF Comparison
    <2>2. /\ p \in Starts(code) /\ Op(code, p) \in Compares
          /\ p + 1 \in Starts(code) /\ p + 1 \in 0..(Len(code) - 1) /\ Op(code, p + 1) = "JMP_IF_FALSE"
      BY <2>1, PairIs
    <2>3. (p + 1) + 1 = p + 2
      OBVIOUS
    <2>4. code[p + 2][3] \in Int
      BY <2>2, <2>3, Slots
    <2>5. QED
      BY <2>1, <2>2, <2>4
  <1>5. ASSUME NEW p \in 0..(Len(code) - 1), Second(p)
        PROVE  p \in Starts(code) /\ Op(code, p) = "JMP_IF_FALSE"
    <2>1. p - 1 \in 0..(Len(code) - 1) /\ (p - 1) + 1 = p
      BY <1>2, <1>5
    <2>2. QED
      BY <1>4, <1>5, <2>1
  <1>6. ASSUME NEW p \in 0..(Len(code) - 1)
        PROVE  /\ new[p + 1] \in Instruction
               /\ First(p) => Op(new, p) \in Fused /\ new[p + 1][4] = code[p + 2][3] + 1
               /\ Second(p) => Op(new, p) = "NOP"
    <2>1. CASE First(p)
      <3>1. code[p + 1][1] \in Compares
        BY <1>4, <2>1 DEF Op
      <3>2. FusedOf(code[p + 1][1]) \in Fused /\ FusedOf(code[p + 1][1]) \in Opcode
        BY <3>1, FusedOfIs DEF Opcode
      <3>3. code[p + 2][3] + 1 \in Int
        BY <1>4, <2>1
      <3>4. new[p + 1] = <<FusedOf(code[p + 1][1]), code[p + 1][3], code[p + 1][4], code[p + 2][3] + 1>>
        BY <1>3, <2>1
      <3>5. QED
        BY <2>1, <3>2, <3>3, <3>4, Slots DEF Instruction, Op
    <2>2. CASE Second(p)
      <3>1. new[p + 1] = Nop(code[p + 1]) /\ code[p + 1] \in Instruction
        BY <1>3, <2>2, Slots
      <3>2. new[p + 1] \in Instruction /\ new[p + 1][1] = "NOP"
        BY <3>1, NopIs
      <3>3. QED
        BY <2>2, <3>2 DEF Op
    <2>3. CASE ~First(p) /\ ~Second(p)
      BY <1>3, <2>3, Slots
    <2>4. QED
      BY <2>1, <2>2, <2>3
  <1>7. new \in Code /\ Len(new) = Len(code)
    <2>1. new = [i \in 1..Len(code) |-> new[i]]
      BY <1>1, <1>2 DEF FuseBranch
    <2>2. \A i \in 1..Len(code) : new[i] \in Instruction
      <3>1. ASSUME NEW i \in 1..Len(code) PROVE new[i] \in Instruction
        <4>1. i - 1 \in 0..(Len(code) - 1) /\ (i - 1) + 1 = i
          BY <1>2
        <4>2. QED
          BY <1>6, <4>1
      <3>2. QED
        BY <3>1
    <2>3. QED
      BY <1>2, <2>1, <2>2 DEF Code
  <1> HIDE DEF First
  <1>8. Overwrites(code, new, at)
    <2>1. ASSUME NEW p \in at
          PROVE  /\ p \in Starts(code) /\ Op(code, p) # "WIDE" /\ Op(new, p) \in Fused \union {"NOP"}
                 /\ Op(new, p) \in Fused => new[p + 1][4] \in -Near..(Near - 1)
      <3>1. CASE First(p)
        BY <1>4, <1>6, <3>1
      <3>2. CASE Second(p)
        <4>1. p \in Starts(code) /\ Op(code, p) = "JMP_IF_FALSE" /\ Op(new, p) = "NOP"
          BY <1>5, <1>6, <3>2
        <4>2. QED
          BY <4>1 DEF Fused
      <3>3. QED
        BY <3>1, <3>2
    <2>2. \A p \in 0..(Len(code) - 1) \ at : new[p + 1] = code[p + 1]
      BY <1>3
    <2>3. {"WIDE", "TRY_END"} \intersect (Fused \union {"NOP"}) = {}
      BY DEF Fused
    <2> HIDE DEF at, Second
    <2>4. at \subseteq Starts(code)
      BY <2>1
    <2>5. \A p \in at : /\ Op(code, p) # "WIDE" /\ Op(new, p) \notin {"WIDE", "TRY_END"}
                        /\ Op(new, p) \in Fused => new[p + 1][4] \in -Near..(Near - 1)
      BY <2>1, <2>3
    <2>6. QED
      BY <1>7, <2>2, <2>4, <2>5 DEF Overwrites
  <1>9. ASSUME NEW ps, Confines(code, ps), NEW p \in at \intersect ps PROVE Follow(new, p) \subseteq ps
    <2>1. p \in 0..(Len(code) - 1) /\ p \in Nat /\ \A o \in ps : Follow(code, o) \subseteq ps
      BY <1>9 DEF Confines
    <2>2. \A o : Op(code, o) = "JMP_IF_FALSE" => Follow(code, o) = {o + 1, o + 1 + code[o + 1][3]}
      BY JumpFollow
    <2>3. CASE First(p)
      <3>1. Follow(code, p) = {p + 1}
        BY <1>4, <2>1, <2>3, StraightFollow DEF Straight
      <3>2. p + 1 \in ps
        BY <2>1, <3>1
      <3>3. Follow(code, p + 1) = {(p + 1) + 1, (p + 1) + 1 + code[(p + 1) + 1][3]}
        BY <1>4, <2>1, <2>2, <2>3
      <3>4. (p + 1) + 1 + code[(p + 1) + 1][3] = p + 1 + (code[p + 2][3] + 1)
        BY <1>4, <2>1, <2>3
      <3>5. p + 1 + (code[p + 2][3] + 1) \in ps
        BY <2>1, <3>2, <3>3, <3>4
      <3>6. Op(new, p) \in Fused /\ new[p + 1][4] = code[p + 2][3] + 1
        BY <1>6, <2>1, <2>3
      <3>7. Slot(new, p) = new[p + 1] /\ After(new, p) = p + 1 /\ Op(new, p) = new[p + 1][1]
        BY <3>6 DEF Slot, After, Op, Fused
      <3>8. Op(new, p) \notin Branches \union {"JMP", "RETURN", "THROW", "TAIL_CALL"}
        BY <3>6 DEF Fused, Branches
      <3>9. Target(new, p) = p + 1 + (code[p + 2][3] + 1)
        BY <3>6, <3>7, <3>8 DEF Target
      <3>10. Follow(new, p) = {p + 1, Target(new, p)}
        BY <3>7, <3>8 DEF Follow, Branches
      <3>11. QED
        BY <3>2, <3>5, <3>9, <3>10
    <2>4. CASE Second(p)
      <3>1. Follow(new, p) = {p + 1}
        BY <1>6, <2>1, <2>4, StraightFollow DEF Straight
      <3>2. p + 1 \in Follow(code, p)
        BY <1>5, <2>1, <2>2, <2>4
      <3>3. QED
        BY <2>1, <3>1, <3>2
    <2>5. QED
      BY <2>3, <2>4
  <1> HIDE DEF at
  <1>10. QED
    BY <1>1, <1>8, <1>9, OverwriteSound

LEMMA MoveSound ==
  ASSUME NEW code \in Code, Encoded(code)
  PROVE  Sound(code, DeadMove(code))
  <1> DEFINE at == {p \in 0..(Len(code) - 1) : Dead(code, p)}
  <1>1. PICK new : new = DeadMove(code)
    OBVIOUS
  <1>2. Len(code) \in Nat /\ DOMAIN code = 1..Len(code)
    BY DEF Code
  <1>3. ASSUME NEW p \in 0..(Len(code) - 1)
        PROVE  new[p + 1] = IF p \in at THEN Nop(code[p + 1]) ELSE code[p + 1]
    <2>1. p + 1 \in DOMAIN code /\ (p + 1) - 1 = p
      BY <1>2
    <2>2. QED
      BY <1>1, <2>1 DEF DeadMove
  <1>4. ASSUME NEW p \in at PROVE p \in Starts(code) /\ Op(code, p) = "MOVE"
    <2>1. Pair(code, p, {"MOVE"}, {"JMP"})
      BY DEF Dead
    <2>2. QED
      BY <2>1, PairIs
  <1>5. ASSUME NEW p \in 0..(Len(code) - 1)
        PROVE  new[p + 1] \in Instruction /\ (p \in at => Op(new, p) = "NOP")
    <2>1. CASE p \in at
      <3>1. new[p + 1] = Nop(code[p + 1]) /\ code[p + 1] \in Instruction
        BY <1>3, <2>1, Slots
      <3>2. new[p + 1] \in Instruction /\ new[p + 1][1] = "NOP"
        BY <3>1, NopIs
      <3>3. QED
        BY <3>2 DEF Op
    <2>2. CASE p \notin at
      BY <1>3, <2>2, Slots
    <2>3. QED
      BY <2>1, <2>2
  <1>6. new \in Code /\ Len(new) = Len(code)
    <2>1. new = [i \in 1..Len(code) |-> new[i]]
      BY <1>1, <1>2 DEF DeadMove
    <2>2. \A i \in 1..Len(code) : new[i] \in Instruction
      <3>1. ASSUME NEW i \in 1..Len(code) PROVE new[i] \in Instruction
        <4>1. i - 1 \in 0..(Len(code) - 1) /\ (i - 1) + 1 = i
          BY <1>2
        <4>2. QED
          BY <1>5, <4>1
      <3>2. QED
        BY <3>1
    <2>3. QED
      BY <1>2, <2>1, <2>2 DEF Code
  <1>7. at \subseteq 0..(Len(code) - 1)
    OBVIOUS
  <1> HIDE DEF at
  <1>8. \A p \in at : p \in Starts(code) /\ Op(code, p) = "MOVE" /\ Op(new, p) = "NOP"
    BY <1>4, <1>5, <1>7
  <1>9. Overwrites(code, new, at)
    BY <1>3, <1>6, <1>8 DEF Overwrites, Fused
  <1>10. ASSUME NEW ps, Confines(code, ps), NEW p \in at \intersect ps PROVE Follow(new, p) \subseteq ps
    <2>1. Follow(new, p) = Follow(code, p)
      BY <1>8, StraightFollow DEF Straight
    <2>2. QED
      BY <1>10, <2>1 DEF Confines
  <1>11. QED
    BY <1>1, <1>9, <1>10, OverwriteSound

LEMMA CompactSound ==
  ASSUME NEW code \in Code, Encoded(code), Unwidened(code)
  PROVE  Compact(code) \in Code /\ Unwidened(Compact(code)) /\ (Confined(code) => Confined(Compact(code)))
  <1>1. CASE \A p \in Starts(code) : Op(code, p) # "NOP"
    BY <1>1 DEF Compact
  <1>2. CASE ~ \A p \in Starts(code) : Op(code, p) # "NOP"
    BY <1>2, CompactMoves, CompactConfines
  <1>3. QED
    BY <1>1, <1>2

\* Each pass keeps control on instructions: if the code it is given never jumps or runs
\* into the middle of an instruction, past the end or before the beginning, neither
\* does the code it leaves.  The last pass does so for code without wide instructions,
\* in which it miscounts (codegen.cpp:1882).
THEOREM PassKeepsConfined ==
  ASSUME NEW code \in Code, Encoded(code), Confined(code), NEW name \in {"imm", "branch", "move", "compact"},
         name = "compact" => Unwidened(code)
  PROVE  /\ Pass(name, code) \in Code /\ Confined(Pass(name, code))
         /\ Unwidened(code) => Unwidened(Pass(name, code))
         /\ name # "compact" => Encoded(Pass(name, code))
  <1>1. Len(code) \in Nat
    BY DEF Code
  <1>2. CASE Len(code) < 2
    <2>1. Pass(name, code) = code
      BY <1>1, <1>2 DEF Pass
    <2>2. QED
      BY <2>1
  <1>3. CASE Len(code) >= 2
    <2>1. CASE name = "imm"
      <3>1. Pass(name, code) = FuseImmediate(code)
        BY <1>1, <1>3, <2>1 DEF Pass
      <3>2. QED
        BY <3>1, ImmediateSound DEF Sound
    <2>2. CASE name = "branch"
      <3>1. Pass(name, code) = FuseBranch(code)
        BY <1>1, <1>3, <2>2 DEF Pass
      <3>2. QED
        BY <3>1, BranchSound DEF Sound
    <2>3. CASE name = "move"
      <3>1. Pass(name, code) = DeadMove(code)
        BY <1>1, <1>3, <2>3 DEF Pass
      <3>2. QED
        BY <3>1, MoveSound DEF Sound
    <2>4. CASE name = "compact"
      <3>1. Pass(name, code) = Compact(code)
        BY <1>1, <1>3, <2>4 DEF Pass
      <3>2. QED
        BY <2>4, <3>1, CompactSound
    <2>5. QED
      BY <2>1, <2>2, <2>3, <2>4
  <1>4. QED
    BY <1>1, <1>2, <1>3

\* The passes in the order in which peephole_optimize runs them.
Optimized(code) == Pass("compact", Pass("move", Pass("branch", Pass("imm", code))))

\* Optimised narrow code keeps its control on instructions if the generated code does.
THEOREM OptimizedConfined ==
  ASSUME NEW code \in Code, Encoded(code), Unwidened(code), Confined(code)
  PROVE  Confined(Optimized(code))
  <1>1. PICK a : a = Pass("imm", code)
    OBVIOUS
  <1>2. a \in Code /\ Encoded(a) /\ Unwidened(a) /\ Confined(a)
    BY <1>1, PassKeepsConfined
  <1>3. PICK b : b = Pass("branch", a)
    OBVIOUS
  <1>4. b \in Code /\ Encoded(b) /\ Unwidened(b) /\ Confined(b)
    BY <1>2, <1>3, PassKeepsConfined
  <1>5. PICK c : c = Pass("move", b)
    OBVIOUS
  <1>6. c \in Code /\ Encoded(c) /\ Unwidened(c) /\ Confined(c)
    BY <1>4, <1>5, PassKeepsConfined
  <1>7. Confined(Pass("compact", c))
    BY <1>6, PassKeepsConfined
  <1>8. QED
    BY <1>1, <1>3, <1>5, <1>7 DEF Optimized
=============================================================================
