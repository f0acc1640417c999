------------------------------ MODULE Peephole ------------------------------
(* The peephole passes of CodeGenerator::peephole_optimize, codegen.cpp, over the
   slots of one function.  Every pass rewrites pairs of neighbouring instructions
   that cannot overlap, so a pass is a function of the code it is given.     *)
EXTENDS Integers, Sequences, FiniteSets

CONSTANT Near    \* a fused branch reaches Near slots back, Near - 1 forward: 32

ASSUME NearAssumption == Near \in Nat \ {0}

\* An instruction that is dropped keeps its operands until the last pass.
Nop(s) == [s EXCEPT ![1] = "NOP"]
Op(code, p) == code[p + 1][1]
\* The offsets at which an instruction starts: not the operands of a wide one.
Starts(code) == {p \in 0..(Len(code) - 1) : p = 0 \/ Op(code, p - 1) # "WIDE"}
\* p holds one of ops1 and is followed by one of ops2.
Pair(code, p, ops1, ops2) ==
    /\ p \in Starts(code) /\ p + 1 < Len(code)
    /\ Op(code, p) \in ops1 /\ Op(code, p + 1) \in ops2

Branches == {"JMP_IF_FALSE", "JMP_IF_TRUE", "TRY_BEGIN", "TRY_END"}
Fused == {"JMP_IF_NOT_LT", "JMP_IF_NOT_LTE", "JMP_IF_NOT_GT", "JMP_IF_NOT_GTE", "JMP_IF_NOT_EQ"}

\* Pass 1: LOAD_IMM k and an addition that reads k become ADD_IMM.
Addition(code, p) ==
    /\ Pair(code, p, {"LOAD_IMM"}, {"ADD", "ADD_NUM"})
    /\ code[p + 1][2] \in {code[p + 2][3], code[p + 2][4]}
AddImm(load, add) ==
    <<"ADD_IMM", add[2], IF add[3] = load[2] THEN add[4] ELSE add[3], load[3]>>
FuseImmediate(code) ==
    [i \in DOMAIN code |->
        IF Addition(code, i - 1) THEN Nop(code[i])
        ELSE IF i > 1 /\ Addition(code, i - 2) THEN AddImm(code[i - 1], code[i])
        ELSE code[i]]

\* Pass 2: a comparison and the JMP_IF_FALSE on its result become one branch, when
\* the target is near enough.
FusedOf(op) == CASE op \in {"LT", "LT_NUM"}   -> "JMP_IF_NOT_LT"
                 [] op \in {"LTE", "LTE_NUM"} -> "JMP_IF_NOT_LTE"
                 [] op \in {"GT", "GT_NUM"}   -> "JMP_IF_NOT_GT"
                 [] op \in {"GTE", "GTE_NUM"} -> "JMP_IF_NOT_GTE"
                 [] op \in {"EQ", "EQ_NUM"}   -> "JMP_IF_NOT_EQ"
Comparison(code, p) ==
    /\ Pair(code, p, {"LT", "LTE", "GT", "GTE", "EQ", "LT_NUM", "LTE_NUM", "GT_NUM",
                      "GTE_NUM", "EQ_NUM"}, {"JMP_IF_FALSE"})
    /\ code[p + 2][2] = code[p + 1][2]
    /\ code[p + 2][3] + 1 \in -Near..(Near - 1)
FuseBranch(code) ==
    [i \in DOMAIN code |->
        IF Comparison(code, i - 1)
        THEN <<FusedOf(code[i][1]), code[i][3], code[i][4], code[i + 1][3] + 1>>
        ELSE IF i > 1 /\ Comparison(code, i - 2) THEN Nop(code[i])
        ELSE code[i]]

\* Pass 2b: a MOVE before a jump back is dropped when the instruction at the
\* target, counted as if JMP were relative to the next one, overwrites it.  Where the
\* target is WIDE or inside a wide instruction the source compares its raw bytes and
\* here its operation and operand are compared; no program that is checked has one.
ReadsA == {"SET_LOCAL", "SET_UPVALUE", "SET_GLOBAL", "SET_INDEX", "SET_FIELD", "PRINT",
           "RETURN", "JMP_IF_FALSE", "JMP_IF_TRUE", "JMP", "THROW", "CLOSE_UPVALUE"}
Dead(code, p) ==
    LET target == p + 2 + code[p + 2][3]
    IN /\ Pair(code, p, {"MOVE"}, {"JMP"})
       /\ code[p + 2][3] < 0 /\ target \in 0..(Len(code) - 1) /\ target # p + 1
       /\ Op(code, target) \notin ReadsA /\ code[target + 1][2] = code[p + 1][2]
DeadMove(code) == [i \in DOMAIN code |-> IF Dead(code, i - 1) THEN Nop(code[i]) ELSE code[i]]

\* Pass 3: the new offset of every old one (0 for the inside of a wide
\* instruction), by which the offsets of all jumps are adjusted, and the code
\* without its NOPs.
Moved(code, p) ==
    IF p \notin Starts(code) THEN 0
    ELSE Cardinality({q \in Starts(code) : q < p /\ Op(code, q) \notin {"NOP", "WIDE"}})
\* Mutant: compaction drops NOPs and leaves the jumps as they were.
Adjusted_Not(code, p, size, old) == old
\* Mutant: a narrow JMP is taken to count from the next instruction, as branches do.
Adjusted_FromNext(code, p, size, old) ==
    LET target == p + 1 + old
    IN IF target \in 0..(Len(code) - 1) THEN Moved(code, target) - Moved(code, p) - 1 ELSE old
\* The offset of a jump at p that was old, from the end of size slots on.
Adjusted(code, p, size, old) ==
    LET target == p + size + old
    IN IF target \in 0..(Len(code) - 1) THEN Moved(code, target) - Moved(code, p) - size ELSE old
Relocated(code, p) ==
    LET s == code[p + 1]
        near == Adjusted(code, p, 1, s[4])
    IN CASE p \notin Starts(code) ->
              IF s[1] \in {"JMP", "JMP_IF_FALSE", "JMP_IF_TRUE"}
              THEN [s EXCEPT ![3] = Adjusted(code, p - 1, 2, @)] ELSE s
         [] p \in Starts(code) /\ s[1] = "JMP" -> [s EXCEPT ![3] = Adjusted(code, p, 0, @)]
         [] p \in Starts(code) /\ s[1] \in Branches ->
              IF s[1] = "TRY_END" /\ s[3] <= 0 THEN s
              ELSE [s EXCEPT ![3] = Adjusted(code, p, 1, @)]
         [] p \in Starts(code) /\ s[1] \in Fused ->
              [s EXCEPT ![4] = IF near \in -Near..(Near - 1) THEN near ELSE @]
         [] OTHER -> s
Compact(code) ==
    IF \A p \in Starts(code) : Op(code, p) # "NOP" THEN code
    ELSE LET kept[n \in 0..Len(code)] ==
               IF n = 0 THEN <<>>
               ELSE IF code[n][1] = "NOP" THEN kept[n - 1]
               ELSE Append(kept[n - 1], Relocated(code, n - 1))
         IN kept[Len(code)]

\* A function of one instruction is left alone.
Passes == << "imm", "branch", "move", "compact" >>
Pass(name, code) ==
    CASE Len(code) < 2    -> code
      [] Len(code) >= 2 /\ name = "imm"     -> FuseImmediate(code)
      [] Len(code) >= 2 /\ name = "branch"  -> FuseBranch(code)
      [] Len(code) >= 2 /\ name = "move"    -> DeadMove(code)
      [] OTHER            -> Compact(code)

(* ---------------------------- Where control goes ------------------------- *)

\* The slot of the instruction at p, and the offset after it.
Slot(code, p) == IF Op(code, p) = "WIDE" THEN code[p + 2] ELSE code[p + 1]
After(code, p) == IF Op(code, p) = "WIDE" THEN p + 2 ELSE p + 1
\* The offset at which the instruction at p may go on; a narrow JMP counts from
\* itself, every other jump from the instruction behind it.
Target(code, p) ==
    LET s == Slot(code, p)
    IN CASE s[1] = "JMP" -> s[3] + (IF Op(code, p) = "WIDE" THEN p + 2 ELSE p)
         [] s[1] \in Branches -> After(code, p) + s[3]
         [] s[1] \in Fused -> After(code, p) + s[4]
         [] OTHER -> After(code, p)
Follow(code, p) ==
    CASE Slot(code, p)[1] \in {"RETURN", "THROW", "TAIL_CALL"} -> {}
      [] Slot(code, p)[1] \in {"JMP", "TRY_END"} -> {Target(code, p)}
      [] OTHER -> {After(code, p), Target(code, p)}

\* No function of more than Byte registers or constants: all slots are instructions.
Unwidened(code) == \A i \in DOMAIN code : code[i][1] # "WIDE"

\* Code as the generator writes it: TRY_END skips forward, a fused branch is near
\* (there is none before pass 2, which only makes near ones), and no prefix is last.
Encoded(code) == \A i \in DOMAIN code :
    /\ code[i][1] = "TRY_END" => code[i][3] >= 0
    /\ code[i][1] \in Fused => code[i][4] \in -Near..(Near - 1)
    /\ code[i][1] = "WIDE" => i # Len(code)

\* The code new is the code with every instruction that is left moved: it is the same
\* but for its offset, and goes on at the new places of those where it went on.
Offset(s) == CASE s[1] \in Fused -> {4} [] s[1] \in Branches \union {"JMP"} -> {3} [] OTHER -> {}
SamePaths(code, new) ==
    \A p \in Starts(code) : Op(code, p) # "NOP" /\ Follow(code, p) \subseteq Starts(code) =>
        LET q == Moved(code, p)
        IN /\ q \in Starts(new)
           /\ \A k \in 1..4 \ Offset(code[p + 1]) : new[q + 1][k] = code[p + 1][k]
           /\ Follow(new, q) = {Moved(code, t) : t \in Follow(code, p)}
=============================================================================
