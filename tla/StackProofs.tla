---------------------------- MODULE StackProofs ----------------------------
(***************************************************************************)
(* The register discipline of Stack for any sizes of stack, frames and     *)
(* functions: which programs never lose a register.                        *)
(***************************************************************************)
EXTENDS Stack, TLAPS

\* A program with effects has no native calls and no fibers.  One with fibers
\* resumes them from outside fibers only, calls no native inside, and yields in
\* the function the fiber was made of.  Without any one of these a register is
\* lost, as the README, section 3, says.
Disciplined ==
  \A p \in Programs :
    /\ "effects" \in p => {"natives", "fibers"} \cap p = {}
    /\ "fibers" \in p => {"natives in fibers", "nested fibers", "helpers yield"} \cap p = {}

Values == (Activations \cup {"junk"}) \X (0..Regs - 1)
FrameType == [id : Activations, kind : {"call", "effect"}, callee : 0..MaxStack - 1,
              saved : 0..MaxStack, live : 0..Regs]

\* The window of every frame lies in the stack; the callee of a frame is above
\* the allocated registers of all frames below; a frame that waits for a call
\* has a register for the result.
Fit == \A i \in DOMAIN frames : Base(frames[i]) + Regs <= MaxStack
Above == \A i, j \in DOMAIN frames :
  i < j => Base(frames[i]) + frames[i].live <= frames[j].callee
CallRoom == \A i, j \in DOMAIN frames :
  j = i + 1 /\ frames[j].kind = "call" => frames[i].live < Regs
Distinct == \A i, j \in DOMAIN frames : frames[i].id = frames[j].id => i = j

\* With effects, stack_top_ is above the whole window of the frame that runs,
\* and is saved so for every frame that waits.
Reserve == Reactive =>
  /\ frames # <<>> => Base(Cur) + Regs <= top
  /\ \A i, j \in DOMAIN frames : j = i + 1 => Base(frames[i]) + Regs <= frames[j].saved

FrameInv ==
  /\ TypeOK
  /\ Fit /\ Above /\ CallRoom /\ Distinct /\ Reserve
  /\ RegistersIntact

\* What Grown does to the frames: cut them off above k and allocate one more
\* register in frame k.
LEMMA GrownFrames ==
  ASSUME frames \in Seq(FrameType), NEW k \in 1..Len(frames), frames[k].live < Regs
  PROVE  /\ Grown(k) \in Seq(FrameType)
         /\ Len(Grown(k)) = k
         /\ \A i \in 1..k - 1 : Grown(k)[i] = frames[i]
         /\ Grown(k)[k] = [frames[k] EXCEPT !.live = @ + 1]
         /\ \A i \in 1..k : /\ Grown(k)[i].id = frames[i].id
                            /\ Grown(k)[i].kind = frames[i].kind
                            /\ Grown(k)[i].callee = frames[i].callee
                            /\ Grown(k)[i].saved = frames[i].saved
  <1>1. \A i \in 1..Len(frames) : frames[i] \in FrameType
    OBVIOUS
  <1>2. [frames[k] EXCEPT !.live = @ + 1] \in FrameType
    <2>1. frames[k].live \in 0..Regs
      BY <1>1 DEF FrameType
    <2>2. frames[k].live + 1 \in 0..Regs
      BY <2>1, SizesAssumption
    <2>3. QED
      BY <1>1, <2>2 DEF FrameType
  <1>3. k \in Nat /\ k <= Len(frames)
    OBVIOUS
  <1>4. \A i \in 1..k : Grown(k)[i] \in FrameType
    BY <1>1, <1>2, <1>3 DEF Grown
  <1>5. Grown(k) \in Seq(FrameType) /\ Len(Grown(k)) = k
    <2>1. Grown(k) = [i \in 1..k |-> Grown(k)[i]]
      BY DEF Grown
    <2>2. QED
      BY <1>3, <1>4, <2>1
  <1>6. \A i \in 1..k - 1 : i \in 1..k /\ i # k
    BY <1>3
  <1>7. Grown(k)[k] = [frames[k] EXCEPT !.live = @ + 1]
    BY <1>3 DEF Grown
  <1>8. \A i \in 1..k - 1 : Grown(k)[i] = frames[i]
    BY <1>6 DEF Grown
  <1>9. frames[k] \in FrameType
    BY <1>1
  <1>10. \A i \in 1..k : i = k \/ i \in 1..k - 1
    BY <1>3
  <1>11. QED
    BY <1>5, <1>7, <1>8, <1>9, <1>10 DEF FrameType

\* What the invariant says of single frames and of the values in the stack.
LEMMA FrameFacts ==
  ASSUME FrameInv
  PROVE  /\ frames \in Seq(FrameType) /\ Len(frames) \in Nat
         /\ DOMAIN frames = 1..Len(frames)
         /\ Regs \in Nat \ {0} /\ MaxStack \in Nat /\ Regs + 1 <= MaxStack
         /\ top \in 0..MaxStack
         /\ \A i \in 1..Len(frames) :
              /\ frames[i] \in FrameType
              /\ frames[i].id \in Activations /\ frames[i].kind \in {"call", "effect"}
              /\ frames[i].callee \in 0..MaxStack - 1 /\ frames[i].saved \in 0..MaxStack
              /\ frames[i].live \in 0..Regs
              /\ Base(frames[i]) = frames[i].callee + 1
              /\ Base(frames[i]) \in Nat /\ frames[i].callee \in Nat /\ frames[i].live \in Nat
              /\ Base(frames[i]) + Regs <= MaxStack
  <1>1. frames \in Seq(FrameType) /\ top \in 0..MaxStack
    BY DEF FrameInv, TypeOK, FrameType, Values
  <1>2. Len(frames) \in Nat /\ DOMAIN frames = 1..Len(frames)
    BY <1>1
  <1>3. \A i \in 1..Len(frames) : frames[i] \in FrameType
    BY <1>1
  <1>4. \A i \in 1..Len(frames) : Base(frames[i]) + Regs <= MaxStack
    BY <1>2 DEF FrameInv, Fit
  <1>5. \A i \in 1..Len(frames) : frames[i].callee \in Nat /\ frames[i].live \in Nat
    BY <1>3, SizesAssumption DEF FrameType
  <1>6. \A i \in 1..Len(frames) : Base(frames[i]) \in Nat
    BY <1>5 DEF Base
  <1>7. QED
    BY <1>1, <1>2, <1>3, <1>4, <1>5, <1>6, SizesAssumption DEF FrameType, Base

\* The slot of an allocated register, below a bound on all of them.
LEMMA LastOrBefore ==
  ASSUME NEW L \in Nat, NEW i \in 1..L, i # L
  PROVE  i \in 1..L - 1
  OBVIOUS

\* The next free slot of a window is in the stack.
LEMMA FreeSlot ==
  ASSUME NEW b \in Nat, NEW live \in 0..Regs, live < Regs, b + Regs <= MaxStack
  PROVE  b + live + 1 \in 0..MaxStack
  BY SizesAssumption

LEMMA WindowSlot ==
  ASSUME NEW b \in Nat, NEW live \in 0..Regs, live < Regs, b + Regs <= MaxStack
  PROVE  b + live \in 0..MaxStack - 1 /\ live \in 0..Regs - 1
  BY SizesAssumption

LEMMA LargerFacts ==
  ASSUME NEW m \in Nat, NEW n \in Nat
  PROVE  /\ Larger(m, n) \in Nat /\ m <= Larger(m, n)
         /\ \A b \in Nat : m <= b /\ n <= b => Larger(m, n) \in 0..b
  BY DEF Larger

LEMMA Transitive ==
  ASSUME NEW a \in Nat, NEW b \in Nat, NEW c \in Nat, a <= b, b <= c
  PROVE  a <= c
  OBVIOUS

\* The last allocated register, when it is freed.
LEMMA LastSlot ==
  ASSUME NEW callee \in Nat, NEW live \in 0..Regs, live > 0, NEW slot \in Nat,
         slot = (callee + 1) + live
  PROVE  /\ slot - 1 \in Nat /\ slot - 1 = (callee + 1) + (live - 1)
         /\ callee <= slot - 1
         /\ \A r \in 0..(live - 1) - 1 : r \in 0..live - 1
  BY SizesAssumption

LEMMA SlotFacts ==
  ASSUME NEW b \in Nat, NEW live \in 0..Regs, NEW reg \in 0..live - 1,
         b + Regs <= MaxStack, NEW c \in Nat, b + live <= c
  PROVE  b + reg \in 0..MaxStack - 1 /\ b + reg < c /\ reg \in Nat
  BY SizesAssumption

\* A frame F arrives above all allocated registers, with its own in place:
\* one that is called, or one of a fiber that is resumed.
LEMMA AppendInv ==
  ASSUME FrameInv, active' \in Fibers \cup {NoFiber}, program' = program,
         NEW F \in FrameType, frames' = Append(frames, F),
         Base(F) + Regs <= MaxStack,
         \A i \in 1..Len(frames) : F.id # frames[i].id,
         \A i \in 1..Len(frames) : Base(frames[i]) + frames[i].live <= F.callee,
         F.kind = "call" /\ frames # <<>> => Cur.live < Regs,
         Reactive /\ frames # <<>> => Base(Cur) + Regs <= F.saved,
         Reactive => Base(F) + Regs <= top',
         top' \in 0..MaxStack,
         stack' \in [0..MaxStack - 1 -> Values],
         \A p \in 0..MaxStack - 1 : p < F.callee => stack'[p] = stack[p],
         \A r \in 0..F.live - 1 : stack'[Base(F) + r] = Reg(F.id, r)
  PROVE  FrameInv'
  <1> DEFINE L == Len(frames)
  <1>1. /\ frames \in Seq(FrameType) /\ L \in Nat /\ DOMAIN frames = 1..L
        /\ Regs \in Nat \ {0} /\ MaxStack \in Nat
        /\ \A i \in 1..L :
             /\ frames[i] \in FrameType
             /\ frames[i].callee \in 0..MaxStack - 1
             /\ frames[i].live \in 0..Regs
             /\ Base(frames[i]) = frames[i].callee + 1
             /\ Base(frames[i]) \in Nat
             /\ Base(frames[i]) + Regs <= MaxStack
    BY FrameFacts
  <1>0. L \in Nat
    BY <1>1
  <1>3. F.callee \in Nat /\ Base(F) = F.callee + 1
    BY <1>1 DEF FrameType, Base
  <1>4. /\ frames' \in Seq(FrameType) /\ Len(frames') = L + 1
        /\ DOMAIN frames' = 1..L + 1
        /\ frames'[L + 1] = F
        /\ \A i \in 1..L : frames'[i] = frames[i]
    BY <1>1
  <1>5. \A i \in 1..L + 1 : i = L + 1 \/ i \in 1..L
    BY <1>1
  <1>7. TypeOK'
    BY <1>4 DEF TypeOK, FrameType, Values, FrameInv
  <1>8. Fit'
    <2>1. ASSUME NEW i \in 1..L + 1 PROVE Base(frames'[i]) + Regs <= MaxStack
      BY <1>1, <1>4, <1>5
    <2>2. QED
      BY <1>4, <2>1 DEF Fit
  <1>9. Above'
    <2>1. ASSUME NEW i \in 1..L + 1, NEW j \in 1..L + 1, i < j
          PROVE  Base(frames'[i]) + frames'[i].live <= frames'[j].callee
      <3>1. i \in 1..L
        BY <1>1, <2>1
      <3>2. CASE j = L + 1
        BY <1>3, <1>4, <3>1, <3>2
      <3>3. CASE j \in 1..L
        BY <1>1, <1>4, <2>1, <3>1, <3>3 DEF FrameInv, Above
      <3>4. QED
        BY <1>5, <3>2, <3>3
    <2>2. QED
      BY <1>4, <2>1 DEF Above
  <1>10. CallRoom'
    <2>1. ASSUME NEW i \in 1..L + 1, NEW j \in 1..L + 1, j = i + 1,
                 frames'[j].kind = "call"
          PROVE  frames'[i].live < Regs
      <3>1. i \in 1..L
        BY <1>1, <2>1
      <3>2. CASE j = L + 1
        <4>1. i = L /\ frames # <<>>
          <5>1. i = L
            BY <1>0, <2>1, <3>2
          <5>2. L # 0
            BY <1>1, <3>1
          <5>3. QED
            BY <5>1, <5>2
        <4>2. QED
          BY <1>3, <1>4, <2>1, <3>1, <3>2, <4>1 DEF Cur
      <3>3. CASE j \in 1..L
        BY <1>1, <1>4, <2>1, <3>1, <3>3 DEF FrameInv, CallRoom
      <3>4. QED
        BY <1>5, <3>2, <3>3
    <2>2. QED
      BY <1>4, <2>1 DEF CallRoom
  <1>11. Distinct'
    <2>1. ASSUME NEW i \in 1..L + 1, NEW j \in 1..L + 1, frames'[i].id = frames'[j].id
          PROVE  i = j
      <3>1. CASE i \in 1..L /\ j \in 1..L
        BY <1>1, <1>4, <2>1, <3>1 DEF FrameInv, Distinct
      <3>2. CASE i = L + 1 \/ j = L + 1
        BY <1>4, <1>5, <2>1, <3>2
      <3>3. QED
        BY <1>5, <3>1, <3>2
    <2>2. QED
      BY <1>4, <2>1 DEF Distinct
  <1>12. Reserve'
    <2>1. SUFFICES ASSUME Reactive PROVE
            /\ Base(F) + Regs <= top'
            /\ \A i, j \in 1..L + 1 : j = i + 1 => Base(frames'[i]) + Regs <= frames'[j].saved
      BY <1>4 DEF Reserve, Cur, Reactive
    <2>2. Base(F) + Regs <= top'
      BY <2>1
    <2>3. ASSUME NEW i \in 1..L + 1, NEW j \in 1..L + 1, j = i + 1
          PROVE  Base(frames'[i]) + Regs <= frames'[j].saved
      <3>1. i \in 1..L
        BY <1>1, <2>3
      <3>2. CASE j = L + 1
        <4>1. i = L /\ frames # <<>>
          <5>1. i = L
            BY <1>0, <2>3, <3>2
          <5>2. L # 0
            BY <1>1, <3>1
          <5>3. QED
            BY <5>1, <5>2
        <4>2. QED
          BY <1>3, <1>4, <2>1, <3>1, <3>2, <4>1 DEF Cur
      <3>3. CASE j \in 1..L
        BY <1>1, <1>4, <2>1, <2>3, <3>1, <3>3 DEF FrameInv, Reserve
      <3>4. QED
        BY <1>5, <3>2, <3>3
    <2>4. QED
      BY <2>2, <2>3
  <1>13. RegistersIntact'
    <2>1. ASSUME NEW i \in 1..L + 1, NEW r \in 0..frames'[i].live - 1
          PROVE  stack'[Base(frames'[i]) + r] = Reg(frames'[i].id, r)
      <3>1. CASE i = L + 1
        BY <1>4, <3>1
      <3>2. CASE i \in 1..L
        <4>1. /\ frames'[i] = frames[i] /\ r \in 0..frames[i].live - 1
              /\ Base(frames[i]) \in Nat
              /\ Base(frames[i]) + r \in 0..MaxStack - 1
              /\ Base(frames[i]) + r < F.callee
          <5>1. frames'[i] = frames[i]
            BY <1>4, <3>2
          <5>2. r \in 0..frames[i].live - 1
            BY <5>1
          <5>3. Base(frames[i]) + frames[i].live <= F.callee
            BY <3>2
          <5>4. frames[i].live \in 0..Regs /\ Base(frames[i]) \in Nat
                /\ Base(frames[i]) + Regs <= MaxStack
            BY <1>1, <3>2
          <5>6. /\ Base(frames[i]) + r \in 0..MaxStack - 1
                /\ Base(frames[i]) + r < F.callee
            BY <1>3, <5>2, <5>3, <5>4, SlotFacts
          <5>7. QED
            BY <5>1, <5>2, <5>4, <5>6
        <4>2. stack'[Base(frames[i]) + r] = stack[Base(frames[i]) + r]
          BY <4>1
        <4>3. QED
          BY <1>1, <3>2, <4>1, <4>2 DEF FrameInv, RegistersIntact
      <3>3. QED
        BY <1>5, <3>1, <3>2
    <2>2. QED
      BY <1>4, <2>1 DEF RegistersIntact
  <1>14. QED
    BY <1>7, <1>8, <1>9, <1>10, <1>11, <1>12, <1>13 DEF FrameInv

\* What Window writes: values of the stack, the arguments from the base on,
\* and nothing below the callee.
LEMMA WindowValues ==
  ASSUME NEW id \in Activations, NEW callee, NEW n \in 0..Regs, callee \in Nat,
         NEW s \in [0..MaxStack - 1 -> Values]
  PROVE  Window(s, id, callee, n) \in
           [0..MaxStack - 1 -> Values]
  <1>1. ASSUME NEW p \in 0..MaxStack - 1, p \in callee + 1..callee + n
        PROVE  p - callee - 1 \in 0..Regs - 1
    BY <1>1, SizesAssumption
  <1>2. Junk \in Values
    BY SizesAssumption DEF Junk, Values
  <1>3. QED
    BY <1>1, <1>2 DEF Window, Reg, Values

LEMMA WindowNew ==
  ASSUME NEW id, NEW callee \in 0..MaxStack - 1, NEW n \in 0..Regs, NEW r \in 0..n - 1,
         callee + 1 + Regs <= MaxStack,
         NEW s \in [0..MaxStack - 1 -> Values]
  PROVE  Window(s, id, callee, n)[callee + 1 + r] = Reg(id, r)
  <1>1. /\ callee + 1 + r \in 0..MaxStack - 1
        /\ callee + 1 + r \in callee + 1..callee + n
        /\ (callee + 1 + r) - callee - 1 = r
    BY SizesAssumption
  <1>2. QED
    BY <1>1 DEF Window

LEMMA WindowBelow ==
  ASSUME NEW id, NEW callee \in Nat, NEW n \in 0..Regs, NEW p \in 0..MaxStack - 1, p < callee,
         NEW s \in [0..MaxStack - 1 -> Values]
  PROVE  Window(s, id, callee, n)[p] = s[p]
  <1>1. p \notin callee + 1..callee + n /\ p \notin callee..callee + Regs
    BY SizesAssumption
  <1>2. QED
    BY <1>1 DEF Window

\* A frame pushed by VM::call, whoever calls.
LEMMA PushInv ==
  ASSUME FrameInv,
         NEW id \in Activations, NEW kind \in {"call", "effect"},
         NEW callee \in Nat, NEW n \in Nat, NEW t \in 0..MaxStack,
         Push(id, kind, callee, n, t), active' \in Fibers \cup {NoFiber}, program' = program,
         \A i \in 1..Len(frames) : Base(frames[i]) + frames[i].live <= callee,
         kind = "call" /\ frames # <<>> => Cur.live < Regs,
         Reactive /\ frames # <<>> => Base(Cur) + Regs <= t
  PROVE  FrameInv'
  <1> DEFINE F == Frame(id, kind, callee, t, n)
  <1>1. /\ Regs \in Nat \ {0} /\ MaxStack \in Nat /\ DOMAIN frames = 1..Len(frames)
        /\ stack \in [0..MaxStack - 1 -> Values]
    BY FrameFacts DEF FrameInv, TypeOK, Values
  <1>2. /\ id \notin InUse /\ n \in 0..Regs /\ callee + 1 + Regs <= MaxStack
        /\ callee \in 0..MaxStack - 1
        /\ stack' = Window(stack, id, callee, n)
        /\ frames' = Append(frames, F)
        /\ top' = Larger(t, callee + 1 + Regs)
    BY <1>1 DEF Push, Fits, Raised
  <1>3. /\ F \in FrameType /\ F.id = id /\ F.kind = kind /\ F.callee = callee
        /\ F.saved = t /\ F.live = n /\ Base(F) = callee + 1
    BY <1>1, <1>2 DEF Frame, FrameType, Base
  <1>4. stack' \in [0..MaxStack - 1 -> Values]
    BY <1>1, <1>2, WindowValues
  <1>5. \A p \in 0..MaxStack - 1 : p < callee => stack'[p] = stack[p]
    BY <1>1, <1>2, WindowBelow
  <1>6. \A r \in 0..n - 1 : stack'[callee + 1 + r] = Reg(id, r)
    BY <1>1, <1>2, WindowNew
  <1>7. top' \in 0..MaxStack /\ callee + 1 + Regs <= top'
    BY <1>1, <1>2 DEF Larger
  <1>8. \A i \in 1..Len(frames) : id # frames[i].id
    BY <1>1, <1>2 DEF InUse
  <1> HIDE DEF F
  <1>9. QED
    BY <1>2, <1>3, <1>4, <1>5, <1>6, <1>7, <1>8, AppendInv

\* One more register of frame k is assigned and the frames above it are gone:
\* the result of an instruction, of a native or of a function that returned.
LEMMA GrowInv ==
  ASSUME FrameInv, active' \in Fibers \cup {NoFiber}, program' = program,
         NEW k \in 1..Len(frames), frames[k].live < Regs,
         NEW s \in [0..MaxStack - 1 -> Values],
         \A i \in 1..k : \A r \in 0..frames[i].live - 1 :
           s[Base(frames[i]) + r] = Reg(frames[i].id, r),
         stack' = Assign(s, k), frames' = Grown(k),
         top' \in 0..MaxStack, Reactive => Base(frames[k]) + Regs <= top'
  PROVE  FrameInv'
  <1> DEFINE L == Len(frames)
             slot == Base(frames[k]) + frames[k].live
  <1>1. /\ frames \in Seq(FrameType) /\ L \in Nat /\ DOMAIN frames = 1..L
        /\ Regs \in Nat \ {0} /\ MaxStack \in Nat
        /\ \A i \in 1..L :
             /\ frames[i] \in FrameType
             /\ frames[i].id \in Activations
             /\ frames[i].callee \in 0..MaxStack - 1
             /\ frames[i].live \in 0..Regs
             /\ Base(frames[i]) = frames[i].callee + 1
             /\ Base(frames[i]) \in Nat /\ frames[i].callee \in Nat /\ frames[i].live \in Nat
             /\ Base(frames[i]) + Regs <= MaxStack
    BY FrameFacts
  <1>2. /\ frames' \in Seq(FrameType) /\ Len(frames') = k /\ DOMAIN frames' = 1..k
        /\ \A i \in 1..k - 1 : frames'[i] = frames[i]
        /\ \A i \in 1..k : /\ frames'[i].id = frames[i].id
                           /\ frames'[i].kind = frames[i].kind
                           /\ frames'[i].callee = frames[i].callee
                           /\ frames'[i].saved = frames[i].saved
        /\ frames'[k].live = frames[k].live + 1
    <2>1. /\ Grown(k) \in Seq(FrameType)
          /\ Len(Grown(k)) = k
          /\ \A i \in 1..k - 1 : Grown(k)[i] = frames[i]
          /\ Grown(k)[k] = [frames[k] EXCEPT !.live = @ + 1]
          /\ \A i \in 1..k : /\ Grown(k)[i].id = frames[i].id
                             /\ Grown(k)[i].kind = frames[i].kind
                             /\ Grown(k)[i].callee = frames[i].callee
                             /\ Grown(k)[i].saved = frames[i].saved
      BY <1>1, GrownFrames
    <2>2. frames[k] \in FrameType
      BY <1>1
    <2>3. [frames[k] EXCEPT !.live = @ + 1].live = frames[k].live + 1
      BY <2>2 DEF FrameType
    <2>4. DOMAIN Grown(k) = 1..k
      BY DEF Grown
    <2>5. QED
      BY <2>1, <2>3, <2>4
  <1>3. k \in Nat /\ k <= L
    BY <1>1
  <1>4. /\ \A i \in 1..k : i \in 1..L /\ (i = k \/ i \in 1..k - 1) /\ Base(frames'[i]) = Base(frames[i])
        /\ \A i, j \in 1..k : i < j => i \in 1..k - 1
    BY <1>2, <1>3 DEF Base
  <1>5. slot \in 0..MaxStack - 1 /\ frames[k].live \in 0..Regs - 1
    <2>1. /\ Base(frames[k]) \in Nat /\ frames[k].live \in Nat
          /\ Base(frames[k]) + Regs <= MaxStack
      BY <1>1
    <2>2. frames[k].live \in 0..Regs
      BY <1>1
    <2>3. QED
      BY <2>1, <2>2, WindowSlot
  <1>6. \A p \in 0..MaxStack - 1 :
          stack'[p] = IF p = slot THEN Reg(frames[k].id, frames[k].live) ELSE s[p]
    BY <1>5 DEF Assign
  <1>7. TypeOK'
    <2>1. Reg(frames[k].id, frames[k].live) \in Values
      BY <1>1, <1>5 DEF Reg, Values
    <2>2. stack' \in [0..MaxStack - 1 -> Values]
      BY <2>1 DEF Assign
    <2>3. QED
      BY <1>2, <2>2 DEF TypeOK, FrameType, Values, FrameInv
  <1>8. Fit'
    BY <1>1, <1>2, <1>4 DEF Fit
  <1>9. Above'
    <2>1. ASSUME NEW i \in 1..k, NEW j \in 1..k, i < j
          PROVE  Base(frames'[i]) + frames'[i].live <= frames'[j].callee
      <3>1. i \in 1..k - 1 /\ i \in 1..L /\ j \in 1..L
        BY <1>4, <2>1
      <3>2. Base(frames[i]) + frames[i].live <= frames[j].callee
        BY <1>1, <2>1, <3>1 DEF FrameInv, Above
      <3>3. QED
        BY <1>2, <1>4, <3>1, <3>2
    <2>2. QED
      BY <1>2, <2>1 DEF Above
  <1>10. CallRoom'
    <2>1. ASSUME NEW i \in 1..k, NEW j \in 1..k, j = i + 1, frames'[j].kind = "call"
          PROVE  frames'[i].live < Regs
      <3>1. i \in 1..k - 1
        BY <1>3, <2>1
      <3>2. QED
        BY <1>1, <1>2, <1>4, <2>1, <3>1 DEF FrameInv, CallRoom
    <2>2. QED
      BY <1>2, <2>1 DEF CallRoom
  <1>11. Distinct'
    <2>1. ASSUME NEW i \in 1..k, NEW j \in 1..k, frames'[i].id = frames'[j].id
          PROVE  i = j
      <3>1. frames[i].id = frames[j].id
        BY <1>2, <2>1
      <3>2. i \in DOMAIN frames /\ j \in DOMAIN frames
        BY <1>1, <1>4
      <3>3. QED
        BY <3>1, <3>2 DEF FrameInv, Distinct
    <2>2. QED
      BY <1>2, <2>1 DEF Distinct
  <1>12. Reserve'
    <2>1. Reactive => Base(frames'[k]) + Regs <= top'
      BY <1>3, <1>4
    <2>2. Reactive => \A i, j \in 1..k : j = i + 1 => Base(frames'[i]) + Regs <= frames'[j].saved
      BY <1>1, <1>2, <1>4 DEF FrameInv, Reserve
    <2>3. QED
      BY <1>2, <2>1, <2>2 DEF Reserve, Cur, Reactive
  <1>13. RegistersIntact'
    <2>1. ASSUME NEW i \in 1..k - 1, NEW r \in 0..frames'[i].live - 1
          PROVE  stack'[Base(frames'[i]) + r] = Reg(frames'[i].id, r)
      <3>1. /\ i \in 1..k /\ i \in 1..L /\ i < k /\ r \in 0..frames[i].live - 1
        BY <1>2, <1>3
      <3>2. Base(frames[i]) + frames[i].live <= frames[k].callee
        BY <1>1, <3>1 DEF FrameInv, Above
      <3>3. /\ Base(frames[i]) \in Nat /\ frames[i].live \in 0..Regs
            /\ Base(frames[i]) + Regs <= MaxStack /\ frames[k].callee \in Nat
        BY <1>1, <3>1
      <3>4. Base(frames[i]) + r \in 0..MaxStack - 1 /\ Base(frames[i]) + r < frames[k].callee
        BY <3>1, <3>2, <3>3, SlotFacts
      <3>5. frames[k].callee < slot
        <4>1. Base(frames[k]) = frames[k].callee + 1
          BY <1>1
        <4>2. frames[k].callee \in Nat /\ frames[k].live \in Nat
          BY <1>1
        <4>3. QED
          BY <4>1, <4>2
      <3>6. Base(frames[i]) + r # slot
        BY <1>5, <3>3, <3>4, <3>5
      <3>7. QED
        BY <1>2, <1>4, <1>6, <3>1, <3>4, <3>6
    <2>2. ASSUME NEW r \in 0..frames'[k].live - 1
          PROVE  stack'[Base(frames'[k]) + r] = Reg(frames'[k].id, r)
      <3>1. frames'[k].id = frames[k].id /\ Base(frames'[k]) = Base(frames[k])
        BY <1>2, <1>3, <1>4
      <3>2. CASE r = frames[k].live
        BY <1>5, <1>6, <3>1, <3>2
      <3>3. CASE r # frames[k].live
        <4>1. r \in 0..frames[k].live - 1
          BY <1>2, <1>5, <3>3
        <4>2. Base(frames[k]) \in Nat /\ Base(frames[k]) + Regs <= MaxStack
          BY <1>1
        <4>3. slot \in Nat /\ Base(frames[k]) + frames[k].live <= slot /\ frames[k].live \in 0..Regs
          BY <1>1, <1>5, <4>2
        <4>4. Base(frames[k]) + r \in 0..MaxStack - 1 /\ Base(frames[k]) + r < slot
          BY <4>1, <4>2, <4>3, SlotFacts
        <4>5. Base(frames[k]) + r # slot
          BY <4>3, <4>4
        <4>6. s[Base(frames[k]) + r] = Reg(frames[k].id, r)
          BY <1>3, <4>1
        <4>7. QED
          BY <1>6, <3>1, <4>4, <4>5, <4>6
      <3>4. QED
        BY <3>2, <3>3
    <2>3. QED
      BY <1>2, <1>4, <2>1, <2>2 DEF RegistersIntact
  <1>14. QED
    BY <1>7, <1>8, <1>9, <1>10, <1>11, <1>12, <1>13 DEF FrameInv

\* Forgetting the values of the frame on top loses no register of another.
LEMMA ForgetFacts ==
  ASSUME FrameInv, Running
  PROVE  /\ Forget(stack, Cur.id) \in
              [0..MaxStack - 1 -> Values]
         /\ \A i \in 1..Len(frames) - 1 : \A r \in 0..frames[i].live - 1 :
              Forget(stack, Cur.id)[Base(frames[i]) + r] = Reg(frames[i].id, r)
  <1> DEFINE L == Len(frames)
  <1>1. stack \in [0..MaxStack - 1 -> Values]
    BY DEF FrameInv, TypeOK, Values
  <1>2. Junk \in Values
    BY SizesAssumption DEF Junk, Values
  <1>3. Forget(stack, Cur.id) \in [0..MaxStack - 1 -> Values]
    BY <1>1, <1>2 DEF Forget
  <1>4. ASSUME NEW i \in 1..L - 1, NEW r \in 0..frames[i].live - 1
        PROVE  Forget(stack, Cur.id)[Base(frames[i]) + r] = Reg(frames[i].id, r)
    <2>0. L \in Nat /\ DOMAIN frames = 1..L
      BY FrameFacts
    <2>1. L \in Nat /\ i \in 1..L /\ L \in 1..L /\ i < L /\ DOMAIN frames = 1..L
      BY <2>0
    <2>2. /\ Base(frames[i]) \in Nat /\ frames[i].live \in 0..Regs
          /\ Base(frames[i]) + Regs <= MaxStack /\ frames[L].callee \in Nat
      BY <2>1, FrameFacts
    <2>3. Base(frames[i]) + frames[i].live <= frames[L].callee
      BY <2>1 DEF FrameInv, Above
    <2>4. Base(frames[i]) + r \in 0..MaxStack - 1
      BY <2>2, <2>3, SlotFacts
    <2>5. stack[Base(frames[i]) + r] = Reg(frames[i].id, r)
      BY <2>1 DEF FrameInv, RegistersIntact
    <2>6. frames[i].id # Cur.id
      <3>1. i # L
        BY <2>1
      <3>2. QED
        BY <2>1, <3>1 DEF FrameInv, Distinct, Cur
    <2>7. QED
      BY <1>1, <2>4, <2>5, <2>6 DEF Forget, Reg
  <1>5. QED
    BY <1>3, <1>4

\* The frame on top keeps its place and changes what it has allocated, or is
\* taken over by another activation.
LEMMA ReshapeInv ==
  ASSUME FrameInv, Running, active' \in Fibers \cup {NoFiber}, program' = program,
         frames' \in Seq(FrameType), Len(frames') = Len(frames),
         \A i \in 1..Len(frames) - 1 : frames'[i] = frames[i] /\ frames'[i].id # frames'[Len(frames)].id,
         frames'[Len(frames)].kind = Cur.kind,
         frames'[Len(frames)].callee = Cur.callee,
         frames'[Len(frames)].saved = Cur.saved,
         stack' \in [0..MaxStack - 1 -> Values],
         top' \in 0..MaxStack, Reactive => Base(Cur) + Regs <= top',
         \A i \in 1..Len(frames) : \A r \in 0..frames'[i].live - 1 :
           stack'[Base(frames'[i]) + r] = Reg(frames'[i].id, r)
  PROVE  FrameInv'
  <1> DEFINE L == Len(frames)
  <1>1. /\ L \in Nat /\ L # 0 /\ DOMAIN frames = 1..L /\ DOMAIN frames' = 1..L
        /\ \A i \in 1..L : Base(frames[i]) + Regs <= MaxStack
    BY FrameFacts DEF Running
  <1>2. /\ \A i \in 1..L : /\ i = L \/ i \in 1..L - 1
                          /\ frames'[i].kind = frames[i].kind
                          /\ frames'[i].callee = frames[i].callee
                          /\ frames'[i].saved = frames[i].saved
                          /\ Base(frames'[i]) = Base(frames[i])
        /\ \A i, j \in 1..L : i < j => i \in 1..L - 1
    <2>1. \A i \in 1..L : i = L \/ i \in 1..L - 1
      BY <1>1, LastOrBefore
    <2>2. ASSUME NEW i \in 1..L, NEW j \in 1..L, i < j PROVE i \in 1..L - 1
      <3>1. L \in Nat
        BY <1>1
      <3>2. QED
        BY <2>2, <3>1
    <2>3. ASSUME NEW i \in 1..L
          PROVE  /\ frames'[i].kind = frames[i].kind
                 /\ frames'[i].callee = frames[i].callee
                 /\ frames'[i].saved = frames[i].saved
      <3>1. CASE i = L
        BY <3>1 DEF Cur
      <3>2. CASE i \in 1..L - 1
        <4>1. frames'[i] = frames[i]
          BY <3>2
        <4>2. QED
          BY <4>1
      <3>3. QED
        BY <2>1, <3>1, <3>2
    <2>4. QED
      BY <2>1, <2>2, <2>3 DEF Base
  <1>3. TypeOK'
    BY DEF TypeOK, FrameType, Values, FrameInv
  <1>4. Fit' /\ Above'
    BY <1>1, <1>2 DEF FrameInv, Fit, Above
  <1>5. CallRoom'
    <2>1. ASSUME NEW i \in 1..L, NEW j \in 1..L, j = i + 1, frames'[j].kind = "call"
          PROVE  frames'[i].live < Regs
      <3>1. i \in 1..L - 1
        BY <1>1, <2>1
      <3>2. QED
        BY <1>1, <1>2, <2>1, <3>1 DEF FrameInv, CallRoom
    <2>2. QED
      BY <1>1, <2>1 DEF CallRoom
  <1>6. Distinct'
    <2>1. ASSUME NEW i \in 1..L, NEW j \in 1..L, frames'[i].id = frames'[j].id
          PROVE  i = j
      <3>1. CASE i \in 1..L - 1 /\ j \in 1..L - 1
        BY <1>1, <2>1, <3>1 DEF FrameInv, Distinct
      <3>2. CASE i = L \/ j = L
        BY <1>2, <2>1, <3>2
      <3>3. QED
        BY <1>2, <3>1, <3>2
    <2>2. QED
      BY <1>1, <2>1 DEF Distinct
  <1>7. Reserve'
    <2>1. Reactive => Base(frames'[L]) + Regs <= top'
      <3>1. L \in 1..L
        BY <1>1
      <3>2. Base(frames'[L]) = Base(Cur)
        BY <1>2, <3>1 DEF Cur
      <3>3. QED
        BY <3>2
    <2>2. Reactive => \A i, j \in 1..L : j = i + 1 => Base(frames'[i]) + Regs <= frames'[j].saved
      BY <1>1, <1>2 DEF FrameInv, Reserve
    <2>3. QED
      BY <1>1, <2>1, <2>2 DEF Reserve, Cur, Reactive
  <1>8. RegistersIntact'
    BY <1>1 DEF RegistersIntact
  <1>9. QED
    BY <1>3, <1>4, <1>5, <1>6, <1>7, <1>8 DEF FrameInv

\* The frame on top is gone and its result is where the caller expects it.
LEMMA PopInv ==
  ASSUME FrameInv, Running, active' \in Fibers \cup {NoFiber}, program' = program, NEW t \in 0..MaxStack, Pop(t),
         Reactive /\ Len(frames) > 1 => Base(frames[Len(frames) - 1]) + Regs <= t
  PROVE  FrameInv'
  <1> DEFINE L == Len(frames)
             S == Forget(stack, Cur.id)
  <1>1. /\ frames \in Seq(FrameType) /\ L \in Nat /\ DOMAIN frames = 1..L
        /\ Regs \in Nat \ {0} /\ MaxStack \in Nat /\ Regs + 1 <= MaxStack
    BY FrameFacts
  <1>2. /\ S \in [0..MaxStack - 1 -> Values]
        /\ \A i \in 1..L - 1 : \A r \in 0..frames[i].live - 1 :
             S[Base(frames[i]) + r] = Reg(frames[i].id, r)
    BY ForgetFacts
  <1>3. L # 0
    BY <1>1 DEF Running
  <1>4. CASE L = 1
    <2>1. frames' = <<>> /\ top' = 1 /\ stack' = S
      BY <1>4 DEF Pop
    <2>2. frames' \in Seq(FrameType) /\ DOMAIN frames' = {}
      BY <2>1
    <2>3. top' \in 0..MaxStack
      BY <1>1, <2>1
    <2>4. TypeOK'
      BY <1>2, <2>1, <2>2, <2>3 DEF TypeOK, FrameType, Values, FrameInv
    <2>5. QED
      BY <2>1, <2>2, <2>4
      DEF FrameInv, Fit, Above, CallRoom, Distinct, Reserve, RegistersIntact
  <1>5. CASE L # 1 /\ Cur.kind = "call"
    <2>1. L - 1 \in 1..L /\ L > 1 /\ L = (L - 1) + 1 /\ L \in 1..L
      BY <1>1, <1>3, <1>5
    <2>2. top' = t /\ stack' = Assign(S, L - 1) /\ frames' = Grown(L - 1)
      BY <1>5 DEF Pop
    <2>3. frames[L - 1].live < Regs
      BY <1>1, <1>5, <2>1 DEF FrameInv, CallRoom, Cur
    <2>4. QED
      BY <1>2, <2>1, <2>2, <2>3, GrowInv
  <1>6. CASE L # 1 /\ Cur.kind # "call"
    <2>1. L - 1 \in Nat /\ L > 1 /\ L \in 1..L /\ \A i \in 1..L - 1 : i \in 1..L /\ i < L
      BY <1>1, <1>3, <1>6
    <2>2. top' = t /\ stack' = [S EXCEPT ![Cur.callee] = Junk]
          /\ frames' = SubSeq(frames, 1, L - 1)
      BY <1>6 DEF Pop
    <2>3. /\ frames' \in Seq(FrameType) /\ Len(frames') = L - 1 /\ DOMAIN frames' = 1..L - 1
          /\ \A i \in 1..L - 1 : frames'[i] = frames[i]
      BY <1>1, <2>1, <2>2
    <2>4. TypeOK'
      <3>1. Junk \in Values
        BY <1>1 DEF Junk, Values
      <3>2. stack' \in [0..MaxStack - 1 -> Values]
        BY <1>2, <2>2, <3>1
      <3>3. QED
        BY <2>2, <2>3, <3>2 DEF TypeOK, FrameType, Values, FrameInv
    <2>5. Fit' /\ Above' /\ CallRoom' /\ Distinct'
      BY <1>1, <2>1, <2>3 DEF FrameInv, Fit, Above, CallRoom, Distinct
    <2>6. Reserve'
      <3>1. Reactive => Base(frames'[L - 1]) + Regs <= top'
        <4>1. L - 1 \in 1..L - 1
          BY <2>1
        <4>2. QED
          BY <2>1, <2>2, <2>3, <4>1
      <3>2. Reactive => \A i, j \in 1..L - 1 : j = i + 1 =>
                           Base(frames'[i]) + Regs <= frames'[j].saved
        BY <1>1, <2>1, <2>3 DEF FrameInv, Reserve
      <3>3. QED
        BY <2>3, <3>1, <3>2 DEF Reserve, Cur, Reactive
    <2>7. RegistersIntact'
      <3>1. ASSUME NEW i \in 1..L - 1, NEW r \in 0..frames[i].live - 1
            PROVE  stack'[Base(frames[i]) + r] = Reg(frames[i].id, r)
        <4>1. /\ Base(frames[i]) \in Nat /\ frames[i].live \in 0..Regs
              /\ Base(frames[i]) + Regs <= MaxStack /\ Cur.callee \in Nat
          BY <2>1, FrameFacts DEF Cur
        <4>2. Base(frames[i]) + frames[i].live <= Cur.callee
          BY <1>1, <2>1 DEF FrameInv, Above, Cur
        <4>3. Base(frames[i]) + r \in 0..MaxStack - 1 /\ Base(frames[i]) + r < Cur.callee
          BY <4>1, <4>2, SlotFacts
        <4>4. Base(frames[i]) + r # Cur.callee
          BY <4>1, <4>3
        <4>5. QED
          BY <1>2, <2>2, <4>3, <4>4
      <3>2. QED
        BY <2>3, <3>1 DEF RegistersIntact
    <2>8. QED
      BY <2>4, <2>5, <2>6, <2>7 DEF FrameInv
  <1>7. QED
    BY <1>4, <1>5, <1>6

LEMMA InitFrames == Init => FrameInv
  <1> SUFFICES ASSUME Init PROVE FrameInv
    OBVIOUS
  <1>1. frames \in Seq(FrameType) /\ DOMAIN frames = {} /\ frames = <<>>
    BY DEF Init
  <1>2. TypeOK
    <2>1. Junk \in Values
      BY SizesAssumption DEF Junk, Values
    <2>2. top \in 0..MaxStack
      BY SizesAssumption DEF Init
    <2>3. QED
      BY <1>1, <2>1, <2>2 DEF Init, TypeOK, FrameType, Values
  <1>3. QED
    BY <1>1, <1>2
    DEF Init, FrameInv, Fit, Above, CallRoom, Distinct, Reserve, RegistersIntact

\* The frame on top, and the next free slot in its window.
LEMMA CurFacts ==
  ASSUME FrameInv, Running
  PROVE  /\ Len(frames) \in 1..Len(frames) /\ Cur \in FrameType
         /\ Cur.id \in Activations /\ Cur.callee \in 0..MaxStack - 1
         /\ Cur.saved \in 0..MaxStack /\ Cur.live \in 0..Regs
         /\ Base(Cur) = Cur.callee + 1 /\ Base(Cur) + Regs <= MaxStack
         /\ Base(Cur) \in Nat /\ NextSlot \in Nat /\ NextSlot = Base(Cur) + Cur.live
         /\ \A i \in 1..Len(frames) - 1 : Base(frames[i]) + frames[i].live <= Cur.callee
         /\ \A i \in 1..Len(frames) : Base(frames[i]) + frames[i].live <= NextSlot
  <1> DEFINE L == Len(frames)
  <1>1. L \in Nat /\ L # 0 /\ DOMAIN frames = 1..L
    BY FrameFacts DEF Running
  <1>2. L \in 1..L /\ \A i \in 1..L - 1 : i \in 1..L /\ i < L
    BY <1>1
  <1>3. /\ Cur \in FrameType
        /\ Cur.id \in Activations /\ Cur.callee \in 0..MaxStack - 1
        /\ Cur.saved \in 0..MaxStack /\ Cur.live \in 0..Regs
        /\ Base(Cur) = Cur.callee + 1 /\ Base(Cur) + Regs <= MaxStack
        /\ Base(Cur) \in Nat /\ Cur.callee \in Nat /\ Cur.live \in Nat
    BY <1>2, FrameFacts DEF Cur
  <1>4. NextSlot \in Nat /\ NextSlot = Base(Cur) + Cur.live /\ Cur.callee <= NextSlot
    BY <1>3 DEF NextSlot
  <1>5. \A i \in 1..L - 1 : Base(frames[i]) + frames[i].live <= Cur.callee
    BY <1>1, <1>2 DEF FrameInv, Above, Cur
  <1>6. ASSUME NEW i \in 1..L
        PROVE  Base(frames[i]) + frames[i].live <= NextSlot
    <2>1. CASE i = L
      BY <1>4, <2>1 DEF Cur
    <2>2. CASE i # L
      <3>1. i \in 1..L - 1
        BY <1>1, <2>2, LastOrBefore
      <3>2. /\ Base(frames[i]) + frames[i].live <= Cur.callee
            /\ Base(frames[i]) + frames[i].live \in Nat
        BY <1>5, <3>1, FrameFacts
      <3>3. Cur.callee <= NextSlot /\ Cur.callee \in Nat /\ NextSlot \in Nat
        BY <1>3, <1>4
      <3>4. QED
        BY <3>2, <3>3
    <2>3. QED
      BY <2>1, <2>2
  <1>7. QED
    BY <1>2, <1>3, <1>4, <1>5, <1>6

-----------------------------------------------------------------------------
(* Fibers *)

FiberType == [state : {"created", "running", "suspended", "done"}, base : Nat,
              parent : Fibers \cup {NoFiber}, saved : Seq(Values), frames : Seq(FrameType)]
FiberTyped == fiber \in [Fibers -> FiberType]

\* The fiber that runs has frames of its own above those of the code outside
\* fibers, which called it where it has its next free register.
Under == fiber[active].base
Inside == active # NoFiber =>
  /\ "fibers" \in program
  /\ Under \in 1..Len(frames) - 1
  /\ fiber[active].parent = NoFiber
  /\ frames[Under + 1].callee = Base(frames[Under]) + frames[Under].live

\* In a fiber stack_top_ is above the whole window of the frame that runs, and
\* saved so for those that wait: a yield copies all registers that are in use.
Deep == active # NoFiber =>
  /\ Base(Cur) + Regs <= top
  /\ \A i, j \in DOMAIN frames : Under < i /\ j = i + 1 => Base(frames[i]) + Regs <= frames[j].saved

Kinds == "fibers" \in program => \A i \in DOMAIN frames : frames[i].kind = "call"

\* A suspended fiber has its only frame and all its registers with it.
Waits(f) == fiber[f].state = "suspended"
Entry(f) == fiber[f].frames[1]
Whole(f) ==
  /\ Len(fiber[f].frames) = 1 /\ Entry(f).callee = 0 /\ Entry(f).kind = "call"
  /\ 1 + Regs <= Len(fiber[f].saved)
  /\ \A r \in 0..Entry(f).live - 1 : fiber[f].saved[r + 2] = Reg(Entry(f).id, r)
Parked ==
  \A f \in Fibers : Waits(f) =>
    /\ Whole(f)
    /\ \A i \in DOMAIN frames : frames[i].id # Entry(f).id
    /\ \A g \in Fibers : Waits(g) /\ Entry(g).id = Entry(f).id => g = f

FiberPart == FiberTyped /\ Inside /\ Deep /\ Kinds /\ Parked
StackInv == FrameInv /\ FiberPart

\* Fibers that wait do not notice what frames come and go.
LEMMA ParkedStay ==
  ASSUME Parked,
         \A f \in Fibers : Waits(f)' => /\ Waits(f)
                                        /\ fiber'[f].frames = fiber[f].frames
                                        /\ fiber'[f].saved = fiber[f].saved,
         \A i \in DOMAIN frames' : \A f \in Fibers : Waits(f)' => frames'[i].id # Entry(f).id
  PROVE  Parked'
  <1>1. SUFFICES ASSUME NEW f \in Fibers, Waits(f)'
                 PROVE  /\ Whole(f)'
                        /\ \A i \in DOMAIN frames' : frames'[i].id # fiber'[f].frames[1].id
                        /\ \A g \in Fibers : Waits(g)' /\ fiber'[g].frames[1].id = fiber'[f].frames[1].id
                             => g = f
    BY DEF Parked, Entry
  <1>2. Waits(f) /\ fiber'[f].frames = fiber[f].frames /\ fiber'[f].saved = fiber[f].saved
    BY <1>1
  <1>3. Whole(f)'
    BY <1>2 DEF Parked, Whole, Entry
  <1>4. \A i \in DOMAIN frames' : frames'[i].id # fiber'[f].frames[1].id
    BY <1>1, <1>2 DEF Entry
  <1>5. ASSUME NEW g \in Fibers, Waits(g)', fiber'[g].frames[1].id = fiber'[f].frames[1].id
        PROVE  g = f
    <2>1. Waits(g) /\ fiber'[g].frames = fiber[g].frames
      BY <1>5
    <2>2. Entry(g).id = Entry(f).id
      BY <1>2, <1>5, <2>1 DEF Entry
    <2>3. QED
      BY <1>2, <2>1, <2>2 DEF Parked
  <1>6. QED
    BY <1>3, <1>4, <1>5

\* A new name is not that of a fiber that waits, or of another frame.
LEMMA NewName ==
  ASSUME Parked, FiberTyped, NEW id, id \notin InUse
  PROVE  \A f \in Fibers : Waits(f) => id # Entry(f).id
  <1>1. SUFFICES ASSUME NEW f \in Fibers, Waits(f) PROVE id # Entry(f).id
    OBVIOUS
  <1>2. Len(fiber[f].frames) = 1 /\ fiber[f].frames \in Seq(FrameType)
    BY <1>1 DEF Parked, Whole, FiberTyped, FiberType
  <1>3. 1 \in DOMAIN fiber[f].frames
    BY <1>2
  <1>4. QED
    BY <1>3 DEF InUse, Entry

\* Frames come and go above those of the fiber's resumer.
LEMMA KeepFibers ==
  ASSUME StackInv, UNCHANGED <<active, fiber, program>>,
         NEW n \in Nat, DOMAIN frames' = 1..n, Len(frames') = n,
         active # NoFiber =>
           /\ Under < n
           /\ Base(frames'[Under]) = Base(frames[Under]) /\ frames'[Under].live = frames[Under].live
           /\ frames'[Under + 1].callee = frames[Under + 1].callee
           /\ Base(frames'[n]) + Regs <= top'
           /\ \A i, j \in 1..n : Under < i /\ j = i + 1 => Base(frames'[i]) + Regs <= frames'[j].saved,
         "fibers" \in program => \A i \in 1..n : frames'[i].kind = "call",
         \A i \in 1..n : \/ frames'[i].id \notin InUse
                         \/ \E j \in DOMAIN frames : frames'[i].id = frames[j].id
  PROVE  FiberPart'
  <1>1. FiberTyped' /\ Kinds'
    BY DEF StackInv, FiberPart, FiberTyped, Kinds
  <1>2. Inside'
    <2>1. SUFFICES ASSUME active # NoFiber
                   PROVE  Under \in 1..n - 1 /\ frames'[Under + 1].callee = Base(frames'[Under]) + frames'[Under].live
      BY DEF StackInv, FiberPart, Inside, Under
    <2>2. Under \in Nat /\ Under >= 1 /\ frames[Under + 1].callee = Base(frames[Under]) + frames[Under].live
      <3>1. Under \in 1..Len(frames) - 1
        BY <2>1 DEF StackInv, FiberPart, Inside
      <3>2. QED
        BY <2>1, <3>1, FrameFacts DEF StackInv, FiberPart, Inside
    <2>3. Under \in 1..n - 1
      BY <2>1, <2>2
    <2>4. QED
      BY <2>1, <2>2, <2>3
  <1>3. Deep'
    BY DEF Deep, Under, Cur
  <1>4. Parked'
    <2>1. \A i \in DOMAIN frames' : \A f \in Fibers : Waits(f) => frames'[i].id # Entry(f).id
      BY NewName DEF StackInv, FiberPart, Parked
    <2>2. QED
      BY <2>1, ParkedStay DEF StackInv, FiberPart, Waits, Entry
  <1>5. QED
    BY <1>1, <1>2, <1>3, <1>4 DEF FiberPart

LEMMA UnderFacts ==
  ASSUME StackInv, active # NoFiber
  PROVE  /\ Under \in Nat /\ Under >= 1 /\ Under < Len(frames)
         /\ Under \in 1..Len(frames) /\ Under + 1 \in 1..Len(frames)
         /\ "fibers" \in program
         /\ Base(Cur) + Regs <= top
         /\ \A i, j \in 1..Len(frames) :
              Under < i /\ j = i + 1 => Base(frames[i]) + Regs <= frames[j].saved
  <1>1. Under \in 1..Len(frames) - 1 /\ "fibers" \in program
    BY DEF StackInv, FiberPart, Inside
  <1>2. Len(frames) \in Nat /\ DOMAIN frames = 1..Len(frames)
    BY FrameFacts DEF StackInv
  <1>3. QED
    BY <1>1, <1>2 DEF StackInv, FiberPart, Deep

LEMMA KeepPushed ==
  ASSUME StackInv, UNCHANGED <<active, fiber, program>>,
         NEW id \in Activations, NEW kind, kind = "call" \/ "fibers" \notin program,
         NEW callee \in Nat, NEW n \in Nat, NEW t \in 0..MaxStack,
         Push(id, kind, callee, n, t),
         active # NoFiber => Base(Cur) + Regs <= t
  PROVE  FiberPart'
  <1> DEFINE L == Len(frames)
             F == Frame(id, kind, callee, t, n)
  <1>1. frames \in Seq(FrameType) /\ L \in Nat /\ DOMAIN frames = 1..L /\ Regs \in Nat
    BY FrameFacts DEF StackInv
  <1>2. id \notin InUse /\ frames' = Append(frames, F) /\ top' = Larger(t, callee + 1 + Regs)
    BY DEF Push, Raised
  <1>3. F.id = id /\ F.kind = kind /\ F.callee = callee /\ F.saved = t /\ Base(F) = callee + 1
    BY DEF Frame, Base
  <1> HIDE DEF F
  <1>4. /\ L + 1 \in Nat /\ DOMAIN frames' = 1..L + 1 /\ Len(frames') = L + 1
        /\ frames'[L + 1] = F
        /\ \A i \in 1..L : frames'[i] = frames[i]
    BY <1>1, <1>2
  <1>5. \A i \in 1..L + 1 : i = L + 1 \/ i \in 1..L
    BY <1>1
  <1>6. ASSUME active # NoFiber
        PROVE  /\ Under < L + 1
               /\ Base(frames'[Under]) = Base(frames[Under]) /\ frames'[Under].live = frames[Under].live
               /\ frames'[Under + 1].callee = frames[Under + 1].callee
               /\ Base(frames'[L + 1]) + Regs <= top'
               /\ \A i, j \in 1..L + 1 : Under < i /\ j = i + 1 =>
                    Base(frames'[i]) + Regs <= frames'[j].saved
    <2>1. Base(frames'[L + 1]) + Regs <= top'
      BY <1>1, <1>2, <1>3, <1>4 DEF Larger
    <2>2. ASSUME NEW i \in 1..L + 1, NEW j \in 1..L + 1, Under < i, j = i + 1
          PROVE  Base(frames'[i]) + Regs <= frames'[j].saved
      <3>1. i \in 1..L
        BY <1>1, <2>2
      <3>2. CASE j = L + 1
        <4>1. i = L
          <5>1. L \in Nat
            BY <1>1
          <5>2. QED
            BY <2>2, <3>2, <5>1
        <4>2. QED
          BY <1>3, <1>4, <1>6, <3>1, <3>2, <4>1 DEF Cur
      <3>3. CASE j \in 1..L
        BY <1>4, <1>6, <2>2, <3>1, <3>3, UnderFacts
      <3>4. QED
        BY <1>5, <3>2, <3>3
    <2>3. Under \in 1..L /\ Under + 1 \in 1..L /\ Under < L /\ Under \in Nat
      BY <1>6, UnderFacts
    <2>4. QED
      BY <1>1, <1>4, <2>1, <2>2, <2>3
  <1>7. "fibers" \in program => \A i \in 1..L + 1 : frames'[i].kind = "call"
    BY <1>1, <1>3, <1>4, <1>5 DEF StackInv, FiberPart, Kinds
  <1>8. \A i \in 1..L + 1 : \/ frames'[i].id \notin InUse
                            \/ \E j \in DOMAIN frames : frames'[i].id = frames[j].id
    BY <1>1, <1>2, <1>3, <1>4, <1>5
  <1>9. QED
    BY <1>4, <1>6, <1>7, <1>8, KeepFibers

LEMMA KeepGrown ==
  ASSUME StackInv, UNCHANGED <<active, fiber, program>>,
         NEW k \in 1..Len(frames), frames[k].live < Regs, frames' = Grown(k),
         active # NoFiber => Under < k /\ Base(frames[k]) + Regs <= top'
  PROVE  FiberPart'
  <1>1. frames \in Seq(FrameType) /\ Len(frames) \in Nat /\ DOMAIN frames = 1..Len(frames)
    BY FrameFacts DEF StackInv
  <1>2. /\ Len(frames') = k
        /\ \A i \in 1..k - 1 : frames'[i] = frames[i]
        /\ \A i \in 1..k : /\ frames'[i].id = frames[i].id
                           /\ frames'[i].kind = frames[i].kind
                           /\ frames'[i].callee = frames[i].callee
                           /\ frames'[i].saved = frames[i].saved
    BY <1>1, GrownFrames
  <1>3. DOMAIN frames' = 1..k /\ k \in Nat /\ \A i \in 1..k : i \in 1..Len(frames)
    BY <1>1 DEF Grown
  <1>4. \A i \in 1..k : Base(frames'[i]) = Base(frames[i])
    BY <1>2 DEF Base
  <1>5. ASSUME active # NoFiber
        PROVE  /\ Under < k
               /\ Base(frames'[Under]) = Base(frames[Under]) /\ frames'[Under].live = frames[Under].live
               /\ frames'[Under + 1].callee = frames[Under + 1].callee
               /\ Base(frames'[k]) + Regs <= top'
               /\ \A i, j \in 1..k : Under < i /\ j = i + 1 =>
                    Base(frames'[i]) + Regs <= frames'[j].saved
    <2>1. Under \in Nat /\ Under >= 1 /\ Under < k
      BY <1>5, UnderFacts
    <2>2. Under \in 1..k - 1 /\ Under + 1 \in 1..k /\ Under \in 1..k /\ k \in 1..k
      BY <1>3, <2>1
    <2>3. \A i, j \in 1..k : Under < i /\ j = i + 1 => Base(frames'[i]) + Regs <= frames'[j].saved
      BY <1>2, <1>3, <1>4, <1>5, UnderFacts
    <2>4. QED
      BY <1>2, <1>4, <1>5, <2>1, <2>2, <2>3
  <1>6. "fibers" \in program => \A i \in 1..k : frames'[i].kind = "call"
    BY <1>1, <1>2, <1>3 DEF StackInv, FiberPart, Kinds
  <1>7. \A i \in 1..k : \E j \in DOMAIN frames : frames'[i].id = frames[j].id
    BY <1>1, <1>2, <1>3
  <1>8. QED
    BY <1>2, <1>3, <1>5, <1>6, <1>7, KeepFibers

LEMMA KeepReshaped ==
  ASSUME StackInv, UNCHANGED <<active, fiber, program>>, Running,
         Len(frames') = Len(frames), DOMAIN frames' = 1..Len(frames),
         \A i \in 1..Len(frames) - 1 : frames'[i] = frames[i],
         frames'[Len(frames)].kind = Cur.kind,
         frames'[Len(frames)].callee = Cur.callee,
         frames'[Len(frames)].saved = Cur.saved,
         frames'[Len(frames)].id = Cur.id \/ frames'[Len(frames)].id \notin InUse,
         active # NoFiber => Base(Cur) + Regs <= top'
  PROVE  FiberPart'
  <1> DEFINE L == Len(frames)
  <1>1. L \in Nat /\ DOMAIN frames = 1..L /\ L \in 1..L
    BY FrameFacts, CurFacts DEF StackInv
  <1>2. \A i \in 1..L : i = L \/ i \in 1..L - 1
    BY <1>1, LastOrBefore
  <1>3. \A i \in 1..L : /\ frames'[i].kind = frames[i].kind
                        /\ frames'[i].callee = frames[i].callee
                        /\ frames'[i].saved = frames[i].saved
                        /\ frames'[i].id = frames[i].id \/ frames'[i].id \notin InUse
    BY <1>1, <1>2 DEF Cur
  <1>4. \A i \in 1..L : Base(frames'[i]) = Base(frames[i])
    BY <1>3 DEF Base
  <1>5. ASSUME active # NoFiber
        PROVE  /\ Under < L
               /\ Base(frames'[Under]) = Base(frames[Under]) /\ frames'[Under].live = frames[Under].live
               /\ frames'[Under + 1].callee = frames[Under + 1].callee
               /\ Base(frames'[L]) + Regs <= top'
               /\ \A i, j \in 1..L : Under < i /\ j = i + 1 =>
                    Base(frames'[i]) + Regs <= frames'[j].saved
    <2>1. /\ Under \in Nat /\ Under >= 1 /\ Under < L /\ Under \in 1..L /\ Under + 1 \in 1..L
          /\ \A i, j \in 1..L : Under < i /\ j = i + 1 => Base(frames[i]) + Regs <= frames[j].saved
      BY <1>5, UnderFacts
    <2>2. Under \in 1..L - 1
      BY <1>1, <2>1
    <2>3. frames'[Under].live = frames[Under].live
      BY <2>2
    <2>4. Base(frames'[L]) + Regs <= top'
      BY <1>1, <1>4, <1>5 DEF Cur
    <2>5. QED
      BY <1>3, <1>4, <2>1, <2>3, <2>4
  <1>6. "fibers" \in program => \A i \in 1..L : frames'[i].kind = "call"
    BY <1>1, <1>3 DEF StackInv, FiberPart, Kinds
  <1>7. \A i \in 1..L : \/ frames'[i].id \notin InUse
                        \/ \E j \in DOMAIN frames : frames'[i].id = frames[j].id
    BY <1>1, <1>3
  <1>8. QED
    BY <1>1, <1>5, <1>6, <1>7, KeepFibers

LEMMA MoreThanOne ==
  ASSUME NEW n \in Nat, n # 0
  PROVE  /\ n > 1 <=> n # 1
         /\ \A u \in Nat : u >= 1 /\ u < n => n > 1
  OBVIOUS

LEMMA NextBelow ==
  ASSUME NEW u \in Nat, NEW n \in Nat, u < n, n - 1 # u
  PROVE  u < n - 1
  OBVIOUS

\* A frame is popped that is not the last one of a fiber.
LEMMA KeepPopped ==
  ASSUME StackInv, UNCHANGED <<active, fiber, program>>, Running, NEW t, Pop(t),
         active # NoFiber => /\ Len(frames) - 1 # Under
                             /\ Cur.saved <= t /\ t \in Nat
  PROVE  FiberPart'
  <1> DEFINE L == Len(frames)
  <1>1. frames \in Seq(FrameType) /\ L \in Nat /\ DOMAIN frames = 1..L /\ L # 0 /\ L \in 1..L
    BY FrameFacts, CurFacts DEF StackInv, Running
  <1>2. CASE L > 1 /\ Cur.kind = "call"
    <2>0. L # 1
      BY <1>1, <1>2, MoreThanOne
    <2>1. frames' = Grown(L - 1) /\ top' = t
      BY <1>2, <2>0 DEF Pop
    <2>2. L - 1 \in 1..L /\ L - 1 \in DOMAIN frames /\ L \in DOMAIN frames /\ L = (L - 1) + 1
      BY <1>1, <1>2
    <2>3. frames[L - 1].live < Regs
      BY <1>2, <2>2 DEF StackInv, FrameInv, CallRoom, Cur
    <2>4. ASSUME active # NoFiber
          PROVE  Under < L - 1 /\ Base(frames[L - 1]) + Regs <= top'
      <3>1. Under \in Nat /\ Under < L /\ L - 1 # Under
        BY <2>4, UnderFacts
      <3>2. Under < L - 1
        BY <1>1, <3>1, NextBelow
      <3>3. Base(frames[L - 1]) + Regs <= Cur.saved
        BY <1>1, <2>2, <2>4, <3>2, UnderFacts DEF Cur
      <3>4. Base(frames[L - 1]) \in Nat /\ Regs \in Nat /\ Cur.saved \in 0..MaxStack /\ MaxStack \in Nat
        BY <1>1, <2>2, FrameFacts DEF StackInv, Cur
      <3>5. QED
        BY <2>1, <2>4, <3>2, <3>3, <3>4
    <2>5. QED
      BY <2>1, <2>2, <2>3, <2>4, KeepGrown
  <1>3. CASE ~(L > 1 /\ Cur.kind = "call")
    <2>1. active = NoFiber
      <3>1. SUFFICES ASSUME active # NoFiber PROVE FALSE
        OBVIOUS
      <3>2. Under \in Nat /\ Under >= 1 /\ Under < L /\ "fibers" \in program
        BY <3>1, UnderFacts
      <3>3. Cur.kind = "call"
        BY <1>1, <3>2 DEF StackInv, FiberPart, Kinds, Cur
      <3>4. L > 1
        BY <1>1, <3>2, MoreThanOne
      <3>5. QED
        BY <1>3, <3>3, <3>4
    <2>2. /\ L - 1 \in Nat /\ DOMAIN frames' = 1..L - 1 /\ Len(frames') = L - 1
          /\ \A i \in 1..L - 1 : i \in DOMAIN frames /\ frames'[i] = frames[i]
      <3>1. CASE L = 1
        <4>1. frames' = <<>>
          BY <3>1 DEF Pop
        <4>2. QED
          BY <3>1, <4>1
      <3>2. CASE L # 1
        <4>1. frames' = SubSeq(frames, 1, L - 1)
          <5>1. L > 1
            BY <1>1, <3>2, MoreThanOne
          <5>2. QED
            BY <1>3, <3>2, <5>1 DEF Pop
        <4>2. L - 1 \in Nat /\ L - 1 <= L
          BY <1>1
        <4>3. QED
          BY <1>1, <4>1, <4>2
      <3>3. QED
        BY <3>1, <3>2
    <2>3. "fibers" \in program => \A i \in 1..L - 1 : frames'[i].kind = "call"
      BY <2>2 DEF StackInv, FiberPart, Kinds
    <2>4. \A i \in 1..L - 1 : \E j \in DOMAIN frames : frames'[i].id = frames[j].id
      BY <2>2
    <2>5. QED
      BY <2>1, <2>2, <2>3, <2>4, KeepFibers
  <1>4. QED
    BY <1>1, <1>2, <1>3

-----------------------------------------------------------------------------
(* The instructions, one after the other *)

\* What the interpreter does without a fiber starting or stopping.
LEMMA CodeInv ==
  ASSUME Disciplined, StackInv, FrameInv,
         \/ Allocate \/ Free \/ CallNative \/ TailNative
         \/ \E id \in Activations : Interpret(id) \/ RunEffect(id)
         \/ \E id \in Activations, n \in 0..MaxArgs : Call(id, n) \/ TailCall(id, n)
  PROVE  StackInv'
  <1> DEFINE L == Len(frames)
  <1>0. active # NoFiber => /\ Base(Cur) + Regs <= top /\ "fibers" \in program
                            /\ Under < L /\ frames # <<>>
    BY UnderFacts
  <1>21. active \in Fibers \cup {NoFiber}
    BY DEF FrameInv, TypeOK
  <1>1. /\ L \in Nat /\ frames \in Seq(FrameType) /\ top \in 0..MaxStack
        /\ Regs \in Nat \ {0} /\ MaxStack \in Nat /\ Regs + 1 <= MaxStack
        /\ stack \in [0..MaxStack - 1 -> Values] /\ DOMAIN frames = 1..L
    BY FrameFacts DEF FrameInv, TypeOK, Values
  <1>2. /\ Reactive => {"natives", "fibers"} \cap program = {}
        /\ "fibers" \in program =>
             {"natives in fibers", "nested fibers", "helpers yield"} \cap program = {}
    BY DEF Disciplined, FrameInv, TypeOK, Reactive
  <1>3. \A i \in 1..L : \A r \in 0..frames[i].live - 1 :
          stack[Base(frames[i]) + r] = Reg(frames[i].id, r)
    BY <1>1 DEF FrameInv, RegistersIntact
  <1>4. Running /\ Reactive => Base(Cur) + Regs <= top
    BY DEF FrameInv, Reserve, Running
  <1>5. ASSUME NEW id \in Activations, Interpret(id)
        PROVE  StackInv'
    <2>1. frames = <<>> /\ Push(id, "call", 0, 0, top + 1) /\ UNCHANGED <<program, active, fiber>> /\ L = 0
      BY <1>5 DEF Interpret
    <2>2. top + 1 \in 0..MaxStack
      BY <1>1, <1>5 DEF Interpret
    <2>3. 1..L = {}
      BY <2>1
    <2>4. FrameInv'
      BY <1>21, <2>1, <2>2, <2>3, PushInv
    <2>5. active = NoFiber
      BY <1>0, <2>1
    <2>6. FiberPart'
      BY <2>1, <2>2, <2>5, KeepPushed
    <2>7. QED
      BY <2>4, <2>6 DEF StackInv
  <1>6. ASSUME Allocate \/ CallNative
        PROVE  StackInv'
    <2>1. /\ Running /\ Cur.live < Regs /\ UNCHANGED <<program, active, fiber>>
          /\ stack' = Assign(stack, L) /\ frames' = Grown(L)
          /\ top' = top \/ (top' = NextSlot + 1 /\ ~Reactive /\ active = NoFiber)
      BY <1>0, <1>2, <1>6 DEF Allocate, CallNative, CallsNatives, Room
    <2>2. top' \in 0..MaxStack
      <3>1. /\ Base(Cur) \in Nat /\ Cur.live \in 0..Regs /\ Base(Cur) + Regs <= MaxStack
            /\ NextSlot = Base(Cur) + Cur.live
        BY <2>1, CurFacts
      <3>2. NextSlot + 1 \in 0..MaxStack
        BY <2>1, <3>1, FreeSlot
      <3>3. QED
        BY <1>1, <2>1, <3>2
    <2>3. L \in 1..L /\ frames[L].live < Regs
      BY <2>1, CurFacts DEF Cur
    <2>4. Reactive => Base(frames[L]) + Regs <= top'
      BY <1>4, <2>1 DEF Cur
    <2>5. FrameInv'
      BY <1>1, <1>3, <1>21, <2>1, <2>2, <2>3, <2>4, GrowInv
    <2>6. active # NoFiber => Under < L /\ Base(frames[L]) + Regs <= top'
      BY <1>0, <2>1 DEF Cur
    <2>7. FiberPart'
      BY <2>1, <2>3, <2>6, KeepGrown
    <2>8. QED
      BY <2>5, <2>7 DEF StackInv
  <1>7. CASE Free
    <2>1. /\ Running /\ Cur.live > 0 /\ UNCHANGED <<top, active, fiber, program>>
          /\ stack' = [stack EXCEPT ![NextSlot - 1] = Junk]
          /\ frames' = [frames EXCEPT ![L].live = @ - 1]
      BY <1>7 DEF Free
    <2>2. /\ L \in 1..L /\ Cur = frames[L] /\ Cur \in FrameType /\ Cur.live \in 0..Regs
          /\ \A i \in 1..L - 1 : i \in 1..L /\ i # L
      BY <1>1, <2>1, CurFacts DEF Cur
    <2>3. [Cur EXCEPT !.live = @ - 1] \in FrameType /\ Cur.live - 1 \in 0..Regs
      <3>1. Cur.live - 1 \in 0..Regs
        BY <1>1, <2>1, <2>2
      <3>2. QED
        BY <2>2, <3>1 DEF FrameType
    <2>4. frames' = [frames EXCEPT ![L] = [Cur EXCEPT !.live = @ - 1]]
      BY <2>1, <2>2
    <2>5. /\ frames' \in Seq(FrameType) /\ Len(frames') = L
          /\ \A i \in 1..L - 1 : frames'[i] = frames[i]
          /\ frames'[L] = [Cur EXCEPT !.live = @ - 1]
      BY <1>1, <2>2, <2>3, <2>4
    <2>6. /\ frames'[L].kind = Cur.kind /\ frames'[L].callee = Cur.callee
          /\ frames'[L].saved = Cur.saved /\ frames'[L].id = Cur.id
          /\ frames'[L].live = Cur.live - 1 /\ Base(frames'[L]) = Base(Cur)
      BY <2>2, <2>5 DEF FrameType, Base
    <2>7. stack' \in [0..MaxStack - 1 -> Values]
      <3>1. Junk \in Values
        BY <1>1 DEF Junk
      <3>2. QED
        BY <1>1, <2>1, <3>1
    <2>8. \A i \in 1..L - 1 : frames'[i].id # frames'[L].id
      <3>1. ASSUME NEW i \in 1..L - 1 PROVE frames'[i].id # frames'[L].id
        <4>1. i \in DOMAIN frames /\ L \in DOMAIN frames /\ i # L
          BY <1>1, <2>2
        <4>2. frames[i].id # frames[L].id
          BY <4>1 DEF FrameInv, Distinct
        <4>3. frames'[i] = frames[i] /\ frames'[L].id = frames[L].id
          BY <2>2, <2>5, <2>6
        <4>4. QED
          BY <4>2, <4>3
      <3>2. QED
        BY <3>1
    <2>9. ASSUME NEW i \in 1..L, NEW r \in 0..frames'[i].live - 1
          PROVE  stack'[Base(frames'[i]) + r] = Reg(frames'[i].id, r)
      <3>1. Cur.callee \in Nat /\ NextSlot - 1 \in Nat /\ NextSlot - 1 = Base(Cur) + (Cur.live - 1)
            /\ Cur.callee <= NextSlot - 1
        <4>1. /\ Cur.callee \in Nat /\ Cur.live \in 0..Regs /\ Cur.live > 0
              /\ NextSlot \in Nat /\ NextSlot = (Cur.callee + 1) + Cur.live
              /\ Base(Cur) = Cur.callee + 1
          BY <2>1, CurFacts
        <4>2. /\ NextSlot - 1 \in Nat /\ NextSlot - 1 = (Cur.callee + 1) + (Cur.live - 1)
              /\ Cur.callee <= NextSlot - 1
          BY <4>1, LastSlot
        <4>3. QED
          BY <4>1, <4>2
      <3>2. CASE i = L
        <4>1. r \in 0..(Cur.live - 1) - 1
          BY <2>6, <3>2
        <4>2. Base(Cur) + r \in 0..MaxStack - 1 /\ Base(Cur) + r < NextSlot - 1
          <5>1. Base(Cur) \in Nat /\ Base(Cur) + Regs <= MaxStack
            BY <2>1, CurFacts
          <5>2. QED
            BY <2>3, <3>1, <4>1, <5>1, SlotFacts
        <4>3. stack[Base(Cur) + r] = Reg(Cur.id, r)
          <5>1. r \in 0..Cur.live - 1
            <6>1. Cur.live \in 0..Regs /\ Regs \in Nat
              BY <1>1, <2>2
            <6>2. QED
              BY <4>1, <6>1
          <5>2. QED
            BY <1>3, <2>2, <5>1
        <4>4. Base(Cur) + r # NextSlot - 1
          BY <3>1, <4>2
        <4>5. QED
          BY <1>1, <2>1, <2>6, <3>2, <4>2, <4>3, <4>4
      <3>3. CASE i # L
        <4>1. i \in 1..L - 1
          BY <1>1, <3>3, LastOrBefore
        <4>2. frames'[i] = frames[i] /\ r \in 0..frames[i].live - 1
          BY <2>5, <4>1
        <4>3. /\ Base(frames[i]) + frames[i].live <= Cur.callee
              /\ Base(frames[i]) \in Nat /\ frames[i].live \in 0..Regs
              /\ Base(frames[i]) + Regs <= MaxStack
          BY <2>1, <4>1, CurFacts, FrameFacts
        <4>4. Base(frames[i]) + r \in 0..MaxStack - 1 /\ Base(frames[i]) + r < Cur.callee
          BY <3>1, <4>2, <4>3, SlotFacts
        <4>5. Base(frames[i]) + r # NextSlot - 1
          BY <3>1, <4>4
        <4>6. stack[Base(frames[i]) + r] = Reg(frames[i].id, r)
          BY <1>3, <4>2
        <4>7. QED
          BY <1>1, <2>1, <4>2, <4>4, <4>5, <4>6
      <3>4. QED
        BY <3>2, <3>3
    <2>10. Reactive => Base(Cur) + Regs <= top'
      BY <1>4, <2>1
    <2>11. FrameInv'
      BY <1>1, <1>21, <2>1, <2>5, <2>6, <2>7, <2>8, <2>9, <2>10, ReshapeInv
    <2>12. DOMAIN frames' = 1..L
      BY <1>1, <2>5
    <2>13. active # NoFiber => Base(Cur) + Regs <= top'
      BY <1>0, <2>1
    <2>14. FiberPart'
      BY <2>1, <2>5, <2>6, <2>12, <2>13, KeepReshaped
    <2>15. QED
      BY <2>11, <2>14 DEF StackInv
  <1>8. ASSUME NEW id \in Activations, NEW n \in 0..MaxArgs, Call(id, n)
        PROVE  StackInv'
    <2>1. /\ Running /\ Cur.live + 1 + n <= Regs /\ UNCHANGED <<program, active, fiber>> /\ n \in Nat
          /\ Push(id, "call", NextSlot, n, top)
      BY <1>8, SizesAssumption DEF Call
    <2>2. Cur.live < Regs
      <3>1. Cur.live \in 0..Regs /\ Regs \in Nat
        BY <1>1, <2>1, CurFacts
      <3>2. QED
        BY <2>1, <3>1
    <2>3. /\ NextSlot \in Nat
          /\ \A i \in 1..L : Base(frames[i]) + frames[i].live <= NextSlot
      BY <2>1, CurFacts
    <2>4. FrameInv'
      BY <1>1, <1>4, <1>21, <2>1, <2>2, <2>3, PushInv
    <2>5. FiberPart'
      BY <1>0, <1>1, <2>1, <2>3, KeepPushed
    <2>6. QED
      BY <2>4, <2>5 DEF StackInv
  <1>9. ASSUME NEW id \in Activations, RunEffect(id)
        PROVE  StackInv'
    <2>1. /\ Running /\ Reactive /\ top < MaxStack /\ UNCHANGED <<program, active, fiber>>
          /\ Push(id, "effect", top, 0, top + 1)
      BY <1>9 DEF RunEffect
    <2>2. Base(Cur) + Regs <= top
      BY <1>4, <2>1
    <2>3. top + 1 \in 0..MaxStack /\ top \in Nat
      BY <1>1, <2>1
    <2>4. ASSUME NEW i \in 1..L PROVE Base(frames[i]) + frames[i].live <= top
      <3>1. /\ Base(frames[i]) + frames[i].live <= NextSlot
            /\ NextSlot = Base(Cur) + Cur.live /\ Cur.live \in 0..Regs
            /\ Base(Cur) \in Nat /\ NextSlot \in Nat
        BY <2>1, CurFacts
      <3>2. Base(frames[i]) \in Nat /\ frames[i].live \in Nat
        BY FrameFacts
      <3>3. Regs \in Nat
        BY <1>1
      <3>4. NextSlot <= top
        BY <2>2, <2>3, <3>1, <3>3
      <3>5. Base(frames[i]) + frames[i].live \in Nat
        BY <3>2
      <3>6. QED
        BY <2>3, <3>1, <3>4, <3>5
    <2>5. Base(Cur) + Regs <= top + 1
      BY <1>1, <2>1, <2>2, CurFacts
    <2>6. FrameInv'
      BY <1>21, <2>1, <2>3, <2>4, <2>5, PushInv
    <2>7. "fibers" \notin program /\ active = NoFiber
      BY <1>0, <1>2, <2>1
    <2>8. FiberPart'
      BY <2>1, <2>3, <2>7, KeepPushed
    <2>9. QED
      BY <2>6, <2>8 DEF StackInv
  <1>11. CASE TailNative
    <2>1. /\ Running /\ ~Reactive /\ Pop(Cur.callee + 1) /\ UNCHANGED <<program, active, fiber>>
          /\ active = NoFiber
      BY <1>0, <1>2, <1>11 DEF TailNative, CallsNatives
    <2>2. Cur.callee + 1 \in 0..MaxStack
      BY <1>1, <2>1, CurFacts
    <2>3. FrameInv'
      BY <1>21, <2>1, <2>2, PopInv
    <2>4. FiberPart'
      BY <2>1, KeepPopped
    <2>5. QED
      BY <2>3, <2>4 DEF StackInv
  <1>14. ASSUME NEW id \in Activations, NEW n \in 0..MaxArgs, TailCall(id, n)
         PROVE  StackInv'
    <2>1. /\ Running /\ id \notin InUse /\ Cur.live + 1 + n <= Regs /\ UNCHANGED <<program, active, fiber>>
          /\ stack' = Window(Forget(stack, Cur.id), id, Cur.callee, n)
          /\ frames' = [frames EXCEPT ![L].id = id, ![L].live = n]
          /\ top' = Base(Cur) + Regs
      BY <1>14 DEF TailCall
    <2>2. /\ L \in 1..L /\ Cur = frames[L] /\ Cur \in FrameType /\ Cur.live \in 0..Regs
          /\ \A i \in 1..L - 1 : i \in 1..L /\ i # L
      BY <1>1, <2>1, CurFacts DEF Cur
    <2>3. n \in 0..Regs
      <3>1. Regs \in Nat /\ n \in Nat
        BY SizesAssumption
      <3>2. Cur.live \in Nat
        BY <2>2, <3>1
      <3>3. QED
        BY <2>1, <3>1, <3>2
    <2>4. [Cur EXCEPT !.id = id, !.live = n] \in FrameType
      BY <2>2, <2>3 DEF FrameType
    <2>5. frames' = [frames EXCEPT ![L] = [Cur EXCEPT !.id = id, !.live = n]]
      BY <1>1, <2>1, <2>2, <2>4 DEF FrameType
    <2>6. /\ frames' \in Seq(FrameType) /\ Len(frames') = L
          /\ \A i \in 1..L - 1 : frames'[i] = frames[i]
          /\ frames'[L] = [Cur EXCEPT !.id = id, !.live = n]
      BY <1>1, <2>2, <2>4, <2>5
    <2>7. /\ frames'[L].kind = Cur.kind /\ frames'[L].callee = Cur.callee
          /\ frames'[L].saved = Cur.saved /\ frames'[L].id = id /\ frames'[L].live = n
          /\ Base(frames'[L]) = Base(Cur)
      BY <2>2, <2>6 DEF FrameType, Base
    <2>8. \A i \in 1..L - 1 : frames'[i].id # frames'[L].id
      BY <1>1, <2>1, <2>2, <2>6, <2>7 DEF InUse
    <2>9. /\ Cur.callee \in 0..MaxStack - 1 /\ Base(Cur) = Cur.callee + 1
          /\ Base(Cur) + Regs <= MaxStack /\ Base(Cur) \in Nat
      BY <2>1, CurFacts
    <2>10. stack' \in [0..MaxStack - 1 -> Values]
      <3>1. Forget(stack, Cur.id) \in [0..MaxStack - 1 -> Values]
        BY <2>1, ForgetFacts
      <3>2. Cur.callee \in Nat
        BY <1>1, <2>9
      <3>3. QED
        BY <2>1, <2>3, <3>1, <3>2, WindowValues
    <2>11. top' \in 0..MaxStack
      <3>1. Regs \in Nat /\ MaxStack \in Nat
        BY <1>1
      <3>2. QED
        BY <2>1, <2>9, <3>1
    <2>12. ASSUME NEW i \in 1..L, NEW r \in 0..frames'[i].live - 1
           PROVE  stack'[Base(frames'[i]) + r] = Reg(frames'[i].id, r)
      <3>1. Forget(stack, Cur.id) \in [0..MaxStack - 1 -> Values]
        BY <2>1, ForgetFacts
      <3>2. CASE i = L
        <4>1. r \in 0..n - 1
          BY <2>7, <3>2
        <4>2. stack'[Base(Cur) + r] = Reg(id, r)
          BY <2>1, <2>3, <2>9, <3>1, <4>1, WindowNew
        <4>3. QED
          BY <2>7, <3>2, <4>2
      <3>3. CASE i # L
        <4>1. i \in 1..L - 1
          BY <1>1, <3>3, LastOrBefore
        <4>2. frames'[i] = frames[i] /\ r \in 0..frames[i].live - 1
          BY <2>6, <4>1
        <4>3. /\ Base(frames[i]) + frames[i].live <= Cur.callee
              /\ Base(frames[i]) \in Nat /\ frames[i].live \in 0..Regs
              /\ Base(frames[i]) + Regs <= MaxStack
          BY <2>1, <4>1, CurFacts, FrameFacts
        <4>4. Cur.callee \in Nat
          BY <1>1, <2>9
        <4>5. Base(frames[i]) + r \in 0..MaxStack - 1 /\ Base(frames[i]) + r < Cur.callee
          BY <4>2, <4>3, <4>4, SlotFacts
        <4>6. Forget(stack, Cur.id)[Base(frames[i]) + r] = Reg(frames[i].id, r)
          BY <2>1, <4>1, <4>2, ForgetFacts
        <4>7. stack'[Base(frames[i]) + r] = Forget(stack, Cur.id)[Base(frames[i]) + r]
          BY <2>1, <2>3, <3>1, <4>4, <4>5, WindowBelow
        <4>8. QED
          BY <4>2, <4>6, <4>7
      <3>4. QED
        BY <3>2, <3>3
    <2>13. Reactive => Base(Cur) + Regs <= top'
      <3>1. Regs \in Nat
        BY <1>1
      <3>2. QED
        BY <2>1, <2>9, <3>1
    <2>14. FrameInv'
      BY <1>1, <1>21, <2>1, <2>6, <2>7, <2>8, <2>10, <2>11, <2>12, <2>13, ReshapeInv
    <2>15. DOMAIN frames' = 1..L
      BY <1>1, <2>6
    <2>16. Base(Cur) + Regs <= top'
      <3>1. Regs \in Nat
        BY <1>1
      <3>2. QED
        BY <2>1, <2>9, <3>1
    <2>17. FiberPart'
      BY <2>1, <2>6, <2>7, <2>15, <2>16, KeepReshaped
    <2>18. QED
      BY <2>14, <2>17 DEF StackInv
  <1>15. QED
    BY <1>5, <1>6, <1>7, <1>8, <1>9, <1>11, <1>14
\* What the frames below k, and k with its new register, have in common with
\* those before.
LEMMA GrownNames ==
  ASSUME StackInv, NEW k \in 1..Len(frames), frames[k].live < Regs, frames' = Grown(k)
  PROVE  /\ DOMAIN frames' = 1..k
         /\ \A i \in 1..k : /\ i \in DOMAIN frames
                            /\ frames'[i].id = frames[i].id
                            /\ frames'[i].kind = frames[i].kind
  <1>1. frames \in Seq(FrameType) /\ Len(frames) \in Nat /\ DOMAIN frames = 1..Len(frames)
    BY FrameFacts DEF StackInv
  <1>2. \A i \in 1..k : frames'[i].id = frames[i].id /\ frames'[i].kind = frames[i].kind
    BY <1>1, GrownFrames
  <1>3. QED
    BY <1>1, <1>2 DEF Grown

\* RETURN, of a function called or of the function of a fiber.
LEMMA ReturnInv == ASSUME Disciplined, StackInv, FrameInv, Return PROVE StackInv'
  <1> DEFINE L == Len(frames)
             t == Larger(Cur.saved, Cur.callee + 1)
  <1>1. /\ L \in Nat /\ DOMAIN frames = 1..L
        /\ Regs \in Nat \ {0} /\ MaxStack \in Nat /\ Regs + 1 <= MaxStack
    BY FrameFacts
  <1>2. Running /\ Pop(t) /\ program' = program
    BY DEF Return, ReturnTop
  <1>3. /\ Cur.saved \in 0..MaxStack /\ Cur.callee \in 0..MaxStack - 1 /\ L \in 1..L
    BY <1>2, CurFacts
  <1>4. t \in 0..MaxStack /\ t \in Nat /\ Cur.saved <= t
    <2>1. /\ MaxStack \in Nat /\ Cur.saved \in Nat /\ Cur.callee + 1 \in Nat
          /\ Cur.saved <= MaxStack /\ Cur.callee + 1 <= MaxStack
      BY <1>1, <1>3
    <2>2. QED
      BY <2>1, LargerFacts
  <1> HIDE DEF t
  <1>5. ASSUME Reactive, L > 1
        PROVE  Base(frames[L - 1]) + Regs <= t
    <2>1. L - 1 \in 1..L /\ L = (L - 1) + 1
      BY <1>1, <1>5
    <2>2. Base(frames[L - 1]) + Regs <= Cur.saved
      BY <1>1, <1>3, <1>5, <2>1 DEF FrameInv, Reserve, Cur
    <2>3. Base(frames[L - 1]) \in Nat
      BY <2>1, FrameFacts
    <2>4. Base(frames[L - 1]) + Regs \in Nat /\ Cur.saved \in Nat
      BY <1>1, <1>3, <2>3
    <2>5. QED
      BY <1>4, <2>2, <2>4, Transitive
  <1>6. CASE active # NoFiber /\ L > 1 /\ L - 1 = Under
    <2>1. fiber' = [fiber EXCEPT ![active].state = "done"] /\ active' = fiber[active].parent
      BY <1>6 DEF Return, Resumer, Under
    <2>2. active' = NoFiber /\ "fibers" \in program /\ active \in Fibers
      BY <1>6, <2>1 DEF StackInv, FiberPart, Inside, FrameInv, TypeOK
    <2>3. FrameInv'
      BY <1>2, <1>4, <1>5, <2>2, PopInv
    <2>4. Cur.kind = "call"
      BY <1>1, <1>3, <2>2 DEF StackInv, FiberPart, Kinds, Cur
    <2>5. L # 1 /\ L - 1 \in 1..L /\ L - 1 \in DOMAIN frames /\ L \in DOMAIN frames /\ L = (L - 1) + 1
      <3>1. L # 1 /\ L # 0
        BY <1>1, <1>3, <1>6, MoreThanOne
      <3>2. L - 1 \in 1..L /\ L \in 1..L /\ L = (L - 1) + 1
        BY <1>1, <3>1
      <3>3. QED
        BY <1>1, <3>1, <3>2
    <2>6. frames' = Grown(L - 1)
      BY <1>2, <2>4, <2>5 DEF Pop
    <2>7. frames[L - 1].live < Regs
      BY <2>4, <2>5 DEF FrameInv, CallRoom, Cur
    <2>8. /\ DOMAIN frames' = 1..L - 1
          /\ \A i \in 1..L - 1 : /\ i \in DOMAIN frames
                                 /\ frames'[i].id = frames[i].id
                                 /\ frames'[i].kind = frames[i].kind
      BY <2>5, <2>6, <2>7, GrownNames
    <2>9. /\ \A f \in Fibers : fiber'[f] = IF f = active THEN [fiber[f] EXCEPT !.state = "done"] ELSE fiber[f]
          /\ \A f \in Fibers : fiber[f] \in FiberType
          /\ FiberTyped'
      BY <2>1, <2>2 DEF StackInv, FiberPart, FiberTyped, FiberType
    <2>10. fiber'[active].state = "done"
      BY <2>2, <2>9 DEF FiberType
    <2>11. \A f \in Fibers : Waits(f)' => Waits(f) /\ fiber'[f].frames = fiber[f].frames
                                          /\ fiber'[f].saved = fiber[f].saved
      BY <2>9, <2>10 DEF Waits
    <2>12. \A i \in DOMAIN frames' : \A f \in Fibers : Waits(f) => frames'[i].id # Entry(f).id
      BY <2>8 DEF StackInv, FiberPart, Parked
    <2>13. Parked'
      BY <2>11, <2>12, ParkedStay DEF StackInv, FiberPart
    <2>14. Kinds'
      BY <1>2, <2>8 DEF StackInv, FiberPart, Kinds
    <2>15. QED
      BY <2>2, <2>3, <2>9, <2>13, <2>14 DEF StackInv, FiberPart, Inside, Deep
  <1>7. CASE ~(active # NoFiber /\ L > 1 /\ L - 1 = Under)
    <2>1. UNCHANGED <<active, fiber>>
      BY <1>7 DEF Return, Under
    <2>2. FrameInv'
      BY <1>2, <1>4, <1>5, <2>1, PopInv DEF FrameInv, TypeOK
    <2>3. active # NoFiber => L - 1 # Under
      <3>1. SUFFICES ASSUME active # NoFiber PROVE L > 1
        BY <1>7
      <3>2. Under \in Nat /\ Under >= 1 /\ Under < L
        BY <3>1, UnderFacts
      <3>3. QED
        BY <1>1, <3>2, MoreThanOne
    <2>4. FiberPart'
      BY <1>2, <1>4, <2>1, <2>3, KeepPopped
    <2>5. QED
      BY <2>2, <2>4 DEF StackInv
  <1>8. QED
    BY <1>6, <1>7

\* A fiber that yields has one frame, right above the code that resumed it.
LEMMA YieldFrames ==
  ASSUME Disciplined, StackInv, FrameInv, Yield
  PROVE  /\ active \in Fibers /\ active' = NoFiber /\ program' = program /\ "fibers" \in program
         /\ Len(frames) = Under + 1 /\ Under \in Nat /\ Under \in 1..Len(frames)
         /\ Under + 1 \in 1..Len(frames) /\ Cur = frames[Under + 1]
         /\ Cur.kind = "call" /\ Cur.live < Regs /\ frames[Under].live < Regs
         /\ Cur.callee = Base(frames[Under]) + frames[Under].live
         /\ Base(Cur) + Regs <= top
  <1>1. active # NoFiber /\ Cur.live < Regs /\ active' = fiber[active].parent /\ program' = program
        /\ ("helpers yield" \in program \/ Len(frames) = fiber[active].base + 1)
    BY DEF Yield, Room, Resumer
  <1>2. /\ Under \in Nat /\ Under < Len(frames) /\ Under \in 1..Len(frames)
        /\ Under + 1 \in 1..Len(frames) /\ "fibers" \in program /\ Base(Cur) + Regs <= top
    BY <1>1, UnderFacts
  <1>3. active \in Fibers /\ program \in Programs /\ DOMAIN frames = 1..Len(frames)
    BY <1>1, FrameFacts DEF FrameInv, TypeOK
  <1>4. Len(frames) = Under + 1
    BY <1>1, <1>2, <1>3 DEF Disciplined, Under
  <1>5. Cur = frames[Under + 1]
    BY <1>4 DEF Cur
  <1>6. Cur.kind = "call"
    BY <1>2, <1>3, <1>5 DEF StackInv, FiberPart, Kinds
  <1>7. frames[Under].live < Regs
    BY <1>2, <1>3, <1>5, <1>6 DEF FrameInv, CallRoom
  <1>8. active' = NoFiber /\ Cur.callee = Base(frames[Under]) + frames[Under].live
    BY <1>1, <1>5 DEF StackInv, FiberPart, Inside
  <1>9. QED
    BY <1>1, <1>2, <1>3, <1>4, <1>5, <1>6, <1>7, <1>8

\* The result of the yield is the next register of the fiber's frame.
LEMMA YieldValues ==
  ASSUME FrameInv, Running, Cur.live < Regs
  PROVE  LET called == Assign(stack, Len(frames))
         IN /\ called \in [0..MaxStack - 1 -> Values]
            /\ \A i \in 1..Len(frames) : \A r \in 0..frames[i].live - 1 :
                 called[Base(frames[i]) + r] = Reg(frames[i].id, r)
            /\ \A r \in 0..Cur.live : called[Base(Cur) + r] = Reg(Cur.id, r)
  <1> DEFINE L == Len(frames)
             called == Assign(stack, L)
  <1>1. /\ stack \in [0..MaxStack - 1 -> Values] /\ DOMAIN frames = 1..L /\ L \in Nat /\ L \in 1..L
        /\ Regs \in Nat \ {0} /\ MaxStack \in Nat
    BY FrameFacts, CurFacts DEF FrameInv, TypeOK, Values
  <1>2. /\ Base(Cur) \in Nat /\ Base(Cur) + Regs <= MaxStack /\ Cur.live \in 0..Regs
        /\ Cur.id \in Activations /\ Cur.callee \in Nat /\ Base(Cur) = Cur.callee + 1
        /\ NextSlot = Base(Cur) + Cur.live /\ NextSlot \in Nat
    BY <1>1, CurFacts
  <1>3. NextSlot \in 0..MaxStack - 1 /\ Cur.live \in 0..Regs - 1
    BY <1>2, WindowSlot
  <1>4. Reg(Cur.id, Cur.live) \in Values
    BY <1>2, <1>3 DEF Reg, Values
  <1>5. called = [stack EXCEPT ![NextSlot] = Reg(Cur.id, Cur.live)]
    BY DEF Assign, NextSlot, Cur
  <1>6. called \in [0..MaxStack - 1 -> Values]
    BY <1>1, <1>4, <1>5
  <1>7. ASSUME NEW i \in 1..L, NEW r \in 0..frames[i].live - 1
        PROVE  called[Base(frames[i]) + r] = Reg(frames[i].id, r)
    <2>1. /\ Base(frames[i]) \in Nat /\ frames[i].live \in 0..Regs
          /\ Base(frames[i]) + Regs <= MaxStack /\ Base(frames[i]) + frames[i].live <= NextSlot
      BY <1>1, CurFacts, FrameFacts
    <2>2. Base(frames[i]) + r \in 0..MaxStack - 1 /\ Base(frames[i]) + r < NextSlot
      BY <1>2, <2>1, SlotFacts
    <2>3. Base(frames[i]) + r # NextSlot
      BY <1>2, <2>2
    <2>4. stack[Base(frames[i]) + r] = Reg(frames[i].id, r)
      BY <1>1 DEF FrameInv, RegistersIntact
    <2>5. QED
      BY <1>1, <1>5, <2>2, <2>3, <2>4
  <1>8. ASSUME NEW r \in 0..Cur.live
        PROVE  called[Base(Cur) + r] = Reg(Cur.id, r)
    <2>1. CASE r = Cur.live
      BY <1>1, <1>2, <1>3, <1>5, <2>1
    <2>2. CASE r # Cur.live
      <3>1. r \in 0..Cur.live - 1
        BY <1>3, <2>2
      <3>2. QED
        BY <1>1, <1>7, <3>1 DEF Cur
    <2>3. QED
      BY <2>1, <2>2
  <1>9. QED
    BY <1>6, <1>7, <1>8

LEMMA TableSeq ==
  ASSUME NEW S, NEW n \in Nat, NEW s \in [1..n -> S]
  PROVE  s \in Seq(S) /\ Len(s) = n
  <1>1. s = [i \in 1..n |-> s[i]] /\ \A i \in 1..n : s[i] \in S
    OBVIOUS
  <1>2. QED
    BY <1>1

\* What fiber_yield saves: the window of the fiber's frame, with the callee's
\* slot, and the frame, as if the callee were at the bottom of the stack.
LEMMA SavedValues ==
  ASSUME NEW start \in 0..MaxStack - 1, NEW t \in 0..MaxStack, start + 1 + Regs <= t,
         NEW called \in [0..MaxStack - 1 -> Values]
  PROVE  LET saved == [k \in 1..(IF t > start THEN t - start ELSE 0) |-> called[start + k - 1]]
         IN /\ saved \in Seq(Values) /\ 1 + Regs <= Len(saved)
            /\ \A r \in 0..Regs - 1 : saved[r + 2] = called[(start + 1) + r]
  <1> DEFINE n == IF t > start THEN t - start ELSE 0
             saved == [k \in 1..n |-> called[start + k - 1]]
  <1>1. Regs \in Nat /\ MaxStack \in Nat
    BY SizesAssumption
  <1>2. n \in Nat /\ 1 + Regs <= n /\ \A k \in 1..n : start + k - 1 \in 0..MaxStack - 1
    BY <1>1
  <1>3. saved \in [1..n -> Values]
    BY <1>2
  <1>4. saved \in Seq(Values) /\ Len(saved) = n
    BY <1>2, <1>3, TableSeq
  <1>5. \A r \in 0..Regs - 1 : r + 2 \in 1..n /\ start + (r + 2) - 1 = (start + 1) + r
    BY <1>1, <1>2
  <1>6. QED
    BY <1>2, <1>4, <1>5

LEMMA SavedFrame ==
  ASSUME FrameInv, Running, Cur.live < Regs
  PROVE  LET mine == SubSeq(Grown(Len(frames)), Len(frames), Len(frames))
             moved == [i \in DOMAIN mine |-> [mine[i] EXCEPT !.callee = @ - Cur.callee]]
         IN /\ moved \in Seq(FrameType) /\ Len(moved) = 1
            /\ moved[1].id = Cur.id /\ moved[1].kind = Cur.kind
            /\ moved[1].callee = 0 /\ moved[1].live = Cur.live + 1
  <1> DEFINE L == Len(frames)
             g == Grown(L)
             mine == SubSeq(g, L, L)
             e == [g[L] EXCEPT !.callee = @ - Cur.callee]
             moved == [i \in DOMAIN mine |-> [mine[i] EXCEPT !.callee = @ - Cur.callee]]
  <1>1. L \in 1..L /\ L \in Nat /\ frames \in Seq(FrameType) /\ Cur \in FrameType /\ Cur.callee \in Nat
    BY FrameFacts, CurFacts
  <1>2. /\ g \in Seq(FrameType) /\ Len(g) = L /\ g[L] = [Cur EXCEPT !.live = @ + 1]
        /\ g[L].id = Cur.id /\ g[L].kind = Cur.kind /\ g[L].callee = Cur.callee
    BY <1>1, GrownFrames DEF Cur
  <1>3. g[L].live = Cur.live + 1 /\ g[L] \in FrameType
    <2>1. g[L].live = Cur.live + 1
      BY <1>1, <1>2 DEF FrameType
    <2>2. L \in DOMAIN g
      BY <1>1, <1>2
    <2>3. QED
      BY <1>2, <2>1, <2>2
  <1> HIDE DEF g
  <1>4. DOMAIN mine = 1..1 /\ mine[1] = g[L]
    BY <1>1, <1>2
  <1>5. Cur.callee - Cur.callee = 0 /\ 0 \in 0..MaxStack - 1
    BY <1>1, SizesAssumption
  <1>6. e \in FrameType /\ e.id = Cur.id /\ e.kind = Cur.kind /\ e.callee = 0 /\ e.live = Cur.live + 1
    BY <1>2, <1>3, <1>5 DEF FrameType
  <1> HIDE DEF mine
  <1>7. moved = [i \in 1..1 |-> e]
    BY <1>4
  <1> HIDE DEF e, moved
  <1>8. moved \in Seq(FrameType) /\ Len(moved) = 1 /\ moved[1] = e
    <2>1. moved \in [1..1 -> FrameType] /\ moved[1] = e
      BY <1>6, <1>7
    <2>2. QED
      BY <2>1, TableSeq
  <1>9. QED
    BY <1>6, <1>8 DEF moved, mine, g

\* CALL of fiber_yield.
LEMMA YieldInv == ASSUME Disciplined, StackInv, FrameInv, Yield PROVE StackInv'
  <1> DEFINE L == Len(frames)
             b == Under
             start == Cur.callee
             called == Assign(stack, L)
             mine == SubSeq(Grown(L), L, L)
             moved == [i \in DOMAIN mine |-> [mine[i] EXCEPT !.callee = @ - start]]
             saved == [k \in 1..(IF top > start THEN top - start ELSE 0) |-> called[start + k - 1]]
             P == [state |-> "suspended", base |-> b, parent |-> NoFiber,
                   saved |-> saved, frames |-> moved]
  <1>1. /\ active \in Fibers /\ active' = NoFiber /\ program' = program /\ "fibers" \in program
        /\ L = b + 1 /\ b \in Nat /\ b \in 1..L /\ b + 1 \in 1..L /\ Cur = frames[b + 1]
        /\ Cur.kind = "call" /\ Cur.live < Regs /\ frames[b].live < Regs
        /\ start = Base(frames[b]) + frames[b].live
        /\ Base(Cur) + Regs <= top
    BY YieldFrames
  <1>2. Running
    BY <1>1, FrameFacts DEF Running
  <1>3. /\ fiber' = [fiber EXCEPT ![active] = P]
        /\ frames' = Grown(b)
        /\ top' = Larger(Cur.saved, start + 1)
        /\ stack' = [called EXCEPT ![start] = Reg(frames[b].id, frames[b].live)]
    <2>1. fiber[active].base = b
      BY DEF Under
    <2>2. QED
      BY <1>1, <2>1 DEF Yield
  <1>4. /\ called \in [0..MaxStack - 1 -> Values]
        /\ \A i \in 1..L : \A r \in 0..frames[i].live - 1 :
             called[Base(frames[i]) + r] = Reg(frames[i].id, r)
        /\ \A r \in 0..Cur.live : called[Base(Cur) + r] = Reg(Cur.id, r)
    BY <1>1, <1>2, YieldValues
  <1>5. /\ start \in 0..MaxStack - 1 /\ top \in 0..MaxStack /\ Cur.saved \in 0..MaxStack
        /\ Base(Cur) = start + 1 /\ Cur.live \in 0..Regs /\ Cur.id \in Activations
        /\ Regs \in Nat /\ MaxStack \in Nat
    BY <1>2, CurFacts, FrameFacts
  <1>6. /\ moved \in Seq(FrameType) /\ Len(moved) = 1
        /\ moved[1].id = Cur.id /\ moved[1].kind = Cur.kind
        /\ moved[1].callee = 0 /\ moved[1].live = Cur.live + 1
    BY <1>1, <1>2, SavedFrame
  <1> HIDE DEF moved, mine, called
  <1>7. /\ saved \in Seq(Values) /\ 1 + Regs <= Len(saved)
        /\ \A r \in 0..Regs - 1 : saved[r + 2] = called[(start + 1) + r]
    BY <1>1, <1>4, <1>5, SavedValues
  <1> HIDE DEF saved
  <1>8. FrameInv'
    <2>1. top' \in 0..MaxStack
      <3>1. /\ Cur.saved \in Nat /\ start + 1 \in Nat /\ Cur.saved <= MaxStack
            /\ start + 1 <= MaxStack
        BY <1>5
      <3>2. QED
        BY <1>3, <1>5, <3>1, LargerFacts
    <2>2. stack' = Assign(called, b)
      BY <1>1, <1>3 DEF Assign
    <2>3. \A i \in 1..b : \A r \in 0..frames[i].live - 1 :
            called[Base(frames[i]) + r] = Reg(frames[i].id, r)
      BY <1>1, <1>4
    <2>4. ~Reactive
      BY <1>1 DEF Disciplined, FrameInv, TypeOK, Reactive
    <2>5. QED
      BY <1>1, <1>3, <1>4, <2>1, <2>2, <2>3, <2>4, GrowInv
  <1>9. P \in FiberType /\ P.state = "suspended" /\ P.frames = moved /\ P.saved = saved
    BY <1>1, <1>6, <1>7 DEF FiberType
  <1> HIDE DEF P
  <1>10. FiberTyped' /\ \A f \in Fibers : fiber'[f] = IF f = active THEN P ELSE fiber[f]
    BY <1>1, <1>3, <1>9 DEF StackInv, FiberPart, FiberTyped
  <1>11. /\ DOMAIN frames' = 1..b
         /\ \A i \in 1..b : /\ i \in DOMAIN frames
                            /\ frames'[i].id = frames[i].id
                            /\ frames'[i].kind = frames[i].kind
    BY <1>1, <1>3, GrownNames
  <1>12. PICK a \in Fibers : a = active
    BY <1>1
  <1>13. /\ fiber'[a] = P
         /\ \A f \in Fibers : f # a => fiber'[f] = fiber[f]
    BY <1>10, <1>12
  <1>14. Parked'
    <2>1. Whole(a)' /\ fiber'[a].frames[1].id = Cur.id
      <3>1. \A r \in 0..moved[1].live - 1 : saved[r + 2] = Reg(moved[1].id, r)
        <4>1. ASSUME NEW r \in 0..(Cur.live + 1) - 1
              PROVE  saved[r + 2] = Reg(Cur.id, r)
          <5>1. r \in 0..Cur.live /\ r \in 0..Regs - 1
            BY <1>1, <1>5
          <5>2. QED
            BY <1>4, <1>5, <1>7, <5>1
        <4>2. QED
          BY <1>6, <4>1
      <3>2. fiber'[a].frames = moved /\ fiber'[a].saved = saved
        BY <1>9, <1>13
      <3>3. QED
        BY <1>1, <1>6, <1>7, <3>1, <3>2 DEF Whole, Entry
    <2>2. ASSUME NEW f \in Fibers, f # a, Waits(f)'
          PROVE  Waits(f) /\ Whole(f)' /\ fiber'[f].frames[1].id = Entry(f).id
                 /\ Entry(f).id # Cur.id
      <3>1. fiber'[f] = fiber[f]
        BY <1>13, <2>2
      <3>2. Waits(f) /\ fiber'[f].frames[1].id = Entry(f).id
        BY <2>2, <3>1 DEF Waits, Entry
      <3>3. Whole(f)' /\ \A i \in DOMAIN frames : frames[i].id # Entry(f).id
        BY <3>1, <3>2 DEF StackInv, FiberPart, Parked, Whole, Entry
      <3>4. b + 1 \in DOMAIN frames
        BY <1>1, FrameFacts
      <3>5. QED
        BY <1>1, <3>2, <3>3, <3>4
    <2>3. ASSUME NEW f \in Fibers, Waits(f)', NEW i \in DOMAIN frames'
          PROVE  frames'[i].id # fiber'[f].frames[1].id
      <3>1. i \in DOMAIN frames /\ frames'[i].id = frames[i].id /\ i # b + 1
        BY <1>1, <1>11, <2>3
      <3>2. CASE f = a
        <4>1. b + 1 \in DOMAIN frames
          BY <1>1, FrameFacts
        <4>2. QED
          BY <1>1, <2>1, <3>1, <3>2, <4>1 DEF FrameInv, Distinct
      <3>3. CASE f # a
        BY <2>2, <2>3, <3>1, <3>3 DEF StackInv, FiberPart, Parked
      <3>4. QED
        BY <3>2, <3>3
    <2>4. ASSUME NEW f \in Fibers, NEW g \in Fibers, Waits(f)', Waits(g)',
                 fiber'[g].frames[1].id = fiber'[f].frames[1].id
          PROVE  g = f
      <3>1. CASE f # a /\ g # a
        BY <2>2, <2>4, <3>1 DEF StackInv, FiberPart, Parked
      <3>2. CASE f = a \/ g = a
        BY <2>1, <2>2, <2>4, <3>2
      <3>3. QED
        BY <3>1, <3>2
    <2>5. \A f \in Fibers : Waits(f)' => Whole(f)'
      BY <2>1, <2>2
    <2>6. QED
      BY <2>3, <2>4, <2>5 DEF Parked, Entry
  <1>15. Kinds'
    BY <1>1, <1>11 DEF StackInv, FiberPart, Kinds
  <1>16. QED
    BY <1>1, <1>8, <1>10, <1>14, <1>15 DEF StackInv, FiberPart, Inside, Deep

\* A fiber starts or goes on with one frame F, at the next free register of the
\* code that resumes it.
LEMMA StartFiber ==
  ASSUME StackInv, FrameInv, Running, active = NoFiber, "fibers" \in program,
         NEW f \in Fibers, NEW F \in FrameType, NEW r \in FiberType,
         frames' = Append(frames, F), F.kind = "call", F.callee = NextSlot,
         Base(F) + Regs <= top',
         \A g \in Fibers : g # f /\ Waits(g) => F.id # Entry(g).id,
         r.state = "running", r.parent = NoFiber, r.base = Len(frames),
         fiber' = [fiber EXCEPT ![f] = r], active' = f, program' = program
  PROVE  FiberPart'
  <1> DEFINE L == Len(frames)
  <1>1. frames \in Seq(FrameType) /\ L \in Nat /\ DOMAIN frames = 1..L /\ L \in 1..L
    BY FrameFacts, CurFacts
  <1>2. /\ DOMAIN frames' = 1..L + 1 /\ Len(frames') = L + 1 /\ frames'[L + 1] = F
        /\ \A i \in 1..L : frames'[i] = frames[i]
    BY <1>1
  <1>3. \A g \in Fibers : fiber'[g] = IF g = f THEN r ELSE fiber[g]
    BY DEF StackInv, FiberPart, FiberTyped
  <1>4. FiberTyped'
    BY <1>3 DEF StackInv, FiberPart, FiberTyped
  <1>5. Under' = L /\ fiber'[active'].parent = NoFiber
    BY <1>3 DEF Under
  <1>6. Inside'
    <2>1. F.callee = Base(frames[L]) + frames[L].live
      BY DEF NextSlot, Cur
    <2>2. L \in 1..(L + 1) - 1
      BY <1>1
    <2>3. frames'[L + 1].callee = Base(frames'[L]) + frames'[L].live
      BY <1>1, <1>2, <2>1
    <2>4. QED
      BY <1>2, <1>5, <2>2, <2>3 DEF Inside
  <1>7. Deep'
    <2>1. \A i, j \in 1..L + 1 : ~(L < i /\ j = i + 1)
      BY <1>1
    <2>2. Base(frames'[Len(frames')]) + Regs <= top'
      BY <1>2
    <2>3. QED
      BY <1>2, <1>5, <2>1, <2>2 DEF Deep, Cur
  <1>8. Kinds'
    <2>1. \A i \in 1..L + 1 : i = L + 1 \/ i \in 1..L
      BY <1>1
    <2>2. QED
      BY <1>1, <1>2, <2>1 DEF StackInv, FiberPart, Kinds
  <1>9. Parked'
    <2>1. \A g \in Fibers : Waits(g)' => /\ g # f /\ Waits(g)
                                         /\ fiber'[g].frames = fiber[g].frames
                                         /\ fiber'[g].saved = fiber[g].saved
      BY <1>3 DEF Waits
    <2>2. ASSUME NEW i \in DOMAIN frames', NEW g \in Fibers, Waits(g)'
          PROVE  frames'[i].id # Entry(g).id
      <3>1. g # f /\ Waits(g)
        BY <2>1, <2>2
      <3>2. CASE i = L + 1
        BY <1>2, <3>1, <3>2
      <3>3. CASE i # L + 1
        <4>1. i \in 1..L
          BY <1>1, <1>2, <2>2, <3>3
        <4>2. QED
          BY <1>1, <1>2, <3>1, <4>1 DEF StackInv, FiberPart, Parked
      <3>4. QED
        BY <3>2, <3>3
    <2>3. QED
      BY <2>1, <2>2, ParkedStay DEF StackInv, FiberPart
  <1>10. QED
    BY <1>4, <1>6, <1>7, <1>8, <1>9 DEF FiberPart

\* fiber_resume makes a fiber the running one.
Restart(f) == [fiber[f] EXCEPT !.state = "running", !.parent = active, !.base = Len(frames)]

LEMMA Restarted ==
  ASSUME StackInv, FrameInv, NEW f \in Fibers
  PROVE  LET r == Restart(f)
         IN /\ r \in FiberType /\ r.state = "running" /\ r.parent = active
            /\ r.base = Len(frames)
  <1> DEFINE r1 == [fiber[f] EXCEPT !.state = "running"]
             r2 == [r1 EXCEPT !.parent = active]
             r3 == [r2 EXCEPT !.base = Len(frames)]
  <1>1. fiber[f] \in FiberType /\ active \in Fibers \cup {NoFiber} /\ Len(frames) \in Nat
    BY FrameFacts DEF StackInv, FiberPart, FiberTyped, FrameInv, TypeOK
  <1>2. r1 \in FiberType /\ r1.state = "running"
    BY <1>1 DEF FiberType
  <1> HIDE DEF r1
  <1>3. r2 \in FiberType /\ r2.state = "running" /\ r2.parent = active
    BY <1>1, <1>2 DEF FiberType
  <1> HIDE DEF r2
  <1>4. r3 \in FiberType /\ r3.state = "running" /\ r3.parent = active /\ r3.base = Len(frames)
    BY <1>1, <1>3 DEF FiberType
  <1>5. QED
    BY <1>4 DEF r1, r2, Restart

LEMMA Emptied ==
  ASSUME StackInv, FrameInv, NEW f \in Fibers
  PROVE  LET r == [Restart(f) EXCEPT !.saved = <<>>, !.frames = <<>>]
         IN /\ r \in FiberType /\ r.state = "running" /\ r.parent = active
            /\ r.base = Len(frames)
  <1> DEFINE r0 == Restart(f)
             r1 == [r0 EXCEPT !.saved = <<>>]
             r2 == [r1 EXCEPT !.frames = <<>>]
  <1>1. r0 \in FiberType /\ r0.state = "running" /\ r0.parent = active /\ r0.base = Len(frames)
    BY Restarted
  <1> HIDE DEF r0
  <1>0. <<>> \in Seq(Values) /\ <<>> \in Seq(FrameType)
    OBVIOUS
  <1>2. r1 \in FiberType /\ r1.state = "running" /\ r1.parent = active /\ r1.base = Len(frames)
    BY <1>0, <1>1 DEF FiberType
  <1> HIDE DEF r1
  <1>3. r2 \in FiberType /\ r2.state = "running" /\ r2.parent = active /\ r2.base = Len(frames)
    BY <1>0, <1>2 DEF FiberType
  <1>4. QED
    BY <1>3 DEF r0, r1

\* Fibers are resumed from outside fibers, where natives are not running.
LEMMA MayResumeFacts ==
  ASSUME Disciplined, FrameInv, MayResume
  PROVE  /\ Running /\ Cur.live < Regs /\ active = NoFiber /\ "fibers" \in program /\ ~Reactive
  BY DEF Disciplined, FrameInv, TypeOK, MayResume, Room, Reactive

\* CALL of fiber_resume on a fiber that has not started.
LEMMA CreatedInv ==
  ASSUME Disciplined, StackInv, FrameInv, NEW f \in Fibers, NEW id \in Activations,
         NEW n \in 0..MaxArgs, ResumeCreated(f, id, n)
  PROVE  StackInv'
  <1> DEFINE t == NextSlot + 1 + n
             F == Frame(id, "call", NextSlot, t, n)
             r == Restart(f)
  <1>1. /\ Running /\ Cur.live < Regs /\ active = NoFiber /\ "fibers" \in program /\ ~Reactive
        /\ Push(id, "call", NextSlot, n, t) /\ program' = program /\ active' = f
        /\ fiber' = [fiber EXCEPT ![f].state = "running", ![f].parent = active,
                                  ![f].base = Len(frames)]
    BY MayResumeFacts DEF ResumeCreated
  <1>2. /\ n \in Nat /\ n <= Regs /\ Regs \in Nat /\ MaxStack \in Nat
        /\ id \notin InUse /\ frames' = Append(frames, F) /\ top' = Larger(t, NextSlot + 1 + Regs)
        /\ NextSlot + 1 + Regs <= MaxStack
    BY <1>1, SizesAssumption DEF Push, Fits, Raised
  <1>3. NextSlot \in Nat /\ \A i \in 1..Len(frames) : Base(frames[i]) + frames[i].live <= NextSlot
    BY <1>1, CurFacts
  <1>4. t \in 0..MaxStack /\ NextSlot \in 0..MaxStack - 1 /\ n \in 0..Regs
    BY <1>2, <1>3
  <1>5. FrameInv'
    BY <1>1, <1>2, <1>3, <1>4, PushInv
  <1>6. /\ F \in FrameType /\ F.kind = "call" /\ F.callee = NextSlot /\ F.id = id
        /\ Base(F) = NextSlot + 1
    BY <1>4 DEF Frame, FrameType, Base
  <1>7. NextSlot + 1 + Regs <= top'
    BY <1>2, <1>3, <1>4 DEF Larger
  <1>8. fiber' = [fiber EXCEPT ![f] = r]
    BY <1>1 DEF Restart
  <1>9. r \in FiberType /\ r.state = "running" /\ r.parent = NoFiber /\ r.base = Len(frames)
    BY <1>1, Restarted
  <1>10. \A g \in Fibers : Waits(g) => id # Entry(g).id
    BY <1>2, NewName DEF StackInv, FiberPart
  <1> HIDE DEF F, r, t
  <1>11. /\ Base(F) + Regs <= top'
         /\ \A g \in Fibers : g # f /\ Waits(g) => F.id # Entry(g).id
    BY <1>6, <1>7, <1>10
  <1>12. FiberPart'
    <2>1. /\ Running /\ active = NoFiber /\ "fibers" \in program
          /\ frames' = Append(frames, F) /\ active' = f /\ program' = program
      BY <1>1, <1>2
    <2>2. F \in FrameType /\ F.kind = "call" /\ F.callee = NextSlot
      BY <1>6
    <2>3. QED
      BY <1>8, <1>9, <1>11, <2>1, <2>2, StartFiber
  <1>13. QED
    BY <1>5, <1>12 DEF StackInv

\* On a fiber that runs: outside fibers there is none, and nothing is lost.
LEMMA RunningInv ==
  ASSUME Disciplined, StackInv, FrameInv, NEW f \in Fibers, ResumeRunning(f)
  PROVE  StackInv'
  <1> DEFINE L == Len(frames)
  <1>1. /\ Running /\ Cur.live < Regs /\ active = NoFiber /\ ~Reactive
        /\ stack' = Assign(stack, L) /\ frames' = Grown(L) /\ top' = NextSlot
        /\ UNCHANGED <<program, active, fiber>>
    BY MayResumeFacts DEF ResumeRunning
  <1>2. /\ stack \in [0..MaxStack - 1 -> Values] /\ L \in 1..L /\ DOMAIN frames = 1..L
        /\ active \in Fibers \cup {NoFiber}
    BY <1>1, FrameFacts, CurFacts DEF FrameInv, TypeOK, Values
  <1>3. frames[L].live < Regs
    BY <1>1 DEF Cur
  <1>4. \A i \in 1..L : \A r \in 0..frames[i].live - 1 :
          stack[Base(frames[i]) + r] = Reg(frames[i].id, r)
    BY <1>2 DEF FrameInv, RegistersIntact
  <1>5. top' \in 0..MaxStack
    <2>1. /\ Base(Cur) \in Nat /\ Cur.live \in 0..Regs /\ Base(Cur) + Regs <= MaxStack
          /\ NextSlot = Base(Cur) + Cur.live
      BY <1>1, CurFacts
    <2>2. NextSlot \in 0..MaxStack - 1
      BY <1>1, <2>1, WindowSlot
    <2>3. QED
      BY <1>1, <2>2, SizesAssumption
  <1>6. FrameInv'
    BY <1>1, <1>2, <1>3, <1>4, <1>5, GrowInv
  <1>7. FiberPart'
    BY <1>1, <1>2, <1>3, KeepGrown
  <1>8. QED
    BY <1>6, <1>7 DEF StackInv

\* The values of a fiber come back where it is resumed.
LEMMA RestoredValues ==
  ASSUME FrameInv, NEW slot \in Nat, NEW saved \in Seq(Values), slot + Len(saved) <= MaxStack,
         stack' = [p \in DOMAIN stack |->
                     IF p \in slot..slot + Len(saved) - 1 THEN saved[p - slot + 1] ELSE stack[p]]
  PROVE  /\ stack' \in [0..MaxStack - 1 -> Values]
         /\ \A p \in 0..MaxStack - 1 : p < slot => stack'[p] = stack[p]
         /\ \A r \in Nat : r + 2 <= Len(saved) => stack'[(slot + 1) + r] = saved[r + 2]
  <1> DEFINE n == Len(saved)
  <1>1. stack \in [0..MaxStack - 1 -> Values] /\ MaxStack \in Nat /\ n \in Nat
    BY FrameFacts DEF FrameInv, TypeOK, Values
  <1>2. \A p \in slot..slot + n - 1 : p - slot + 1 \in 1..n
    BY <1>1
  <1>3. \A k \in 1..n : saved[k] \in Values
    OBVIOUS
  <1>4. stack' \in [0..MaxStack - 1 -> Values]
    BY <1>1, <1>2, <1>3
  <1>5. \A p \in 0..MaxStack - 1 : p < slot => stack'[p] = stack[p]
    BY <1>1
  <1>6. ASSUME NEW r \in Nat, r + 2 <= n
        PROVE  stack'[(slot + 1) + r] = saved[r + 2]
    <2>1. /\ (slot + 1) + r \in 0..MaxStack - 1 /\ (slot + 1) + r \in slot..slot + n - 1
          /\ (slot + 1) + r - slot + 1 = r + 2
      BY <1>1, <1>6
    <2>2. QED
      BY <1>1, <2>1
  <1>7. QED
    BY <1>4, <1>5, <1>6

\* CALL of fiber_resume on a suspended fiber.
LEMMA SuspendedInv ==
  ASSUME Disciplined, StackInv, FrameInv, NEW f \in Fibers, ResumeSuspended(f)
  PROVE  StackInv'
  <1> DEFINE L == Len(frames)
             slot == NextSlot
             saved == fiber[f].saved
             n == Len(saved)
             e == Entry(f)
             F == Moved(e, slot)
             r == [Restart(f) EXCEPT !.saved = <<>>, !.frames = <<>>]
             moved == [i \in DOMAIN fiber[f].frames |-> Moved(fiber[f].frames[i], slot)]
  <1>1. /\ Running /\ Cur.live < Regs /\ active = NoFiber /\ "fibers" \in program /\ ~Reactive
        /\ Waits(f) /\ slot + n <= MaxStack
        /\ \A i \in DOMAIN fiber[f].frames : slot + 1 + fiber[f].frames[i].callee + Regs <= MaxStack
        /\ stack' = [p \in DOMAIN stack |->
                       IF p \in slot..slot + n - 1 THEN saved[p - slot + 1] ELSE stack[p]]
        /\ top' = slot + n
        /\ frames' = frames \o moved
        /\ fiber' = [fiber EXCEPT ![f].state = "running", ![f].parent = active,
                                  ![f].base = Len(frames),
                                  ![f].saved = <<>>, ![f].frames = <<>>]
        /\ active' = f /\ program' = program
    BY MayResumeFacts DEF ResumeSuspended, Waits
  <1>2. /\ fiber[f] \in FiberType /\ saved \in Seq(Values) /\ fiber[f].frames \in Seq(FrameType)
        /\ Whole(f) /\ \A i \in DOMAIN frames : frames[i].id # e.id
        /\ \A g \in Fibers : Waits(g) /\ Entry(g).id = e.id => g = f
    BY <1>1 DEF StackInv, FiberPart, FiberTyped, FiberType, Parked
  <1>3. /\ Len(fiber[f].frames) = 1 /\ DOMAIN fiber[f].frames = 1..1 /\ e \in FrameType
        /\ e.callee = 0 /\ e.kind = "call" /\ 1 + Regs <= n /\ n \in Nat
        /\ \A k \in 0..e.live - 1 : saved[k + 2] = Reg(e.id, k)
    BY <1>2 DEF Whole, Entry
  <1>4. /\ frames \in Seq(FrameType) /\ L \in Nat /\ DOMAIN frames = 1..L
        /\ Regs \in Nat /\ MaxStack \in Nat
        /\ slot \in Nat /\ \A i \in 1..L : Base(frames[i]) + frames[i].live <= slot
    BY <1>1, FrameFacts, CurFacts
  <1>5. slot + 1 + Regs <= MaxStack /\ slot \in 0..MaxStack - 1
    <2>1. slot + 1 + e.callee + Regs <= MaxStack
      BY <1>1, <1>3 DEF Entry
    <2>2. QED
      BY <1>3, <1>4, <2>1
  <1>6. /\ F \in FrameType /\ F.id = e.id /\ F.kind = "call" /\ F.callee = slot /\ F.live = e.live
        /\ Base(F) = slot + 1
    <2>1. e.callee + slot = slot /\ e.callee + slot \in 0..MaxStack - 1
      BY <1>3, <1>4, <1>5
    <2>2. QED
      BY <1>3, <2>1 DEF Moved, FrameType, Base
  <1>7. frames' = Append(frames, F)
    <2>1. moved = [i \in 1..1 |-> F]
      BY <1>3 DEF Entry
    <2> HIDE DEF F, moved
    <2>2. moved = <<F>>
      BY <2>1
    <2>3. QED
      BY <1>1, <1>4, <1>6, <2>2
  <1>8. /\ stack' \in [0..MaxStack - 1 -> Values]
        /\ \A p \in 0..MaxStack - 1 : p < slot => stack'[p] = stack[p]
        /\ \A k \in Nat : k + 2 <= n => stack'[(slot + 1) + k] = saved[k + 2]
    BY <1>1, <1>2, <1>4, RestoredValues
  <1>9. \A k \in 0..F.live - 1 : stack'[Base(F) + k] = Reg(F.id, k)
    <2>1. ASSUME NEW k \in 0..e.live - 1
          PROVE  stack'[(slot + 1) + k] = Reg(e.id, k)
      <3>1. e.live \in 0..Regs
        BY <1>3 DEF FrameType
      <3>2. k \in Nat /\ k + 2 <= n
        BY <1>3, <1>4, <3>1
      <3>3. QED
        BY <1>3, <1>8, <3>2
    <2>2. QED
      BY <1>6, <2>1
  <1>10. fiber' = [fiber EXCEPT ![f] = r]
    BY <1>1 DEF Restart
  <1>11. r \in FiberType /\ r.state = "running" /\ r.parent = NoFiber /\ r.base = L
    BY <1>1, Emptied
  <1> HIDE DEF F, r, moved, slot, saved, e
  <1>12. top' \in 0..MaxStack /\ Base(F) + Regs <= top' /\ Base(F) + Regs <= MaxStack
    BY <1>1, <1>3, <1>4, <1>5, <1>6
  <1>13. FrameInv'
    <2>1. \A i \in 1..L : F.id # frames[i].id
      BY <1>2, <1>4, <1>6
    <2>2. /\ \A i \in 1..L : Base(frames[i]) + frames[i].live <= F.callee
          /\ \A p \in 0..MaxStack - 1 : p < F.callee => stack'[p] = stack[p]
      BY <1>4, <1>6, <1>8
    <2>3. active' \in Fibers \cup {NoFiber} /\ program' = program
      BY <1>1
    <2>4. QED
      BY <1>1, <1>6, <1>7, <1>8, <1>9, <1>12, <2>1, <2>2, <2>3, AppendInv
  <1>14. FiberPart'
    <2>1. F \in FrameType /\ F.kind = "call" /\ F.callee = NextSlot
      BY <1>6 DEF slot
    <2>2. \A g \in Fibers : g # f /\ Waits(g) => F.id # Entry(g).id
      BY <1>2, <1>6
    <2>3. /\ Running /\ active = NoFiber /\ "fibers" \in program /\ active' = f /\ program' = program
      BY <1>1
    <2>4. QED
      BY <1>7, <1>10, <1>11, <1>12, <2>1, <2>2, <2>3, StartFiber
  <1>15. QED
    BY <1>13, <1>14 DEF StackInv

-----------------------------------------------------------------------------
(* The theorems *)

LEMMA InitInv == Init => StackInv
  <1> SUFFICES ASSUME Init PROVE StackInv
    OBVIOUS
  <1>1. FrameInv
    BY InitFrames
  <1>2. FiberTyped
    <2>1. <<>> \in Seq(Values) /\ <<>> \in Seq(FrameType)
      OBVIOUS
    <2>2. Dormant \in FiberType
      BY <2>1 DEF Dormant, FiberType
    <2>3. QED
      BY <2>2 DEF Init, FiberTyped
  <1>3. Parked
    BY DEF Init, Parked, Waits, Dormant
  <1>4. QED
    BY <1>1, <1>2, <1>3 DEF Init, StackInv, FiberPart, Inside, Deep, Kinds

LEMMA NextInv == ASSUME Disciplined, StackInv, Next PROVE StackInv'
  <1>1. FrameInv
    BY DEF StackInv
  <1>2. ASSUME NEW f \in Fibers,
               ResumeSuspended(f) \/ ResumeRunning(f)
                 \/ \E id \in Activations, n \in 0..MaxArgs : ResumeCreated(f, id, n)
        PROVE  StackInv'
    BY <1>1, <1>2, CreatedInv, RunningInv, SuspendedInv
  <1>3. CASE Return
    BY <1>1, <1>3, ReturnInv
  <1>4. CASE Yield
    BY <1>1, <1>4, YieldInv
  <1>5. CASE \/ Allocate \/ Free \/ CallNative \/ TailNative
             \/ \E id \in Activations : Interpret(id) \/ RunEffect(id)
             \/ \E id \in Activations, n \in 0..MaxArgs : Call(id, n) \/ TailCall(id, n)
    BY <1>1, <1>5, CodeInv
  <1>6. QED
    BY <1>2, <1>3, <1>4, <1>5 DEF Next

LEMMA StutterInv == ASSUME StackInv, UNCHANGED vars PROVE StackInv'
  <1>1. FrameInv'
    BY DEF vars, StackInv, FrameInv, TypeOK, Fit, Above, CallRoom, Distinct, Reserve, Cur, Reactive,
       RegistersIntact
  <1>2. FiberPart'
    BY DEF vars, StackInv, FiberPart, FiberTyped, Inside, Deep, Under, Cur, Kinds, Parked,
       Whole, Waits, Entry
  <1>3. QED
    BY <1>1, <1>2 DEF StackInv

\* The invariant holds in every reachable state.
THEOREM StackInvariant == ASSUME Disciplined PROVE Spec => []StackInv
  <1>1. StackInv /\ [Next]_vars => StackInv'
    BY NextInv, StutterInv
  <1>2. QED
    BY <1>1, InitInv, PTL DEF Spec

\* Frames stay in the stack and stack_top_ within MAX_STACK.
THEOREM StackTyped == ASSUME Disciplined PROVE Spec => []TypeOK
  <1>1. StackInv => TypeOK
    BY DEF StackInv, FrameInv
  <1>2. QED
    BY <1>1, StackInvariant, PTL

\* CALL, TAIL_CALL, RETURN, call_native and the drain loop never touch a
\* register the compiler has allocated in a frame that waits.
THEOREM RegistersSafe == ASSUME Disciplined PROVE Spec => []RegistersIntact
  <1>1. StackInv => RegistersIntact
    BY DEF StackInv, FrameInv
  <1>2. QED
    BY <1>1, StackInvariant, PTL

\* What the root scan of vm.cpp:51 assumes: the registers of a caller are below
\* the base_register of every frame it waits for.
THEOREM CallersStayBelow == ASSUME Disciplined PROVE Spec => []CallersBelow
  <1>1. ASSUME StackInv PROVE CallersBelow
    <2>1. ASSUME NEW i \in DOMAIN frames, NEW j \in DOMAIN frames, i < j
          PROVE  Base(frames[i]) + frames[i].live <= Base(frames[j])
      <3>1. Base(frames[i]) + frames[i].live <= frames[j].callee
        BY <1>1, <2>1 DEF StackInv, FrameInv, Above
      <3>2. i \in 1..Len(frames) /\ j \in 1..Len(frames)
        BY <1>1, FrameFacts DEF StackInv
      <3>3. Base(frames[i]) \in Nat /\ frames[i].live \in Nat
        BY <1>1, <3>2, FrameFacts DEF StackInv
      <3>4. frames[j].callee \in Nat /\ Base(frames[j]) = frames[j].callee + 1
        BY <1>1, <3>2, FrameFacts DEF StackInv
      <3>5. Base(frames[i]) + frames[i].live \in Nat
        BY <3>3
      <3>6. QED
        BY <3>1, <3>4, <3>5
    <2>2. QED
      BY <2>1 DEF CallersBelow
  <1>2. StackInv => CallersBelow
    BY <1>1
  <1>3. QED
    BY <1>2, StackInvariant, PTL
=============================================================================
