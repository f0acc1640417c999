---------------------------- MODULE FiberProofs ----------------------------
(***************************************************************************)
(* Who resumes whom in Stack, for any number of fibers, nested as deep as  *)
(* they like: the running fibers are a chain that ends in active_fiber_.   *)
(***************************************************************************)
EXTENDS Stack, TLAPS

\* No fiber returns the result of a native directly: TAIL_CALL of a native pops
\* the frame of a fiber and does not look at the fiber.
NoTailsInFibers ==
  \A p \in Programs : ~({"native tails", "natives in fibers"} \subseteq p)

\* Frames are numbered from 1, those of a fiber that waits too, and it has some.
Rows(s) == s \in Seq({s[i] : i \in DOMAIN s})
Stacked ==
  /\ program \in Programs
  /\ Rows(frames)
  /\ \A f \in Fibers : /\ Rows(fiber[f].frames)
                       /\ fiber[f].state = "suspended" => fiber[f].frames # <<>>

Whole(r) ==
  /\ r = [state |-> r.state, base |-> r.base, parent |-> r.parent,
          saved |-> r.saved, frames |-> r.frames]
  /\ r.base \in Nat /\ r.parent \in Fibers \cup {NoFiber}
FiberShape ==
  /\ active \in Fibers \cup {NoFiber}
  /\ fiber = [f \in Fibers |-> fiber[f]]
  /\ \A f \in Fibers : Whole(fiber[f])

Runs(f) == fiber[f].state = "running"

\* Running fibers have frames of their own above one of their resumer, no two
\* from the same depth, and the active one is on top.
Seated ==
  /\ \A f \in Fibers : Runs(f) => fiber[f].base > 0 /\ fiber[f].base < Len(frames)
  /\ \A f, g \in Fibers : Runs(f) /\ Runs(g) /\ fiber[f].base = fiber[g].base => f = g
  /\ active # NoFiber =>
       Runs(active) /\ \A f \in Fibers : Runs(f) => fiber[f].base <= fiber[active].base
  /\ active = NoFiber => \A f \in Fibers : ~Runs(f)

\* The resumer of a fiber is the next one below it, and a fiber that is not the
\* active one has resumed another.
Linked ==
  \A f \in Fibers : Runs(f) =>
    /\ fiber[f].parent # NoFiber =>
         /\ Runs(fiber[f].parent)
         /\ fiber[fiber[f].parent].base < fiber[f].base
         /\ \A g \in Fibers : Runs(g) => \/ fiber[g].base <= fiber[fiber[f].parent].base
                                         \/ fiber[f].base <= fiber[g].base
    /\ fiber[f].parent = NoFiber =>
         \A g \in Fibers : Runs(g) => fiber[f].base <= fiber[g].base
    /\ f # active => \E g \in Fibers : Runs(g) /\ fiber[g].parent = f

FiberInv == Stacked /\ FiberShape /\ Seated /\ Linked

-----------------------------------------------------------------------------
(* Frames *)

LEMMA RowFacts ==
  ASSUME NEW s, Rows(s)
  PROVE  /\ Len(s) \in Nat /\ DOMAIN s = 1..Len(s)
         /\ s # <<>> <=> Len(s) > 0
  BY DEF Rows

LEMMA TableRows ==
  ASSUME NEW n \in Nat, NEW s, s = [i \in 1..n |-> s[i]]
  PROVE  Rows(s) /\ Len(s) = n
  <1>1. DOMAIN s = 1..n
    OBVIOUS
  <1>2. s \in [1..n -> {s[i] : i \in DOMAIN s}]
    BY <1>1
  <1>3. QED
    BY <1>1, <1>2 DEF Rows

LEMMA SeqRows ==
  ASSUME NEW S, NEW s \in Seq(S)
  PROVE  Rows(s)
  <1>1. Len(s) \in Nat /\ s = [i \in 1..Len(s) |-> s[i]]
    OBVIOUS
  <1>2. QED
    BY <1>1, TableRows

LEMMA AppendRows ==
  ASSUME NEW s, Rows(s), NEW x
  PROVE  Rows(Append(s, x)) /\ Len(Append(s, x)) = Len(s) + 1
  <1> DEFINE S == {s[i] : i \in DOMAIN s} \cup {x}
  <1>1. s \in Seq(S) /\ x \in S
    BY DEF Rows
  <1> HIDE DEF S
  <1>2. Append(s, x) \in Seq(S) /\ Len(Append(s, x)) = Len(s) + 1 /\ Len(s) + 1 \in Nat
    BY <1>1
  <1>3. QED
    BY <1>2, SeqRows

LEMMA JoinRows ==
  ASSUME NEW s, Rows(s), NEW t, Rows(t)
  PROVE  Rows(s \o t) /\ Len(s \o t) = Len(s) + Len(t)
  <1> DEFINE S == {s[i] : i \in DOMAIN s} \cup {t[i] : i \in DOMAIN t}
  <1>1. s \in Seq(S) /\ t \in Seq(S)
    BY DEF Rows
  <1> HIDE DEF S
  <1>2. s \o t \in Seq(S) /\ Len(s \o t) = Len(s) + Len(t) /\ Len(s) + Len(t) \in Nat
    BY <1>1
  <1>3. QED
    BY <1>2, SeqRows

LEMMA CutRows ==
  ASSUME NEW s, Rows(s), NEW a \in Nat, NEW b \in Nat, a >= 1, b <= Len(s), a <= b + 1
  PROVE  LET t == SubSeq(s, a, b)
         IN DOMAIN t = 1..b - a + 1 /\ Rows(t) /\ Len(t) = b - a + 1
  <1> DEFINE S == {s[i] : i \in DOMAIN s}
             t == SubSeq(s, a, b)
  <1>1. s \in Seq(S)
    BY DEF Rows
  <1> HIDE DEF S
  <1>2. t \in Seq(S) /\ Len(t) = b - a + 1 /\ b - a + 1 \in Nat
    BY <1>1
  <1> HIDE DEF t
  <1>3. t = [i \in 1..b - a + 1 |-> t[i]]
    BY <1>2
  <1>4. QED
    BY <1>2, <1>3, TableRows DEF t

LEMMA GrownRows ==
  ASSUME NEW k \in Nat
  PROVE  Rows(Grown(k)) /\ Len(Grown(k)) = k
  <1>1. Grown(k) = [i \in 1..k |-> Grown(k)[i]]
    BY DEF Grown
  <1>2. QED
    BY <1>1, TableRows

\* An update of a frame is one.
LEMMA UpdateRows ==
  ASSUME NEW s, Rows(s), NEW i, NEW x
  PROVE  Rows([s EXCEPT ![i] = x]) /\ Len([s EXCEPT ![i] = x]) = Len(s)
  <1> DEFINE t == [s EXCEPT ![i] = x]
  <1>1. DOMAIN t = 1..Len(s) /\ Len(s) \in Nat
    BY RowFacts
  <1>2. t = [j \in 1..Len(s) |-> t[j]]
    BY <1>1
  <1> HIDE DEF t
  <1>3. QED
    BY <1>1, <1>2, TableRows DEF t

-----------------------------------------------------------------------------
(* Fibers start and stop *)

Chained == FiberShape /\ Seated /\ Linked

LEMMA ChainFacts ==
  ASSUME FiberInv
  PROVE  /\ Len(frames) \in Nat
         /\ active \in Fibers \cup {NoFiber}
         /\ \A f \in Fibers :
              /\ fiber[f].base \in Nat /\ fiber[f].parent \in Fibers \cup {NoFiber}
              /\ Runs(f) => fiber[f].base > 0 /\ fiber[f].base < Len(frames)
  BY RowFacts DEF FiberInv, Stacked, FiberShape, Whole, Seated

\* The updates of a fiber, one field after the other.
LEMMA WithState ==
  ASSUME NEW o, Whole(o), NEW x
  PROVE  LET r == [o EXCEPT !.state = x]
         IN /\ Whole(r) /\ r.state = x /\ r.base = o.base /\ r.parent = o.parent
            /\ r.saved = o.saved /\ r.frames = o.frames
  BY DEF Whole

LEMMA WithParent ==
  ASSUME NEW o, Whole(o), NEW x \in Fibers \cup {NoFiber}
  PROVE  LET r == [o EXCEPT !.parent = x]
         IN /\ Whole(r) /\ r.state = o.state /\ r.base = o.base /\ r.parent = x
            /\ r.saved = o.saved /\ r.frames = o.frames
  BY DEF Whole

LEMMA WithBase ==
  ASSUME NEW o, Whole(o), NEW x \in Nat
  PROVE  LET r == [o EXCEPT !.base = x]
         IN /\ Whole(r) /\ r.state = o.state /\ r.base = x /\ r.parent = o.parent
            /\ r.saved = o.saved /\ r.frames = o.frames
  BY DEF Whole

LEMMA WithSaved ==
  ASSUME NEW o, Whole(o), NEW x
  PROVE  LET r == [o EXCEPT !.saved = x]
         IN /\ Whole(r) /\ r.state = o.state /\ r.base = o.base /\ r.parent = o.parent
            /\ r.frames = o.frames
  BY DEF Whole

LEMMA WithFrames ==
  ASSUME NEW o, Whole(o), NEW x
  PROVE  LET r == [o EXCEPT !.frames = x]
         IN /\ Whole(r) /\ r.state = o.state /\ r.base = o.base /\ r.parent = o.parent
            /\ r.frames = x
  BY DEF Whole

\* What fiber_resume makes of a fiber.
Restart(f) == [fiber[f] EXCEPT !.state = "running", !.parent = active, !.base = Len(frames)]
Empty(f) == [Restart(f) EXCEPT !.saved = <<>>, !.frames = <<>>]

LEMMA Restarted ==
  ASSUME FiberShape, Len(frames) \in Nat, NEW f \in Fibers
  PROVE  /\ Whole(Restart(f)) /\ Restart(f).frames = fiber[f].frames
         /\ Restart(f).state = "running" /\ Restart(f).parent = active
         /\ Restart(f).base = Len(frames)
  <1> DEFINE b == Len(frames)
             r1 == [fiber[f] EXCEPT !.state = "running"]
             r2 == [r1 EXCEPT !.parent = active]
             r3 == [r2 EXCEPT !.base = b]
  <1>1. Whole(r1) /\ r1.state = "running" /\ r1.frames = fiber[f].frames
    BY WithState DEF FiberShape
  <1> HIDE DEF r1
  <1>2. Whole(r2) /\ r2.state = "running" /\ r2.frames = fiber[f].frames /\ r2.parent = active
    BY <1>1, WithParent DEF FiberShape
  <1> HIDE DEF r2
  <1>3. /\ Whole(r3) /\ r3.state = "running" /\ r3.frames = fiber[f].frames
        /\ r3.parent = active /\ r3.base = b
    BY <1>2, WithBase
  <1>4. QED
    BY <1>3 DEF r1, r2, Restart

LEMMA Emptied ==
  ASSUME FiberShape, Len(frames) \in Nat, NEW f \in Fibers
  PROVE  /\ Whole(Empty(f)) /\ Empty(f).frames = <<>>
         /\ Empty(f).state = "running" /\ Empty(f).parent = active
         /\ Empty(f).base = Len(frames)
  <1> DEFINE r0 == Restart(f)
             r1 == [r0 EXCEPT !.saved = <<>>]
             r2 == [r1 EXCEPT !.frames = <<>>]
  <1>1. /\ Whole(r0) /\ r0.state = "running" /\ r0.parent = active /\ r0.base = Len(frames)
    BY Restarted
  <1> HIDE DEF r0
  <1>2. /\ Whole(r1) /\ r1.state = "running" /\ r1.parent = active /\ r1.base = Len(frames)
    BY <1>1, WithSaved
  <1> HIDE DEF r1
  <1>3. /\ Whole(r2) /\ r2.state = "running" /\ r2.parent = active /\ r2.base = Len(frames)
        /\ r2.frames = <<>>
    BY <1>2, WithFrames
  <1>4. QED
    BY <1>3 DEF r0, r1, Empty

\* Frames come and go above the base of the active fiber.
LEMMA FibersStay ==
  ASSUME FiberInv, UNCHANGED <<active, fiber>>, Len(frames') \in Nat,
         active # NoFiber => fiber[active].base < Len(frames')
  PROVE  Chained'
  <1>1. FiberShape' /\ Linked'
    BY DEF FiberInv, FiberShape, Linked, Runs
  <1>2. \A f \in Fibers : Runs(f) => fiber[f].base < Len(frames')
    <2>1. SUFFICES ASSUME NEW f \in Fibers, Runs(f) PROVE fiber[f].base < Len(frames')
      OBVIOUS
    <2>2. active # NoFiber /\ fiber[f].base <= fiber[active].base /\ active \in Fibers
      BY <2>1, ChainFacts DEF FiberInv, Seated
    <2>3. fiber[f].base \in Nat /\ fiber[active].base \in Nat
      BY <2>2, ChainFacts
    <2>4. QED
      BY <2>2, <2>3
  <1>3. Seated'
    BY <1>2 DEF FiberInv, Seated, Runs
  <1>4. QED
    BY <1>1, <1>3 DEF Chained

\* fiber_resume: a fiber starts on top of all that run.
LEMMA FiberStarts ==
  ASSUME FiberInv, frames # <<>>, NEW f \in Fibers, ~Runs(f),
         NEW r, Whole(r), r.state = "running", r.parent = active, r.base = Len(frames),
         fiber' = [fiber EXCEPT ![f] = r], active' = f,
         Len(frames') \in Nat, Len(frames) < Len(frames')
  PROVE  Chained'
  <1> DEFINE L == Len(frames)
  <1>1. \A g \in Fibers : fiber'[g] = IF g = f THEN r ELSE fiber[g]
    BY DEF FiberInv, FiberShape
  <1>2. /\ L \in Nat /\ L > 0
        /\ \A g \in Fibers : /\ fiber[g].base \in Nat
                             /\ Runs(g) => fiber[g].base > 0 /\ fiber[g].base < L
    BY ChainFacts, RowFacts DEF FiberInv, Stacked
  <1>3. \A g \in Fibers : Runs(g)' <=> g = f \/ Runs(g)
    BY <1>1 DEF Runs
  <1>4. f # NoFiber /\ f # active
    BY NoFiberAssumption DEF FiberInv, Seated
  <1>5. FiberShape'
    BY <1>1 DEF FiberInv, FiberShape
  <1>6. Seated'
    <2>1. \A g \in Fibers : Runs(g)' => /\ fiber'[g].base > 0 /\ fiber'[g].base < Len(frames')
                                        /\ fiber'[g].base <= fiber'[f].base
      BY <1>1, <1>2, <1>3
    <2>2. \A g, h \in Fibers : Runs(g)' /\ Runs(h)' /\ fiber'[g].base = fiber'[h].base => g = h
      <3>1. SUFFICES ASSUME NEW g \in Fibers, NEW h \in Fibers, Runs(g)', Runs(h)',
                            fiber'[g].base = fiber'[h].base
                     PROVE  g = h
        OBVIOUS
      <3>2. CASE g # f /\ h # f
        BY <1>1, <1>3, <3>1, <3>2 DEF FiberInv, Seated
      <3>3. CASE g = f \/ h = f
        <4>1. \A k \in Fibers \ {f} : Runs(k)' => fiber'[k].base < L
          BY <1>1, <1>2, <1>3
        <4>2. fiber'[f].base = L
          BY <1>1
        <4>3. QED
          BY <1>2, <3>1, <3>3, <4>1, <4>2
      <3>4. QED
        BY <3>2, <3>3
    <2>3. Runs(f)'
      BY <1>3
    <2>4. QED
      BY <1>4, <2>1, <2>2, <2>3 DEF Seated
  <1>7. Linked'
    <2>1. SUFFICES ASSUME NEW g \in Fibers, Runs(g)'
                   PROVE  /\ fiber'[g].parent # NoFiber =>
                               /\ Runs(fiber[g].parent)'
                               /\ fiber'[fiber'[g].parent].base < fiber'[g].base
                               /\ \A h \in Fibers : Runs(h)' =>
                                    \/ fiber'[h].base <= fiber'[fiber'[g].parent].base
                                    \/ fiber'[g].base <= fiber'[h].base
                          /\ fiber'[g].parent = NoFiber =>
                               \A h \in Fibers : Runs(h)' => fiber'[g].base <= fiber'[h].base
                          /\ g # f => \E h \in Fibers : Runs(h)' /\ fiber'[h].parent = g
      BY DEF Linked
    <2>2. CASE g = f
      <3>1. fiber'[g].parent = active /\ fiber'[g].base = L
        BY <1>1, <2>2
      <3>2. CASE active # NoFiber
        <4>1. /\ active \in Fibers /\ Runs(active)
              /\ \A h \in Fibers : Runs(h) => fiber[h].base <= fiber[active].base
          BY <3>2, ChainFacts DEF FiberInv, Seated
        <4>2. fiber'[active] = fiber[active] /\ fiber[active].base < L
          BY <1>1, <1>2, <1>4, <4>1
        <4>3. \A h \in Fibers : Runs(h)' => \/ fiber'[h].base <= fiber[active].base
                                            \/ L <= fiber'[h].base
          BY <1>1, <1>2, <1>3, <4>1
        <4>4. fiber'[active].state = "running"
          BY <4>1, <4>2 DEF Runs
        <4>5. QED
          BY <2>2, <3>1, <3>2, <4>2, <4>3, <4>4 DEF Runs
      <3>3. CASE active = NoFiber
        <4>1. \A h \in Fibers : ~Runs(h)
          BY <3>3 DEF FiberInv, Seated
        <4>2. \A h \in Fibers : Runs(h)' => h = f
          BY <1>3, <4>1
        <4>3. QED
          BY <1>2, <2>2, <3>1, <3>3, <4>2
      <3>4. QED
        BY <3>2, <3>3
    <2>3. CASE g # f
      <3>1. fiber'[g] = fiber[g] /\ Runs(g)
        BY <1>1, <1>3, <2>1, <2>3
      <3>2. \A h \in Fibers : Runs(h)' => (Runs(h) /\ fiber'[h] = fiber[h]) \/ fiber[g].base <= fiber'[h].base
        BY <1>1, <1>2, <1>3, <3>1
      <3>3. ASSUME fiber[g].parent # NoFiber
            PROVE  /\ Runs(fiber[g].parent)'
                   /\ fiber'[fiber[g].parent].base < fiber[g].base
                   /\ \A h \in Fibers : Runs(h)' =>
                        \/ fiber'[h].base <= fiber'[fiber[g].parent].base
                        \/ fiber[g].base <= fiber'[h].base
        <4> DEFINE p == fiber[g].parent
        <4>1. /\ p \in Fibers /\ Runs(p) /\ fiber[p].base < fiber[g].base
              /\ \A h \in Fibers : Runs(h) => \/ fiber[h].base <= fiber[p].base
                                              \/ fiber[g].base <= fiber[h].base
          BY <3>1, <3>3, ChainFacts DEF FiberInv, Linked
        <4>2. fiber'[p] = fiber[p]
          BY <1>1, <4>1
        <4>3. fiber'[g].parent = p
          BY <3>1
        <4>4. fiber'[p].state = "running"
          BY <4>1, <4>2 DEF Runs
        <4> HIDE DEF p
        <4>5. Runs(fiber[g].parent)'
          BY <4>3, <4>4 DEF Runs
        <4>6. QED
          BY <3>2, <4>1, <4>2, <4>5 DEF p
      <3>4. ASSUME fiber[g].parent = NoFiber
            PROVE  \A h \in Fibers : Runs(h)' => fiber[g].base <= fiber'[h].base
        BY <3>1, <3>2, <3>4 DEF FiberInv, Linked
      <3>5. \E h \in Fibers : Runs(h)' /\ fiber'[h].parent = g
        <4>1. CASE g = active
          BY <1>1, <1>3, <4>1
        <4>2. CASE g # active
          <5>1. PICK h \in Fibers : Runs(h) /\ fiber[h].parent = g
            BY <3>1, <4>2 DEF FiberInv, Linked
          <5>2. Runs(h)' /\ fiber'[h].parent = g
            BY <1>1, <1>3, <5>1
          <5>3. QED
            BY <5>2
        <4>3. QED
          BY <4>1, <4>2
      <3>6. QED
        BY <3>1, <3>3, <3>4, <3>5
    <2>4. QED
      BY <2>2, <2>3
  <1>8. QED
    BY <1>5, <1>6, <1>7 DEF Chained

\* fiber_yield, and RETURN of the function of a fiber: its resumer, the next
\* fiber below, goes on.
LEMMA FiberStops ==
  ASSUME FiberInv, active # NoFiber,
         NEW r, Whole(r), r.state # "running",
         fiber' = [fiber EXCEPT ![active] = r], active' = fiber[active].parent,
         Len(frames') \in Nat, fiber[active].base <= Len(frames')
  PROVE  Chained'
  <1>1. PICK f \in Fibers : f = active
    BY ChainFacts
  <1>2. /\ \A g \in Fibers : fiber'[g] = IF g = f THEN r ELSE fiber[g]
        /\ Runs(f) /\ \A g \in Fibers : Runs(g) => fiber[g].base <= fiber[f].base
    BY <1>1 DEF FiberInv, FiberShape, Seated
  <1>3. \A g \in Fibers : Runs(g)' <=> g # f /\ Runs(g)
    BY <1>2 DEF Runs
  <1>4. \A g \in Fibers : fiber[g].base \in Nat
    BY ChainFacts
  <1>5. \A g \in Fibers : Runs(g) /\ g # f => fiber[g].base < fiber[f].base
    <2>1. SUFFICES ASSUME NEW g \in Fibers, Runs(g), g # f PROVE fiber[g].base < fiber[f].base
      OBVIOUS
    <2>2. fiber[g].base <= fiber[f].base /\ fiber[g].base # fiber[f].base
      BY <1>2, <2>1 DEF FiberInv, Seated
    <2>3. QED
      BY <1>4, <2>2
  <1>0. PICK p \in Fibers \cup {NoFiber} : p = fiber[f].parent
    BY ChainFacts
  <1>6. p = fiber[f].parent /\ active' = p
    BY <1>0, <1>1
  <1>7. p # NoFiber =>
          /\ Runs(p) /\ p # f
          /\ \A g \in Fibers : Runs(g) /\ g # f => fiber[g].base <= fiber[p].base
    <2>1. SUFFICES ASSUME p # NoFiber
                   PROVE  /\ Runs(p) /\ p # f
                          /\ \A g \in Fibers : Runs(g) /\ g # f => fiber[g].base <= fiber[p].base
      OBVIOUS
    <2>2. /\ p \in Fibers /\ Runs(p) /\ fiber[p].base < fiber[f].base
          /\ \A g \in Fibers : Runs(g) => \/ fiber[g].base <= fiber[p].base
                                          \/ fiber[f].base <= fiber[g].base
      BY <1>2, <1>6, <2>1 DEF FiberInv, Linked
    <2>3. \A g \in Fibers : Runs(g) /\ g # f => ~(fiber[f].base <= fiber[g].base)
      BY <1>4, <1>5
    <2>4. p # f
      BY <1>4, <2>2
    <2>5. QED
      BY <2>2, <2>3, <2>4
  <1>8. p = NoFiber => \A g \in Fibers : Runs(g) => g = f
    <2>1. SUFFICES ASSUME p = NoFiber, NEW g \in Fibers, Runs(g), g # f PROVE FALSE
      OBVIOUS
    <2>2. fiber[f].base <= fiber[g].base
      BY <1>2, <1>6, <2>1 DEF FiberInv, Linked
    <2>3. fiber[g].base < fiber[f].base
      BY <1>5, <2>1
    <2>4. QED
      BY <1>4, <2>1, <2>2, <2>3
  <1>9. FiberShape'
    BY <1>2, <1>6 DEF FiberInv, FiberShape
  <1>10. Seated'
    <2>1. \A g \in Fibers : Runs(g)' => fiber'[g].base > 0 /\ fiber'[g].base < Len(frames')
      <3>1. SUFFICES ASSUME NEW g \in Fibers, Runs(g), g # f
                     PROVE  fiber[g].base > 0 /\ fiber[g].base < Len(frames')
        BY <1>2, <1>3
      <3>2. fiber[g].base < fiber[f].base /\ fiber[f].base <= Len(frames') /\ fiber[g].base > 0
        BY <1>1, <1>5, <3>1, ChainFacts
      <3>3. QED
        BY <1>4, <3>2
    <2>2. \A g, h \in Fibers : Runs(g)' /\ Runs(h)' /\ fiber'[g].base = fiber'[h].base => g = h
      BY <1>2, <1>3 DEF FiberInv, Seated
    <2>3. p # NoFiber => /\ Runs(p)'
                         /\ \A g \in Fibers : Runs(g)' => fiber'[g].base <= fiber'[p].base
      BY <1>2, <1>3, <1>6, <1>7
    <2>4. p = NoFiber => \A g \in Fibers : ~Runs(g)'
      BY <1>3, <1>8
    <2>5. p # NoFiber => /\ Runs(active)'
                         /\ \A g \in Fibers : Runs(g)' => fiber'[g].base <= fiber'[active'].base
      BY <1>6, <2>3 DEF Runs
    <2>6. QED
      BY <1>6, <2>1, <2>2, <2>4, <2>5 DEF Seated
  <1>11. Linked'
    <2>1. SUFFICES ASSUME NEW g \in Fibers, Runs(g)'
                   PROVE  /\ fiber'[g].parent # NoFiber =>
                               /\ Runs(fiber[g].parent)'
                               /\ fiber'[fiber'[g].parent].base < fiber'[g].base
                               /\ \A h \in Fibers : Runs(h)' =>
                                    \/ fiber'[h].base <= fiber'[fiber'[g].parent].base
                                    \/ fiber'[g].base <= fiber'[h].base
                          /\ fiber'[g].parent = NoFiber =>
                               \A h \in Fibers : Runs(h)' => fiber'[g].base <= fiber'[h].base
                          /\ g # p => \E h \in Fibers : Runs(h)' /\ fiber'[h].parent = g
      BY <1>6 DEF Linked
    <2>2. Runs(g) /\ g # f /\ fiber'[g] = fiber[g]
      BY <1>2, <1>3, <2>1
    <2>3. \A h \in Fibers : Runs(h)' => Runs(h) /\ fiber'[h] = fiber[h]
      BY <1>2, <1>3
    <2>4. ASSUME fiber[g].parent # NoFiber
          PROVE  /\ Runs(fiber[g].parent)'
                 /\ fiber'[fiber[g].parent].base < fiber[g].base
                 /\ \A h \in Fibers : Runs(h)' =>
                      \/ fiber'[h].base <= fiber'[fiber[g].parent].base
                      \/ fiber[g].base <= fiber'[h].base
      <3> DEFINE q == fiber[g].parent
      <3>1. /\ q \in Fibers /\ Runs(q) /\ fiber[q].base < fiber[g].base
            /\ \A h \in Fibers : Runs(h) => \/ fiber[h].base <= fiber[q].base
                                            \/ fiber[g].base <= fiber[h].base
        BY <2>2, <2>4, ChainFacts DEF FiberInv, Linked
      <3>2. q # f
        <4>1. fiber[g].base <= fiber[f].base
          BY <1>2, <2>2
        <4>2. QED
          BY <1>1, <1>4, <3>1, <4>1
      <3>3. fiber'[q] = fiber[q]
        BY <1>2, <3>1, <3>2
      <3>4. fiber'[g].parent = q /\ fiber'[q].state = "running"
        BY <2>2, <3>1, <3>3 DEF Runs
      <3> HIDE DEF q
      <3>5. Runs(fiber[g].parent)'
        BY <3>4 DEF Runs
      <3>6. QED
        BY <2>3, <3>1, <3>3, <3>5 DEF q
    <2>5. ASSUME fiber[g].parent = NoFiber
          PROVE  \A h \in Fibers : Runs(h)' => fiber[g].base <= fiber'[h].base
      BY <2>2, <2>3, <2>5 DEF FiberInv, Linked
    <2>6. ASSUME g # p PROVE \E h \in Fibers : Runs(h)' /\ fiber'[h].parent = g
      <3>1. PICK h \in Fibers : Runs(h) /\ fiber[h].parent = g
        BY <1>1, <2>2 DEF FiberInv, Linked
      <3>2. h # f
        BY <1>6, <2>6, <3>1
      <3>3. Runs(h)' /\ fiber'[h].parent = g
        BY <1>2, <1>3, <3>1, <3>2
      <3>4. QED
        BY <3>3
    <2>7. QED
      BY <2>2, <2>4, <2>5, <2>6
  <1>12. QED
    BY <1>9, <1>10, <1>11 DEF Chained

-----------------------------------------------------------------------------
(* Steps *)

\* A step that says nothing to fibers and leaves the active one its frames.
LEMMA FramesMove ==
  ASSUME FiberInv, UNCHANGED <<program, active, fiber>>, Rows(frames'),
         active # NoFiber => fiber[active].base < Len(frames')
  PROVE  FiberInv'
  <1>1. Len(frames') \in Nat
    BY RowFacts
  <1>2. Chained'
    BY <1>1, FibersStay
  <1>3. Stacked'
    BY DEF FiberInv, Stacked
  <1>4. QED
    BY <1>2, <1>3 DEF FiberInv, Chained

\* RETURN and TAIL_CALL of a native drop one frame.
LEMMA PopRows ==
  ASSUME Rows(frames), Running, NEW t, Pop(t)
  PROVE  Rows(frames') /\ Len(frames') = Len(frames) - 1
  <1> DEFINE L == Len(frames)
  <1>1. L \in Nat /\ L > 0
    BY RowFacts DEF Running
  <1>2. CASE L = 1
    <2>1. frames' = <<>>
      BY <1>2 DEF Pop
    <2>2. QED
      BY <1>2, <2>1 DEF Rows
  <1>3. CASE L # 1 /\ Cur.kind = "call"
    <2>1. frames' = Grown(L - 1) /\ L - 1 \in Nat
      BY <1>1, <1>3 DEF Pop
    <2>2. QED
      BY <2>1, GrownRows
  <1>4. CASE L # 1 /\ Cur.kind # "call"
    <2>1. frames' = SubSeq(frames, 1, L - 1)
      BY <1>4 DEF Pop
    <2>2. 1 \in Nat /\ L - 1 \in Nat /\ L - 1 <= L /\ 1 <= (L - 1) + 1 /\ (L - 1) - 1 + 1 = L - 1
      BY <1>1
    <2>3. QED
      BY <2>1, <2>2, CutRows
  <1>5. QED
    BY <1>2, <1>3, <1>4

LEMMA ReturnFiber == ASSUME FiberInv, Return PROVE FiberInv'
  <1> DEFINE L == Len(frames)
  <1>1. /\ Running /\ Rows(frames') /\ Len(frames') = L - 1 /\ UNCHANGED program
        /\ L \in Nat /\ L > 0 /\ Len(frames') \in Nat
    BY PopRows, RowFacts DEF Return, FiberInv, Stacked, Running
  <1>2. active # NoFiber =>
          /\ active \in Fibers /\ fiber[active].base \in Nat
          /\ fiber[active].base > 0 /\ fiber[active].base < L
    BY ChainFacts DEF FiberInv, Seated
  <1>3. CASE active # NoFiber /\ L > 1 /\ L - 1 = fiber[active].base
    <2>1. /\ fiber' = [fiber EXCEPT ![active].state = "done"] /\ active' = fiber[active].parent
      BY <1>3 DEF Return, Resumer
    <2> DEFINE r == [fiber[active] EXCEPT !.state = "done"]
    <2>2. Whole(fiber[active])
      BY <1>2, <1>3 DEF FiberInv, FiberShape
    <2>3. Whole(r) /\ r.state = "done" /\ r.frames = fiber[active].frames
      BY <2>2 DEF Whole
    <2>4. fiber' = [fiber EXCEPT ![active] = r]
      BY <2>1
    <2> HIDE DEF r
    <2>5. Chained'
      <3>1. r.state # "running" /\ fiber[active].base <= Len(frames')
        BY <1>1, <1>2, <1>3, <2>3
      <3>2. QED
        BY <1>1, <1>3, <2>1, <2>3, <2>4, <3>1, FiberStops
    <2>6. \A f \in Fibers : /\ fiber'[f].frames = fiber[f].frames
                            /\ fiber'[f].state \in {fiber[f].state, "done"}
      BY <1>2, <2>3, <2>4 DEF FiberInv, FiberShape
    <2>7. Stacked'
      BY <1>1, <2>6 DEF FiberInv, Stacked
    <2>8. QED
      BY <2>5, <2>7 DEF FiberInv, Chained
  <1>4. CASE ~(active # NoFiber /\ L > 1 /\ L - 1 = fiber[active].base)
    <2>1. UNCHANGED <<active, fiber>>
      BY <1>4 DEF Return
    <2>2. active # NoFiber => fiber[active].base < L - 1
      BY <1>1, <1>2, <1>4
    <2>3. QED
      BY <1>1, <2>1, <2>2, FramesMove
  <1>5. QED
    BY <1>3, <1>4

LEMMA ResumeCreatedFiber ==
  ASSUME FiberInv, NEW f \in Fibers, NEW id, NEW n, ResumeCreated(f, id, n) PROVE FiberInv'
  <1> DEFINE L == Len(frames)
             r == Restart(f)
             x == Frame(id, "call", NextSlot, n, NextSlot + 1 + n)
  <1>1. /\ frames # <<>> /\ fiber[f].state = "created" /\ UNCHANGED program /\ active' = f
        /\ fiber' = [fiber EXCEPT ![f].state = "running", ![f].parent = active, ![f].base = L]
        /\ \E y : frames' = Append(frames, y)
    BY DEF ResumeCreated, MayResume, Running, Push
  <1>2. Rows(frames') /\ Len(frames') = L + 1 /\ L \in Nat
    <2>1. PICK y : frames' = Append(frames, y)
      BY <1>1
    <2>2. QED
      BY <2>1, AppendRows, RowFacts DEF FiberInv, Stacked
  <1>3. Whole(fiber[f]) /\ active \in Fibers \cup {NoFiber}
    BY DEF FiberInv, FiberShape
  <1>4. /\ Whole(r) /\ r.state = "running" /\ r.parent = active /\ r.base = L
        /\ r.frames = fiber[f].frames
    BY <1>2, Restarted DEF FiberInv
  <1>5. fiber' = [fiber EXCEPT ![f] = r]
    BY <1>1 DEF Restart
  <1>6. ~Runs(f)
    BY <1>1 DEF Runs
  <1> HIDE DEF r
  <1>7. Len(frames') \in Nat /\ L < Len(frames')
    BY <1>2
  <1>8. Chained'
    BY <1>1, <1>4, <1>5, <1>6, <1>7, FiberStarts
  <1>9. \A g \in Fibers : /\ fiber'[g].frames = fiber[g].frames
                          /\ fiber'[g].state \in {fiber[g].state, "running"}
    BY <1>4, <1>5 DEF FiberInv, FiberShape
  <1>10. Stacked'
    BY <1>1, <1>2, <1>9 DEF FiberInv, Stacked
  <1>11. QED
    BY <1>8, <1>10 DEF FiberInv, Chained

LEMMA ResumeSuspendedFiber ==
  ASSUME FiberInv, NEW f \in Fibers, ResumeSuspended(f) PROVE FiberInv'
  <1> DEFINE L == Len(frames)
             old == fiber[f].frames
             moved == [i \in DOMAIN old |-> Moved(old[i], NextSlot)]
             r == Empty(f)
  <1>1. /\ frames # <<>> /\ fiber[f].state = "suspended" /\ UNCHANGED program /\ active' = f
        /\ fiber' = [fiber EXCEPT ![f].state = "running", ![f].parent = active, ![f].base = L,
                                  ![f].saved = <<>>, ![f].frames = <<>>]
        /\ frames' = frames \o moved
    BY DEF ResumeSuspended, MayResume, Running
  <1>2. /\ Rows(old) /\ Len(old) \in Nat /\ Len(old) > 0 /\ DOMAIN old = 1..Len(old)
        /\ Rows(frames) /\ L \in Nat
    BY <1>1, RowFacts DEF FiberInv, Stacked
  <1>3. Rows(moved) /\ Len(moved) = Len(old)
    <2>1. moved = [i \in 1..Len(old) |-> moved[i]]
      BY <1>2
    <2> HIDE DEF moved
    <2>2. QED
      BY <1>2, <2>1, TableRows
  <1> HIDE DEF moved
  <1>4. Rows(frames') /\ Len(frames') \in Nat /\ L < Len(frames')
    <2>1. Rows(frames') /\ Len(frames') = L + Len(moved)
      BY <1>1, <1>2, <1>3, JoinRows
    <2>2. QED
      BY <1>2, <1>3, <2>1
  <1>5. Whole(fiber[f]) /\ active \in Fibers \cup {NoFiber}
    BY DEF FiberInv, FiberShape
  <1>6. /\ Whole(r) /\ r.state = "running" /\ r.parent = active /\ r.base = L
        /\ r.frames = <<>>
    BY <1>2, Emptied DEF FiberInv
  <1>7. fiber' = [fiber EXCEPT ![f] = r]
    BY <1>1 DEF Restart, Empty
  <1>8. ~Runs(f)
    BY <1>1 DEF Runs
  <1> HIDE DEF r
  <1>9. Chained'
    BY <1>1, <1>4, <1>6, <1>7, <1>8, FiberStarts
  <1>10. \A g \in Fibers : fiber'[g] = IF g = f THEN r ELSE fiber[g]
    BY <1>7 DEF FiberInv, FiberShape
  <1>11. Rows(<<>>)
    BY DEF Rows
  <1>12. Stacked'
    BY <1>1, <1>4, <1>6, <1>10, <1>11 DEF FiberInv, Stacked
  <1>13. QED
    BY <1>9, <1>12 DEF FiberInv, Chained

LEMMA YieldFiber == ASSUME FiberInv, Yield PROVE FiberInv'
  <1> DEFINE L == Len(frames)
             b == fiber[active].base
             entry == frames[b + 1]
             start == entry.callee
             called == Assign(stack, L)
             mine == SubSeq(Grown(L), b + 1, L)
             kept == [i \in DOMAIN mine |-> [mine[i] EXCEPT !.callee = @ - start]]
             r == [state |-> "suspended", base |-> b, parent |-> NoFiber,
                   saved |-> [k \in 1..(IF top > start THEN top - start ELSE 0)
                                |-> called[start + k - 1]],
                   frames |-> kept]
  <1>1. /\ active # NoFiber /\ L > b /\ UNCHANGED program
        /\ fiber' = [fiber EXCEPT ![active] = r] /\ active' = fiber[active].parent
        /\ frames' = Grown(b)
    BY DEF Yield, Resumer
  <1>2. /\ active \in Fibers /\ b \in Nat /\ L \in Nat
    BY <1>1, ChainFacts
  <1>3. Rows(frames') /\ Len(frames') = b
    BY <1>1, <1>2, GrownRows
  <1>4. Rows(kept) /\ kept # <<>>
    <2>1. Rows(Grown(L)) /\ Len(Grown(L)) = L
      BY <1>2, GrownRows
    <2>2. b + 1 \in Nat /\ b + 1 >= 1 /\ L <= L /\ b + 1 <= L + 1 /\ L - (b + 1) + 1 = L - b
          /\ L - b \in Nat /\ L - b > 0
      BY <1>1, <1>2
    <2>3. DOMAIN mine = 1..L - b
      BY <1>2, <2>1, <2>2, CutRows
    <2>4. kept = [i \in 1..L - b |-> kept[i]]
      BY <2>3
    <2> HIDE DEF kept
    <2>5. Rows(kept) /\ Len(kept) = L - b
      BY <2>2, <2>4, TableRows
    <2>6. QED
      BY <2>2, <2>5, RowFacts
  <1> HIDE DEF kept, called
  <1>5. /\ Whole(r) /\ r.state = "suspended" /\ r.frames = kept
    BY <1>2 DEF Whole
  <1> HIDE DEF r
  <1>6. Chained'
    <2>1. r.state # "running" /\ Len(frames') \in Nat /\ b <= Len(frames')
      BY <1>2, <1>3, <1>5
    <2>2. QED
      BY <1>1, <1>5, <2>1, FiberStops
  <1>7. \A g \in Fibers : fiber'[g] = IF g = active THEN r ELSE fiber[g]
    BY <1>1 DEF FiberInv, FiberShape
  <1>8. Stacked'
    BY <1>1, <1>3, <1>4, <1>5, <1>7 DEF FiberInv, Stacked
  <1>9. QED
    BY <1>6, <1>8 DEF FiberInv, Chained

LEMMA NextFiberInv == ASSUME NoTailsInFibers, FiberInv, [Next]_vars PROVE FiberInv'
  <1> DEFINE L == Len(frames)
  <1>1. /\ Rows(frames) /\ L \in Nat
        /\ active # NoFiber => active \in Fibers /\ fiber[active].base < L /\ fiber[active].base \in Nat
    BY ChainFacts DEF FiberInv, Stacked, Seated
  <1>2. ASSUME Allocate \/ CallNative \/ \E f \in Fibers : ResumeRunning(f) PROVE FiberInv'
    <2>1. frames' = Grown(L) /\ UNCHANGED <<program, active, fiber>>
      BY <1>2 DEF Allocate, CallNative, ResumeRunning
    <2>2. Rows(frames') /\ Len(frames') = L
      BY <1>1, <2>1, GrownRows
    <2>3. QED
      BY <1>1, <2>1, <2>2, FramesMove
  <1>3. ASSUME Free PROVE FiberInv'
    <2>1. frames' = [frames EXCEPT ![L].live = @ - 1] /\ UNCHANGED <<program, active, fiber>>
      BY <1>3 DEF Free
    <2>2. frames' = [frames EXCEPT ![L] = [frames[L] EXCEPT !.live = @ - 1]]
      BY <2>1
    <2>3. Rows(frames') /\ Len(frames') = L
      BY <1>1, <2>2, UpdateRows
    <2>4. QED
      BY <1>1, <2>1, <2>3, FramesMove
  <1>4. ASSUME NEW id \in Activations, NEW n \in 0..MaxArgs, TailCall(id, n) PROVE FiberInv'
    <2> DEFINE s == [frames EXCEPT ![L] = [frames[L] EXCEPT !.id = id]]
    <2>1. /\ frames' = [s EXCEPT ![L] = [s[L] EXCEPT !.live = n]]
          /\ UNCHANGED <<program, active, fiber>>
      BY <1>4 DEF TailCall
    <2>2. Rows(s) /\ Len(s) = L
      BY <1>1, UpdateRows
    <2> HIDE DEF s
    <2>3. Rows(frames') /\ Len(frames') = L
      BY <2>1, <2>2, UpdateRows
    <2>4. QED
      BY <1>1, <2>1, <2>3, FramesMove
  <1>5. ASSUME NEW id \in Activations,
               \/ Interpret(id) \/ RunEffect(id)
               \/ \E n \in 0..MaxArgs : Call(id, n)
        PROVE  FiberInv'
    <2>1. (\E y : frames' = Append(frames, y)) /\ UNCHANGED <<program, active, fiber>>
      BY <1>5 DEF Interpret, RunEffect, Call, Push
    <2>2. Rows(frames') /\ Len(frames') = L + 1
      <3>1. PICK y : frames' = Append(frames, y)
        BY <2>1
      <3>2. QED
        BY <1>1, <3>1, AppendRows
    <2>3. active # NoFiber => fiber[active].base < Len(frames')
      BY <1>1, <2>2
    <2>4. QED
      BY <2>1, <2>2, <2>3, FramesMove
  <1>6. ASSUME TailNative PROVE FiberInv'
    <2>1. /\ Running /\ Pop(Cur.callee + 1) /\ UNCHANGED <<program, active, fiber>>
          /\ "native tails" \in program /\ CallsNatives
      BY <1>6 DEF TailNative
    <2>2. active = NoFiber
      BY <2>1 DEF CallsNatives, NoTailsInFibers, FiberInv, Stacked
    <2>3. Rows(frames')
      BY <1>1, <2>1, PopRows
    <2>4. QED
      BY <2>1, <2>2, <2>3, FramesMove
  <1>7. ASSUME UNCHANGED vars PROVE FiberInv'
    BY <1>1, <1>7, FramesMove DEF vars
  <1>8. QED
    BY <1>2, <1>3, <1>4, <1>5, <1>6, <1>7, ReturnFiber, YieldFiber, ResumeCreatedFiber,
       ResumeSuspendedFiber
    DEF Next

LEMMA InitFiberInv == Init => FiberInv
  <1> SUFFICES ASSUME Init PROVE FiberInv
    OBVIOUS
  <1>1. Rows(<<>>)
    BY DEF Rows
  <1>2. Stacked
    BY <1>1 DEF Init, Stacked, Dormant
  <1>3. FiberShape
    BY DEF Init, FiberShape, Whole, Dormant
  <1>4. \A f \in Fibers : ~Runs(f)
    BY DEF Init, Runs, Dormant
  <1>5. Seated /\ Linked
    BY <1>4 DEF Init, Seated, Linked
  <1>6. QED
    BY <1>2, <1>3, <1>5 DEF FiberInv

\* The invariant holds in every reachable state.
THEOREM FiberInvariant == ASSUME NoTailsInFibers PROVE Spec => []FiberInv
  <1>1. FiberInv /\ [Next]_vars => FiberInv'
    BY NextFiberInv
  <1>2. QED
    BY <1>1, InitFiberInv, PTL DEF Spec

\* fiber_resume, fiber_yield and RETURN keep parent_fiber and base_frame of the
\* running fibers a chain: whichever fibers resume which, a yield or a return
\* gets back to the resumer, and a fiber that runs has its frames on the stack.
THEOREM ChainOfResumers == ASSUME NoTailsInFibers PROVE Spec => []FiberChain
  <1>1. FiberInv => FiberChain
    BY DEF FiberInv, Seated, Linked, FiberChain, ReturnedIsDone, Runs
  <1>2. QED
    BY <1>1, FiberInvariant, PTL
=============================================================================
