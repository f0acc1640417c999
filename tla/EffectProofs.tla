----------------------------- MODULE EffectProofs -----------------------------
(***************************************************************************)
(* The runs of effects in Reactive: no body is entered twice, an effect at  *)
(* rest has seen every write, and what a program with one effect may rely   *)
(* on, for any numbers of signals, instructions and reruns.                 *)
(***************************************************************************)
EXTENDS ReactiveProofs

FrameType == [owner : Effects \cup {NoEffect}, fuel : Nat, entry : BOOLEAN]

\* A program that runs has a frame, and the try block is in one of them.
FramesFit == /\ running => frames # <<>>
             /\ catcher <= Len(frames)

\* An effect whose body is on the stack is Running; the body of the current
\* effect is at the depth where it was entered.
Bodies ==
  /\ \A e \in Effects : BodyFrames(e) # {} => state[e] = "Running"
  /\ current # NoEffect =>
       /\ state[current] = "Running"
       /\ BodyFrames(current) \subseteq {depth}

EffectInv == Inv /\ TypeOK /\ FramesFit /\ Bodies /\ NoReentry

\* The signals that the current effect has read are those it is subscribed to,
\* and unless it is dirty it has seen their last writes.
Attended ==
  current # NoEffect =>
    /\ read[current] \subseteq deps[current]
    /\ ~dirty[current] => stale[current] \cap deps[current] \subseteq hosted

\* No generation is ahead of write_generation_, and what is stale was read.
Generations == \A e \in Effects : lastGen[e] <= writeGen
Written == \A e \in Effects : stale[e] \subseteq read[e]

Fresh == Attended /\ Generations /\ Written /\ RestingIsFresh
FreshInv == EffectInv /\ Fresh

\* write_generation_ has not come to its last value, 2^32 - 1.
NoWrap == writeGen < GenMod - 1

\* Programs with one effect that end without an error, throw nothing and
\* return no native's result directly.
Plain ==
  /\ \A e, d \in Effects : e = d
  /\ ~Throwing /\ ~NativeTails /\ ~Failing

\* The stack of such a program: its own frames, and above them, from depth on,
\* those of the effect while it runs.
Layers ==
  /\ catcher = 0
  /\ running <=> frames # <<>>
  /\ frames = <<>> => queue = <<>>
  /\ current = NoEffect => \A i \in DOMAIN frames : frames[i].owner = NoEffect
  /\ current # NoEffect =>
       /\ depth \in 2..Len(frames)
       /\ \A i \in DOMAIN frames : frames[i].owner = IF i < depth THEN NoEffect ELSE current
  /\ \A e \in Effects : state[e] = "Running" => current = e

\* An effect at rest is subscribed to whatever it has read.
Tracked ==
  /\ \A e \in Effects : state[e] = "Idle" => read[e] \subseteq deps[e]
  /\ ~HostWriting => hosted = {}

PlainInv == EffectInv /\ Layers
TrackedInv == FreshInv /\ Layers /\ Tracked

-----------------------------------------------------------------------------
(* Frames *)

\* The frames as they are, or after the one on top has executed an instruction.
Like(stack) ==
  /\ stack \in Seq(FrameType) /\ Len(stack) = Len(frames)
  /\ \A i \in 1..Len(frames) :
       stack[i].owner = frames[i].owner /\ stack[i].entry = frames[i].entry

LEMMA FrameFacts ==
  ASSUME TypeOK
  PROVE  /\ frames \in Seq(FrameType) /\ Len(frames) \in Nat /\ DOMAIN frames = 1..Len(frames)
         /\ frames # <<>> => Len(frames) \in 1..Len(frames)
         /\ Like(frames)
  <1>1. frames \in Seq(FrameType)
    BY DEF TypeOK, FrameType
  <1>2. QED
    BY <1>1 DEF Like

LEMMA SpentFrames ==
  ASSUME TypeOK, frames # <<>>, Top.fuel > 0
  PROVE  /\ Like(Spent)
         /\ Top.owner \in Effects \cup {NoEffect} /\ Top.fuel - 1 \in Nat
  <1> DEFINE n == Len(frames)
  <1>1. frames \in Seq(FrameType) /\ n \in 1..n /\ DOMAIN frames = 1..n
    BY FrameFacts
  <1>2. frames[n] \in FrameType
    BY <1>1
  <1>3. /\ frames[n].owner \in Effects \cup {NoEffect} /\ frames[n].entry \in BOOLEAN
        /\ frames[n].fuel - 1 \in Nat
    BY <1>2 DEF FrameType, Top
  <1> DEFINE f == [frames[n] EXCEPT !.fuel = @ - 1]
  <1>4. f \in FrameType /\ f.owner = frames[n].owner /\ f.entry = frames[n].entry
    BY <1>2, <1>3 DEF FrameType
  <1>5. Spent = [frames EXCEPT ![n] = f]
    BY DEF Spent
  <1>6. QED
    BY <1>1, <1>3, <1>4, <1>5 DEF Like, Top

LEMMA Pushed ==
  ASSUME NEW stack, Like(stack), NEW f \in FrameType, frames' = Append(stack, f)
  PROVE  /\ frames' \in Seq(FrameType) /\ Len(frames') = Len(frames) + 1
         /\ \A i \in 1..Len(frames) : /\ frames'[i].owner = frames[i].owner
                                      /\ frames'[i].entry = frames[i].entry
         /\ frames'[Len(frames) + 1] = f
         /\ \A e \in Effects : BodyFrames(e)' =
              BodyFrames(e) \cup {i \in {Len(frames) + 1} : f.owner = e /\ f.entry}
  <1> DEFINE n == Len(frames)
  <1>1. n \in Nat /\ Len(stack) = n
    BY DEF Like
  <1>2. /\ frames' \in Seq(FrameType) /\ Len(frames') = n + 1 /\ frames'[n + 1] = f
        /\ \A i \in 1..n : frames'[i] = stack[i]
    BY <1>1 DEF Like
  <1>3. \A i \in 1..n : frames'[i].owner = frames[i].owner /\ frames'[i].entry = frames[i].entry
    BY <1>2 DEF Like
  <1>4. 1..n + 1 = 1..n \cup {n + 1}
    BY <1>1
  <1>5. QED
    BY <1>2, <1>3, <1>4 DEF BodyFrames

LEMMA Cut ==
  ASSUME NEW stack, Like(stack), NEW k \in 0..Len(frames), frames' = SubSeq(stack, 1, k)
  PROVE  /\ frames' \in Seq(FrameType) /\ Len(frames') = k
         /\ \A i \in 1..k : i \in 1..Len(frames) /\ frames'[i].owner = frames[i].owner
         /\ \A e \in Effects : BodyFrames(e)' = {i \in BodyFrames(e) : i <= k}
  <1> DEFINE n == Len(frames)
  <1>1. n \in Nat /\ Len(stack) = n /\ stack \in Seq(FrameType)
    BY DEF Like
  <1>2. /\ frames' \in Seq(FrameType) /\ Len(frames') = k
        /\ \A i \in 1..k : i \in 1..n /\ frames'[i] = stack[i]
    BY <1>1
  <1>3. \A i \in 1..k : frames'[i].owner = frames[i].owner /\ frames'[i].entry = frames[i].entry
    BY <1>2 DEF Like
  <1>4. \A i : i \in 1..k <=> i \in 1..n /\ i <= k
    BY <1>1
  <1>5. QED
    BY <1>2, <1>3, <1>4 DEF BodyFrames

LEMMA Kept ==
  ASSUME NEW stack, Like(stack), frames' = stack
  PROVE  /\ frames' \in Seq(FrameType) /\ Len(frames') = Len(frames)
         /\ \A i \in 1..Len(frames) : frames'[i].owner = frames[i].owner
         /\ \A e \in Effects : BodyFrames(e)' = BodyFrames(e)
  BY DEF Like, BodyFrames

-----------------------------------------------------------------------------
(* Types *)

\* What an instruction finds.
LEMMA ExecuteFacts ==
  ASSUME EffectInv, Execute
  PROVE  /\ frames # <<>> /\ Len(frames) \in Nat \ {0} /\ Like(Spent)
         /\ Top.owner \in Effects \cup {NoEffect} /\ Top.fuel - 1 \in Nat
         /\ queue = <<>>
  <1>1. frames # <<>> /\ Top.fuel > 0 /\ queue = <<>>
    BY DEF Execute, Fetch, EffectInv, FramesFit
  <1>2. QED
    BY <1>1, FrameFacts, SpentFrames DEF EffectInv

LEMMA FrameTyped ==
  ASSUME NEW owner \in Effects \cup {NoEffect}, NEW fuel \in Nat, NEW entry \in BOOLEAN
  PROVE  /\ Frame(owner, fuel, entry) \in FrameType
         /\ Frame(owner, fuel, entry).owner = owner
         /\ Frame(owner, fuel, entry).entry = entry
  BY DEF Frame, FrameType

\* The variables of TypeOK beside the frames and those of Inv.
Rest ==
  /\ running \in BOOLEAN /\ programs \in Seq(Nat) /\ depth \in Nat
  /\ writeGen \in 0..GenMod - 1
  /\ dirty \in [Effects -> BOOLEAN]
  /\ reruns \in [Effects -> 0..MaxReruns]
  /\ lastGen \in [Effects -> 0..GenMod - 1]
  /\ read \in [Effects -> SUBSET Signals]
  /\ stale \in [Effects -> SUBSET Signals]
  /\ hosted \subseteq Signals /\ gaveUp \subseteq Effects

LEMMA TypeSplit ==
  TypeOK <=> Shapes /\ Rest /\ frames \in Seq(FrameType) /\ catcher \in Nat
  BY DEF TypeOK, Shapes, Rest, FrameType

LEMMA EnterRest ==
  ASSUME EffectInv, NEW e \in Effects, NEW stack, Like(stack), Enter(e, stack),
         UNCHANGED <<catcher, running, programs, writeGen, dirty, reruns, lastGen, hosted>>
  PROVE  Rest' /\ frames' \in Seq(FrameType) /\ catcher' \in Nat /\ FramesFit'
  <1>1. Rest /\ catcher \in Nat /\ FramesFit
    BY TypeSplit DEF EffectInv
  <1>2. Frame(e, BodyFuel, TRUE) \in FrameType
    BY BoundsAssumption, FrameTyped
  <1>3. Len(frames) \in Nat
    BY FrameFacts DEF EffectInv
  <1>4. frames' \in Seq(FrameType) /\ Len(frames') = Len(frames) + 1
    BY <1>2, Pushed DEF Enter
  <1>5. FramesFit'
    BY <1>1, <1>3, <1>4 DEF FramesFit
  <1>6. Len(stack) \in Nat
    BY <1>3 DEF Like
  <1>7. Rest'
    BY <1>1, <1>6 DEF Rest, Enter
  <1>8. QED
    BY <1>1, <1>4, <1>5, <1>7

LEMMA Fit ==
  ASSUME frames' \in Seq(FrameType), catcher' \in Nat,
         NEW m \in Nat, Len(frames') = m, catcher' <= m, running' => m > 0
  PROVE  FramesFit'
  <1>1. m > 0 => frames' # <<>>
    OBVIOUS
  <1>2. QED
    BY <1>1 DEF FramesFit

LEMMA StepTypes ==
  ASSUME EffectInv, Next
  PROVE  Rest' /\ frames' \in Seq(FrameType) /\ catcher' \in Nat /\ FramesFit'
  <1> DEFINE n == Len(frames)
             Goal == Rest' /\ frames' \in Seq(FrameType) /\ catcher' \in Nat /\ FramesFit'
  <1>1. /\ Rest /\ catcher \in Nat /\ FramesFit /\ Shapes
        /\ n \in Nat /\ Like(frames) /\ frames \in Seq(FrameType)
    BY TypeSplit, FrameFacts DEF EffectInv
  <1>a. catcher <= n /\ (running => n > 0)
    BY <1>1 DEF FramesFit
  <1>2. CASE Interpret
    <2>1. /\ programs \in Seq(Nat) /\ programs # <<>>
          /\ programs' = Tail(programs) /\ running' = TRUE
          /\ frames' = Append(frames, Frame(NoEffect, Head(programs), FALSE))
      BY <1>1, <1>2 DEF Interpret, Rest
    <2>2. Head(programs) \in Nat /\ programs' \in Seq(Nat)
      BY <2>1
    <2>3. frames' \in Seq(FrameType) /\ Len(frames') = n + 1
      BY <1>1, <2>1, <2>2, FrameTyped, Pushed
    <2>4. FramesFit' /\ catcher' \in Nat
      BY <1>1, <1>a, <1>2, <2>3, Fit DEF Interpret
    <2>5. Rest'
      BY <1>1, <1>2, <2>1, <2>2 DEF Rest, Interpret, effectVars, history
    <2>6. QED
      BY <2>3, <2>4, <2>5
  <1>3. CASE Call
    <2>1. /\ Execute /\ frames' = Append(Spent, Frame(Top.owner, Top.fuel - 1, FALSE))
          /\ UNCHANGED <<catcher, running, programs, current, depth, writeGen, effectVars, history>>
      BY <1>3 DEF Call
    <2>2. frames' \in Seq(FrameType) /\ Len(frames') = n + 1
      BY <2>1, ExecuteFacts, FrameTyped, Pushed
    <2>3. FramesFit' /\ catcher' \in Nat
      BY <1>1, <1>a, <2>1, <2>2, Fit
    <2>4. Rest'
      BY <1>1, <2>1 DEF Rest, effectVars, history
    <2>5. QED
      BY <2>2, <2>3, <2>4
  <1>4. ASSUME NEW e \in Effects, EffectRun(e) PROVE Goal
    <2>1. Like(Spent) /\ Enter(e, Spent)
      BY <1>4, ExecuteFacts DEF EffectRun
    <2>2. UNCHANGED <<catcher, running, programs, writeGen, dirty, reruns, lastGen, hosted>>
      BY <1>4 DEF EffectRun
    <2>3. QED
      BY <2>1, <2>2, EnterRest
  <1>5. CASE Drain
    <2>1. queue \in Seq(Effects) /\ queue # <<>> /\ Enter(Head(queue), frames)
      BY <1>1, <1>5 DEF Drain, Shapes
    <2>2. Head(queue) \in Effects
      BY <2>1
    <2>3. UNCHANGED <<catcher, running, programs, writeGen, dirty, reruns, lastGen, hosted>>
      BY <1>5 DEF Drain
    <2>4. QED
      BY <1>1, <2>1, <2>2, <2>3, EnterRest
  <1>6. ASSUME NEW s \in Signals, SignalGet(s) \/ SignalSet(s) \/ HostSet(s) PROVE Goal
    <2>1. /\ Execute /\ frames' = Spent /\ UNCHANGED <<catcher, running, programs, depth, gaveUp>>
      BY <1>6 DEF SignalGet, SignalSet, HostSet
    <2>2. frames' \in Seq(FrameType) /\ Len(frames') = n
      BY <2>1, ExecuteFacts, Kept
    <2>3. frames' # <<>>
      BY <2>1, <2>2, ExecuteFacts
    <2>4. FramesFit' /\ catcher' \in Nat
      BY <1>1, <2>1, <2>2, <2>3 DEF FramesFit
    <2>5. CASE SignalGet(s)
      <3>1. read' \in [Effects -> SUBSET Signals] /\ stale' \in [Effects -> SUBSET Signals]
        <4> DEFINE o == Top.owner
        <4>1. /\ read \in [Effects -> SUBSET Signals] /\ stale \in [Effects -> SUBSET Signals]
              /\ o \in Effects \cup {NoEffect}
          BY <1>1, <2>1, ExecuteFacts DEF Rest
        <4>2. CASE o # NoEffect
          <5>1. /\ read' = [read EXCEPT ![o] = @ \cup {s}]
                /\ stale' = [stale EXCEPT ![o] = @ \ {s}]
            BY <2>5, <4>2 DEF SignalGet
          <5>2. o \in Effects
            BY <4>1, <4>2
          <5> HIDE DEF o
          <5>3. QED
            BY <4>1, <5>1, <5>2
        <4>3. CASE o = NoEffect
          <5>1. UNCHANGED <<read, stale>>
            BY <2>5, <4>3 DEF SignalGet
          <5>2. QED
            BY <4>1, <5>1
        <4>4. QED
          BY <4>2, <4>3
      <3>2. QED
        BY <1>1, <2>1, <2>2, <2>4, <2>5, <3>1 DEF SignalGet, Rest, effectVars
    <2>6. CASE SignalSet(s)
      <3>1. NextGen \in 0..GenMod - 1
        BY <1>1, BoundsAssumption DEF NextGen, Rest
      <3>2. stale' \in [Effects -> SUBSET Signals]
        BY <1>1, <2>6 DEF SignalSet, Outdate, Rest
      <3>3. /\ dirty' \in [Effects -> BOOLEAN] /\ reruns' \in [Effects -> 0..MaxReruns]
            /\ lastGen' \in [Effects -> 0..GenMod - 1]
        BY <1>1, <2>6, <3>1, BoundsAssumption DEF SignalSet, Rest
      <3>4. QED
        BY <1>1, <2>1, <2>2, <2>4, <2>6, <3>1, <3>2, <3>3 DEF SignalSet, Rest
    <2>7. CASE HostSet(s)
      <3>1. stale' \in [Effects -> SUBSET Signals]
        BY <1>1, <2>7 DEF HostSet, Outdate, Rest
      <3>2. QED
        BY <1>1, <2>1, <2>2, <2>4, <2>7, <3>1 DEF HostSet, Rest, effectVars
    <2>8. QED
      BY <1>6, <2>5, <2>6, <2>7
  <1>7. CASE Return \/ TailNative
    <2>1. /\ queue = <<>> /\ running /\ frames' = SubSeq(frames, 1, n - 1)
          /\ catcher # n /\ running' = (n > 1) /\ UNCHANGED <<catcher, programs>>
          /\ UNCHANGED <<depth, writeGen, read, stale, hosted>>
      BY <1>7 DEF Return, TailNative, Leave, Fetch, Front, history
    <2>2. n - 1 \in 0..n
      BY <1>1, <2>1 DEF FramesFit
    <2>3. frames' \in Seq(FrameType) /\ Len(frames') = n - 1
      BY <1>1, <2>1, <2>2, Cut
    <2>4. FramesFit' /\ catcher' \in Nat
      <3>a. n > 0 /\ (running' => n > 1)
        BY <1>a, <2>1
      <3>b. catcher \in Nat /\ n \in Nat /\ catcher <= n /\ catcher # n
        BY <1>1, <1>a, <2>1
      <3>1. catcher <= n - 1 /\ (running' => n - 1 > 0) /\ n - 1 \in Nat
        BY <3>a, <3>b
      <3>2. QED
        BY <1>1, <2>1, <2>3, <3>1, Fit
    <2>5. /\ dirty' \in [Effects -> BOOLEAN] /\ reruns' \in [Effects -> 0..MaxReruns]
          /\ lastGen' \in [Effects -> 0..GenMod - 1] /\ gaveUp' \subseteq Effects
      <3>1. CASE Return /\ EndsEffect
        <4>1. Finish /\ current \in Effects
          BY <1>1, <3>1 DEF Return, EndsEffect, Shapes
        <4>2. Again(current) => RerunCount(current) \in 0..MaxReruns
          BY <1>1, <4>1, BoundsAssumption DEF Again, RerunCount, Rest
        <4>3. QED
          BY <1>1, <4>1, <4>2, BoundsAssumption DEF Finish, Rest
      <3>2. CASE ~(Return /\ EndsEffect)
        <4>1. UNCHANGED <<dirty, reruns, lastGen, gaveUp>>
          BY <1>7, <3>2 DEF Return, TailNative, effectVars, history
        <4>2. QED
          BY <1>1, <4>1 DEF Rest
      <3>3. QED
        BY <3>1, <3>2
    <2>6. Rest'
      BY <1>1, <2>1, <2>5 DEF Rest
    <2>7. QED
      BY <2>3, <2>4, <2>6
  <1>8. CASE TryBegin \/ TryEnd
    <2>1. UNCHANGED <<running, programs, current, depth, writeGen, effectVars, history>>
      BY <1>8 DEF TryBegin, TryEnd
    <2>2. Rest'
      BY <1>1, <2>1 DEF Rest, effectVars, history
    <2>3. CASE TryBegin
      <3>1. Execute /\ frames' = Spent /\ catcher' = n
        BY <2>3 DEF TryBegin
      <3>2. frames' \in Seq(FrameType) /\ Len(frames') = n /\ frames # <<>>
        BY <3>1, ExecuteFacts, Kept
      <3>3. QED
        BY <1>1, <2>1, <2>2, <3>1, <3>2 DEF FramesFit
    <2>4. CASE TryEnd
      BY <1>1, <2>1, <2>2, <2>4 DEF TryEnd, FramesFit
    <2>5. QED
      BY <1>8, <2>3, <2>4
  <1>9. CASE Throw
    <2>1. /\ Execute /\ catcher > 0 /\ frames' = SubSeq(Spent, 1, catcher) /\ catcher' = 0
          /\ UNCHANGED <<running, programs, current, depth, writeGen, effectVars, history>>
      BY <1>9 DEF Throw
    <2>2. Rest'
      BY <1>1, <2>1 DEF Rest, effectVars, history
    <2>3. catcher \in 0..n
      BY <1>1 DEF FramesFit
    <2>4. frames' \in Seq(FrameType) /\ Len(frames') = catcher
      BY <2>1, <2>3, ExecuteFacts, Cut
    <2>5. QED
      BY <1>1, <2>1, <2>2, <2>4, Fit
  <1>10. CASE Fail
    <2>1. /\ Execute /\ frames' = Spent /\ running' = FALSE
          /\ UNCHANGED <<catcher, programs, current, depth, writeGen, effectVars, history>>
      BY <1>10 DEF Fail
    <2>2. frames' \in Seq(FrameType) /\ Len(frames') = n
      BY <2>1, ExecuteFacts, Kept
    <2>3. QED
      BY <1>1, <2>1, <2>2 DEF FramesFit, Rest, effectVars, history
  <1>11. CASE Done
    BY <1>1, <1>11 DEF Done, vars, frameVars, effectVars, history, FramesFit, Rest
  <1>12. QED
    BY <1>2, <1>3, <1>4, <1>5, <1>6, <1>7, <1>8, <1>9, <1>10, <1>11 DEF Next, Step

-----------------------------------------------------------------------------
(* Bodies *)

\* A step that leaves frames alone or drops some of them.
LEMMA FewerBodies ==
  ASSUME EffectInv, depth' = depth, current' \in {current, NoEffect},
         \A e \in Effects : BodyFrames(e)' \subseteq BodyFrames(e),
         \A e \in Effects : BodyFrames(e)' # {} /\ state[e] = "Running" => state'[e] = "Running",
         current' # NoEffect => state'[current] = "Running"
  PROVE  (Bodies /\ NoReentry)'
  <1>1. \A e \in Effects : BodyFrames(e)' # {} => state'[e] = "Running"
    BY DEF EffectInv, Bodies
  <1>2. current' # NoEffect =>
           /\ state'[current'] = "Running"
           /\ BodyFrames(current)' \subseteq {depth'}
    <2>1. SUFFICES ASSUME current' # NoEffect
                   PROVE  state'[current'] = "Running" /\ BodyFrames(current)' \subseteq {depth'}
      OBVIOUS
    <2>2. current' = current /\ current \in Effects
      BY <2>1 DEF EffectInv, Inv, Shapes
    <2>3. BodyFrames(current) \subseteq {depth} /\ BodyFrames(current)' \subseteq BodyFrames(current)
      BY <2>1, <2>2 DEF EffectInv, Bodies
    <2>4. QED
      BY <2>1, <2>2, <2>3
  <1>3. NoReentry'
    BY DEF EffectInv, NoReentry
  <1>4. Bodies'
    BY <1>1, <1>2 DEF Bodies
  <1>5. QED
    BY <1>3, <1>4

\* EFFECT_RUN and the drain loop put the body of an effect on top that is not
\* on the stack.
LEMMA EnterBodies ==
  ASSUME EffectInv, NEW e \in Effects, NEW stack, Like(stack), Enter(e, stack),
         BodyFrames(e) = {}
  PROVE  (Bodies /\ NoReentry)'
  <1> DEFINE n == Len(frames)
  <1>1. n \in Nat /\ Len(stack) = n
    BY FrameFacts DEF EffectInv, Like
  <1>2. /\ Frame(e, BodyFuel, TRUE) \in FrameType
        /\ Frame(e, BodyFuel, TRUE).owner = e /\ Frame(e, BodyFuel, TRUE).entry = TRUE
    BY BoundsAssumption, FrameTyped
  <1>3. \A d \in Effects : BodyFrames(d)' = BodyFrames(d) \cup {i \in {n + 1} : d = e}
    <2> DEFINE f == Frame(e, BodyFuel, TRUE)
    <2>1. f \in FrameType /\ f.owner = e /\ f.entry /\ frames' = Append(stack, f)
      BY <1>2 DEF Enter
    <2> HIDE DEF f
    <2>2. \A d \in Effects :
            BodyFrames(d)' = BodyFrames(d) \cup {i \in {n + 1} : f.owner = d /\ f.entry}
      BY <2>1, Pushed
    <2>3. QED
      BY <2>1, <2>2
  <1>4. BodyFrames(e)' = {n + 1} /\ \A d \in Effects \ {e} : BodyFrames(d)' = BodyFrames(d)
    BY <1>3
  <1>5. /\ state' = [state EXCEPT ![e] = "Running"] /\ current' = e /\ depth' = n + 1
        /\ state \in [Effects -> {"Absent", "Idle", "Queued", "Running"}]
    BY <1>1 DEF Enter, EffectInv, Inv, Shapes
  <1>6. Bodies'
    <2>1. \A d \in Effects : BodyFrames(d)' # {} => state'[d] = "Running"
      BY <1>4, <1>5 DEF EffectInv, Bodies
    <2>2. state'[current'] = "Running" /\ BodyFrames(e)' \subseteq {depth'}
      BY <1>4, <1>5
    <2>3. QED
      BY <1>5, <2>1, <2>2 DEF Bodies
  <1>7. NoReentry'
    BY <1>4 DEF EffectInv, NoReentry
  <1>8. QED
    BY <1>6, <1>7

LEMMA StepBodies == ASSUME EffectInv, Next PROVE (Bodies /\ NoReentry)'
  <1> DEFINE n == Len(frames)
  <1>1. n \in Nat /\ Like(frames)
    BY FrameFacts DEF EffectInv
  <1>2. \A e \in Effects : BodyFrames(e) # {} => state[e] = "Running"
    BY DEF EffectInv, Bodies
  <1>3. current # NoEffect =>
          /\ current \in Effects /\ state[current] = "Running"
          /\ BodyFrames(current) \subseteq {depth}
    BY DEF EffectInv, Bodies, Inv, Shapes
  <1>4. CASE Interpret
    <2>1. /\ programs \in Seq(Nat) /\ programs # <<>>
          /\ frames' = Append(frames, Frame(NoEffect, Head(programs), FALSE))
          /\ UNCHANGED <<current, depth, state>>
      BY <1>4 DEF Interpret, effectVars, EffectInv, TypeOK
    <2>2. /\ Frame(NoEffect, Head(programs), FALSE) \in FrameType
          /\ ~Frame(NoEffect, Head(programs), FALSE).entry
      <3>1. Head(programs) \in Nat
        BY <2>1
      <3>2. QED
        BY <3>1, FrameTyped
    <2>3. \A e \in Effects : BodyFrames(e)' = BodyFrames(e)
      BY <1>1, <2>1, <2>2, Pushed
    <2>4. QED
      BY <1>2, <1>3, <2>1, <2>3, FewerBodies
  <1>5. CASE Call
    <2>1. /\ Like(Spent) /\ frames' = Append(Spent, Frame(Top.owner, Top.fuel - 1, FALSE))
          /\ UNCHANGED <<current, depth, state>>
      BY <1>5, ExecuteFacts DEF Call, effectVars
    <2>2. /\ Frame(Top.owner, Top.fuel - 1, FALSE) \in FrameType
          /\ ~Frame(Top.owner, Top.fuel - 1, FALSE).entry
      BY <1>5, ExecuteFacts, FrameTyped DEF Call
    <2>3. \A e \in Effects : BodyFrames(e)' = BodyFrames(e)
      BY <2>1, <2>2, Pushed
    <2>4. QED
      BY <1>2, <1>3, <2>1, <2>3, FewerBodies
  <1>6. ASSUME NEW e \in Effects, EffectRun(e) PROVE (Bodies /\ NoReentry)'
    <2>1. Like(Spent) /\ Enter(e, Spent) /\ state[e] = "Absent"
      BY <1>6, ExecuteFacts DEF EffectRun
    <2>2. BodyFrames(e) = {}
      BY <1>2, <2>1
    <2>3. QED
      BY <2>1, <2>2, EnterBodies
  <1>7. CASE Drain
    <2>1. queue \in Seq(Effects) /\ queue # <<>> /\ Enter(Head(queue), frames)
      BY <1>7 DEF Drain, EffectInv, Inv, Shapes
    <2>2. Head(queue) = queue[1] /\ 1 \in DOMAIN queue /\ Head(queue) \in Effects
      BY <2>1
    <2>3. Head(queue) \in ToSet(queue)
      BY <2>2 DEF ToSet
    <2>4. state[Head(queue)] = "Queued"
      BY <2>3 DEF EffectInv, Inv, QueueMatchesState
    <2>5. BodyFrames(Head(queue)) = {}
      BY <1>2, <2>2, <2>4
    <2>6. QED
      BY <1>1, <2>1, <2>2, <2>5, EnterBodies
  <1>8. ASSUME NEW s \in Signals, SignalGet(s) \/ SignalSet(s) \/ HostSet(s)
        PROVE  (Bodies /\ NoReentry)'
    <2>1. /\ Like(Spent) /\ frames' = Spent /\ UNCHANGED <<current, depth>>
      BY <1>8, ExecuteFacts DEF SignalGet, SignalSet, HostSet
    <2>2. \A e \in Effects : BodyFrames(e)' = BodyFrames(e)
      BY <2>1, Kept
    <2>3. \A e \in Effects : state[e] = "Running" => state'[e] = "Running"
      BY <1>8 DEF SignalGet, SignalSet, HostSet, effectVars, Requeued
    <2>4. QED
      BY <1>2, <1>3, <2>1, <2>2, <2>3, FewerBodies
  <1>9. CASE Return \/ TailNative
    <2>1. running /\ frames' = SubSeq(frames, 1, n - 1) /\ UNCHANGED depth
      BY <1>9 DEF Return, TailNative, Leave, Fetch, Front
    <2>2. n - 1 \in 0..n
      <3>1. n > 0
        BY <1>1, <2>1 DEF EffectInv, TypeOK, FramesFit
      <3>2. QED
        BY <1>1, <3>1
    <2>3. \A e \in Effects : BodyFrames(e)' = {i \in BodyFrames(e) : i <= n - 1}
      BY <1>1, <2>1, <2>2, Cut
    <2>4. CASE Return /\ EndsEffect
      <3>1. /\ current # NoEffect /\ n - 1 < depth
            /\ state' = [state EXCEPT ![current] = Ended(current)] /\ current' = NoEffect
        BY <2>4 DEF Return, EndsEffect, Finish
      <3>2. depth \in Nat
        BY DEF EffectInv, TypeOK
      <3>3. PICK c \in Effects : c = current
        BY <1>3, <3>1
      <3>4. BodyFrames(c) \subseteq {depth}
        BY <1>3, <3>1, <3>3
      <3>5. BodyFrames(c)' = {}
        <4>1. ~(depth <= n - 1)
          BY <1>1, <3>1, <3>2
        <4>2. QED
          BY <2>3, <3>4, <4>1
      <3>6. \A e \in Effects : BodyFrames(e)' # {} /\ state[e] = "Running" => state'[e] = "Running"
        <4>1. \A e \in Effects \ {c} : state'[e] = state[e]
          BY <3>1, <3>3 DEF EffectInv, Inv, Shapes
        <4>2. QED
          BY <3>5, <4>1
      <3>7. QED
        BY <2>1, <2>3, <3>1, <3>6, FewerBodies
    <2>5. CASE ~(Return /\ EndsEffect)
      <3>1. UNCHANGED <<current, state>>
        BY <1>9, <2>5 DEF Return, TailNative, effectVars
      <3>2. QED
        BY <1>2, <1>3, <2>1, <2>3, <3>1, FewerBodies
    <2>6. QED
      BY <2>4, <2>5
  <1>10. CASE TryBegin \/ Fail
    <2>1. Like(Spent) /\ frames' = Spent /\ UNCHANGED <<current, depth, state>>
      BY <1>10, ExecuteFacts DEF TryBegin, Fail, effectVars
    <2>2. \A e \in Effects : BodyFrames(e)' = BodyFrames(e)
      BY <2>1, Kept
    <2>3. QED
      BY <1>2, <1>3, <2>1, <2>2, FewerBodies
  <1>11. CASE Throw
    <2>1. /\ Like(Spent) /\ frames' = SubSeq(Spent, 1, catcher)
          /\ UNCHANGED <<current, depth, state>>
      BY <1>11, ExecuteFacts DEF Throw, effectVars
    <2>2. catcher \in 0..n
      BY <1>1 DEF EffectInv, TypeOK, FramesFit
    <2>3. \A e \in Effects : BodyFrames(e)' = {i \in BodyFrames(e) : i <= catcher}
      BY <2>1, <2>2, Cut
    <2>4. QED
      BY <1>2, <1>3, <2>1, <2>3, FewerBodies
  <1>12. CASE TryEnd \/ Done
    <2>1. UNCHANGED <<frames, current, depth, state>>
      BY <1>12 DEF TryEnd, Done, vars, frameVars, effectVars
    <2>2. \A e \in Effects : BodyFrames(e)' = BodyFrames(e)
      BY <2>1 DEF BodyFrames
    <2>3. QED
      BY <1>2, <1>3, <2>1, <2>2, FewerBodies
  <1>13. QED
    BY <1>4, <1>5, <1>6, <1>7, <1>8, <1>9, <1>10, <1>11, <1>12 DEF Next, Step

LEMMA NextEffectInv == ASSUME FiniteEffects, EffectInv, [Next]_vars PROVE EffectInv'
  <1>1. Inv'
    BY NextInv DEF EffectInv
  <1>2. CASE Next
    <2>1. Rest' /\ frames' \in Seq(FrameType) /\ catcher' \in Nat /\ FramesFit'
      BY <1>2, StepTypes
    <2>2. TypeOK'
      BY <1>1, <2>1 DEF TypeOK, Inv, Shapes, Rest, FrameType
    <2>3. QED
      BY <1>1, <1>2, <2>1, <2>2, StepBodies DEF EffectInv
  <1>3. CASE UNCHANGED vars
    <2>1. UNCHANGED <<frames, catcher, running, programs, current, depth, queue, writeGen,
                      state, dirty, reruns, lastGen, deps, subs, read, stale, hosted, gaveUp>>
      BY <1>3 DEF vars, frameVars, effectVars, linkVars, history
    <2>2. TypeOK' /\ FramesFit'
      BY <2>1 DEF EffectInv, TypeOK, FramesFit
    <2>3. (Bodies /\ NoReentry)'
      BY <2>1 DEF EffectInv, Bodies, NoReentry, BodyFrames
    <2>4. QED
      BY <1>1, <2>2, <2>3 DEF EffectInv
  <1>4. QED
    BY <1>2, <1>3

LEMMA InitEffectInv == Init => EffectInv
  <1> SUFFICES ASSUME Init PROVE EffectInv
    OBVIOUS
  <1>1. frames = <<>> /\ Len(frames) = 0 /\ frames \in Seq(FrameType)
    BY DEF Init
  <1>2. programs \in Seq(Nat) /\ 0 \in 0..MaxReruns /\ 0 \in 0..GenMod - 1
    BY BoundsAssumption DEF Init
  <1>a. Shapes
    BY InitInv DEF Inv
  <1>b. Rest
    BY <1>2 DEF Init, Rest
  <1>3. TypeOK
    BY <1>1, <1>a, <1>b, TypeSplit DEF Init
  <1>4. FramesFit
    BY <1>1 DEF Init, FramesFit
  <1>5. \A e \in Effects : BodyFrames(e) = {}
    BY <1>1 DEF BodyFrames
  <1>6. Bodies /\ NoReentry
    BY <1>5 DEF Init, Bodies, NoReentry
  <1>7. QED
    BY <1>3, <1>4, <1>6, InitInv DEF EffectInv

\* The invariant of the frames holds in every reachable state.
THEOREM EffectInvariant == ASSUME FiniteEffects PROVE Spec => []EffectInv
  <1>1. EffectInv /\ [Next]_vars => EffectInv'
    BY NextEffectInv
  <1>2. QED
    BY <1>1, InitEffectInv, PTL DEF Spec

\* The state of signals, effects and frames has its type: the rerun counter
\* stays within MAX_RERUNS and the generations within their 32 bits.
THEOREM ReactiveTyped == ASSUME FiniteEffects PROVE Spec => []TypeOK
  <1>1. EffectInv => TypeOK
    BY DEF EffectInv
  <1>2. QED
    BY <1>1, EffectInvariant, PTL

\* EFFECT_RUN and the drain loop never enter the body of an effect that is on
\* the call stack, however effects nest, trigger one another and are cut off
\* by an exception or a failed program.
THEOREM BodiesEnteredOnce == ASSUME FiniteEffects PROVE Spec => []NoReentry
  <1>1. EffectInv => NoReentry
    BY DEF EffectInv
  <1>2. QED
    BY <1>1, EffectInvariant, PTL

-----------------------------------------------------------------------------
(* Effects at rest *)

LEMMA QuietFresh ==
  ASSUME Fresh, UNCHANGED <<current, writeGen, effectVars, deps, history>>
  PROVE  Fresh'
  BY DEF Fresh, Attended, Generations, Written, RestingIsFresh, Created, effectVars, history

LEMMA EnterFresh ==
  ASSUME FreshInv, NEW e \in Effects, NEW stack, Enter(e, stack),
         UNCHANGED <<writeGen, dirty, lastGen, hosted>>
  PROVE  Fresh'
  <1>1. /\ read \in [Effects -> SUBSET Signals] /\ stale \in [Effects -> SUBSET Signals]
        /\ deps \in [Effects -> SUBSET Signals]
        /\ state \in [Effects -> {"Absent", "Idle", "Queued", "Running"}]
    BY DEF FreshInv, EffectInv, TypeOK
  <1>2. /\ current' = e /\ state' = [state EXCEPT ![e] = "Running"]
        /\ deps' = [deps EXCEPT ![e] = {}] /\ read' = [read EXCEPT ![e] = {}]
        /\ stale' = [stale EXCEPT ![e] = {}] /\ gaveUp' = gaveUp \ {e}
    BY DEF Enter
  <1>3. Attended'
    BY <1>1, <1>2 DEF Attended
  <1>4. Generations' /\ Written'
    BY <1>1, <1>2 DEF FreshInv, Fresh, Generations, Written
  <1>5. RestingIsFresh'
    BY <1>1, <1>2 DEF FreshInv, Fresh, RestingIsFresh, Created
  <1>6. QED
    BY <1>3, <1>4, <1>5 DEF Fresh

LEMMA SignalGetFresh == ASSUME FreshInv, NEW s \in Signals, SignalGet(s) PROVE Fresh'
  <1> DEFINE o == Top.owner
  <1>1. /\ read \in [Effects -> SUBSET Signals] /\ stale \in [Effects -> SUBSET Signals]
        /\ deps \in [Effects -> SUBSET Signals] /\ current \in Effects \cup {NoEffect}
    BY DEF FreshInv, EffectInv, TypeOK
  <1>2. UNCHANGED <<current, writeGen, state, dirty, lastGen, hosted, gaveUp>>
    BY DEF SignalGet, effectVars
  <1>3. \A e \in Effects : deps'[e] = IF e = current THEN deps[e] \cup {s} ELSE deps[e]
    BY <1>1, NoEffectAssumption DEF SignalGet, linkVars
  <1>4. \A e \in Effects : /\ read'[e] = IF e = o THEN read[e] \cup {s} ELSE read[e]
                           /\ stale'[e] = IF e = o THEN stale[e] \ {s} ELSE stale[e]
    <2>1. CASE o # NoEffect
      BY <1>1, <2>1 DEF SignalGet
    <2>2. CASE o = NoEffect
      BY <1>1, <2>2, NoEffectAssumption DEF SignalGet
    <2>3. QED
      BY <2>1, <2>2
  <1> HIDE DEF o
  <1>5. \A e \in Effects : stale[e] \subseteq read[e]
    BY DEF FreshInv, Fresh, Written
  <1>6. Written'
    BY <1>4, <1>5 DEF Written
  <1>7. Attended'
    <2>1. SUFFICES ASSUME current # NoEffect
                   PROVE  /\ read'[current] \subseteq deps'[current]
                          /\ ~dirty[current] => stale'[current] \cap deps'[current] \subseteq hosted
      BY <1>2 DEF Attended
    <2>2. /\ current \in Effects /\ read[current] \subseteq deps[current]
          /\ ~dirty[current] => stale[current] \cap deps[current] \subseteq hosted
      BY <1>1, <2>1 DEF FreshInv, Fresh, Attended
    <2>3. stale'[current] \cap deps'[current] \subseteq stale[current] \cap deps[current]
      BY <1>3, <1>4, <1>5, <2>2
    <2>4. QED
      BY <1>3, <1>4, <2>2, <2>3
  <1>8. RestingIsFresh'
    <2>1. current # NoEffect => state[current] = "Running"
      BY DEF FreshInv, EffectInv, Bodies
    <2>2. \A e \in Effects : state[e] = "Idle" => deps'[e] = deps[e] /\ stale'[e] \subseteq stale[e]
      BY <1>1, <1>3, <1>4, <2>1, NoEffectAssumption
    <2>3. QED
      BY <1>2, <2>2 DEF FreshInv, Fresh, RestingIsFresh, Created
  <1>9. QED
    BY <1>2, <1>6, <1>7, <1>8 DEF FreshInv, Fresh, Generations

\* Before the generation counter wraps round, a write reaches every subscriber.
LEMMA EveryoneNotified ==
  ASSUME FreshInv, NoWrap, NEW s \in Signals
  PROVE  NextGen = writeGen + 1 /\ Notified(s) = subs[s]
  <1>1. /\ writeGen \in 0..GenMod - 1 /\ GenMod \in Nat \ {0}
        /\ lastGen \in [Effects -> 0..GenMod - 1] /\ subs[s] \subseteq Effects
    BY BoundsAssumption DEF FreshInv, EffectInv, TypeOK
  <1>2. NextGen = writeGen + 1
    BY <1>1 DEF NextGen, NoWrap
  <1>3. \A e \in Effects : lastGen[e] # NextGen
    <2>1. SUFFICES ASSUME NEW e \in Effects PROVE lastGen[e] # writeGen + 1
      BY <1>2
    <2>2. lastGen[e] <= writeGen /\ lastGen[e] \in 0..GenMod - 1
      BY <1>1 DEF FreshInv, Fresh, Generations
    <2>3. QED
      BY <1>1, <2>2
  <1>4. QED
    BY <1>1, <1>2, <1>3 DEF Notified

LEMMA SignalSetFresh == ASSUME FreshInv, NoWrap, NEW s \in Signals, SignalSet(s) PROVE Fresh'
  <1>1. /\ stale \in [Effects -> SUBSET Signals] /\ deps \in [Effects -> SUBSET Signals]
        /\ state \in [Effects -> {"Absent", "Idle", "Queued", "Running"}]
        /\ writeGen \in 0..GenMod - 1 /\ lastGen \in [Effects -> 0..GenMod - 1]
        /\ current \in Effects \cup {NoEffect} /\ GenMod \in Nat
    BY BoundsAssumption DEF FreshInv, EffectInv, TypeOK
  <1>2. /\ UNCHANGED <<current, deps, read, gaveUp>> /\ hosted' = hosted \ {s}
        /\ writeGen' = writeGen + 1
        /\ \A e \in Effects :
             /\ dirty'[e] = (dirty[e] \/ e \in Dirtied(s))
             /\ state'[e] = IF e \in Requeued(s) THEN "Queued" ELSE state[e]
             /\ lastGen'[e] = IF e \in Requeued(s) THEN writeGen + 1 ELSE lastGen[e]
             /\ stale'[e] = IF s \in read[e] THEN stale[e] \cup {s} ELSE stale[e]
    BY EveryoneNotified DEF SignalSet, linkVars, Outdate
  <1>3. \A e \in Effects : s \in deps[e] => IF state[e] = "Running" THEN e \in Dirtied(s)
                                                                ELSE e \in Requeued(s)
    BY EveryoneNotified DEF Dirtied, Requeued, FreshInv, EffectInv, Inv, LinksAgree
  <1>4. Generations'
    <2>1. SUFFICES ASSUME NEW e \in Effects PROVE lastGen'[e] <= writeGen + 1
      BY <1>2 DEF Generations
    <2>2. lastGen[e] <= writeGen /\ lastGen[e] \in Nat /\ writeGen \in Nat
      BY <1>1 DEF FreshInv, Fresh, Generations
    <2>3. lastGen'[e] \in {writeGen + 1, lastGen[e]}
      BY <1>2
    <2>4. QED
      BY <2>2, <2>3
  <1>5. Written'
    BY <1>2 DEF FreshInv, Fresh, Written
  <1>6. Attended'
    <2>1. SUFFICES ASSUME current # NoEffect
                   PROVE  /\ read[current] \subseteq deps[current]
                          /\ ~dirty'[current] => stale'[current] \cap deps[current] \subseteq hosted'
      BY <1>2 DEF Attended
    <2>2. /\ current \in Effects /\ read[current] \subseteq deps[current]
          /\ ~dirty[current] => stale[current] \cap deps[current] \subseteq hosted
          /\ state[current] = "Running"
      BY <1>1, <2>1 DEF FreshInv, Fresh, Attended, EffectInv, Bodies
    <2>3. ASSUME ~dirty'[current] PROVE stale'[current] \cap deps[current] \subseteq hosted'
      <3>1. ~dirty[current] /\ s \notin deps[current]
        BY <1>2, <1>3, <2>2, <2>3
      <3>2. QED
        BY <1>2, <2>2, <3>1
    <2>4. QED
      BY <2>2, <2>3
  <1>7. RestingIsFresh'
    <2>1. SUFFICES ASSUME NEW e \in Effects, e \notin gaveUp, state'[e] = "Idle"
                   PROVE  stale'[e] \cap deps[e] \subseteq hosted'
      BY <1>2 DEF RestingIsFresh, Created
    <2>2. e \notin Requeued(s) /\ state[e] = "Idle" /\ s \notin deps[e]
      BY <1>2, <1>3, <2>1
    <2>3. stale[e] \cap deps[e] \subseteq hosted
      BY <2>1, <2>2 DEF FreshInv, Fresh, RestingIsFresh, Created
    <2>4. QED
      BY <1>2, <2>2, <2>3
  <1>8. QED
    BY <1>4, <1>5, <1>6, <1>7 DEF Fresh

LEMMA HostSetFresh == ASSUME FreshInv, NEW s \in Signals, HostSet(s) PROVE Fresh'
  <1>1. /\ UNCHANGED <<current, writeGen, state, dirty, lastGen, deps, read, gaveUp>>
        /\ hosted' = hosted \cup {s}
        /\ \A e \in Effects :
             stale'[e] = IF s \in read[e] THEN stale[e] \cup {s} ELSE stale[e]
        /\ current \in Effects \cup {NoEffect}
    BY DEF HostSet, effectVars, linkVars, Outdate, FreshInv, EffectInv, TypeOK
  <1>2. Attended'
    <2>1. SUFFICES ASSUME current # NoEffect
                   PROVE  /\ read[current] \subseteq deps[current]
                          /\ ~dirty[current] => stale'[current] \cap deps[current] \subseteq hosted'
      BY <1>1 DEF Attended
    <2>2. QED
      BY <1>1, <2>1 DEF FreshInv, Fresh, Attended
  <1>3. Generations' /\ Written'
    BY <1>1 DEF FreshInv, Fresh, Generations, Written
  <1>4. RestingIsFresh'
    BY <1>1 DEF FreshInv, Fresh, RestingIsFresh, Created
  <1>5. QED
    BY <1>2, <1>3, <1>4 DEF Fresh

LEMMA FinishFresh == ASSUME FreshInv, EndsEffect, Return PROVE Fresh'
  <1>1. /\ current \in Effects /\ writeGen \in 0..GenMod - 1 /\ GenMod \in Nat
        /\ state \in [Effects -> {"Absent", "Idle", "Queued", "Running"}]
        /\ lastGen \in [Effects -> 0..GenMod - 1]
    BY BoundsAssumption DEF EndsEffect, FreshInv, EffectInv, TypeOK
  <1>2. /\ UNCHANGED <<writeGen, deps, read, stale, hosted>> /\ current' = NoEffect
        /\ gaveUp' = IF dirty[current] /\ ~Again(current) THEN gaveUp \cup {current} ELSE gaveUp
        /\ \A e \in Effects :
             /\ state'[e] = IF e = current THEN Ended(e) ELSE state[e]
             /\ lastGen'[e] = IF e = current /\ Again(e) THEN writeGen ELSE lastGen[e]
    BY <1>1 DEF Return, Finish, linkVars
  <1>3. Attended' /\ Written'
    BY <1>2 DEF FreshInv, Fresh, Attended, Written
  <1>4. Generations'
    BY <1>1, <1>2 DEF FreshInv, Fresh, Generations
  <1>5. RestingIsFresh'
    <2>1. SUFFICES ASSUME NEW e \in Effects, e \notin gaveUp', state'[e] = "Idle"
                   PROVE  stale[e] \cap deps[e] \subseteq hosted
      BY <1>2 DEF RestingIsFresh, Created
    <2>2. CASE e = current
      <3>1. ~dirty[e]
        BY <1>2, <2>1, <2>2 DEF Ended, Again
      <3>2. QED
        BY <2>2, <3>1, NoEffectAssumption DEF FreshInv, Fresh, Attended
    <2>3. CASE e # current
      BY <1>2, <2>1, <2>3 DEF FreshInv, Fresh, RestingIsFresh, Created
    <2>4. QED
      BY <2>2, <2>3
  <1>6. QED
    BY <1>3, <1>4, <1>5 DEF Fresh

LEMMA NextFresh ==
  ASSUME FiniteEffects, FreshInv, NoWrap, [Next]_vars PROVE FreshInv'
  <1>1. EffectInv'
    BY NextEffectInv DEF FreshInv
  <1>2. ASSUME Interpret \/ Call \/ TailNative \/ TryBegin \/ TryEnd \/ Throw \/ Fail PROVE Fresh'
    BY <1>2, QuietFresh
    DEF FreshInv, Interpret, Call, TailNative, TryBegin, TryEnd, Throw, Fail, linkVars
  <1>3. ASSUME Done \/ UNCHANGED vars PROVE Fresh'
    BY <1>3, QuietFresh DEF FreshInv, Done, vars, linkVars
  <1>4. ASSUME NEW e \in Effects, EffectRun(e) PROVE Fresh'
    BY <1>4, EnterFresh DEF EffectRun
  <1>5. ASSUME Drain PROVE Fresh'
    <2>1. queue \in Seq(Effects) /\ queue # <<>> /\ Enter(Head(queue), frames)
      BY <1>5 DEF Drain, FreshInv, EffectInv, TypeOK
    <2>2. Head(queue) \in Effects
      BY <2>1
    <2>3. QED
      BY <1>5, <2>1, <2>2, EnterFresh DEF Drain
  <1>6. ASSUME Return, ~EndsEffect PROVE Fresh'
    BY <1>6, QuietFresh DEF FreshInv, Return, linkVars, history
  <1>7. Fresh'
    BY <1>2, <1>3, <1>4, <1>5, <1>6, FinishFresh, SignalGetFresh, SignalSetFresh, HostSetFresh
    DEF Next, Step
  <1>8. QED
    BY <1>1, <1>7 DEF FreshInv

LEMMA InitFresh == Init => FreshInv
  <1> SUFFICES ASSUME Init PROVE FreshInv
    OBVIOUS
  <1>1. Fresh
    BY DEF Init, Fresh, Attended, Generations, Written, RestingIsFresh, Created
  <1>2. QED
    BY <1>1, InitEffectInv DEF FreshInv

\* Until write_generation_ comes to its last value, an effect at rest has seen
\* the last write of every signal it is subscribed to, whichever effects write
\* and whatever was queued or running at the time.
THEOREM NothingMissed == ASSUME FiniteEffects PROVE Spec /\ []NoWrap => []RestingIsFresh
  <1>1. FreshInv /\ NoWrap /\ [Next]_vars => FreshInv'
    BY NextFresh
  <1>2. FreshInv => RestingIsFresh
    BY DEF FreshInv, Fresh
  <1>3. QED
    BY <1>1, <1>2, InitFresh, PTL DEF Spec

-----------------------------------------------------------------------------
(* Programs with one effect *)

LEMMA LayerFacts ==
  ASSUME PlainInv
  PROVE  /\ Len(frames) \in Nat /\ Like(frames) /\ depth \in Nat
         /\ running => Len(frames) \in 1..Len(frames)
         /\ frames = <<>> <=> Len(frames) = 0
         /\ current # NoEffect => current \in Effects /\ state[current] = "Running"
         /\ running => /\ Top.owner = current
                       /\ current # NoEffect => depth \in 2..Len(frames)
  <1>1. /\ Len(frames) \in Nat /\ Like(frames) /\ depth \in Nat
        /\ frames = <<>> <=> Len(frames) = 0
        /\ DOMAIN frames = 1..Len(frames)
    BY FrameFacts DEF PlainInv, EffectInv, TypeOK
  <1>2. running => Len(frames) \in 1..Len(frames)
    BY <1>1 DEF PlainInv, EffectInv, FramesFit
  <1>3. current # NoEffect => current \in Effects /\ state[current] = "Running"
    BY DEF PlainInv, EffectInv, TypeOK, Bodies
  <1>4. running /\ current = NoEffect => Top.owner = current
    BY <1>1, <1>2 DEF PlainInv, Layers, Top
  <1>5. running /\ current # NoEffect => Top.owner = current /\ depth \in 2..Len(frames)
    <2>1. SUFFICES ASSUME running, current # NoEffect
                   PROVE  Top.owner = current /\ depth \in 2..Len(frames)
      OBVIOUS
    <2>2. /\ depth \in 2..Len(frames)
          /\ frames[Len(frames)].owner = IF Len(frames) < depth THEN NoEffect ELSE current
      BY <1>1, <1>2, <2>1 DEF PlainInv, Layers
    <2>3. QED
      BY <1>1, <2>2 DEF Top
  <1>6. QED
    BY <1>1, <1>2, <1>3, <1>4, <1>5

\* An effect is entered from the code of the program.
LEMMA EnterLayers ==
  ASSUME Plain, PlainInv, running, NEW e \in Effects, state[e] # "Running",
         NEW stack, Like(stack), Enter(e, stack), UNCHANGED <<catcher, running>>
  PROVE  Layers'
  <1> DEFINE n == Len(frames)
             f == Frame(e, BodyFuel, TRUE)
  <1>1. n \in Nat /\ n \in 1..n /\ Len(stack) = n
    BY LayerFacts DEF Like
  <1>2. current = NoEffect
    BY LayerFacts DEF Plain
  <1>3. \A i \in 1..n : frames[i].owner = NoEffect
    BY <1>2, FrameFacts DEF PlainInv, EffectInv, Layers
  <1>4. f \in FrameType /\ f.owner = e /\ frames' = Append(stack, f)
    BY BoundsAssumption, FrameTyped DEF Enter
  <1> HIDE DEF f
  <1>5. /\ frames' \in Seq(FrameType) /\ Len(frames') = n + 1 /\ frames'[n + 1] = f
        /\ \A i \in 1..n : frames'[i].owner = frames[i].owner
    BY <1>4, Pushed
  <1>6. /\ current' = e /\ depth' = n + 1 /\ state' = [state EXCEPT ![e] = "Running"]
        /\ catcher' = 0 /\ running'
    BY <1>1 DEF Enter, PlainInv, Layers
  <1>7. depth' \in 2..Len(frames')
    BY <1>1, <1>5, <1>6
  <1>8. \A i \in DOMAIN frames' : frames'[i].owner = IF i < depth' THEN NoEffect ELSE current'
    <2>1. SUFFICES ASSUME NEW i \in 1..n + 1
                   PROVE  frames'[i].owner = IF i < n + 1 THEN NoEffect ELSE e
      BY <1>5, <1>6
    <2>2. CASE i \in 1..n
      BY <1>1, <1>3, <1>5, <2>2
    <2>3. CASE i = n + 1
      BY <1>1, <1>4, <1>5, <2>3
    <2>4. QED
      BY <1>1, <2>2, <2>3
  <1>9. frames' # <<>> /\ current' # NoEffect
    BY <1>1, <1>5, <1>6, NoEffectAssumption
  <1>10. \A d \in Effects : current' = d
    BY <1>6 DEF Plain
  <1>11. QED
    BY <1>6, <1>7, <1>8, <1>9, <1>10 DEF Layers

\* An instruction that stays in its frame, or calls a function from it.
LEMMA SameLayers ==
  ASSUME PlainInv, Execute, UNCHANGED <<catcher, running, current, depth>>,
         \A e \in Effects : state'[e] = "Running" => state[e] = "Running",
         \/ frames' = Spent
         \/ frames' = Append(Spent, Frame(Top.owner, Top.fuel - 1, FALSE))
  PROVE  Layers'
  <1> DEFINE n == Len(frames)
             f == Frame(Top.owner, Top.fuel - 1, FALSE)
  <1>1. running /\ n \in Nat /\ n \in 1..n /\ Like(Spent) /\ Top.owner = current /\ depth \in Nat
    BY ExecuteFacts, LayerFacts DEF Execute, Fetch, PlainInv
  <1>2. f \in FrameType /\ f.owner = Top.owner
    BY ExecuteFacts, FrameTyped DEF PlainInv
  <1> HIDE DEF f
  <1>3. /\ frames' \in Seq(FrameType) /\ n <= Len(frames') /\ Len(frames') \in Nat
        /\ \A i \in 1..n : frames'[i].owner = frames[i].owner
        /\ \A i \in 1..Len(frames') : i \in 1..n \/ frames'[i].owner = current
    <2>1. CASE frames' = Spent
      <3>1. /\ frames' \in Seq(FrameType) /\ Len(frames') = n
            /\ \A i \in 1..n : frames'[i].owner = frames[i].owner
        BY <1>1, <2>1, Kept
      <3>2. QED
        BY <1>1, <3>1
    <2>2. CASE frames' = Append(Spent, f)
      <3>1. /\ frames' \in Seq(FrameType) /\ Len(frames') = n + 1 /\ frames'[n + 1] = f
            /\ \A i \in 1..n : frames'[i].owner = frames[i].owner
        BY <1>1, <1>2, <2>2, Pushed
      <3>2. \A i \in 1..n + 1 : i \in 1..n \/ i = n + 1
        BY <1>1
      <3>3. QED
        BY <1>1, <1>2, <3>1, <3>2
    <2>3. QED
      BY <2>1, <2>2 DEF f
  <1>4. frames' # <<>> /\ DOMAIN frames' = 1..Len(frames') /\ DOMAIN frames = 1..n
    BY <1>1, <1>3, FrameFacts DEF PlainInv, EffectInv
  <1>5. current = NoEffect => \A i \in DOMAIN frames' : frames'[i].owner = NoEffect
    BY <1>3, <1>4 DEF PlainInv, Layers
  <1>6. current # NoEffect =>
          /\ depth \in 2..Len(frames')
          /\ \A i \in DOMAIN frames' : frames'[i].owner = IF i < depth THEN NoEffect ELSE current
    <2>1. SUFFICES ASSUME current # NoEffect
                   PROVE  /\ depth \in 2..Len(frames')
                          /\ \A i \in 1..Len(frames') :
                               frames'[i].owner = IF i < depth THEN NoEffect ELSE current
      BY <1>4
    <2>2. /\ depth \in 2..n
          /\ \A i \in 1..n : frames[i].owner = IF i < depth THEN NoEffect ELSE current
      BY <1>4, <2>1 DEF PlainInv, Layers
    <2>3. \A i \in 1..Len(frames') : i \in 1..n \/ ~(i < depth)
      BY <1>1, <1>3, <2>2
    <2>4. QED
      BY <1>1, <1>3, <2>2, <2>3
  <1>7. catcher' = 0 /\ running' /\ \A e \in Effects : state'[e] = "Running" => current' = e
    BY <1>1 DEF PlainInv, Layers
  <1>8. QED
    BY <1>4, <1>5, <1>6, <1>7 DEF Layers

LEMMA ReturnLayers == ASSUME Plain, PlainInv, Return PROVE Layers'
  <1> DEFINE n == Len(frames)
  <1>1. /\ running /\ queue = <<>> /\ frames' = SubSeq(frames, 1, n - 1) /\ running' = (n > 1)
        /\ UNCHANGED <<catcher, depth>>
    BY DEF Return, Leave, Fetch, Front
  <1>2. n \in Nat /\ n \in 1..n /\ depth \in Nat /\ Like(frames) /\ catcher = 0
        /\ DOMAIN frames = 1..n
    BY <1>1, LayerFacts, FrameFacts DEF PlainInv, EffectInv, Layers
  <1>3. n - 1 \in 0..n
    BY <1>2
  <1>4. /\ frames' \in Seq(FrameType) /\ Len(frames') = n - 1
        /\ \A i \in 1..n - 1 : i \in 1..n /\ frames'[i].owner = frames[i].owner
    BY <1>1, <1>2, <1>3, Cut
  <1>5. DOMAIN frames' = 1..n - 1 /\ (frames' = <<>> <=> n = 1)
    BY <1>2, <1>4
  <1>6. running' <=> frames' # <<>>
    <2>1. running' <=> n > 1
      BY <1>1
    <2>2. n > 1 <=> n # 1
      BY <1>2
    <2>3. QED
      BY <1>5, <2>1, <2>2
  <1>7. CASE EndsEffect
    <2>1. /\ current # NoEffect /\ current' = NoEffect /\ n - 1 < depth
          /\ state' = [state EXCEPT ![current] = Ended(current)]
      BY <1>7 DEF EndsEffect, Return, Finish
    <2>2. /\ depth \in 2..n
          /\ \A i \in 1..n : frames[i].owner = IF i < depth THEN NoEffect ELSE current
      BY <1>2, <2>1 DEF PlainInv, Layers
    <2>3. \A i \in 1..n - 1 : i < depth /\ n # 1
      BY <1>2, <2>1, <2>2
    <2>4. \A i \in DOMAIN frames' : frames'[i].owner = NoEffect
      BY <1>4, <1>5, <2>2, <2>3
    <2>5. n # 1
      BY <1>2, <2>2
    <2>6. \A e \in Effects : state'[e] # "Running"
      BY <2>1, LayerFacts DEF Plain, Ended, PlainInv, EffectInv, TypeOK
    <2>7. QED
      BY <1>1, <1>2, <1>5, <1>6, <2>1, <2>4, <2>5, <2>6 DEF Layers
  <1>8. CASE ~EndsEffect
    <2>1. UNCHANGED <<current, state>> /\ queue' = <<>>
      BY <1>1, <1>8 DEF Return, effectVars
    <2>2. current # NoEffect => ~(n - 1 < depth)
      BY <1>8 DEF EndsEffect
    <2>3. current = NoEffect => \A i \in DOMAIN frames' : frames'[i].owner = NoEffect
      BY <1>2, <1>4, <1>5 DEF PlainInv, Layers
    <2>4. current # NoEffect =>
            /\ depth \in 2..Len(frames')
            /\ \A i \in DOMAIN frames' : frames'[i].owner = IF i < depth THEN NoEffect ELSE current
      <3>1. SUFFICES ASSUME current # NoEffect
                     PROVE  /\ depth \in 2..n - 1
                            /\ \A i \in 1..n - 1 :
                                 frames'[i].owner = IF i < depth THEN NoEffect ELSE current
        BY <1>4, <1>5
      <3>2. /\ depth \in 2..n
            /\ \A i \in 1..n : frames[i].owner = IF i < depth THEN NoEffect ELSE current
        BY <1>2, <3>1 DEF PlainInv, Layers
      <3>3. depth \in 2..n - 1
        BY <1>2, <2>2, <3>1, <3>2
      <3>4. QED
        BY <1>4, <3>2, <3>3
    <2>5. \A e \in Effects : state'[e] = "Running" => current' = e
      BY <2>1 DEF PlainInv, Layers
    <2>6. QED
      BY <1>1, <1>2, <1>6, <2>1, <2>3, <2>4, <2>5 DEF Layers
  <1>9. QED
    BY <1>7, <1>8

LEMMA NextLayers ==
  ASSUME FiniteEffects, Plain, PlainInv, [Next]_vars PROVE PlainInv'
  <1>1. EffectInv'
    BY NextEffectInv DEF PlainInv
  <1>2. ASSUME Interpret PROVE Layers'
    <2>1. /\ ~running /\ programs \in Seq(Nat) /\ programs # <<>>
          /\ frames' = Append(frames, Frame(NoEffect, Head(programs), FALSE))
          /\ running' = TRUE /\ UNCHANGED <<catcher, current, state>>
      BY <1>2 DEF Interpret, effectVars, PlainInv, EffectInv, TypeOK
    <2>2. frames = <<>> /\ Len(frames) = 0 /\ catcher = 0 /\ Like(frames) /\ depth \in Nat
      BY <2>1, LayerFacts DEF PlainInv, Layers
    <2>3. current = NoEffect
      BY <2>2 DEF PlainInv, Layers
    <2> DEFINE f == Frame(NoEffect, Head(programs), FALSE)
    <2>4. Head(programs) \in Nat
      BY <2>1
    <2>5. f \in FrameType /\ f.owner = NoEffect
      BY <2>4, FrameTyped
    <2> HIDE DEF f
    <2>6. frames' \in Seq(FrameType) /\ Len(frames') = 0 + 1 /\ frames'[0 + 1] = f
      BY <2>1, <2>2, <2>5, Pushed DEF f
    <2>7. frames' # <<>> /\ \A i \in DOMAIN frames' : frames'[i].owner = NoEffect
      <3>1. frames' # <<>> /\ DOMAIN frames' = 1..1 /\ frames'[1] = f
        BY <2>6
      <3>2. QED
        BY <2>5, <3>1
    <2>8. QED
      BY <2>1, <2>2, <2>3, <2>7 DEF PlainInv, Layers
  <1>3. ASSUME Call PROVE Layers'
    BY <1>3, SameLayers DEF Call, effectVars
  <1>4. ASSUME NEW e \in Effects, EffectRun(e) PROVE Layers'
    <2>1. Like(Spent) /\ running /\ Enter(e, Spent) /\ state[e] = "Absent"
          /\ UNCHANGED <<catcher, running>>
      BY <1>4, ExecuteFacts DEF EffectRun, Execute, Fetch, PlainInv
    <2>2. QED
      BY <2>1, EnterLayers
  <1>5. ASSUME Drain PROVE Layers'
    <2>1. /\ queue \in Seq(Effects) /\ queue # <<>> /\ Enter(Head(queue), frames) /\ running
          /\ UNCHANGED <<catcher, running>>
      BY <1>5 DEF Drain, PlainInv, EffectInv, TypeOK
    <2>2. Head(queue) = queue[1] /\ 1 \in DOMAIN queue /\ Head(queue) \in Effects
      BY <2>1
    <2>3. Head(queue) \in ToSet(queue)
      BY <2>2 DEF ToSet
    <2>4. state[Head(queue)] = "Queued"
      BY <2>3 DEF PlainInv, EffectInv, Inv, QueueMatchesState
    <2>5. QED
      BY <2>1, <2>2, <2>4, LayerFacts, EnterLayers
  <1>6. ASSUME NEW s \in Signals, SignalGet(s) \/ SignalSet(s) \/ HostSet(s) PROVE Layers'
    <2>1. /\ Execute /\ frames' = Spent /\ UNCHANGED <<catcher, running, current, depth>>
          /\ \A e \in Effects : state'[e] = "Running" => state[e] = "Running"
      BY <1>6 DEF SignalGet, SignalSet, HostSet, effectVars
    <2>2. QED
      BY <2>1, SameLayers
  <1>7. ASSUME TryBegin \/ TryEnd \/ Throw \/ Fail \/ TailNative PROVE Layers'
    <2>1. TryEnd
      BY <1>7 DEF TryBegin, Throw, Fail, TailNative, Plain
    <2>2. running /\ catcher = Len(frames) /\ catcher = 0
      BY <2>1 DEF TryEnd, Fetch, PlainInv, Layers
    <2>3. QED
      BY <2>2, LayerFacts
  <1>8. ASSUME Done \/ UNCHANGED vars PROVE Layers'
    <2>1. UNCHANGED <<catcher, running, frames, queue, current, depth, state>>
      BY <1>8 DEF Done, vars, frameVars, effectVars
    <2>2. QED
      BY <2>1 DEF PlainInv, Layers
  <1>9. Layers'
    BY <1>2, <1>3, <1>4, <1>5, <1>6, <1>7, <1>8, ReturnLayers DEF Next, Step
  <1>10. QED
    BY <1>1, <1>9 DEF PlainInv

LEMMA InitLayers == Init => PlainInv
  BY InitEffectInv DEF Init, Layers, PlainInv

\* In a program with one effect, the code that reads a signal is that of
\* current_effect_, in helper functions too, so SIGNAL_GET subscribes whoever
\* reads.
THEOREM OwnerIsCurrent == ASSUME FiniteEffects, Plain PROVE Spec => []CurrentIsOwner
  <1>1. PlainInv /\ [Next]_vars => PlainInv'
    BY NextLayers
  <1>2. PlainInv => CurrentIsOwner
    BY LayerFacts DEF CurrentIsOwner
  <1>3. QED
    BY <1>1, <1>2, InitLayers, PTL DEF Spec

\* A step keeps every effect at rest subscribed to what it has read.
LEMMA NextTracked ==
  ASSUME FiniteEffects, Plain, NoWrap, TrackedInv, [Next]_vars PROVE TrackedInv'
  <1>1. FreshInv'
    BY NextFresh DEF TrackedInv
  <1>2. Layers'
    BY NextLayers DEF TrackedInv, FreshInv, PlainInv
  <1>3. /\ state \in [Effects -> {"Absent", "Idle", "Queued", "Running"}]
        /\ read \in [Effects -> SUBSET Signals] /\ deps \in [Effects -> SUBSET Signals]
        /\ PlainInv
    BY DEF TrackedInv, FreshInv, EffectInv, TypeOK, PlainInv
  <1>4. ASSUME UNCHANGED <<state, read, deps, hosted>> PROVE Tracked'
    BY <1>4 DEF TrackedInv, Tracked
  <1>5. ASSUME NEW e \in Effects, NEW stack, Enter(e, stack), UNCHANGED hosted PROVE Tracked'
    BY <1>3, <1>5 DEF Enter, TrackedInv, Tracked
  <1>6. ASSUME NEW s \in Signals, SignalGet(s) PROVE Tracked'
    <2>1. running /\ UNCHANGED <<state, hosted>>
      BY <1>6 DEF SignalGet, Execute, Fetch, effectVars
    <2>2. Top.owner = current /\ current \in Effects \cup {NoEffect}
      BY <1>3, <2>1, LayerFacts
    <2>3. current # NoEffect => state[current] = "Running"
      BY <1>3, LayerFacts
    <2>4. \A e \in Effects : state[e] = "Idle" => read'[e] = read[e] /\ deps'[e] = deps[e]
      <3>1. CASE current = NoEffect
        BY <1>6, <2>2, <3>1 DEF SignalGet, linkVars
      <3>2. CASE current # NoEffect
        <4>1. /\ deps' = [deps EXCEPT ![current] = @ \cup {s}]
              /\ read' = [read EXCEPT ![current] = @ \cup {s}]
          BY <1>6, <2>2, <3>2 DEF SignalGet
        <4>2. QED
          BY <1>3, <2>3, <3>2, <4>1
      <3>3. QED
        BY <3>1, <3>2
    <2>5. QED
      BY <2>1, <2>4 DEF TrackedInv, Tracked
  <1>7. ASSUME NEW s \in Signals, SignalSet(s) PROVE Tracked'
    <2>1. /\ UNCHANGED <<read, deps>> /\ hosted' = hosted \ {s}
          /\ \A e \in Effects : state'[e] = "Idle" => state[e] = "Idle"
      BY <1>7 DEF SignalSet, linkVars
    <2>2. QED
      BY <2>1 DEF TrackedInv, Tracked
  <1>8. ASSUME NEW s \in Signals, HostSet(s) PROVE Tracked'
    BY <1>8 DEF HostSet, effectVars, linkVars, TrackedInv, Tracked
  <1>9. ASSUME Return PROVE Tracked'
    <2>1. UNCHANGED <<read, deps, hosted>>
      BY <1>9 DEF Return, linkVars
    <2>2. CASE EndsEffect
      <3>1. /\ current \in Effects /\ read[current] \subseteq deps[current]
            /\ state' = [state EXCEPT ![current] = Ended(current)]
        BY <1>3, <1>9, <2>2, LayerFacts
        DEF EndsEffect, Return, Finish, TrackedInv, FreshInv, Fresh, Attended
      <3>2. \A e \in Effects : state'[e] = "Idle" => state[e] = "Idle" \/ e = current
        BY <1>3, <3>1
      <3>3. QED
        BY <2>1, <3>1, <3>2 DEF TrackedInv, Tracked
    <2>3. CASE ~EndsEffect
      <3>1. UNCHANGED state
        BY <1>9, <2>3 DEF Return, effectVars
      <3>2. QED
        BY <1>4, <2>1, <3>1
    <2>4. QED
      BY <2>2, <2>3
  <1>10. ASSUME Drain PROVE Tracked'
    <2>1. queue \in Seq(Effects) /\ queue # <<>> /\ Enter(Head(queue), frames) /\ UNCHANGED hosted
      BY <1>10 DEF Drain, TrackedInv, FreshInv, EffectInv, TypeOK
    <2>2. Head(queue) \in Effects
      BY <2>1
    <2>3. QED
      BY <1>5, <2>1, <2>2
  <1>11. ASSUME NEW e \in Effects, EffectRun(e) PROVE Tracked'
    BY <1>5, <1>11 DEF EffectRun
  <1>12. ASSUME Interpret \/ Call \/ TailNative \/ TryBegin \/ TryEnd \/ Throw \/ Fail PROVE Tracked'
    BY <1>4, <1>12
    DEF Interpret, Call, TailNative, TryBegin, TryEnd, Throw, Fail, effectVars, linkVars, history
  <1>13. ASSUME Done \/ UNCHANGED vars PROVE Tracked'
    BY <1>4, <1>13 DEF Done, vars, effectVars, linkVars, history
  <1>14. Tracked'
    BY <1>6, <1>7, <1>8, <1>9, <1>10, <1>11, <1>12, <1>13 DEF Next, Step
  <1>15. QED
    BY <1>1, <1>2, <1>14 DEF TrackedInv

\* docs/reactive.md:7 for programs with one effect that end without an error,
\* throw nothing, return no native's result directly and let no native write a
\* signal: when the program has returned, the effect has seen the last value of
\* every signal it read, unless MAX_RERUNS dropped it.
THEOREM SignalsFollowed ==
  ASSUME FiniteEffects, Plain, ~HostWriting PROVE Spec /\ []NoWrap => []EffectsFollowSignals
  <1>1. Init => TrackedInv
    BY InitFresh, InitLayers DEF Init, TrackedInv, Tracked, PlainInv
  <1>2. TrackedInv /\ NoWrap /\ [Next]_vars => TrackedInv'
    BY NextTracked
  <1>3. TrackedInv => EffectsFollowSignals
    <2>1. SUFFICES ASSUME TrackedInv, frames = <<>>, NEW e \in Created \ gaveUp
                   PROVE  stale[e] = {}
      BY DEF EffectsFollowSignals
    <2>2. PlainInv /\ Len(frames) = 0
      BY <2>1 DEF TrackedInv, FreshInv, PlainInv
    <2>3. queue = <<>> /\ current = NoEffect
      BY <2>1, <2>2 DEF PlainInv, Layers
    <2>4. /\ e \in Effects /\ state[e] # "Absent" /\ state[e] # "Running"
      BY <2>1, <2>2, <2>3, NoEffectAssumption DEF Created, PlainInv, Layers
    <2>5. state[e] # "Queued"
      BY <2>2, <2>3, <2>4, NothingQueued DEF PlainInv, EffectInv, Inv
    <2>6. state[e] = "Idle"
      BY <2>2, <2>4, <2>5 DEF PlainInv, EffectInv, TypeOK
    <2>7. /\ stale[e] \subseteq read[e] /\ read[e] \subseteq deps[e]
          /\ stale[e] \cap deps[e] \subseteq {}
      BY <2>1, <2>4, <2>6 DEF TrackedInv, FreshInv, Fresh, Written, Tracked, RestingIsFresh
    <2>8. QED
      BY <2>7
  <1>4. QED
    BY <1>1, <1>2, <1>3, PTL DEF Spec
=============================================================================
