-------------------------- MODULE ExceptionsProofs --------------------------
(***************************************************************************)
(* One array of handlers, shared by all calls and fibers, gives structured *)
(* programs the handlers of their own blocks, for any number of calls,     *)
(* fibers and nested blocks; and so Exceptions implements Handlers.        *)
(***************************************************************************)
EXTENDS Exceptions, SequenceTheorems, TLAPS

\* What a place in the program says besides TypeOK: a program that runs has a
\* frame; a fiber is resumed from a frame; and in structured programs nothing
\* is left on the array when a program ends, and no block is open in a fiber
\* that is suspended.
Control ==
  /\ running => frames # <<>>
  /\ active # NoFiber => fiber[active].base >= 1
  /\ Structured /\ ~running => handlers = <<>>
  /\ Structured => \A f \in Fibers : \A i \in DOMAIN fiber[f].frames :
                     fiber[f].frames[i].open = 0

EInv == TypeOK /\ HandlersAreOpen /\ Control

\* Frames that have no block open come and go without the handlers noticing.
LEMMA Reframed ==
  ASSUME HandlersAreOpen, program' = program, handlers' = handlers,
         \A k \in DOMAIN frames : frames[k].open > 0 =>
           /\ k \in DOMAIN frames'
           /\ frames'[k].open = frames[k].open /\ frames'[k].code = frames[k].code,
         \A k \in DOMAIN frames' : frames'[k].open \in Nat /\
           (frames'[k].open > 0 =>
              k \in DOMAIN frames /\ frames'[k].open = frames[k].open),
         \A k \in DOMAIN frames : frames[k].open \in Nat,
         \A i \in DOMAIN handlers : handlers[i].at \in Nat
  PROVE  HandlersAreOpen'
  <1> SUFFICES ASSUME Structured
               PROVE  /\ \A i, j \in DOMAIN handlers : i < j => Before(handlers[i], handlers[j])
                      /\ \A i \in DOMAIN handlers :
                           /\ handlers[i].count \in DOMAIN frames'
                           /\ handlers[i].at < frames'[handlers[i].count].open
                           /\ handlers[i].code = frames'[handlers[i].count].code
                      /\ \A k \in DOMAIN frames' : \A d \in 0..frames'[k].open - 1 :
                           \E i \in DOMAIN handlers : handlers[i].count = k /\ handlers[i].at = d
    BY DEF HandlersAreOpen, Structured, Before
  <1>1. \A i, j \in DOMAIN handlers : i < j => Before(handlers[i], handlers[j])
    BY DEF HandlersAreOpen
  <1>2. ASSUME NEW i \in DOMAIN handlers
        PROVE  /\ handlers[i].count \in DOMAIN frames'
               /\ handlers[i].at < frames'[handlers[i].count].open
               /\ handlers[i].code = frames'[handlers[i].count].code
    <2>1. /\ handlers[i].count \in DOMAIN frames
          /\ handlers[i].at < frames[handlers[i].count].open
          /\ handlers[i].code = frames[handlers[i].count].code
      BY <1>2 DEF HandlersAreOpen
    <2>2. frames[handlers[i].count].open > 0
      BY <2>1
    <2>3. QED
      BY <2>1, <2>2
  <1>3. ASSUME NEW k \in DOMAIN frames', NEW d \in 0..frames'[k].open - 1
        PROVE  \E i \in DOMAIN handlers : handlers[i].count = k /\ handlers[i].at = d
    <2>1. k \in DOMAIN frames /\ d \in 0..frames[k].open - 1
      BY <1>3
    <2>2. QED
      BY <2>1 DEF HandlersAreOpen
  <1>4. QED
    BY <1>1, <1>2, <1>3

\* The last handler goes, and the call it belongs to is on top again, outside
\* the block.
LEMMA Popping ==
  ASSUME HandlersAreOpen, program' = program, Structured,
         handlers \in Seq(HandlerType), handlers # <<>>,
         \A k \in DOMAIN frames : frames[k].open \in Nat,
         handlers' = SubSeq(handlers, 1, Len(handlers) - 1),
         DOMAIN frames' = 1..Innermost.count,
         \A k \in 1..Innermost.count - 1 : frames'[k] = frames[k],
         frames'[Innermost.count].code = frames[Innermost.count].code,
         frames'[Innermost.count].open = Innermost.at,
         DOMAIN frames = 1..Depth, Depth \in Nat
  PROVE  HandlersAreOpen'
  <1> DEFINE n == Len(handlers)
             top == Innermost.count
  <1>1. /\ n \in Nat /\ n >= 1 /\ DOMAIN handlers = 1..n
        /\ \A i \in 1..n : handlers[i] \in HandlerType
        /\ Innermost = handlers[n]
    BY DEF Innermost
  <1>2. /\ DOMAIN handlers' = 1..n - 1
        /\ \A i \in 1..n - 1 : handlers'[i] = handlers[i]
    BY <1>1
  <1>3. \A i \in 1..n : handlers[i].count \in Nat /\ handlers[i].at \in Nat
    BY <1>1 DEF HandlerType
  <1>4. ASSUME NEW i \in 1..n - 1 PROVE Before(handlers[i], Innermost)
    <2>1. i \in DOMAIN handlers /\ n \in DOMAIN handlers /\ i < n
      BY <1>1, <1>4
    <2>2. Before(handlers[i], handlers[n])
      BY <2>1 DEF HandlersAreOpen
    <2>3. QED
      BY <1>1, <2>2
  <1>5. /\ top \in 1..Depth /\ Innermost.at < frames[top].open
        /\ top \in Nat /\ Innermost.at \in Nat
    BY <1>1, <1>3 DEF HandlersAreOpen
  <1>6. \A i, j \in DOMAIN handlers' : i < j => Before(handlers'[i], handlers'[j])
    BY <1>1, <1>2 DEF HandlersAreOpen
  <1>7. ASSUME NEW i \in DOMAIN handlers'
        PROVE  /\ handlers'[i].count \in DOMAIN frames'
               /\ handlers'[i].at < frames'[handlers'[i].count].open
               /\ handlers'[i].code = frames'[handlers'[i].count].code
    <2>1. /\ handlers'[i] = handlers[i] /\ i \in 1..n /\ Before(handlers[i], Innermost)
      BY <1>1, <1>2, <1>4, <1>7
    <2>2. /\ handlers[i].count \in 1..Depth
          /\ handlers[i].at < frames[handlers[i].count].open
          /\ handlers[i].code = frames[handlers[i].count].code
      BY <1>1, <2>1 DEF HandlersAreOpen
    <2>3. CASE handlers[i].count < top
      <3>1. handlers[i].count \in 1..top - 1
        BY <1>3, <1>5, <2>1, <2>2, <2>3
      <3>2. frames'[handlers[i].count] = frames[handlers[i].count]
        BY <3>1
      <3>3. handlers[i].count \in 1..top
        BY <1>5, <3>1
      <3>4. QED
        BY <2>1, <2>2, <3>2, <3>3
    <2>4. CASE handlers[i].count = top /\ handlers[i].at < Innermost.at
      BY <1>5, <2>1, <2>2, <2>4
    <2>5. QED
      BY <2>1, <2>3, <2>4 DEF Before
  <1>8. ASSUME NEW k \in DOMAIN frames', NEW d \in 0..frames'[k].open - 1
        PROVE  \E i \in DOMAIN handlers' : handlers'[i].count = k /\ handlers'[i].at = d
    <2>1. k \in DOMAIN frames /\ d \in 0..frames[k].open - 1
          /\ (k = top => d < Innermost.at)
      <3>1. CASE k = top
        BY <1>5, <1>8, <3>1
      <3>2. CASE k # top
        <4>1. k \in 1..top - 1
          BY <1>5, <1>8, <3>2
        <4>2. QED
          BY <1>5, <1>8, <3>2, <4>1
      <3>3. QED
        BY <3>1, <3>2
    <2>2. PICK i \in DOMAIN handlers : handlers[i].count = k /\ handlers[i].at = d
      BY <2>1 DEF HandlersAreOpen
    <2>3. i # n
      BY <1>1, <1>5, <2>1, <2>2
    <2>4. i \in 1..n - 1
      BY <1>1, <2>2, <2>3
    <2>5. QED
      BY <1>2, <2>2, <2>4
  <1>9. QED
    BY <1>6, <1>7, <1>8 DEF HandlersAreOpen, Before

-----------------------------------------------------------------------------
(* Types *)

LEMMA FrameFacts ==
  ASSUME TypeOK
  PROVE  /\ Depth \in Nat /\ DOMAIN frames = 1..Depth
         /\ \A k \in 1..Depth : frames[k] \in FrameType
         /\ \A k \in 1..Depth : /\ frames[k].open \in Nat
                                /\ frames[k].code \in Activations
         /\ frames # <<>> => Depth >= 1 /\ Cur = frames[Depth] /\ Cur \in FrameType
  <1>1. frames \in Seq(FrameType)
    BY DEF TypeOK
  <1>2. Depth \in Nat /\ DOMAIN frames = 1..Depth /\ (frames # <<>> => Depth >= 1)
    BY <1>1 DEF Depth
  <1>3. \A k \in 1..Depth : frames[k] \in FrameType
    BY <1>1, <1>2
  <1>4. \A k \in 1..Depth : frames[k].open \in Nat /\ frames[k].code \in Activations
    BY <1>3 DEF FrameType
  <1>5. QED
    BY <1>2, <1>3, <1>4 DEF Cur

LEMMA HandlerFacts ==
  ASSUME TypeOK
  PROVE  /\ handlers \in Seq(HandlerType) /\ DOMAIN handlers = 1..Len(handlers)
         /\ \A i \in DOMAIN handlers : /\ handlers[i] \in HandlerType
                                       /\ handlers[i].at \in Nat
                                       /\ handlers[i].count \in 1..MaxFrames
         /\ handlers # <<>> => /\ Innermost \in HandlerType
                               /\ Len(handlers) \in DOMAIN handlers
                               /\ Innermost = handlers[Len(handlers)]
  <1>1. handlers \in Seq(HandlerType)
    BY DEF TypeOK
  <1>2. /\ DOMAIN handlers = 1..Len(handlers)
        /\ handlers # <<>> => Len(handlers) \in DOMAIN handlers
    BY <1>1
  <1>3. \A i \in DOMAIN handlers : handlers[i] \in HandlerType
    BY <1>1
  <1>4. \A i \in DOMAIN handlers : handlers[i].at \in Nat /\ handlers[i].count \in 1..MaxFrames
    BY <1>3 DEF HandlerType
  <1>5. QED
    BY <1>1, <1>2, <1>3, <1>4 DEF Innermost

LEMMA InitInv == Init => EInv
  <1> SUFFICES ASSUME Init PROVE EInv
    OBVIOUS
  <1>1. Dormant \in [state : {"created", "running", "suspended", "done"},
                     base : 0..MaxFrames, frames : Seq(FrameType)]
    BY BoundsAssumption DEF Dormant
  <1>2. TypeOK
    <2>1. <<>> \in Seq(FrameType) /\ <<>> \in Seq(HandlerType)
          /\ 0 <= MaxFrames /\ 0 <= MaxTry
      BY BoundsAssumption
    <2>2. QED
      BY <1>1, <2>1 DEF Init, TypeOK, Depth
  <1>3. HandlersAreOpen
    BY DEF Init, HandlersAreOpen
  <1>4. Control
    BY DEF Init, Control, Dormant
  <1>5. QED
    BY <1>2, <1>3, <1>4 DEF EInv

\* A new frame.
LEMMA PushFacts ==
  ASSUME TypeOK, NEW id \in Activations, NEW entry \in BOOLEAN, Push(id, entry)
  PROVE  /\ frames' \in Seq(FrameType) /\ Len(frames') = Depth + 1
         /\ Depth + 1 <= MaxFrames
         /\ DOMAIN frames' = 1..Depth + 1 /\ frames' # <<>>
         /\ \A k \in 1..Depth : frames'[k] = frames[k]
         /\ frames'[Depth + 1] = Frame(id, entry)
         /\ Frame(id, entry).open = 0 /\ Frame(id, entry) \in FrameType
  <1>1. Frame(id, entry) \in FrameType /\ Frame(id, entry).open = 0
    BY DEF Frame, FrameType
  <1>2. /\ frames \in Seq(FrameType) /\ Len(frames) \in Nat /\ Len(frames) < MaxFrames
        /\ frames' = Append(frames, Frame(id, entry))
    BY DEF Push, TypeOK, Depth
  <1>3. QED
    BY <1>1, <1>2, BoundsAssumption DEF Depth

\* The frame on top changes its place or its code.
LEMMA PlaceFacts ==
  ASSUME TypeOK, frames # <<>>, NEW F \in FrameType, frames' = [frames EXCEPT ![Depth] = F]
  PROVE  /\ frames' \in Seq(FrameType) /\ Len(frames') = Depth
         /\ DOMAIN frames' = 1..Depth /\ frames' # <<>>
         /\ \A k \in 1..Depth - 1 : frames'[k] = frames[k]
         /\ frames'[Depth] = F
  <1>1. frames \in Seq(FrameType) /\ Len(frames) \in Nat /\ Len(frames) >= 1
    BY DEF TypeOK
  <1>2. QED
    BY <1>1 DEF Depth

\* Frames are dropped from the top.
LEMMA CutFacts ==
  ASSUME TypeOK, NEW k \in 0..Depth, frames' = SubSeq(frames, 1, k)
  PROVE  /\ frames' \in Seq(FrameType) /\ Len(frames') = k
         /\ DOMAIN frames' = 1..k
         /\ \A i \in 1..k : frames'[i] = frames[i]
         /\ k > 0 => frames' # <<>>
  <1>1. frames \in Seq(FrameType) /\ Len(frames) \in Nat /\ k \in 0..Len(frames)
    BY DEF TypeOK, Depth
  <1>2. QED
    BY <1>1

\* The same call at another place: a block opened, closed or left.
LEMMA MoveFacts ==
  ASSUME TypeOK, frames # <<>>, NEW n \in Nat, frames' = [frames EXCEPT ![Depth].open = n]
  PROVE  /\ frames' = [frames EXCEPT ![Depth] = [Cur EXCEPT !.open = n]]
         /\ [Cur EXCEPT !.open = n] \in FrameType
         /\ [Cur EXCEPT !.open = n].open = n
         /\ [Cur EXCEPT !.open = n].code = Cur.code
  <1>1. Cur = frames[Depth] /\ Cur \in FrameType
    BY FrameFacts
  <1>2. QED
    BY <1>1 DEF FrameType

\* What Throw makes of the frames and handlers, of any program.
LEMMA ThrowFacts ==
  ASSUME TypeOK, frames # <<>>, Throw
  PROVE  /\ handlers # <<>> /\ handlers' = SubSeq(handlers, 1, Len(handlers) - 1)
         /\ Kept(Innermost) \in 1..Depth
         /\ Kept(Innermost) = Innermost.count \/ Kept(Innermost) = Depth
         /\ Innermost.count \in 1..Depth => Kept(Innermost) = Innermost.count
         /\ frames' \in Seq(FrameType) /\ Len(frames') = Kept(Innermost)
         /\ DOMAIN frames' = 1..Kept(Innermost)
         /\ \A k \in 1..Kept(Innermost) - 1 : frames'[k] = frames[k]
         /\ frames'[Kept(Innermost)].code = Innermost.code
         /\ frames'[Kept(Innermost)].open = Innermost.at
  <1> DEFINE k == Kept(Innermost)
             G == [frames[k] EXCEPT !.code = Innermost.code, !.open = Innermost.at]
  <1>1. /\ handlers # <<>> /\ handlers' = SubSeq(handlers, 1, Len(handlers) - 1)
        /\ frames' = [SubSeq(frames, 1, k) EXCEPT ![k].code = Innermost.code,
                                                  ![k].open = Innermost.at]
    BY DEF Throw
  <1>2. /\ Innermost.count \in Nat /\ Innermost.count >= 1
        /\ Innermost.at \in Nat /\ Innermost.code \in Activations
    BY <1>1, HandlerFacts DEF HandlerType
  <1>3. Depth \in Nat /\ Depth >= 1
    BY FrameFacts
  <1>4. /\ k \in 1..Depth /\ (k = Innermost.count \/ k = Depth)
        /\ Innermost.count \in 1..Depth => k = Innermost.count
    BY <1>2, <1>3 DEF Kept, Smaller
  <1>5. /\ frames \in Seq(FrameType) /\ Len(frames) = Depth /\ frames[k] \in FrameType
    BY <1>4, FrameFacts DEF TypeOK, Depth
  <1>6. G \in FrameType /\ G.code = Innermost.code /\ G.open = Innermost.at
    BY <1>2, <1>5 DEF FrameType
  <1>7. /\ SubSeq(frames, 1, k) \in Seq(FrameType) /\ Len(SubSeq(frames, 1, k)) = k
        /\ \A i \in 1..k : SubSeq(frames, 1, k)[i] = frames[i]
    BY <1>3, <1>4, <1>5
  <1>8. frames' = [SubSeq(frames, 1, k) EXCEPT ![k] = G]
    <2>1. frames' = [SubSeq(frames, 1, k) EXCEPT ![k] =
                      [SubSeq(frames, 1, k)[k] EXCEPT !.code = Innermost.code, !.open = Innermost.at]]
      BY <1>1, <1>4, <1>7
    <2>2. SubSeq(frames, 1, k)[k] = frames[k]
      BY <1>4, <1>7
    <2>3. QED
      BY <2>1, <2>2
  <1>9. /\ frames' \in Seq(FrameType) /\ Len(frames') = k
        /\ DOMAIN frames' = 1..k
        /\ \A i \in 1..k - 1 : frames'[i] = frames[i]
        /\ frames'[k] = G
    <2> DEFINE T == SubSeq(frames, 1, k)
    <2>1. T \in Seq(FrameType) /\ Len(T) = k /\ k \in 1..Len(T) /\ k \in Nat
      BY <1>3, <1>4, <1>7
    <2>2. G \in FrameType /\ frames' = [T EXCEPT ![k] = G]
      BY <1>6, <1>8
    <2>3. \A i \in 1..k - 1 : T[i] = frames[i] /\ i # k /\ i \in 1..k
      BY <1>7, <2>1
    <2> HIDE DEF T, G, k
    <2>4. /\ frames' \in Seq(FrameType) /\ Len(frames') = k /\ DOMAIN frames' = 1..k
          /\ frames'[k] = G
      BY <2>1, <2>2
    <2>5. ASSUME NEW i \in 1..k - 1 PROVE frames'[i] = frames[i]
      BY <2>1, <2>2, <2>3, <2>5
    <2>6. QED
      BY <2>4, <2>5
  <1>10. QED
    BY <1>1, <1>4, <1>6, <1>9

\* What a resumption makes of them.
LEMMA ResumedFacts ==
  ASSUME TypeOK, NEW f \in Fibers, ResumeSuspended(f)
  PROVE  /\ frames' \in Seq(FrameType) /\ Len(frames') = Depth + Len(fiber[f].frames)
         /\ Len(fiber[f].frames) \in Nat
         /\ DOMAIN frames' = 1..Depth + Len(fiber[f].frames)
         /\ \A k \in 1..Depth : frames'[k] = frames[k]
         /\ \A k \in 1..Len(fiber[f].frames) : frames'[Depth + k] = fiber[f].frames[k]
         /\ \A k \in DOMAIN frames' : k \in 1..Depth \/
              (k - Depth \in DOMAIN fiber[f].frames /\ frames'[k] = fiber[f].frames[k - Depth])
  <1>1. frames \in Seq(FrameType) /\ fiber[f].frames \in Seq(FrameType)
    BY DEF TypeOK
  <1>2. frames' = frames \o fiber[f].frames
    BY DEF ResumeSuspended
  <1>3. QED
    BY <1>1, <1>2 DEF Depth

FiberType == [state : {"created", "running", "suspended", "done"},
              base : 0..MaxFrames, frames : Seq(FrameType)]

\* TypeOK after a step that changes only the frames, or the frames and running.
LEMMA Retyped ==
  ASSUME TypeOK, program' = program, running' \in BOOLEAN,
         frames' \in Seq(FrameType), Len(frames') <= MaxFrames,
         handlers' \in Seq(HandlerType), Len(handlers') <= MaxTry,
         active' \in Fibers \cup {NoFiber}, fiber' \in [Fibers -> FiberType]
  PROVE  TypeOK'
  BY DEF TypeOK, Depth, FiberType, HandlerType, FrameType

\* Every step keeps the types, leaves a running program a frame, and resumes a
\* fiber from one.
LEMMA TypeStep ==
  ASSUME TypeOK, Control, Next
  PROVE  /\ TypeOK' /\ program' = program
         /\ running' => frames' # <<>>
         /\ active' # NoFiber => fiber'[active'].base >= 1
  <1> DEFINE Typed == /\ TypeOK' /\ program' = program
                      /\ running' => frames' # <<>>
                      /\ active' # NoFiber => fiber'[active'].base >= 1
  <1>1. /\ running \in BOOLEAN /\ frames \in Seq(FrameType) /\ Len(frames) <= MaxFrames
        /\ handlers \in Seq(HandlerType) /\ Len(handlers) <= MaxTry
        /\ active \in Fibers \cup {NoFiber} /\ fiber \in [Fibers -> FiberType]
        /\ Depth = Len(frames) /\ Depth \in Nat
    BY DEF TypeOK, Depth, FiberType
  <1>2. /\ running => frames # <<>>
        /\ active # NoFiber => fiber[active].base >= 1
    BY DEF Control
  <1>3. ASSUME NEW id \in Activations, Interpret(id) \/ Call(id) PROVE Typed
    <2>1. /\ UNCHANGED <<program, handlers, active, fiber>> /\ running' \in BOOLEAN
          /\ \E entry \in BOOLEAN : Push(id, entry)
      BY <1>1, <1>3 DEF Interpret, Call, fiberVars
    <2>2. frames' \in Seq(FrameType) /\ Len(frames') <= MaxFrames /\ frames' # <<>>
      BY <2>1, PushFacts
    <2>3. QED
      BY <1>1, <1>2, <2>1, <2>2, Retyped
  <1>4. CASE NewVM
    <2>1. /\ program' = program /\ running' = running /\ ~running /\ frames' = <<>>
          /\ handlers' = <<>> /\ active' = NoFiber /\ fiber' = [f \in Fibers |-> Dormant]
      BY <1>4 DEF NewVM
    <2>2. Dormant \in FiberType
      BY BoundsAssumption DEF Dormant, FiberType
    <2>3. TypeOK'
      BY <1>1, <2>1, <2>2, BoundsAssumption, Retyped
    <2>4. QED
      BY <2>1, <2>3
  <1>5. ASSUME NEW id \in Activations, TailCall(id) PROVE Typed
    <2>1. /\ UNCHANGED <<program, running, handlers, active, fiber>> /\ running
          /\ frames' = [frames EXCEPT ![Depth] = Frame(id, Cur.entry)]
      BY <1>5 DEF TailCall, MayLeave, fiberVars
    <2>2. Frame(id, Cur.entry) \in FrameType
      BY <1>2, <2>1, FrameFacts DEF Frame, FrameType
    <2>3. frames' \in Seq(FrameType) /\ Len(frames') = Depth /\ frames' # <<>>
      BY <1>2, <2>1, <2>2, PlaceFacts
    <2>4. QED
      BY <1>1, <1>2, <2>1, <2>3, Retyped
  <1>6. CASE Return
    <2>1. /\ UNCHANGED <<program, handlers>> /\ running /\ running' = (Depth > 1)
          /\ frames' = SubSeq(frames, 1, Depth - 1)
          /\ \/ UNCHANGED <<active, fiber>>
             \/ /\ active \in Fibers /\ active' = NoFiber
                /\ fiber' = [fiber EXCEPT ![active].state = "done"]
      BY <1>1, <1>6 DEF Return, MayLeave, fiberVars
    <2>2. Depth >= 1
      BY <1>2, <2>1, FrameFacts
    <2>3. Depth - 1 \in 0..Depth
      BY <1>1, <2>2
    <2>4. /\ frames' \in Seq(FrameType) /\ Len(frames') = Depth - 1
          /\ Depth - 1 > 0 => frames' # <<>>
      BY <2>1, <2>3, CutFacts
    <2>5. active' \in Fibers \cup {NoFiber} /\ fiber' \in [Fibers -> FiberType]
      <3>1. \A f \in Fibers : [fiber[f] EXCEPT !.state = "done"] \in FiberType
        BY <1>1 DEF FiberType
      <3>2. QED
        BY <1>1, <2>1, <3>1
    <2>6. running' \in BOOLEAN /\ Len(frames') <= MaxFrames
      BY <1>1, <2>1, <2>2, <2>4, BoundsAssumption
    <2>7. TypeOK'
      BY <1>1, <2>1, <2>4, <2>5, <2>6, Retyped
    <2>8. active' # NoFiber => fiber'[active'].base >= 1
      BY <1>2, <2>1
    <2>9. running' => frames' # <<>>
      <3>1. running' => Depth > 1
        BY <2>1
      <3>2. Depth > 1 => Depth - 1 > 0
        BY <1>1
      <3>3. QED
        BY <2>4, <3>1, <3>2
    <2>10. QED
      BY <2>1, <2>7, <2>8, <2>9
  <1>7. CASE TryBegin
    <2>1. /\ UNCHANGED <<program, running, active, fiber>> /\ running
          /\ Len(handlers) < MaxTry
          /\ handlers' = Append(handlers, Handler(Depth, Cur.code, Cur.open))
          /\ frames' = [frames EXCEPT ![Depth].open = Cur.open + 1]
      BY <1>7 DEF TryBegin, Room, fiberVars, Cur
    <2>2. Cur \in FrameType /\ Depth \in 1..MaxFrames
      BY <1>1, <1>2, <2>1, FrameFacts, BoundsAssumption
    <2>3. Cur.open + 1 \in Nat /\ Handler(Depth, Cur.code, Cur.open) \in HandlerType
      BY <2>2 DEF FrameType, HandlerType, Handler
    <2>4. frames' \in Seq(FrameType) /\ Len(frames') = Depth /\ frames' # <<>>
      BY <1>2, <2>1, <2>3, MoveFacts, PlaceFacts
    <2>5. handlers' \in Seq(HandlerType) /\ Len(handlers') <= MaxTry
      BY <1>1, <2>1, <2>3, BoundsAssumption
    <2>6. QED
      BY <1>1, <1>2, <2>1, <2>4, <2>5, Retyped
  <1>8. CASE TryEnd
    <2>1. /\ UNCHANGED <<program, running, active, fiber>> /\ running
          /\ Cur.open > 0 /\ handlers' = Popped
          /\ frames' = [frames EXCEPT ![Depth].open = Cur.open - 1]
      BY <1>8 DEF TryEnd, fiberVars, Cur
    <2>2. Cur.open - 1 \in Nat
      BY <1>2, <2>1, FrameFacts DEF FrameType
    <2>3. frames' \in Seq(FrameType) /\ Len(frames') = Depth /\ frames' # <<>>
      BY <1>2, <2>1, <2>2, MoveFacts, PlaceFacts
    <2>4. handlers' \in Seq(HandlerType) /\ Len(handlers') <= MaxTry
      BY <1>1, <2>1, BoundsAssumption DEF Popped
    <2>5. QED
      BY <1>1, <1>2, <2>1, <2>3, <2>4, Retyped
  <1>9. ASSUME NEW n \in 0..MaxTry, Jump(n) PROVE Typed
    <2>1. /\ UNCHANGED <<program, running, handlers, active, fiber>> /\ running
          /\ frames' = [frames EXCEPT ![Depth].open = n] /\ n \in Nat
      BY <1>9, BoundsAssumption DEF Jump, fiberVars
    <2>2. frames' \in Seq(FrameType) /\ Len(frames') = Depth /\ frames' # <<>>
      BY <1>2, <2>1, MoveFacts, PlaceFacts
    <2>3. QED
      BY <1>1, <1>2, <2>1, <2>2, Retyped
  <1>10. CASE Throw
    <2>1. UNCHANGED <<program, running, active, fiber>> /\ running
      BY <1>10 DEF Throw, fiberVars
    <2>2. /\ handlers # <<>> /\ handlers' = SubSeq(handlers, 1, Len(handlers) - 1)
          /\ frames' \in Seq(FrameType) /\ Len(frames') \in 1..Depth
      BY <1>2, <1>10, <2>1, ThrowFacts
    <2>3. handlers' \in Seq(HandlerType) /\ Len(handlers') <= MaxTry
      BY <1>1, <2>2, BoundsAssumption
    <2>4. Len(frames') <= MaxFrames /\ frames' # <<>>
      BY <1>1, <2>2, BoundsAssumption
    <2>5. QED
      BY <1>1, <1>2, <2>1, <2>2, <2>3, <2>4, Retyped
  <1>11. CASE Fail
    <2>1. UNCHANGED <<program, frames, handlers, active, fiber>> /\ running' = FALSE
      BY <1>11 DEF Fail, fiberVars
    <2>2. QED
      BY <1>1, <1>2, <2>1, Retyped
  <1>12. ASSUME NEW f \in Fibers, NEW id \in Activations, ResumeCreated(f, id) PROVE Typed
    <2>1. /\ UNCHANGED <<program, running, handlers>> /\ running /\ Push(id, FALSE)
          /\ fiber' = [fiber EXCEPT ![f].state = "running", ![f].base = Depth] /\ active' = f
      BY <1>12 DEF ResumeCreated, MayResume, Resumed
    <2>2. frames' \in Seq(FrameType) /\ Len(frames') <= MaxFrames /\ frames' # <<>>
      BY <2>1, PushFacts
    <2>3. Depth >= 1 /\ Depth \in 0..MaxFrames
      BY <1>1, <1>2, <2>1, FrameFacts, BoundsAssumption
    <2>4. /\ [fiber[f] EXCEPT !.state = "running", !.base = Depth] \in FiberType
          /\ fiber' = [fiber EXCEPT ![f] = [fiber[f] EXCEPT !.state = "running", !.base = Depth]]
      BY <1>1, <2>1, <2>3 DEF FiberType
    <2>5. fiber' \in [Fibers -> FiberType] /\ fiber'[f].base = Depth
      BY <1>1, <2>1, <2>4 DEF FiberType
    <2>6. QED
      BY <1>1, <2>1, <2>2, <2>3, <2>5, Retyped
  <1>13. ASSUME NEW f \in Fibers, ResumeSuspended(f) PROVE Typed
    <2>1. /\ UNCHANGED <<program, running, handlers>> /\ running
          /\ Depth + Len(fiber[f].frames) <= MaxFrames /\ active' = f
          /\ fiber' = [fiber EXCEPT ![f] = [state |-> "running", base |-> Depth, frames |-> <<>>]]
      BY <1>13 DEF ResumeSuspended, MayResume, Resumed
    <2>2. Depth >= 1 /\ Depth \in 0..MaxFrames
      BY <1>1, <1>2, <2>1, FrameFacts, BoundsAssumption
    <2>3. /\ frames' \in Seq(FrameType) /\ Len(frames') <= MaxFrames /\ frames' # <<>>
      <3>1. /\ frames' \in Seq(FrameType) /\ Len(frames') = Depth + Len(fiber[f].frames)
            /\ Len(fiber[f].frames) \in Nat
        BY <1>13, ResumedFacts
      <3>2. Len(frames') >= 1
        BY <2>2, <3>1
      <3>3. frames' # <<>>
        BY <3>2
      <3>4. QED
        BY <2>1, <3>1, <3>3
    <2>4. fiber' \in [Fibers -> FiberType] /\ fiber'[f].base = Depth
      BY <1>1, <2>1, <2>2 DEF FiberType
    <2>5. QED
      BY <1>1, <2>1, <2>2, <2>3, <2>4, Retyped
  <1>14. CASE Yield
    <2>1. /\ UNCHANGED <<program, running, handlers>> /\ running /\ active \in Fibers
          /\ Depth > fiber[active].base /\ active' = NoFiber
          /\ frames' = SubSeq(frames, 1, fiber[active].base)
          /\ fiber' = [fiber EXCEPT ![active].state = "suspended",
                ![active].frames = SubSeq(frames, fiber[active].base + 1, Depth)]
      BY <1>1, <1>14 DEF Yield
    <2>2. fiber[active].base \in 0..Depth /\ fiber[active].base >= 1
      BY <1>1, <1>2, <2>1, NoFiberAssumption DEF FiberType
    <2>3. frames' \in Seq(FrameType) /\ Len(frames') = fiber[active].base /\ frames' # <<>>
      BY <2>1, <2>2, CutFacts
    <2>4. SubSeq(frames, fiber[active].base + 1, Depth) \in Seq(FrameType)
      BY <1>1, <2>2
    <2>5. fiber' \in [Fibers -> FiberType]
      BY <1>1, <2>1, <2>4 DEF FiberType
    <2>6. Len(frames') <= MaxFrames
      BY <1>1, <2>2, <2>3, BoundsAssumption
    <2>7. QED
      BY <1>1, <2>1, <2>3, <2>5, <2>6, Retyped
  <1>15. QED
    BY <1>3, <1>4, <1>5, <1>6, <1>7, <1>8, <1>9, <1>10, <1>11, <1>12, <1>13, <1>14 DEF Next
-----------------------------------------------------------------------------
(* The handlers of structured programs *)

\* A step that neither opens nor closes a block, of a structured program.
LEMMA Rearranged ==
  ASSUME EInv, TypeOK', program' = program, handlers' = handlers,
         Structured =>
           /\ \A k \in DOMAIN frames : frames[k].open > 0 =>
                k \in DOMAIN frames' /\ frames'[k] = frames[k]
           /\ \A k \in DOMAIN frames' : frames'[k].open > 0 =>
                k \in DOMAIN frames /\ frames'[k] = frames[k]
  PROVE  HandlersAreOpen'
  <1>1. TypeOK /\ HandlersAreOpen
    BY DEF EInv
  <1>2. \A k \in DOMAIN frames : frames[k].open \in Nat
    BY <1>1, FrameFacts
  <1>3. \A k \in DOMAIN frames' : frames'[k].open \in Nat
    <2>1. \A k \in DOMAIN frames' : frames'[k] \in FrameType
      BY DEF TypeOK
    <2>2. QED
      BY <2>1 DEF FrameType
  <1>4. \A i \in DOMAIN handlers : handlers[i].at \in Nat
    BY <1>1, HandlerFacts
  <1>5. CASE Structured
    <2>1. \A k \in DOMAIN frames : frames[k].open > 0 =>
            /\ k \in DOMAIN frames'
            /\ frames'[k].open = frames[k].open /\ frames'[k].code = frames[k].code
      BY <1>5
    <2>2. \A k \in DOMAIN frames' : frames'[k].open \in Nat /\
            (frames'[k].open > 0 => k \in DOMAIN frames /\ frames'[k].open = frames[k].open)
      BY <1>3, <1>5
    <2>3. QED
      BY <1>1, <1>2, <1>4, <2>1, <2>2, Reframed
  <1>6. CASE ~Structured
    BY <1>6 DEF HandlersAreOpen, Structured
  <1>7. QED
    BY <1>5, <1>6

\* The last handler is that of the innermost block of the latest call that is
\* in one.
LEMMA LastHandler ==
  ASSUME EInv, Structured, handlers # <<>>
  PROVE  /\ Innermost.count \in 1..Depth
         /\ frames[Innermost.count].open > 0
         /\ Innermost.at = frames[Innermost.count].open - 1
         /\ Innermost.code = frames[Innermost.count].code
         /\ \A k \in 1..Depth : frames[k].open > 0 => k <= Innermost.count
  <1> DEFINE n == Len(handlers)
             top == Innermost.count
  <1>1. TypeOK /\ HandlersAreOpen
    BY DEF EInv
  <1>2. /\ n \in Nat /\ DOMAIN handlers = 1..n /\ n \in DOMAIN handlers
        /\ Innermost = handlers[n] /\ Innermost.at \in Nat
    <2>1. handlers \in Seq(HandlerType)
      BY <1>1, HandlerFacts
    <2>2. n \in Nat
      BY <2>1
    <2>3. QED
      BY <1>1, <2>2, HandlerFacts
  <1>3. /\ Depth \in Nat /\ DOMAIN frames = 1..Depth
        /\ \A k \in 1..Depth : frames[k].open \in Nat
    BY <1>1, FrameFacts
  <1>4. /\ top \in 1..Depth /\ Innermost.at < frames[top].open
        /\ Innermost.code = frames[top].code
    BY <1>1, <1>2, <1>3 DEF HandlersAreOpen
  <1>5. ASSUME NEW i \in DOMAIN handlers PROVE i = n \/ Before(handlers[i], Innermost)
    <2>1. i = n \/ i < n
      BY <1>2, <1>5
    <2>2. QED
      BY <1>1, <1>2, <1>5, <2>1 DEF HandlersAreOpen
  <1>6. ASSUME NEW k \in 1..Depth, frames[k].open > 0
        PROVE  k < top \/ (k = top /\ Innermost.at = frames[k].open - 1)
    <2>1. frames[k].open - 1 \in 0..frames[k].open - 1
      BY <1>3, <1>6
    <2>2. PICK i \in DOMAIN handlers : handlers[i].count = k
                                       /\ handlers[i].at = frames[k].open - 1
      BY <1>1, <1>3, <1>6, <2>1 DEF HandlersAreOpen
    <2>3. CASE i = n
      BY <1>2, <2>2, <2>3
    <2>4. CASE Before(handlers[i], Innermost)
      <3>1. CASE k = top
        <4>1. frames[k].open - 1 < Innermost.at /\ Innermost.at < frames[k].open
          BY <1>4, <2>2, <2>4, <3>1 DEF Before
        <4>2. QED
          BY <1>2, <1>3, <1>6, <4>1
      <3>2. CASE k # top
        BY <2>2, <2>4, <3>2 DEF Before
      <3>3. QED
        BY <3>1, <3>2
    <2>5. QED
      BY <1>5, <2>2, <2>3, <2>4
  <1>7. frames[top].open > 0
    BY <1>2, <1>3, <1>4
  <1>8. Innermost.at = frames[top].open - 1
    BY <1>4, <1>6, <1>7
  <1>9. \A k \in 1..Depth : frames[k].open > 0 => k <= top
    BY <1>4, <1>6
  <1>10. QED
    BY <1>4, <1>7, <1>8, <1>9

\* A call in a block has a handler.
LEMMA SomeHandler ==
  ASSUME EInv, Structured, NEW k \in 1..Depth, frames[k].open > 0
  PROVE  handlers # <<>>
  <1>1. TypeOK /\ HandlersAreOpen
    BY DEF EInv
  <1>2. k \in DOMAIN frames /\ 0 \in 0..frames[k].open - 1
    BY <1>1, FrameFacts
  <1>3. \E i \in DOMAIN handlers : handlers[i].count = k
    BY <1>1, <1>2 DEF HandlersAreOpen
  <1>4. QED
    BY <1>3

LEMMA TryBeginOpens ==
  ASSUME EInv, TryBegin
  PROVE  HandlersAreOpen'
  <1> SUFFICES ASSUME Structured PROVE HandlersAreOpen'
    BY DEF HandlersAreOpen, Structured, TryBegin
  <1> DEFINE n == Len(handlers)
             h == Handler(Depth, Cur.code, Cur.open)
  <1>1. /\ TypeOK /\ HandlersAreOpen /\ frames # <<>>
    BY DEF EInv, Control, TryBegin
  <1>2. /\ Depth \in Nat /\ Depth \in 1..Depth /\ DOMAIN frames = 1..Depth
        /\ Cur = frames[Depth] /\ Cur.open \in Nat
    BY <1>1, FrameFacts
  <1>3. /\ frames' = [frames EXCEPT ![Depth].open = Cur.open + 1]
        /\ handlers' = Append(handlers, h)
    BY DEF TryBegin, Cur
  <1>4. /\ DOMAIN frames' = 1..Depth
        /\ \A k \in 1..Depth - 1 : frames'[k] = frames[k]
        /\ frames'[Depth].open = Cur.open + 1 /\ frames'[Depth].code = Cur.code
    <2>1. Cur.open + 1 \in Nat
      BY <1>2
    <2>2. QED
      BY <1>1, <1>3, <2>1, MoveFacts, PlaceFacts
  <1>5. /\ n \in Nat /\ DOMAIN handlers = 1..n /\ DOMAIN handlers' = 1..n + 1
        /\ \A i \in 1..n : handlers'[i] = handlers[i]
        /\ handlers'[n + 1] = h
    <2>1. handlers \in Seq(HandlerType)
      BY <1>1, HandlerFacts
    <2>2. QED
      BY <1>3, <2>1
  <1>6. h.count = Depth /\ h.at = Cur.open /\ h.code = Cur.code
    BY DEF Handler
  <1>7. \A i \in 1..n : /\ handlers[i].count \in 1..Depth /\ handlers[i].at \in Nat
                        /\ handlers[i].at < frames[handlers[i].count].open
                        /\ handlers[i].code = frames[handlers[i].count].code
    BY <1>1, <1>2, <1>5, HandlerFacts DEF HandlersAreOpen
  <1>8. ASSUME NEW i \in 1..n + 1, NEW j \in 1..n + 1, i < j
        PROVE  Before(handlers'[i], handlers'[j])
    <2>1. i \in 1..n
      BY <1>5, <1>8
    <2>2. CASE j \in 1..n
      BY <1>1, <1>5, <1>8, <2>1, <2>2 DEF HandlersAreOpen
    <2>3. CASE j = n + 1
      <3>1. CASE handlers[i].count = Depth
        BY <1>2, <1>5, <1>6, <1>7, <2>1, <2>3, <3>1 DEF Before
      <3>2. CASE handlers[i].count # Depth
        <4>1. handlers[i].count < Depth
          BY <1>2, <1>7, <2>1, <3>2
        <4>2. QED
          BY <1>5, <1>6, <2>1, <2>3, <4>1 DEF Before
      <3>3. QED
        BY <3>1, <3>2
    <2>4. QED
      BY <1>5, <1>8, <2>2, <2>3
  <1>9. ASSUME NEW i \in 1..n + 1
        PROVE  /\ handlers'[i].count \in 1..Depth
               /\ handlers'[i].at < frames'[handlers'[i].count].open
               /\ handlers'[i].code = frames'[handlers'[i].count].code
    <2>1. CASE i = n + 1
      BY <1>2, <1>4, <1>5, <1>6, <2>1
    <2>2. CASE i \in 1..n
      <3>1. CASE handlers[i].count = Depth
        BY <1>2, <1>4, <1>5, <1>7, <2>2, <3>1
      <3>2. CASE handlers[i].count # Depth
        <4>1. handlers[i].count \in 1..Depth - 1
          BY <1>2, <1>7, <2>2, <3>2
        <4>2. frames'[handlers[i].count] = frames[handlers[i].count]
          BY <1>4, <4>1
        <4>3. QED
          BY <1>5, <1>7, <2>2, <4>2
      <3>3. QED
        BY <3>1, <3>2
    <2>3. QED
      BY <1>5, <1>9, <2>1, <2>2
  <1>10. ASSUME NEW k \in 1..Depth, NEW d \in 0..frames'[k].open - 1
         PROVE  \E i \in 1..n + 1 : handlers'[i].count = k /\ handlers'[i].at = d
    <2>1. CASE k = Depth /\ d = Cur.open
      BY <1>5, <1>6, <2>1
    <2>2. CASE ~(k = Depth /\ d = Cur.open)
      <3>1. d \in 0..frames[k].open - 1
        <4>1. CASE k = Depth
          BY <1>2, <1>4, <1>10, <2>2, <4>1
        <4>2. CASE k # Depth
          <5>1. k \in 1..Depth - 1
            BY <1>2, <1>10, <4>2
          <5>2. frames'[k] = frames[k]
            BY <1>4, <5>1
          <5>3. QED
            BY <1>10, <5>2
        <4>3. QED
          BY <4>1, <4>2
      <3>2. PICK i \in 1..n : handlers[i].count = k /\ handlers[i].at = d
        BY <1>1, <1>2, <1>5, <3>1 DEF HandlersAreOpen
      <3>3. i \in 1..n + 1
        BY <1>5, <3>2
      <3>4. QED
        BY <1>5, <3>2, <3>3
    <2>3. QED
      BY <2>1, <2>2
  <1>11. \A i, j \in DOMAIN handlers' : i < j => Before(handlers'[i], handlers'[j])
    BY <1>5, <1>8
  <1>12. \A i \in DOMAIN handlers' :
           /\ handlers'[i].count \in DOMAIN frames'
           /\ handlers'[i].at < frames'[handlers'[i].count].open
           /\ handlers'[i].code = frames'[handlers'[i].count].code
    BY <1>4, <1>5, <1>9
  <1>13. \A k \in DOMAIN frames' : \A d \in 0..frames'[k].open - 1 :
           \E i \in DOMAIN handlers' : handlers'[i].count = k /\ handlers'[i].at = d
    BY <1>4, <1>5, <1>10
  <1> HIDE DEF n, h
  <1>14. QED
    BY <1>11, <1>12, <1>13 DEF HandlersAreOpen, Before

LEMMA TryEndCloses ==
  ASSUME EInv, TryEnd
  PROVE  HandlersAreOpen'
  <1> SUFFICES ASSUME Structured PROVE HandlersAreOpen'
    BY DEF HandlersAreOpen, Structured, TryEnd
  <1>1. /\ TypeOK /\ HandlersAreOpen /\ frames # <<>> /\ running /\ Cur.open > 0
        /\ handlers' = Popped /\ program' = program
        /\ frames' = [frames EXCEPT ![Depth].open = Cur.open - 1]
    BY DEF EInv, Control, TryEnd, Cur
  <1>2. handlers # <<>> /\ Innermost.count = Depth /\ Innermost.at = Cur.open - 1
    <2>1. Depth \in 1..Depth /\ Cur = frames[Depth] /\ frames[Depth].open > 0
      BY <1>1, FrameFacts
    <2>2. handlers # <<>>
      BY <2>1, SomeHandler
    <2>3. Innermost.count \in 1..Depth /\ Depth <= Innermost.count
      BY <2>1, <2>2, LastHandler
    <2>4. Innermost.count = Depth
      BY <2>1, <2>3
    <2>5. QED
      BY <2>1, <2>2, <2>4, LastHandler
  <1>3. /\ Depth \in Nat /\ DOMAIN frames = 1..Depth /\ Cur = frames[Depth]
        /\ Cur.open - 1 \in Nat
        /\ \A k \in DOMAIN frames : frames[k].open \in Nat
    BY <1>1, FrameFacts DEF FrameType
  <1>4. /\ DOMAIN frames' = 1..Depth
        /\ \A k \in 1..Depth - 1 : frames'[k] = frames[k]
        /\ frames'[Depth].open = Cur.open - 1 /\ frames'[Depth].code = Cur.code
    BY <1>1, <1>3, MoveFacts, PlaceFacts
  <1>5. handlers' = SubSeq(handlers, 1, Len(handlers) - 1) /\ handlers \in Seq(HandlerType)
    BY <1>1, <1>2, HandlerFacts DEF Popped
  <1>6. QED
    BY <1>1, <1>2, <1>3, <1>4, <1>5, Popping

LEMMA ThrowCloses ==
  ASSUME EInv, Throw
  PROVE  HandlersAreOpen'
  <1> SUFFICES ASSUME Structured PROVE HandlersAreOpen'
    BY DEF HandlersAreOpen, Structured, Throw
  <1>1. /\ TypeOK /\ HandlersAreOpen /\ frames # <<>> /\ running /\ program' = program
    BY DEF EInv, Control, Throw
  <1>2. /\ Depth \in Nat /\ DOMAIN frames = 1..Depth
        /\ \A k \in DOMAIN frames : frames[k].open \in Nat
    BY <1>1, FrameFacts
  <1>3. handlers # <<>> /\ handlers' = SubSeq(handlers, 1, Len(handlers) - 1)
    BY DEF Throw
  <1>4. /\ handlers \in Seq(HandlerType)
        /\ Innermost.count \in 1..Depth /\ Innermost.code = frames[Innermost.count].code
    BY <1>1, <1>2, <1>3, HandlerFacts DEF HandlersAreOpen
  <1>5. Kept(Innermost) = Innermost.count
    BY <1>1, <1>4, ThrowFacts
  <1>6. /\ DOMAIN frames' = 1..Innermost.count
        /\ \A k \in 1..Innermost.count - 1 : frames'[k] = frames[k]
        /\ frames'[Innermost.count].code = Innermost.code
        /\ frames'[Innermost.count].open = Innermost.at
    BY <1>1, <1>5, ThrowFacts
  <1>7. QED
    BY <1>1, <1>2, <1>3, <1>4, <1>6, Popping
\* In structured programs, nothing is left on the array when no call is in a
\* block.
LEMMA NoneOpen ==
  ASSUME EInv, Structured, \A k \in DOMAIN frames : frames[k].open = 0
  PROVE  handlers = <<>>
  <1>1. DOMAIN frames = 1..Depth
    BY FrameFacts DEF EInv
  <1>2. ASSUME handlers # <<>> PROVE FALSE
    <2>1. Innermost.count \in 1..Depth /\ frames[Innermost.count].open > 0
      BY <1>2, LastHandler
    <2>2. QED
      BY <1>1, <2>1
  <1>3. QED
    BY <1>2

\* The frames a fiber takes along.
LEMMA CutTop ==
  ASSUME frames \in Seq(FrameType), NEW b \in Nat, b < Depth
  PROVE  /\ DOMAIN SubSeq(frames, b + 1, Depth) = 1..Depth - b
         /\ \A i \in 1..Depth - b : SubSeq(frames, b + 1, Depth)[i] = frames[b + i]
  <1>1. Depth \in Nat /\ Depth = Len(frames)
    BY DEF Depth
  <1>2. Depth - (b + 1) + 1 = Depth - b
    BY <1>1
  <1>3. DOMAIN SubSeq(frames, b + 1, Depth) = 1..Depth - b
    BY <1>1, <1>2
  <1>4. ASSUME NEW i \in 1..Depth - b
        PROVE  SubSeq(frames, b + 1, Depth)[i] = frames[b + i]
    <2>1. b + 1 + i - 1 = b + i
      BY <1>4
    <2>2. QED
      BY <1>1, <1>2, <2>1, <1>4
  <1>5. QED
    BY <1>3, <1>4

\* The frames of suspended fibers are outside try blocks, and a program ends
\* with an empty array.
Quiet ==
  /\ Structured /\ ~running => handlers = <<>>
  /\ Structured => \A f \in Fibers : \A i \in DOMAIN fiber[f].frames :
                     fiber[f].frames[i].open = 0

LEMMA QuietStep ==
  ASSUME EInv, Next
  PROVE  Quiet'
  <1>1. TypeOK /\ Control /\ program' = program /\ (Structured' <=> Structured)
    <2>1. TypeOK /\ Control
      BY DEF EInv
    <2>2. program' = program
      BY <2>1, TypeStep
    <2>3. QED
      BY <2>1, <2>2 DEF Structured
  <1>2. /\ running \in BOOLEAN /\ fiber \in [Fibers -> FiberType]
        /\ active \in Fibers \cup {NoFiber}
    BY <1>1 DEF TypeOK, FiberType
  <1>3. Quiet
    BY <1>1 DEF Control, Quiet
  <1>4. SUFFICES ASSUME Structured
        PROVE  /\ ~running' => handlers' = <<>>
               /\ \A f \in Fibers : \A i \in DOMAIN fiber'[f].frames :
                    fiber'[f].frames[i].open = 0
    BY <1>1 DEF Quiet
  <1>5. CASE \E id \in Activations : Interpret(id) \/ Call(id) \/ TailCall(id)
    <2> PICK id \in Activations : Interpret(id) \/ Call(id) \/ TailCall(id)
      BY <1>5
    <2>1. fiber' = fiber /\ (running' = TRUE \/ (running /\ running' = running))
      BY DEF Interpret, Call, TailCall, MayLeave, fiberVars
    <2>2. QED
      BY <1>3, <1>4, <2>1 DEF Quiet
  <1>6. CASE NewVM
    <2>1. handlers' = <<>> /\ \A f \in Fibers : fiber'[f].frames = <<>>
      BY <1>6 DEF NewVM, Dormant
    <2>2. QED
      BY <2>1
  <1>7. CASE Return
    <2>1. /\ running /\ Cur.open = 0 /\ running' = (Depth > 1) /\ handlers' = handlers
          /\ \/ fiber' = fiber
             \/ active \in Fibers /\ fiber' = [fiber EXCEPT ![active].state = "done"]
      BY <1>2, <1>4, <1>7 DEF Return, MayLeave, Structured, fiberVars
    <2>2. \A f \in Fibers : fiber'[f].frames = fiber[f].frames
      <3>1. CASE fiber' = [fiber EXCEPT ![active].state = "done"]
        <4>1. fiber' = [fiber EXCEPT ![active] = [fiber[active] EXCEPT !.state = "done"]]
          BY <3>1
        <4>2. \A f \in Fibers : [fiber[f] EXCEPT !.state = "done"].frames = fiber[f].frames
          BY <1>2 DEF FiberType
        <4>3. QED
          BY <1>2, <4>1, <4>2
      <3>2. QED
        BY <2>1, <3>1
    <2>3. ASSUME ~running' PROVE handlers' = <<>>
      <3>1. ~(Depth > 1) /\ frames # <<>>
        BY <1>1, <2>1, <2>3 DEF Control
      <3>2. /\ Depth \in Nat /\ Depth >= 1 /\ DOMAIN frames = 1..Depth
            /\ Cur = frames[Depth]
        BY <1>1, <3>1, FrameFacts
      <3>3. \A k \in DOMAIN frames : k = Depth
        BY <3>1, <3>2
      <3>4. \A k \in DOMAIN frames : frames[k].open = 0
        BY <2>1, <3>2, <3>3
      <3>5. QED
        BY <1>4, <2>1, <3>4, NoneOpen
    <2>4. QED
      BY <1>3, <1>4, <2>2, <2>3 DEF Quiet
  <1>8. CASE TryBegin \/ TryEnd \/ Throw \/ Fail \/ \E n \in 0..MaxTry : Jump(n)
    <2>1. fiber' = fiber /\ (running' \/ (handlers' = handlers /\ handlers = <<>>))
      BY <1>8 DEF TryBegin, TryEnd, Throw, Fail, Jump, fiberVars
    <2>2. QED
      BY <1>3, <1>4, <2>1 DEF Quiet
  <1>9. CASE \E f \in Fibers, id \in Activations : ResumeCreated(f, id)
    <2> PICK f \in Fibers, id \in Activations : ResumeCreated(f, id)
      BY <1>9
    <2>1. running /\ running' = running
      BY DEF ResumeCreated, MayResume
    <2>2. fiber' = [fiber EXCEPT ![f] = [fiber[f] EXCEPT !.state = "running", !.base = Resumed]]
      BY <1>2 DEF ResumeCreated
    <2>3. \A g \in Fibers : fiber'[g].frames = fiber[g].frames
      <3>1. [fiber[f] EXCEPT !.state = "running", !.base = Resumed].frames = fiber[f].frames
        BY <1>2 DEF FiberType
      <3>2. QED
        BY <1>2, <2>2, <3>1
    <2>4. QED
      BY <1>3, <1>4, <2>1, <2>3 DEF Quiet
  <1>10. CASE \E f \in Fibers : ResumeSuspended(f)
    <2>1. PICK f \in Fibers : ResumeSuspended(f)
      BY <1>10
    <2>2. running' /\ \A g \in Fibers : fiber'[g].frames = fiber[g].frames
                                        \/ fiber'[g].frames = <<>>
      BY <1>2, <2>1 DEF ResumeSuspended, MayResume, FiberType
    <2>3. QED
      BY <1>3, <1>4, <2>2 DEF Quiet
  <1>11. CASE Yield
    <2> DEFINE b == fiber[active].base
               cut == SubSeq(frames, b + 1, Depth)
    <2>1. /\ running' /\ active \in Fibers /\ Depth > b
          /\ \A i \in b + 1..Depth : ~(frames[i].open > 0)
          /\ fiber' = [fiber EXCEPT ![active].state = "suspended", ![active].frames = cut]
      BY <1>2, <1>4, <1>11 DEF Yield, Structured
    <2>2. b \in Nat /\ frames \in Seq(FrameType) /\ Depth = Len(frames) /\ Depth \in Nat
      BY <1>1, <1>2, <2>1, BoundsAssumption DEF FiberType, TypeOK, Depth
    <2>3. \A i \in 1..Depth - b : b + i \in b + 1..Depth /\ b + i \in 1..Depth
      BY <2>2
    <2>4. \A i \in DOMAIN cut : cut[i].open = 0
      <3>1. \A k \in 1..Depth : frames[k].open \in Nat
        BY <1>1, FrameFacts
      <3>2. DOMAIN cut = 1..Depth - b /\ \A i \in 1..Depth - b : cut[i] = frames[b + i]
        BY <2>1, <2>2, CutTop
      <3>3. ASSUME NEW i \in DOMAIN cut PROVE cut[i].open = 0
        <4>1. cut[i] = frames[b + i] /\ b + i \in b + 1..Depth /\ b + i \in 1..Depth
          BY <2>3, <3>2, <3>3
        <4>2. frames[b + i].open = 0
          <5>1. ~(frames[b + i].open > 0) /\ frames[b + i].open \in Nat
            BY <2>1, <3>1, <4>1
          <5>2. QED
            BY <5>1
        <4> HIDE DEF cut, b
        <4>3. QED
          BY <4>1, <4>2
      <3>4. QED
        BY <3>3
    <2>5. \A g \in Fibers : fiber'[g].frames = IF g = active THEN cut ELSE fiber[g].frames
      BY <1>2, <2>1 DEF FiberType
    <2>6. \A g \in Fibers : \A i \in DOMAIN fiber[g].frames : fiber[g].frames[i].open = 0
      BY <1>3, <1>4 DEF Quiet
    <2> HIDE DEF cut
    <2>7. ASSUME NEW g \in Fibers, NEW i \in DOMAIN fiber'[g].frames
          PROVE  fiber'[g].frames[i].open = 0
      <3>1. CASE g = active
        <4>1. fiber'[g].frames = cut
          BY <2>5, <3>1
        <4>2. QED
          BY <2>4, <2>7, <4>1
      <3>2. CASE g # active
        <4>1. fiber'[g].frames = fiber[g].frames
          BY <2>5, <3>2
        <4>2. QED
          BY <2>6, <2>7, <4>1
      <3>3. QED
        BY <3>1, <3>2
    <2>8. QED
      BY <2>1, <2>7
  <1>12. QED
    BY <1>5, <1>6, <1>7, <1>8, <1>9, <1>10, <1>11 DEF Next

LEMMA NextInv ==
  ASSUME EInv, Next
  PROVE  EInv'
  <1>1. TypeOK /\ HandlersAreOpen /\ Control
    BY DEF EInv
  <1>2. /\ TypeOK' /\ program' = program
        /\ running' => frames' # <<>>
        /\ active' # NoFiber => fiber'[active'].base >= 1
    BY <1>1, TypeStep
  <1>3. /\ Depth \in Nat /\ DOMAIN frames = 1..Depth
        /\ frames # <<>> => Depth >= 1 /\ Cur = frames[Depth]
        /\ \A k \in DOMAIN frames : frames[k].open \in Nat
    BY <1>1, FrameFacts
  <1>4. ASSUME NEW id \in Activations, NEW entry \in BOOLEAN, Push(id, entry),
               handlers' = handlers
        PROVE  HandlersAreOpen'
    <2>1. /\ DOMAIN frames' = 1..Depth + 1
          /\ \A k \in 1..Depth : frames'[k] = frames[k]
          /\ frames'[Depth + 1].open = 0
      BY <1>1, <1>4, PushFacts
    <2>2. \A k \in 1..Depth + 1 : k \in 1..Depth \/ k = Depth + 1
      BY <1>3
    <2>3. \A k \in 1..Depth : k \in 1..Depth + 1
      BY <1>3
    <2>4. QED
      BY <1>2, <1>3, <1>4, <2>1, <2>2, <2>3, Rearranged
  <1>5. ASSUME NEW id \in Activations, TailCall(id) PROVE HandlersAreOpen'
    <2>1. /\ frames # <<>> /\ handlers' = handlers /\ (Structured => Cur.open = 0)
          /\ frames' = [frames EXCEPT ![Depth] = Frame(id, Cur.entry)]
      BY <1>1, <1>5 DEF TailCall, MayLeave, Control, Structured
    <2>2. Frame(id, Cur.entry) \in FrameType /\ Frame(id, Cur.entry).open = 0
      BY <1>1, <2>1, FrameFacts DEF Frame, FrameType
    <2>3. /\ DOMAIN frames' = 1..Depth /\ frames'[Depth].open = 0
          /\ \A k \in 1..Depth - 1 : frames'[k] = frames[k]
      BY <1>1, <2>1, <2>2, PlaceFacts
    <2>4. \A k \in 1..Depth : k \in 1..Depth - 1 \/ k = Depth
      BY <1>3
    <2>5. QED
      BY <1>2, <1>3, <2>1, <2>3, <2>4, Rearranged
  <1>6. ASSUME Return PROVE HandlersAreOpen'
    <2>1. /\ frames # <<>> /\ handlers' = handlers /\ (Structured => Cur.open = 0)
          /\ frames' = SubSeq(frames, 1, Depth - 1)
      BY <1>1, <1>6 DEF Return, MayLeave, Control, Structured
    <2>2. Depth - 1 \in 0..Depth
      BY <1>3, <2>1
    <2>3. /\ DOMAIN frames' = 1..Depth - 1
          /\ \A k \in 1..Depth - 1 : frames'[k] = frames[k]
      BY <1>1, <2>1, <2>2, CutFacts
    <2>4. \A k \in 1..Depth : k \in 1..Depth - 1 \/ k = Depth
      BY <1>3
    <2>5. \A k \in 1..Depth - 1 : k \in 1..Depth
      BY <1>3
    <2>6. QED
      BY <1>2, <1>3, <2>1, <2>3, <2>4, <2>5, Rearranged
  <1>7. ASSUME NEW n \in 0..MaxTry, Jump(n) PROVE HandlersAreOpen'
    <2>1. "leave" \in program
      BY <1>7 DEF Jump
    <2>2. ~Structured'
      BY <1>2, <2>1 DEF Structured
    <2>3. QED
      BY <2>2 DEF HandlersAreOpen
  <1>8. ASSUME NewVM PROVE HandlersAreOpen'
    BY <1>8 DEF NewVM, HandlersAreOpen
  <1>9. ASSUME Fail PROVE HandlersAreOpen'
    <2>1. frames' = frames /\ handlers' = handlers
      BY <1>9 DEF Fail
    <2>2. QED
      BY <1>2, <2>1, Rearranged
  <1>10. ASSUME NEW f \in Fibers, ResumeSuspended(f) PROVE HandlersAreOpen'
    <2>1. handlers' = handlers
      BY <1>10 DEF ResumeSuspended
    <2>2. /\ \A k \in 1..Depth : frames'[k] = frames[k]
          /\ DOMAIN frames' = 1..Depth + Len(fiber[f].frames) /\ Len(fiber[f].frames) \in Nat
          /\ \A k \in DOMAIN frames' : k \in 1..Depth \/
               (k - Depth \in DOMAIN fiber[f].frames /\ frames'[k] = fiber[f].frames[k - Depth])
      BY <1>1, <1>10, ResumedFacts
    <2>3. \A k \in 1..Depth : k \in DOMAIN frames'
      BY <1>3, <2>2
    <2>4. Structured => \A i \in DOMAIN fiber[f].frames : ~(fiber[f].frames[i].open > 0)
      BY <1>1, <1>10 DEF Control
    <2>5. QED
      BY <1>2, <1>3, <2>1, <2>2, <2>3, <2>4, Rearranged
  <1>11. ASSUME Yield PROVE HandlersAreOpen'
    <2> DEFINE b == fiber[active].base
    <2>1. /\ handlers' = handlers /\ active \in Fibers /\ Depth > b
          /\ frames' = SubSeq(frames, 1, b)
          /\ Structured => \A i \in b + 1..Depth : ~(frames[i].open > 0)
      BY <1>1, <1>11 DEF Yield, TypeOK, Structured
    <2>2. b \in Nat
      BY <1>1, <2>1, BoundsAssumption DEF TypeOK
    <2>3. b \in 0..Depth
      BY <1>3, <2>1, <2>2
    <2>4. DOMAIN frames' = 1..b /\ \A k \in 1..b : frames'[k] = frames[k]
      BY <1>1, <2>1, <2>3, CutFacts
    <2>5. /\ \A k \in 1..Depth : k \in 1..b \/ k \in b + 1..Depth
          /\ \A k \in 1..b : k \in 1..Depth
      BY <1>3, <2>3
    <2>6. QED
      BY <1>2, <1>3, <2>1, <2>4, <2>5, Rearranged
  <1>12. HandlersAreOpen'
    <2>1. ASSUME NEW id \in Activations, Interpret(id) \/ Call(id)
          PROVE  HandlersAreOpen'
      BY <1>4, <2>1 DEF Interpret, Call
    <2>2. ASSUME NEW f \in Fibers, NEW id \in Activations, ResumeCreated(f, id)
          PROVE  HandlersAreOpen'
      BY <1>4, <2>2 DEF ResumeCreated
    <2>3. CASE TryBegin \/ TryEnd \/ Throw
      BY <2>3, TryBeginOpens, TryEndCloses, ThrowCloses
    <2>4. QED
      BY <1>5, <1>6, <1>7, <1>8, <1>9, <1>10, <1>11, <2>1, <2>2, <2>3 DEF Next
  <1>13. Quiet'
    BY QuietStep
  <1>14. QED
    BY <1>2, <1>12, <1>13 DEF EInv, Control, Quiet

LEMMA StutterInv ==
  ASSUME EInv, UNCHANGED vars
  PROVE  EInv'
  BY DEF EInv, TypeOK, HandlersAreOpen, Control, Structured, Before, Depth,
         vars, fiberVars

\* EInv is an invariant, of any program.
THEOREM Inductive == Spec => []EInv
  <1>1. EInv /\ [Next]_vars => EInv'
    BY NextInv, StutterInv
  <1>2. QED
    BY <1>1, InitInv, PTL DEF Spec

\* Frames, handlers and fibers stay what they are, within MAX_FRAMES and
\* MAX_TRY, whatever a program does.
THEOREM TypesHold == Spec => []TypeOK
  BY Inductive, PTL DEF EInv

\* In programs that leave their try blocks by the end or by an exception, the
\* array holds the handlers of the open blocks, in order, and no others.
THEOREM OpenBlocksHaveHandlers == Spec => []HandlersAreOpen
  BY Inductive, PTL DEF EInv
-----------------------------------------------------------------------------
(* The refinement: what each step does to the places of the calls *)

PlaceType == [code : Activations, open : Nat]

LEMMA PlacesFacts ==
  ASSUME NEW s \in Seq(FrameType)
  PROVE  /\ Places(s) \in Seq(PlaceType) /\ Len(Places(s)) = Len(s)
         /\ Len(s) \in Nat
         /\ DOMAIN Places(s) = 1..Len(s)
         /\ \A i \in 1..Len(s) : Places(s)[i] = [code |-> s[i].code, open |-> s[i].open]
  <1> DEFINE n == Len(s)
             P == [i \in 1..n |-> [code |-> s[i].code, open |-> s[i].open]]
  <1>1. n \in Nat /\ DOMAIN s = 1..n /\ \A i \in 1..n : s[i] \in FrameType
    OBVIOUS
  <1>2. \A i \in 1..n : [code |-> s[i].code, open |-> s[i].open] \in PlaceType
    BY <1>1 DEF FrameType, PlaceType
  <1>3. Places(s) = P
    BY <1>1 DEF Places
  <1>4. P \in [1..n -> PlaceType]
    BY <1>2
  <1>5. P \in Seq(PlaceType) /\ Len(P) = n
    <2> HIDE DEF P
    <2>1. QED
      BY <1>1, <1>4
  <1>6. QED
    BY <1>1, <1>3, <1>5

\* The places of frames are given one by one.
LEMMA SamePlaces ==
  ASSUME NEW s \in Seq(FrameType), NEW p \in Seq(PlaceType), Len(p) = Len(s),
         \A i \in 1..Len(s) : p[i] = [code |-> s[i].code, open |-> s[i].open]
  PROVE  Places(s) = p
  <1>1. Places(s) \in Seq(PlaceType) /\ Len(Places(s)) = Len(p)
    BY PlacesFacts
  <1>2. \A i \in 1..Len(Places(s)) : Places(s)[i] = p[i]
    BY PlacesFacts, <1>1
  <1>3. QED
    BY <1>1, <1>2, SeqEqual

LEMMA NoPlaces == Places(<<>>) = <<>>
  BY DEF Places

LEMMA PlacesPushed ==
  ASSUME TypeOK, NEW id \in Activations, NEW entry \in BOOLEAN, Push(id, entry)
  PROVE  Places(frames') = Append(Places(frames), Lexical!At(id, 0))
  <1> DEFINE p == Append(Places(frames), Lexical!At(id, 0))
  <1>1. /\ frames \in Seq(FrameType) /\ frames' \in Seq(FrameType)
        /\ Depth = Len(frames) /\ Len(frames') = Depth + 1 /\ Depth \in Nat
        /\ \A k \in 1..Depth : frames'[k] = frames[k]
        /\ frames'[Depth + 1] = Frame(id, entry)
    BY PushFacts, FrameFacts DEF TypeOK, Depth
  <1>2. Lexical!At(id, 0) \in PlaceType /\ Lexical!At(id, 0) = [code |-> id, open |-> 0]
    BY DEF PlaceType, Lexical!At
  <1>3. /\ Places(frames) \in Seq(PlaceType) /\ Len(Places(frames)) = Depth
        /\ \A i \in 1..Depth : Places(frames)[i] = [code |-> frames[i].code,
                                                    open |-> frames[i].open]
    BY <1>1, PlacesFacts
  <1>4. /\ p \in Seq(PlaceType) /\ Len(p) = Depth + 1
        /\ \A i \in 1..Depth : p[i] = Places(frames)[i]
        /\ p[Depth + 1] = Lexical!At(id, 0)
    BY <1>2, <1>3, AppendProperties
  <1>5. ASSUME NEW i \in 1..Depth + 1
        PROVE  p[i] = [code |-> frames'[i].code, open |-> frames'[i].open]
    <2>1. CASE i = Depth + 1
      BY <1>1, <1>2, <1>4, <2>1 DEF Frame
    <2>2. CASE i # Depth + 1
      <3>1. i \in 1..Depth
        BY <1>1, <1>5, <2>2
      <3>2. QED
        BY <1>1, <1>3, <1>4, <3>1
    <2>3. QED
      BY <2>1, <2>2
  <1> HIDE DEF p
  <1>6. Places(frames') = p
    BY <1>1, <1>4, <1>5, SamePlaces
  <1>7. QED
    BY <1>6 DEF p

LEMMA PlacesMoved ==
  ASSUME TypeOK, frames # <<>>, NEW F \in FrameType, frames' = [frames EXCEPT ![Depth] = F]
  PROVE  /\ Places(frames) # <<>> /\ Len(Places(frames)) = Depth
         /\ Places(frames)[Depth] = [code |-> Cur.code, open |-> Cur.open]
         /\ Places(frames') = [Places(frames) EXCEPT ![Depth] = Lexical!At(F.code, F.open)]
  <1> DEFINE e == Lexical!At(F.code, F.open)
             p == [Places(frames) EXCEPT ![Depth] = e]
  <1>1. /\ frames \in Seq(FrameType) /\ frames' \in Seq(FrameType)
        /\ Depth = Len(frames) /\ Len(frames') = Depth /\ Depth \in Nat /\ Depth \in 1..Depth
        /\ \A k \in 1..Depth - 1 : frames'[k] = frames[k]
        /\ frames'[Depth] = F /\ Cur = frames[Depth]
    BY PlaceFacts, FrameFacts DEF TypeOK, Depth
  <1>2. e \in PlaceType /\ e = [code |-> F.code, open |-> F.open]
    BY DEF PlaceType, FrameType, Lexical!At
  <1>3. /\ Places(frames) \in Seq(PlaceType) /\ Len(Places(frames)) = Depth
        /\ \A i \in 1..Depth : Places(frames)[i] = [code |-> frames[i].code,
                                                    open |-> frames[i].open]
    BY <1>1, PlacesFacts
  <1> HIDE DEF e
  <1>4. /\ p \in Seq(PlaceType) /\ Len(p) = Depth
        /\ \A i \in 1..Depth : p[i] = IF i = Depth THEN e ELSE Places(frames)[i]
    BY <1>1, <1>2, <1>3, ExceptSeq
  <1> HIDE DEF p
  <1>5. ASSUME NEW i \in 1..Depth
        PROVE  p[i] = [code |-> frames'[i].code, open |-> frames'[i].open]
    <2>1. CASE i = Depth
      BY <1>1, <1>2, <1>4, <2>1
    <2>2. CASE i # Depth
      <3>1. i \in 1..Depth - 1
        BY <1>1, <1>5, <2>2
      <3>2. frames'[i] = frames[i]
        BY <1>1, <3>1
      <3>3. QED
        BY <1>3, <1>4, <2>2, <3>2
    <2>3. QED
      BY <2>1, <2>2
  <1>6. Places(frames') = p
    BY <1>1, <1>4, <1>5, SamePlaces
  <1>7. Places(frames) # <<>>
    BY <1>1, <1>3
  <1>8. QED
    BY <1>1, <1>3, <1>6, <1>7 DEF p, e

LEMMA PlacesCut ==
  ASSUME NEW s \in Seq(FrameType), NEW m \in 1..Len(s) + 1, NEW n \in m - 1..Len(s)
  PROVE  Places(SubSeq(s, m, n)) = SubSeq(Places(s), m, n)
  <1> DEFINE t == SubSeq(s, m, n)
             p == SubSeq(Places(s), m, n)
             l == n - m + 1
  <1>1. Len(s) \in Nat /\ m \in Int /\ n \in Int /\ l \in Nat
        /\ l = (IF m <= n THEN n - m + 1 ELSE 0)
    OBVIOUS
  <1>2. \A i \in m..n : i \in 1..Len(s)
    BY <1>1
  <1>3. \A i \in 1..l : m + i - 1 \in 1..Len(s)
    BY <1>1
  <1>4. /\ Places(s) \in Seq(PlaceType) /\ Len(Places(s)) = Len(s)
        /\ \A i \in 1..Len(s) : Places(s)[i] = [code |-> s[i].code, open |-> s[i].open]
    BY PlacesFacts
  <1>5. \A i \in m..n : s[i] \in FrameType /\ Places(s)[i] \in PlaceType
    <2>1. \A i \in 1..Len(s) : s[i] \in FrameType /\ Places(s)[i] \in PlaceType
      BY <1>4, ElementOfSeq
    <2>2. QED
      BY <1>2, <2>1
  <1>6. /\ t \in Seq(FrameType) /\ Len(t) = l
        /\ \A i \in 1..l : t[i] = s[m + i - 1]
    BY <1>1, <1>5, SubSeqProperties
  <1>7. /\ p \in Seq(PlaceType) /\ Len(p) = l
        /\ \A i \in 1..l : p[i] = Places(s)[m + i - 1]
    BY <1>1, <1>5, SubSeqProperties
  <1> HIDE DEF t, p, l
  <1>8. \A i \in 1..l : p[i] = [code |-> t[i].code, open |-> t[i].open]
    BY <1>3, <1>4, <1>6, <1>7
  <1>9. Places(t) = p
    BY <1>6, <1>7, <1>8, SamePlaces
  <1>10. QED
    BY <1>9 DEF t, p

LEMMA PlacesJoined ==
  ASSUME NEW s \in Seq(FrameType), NEW t \in Seq(FrameType)
  PROVE  Places(s \o t) = Places(s) \o Places(t)
  <1> DEFINE p == Places(s) \o Places(t)
             u == s \o t
  <1>1. Len(s) \in Nat /\ Len(t) \in Nat
    OBVIOUS
  <1>2. /\ Places(s) \in Seq(PlaceType) /\ Len(Places(s)) = Len(s)
        /\ \A i \in 1..Len(s) : Places(s)[i] = [code |-> s[i].code, open |-> s[i].open]
        /\ Places(t) \in Seq(PlaceType) /\ Len(Places(t)) = Len(t)
        /\ \A i \in 1..Len(t) : Places(t)[i] = [code |-> t[i].code, open |-> t[i].open]
    BY PlacesFacts
  <1>3. /\ u \in Seq(FrameType) /\ Len(u) = Len(s) + Len(t)
        /\ \A i \in 1..Len(s) + Len(t) : u[i] = IF i <= Len(s) THEN s[i] ELSE t[i - Len(s)]
    BY ConcatProperties
  <1>4. /\ p \in Seq(PlaceType) /\ Len(p) = Len(s) + Len(t)
        /\ \A i \in 1..Len(s) + Len(t) :
             p[i] = IF i <= Len(s) THEN Places(s)[i] ELSE Places(t)[i - Len(s)]
    <2> DEFINE a == Places(s)
               c == Places(t)
    <2>1. /\ p \in Seq(PlaceType) /\ Len(p) = Len(a) + Len(c)
          /\ \A i \in 1..Len(a) + Len(c) : p[i] = IF i <= Len(a) THEN a[i] ELSE c[i - Len(a)]
      <3>1. a \in Seq(PlaceType) /\ c \in Seq(PlaceType) /\ p = a \o c
        BY <1>2
      <3> HIDE DEF a, c, p
      <3>2. QED
        BY <3>1, ConcatProperties
    <2> HIDE DEF p
    <2>2. QED
      BY <1>2, <2>1
  <1> HIDE DEF p, u
  <1>5. ASSUME NEW i \in 1..Len(s) + Len(t)
        PROVE  p[i] = [code |-> u[i].code, open |-> u[i].open]
    <2>1. CASE i <= Len(s)
      <3>1. i \in 1..Len(s)
        BY <1>1, <1>5, <2>1
      <3>2. QED
        BY <1>2, <1>3, <1>4, <1>5, <2>1, <3>1
    <2>2. CASE ~(i <= Len(s))
      <3>1. i - Len(s) \in 1..Len(t)
        BY <1>1, <1>5, <2>2
      <3>2. QED
        BY <1>2, <1>3, <1>4, <1>5, <2>2, <3>1
    <2>3. QED
      BY <2>1, <2>2
  <1>6. Places(u) = p
    BY <1>3, <1>4, <1>5, SamePlaces
  <1>7. QED
    BY <1>6 DEF p, u
\* Every step of a structured program is one of Handlers, or none.
LEMMA StepPromised ==
  ASSUME EInv, Next, Promised
  PROVE  Lexical!Next \/ (Calls' = Calls /\ Parked' = Parked)
  <1> DEFINE Goal == Lexical!Next \/ (Calls' = Calls /\ Parked' = Parked)
  <1>1. /\ TypeOK /\ Control /\ TypeOK' /\ program' = program
        /\ Structured /\ "again" \notin program
    BY TypeStep DEF EInv, Promised
  <1>2. /\ running \in BOOLEAN /\ fiber \in [Fibers -> FiberType]
        /\ fiber' \in [Fibers -> FiberType]
        /\ frames \in Seq(FrameType) /\ active \in Fibers \cup {NoFiber}
        /\ \A f \in Fibers : fiber[f].frames \in Seq(FrameType)
    <2>1. fiber \in [Fibers -> FiberType] /\ fiber' \in [Fibers -> FiberType]
      BY <1>1 DEF TypeOK, FiberType, FrameType
    <2>2. \A f \in Fibers : fiber[f].frames \in Seq(FrameType)
      BY <2>1 DEF FiberType
    <2>3. QED
      BY <1>1, <2>1, <2>2 DEF TypeOK
  <1>3. /\ running => frames # <<>> /\ Calls = Places(frames)
        /\ ~running => Calls = <<>>
        /\ running' => Calls' = Places(frames')
        /\ ~running' => Calls' = <<>>
    BY <1>1 DEF Control, Calls
  <1>4. ASSUME \A f \in Fibers : fiber'[f].frames = fiber[f].frames
        PROVE  Parked' = Parked
    BY <1>4 DEF Parked
  <1>5. /\ Depth \in Nat /\ Depth = Len(frames)
        /\ running => /\ Depth >= 1 /\ Cur \in FrameType
                      /\ Len(Calls) = Depth /\ Calls # <<>>
                      /\ Lexical!Top = [code |-> Cur.code, open |-> Cur.open]
    <2>1. Depth \in Nat /\ Depth = Len(frames)
      BY <1>1, FrameFacts DEF Depth
    <2>2. ASSUME running PROVE /\ Depth >= 1 /\ Cur \in FrameType
                               /\ Len(Calls) = Depth /\ Calls # <<>>
                               /\ Lexical!Top = [code |-> Cur.code, open |-> Cur.open]
      <3>1. /\ Depth >= 1 /\ Cur \in FrameType /\ Cur = frames[Depth]
            /\ Calls = Places(frames) /\ Depth \in 1..Len(frames)
        BY <1>1, <1>3, <2>1, <2>2, FrameFacts
      <3>2. /\ Places(frames) \in Seq(PlaceType) /\ Len(Places(frames)) = Depth
            /\ Places(frames)[Depth] = [code |-> Cur.code, open |-> Cur.open]
        BY <1>2, <2>1, <3>1, PlacesFacts
      <3>3. Calls # <<>>
        BY <3>1, <3>2
      <3>4. QED
        BY <3>1, <3>2, <3>3 DEF Lexical!Top
    <2>3. QED
      BY <2>1, <2>2
  <1>6. ASSUME NEW id \in Activations, Interpret(id) PROVE Goal
    <2>1. /\ ~running /\ frames = <<>> /\ Push(id, TRUE) /\ running' = TRUE /\ fiber' = fiber
      BY <1>1, <1>6 DEF Interpret, fiberVars
    <2>2. Calls = Places(frames)
      BY <1>3, <2>1, NoPlaces
    <2>3. Calls' = Append(Calls, Lexical!At(id, 0))
      BY <1>1, <1>3, <2>1, <2>2, PlacesPushed
    <2>4. Parked' = Parked
      BY <1>4, <2>1
    <2>5. QED
      BY <2>3, <2>4 DEF Lexical!Next, Lexical!Call
  <1>7. ASSUME NEW id \in Activations, running, running' = running, Push(id, FALSE),
               Parked' = Parked
        PROVE  Goal
    <2>1. Calls' = Append(Calls, Lexical!At(id, 0))
      BY <1>1, <1>3, <1>7, PlacesPushed
    <2>2. QED
      BY <1>7, <2>1 DEF Lexical!Next, Lexical!Call
  <1>8. ASSUME NEW id \in Activations, Call(id) PROVE Goal
    <2>1. running /\ running' = running /\ Push(id, FALSE) /\ fiber' = fiber
      BY <1>8 DEF Call, fiberVars
    <2>2. QED
      BY <1>4, <1>7, <2>1
  <1>9. ASSUME NEW f \in Fibers, NEW id \in Activations, ResumeCreated(f, id) PROVE Goal
    <2>1. running /\ running' = running /\ Push(id, FALSE)
      BY <1>9 DEF ResumeCreated, MayResume
    <2>2. fiber' = [fiber EXCEPT ![f] = [fiber[f] EXCEPT !.state = "running", !.base = Resumed]]
      BY <1>2, <1>9 DEF ResumeCreated
    <2>3. [fiber[f] EXCEPT !.state = "running", !.base = Resumed].frames = fiber[f].frames
      BY <1>2 DEF FiberType
    <2>4. \A g \in Fibers : fiber'[g].frames = fiber[g].frames
      BY <1>2, <2>2, <2>3
    <2>5. QED
      BY <1>4, <1>7, <2>1, <2>4
  <1>10. ASSUME NewVM PROVE Goal
    <2>1. ~running /\ running' = running /\ \A f \in Fibers : fiber'[f].frames = <<>>
      BY <1>10 DEF NewVM, Dormant
    <2>2. Calls = <<>> /\ Calls' = Calls
      BY <1>3, <2>1
    <2>3. Parked' = [f \in Fibers |-> <<>>]
      BY <2>1, NoPlaces DEF Parked
    <2>4. QED
      BY <2>2, <2>3 DEF Lexical!Next, Lexical!Discard
  <1>11. ASSUME NEW F \in FrameType, running, running' = running, fiber' = fiber,
                frames' = [frames EXCEPT ![Depth] = F]
         PROVE  Lexical!Place(Lexical!At(F.code, F.open))
    <2>1. Calls' = [Calls EXCEPT ![Len(Calls)] = Lexical!At(F.code, F.open)]
      <3>1. Places(frames') = [Places(frames) EXCEPT ![Depth] = Lexical!At(F.code, F.open)]
        BY <1>1, <1>3, <1>11, PlacesMoved
      <3>2. QED
        BY <1>3, <1>5, <1>11, <3>1
    <2>2. Parked' = Parked
      BY <1>4, <1>11
    <2>3. QED
      BY <2>1, <2>2 DEF Lexical!Place
  <1>12. ASSUME NEW id \in Activations, TailCall(id) PROVE Goal
    <2> DEFINE F == Frame(id, Cur.entry)
    <2>1. /\ running /\ running' = running /\ fiber' = fiber
          /\ frames' = [frames EXCEPT ![Depth] = F]
      BY <1>12 DEF TailCall, MayLeave, fiberVars
    <2>2. F \in FrameType /\ F.code = id /\ F.open = 0
      BY <1>5, <2>1 DEF Frame, FrameType
    <2> HIDE DEF F
    <2>3. Lexical!Place(Lexical!At(id, 0))
      BY <1>11, <2>1, <2>2
    <2>4. QED
      BY <1>5, <2>1, <2>3 DEF Lexical!Next, Lexical!TailCall
  <1>13. ASSUME NEW n \in Nat, running, running' = running, fiber' = fiber,
                frames' = [frames EXCEPT ![Depth].open = n]
         PROVE  Lexical!Place(Lexical!At(Lexical!Top.code, n))
    <2> DEFINE F == [Cur EXCEPT !.open = n]
    <2>1. /\ frames' = [frames EXCEPT ![Depth] = F] /\ F \in FrameType
          /\ F.open = n /\ F.code = Cur.code
      BY <1>1, <1>3, <1>13, MoveFacts
    <2> HIDE DEF F
    <2>2. Lexical!Place(Lexical!At(F.code, F.open))
      BY <1>11, <1>13, <2>1
    <2>3. Lexical!Top.code = Cur.code
      BY <1>5, <1>13
    <2>4. QED
      BY <2>1, <2>2, <2>3
  <1>14. ASSUME TryBegin PROVE Goal
    <2>1. /\ running /\ running' = running /\ fiber' = fiber
          /\ frames' = [frames EXCEPT ![Depth].open = Cur.open + 1]
      BY <1>14 DEF TryBegin, fiberVars, Cur
    <2>2. Cur.open + 1 \in Nat /\ Lexical!Top.open = Cur.open
      BY <1>5, <2>1 DEF FrameType
    <2>3. Lexical!Place(Lexical!At(Lexical!Top.code, Cur.open + 1))
      BY <1>13, <2>1, <2>2
    <2>4. QED
      BY <1>5, <2>1, <2>2, <2>3 DEF Lexical!Next, Lexical!Enter
  <1>15. ASSUME TryEnd PROVE Goal
    <2>1. /\ running /\ running' = running /\ fiber' = fiber /\ Cur.open > 0
          /\ frames' = [frames EXCEPT ![Depth].open = Cur.open - 1]
      BY <1>15 DEF TryEnd, fiberVars, Cur
    <2>2. Lexical!Top.open = Cur.open /\ Cur.open \in Nat
      BY <1>5, <2>1 DEF FrameType
    <2>3. Cur.open - 1 \in Nat /\ Cur.open - 1 \in 0..Cur.open - 1
      BY <2>1, <2>2
    <2>4. Lexical!Place(Lexical!At(Lexical!Top.code, Cur.open - 1))
      BY <1>13, <2>1, <2>3
    <2>5. QED
      BY <1>5, <2>1, <2>2, <2>3, <2>4 DEF Lexical!Next, Lexical!Leave
  <1>16. ASSUME NEW n \in 0..MaxTry, Jump(n) PROVE Goal
    BY <1>1, <1>16 DEF Jump, Structured
  <1>17. ASSUME Return PROVE Goal
    <2>1. /\ running /\ running' = (Depth > 1)
          /\ frames' = SubSeq(frames, 1, Depth - 1)
          /\ \/ fiber' = fiber
             \/ active \in Fibers /\ fiber' = [fiber EXCEPT ![active].state = "done"]
      BY <1>2, <1>17 DEF Return, MayLeave, fiberVars
    <2>2. \A f \in Fibers : fiber'[f].frames = fiber[f].frames
      <3>1. CASE fiber' = [fiber EXCEPT ![active].state = "done"]
        <4>1. fiber' = [fiber EXCEPT ![active] = [fiber[active] EXCEPT !.state = "done"]]
          BY <3>1
        <4>2. \A f \in Fibers : [fiber[f] EXCEPT !.state = "done"].frames = fiber[f].frames
          BY <1>2 DEF FiberType
        <4>3. QED
          BY <1>2, <4>1, <4>2
      <3>2. QED
        BY <2>1, <3>1
    <2>3. Parked' = Parked
      BY <1>4, <2>2
    <2>4. /\ Depth - 1 \in 0..Len(frames) /\ Depth >= 1
          /\ 1 \in 1..Len(frames) + 1 /\ 1 - 1 = 0
      BY <1>5, <2>1
    <2>5. Places(frames') = SubSeq(Calls, 1, Len(Calls) - 1)
      BY <1>2, <1>3, <1>5, <2>1, <2>4, PlacesCut
    <2>6. Calls' = Places(frames')
      <3>1. CASE Depth > 1
        <4>1. running'
          BY <2>1, <3>1
        <4>2. QED
          BY <1>3, <4>1
      <3>2. CASE ~(Depth > 1)
        <4>1. ~running'
          BY <2>1, <3>2
        <4>2. Depth - 1 = 0 /\ Depth - 1 \in 0..Depth
          BY <1>5, <2>4, <3>2
        <4>3. frames' \in Seq(FrameType) /\ Len(frames') = 0
          BY <1>1, <2>1, <4>2, CutFacts
        <4>4. frames' = <<>>
          BY <4>3
        <4>5. QED
          BY <1>3, <4>1, <4>4, NoPlaces
      <3>3. QED
        BY <3>1, <3>2
    <2>7. QED
      BY <1>5, <2>1, <2>3, <2>5, <2>6 DEF Lexical!Next, Lexical!Return
  <1>18. ASSUME NEW k \in 1..Depth, running
         PROVE  /\ k \in DOMAIN Calls
                /\ Calls[k] = [code |-> frames[k].code, open |-> frames[k].open]
                /\ k \in Lexical!Catching <=> frames[k].open > 0
    <2>1. /\ DOMAIN Places(frames) = 1..Depth
          /\ Places(frames)[k] = [code |-> frames[k].code, open |-> frames[k].open]
      BY <1>2, <1>5, <1>18, PlacesFacts
    <2>2. k \in DOMAIN Calls /\ Calls[k] = [code |-> frames[k].code, open |-> frames[k].open]
      BY <1>3, <1>18, <2>1
    <2>3. QED
      BY <2>2 DEF Lexical!Catching
  <1>19. running => \A k \in Lexical!Catching : k \in 1..Depth
    BY <1>2, <1>3, <1>5, PlacesFacts DEF Lexical!Catching
  <1>20. ASSUME Fail PROVE Goal
    <2>1. running /\ ~running' /\ handlers = <<>> /\ fiber' = fiber
      BY <1>20 DEF Fail, fiberVars
    <2>2. Lexical!Catching = {}
      BY <1>1, <1>18, <1>19, <2>1, SomeHandler
    <2>3. Calls' = <<>> /\ Parked' = Parked
      BY <1>3, <1>4, <2>1
    <2>4. QED
      BY <2>2, <2>3 DEF Lexical!Next, Lexical!Fail
  <1>21. ASSUME Throw PROVE Goal
    <2> DEFINE k == Innermost.count
               e == Lexical!At(Calls[k].code, Calls[k].open - 1)
               s == SubSeq(Calls, 1, k - 1)
    <2>1. running /\ running' = running /\ fiber' = fiber /\ handlers # <<>>
      BY <1>21 DEF Throw, fiberVars
    <2>2. /\ k \in 1..Depth /\ frames[k].open > 0
          /\ Innermost.at = frames[k].open - 1 /\ Innermost.code = frames[k].code
          /\ \A l \in 1..Depth : frames[l].open > 0 => l <= k
      BY <1>1, <2>1, LastHandler
    <2>3. /\ k \in Lexical!Catching /\ k \in DOMAIN Calls
          /\ Calls[k] = [code |-> frames[k].code, open |-> frames[k].open]
          /\ \A l \in Lexical!Catching : l <= k
      BY <1>18, <1>19, <2>1, <2>2
    <2>4. /\ frames' \in Seq(FrameType) /\ Len(frames') = k
          /\ \A i \in 1..k - 1 : frames'[i] = frames[i]
          /\ frames'[k].code = frames[k].code /\ frames'[k].open = frames[k].open - 1
      <3>1. Kept(Innermost) = k
        BY <1>1, <1>3, <1>21, <2>1, <2>2, ThrowFacts
      <3>2. QED
        BY <1>1, <1>3, <1>21, <2>1, <2>2, <3>1, ThrowFacts
    <2>5. e \in PlaceType /\ e = [code |-> frames'[k].code, open |-> frames'[k].open]
      <3>1. frames[k].open - 1 \in Nat /\ frames[k].code \in Activations
        BY <1>1, <2>2, FrameFacts
      <3>2. QED
        BY <2>3, <2>4, <3>1 DEF Lexical!At, PlaceType
    <2>6. /\ Calls \in Seq(PlaceType) /\ k \in Nat /\ k >= 1 /\ Len(Calls) = Depth
          /\ \A i \in 1..Depth : Calls[i] = [code |-> frames[i].code, open |-> frames[i].open]
      <3>1. Places(frames) \in Seq(PlaceType)
        BY <1>2, PlacesFacts
      <3>2. QED
        BY <1>3, <1>5, <1>18, <2>1, <2>2, <3>1
    <2> HIDE DEF k, e
    <2>7. /\ s \in Seq(PlaceType) /\ Len(s) = k - 1
          /\ \A i \in 1..k - 1 : s[i] = Calls[i] /\ i \in 1..Depth
      <3>1. k - 1 \in 0..Len(Calls)
        BY <1>5, <2>2, <2>6
      <3>2. s \in Seq(PlaceType) /\ Len(s) = k - 1 /\ \A i \in 1..k - 1 : s[i] = Calls[i]
        BY <2>6, <3>1
      <3>3. QED
        BY <1>5, <2>2, <2>6, <3>2
    <2> HIDE DEF s
    <2>8. /\ Append(s, e) \in Seq(PlaceType) /\ Len(Append(s, e)) = k
          /\ \A i \in 1..k - 1 : Append(s, e)[i] = s[i]
          /\ Append(s, e)[k] = e
      <3>1. k - 1 + 1 = k
        BY <2>6
      <3>2. QED
        BY <2>5, <2>7, <3>1, AppendProperties
    <2>9. ASSUME NEW i \in 1..k
          PROVE  Append(s, e)[i] = [code |-> frames'[i].code, open |-> frames'[i].open]
      <3>1. CASE i = k
        BY <2>5, <2>8, <3>1
      <3>2. CASE i # k
        <4>1. i \in 1..k - 1
          BY <2>6, <2>9, <3>2
        <4>2. QED
          BY <2>4, <2>6, <2>7, <2>8, <4>1
      <3>3. QED
        BY <3>1, <3>2
    <2>10. Calls' = Append(s, e)
      <3>1. Places(frames') = Append(s, e)
        BY <2>4, <2>8, <2>9, SamePlaces
      <3>2. QED
        BY <1>3, <2>1, <3>1
    <2>11. Parked' = Parked
      BY <1>4, <2>1
    <2>12. Lexical!Throw
      BY <2>3, <2>10, <2>11 DEF Lexical!Throw, s, e
    <2>13. QED
      BY <2>12 DEF Lexical!Next
  <1>22. ASSUME NEW f \in Fibers, ResumeSuspended(f) PROVE Goal
    <2>1. /\ running /\ running' = running /\ frames' = frames \o fiber[f].frames
          /\ fiber' = [fiber EXCEPT ![f] = [state |-> "running", base |-> Resumed,
                                            frames |-> <<>>]]
      BY <1>22 DEF ResumeSuspended, MayResume
    <2>2. Calls' = Calls \o Parked[f]
      <3>1. Places(frames') = Places(frames) \o Places(fiber[f].frames)
        BY <1>2, <2>1, PlacesJoined
      <3>2. QED
        BY <1>3, <2>1, <3>1 DEF Parked
    <2>3. \A g \in Fibers : fiber'[g].frames = IF g = f THEN <<>> ELSE fiber[g].frames
      BY <1>2, <2>1
    <2>4. Parked' = [Parked EXCEPT ![f] = <<>>]
      BY <2>3, NoPlaces DEF Parked
    <2>5. QED
      BY <2>2, <2>4 DEF Lexical!Next, Lexical!Resume
  <1>23. ASSUME Yield PROVE Goal
    <2> DEFINE b == fiber[active].base
               cut == SubSeq(frames, b + 1, Depth)
    <2>1. /\ running /\ running' = running /\ active \in Fibers /\ Depth > b
          /\ active # NoFiber /\ frames' = SubSeq(frames, 1, b)
          /\ fiber' = [fiber EXCEPT ![active].state = "suspended", ![active].frames = cut]
      BY <1>2, <1>23 DEF Yield
    <2>2. b \in Nat /\ b >= 1
      BY <1>1, <1>2, <2>1, BoundsAssumption DEF Control, FiberType
    <2>3. b \in 1..Len(Calls) - 1 /\ b \in 0..Len(frames) /\ b + 1 \in 1..Len(frames) + 1
          /\ Depth \in b + 1 - 1..Len(frames) /\ 1 \in 1..Len(frames) + 1 /\ b \in 1 - 1..Len(frames)
      BY <1>5, <2>1, <2>2
    <2>4. Calls' = SubSeq(Calls, 1, b)
      <3>1. Places(frames') = SubSeq(Places(frames), 1, b)
        BY <1>2, <2>1, <2>3, PlacesCut
      <3>2. QED
        BY <1>3, <2>1, <3>1
    <2>5. Places(cut) = SubSeq(Calls, b + 1, Len(Calls))
      <3>1. Places(cut) = SubSeq(Places(frames), b + 1, Depth)
        <4> DEFINE m == b + 1
        <4>1. m \in 1..Len(frames) + 1 /\ Depth \in m - 1..Len(frames)
          BY <2>3
        <4> HIDE DEF m
        <4>2. Places(SubSeq(frames, m, Depth)) = SubSeq(Places(frames), m, Depth)
          BY <1>2, <4>1, PlacesCut
        <4>3. QED
          BY <4>2 DEF m
      <3>2. QED
        BY <1>3, <1>5, <2>1, <3>1
    <2>6. \A g \in Fibers : fiber'[g].frames = IF g = active THEN cut ELSE fiber[g].frames
      BY <1>2, <2>1 DEF FiberType
    <2> HIDE DEF cut, b
    <2>7. Parked' = [Parked EXCEPT ![active] = SubSeq(Calls, b + 1, Len(Calls))]
      <3> DEFINE q == SubSeq(Calls, b + 1, Len(Calls))
      <3>1. \A g \in Fibers : Places(fiber'[g].frames) =
              IF g = active THEN q ELSE Places(fiber[g].frames)
        BY <2>5, <2>6
      <3> HIDE DEF q
      <3>2. Parked' = [g \in Fibers |-> IF g = active THEN q ELSE Places(fiber[g].frames)]
        BY <3>1 DEF Parked
      <3>3. Parked' = [Parked EXCEPT ![active] = q]
        BY <2>1, <3>2 DEF Parked
      <3>4. QED
        BY <3>3 DEF q
    <2>8. QED
      BY <2>1, <2>3, <2>4, <2>7 DEF Lexical!Next, Lexical!Suspend
  <1>24. QED
    BY <1>6, <1>8, <1>9, <1>10, <1>12, <1>14, <1>15, <1>16, <1>17, <1>20, <1>21, <1>22,
       <1>23 DEF Next

LEMMA InitPromised == Init => Lexical!Init
  <1>1. ASSUME Init PROVE Calls = <<>> /\ Parked = [f \in Fibers |-> <<>>]
    BY <1>1, NoPlaces DEF Init, Calls, Parked, Dormant
  <1>2. QED
    BY <1>1 DEF Lexical!Init

\* On a VM that has not failed before, structured programs run as Handlers
\* says: every throw goes to the innermost open block of the latest call that
\* has one, and a program fails only when no call is in a block.
THEOREM HandlersImplemented == Spec => LexicalHandlers
  <1>1. Init => (Promised => Lexical!Init)
    BY InitPromised
  <1>2. EInv /\ [Next]_vars => [Promised => Lexical!Next]_(Lexical!vars)
    <2>1. ASSUME EInv, Next PROVE [Promised => Lexical!Next]_(Lexical!vars)
      BY <2>1, StepPromised DEF Lexical!vars
    <2>2. ASSUME UNCHANGED vars PROVE UNCHANGED Lexical!vars
      BY <2>2 DEF vars, fiberVars, Lexical!vars, Calls, Parked, Places
    <2>3. QED
      BY <2>1, <2>2
  <1>3. QED
    BY <1>1, <1>2, Inductive, PTL DEF Spec, LexicalHandlers
-----------------------------------------------------------------------------
(* Fibers *)

\* A fiber that yields takes at least the call that yields along.
Taken == \A f \in Fibers : fiber[f].state = "suspended" => fiber[f].frames # <<>>

FiberInv == EInv /\ Taken /\ FiberOnStack

LEMMA Below ==
  ASSUME NEW m \in Nat, NEW n \in Nat, m >= 1, n > m
  PROVE  m \in 1..n - 1
  OBVIOUS

LEMMA FiberStep ==
  ASSUME FiberInv, Next, EInv'
  PROVE  Taken' /\ FiberOnStack'
  <1>1. /\ TypeOK /\ Control /\ TypeOK' /\ program' = program /\ Taken
    BY TypeStep DEF FiberInv, EInv
  <1>2. /\ fiber \in [Fibers -> FiberType] /\ active \in Fibers \cup {NoFiber}
        /\ Depth \in Nat /\ Depth' \in Nat /\ (running => Depth >= 1)
    <2>1. Depth \in Nat /\ (frames # <<>> => Depth >= 1)
      BY <1>1, FrameFacts
    <2>2. frames' \in Seq(FrameType)
      BY <1>1 DEF TypeOK, FrameType
    <2>3. Depth' \in Nat
      BY <2>2 DEF Depth
    <2>4. QED
      BY <1>1, <2>1, <2>3 DEF TypeOK, FiberType, Control
  <1>3. /\ \A f \in Fibers : fiber[f].base \in Nat
        /\ active \in Fibers => fiber[active].base >= 1
    <2>1. 0..MaxFrames \subseteq Nat
      BY BoundsAssumption
    <2>2. QED
      BY <1>1, <1>2, <2>1, NoFiberAssumption DEF FiberType, Control
  <1>4. "escape" \notin program =>
          \A f \in Fibers : /\ fiber[f].state = "running" <=> f = active
                            /\ f = active => fiber[f].base < Depth
    BY <1>2, <1>3 DEF FiberInv, FiberOnStack
  \* What is left to show of a step that changes neither the fibers nor the
  \* number of frames below the active one's.
  <1>5. ASSUME fiber' = fiber, active' = active,
               active \in Fibers /\ "escape" \notin program => fiber[active].base < Depth'
        PROVE  Taken' /\ FiberOnStack'
    <2>1. Taken'
      BY <1>1, <1>5 DEF Taken
    <2>2. "escape" \notin program =>
            \A f \in Fibers : f = active => fiber[f].base \in 1..Depth' - 1
      BY <1>2, <1>3, <1>5
    <2>3. QED
      BY <1>1, <1>4, <1>5, <2>1, <2>2 DEF FiberOnStack
  <1>6. ASSUME NEW id \in Activations, Interpret(id) \/ Call(id)
        PROVE  Taken' /\ FiberOnStack'
    <2>1. fiber' = fiber /\ active' = active /\ \E entry \in BOOLEAN : Push(id, entry)
      BY <1>6 DEF Interpret, Call, fiberVars
    <2>2. Depth' = Depth + 1
      BY <1>1, <2>1, PushFacts DEF Depth
    <2>3. active \in Fibers /\ "escape" \notin program => fiber[active].base < Depth'
      BY <1>2, <1>3, <1>4, <2>2
    <2>4. QED
      BY <1>5, <2>1, <2>3
  <1>7. ASSUME fiber' = fiber, active' = active, Depth' = Depth
        PROVE  Taken' /\ FiberOnStack'
    BY <1>4, <1>5, <1>7
  <1>8. ASSUME NEW F \in FrameType, running, frames' = [frames EXCEPT ![Depth] = F]
        PROVE  Depth' = Depth
    BY <1>1, <1>8, PlaceFacts DEF Depth, Control
  <1>9. ASSUME NEW id \in Activations, TailCall(id) PROVE Taken' /\ FiberOnStack'
    <2>1. /\ running /\ fiber' = fiber /\ active' = active
          /\ frames' = [frames EXCEPT ![Depth] = Frame(id, Cur.entry)]
      BY <1>9 DEF TailCall, MayLeave, fiberVars
    <2>2. Frame(id, Cur.entry) \in FrameType
      BY <1>1, <2>1, FrameFacts DEF Frame, FrameType, Control
    <2>3. QED
      BY <1>7, <1>8, <2>1, <2>2
  <1>10. ASSUME NEW n \in Nat, running, frames' = [frames EXCEPT ![Depth].open = n]
         PROVE  Depth' = Depth
    BY <1>1, <1>8, <1>10, MoveFacts DEF Control
  <1>11. ASSUME TryBegin \/ TryEnd PROVE Taken' /\ FiberOnStack'
    <2>1. running /\ fiber' = fiber /\ active' = active /\ frames # <<>>
      BY <1>1, <1>11 DEF TryBegin, TryEnd, fiberVars, Control
    <2>2. Cur.open \in Nat
      BY <1>1, <2>1, FrameFacts DEF FrameType
    <2>3. \E n \in Nat : frames' = [frames EXCEPT ![Depth].open = n]
      <3>1. CASE TryBegin
        <4>1. frames' = [frames EXCEPT ![Depth].open = Cur.open + 1]
          BY <3>1 DEF TryBegin, Cur
        <4>2. Cur.open + 1 \in Nat
          BY <2>2
        <4>3. QED
          BY <4>1, <4>2
      <3>2. CASE TryEnd
        <4>1. frames' = [frames EXCEPT ![Depth].open = Cur.open - 1] /\ Cur.open > 0
          BY <3>2 DEF TryEnd, Cur
        <4>2. Cur.open - 1 \in Nat
          BY <2>2, <4>1
        <4>3. QED
          BY <4>1, <4>2
      <3>3. QED
        BY <1>11, <3>1, <3>2
    <2>4. Depth' = Depth
      BY <1>10, <2>1, <2>3
    <2>5. QED
      BY <1>7, <2>1, <2>4
  <1>12. ASSUME NEW n \in 0..MaxTry, Jump(n) PROVE Taken' /\ FiberOnStack'
    <2>1. /\ running /\ fiber' = fiber /\ active' = active /\ n \in Nat
          /\ frames' = [frames EXCEPT ![Depth].open = n]
      BY <1>12, BoundsAssumption DEF Jump, fiberVars
    <2>2. Depth' = Depth
      BY <1>10, <2>1
    <2>3. QED
      BY <1>7, <2>1, <2>2
  <1>13. ASSUME Fail PROVE Taken' /\ FiberOnStack'
    <2>1. fiber' = fiber /\ active' = active /\ Depth' = Depth
      BY <1>13 DEF Fail, fiberVars, Depth
    <2>2. QED
      BY <1>7, <2>1
  <1>14. ASSUME Throw PROVE Taken' /\ FiberOnStack'
    <2>1. /\ fiber' = fiber /\ active' = active /\ frames # <<>>
          /\ active # NoFiber /\ Kept(Innermost) <= fiber[active].base => "escape" \in program
      BY <1>1, <1>14 DEF Throw, fiberVars, Control
    <2>2. Depth' = Kept(Innermost) /\ Kept(Innermost) \in 1..Depth
      BY <1>1, <1>14, <2>1, ThrowFacts DEF Depth
    <2>3. active \in Fibers /\ "escape" \notin program => fiber[active].base < Depth'
      <3>1. active \in Fibers => active # NoFiber
        BY NoFiberAssumption
      <3>2. Depth' \in Nat /\ (active \in Fibers => fiber[active].base \in Nat)
        BY <1>2, <1>3
      <3>3. QED
        BY <2>1, <2>2, <3>1, <3>2
    <2>4. QED
      BY <1>5, <2>1, <2>3
  <1>15. ASSUME NewVM PROVE Taken' /\ FiberOnStack'
    <2>1. active' = NoFiber /\ fiber' = [f \in Fibers |-> Dormant]
      BY <1>15 DEF NewVM
    <2>2. QED
      BY <2>1, NoFiberAssumption DEF Taken, FiberOnStack, Dormant
  \* What is left to show of a step that ends the turn of the active fiber.
  <1>16. ASSUME active \in Fibers, active' = NoFiber,
                NEW F \in FiberType, fiber' = [fiber EXCEPT ![active] = F],
                F.state # "running", F.state = "suspended" => F.frames # <<>>
         PROVE  Taken' /\ FiberOnStack'
    <2>1. \A f \in Fibers : fiber'[f] = IF f = active THEN F ELSE fiber[f]
      BY <1>2, <1>16
    <2>2. Taken'
      BY <1>1, <1>16, <2>1 DEF Taken
    <2>3. \A f \in Fibers : f # NoFiber
      BY NoFiberAssumption
    <2>4. QED
      BY <1>1, <1>4, <1>16, <2>1, <2>2, <2>3 DEF FiberOnStack
  <1>17. ASSUME Return PROVE Taken' /\ FiberOnStack'
    <2>1. /\ running /\ frames' = SubSeq(frames, 1, Depth - 1)
          /\ \/ /\ active # NoFiber /\ active' = NoFiber
                /\ fiber' = [fiber EXCEPT ![active].state = "done"]
             \/ /\ active' = active /\ fiber' = fiber
                /\ ~(active # NoFiber /\ Depth > 1 /\ Depth - 1 = fiber[active].base)
      BY <1>17 DEF Return, MayLeave, fiberVars
    <2>2. Depth' = Depth - 1 /\ Depth >= 1
      <3>1. Depth - 1 \in 0..Depth
        BY <1>2, <2>1
      <3>2. QED
        BY <1>1, <1>2, <2>1, <3>1, CutFacts DEF Depth
    <2>3. CASE active # NoFiber /\ active' = NoFiber
               /\ fiber' = [fiber EXCEPT ![active].state = "done"]
      <3> DEFINE F == [fiber[active] EXCEPT !.state = "done"]
      <3>1. active \in Fibers
        BY <1>2, <2>3
      <3>2. F \in FiberType /\ F.state = "done"
        BY <1>2, <3>1 DEF FiberType
      <3>3. fiber' = [fiber EXCEPT ![active] = F]
        BY <2>3
      <3> HIDE DEF F
      <3>4. QED
        BY <1>16, <2>3, <3>1, <3>2, <3>3
    <2>4. CASE active' = active /\ fiber' = fiber
               /\ ~(active # NoFiber /\ Depth > 1 /\ Depth - 1 = fiber[active].base)
      <3>1. active \in Fibers /\ "escape" \notin program => fiber[active].base < Depth'
        <4>1. ASSUME active \in Fibers, "escape" \notin program
              PROVE  fiber[active].base < Depth'
          <5>1. /\ fiber[active].base < Depth /\ fiber[active].base \in Nat
                /\ fiber[active].base >= 1 /\ active # NoFiber
            BY <1>3, <1>4, <4>1, NoFiberAssumption
          <5>2. Depth - 1 # fiber[active].base
            BY <1>2, <2>4, <5>1
          <5>3. QED
            BY <1>2, <2>2, <5>1, <5>2
        <4>2. QED
          BY <4>1
      <3>2. QED
        BY <1>5, <2>4, <3>1
    <2>5. QED
      BY <2>1, <2>3, <2>4
  <1>18. ASSUME Yield PROVE Taken' /\ FiberOnStack'
    <2> DEFINE b == fiber[active].base
               cut == SubSeq(frames, b + 1, Depth)
               F == [fiber[active] EXCEPT !.state = "suspended", !.frames = cut]
    <2>1. /\ active \in Fibers /\ active' = NoFiber /\ Depth > b
          /\ fiber' = [fiber EXCEPT ![active].state = "suspended", ![active].frames = cut]
      BY <1>2, <1>18 DEF Yield
    <2>2. b \in Nat /\ frames \in Seq(FrameType)
      BY <1>1, <1>3, <2>1 DEF TypeOK
    <2>3. cut \in Seq(FrameType) /\ cut # <<>>
      <3>1. frames \in Seq(FrameType) /\ Depth = Len(frames) /\ b + 1 \in 1..Len(frames)
        BY <1>2, <2>1, <2>2 DEF Depth
      <3>2. Depth - (b + 1) + 1 >= 1
        BY <1>2, <2>1, <2>2
      <3>3. cut \in Seq(FrameType) /\ Len(cut) = Depth - (b + 1) + 1
        BY <1>2, <3>1
      <3> HIDE DEF cut, b
      <3>4. Len(cut) >= 1
        BY <3>2, <3>3
      <3>5. cut # <<>>
        BY <3>4
      <3>6. QED
        BY <3>3, <3>5
    <2>4. fiber' = [fiber EXCEPT ![active] = F]
      BY <1>2, <2>1 DEF FiberType
    <2>5. F \in FiberType /\ F.state = "suspended" /\ F.frames = cut
      BY <1>2, <2>1, <2>3 DEF FiberType
    <2> HIDE DEF F, cut
    <2>6. QED
      BY <1>16, <2>1, <2>3, <2>4, <2>5
  \* What is left to show of a resumption.
  <1>19. ASSUME NEW f \in Fibers, active = NoFiber, active' = f, Depth >= 1, Depth' > Depth,
                NEW F \in FiberType, fiber' = [fiber EXCEPT ![f] = F],
                F.state = "running", F.base = Depth
         PROVE  Taken' /\ FiberOnStack'
    <2>1. \A g \in Fibers : fiber'[g] = IF g = f THEN F ELSE fiber[g]
      BY <1>2, <1>19
    <2>2. Taken'
      BY <1>1, <1>19, <2>1 DEF Taken
    <2>3. Depth \in 1..Depth' - 1
      <3>1. Depth \in Nat /\ Depth' \in Nat /\ Depth >= 1 /\ Depth' > Depth
        BY <1>2, <1>19
      <3>2. QED
        BY <3>1, Below
    <2>4. \A g \in Fibers : g # NoFiber
      BY NoFiberAssumption
    <2>5. QED
      BY <1>1, <1>4, <1>19, <2>1, <2>2, <2>3, <2>4 DEF FiberOnStack
  <1>20. ASSUME NEW f \in Fibers, NEW id \in Activations, ResumeCreated(f, id)
         PROVE  Taken' /\ FiberOnStack'
    <2> DEFINE F == [fiber[f] EXCEPT !.state = "running", !.base = Depth]
    <2>1. running /\ active = NoFiber /\ active' = f /\ Push(id, FALSE)
      BY <1>20 DEF ResumeCreated, MayResume
    <2>2. Depth' = Depth + 1 /\ Depth \in 0..MaxFrames
      <3>1. Depth' = Depth + 1 /\ Depth + 1 <= MaxFrames
        BY <1>1, <2>1, PushFacts DEF Depth
      <3>2. QED
        BY <1>2, <3>1, BoundsAssumption
    <2>3. fiber' = [fiber EXCEPT ![f] = F]
      BY <1>2, <1>20 DEF ResumeCreated, Resumed
    <2>4. F \in FiberType /\ F.state = "running" /\ F.base = Depth
      BY <1>2, <2>2 DEF FiberType
    <2> HIDE DEF F
    <2>5. Depth' > Depth /\ Depth >= 1
      BY <1>2, <2>1, <2>2
    <2>6. QED
      BY <1>19, <2>1, <2>3, <2>4, <2>5
  <1>21. ASSUME NEW f \in Fibers, ResumeSuspended(f) PROVE Taken' /\ FiberOnStack'
    <2> DEFINE F == [state |-> "running", base |-> Depth, frames |-> <<>>]
    <2>1. /\ running /\ active = NoFiber /\ active' = f /\ fiber[f].state = "suspended"
          /\ fiber' = [fiber EXCEPT ![f] = F] /\ Depth + Len(fiber[f].frames) <= MaxFrames
      BY <1>21 DEF ResumeSuspended, MayResume, Resumed
    <2>2. Depth' = Depth + Len(fiber[f].frames) /\ Len(fiber[f].frames) \in Nat
      BY <1>1, <1>21, ResumedFacts DEF Depth
    <2>3. fiber[f].frames # <<>> /\ fiber[f].frames \in Seq(FrameType)
      BY <1>1, <1>2, <2>1 DEF Taken, FiberType
    <2>4. Len(fiber[f].frames) >= 1
      BY <2>3
    <2>5. Depth \in 0..MaxFrames
      BY <1>2, <2>1, <2>2, BoundsAssumption
    <2>6. F \in FiberType /\ F.state = "running" /\ F.base = Depth
      BY <2>5 DEF FiberType
    <2> HIDE DEF F
    <2>7. Depth' > Depth /\ Depth >= 1
      BY <1>2, <2>1, <2>2, <2>4
    <2>8. QED
      BY <1>19, <2>1, <2>6, <2>7
  <1>22. QED
    BY <1>6, <1>9, <1>11, <1>12, <1>13, <1>14, <1>15, <1>17, <1>18, <1>20, <1>21 DEF Next

\* While exceptions stay inside fibers, the fiber in active_fiber_ is the one
\* that runs, and has its frames on the stack, above its frame_base.
THEOREM FibersStayOnStack == Spec => []FiberOnStack
  <1>1. Init => FiberInv
    <2>1. Init => Taken /\ FiberOnStack
      BY NoFiberAssumption DEF Init, Taken, FiberOnStack, Dormant
    <2>2. QED
      BY <2>1, InitInv DEF FiberInv
  <1>2. FiberInv /\ [Next]_vars => FiberInv'
    <2>1. ASSUME FiberInv, Next PROVE FiberInv'
      <3>1. EInv'
        BY <2>1, NextInv DEF FiberInv
      <3>2. QED
        BY <2>1, <3>1, FiberStep DEF FiberInv
    <2>2. ASSUME FiberInv, UNCHANGED vars PROVE FiberInv'
      <3>1. EInv'
        BY <2>2, StutterInv DEF FiberInv
      <3>2. Taken' /\ FiberOnStack'
        BY <2>2 DEF FiberInv, Taken, FiberOnStack, vars, fiberVars, Depth
      <3>3. QED
        BY <3>1, <3>2 DEF FiberInv
    <2>3. QED
      BY <2>1, <2>2
  <1>3. FiberInv => FiberOnStack
    BY DEF FiberInv
  <1>4. QED
    BY <1>1, <1>2, <1>3, PTL DEF Spec
=============================================================================
