----------------------------- MODULE Exceptions -----------------------------
(***************************************************************************)
(* try, catch and throw in the VM (src/vm/vm.cpp): TRY_BEGIN pushes the    *)
(* place of a catch block on try_frames_, TRY_END and every exception pop  *)
(* one, and nothing else looks at that array: not RETURN, TAIL_CALL or a   *)
(* jump out of the block, not the yield or the resumption of a fiber, not  *)
(* the end of a program.                                                   *)
(*                                                                         *)
(* Programs are arbitrary: a call may open and close try blocks, throw and *)
(* return at any point.  A runtime error is thrown like an exception       *)
(* (throw_to_catch), and so are an exhausted call stack and TRY_BEGIN with *)
(* MAX_TRY blocks open: those are the cases in which Call or TryBegin is   *)
(* not enabled and Throw is.                                               *)
(*                                                                         *)
(* code, open and entry are what an instruction pointer says of a call:    *)
(* whose code it runs, inside how many try blocks, and whether it is the   *)
(* main program.                                                           *)
(***************************************************************************)
EXTENDS Naturals, Sequences

CONSTANTS
  Activations,  \* names for the calls in progress
  Fibers,
  NoFiber,      \* nullptr in active_fiber_
  MaxFrames,    \* VM::MAX_FRAMES
  MaxTry,       \* VM::MAX_TRY
  Programs      \* the kinds of programs, each a set of the features it uses

Features ==
  {"leave",      \* return, break or continue inside a try block
   "fibers",     \* it resumes fibers
   "yield",      \* which yield inside a try block
   "escape",     \* or let exceptions out
   "again"}      \* the host runs another program after one that failed

ASSUME ProgramsAssumption == Programs \subseteq SUBSET Features
ASSUME BoundsAssumption == MaxFrames \in Nat /\ MaxTry \in Nat
ASSUME NoFiberAssumption == NoFiber \notin Fibers

VARIABLES
  program,   \* what is running
  running,   \* control is in VM::run
  frames,    \* frames_[0 .. frame_count_ - 1]
  handlers,  \* try_frames_[0 .. try_count_ - 1]
  active,    \* active_fiber_
  fiber      \* the ObjFibers

fiberVars == <<active, fiber>>
vars == <<program, running, frames, handlers, fiberVars>>

Frame(id, entry) ==
  [id |-> id,        \* which activation this is: its closure and registers
   code |-> id,      \* the activation whose code the ip points into
   open |-> 0,       \* try blocks around the ip
   entry |-> entry]  \* pushed by run_function

\* TRY_BEGIN records frame_count_ and catch_ip: the code of the catch block,
\* and the try blocks around it.
Handler(count, code, at) == [count |-> count, code |-> code, at |-> at]

Depth == Len(frames)
Cur == frames[Depth]
Innermost == handlers[Len(handlers)]
Smaller(m, n) == IF m <= n THEN m ELSE n

Dormant == [state |-> "created", base |-> 0, frames |-> <<>>]

Init ==
  /\ program \in Programs
  /\ running = FALSE
  /\ frames = <<>>
  /\ handlers = <<>>
  /\ active = NoFiber
  /\ fiber = [f \in Fibers |-> Dormant]

InUse ==
  {frames[i].id : i \in DOMAIN frames}
    \cup UNION {{fiber[f].frames[i].id : i \in DOMAIN fiber[f].frames} : f \in Fibers}

-----------------------------------------------------------------------------
(* Programs and calls *)

Push(id, entry) ==
  /\ id \notin InUse
  /\ Depth < MaxFrames
  /\ frames' = Append(frames, Frame(id, entry))

\* run_function, on top of whatever frames an earlier error has left.
Interpret(id) ==
  /\ ~running
  /\ frames # <<>> => "again" \in program
  /\ Push(id, TRUE)
  /\ running' = TRUE
  /\ UNCHANGED <<program, handlers, fiberVars>>

\* The host frees a VM that failed and makes a new one.
NewVM ==
  /\ ~running /\ frames # <<>>
  /\ frames' = <<>> /\ handlers' = <<>>
  /\ active' = NoFiber
  /\ fiber' = [f \in Fibers |-> Dormant]
  /\ UNCHANGED <<program, running>>

Call(id) ==
  /\ running
  /\ Push(id, FALSE)
  /\ UNCHANGED <<program, running, handlers, fiberVars>>

\* compile_return emits no TRY_END for the blocks around a return.
MayLeave == running /\ (Cur.open = 0 \/ "leave" \in program)

\* TAIL_CALL of a script function: the frame stays, its code is another.
TailCall(id) ==
  /\ MayLeave
  /\ id \notin InUse
  /\ frames' = [frames EXCEPT ![Depth] = Frame(id, Cur.entry)]
  /\ UNCHANGED <<program, running, handlers, fiberVars>>

\* RETURN, and AWAIT of nil: the program ends when no frame is left, a fiber
\* when its first frame is.
Return ==
  /\ MayLeave
  /\ frames' = SubSeq(frames, 1, Depth - 1)
  /\ running' = (Depth > 1)
  /\ IF active # NoFiber /\ Depth > 1 /\ Depth - 1 = fiber[active].base
       THEN /\ fiber' = [fiber EXCEPT ![active].state = "done"]
            /\ active' = NoFiber
       ELSE UNCHANGED fiberVars
  /\ UNCHANGED <<program, handlers>>

-----------------------------------------------------------------------------
(* Exceptions *)

Room_OffByOne == Len(handlers) <= MaxTry
Room == Len(handlers) < MaxTry
TryBegin ==
  /\ running
  /\ Room
  /\ handlers' = Append(handlers, Handler(Depth, Cur.code, Cur.open))
  /\ frames' = [frames EXCEPT ![Depth].open = @ + 1]
  /\ UNCHANGED <<program, running, fiberVars>>

\* TRY_END, which is reached by falling off the end of the block.
Popped_Kept == handlers
Popped == IF handlers = <<>> THEN <<>> ELSE SubSeq(handlers, 1, Len(handlers) - 1)
TryEnd ==
  /\ running
  /\ Cur.open > 0
  /\ handlers' = Popped
  /\ frames' = [frames EXCEPT ![Depth].open = @ - 1]
  /\ UNCHANGED <<program, running, fiberVars>>

\* break or continue out of try blocks to a loop inside n others: a plain jump.
Jump(n) ==
  /\ running
  /\ "leave" \in program
  /\ n < Cur.open
  /\ frames' = [frames EXCEPT ![Depth].open = n]
  /\ UNCHANGED <<program, running, handlers, fiberVars>>

\* THROW and throw_to_catch: pop the handler, drop the frames above the one it
\* was recorded in, if there are any, and point the top frame at the handler.
Kept_OneMore(h) == Smaller(h.count + 1, Depth)
Kept(h) == Smaller(h.count, Depth)
Throw ==
  /\ running
  /\ handlers # <<>>
  /\ active # NoFiber /\ Kept(Innermost) <= fiber[active].base => "escape" \in program
  /\ LET k == Kept(Innermost)
     IN frames' = [SubSeq(frames, 1, k) EXCEPT ![k].code = Innermost.code,
                                              ![k].open = Innermost.at]
  /\ handlers' = SubSeq(handlers, 1, Len(handlers) - 1)
  /\ UNCHANGED <<program, running, fiberVars>>

\* Without a handler run returns RuntimeError and leaves everything as it is.
Fail ==
  /\ running
  /\ handlers = <<>>
  /\ running' = FALSE
  /\ UNCHANGED <<program, frames, handlers, fiberVars>>

-----------------------------------------------------------------------------
(* Fibers *)

MayResume == running /\ active = NoFiber /\ "fibers" \in program

Resumed_Above == Depth + 1
Resumed == Depth
ResumeCreated(f, id) ==
  /\ MayResume
  /\ fiber[f].state = "created"
  /\ Push(id, FALSE)
  /\ fiber' = [fiber EXCEPT ![f].state = "running", ![f].base = Resumed]
  /\ active' = f
  /\ UNCHANGED <<program, running, handlers>>

ResumeSuspended(f) ==
  /\ MayResume
  /\ fiber[f].state = "suspended"
  /\ Depth + Len(fiber[f].frames) <= MaxFrames
  /\ frames' = frames \o fiber[f].frames
  /\ fiber' = [fiber EXCEPT ![f] = [state |-> "running", base |-> Resumed, frames |-> <<>>]]
  /\ active' = f
  /\ UNCHANGED <<program, running, handlers>>

\* CALL of fiber_yield inside a fiber.
Yield ==
  /\ running
  /\ active # NoFiber /\ Depth > fiber[active].base
  /\ \A i \in fiber[active].base + 1..Depth : frames[i].open > 0 => "yield" \in program
  /\ frames' = SubSeq(frames, 1, fiber[active].base)
  /\ fiber' = [fiber EXCEPT ![active].state = "suspended",
                            ![active].frames = SubSeq(frames, fiber[active].base + 1, Depth)]
  /\ active' = NoFiber
  /\ UNCHANGED <<program, running, handlers>>

-----------------------------------------------------------------------------

Next ==
  \/ NewVM \/ Return \/ TryBegin \/ TryEnd \/ Throw \/ Fail \/ Yield
  \/ \E id \in Activations : Interpret(id) \/ Call(id) \/ TailCall(id)
  \/ \E n \in 0..MaxTry : Jump(n)
  \/ \E f \in Fibers, id \in Activations : ResumeCreated(f, id)
  \/ \E f \in Fibers : ResumeSuspended(f)

Spec == Init /\ [][Next]_vars

-----------------------------------------------------------------------------
(* Properties *)

FrameType == [id : Activations, code : Activations, open : Nat, entry : BOOLEAN]
HandlerType == [count : 1..MaxFrames, code : Activations, at : Nat]

TypeOK ==
  /\ program \in Programs
  /\ running \in BOOLEAN
  /\ frames \in Seq(FrameType) /\ Depth <= MaxFrames
  /\ handlers \in Seq(HandlerType) /\ Len(handlers) <= MaxTry
  /\ active \in Fibers \cup {NoFiber}
  /\ fiber \in [Fibers -> [state : {"created", "running", "suspended", "done"},
                           base : 0..MaxFrames, frames : Seq(FrameType)]]

\* Programs whose calls and fibers leave a try block by its end or by an
\* exception, never in another way.
Structured == {"leave", "yield"} \cap program = {}

\* In such programs try_frames_ lists the try blocks that are open, of every
\* call in progress, from the outermost to the innermost, and nothing else:
\* whatever was called, thrown, caught, yielded or resumed in between, an
\* exception finds its handler on top, and MAX_TRY limits blocks that are
\* really nested.
Before(g, h) == g.count < h.count \/ (g.count = h.count /\ g.at < h.at)
HandlersAreOpen == Structured =>
  /\ \A i, j \in DOMAIN handlers : i < j => Before(handlers[i], handlers[j])
  /\ \A i \in DOMAIN handlers :
       /\ handlers[i].count \in DOMAIN frames
       /\ handlers[i].at < frames[handlers[i].count].open
       /\ handlers[i].code = frames[handlers[i].count].code
  /\ \A k \in DOMAIN frames : \A d \in 0..frames[k].open - 1 :
       \E i \in DOMAIN handlers : handlers[i].count = k /\ handlers[i].at = d

\* docs/language.md:518: an exception is caught in the call that has the try
\* block around it, so a call never gets to run the code of another function
\* with its own constants and registers.
OwnCode == \A i \in DOMAIN frames : frames[i].code = frames[i].id

\* While exceptions stay in the fiber they are thrown in, the fiber in
\* active_fiber_ has frames on the stack, so that a yield, or a return to its
\* frame_base, is its own.
FiberOnStack == "escape" \notin program =>
  \A f \in Fibers : /\ fiber[f].state = "running" <=> f = active
                    /\ f = active => fiber[f].base \in 1..Depth - 1

\* The calls as Handlers sees them.  A failed program has none.
Places(s) == [i \in DOMAIN s |-> [code |-> s[i].code, open |-> s[i].open]]
Calls == IF running THEN Places(frames) ELSE <<>>
Parked == [f \in Fibers |-> Places(fiber[f].frames)]
Lexical == INSTANCE Handlers WITH Codes <- Activations, stack <- Calls, parked <- Parked

\* Structured programs get what Handlers promises out of the one array for
\* all calls and fibers, on a VM that has not failed before.
Promised == Structured /\ "again" \notin program
LexicalHandlers ==
  /\ Promised => Lexical!Init
  /\ [][Promised => Lexical!Next]_(Lexical!vars)
=============================================================================
