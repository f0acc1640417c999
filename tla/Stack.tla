-------------------------------- MODULE Stack --------------------------------
(***************************************************************************)
(* The register stack of the VM (src/vm/vm.cpp): one array of values, one   *)
(* stack_top_, and call frames whose registers are a window of the array.   *)
(* Calls, native calls, tail calls, effects and fibers all move stack_top_, *)
(* each by its own rule, and the compiler relies on none of them touching   *)
(* the registers it has allocated in a frame that is waiting.               *)
(*                                                                          *)
(* A value is named after the register it was written to: <<a, r>> is what  *)
(* activation a of a function put in its register r, Junk anything else,    *)
(* the values of a register or a function that is done with among it.       *)
(* Every function has Regs registers (ObjFunction::register_count) and the  *)
(* compiler allocates them from the bottom: the first live of them are in   *)
(* use, and a call goes to the next one (CodeGenerator::compile_call).      *)
(* A program error ends the run, so a call that would not fit is no step.   *)
(***************************************************************************)
EXTENDS Naturals, Sequences

CONSTANTS
  Activations,  \* names for the calls in progress
  Fibers,       \* the fibers the program creates
  NoFiber,      \* nullptr in active_fiber_
  Regs,         \* register_count of every function
  MaxStack,     \* VM::MAX_STACK
  MaxFrames,    \* VM::MAX_FRAMES
  MaxArgs,      \* bound: arguments of one call
  Programs      \* the kinds of programs, each a set of the features it uses

Features ==
  {"natives",            \* it calls native functions outside fibers
   "natives in fibers",  \* and inside fibers
   "native tails",       \* it returns the result of a native directly
   "effects",            \* it writes signals that have effects
   "fibers",             \* it resumes fibers
   "nested fibers",      \* from other fibers, too
   "helpers yield"}      \* functions called by a fiber yield for it

ASSUME ProgramsAssumption == Programs \subseteq SUBSET Features
ASSUME SizesAssumption ==
  /\ Regs \in Nat \ {0} /\ MaxStack \in Nat /\ MaxFrames \in Nat /\ MaxArgs \in Nat
  /\ Regs + 1 <= MaxStack
ASSUME NoFiberAssumption == NoFiber \notin Fibers
ASSUME JunkAssumption == "junk" \notin Activations

VARIABLES
  program, \* what is running
  stack,   \* stack_
  top,     \* stack_top_
  frames,  \* frames_[0 .. frame_count_ - 1]
  active,  \* active_fiber_
  fiber    \* the ObjFibers

vars == <<program, stack, top, frames, active, fiber>>

Junk == <<"junk", 0>>
Reg(a, r) == <<a, r>>
Forget(s, a) == [p \in DOMAIN s |-> IF s[p][1] = a THEN Junk ELSE s[p]]
Larger(m, n) == IF m >= n THEN m ELSE n

Frame(id, kind, callee, saved, live) ==
  [id |-> id,        \* which activation this is
   kind |-> kind,    \* entered by a call, or as the body of an effect
   callee |-> callee,\* callee_stack_pos; base_register is the next slot
   saved |-> saved,  \* caller_stack_top
   live |-> live]    \* registers the compiler has allocated so far

Base(f) == f.callee + 1
Cur == frames[Len(frames)]

Dormant == [state |-> "created", base |-> 0, parent |-> NoFiber,
            saved |-> <<>>, frames |-> <<>>]

Init ==
  /\ program \in Programs
  /\ stack = [p \in 0..MaxStack - 1 |-> Junk]
  /\ top = 0
  /\ frames = <<>>
  /\ active = NoFiber
  /\ fiber = [f \in Fibers |-> Dormant]

InUse ==
  {frames[i].id : i \in DOMAIN frames}
    \cup UNION {{fiber[f].frames[i].id : i \in DOMAIN fiber[f].frames} : f \in Fibers}

-----------------------------------------------------------------------------
(* Frames *)

\* The window of a new frame: the callee, n arguments, nil elsewhere.
Window(s, id, callee, n) ==
  [p \in DOMAIN s |->
     IF p \in callee + 1..callee + n THEN Reg(id, p - callee - 1)
     ELSE IF p \in callee..callee + Regs THEN Junk
     ELSE s[p]]

\* A frame fits if the stack holds its window; stack_top_ is raised over it.
Fits_NoBase(callee) == callee + Regs <= MaxStack
Fits(callee) == callee + 1 + Regs <= MaxStack
Raised_NotAtAll(t, callee) == t
Raised(t, callee) == Larger(t, callee + 1 + Regs)

\* VM::call, and the same code inlined in CALL: n arguments above callee.
Push(id, kind, callee, n, t) ==
  /\ id \notin InUse
  /\ Len(frames) < MaxFrames
  /\ n <= Regs
  /\ Fits(callee)
  /\ stack' = Window(stack, id, callee, n)
  /\ frames' = Append(frames, Frame(id, kind, callee, t, n))
  /\ top' = Raised(t, callee)

Running == frames # <<>>

\* One more register is allocated and written: a local, or the result of a
\* call, in the next free slot of the window of frame k.
Assign(s, k) == [s EXCEPT ![Base(frames[k]) + frames[k].live] =
                   Reg(frames[k].id, frames[k].live)]
Grown(k) == [i \in 1..k |->
               IF i = k THEN [frames[k] EXCEPT !.live = @ + 1] ELSE frames[i]]
Room == Cur.live < Regs
NextSlot_OffByOne == Cur.callee + Cur.live
NextSlot == Base(Cur) + Cur.live

\* run_function.
Interpret(id) ==
  /\ frames = <<>>
  /\ top + 1 <= MaxStack
  /\ Push(id, "call", 0, 0, top + 1)
  /\ UNCHANGED <<program, active, fiber>>

\* An instruction with a result, and a scope that ends.
Allocate ==
  /\ Running /\ Room
  /\ stack' = Assign(stack, Len(frames))
  /\ frames' = Grown(Len(frames))
  /\ UNCHANGED <<program, top, active, fiber>>

Free ==
  /\ Running /\ Cur.live > 0
  /\ stack' = [stack EXCEPT ![NextSlot - 1] = Junk]
  /\ frames' = [frames EXCEPT ![Len(frames)].live = @ - 1]
  /\ UNCHANGED <<program, top, active, fiber>>

\* CALL of a script function.
Call(id, n) ==
  /\ Running
  /\ Cur.live + 1 + n <= Regs
  /\ Push(id, "call", NextSlot, n, top)
  /\ UNCHANGED <<program, active, fiber>>

\* Whether the program calls natives where it is now.
CallsNatives ==
  (IF active = NoFiber THEN "natives" ELSE "natives in fibers") \in program

\* CALL of a native: call_native drops stack_top_ to the slot of the result.
CallNative ==
  /\ CallsNatives
  /\ Running /\ Room
  /\ stack' = Assign(stack, Len(frames))
  /\ frames' = Grown(Len(frames))
  /\ top' = NextSlot + 1
  /\ UNCHANGED <<program, active, fiber>>

\* TAIL_CALL of a script function: it takes over frame and window.
TailCall(id, n) ==
  /\ Running
  /\ id \notin InUse
  /\ Cur.live + 1 + n <= Regs
  /\ stack' = Window(Forget(stack, Cur.id), id, Cur.callee, n)
  /\ frames' = [frames EXCEPT ![Len(frames)].id = id, ![Len(frames)].live = n]
  /\ top' = Base(Cur) + Regs
  /\ UNCHANGED <<program, active, fiber>>

\* The top frame is popped and its result stored at callee_stack_pos: the
\* next register of the caller, or a slot of no meaning under an effect.
Pop(t) ==
  IF Len(frames) = 1
    THEN /\ frames' = <<>> /\ top' = 1
         /\ stack' = Forget(stack, Cur.id)
    ELSE /\ top' = t
         /\ IF Cur.kind = "call"
              THEN /\ stack' = Assign(Forget(stack, Cur.id), Len(frames) - 1)
                   /\ frames' = Grown(Len(frames) - 1)
              ELSE /\ stack' = [Forget(stack, Cur.id) EXCEPT ![Cur.callee] = Junk]
                   /\ frames' = SubSeq(frames, 1, Len(frames) - 1)

\* RETURN: the last frame of a fiber finishes it.
ReturnTop == Larger(Cur.saved, Cur.callee + 1)
Resumer_Lost(f) == NoFiber
Resumer(f) == fiber[f].parent
Return ==
  /\ Running
  /\ Pop(ReturnTop)
  /\ IF active # NoFiber /\ Len(frames) > 1 /\ Len(frames) - 1 = fiber[active].base
       THEN /\ fiber' = [fiber EXCEPT ![active].state = "done"]
            /\ active' = Resumer(active)
       ELSE UNCHANGED <<active, fiber>>
  /\ UNCHANGED program

\* TAIL_CALL of a native: the frame is popped as by RETURN, but stack_top_ is
\* not restored and the fiber is not looked at.
TailNative ==
  /\ "native tails" \in program /\ CallsNatives
  /\ Running
  /\ Cur.live < Regs
  /\ Pop(Cur.callee + 1)
  /\ UNCHANGED <<program, active, fiber>>

-----------------------------------------------------------------------------
(* Effects and fibers *)

\* EFFECT_RUN, or the drain loop after SIGNAL_SET: the closure of the effect
\* is pushed on stack_top_, wherever that is, and called there.
Reactive == "effects" \in program
RunEffect(id) ==
  /\ Reactive
  /\ Running
  /\ top < MaxStack
  /\ Push(id, "effect", top, 0, top + 1)
  /\ UNCHANGED <<program, active, fiber>>

MayResume ==
  /\ Running /\ Room
  /\ "fibers" \in program
  /\ active = NoFiber \/ "nested fibers" \in program

\* CALL of fiber_resume on a fiber that has not started.
ResumeCreated(f, id, n) ==
  /\ MayResume
  /\ fiber[f].state = "created"
  /\ Push(id, "call", NextSlot, n, NextSlot + 1 + n)
  /\ fiber' = [fiber EXCEPT ![f].state = "running", ![f].parent = active,
                            ![f].base = Len(frames)]
  /\ active' = f
  /\ UNCHANGED program

\* On a suspended fiber: its values and frames come back at the slot of the
\* call, and the interrupted CALL of fiber_yield executes again.
Moved_NotRebased(fr, offset) == fr
Moved(fr, offset) == [fr EXCEPT !.callee = @ + offset]
ResumeSuspended(f) ==
  LET n == Len(fiber[f].saved)
  IN /\ MayResume
     /\ fiber[f].state = "suspended"
     /\ Len(frames) + Len(fiber[f].frames) <= MaxFrames
     /\ NextSlot + n <= MaxStack
     /\ \A i \in DOMAIN fiber[f].frames :
          NextSlot + 1 + fiber[f].frames[i].callee + Regs <= MaxStack
     /\ stack' = [p \in DOMAIN stack |->
          IF p \in NextSlot..NextSlot + n - 1
            THEN fiber[f].saved[p - NextSlot + 1] ELSE stack[p]]
     /\ top' = NextSlot + n
     /\ frames' = frames \o [i \in DOMAIN fiber[f].frames |->
                               Moved(fiber[f].frames[i], NextSlot)]
     /\ fiber' = [fiber EXCEPT ![f].state = "running", ![f].parent = active,
                               ![f].base = Len(frames),
                               ![f].saved = <<>>, ![f].frames = <<>>]
     /\ active' = f
     /\ UNCHANGED program

\* On a running fiber: nothing is resumed and nil is returned.
ResumeRunning(f) ==
  /\ MayResume
  /\ fiber[f].state = "running"
  /\ stack' = Assign(stack, Len(frames))
  /\ frames' = Grown(Len(frames))
  /\ top' = NextSlot
  /\ UNCHANGED <<program, active, fiber>>

\* CALL of fiber_yield inside a fiber: the slots from the fiber's callee to
\* stack_top_ and its frames, relative to that callee, are saved; the callee
\* register of the CALL, which runs again on resumption, among them.  The
\* resumer continues with the value yielded as the result of fiber_resume.
Yield ==
  /\ active # NoFiber
  /\ Len(frames) > fiber[active].base
  /\ "helpers yield" \in program \/ Len(frames) = fiber[active].base + 1
  /\ Room
  /\ LET b == fiber[active].base
         entry == frames[b + 1]
         start == entry.callee
         called == Assign(stack, Len(frames))
         mine == SubSeq(Grown(Len(frames)), b + 1, Len(frames))
     IN /\ fiber' = [fiber EXCEPT
             ![active] = [state |-> "suspended", base |-> b, parent |-> NoFiber,
                saved |-> [k \in 1..(IF top > start THEN top - start ELSE 0)
                             |-> called[start + k - 1]],
                frames |-> [i \in DOMAIN mine |->
                              [mine[i] EXCEPT !.callee = @ - start]]]]
        /\ active' = Resumer(active)
        /\ frames' = Grown(b)
        /\ top' = Larger(entry.saved, start + 1)
        /\ stack' = [called EXCEPT ![start] = Reg(frames[b].id, frames[b].live)]
        /\ UNCHANGED program

-----------------------------------------------------------------------------

Next ==
  \/ Allocate \/ Free \/ CallNative \/ Return \/ TailNative \/ Yield
  \/ \E id \in Activations : Interpret(id) \/ RunEffect(id)
  \/ \E id \in Activations, n \in 0..MaxArgs : Call(id, n) \/ TailCall(id, n)
  \/ \E f \in Fibers : ResumeSuspended(f) \/ ResumeRunning(f)
  \/ \E f \in Fibers, id \in Activations, n \in 0..MaxArgs : ResumeCreated(f, id, n)

Spec == Init /\ [][Next]_vars

-----------------------------------------------------------------------------
(* Properties *)

TypeOK ==
  /\ program \in Programs
  /\ stack \in [0..MaxStack - 1 -> (Activations \cup {"junk"}) \X (0..Regs - 1)]
  /\ top \in 0..MaxStack
  /\ frames \in Seq([id : Activations, kind : {"call", "effect"}, callee : 0..MaxStack - 1,
                     saved : 0..MaxStack, live : 0..Regs])
  /\ active \in Fibers \cup {NoFiber}

\* Whatever runs on top of it (calls, natives, effects, other fibers, its own
\* suspension), a frame finds every register the compiler has allocated in it
\* as it left it.
RegistersIntact ==
  \A i \in DOMAIN frames : \A r \in 0..frames[i].live - 1 :
    stack[Base(frames[i]) + r] = Reg(frames[i].id, r)

\* vm.cpp:51, "The caller's registers are below base_register": a frame starts
\* above the allocated registers of every frame under it.
CallersBelow ==
  \A i, j \in DOMAIN frames : i < j => Base(frames[i]) + frames[i].live <= Base(frames[j])

\* docs/stdlib.md:473: a fiber whose function has returned is done; while it
\* is running, its frames are on the stack.
ReturnedIsDone ==
  \A f \in Fibers : fiber[f].state = "running" => fiber[f].base < Len(frames)

\* The running fibers are a chain of resumers that ends in active_fiber_, each
\* with its frames above those of the fiber that resumed it, so that a yield
\* or a return gets back to the resumer and to nobody else.
FiberChain ==
  /\ ReturnedIsDone
  /\ active # NoFiber => fiber[active].state = "running"
  /\ \A f \in Fibers : fiber[f].state = "running" =>
       /\ fiber[f].parent # NoFiber =>
            /\ fiber[fiber[f].parent].state = "running"
            /\ fiber[fiber[f].parent].base < fiber[f].base
       /\ f # active => \E g \in Fibers : fiber[g].state = "running" /\ fiber[g].parent = f
=============================================================================
