------------------------------ MODULE Reactive ------------------------------
(***************************************************************************)
(* Signals and effects in the interpreter loop (src/vm/vm.cpp): the        *)
(* instructions SIGNAL_GET, SIGNAL_SET, EFFECT_RUN and RETURN, the queue   *)
(* that is drained before the next instruction, and the exceptions, failed *)
(* programs and host writes that cut across them.                          *)
(*                                                                         *)
(* A frame of the call stack runs the main program, the body of an effect  *)
(* or a helper function.  Programs are arbitrary: a frame executes any     *)
(* instructions, at most as many as its fuel, and may return at any point. *)
(* DISPATCH drains the queue before every instruction, so an instruction   *)
(* requires an empty queue.                                                *)
(*                                                                         *)
(* read, stale, hosted and gaveUp are history: what the code must get      *)
(* right, not what it stores.                                              *)
(***************************************************************************)
EXTENDS Naturals, SequencesExt

CONSTANTS
  Effects, Signals,
  NoEffect,     \* nullptr in current_effect_
  MaxReruns,    \* ObjEffect::MAX_RERUNS
  GenMod,       \* 2^32: the generation counters are uint32_t
  Hosts,        \* bound: the programs of a host, as their instructions
  BodyFuel,     \* bound: instructions of one run of an effect
  EffectsNest,  \* TRUE: the bodies of effects create effects
  Throwing,     \* TRUE: the program throws out of functions and effects
  NativeTails,  \* TRUE: it returns the result of a native directly
  Failing,      \* TRUE: a program ends with an error, and the host runs another
  HostWriting   \* TRUE: natives call akar_set_global on exported signals

ASSUME NoEffectAssumption == NoEffect \notin Effects
ASSUME BoundsAssumption ==
  /\ MaxReruns \in Nat /\ BodyFuel \in Nat /\ GenMod \in Nat \ {0}
  /\ Hosts \subseteq Seq(Nat)
ASSUME FeaturesAssumption ==
  {EffectsNest, Throwing, NativeTails, Failing, HostWriting} \subseteq BOOLEAN

VARIABLES
  frames,     \* frames_[0 .. frame_count_ - 1]: whose code, and fuel left
  catcher,    \* try_frames_[0].frame_count, 0 without a try block
  running,    \* whether VM::run is executing
  programs,   \* what the host is yet to run
  current,    \* current_effect_
  depth,      \* effect_frame_depth_
  queue,      \* effect_queue_
  writeGen,   \* write_generation_
  state,      \* ObjEffect::state, or Absent before EFFECT_CREATE
  dirty,      \* ObjEffect::dirty
  reruns,     \* ObjEffect::consecutive_reruns
  lastGen,    \* ObjEffect::last_queued_gen
  deps,       \* ObjEffect::dependencies
  subs,       \* ObjSignal::subscribers
  read,       \* the signals the last run of an effect has read
  stale,      \* those written since that run read them
  hosted,     \* the signals whose last write was one of the host
  gaveUp      \* effects dropped by the rerun limit

frameVars == <<frames, catcher, running, programs>>
effectVars == <<state, dirty, reruns, lastGen>>
linkVars == <<deps, subs>>
history == <<read, stale, hosted, gaveUp>>
vars == <<frameVars, current, depth, queue, writeGen, effectVars, linkVars, history>>

Init ==
  /\ frames = <<>> /\ catcher = 0 /\ running = FALSE /\ programs \in Hosts
  /\ current = NoEffect /\ depth = 0
  /\ queue = <<>> /\ writeGen = 0
  /\ state = [e \in Effects |-> "Absent"]
  /\ dirty = [e \in Effects |-> FALSE]
  /\ reruns = [e \in Effects |-> 0]
  /\ lastGen = [e \in Effects |-> 0]
  /\ deps = [e \in Effects |-> {}]
  /\ subs = [s \in Signals |-> {}]
  /\ read = [e \in Effects |-> {}]
  /\ stale = [e \in Effects |-> {}]
  /\ hosted = {} /\ gaveUp = {}

-----------------------------------------------------------------------------
(* Frames *)

Top == frames[Len(frames)]
Frame(owner, fuel, entry) ==
  [owner |-> owner,  \* whose code it programs, NoEffect for the main program
   fuel |-> fuel,    \* bound: instructions it may still execute
   entry |-> entry]  \* the body of an effect, not a helper

\* The stack after the top frame has executed one more instruction.
Spent == [frames EXCEPT ![Len(frames)].fuel = @ - 1]

\* The next instruction is fetched: the queue is empty and a frame runs.
Fetch == queue = <<>> /\ running
Execute == Fetch /\ Top.fuel > 0

\* VM::interpret on the same VM: push the frame of the new program, on those that
\* a failed one has left.
Interpret ==
  /\ ~running /\ programs # <<>>
  /\ programs' = Tail(programs)
  /\ frames' = Append(frames, Frame(NoEffect, Head(programs), FALSE))
  /\ running' = TRUE
  /\ UNCHANGED <<catcher, current, depth, queue, writeGen, effectVars, linkVars, history>>

\* CALL of a script function: it works for whoever calls it.
Call ==
  /\ Execute
  /\ frames' = Append(Spent, Frame(Top.owner, Top.fuel - 1, FALSE))
  /\ UNCHANGED <<catcher, running, programs, current, depth, queue, writeGen, effectVars, linkVars, history>>

-----------------------------------------------------------------------------
(* Running an effect *)

\* The subscriber lists without e, found by way of its dependencies.
Unsubscribed_Kept(e) == subs
Unsubscribed(e) == [s \in Signals |-> IF s \in deps[e] THEN subs[s] \ {e} ELSE subs[s]]

\* Leave every subscriber list and push the frame of the body: what
\* EFFECT_RUN and the drain loop have in common.
Enter(e, stack) ==
  /\ deps' = [deps EXCEPT ![e] = {}]
  /\ subs' = Unsubscribed(e)
  /\ state' = [state EXCEPT ![e] = "Running"]
  /\ current' = e
  /\ depth' = Len(stack) + 1
  /\ frames' = Append(stack, Frame(e, BodyFuel, TRUE))
  /\ read' = [read EXCEPT ![e] = {}]
  /\ stale' = [stale EXCEPT ![e] = {}]
  /\ gaveUp' = gaveUp \ {e}

\* EFFECT_CREATE and EFFECT_RUN, which compile_effect emits together.
EffectRun(e) ==
  /\ Execute
  /\ EffectsNest \/ Top.owner = NoEffect
  /\ state[e] = "Absent"
  /\ Enter(e, Spent)
  /\ UNCHANGED <<catcher, running, programs, queue, writeGen, dirty, reruns, lastGen, hosted>>

\* loop_continue: the front of the queue runs before the next instruction,
\* on top of whatever frame is there.
Drain ==
  /\ queue # <<>> /\ running
  /\ queue' = Tail(queue)
  /\ Enter(Head(queue), frames)
  /\ UNCHANGED <<catcher, running, programs, writeGen, dirty, reruns, lastGen, hosted>>

-----------------------------------------------------------------------------
(* Signals *)

\* SIGNAL_GET: the running effect subscribes once.  The reader is the code of
\* the top frame, the subscriber is current_effect_.
SignalGet(s) ==
  /\ Execute
  /\ frames' = Spent
  /\ IF current # NoEffect
       THEN /\ deps' = [deps EXCEPT ![current] = @ \cup {s}]
            /\ subs' = [subs EXCEPT ![s] = @ \cup {current}]
       ELSE UNCHANGED linkVars
  /\ IF Top.owner # NoEffect
       THEN /\ read' = [read EXCEPT ![Top.owner] = @ \cup {s}]
            /\ stale' = [stale EXCEPT ![Top.owner] = @ \ {s}]
       ELSE UNCHANGED <<read, stale>>
  /\ UNCHANGED <<catcher, running, programs, current, depth, queue, writeGen, effectVars, hosted, gaveUp>>

\* What a write makes stale, whether or not the code notices.
Outdate(s) == stale' = [e \in Effects |-> IF s \in read[e] THEN stale[e] \cup {s} ELSE stale[e]]

NextGen == (writeGen + 1) % GenMod

\* The subscribers that the generation test lets through: a running one
\* becomes dirty, every other is queued.
Notified_LastGen(s) == {e \in subs[s] : lastGen[e] # writeGen}
Notified(s) == {e \in subs[s] : lastGen[e] # NextGen}
Requeued_Running(s) == Notified(s)
Requeued(s) == {e \in Notified(s) : state[e] # "Running"}
Dirtied_None(s) == {}
Dirtied(s) == Notified(s) \ Requeued(s)

\* SIGNAL_SET.
SignalSet(s) ==
  /\ Execute
  /\ frames' = Spent
  /\ writeGen' = NextGen
  /\ dirty' = [e \in Effects |-> dirty[e] \/ e \in Dirtied(s)]
  /\ lastGen' = [e \in Effects |-> IF e \in Requeued(s) THEN NextGen ELSE lastGen[e]]
  /\ state' = [e \in Effects |-> IF e \in Requeued(s) THEN "Queued" ELSE state[e]]
  /\ reruns' = [e \in Effects |-> IF e \in Requeued(s) THEN 0 ELSE reruns[e]]
  /\ \E order \in SetToSeqs(Requeued(s)) : queue' = queue \o order
  /\ Outdate(s)
  /\ hosted' = hosted \ {s}
  /\ UNCHANGED <<catcher, running, programs, current, depth, linkVars, read, gaveUp>>

\* akar_set_global on an exported signal, from a native the program calls.
HostSet(s) ==
  /\ HostWriting
  /\ Execute
  /\ frames' = Spent
  /\ Outdate(s)
  /\ hosted' = hosted \cup {s}
  /\ UNCHANGED <<catcher, running, programs, current, depth, queue, writeGen, effectVars, linkVars, read, gaveUp>>

-----------------------------------------------------------------------------
(* Leaving a frame *)

\* RETURN, once frame_count_ has dropped below the depth at which the current
\* effect was entered: the effect is finished, and runs again if it was
\* written to meanwhile, but not for ever.
RerunCount_Stuck(e) == reruns[e]
RerunCount(e) == reruns[e] + 1
Again_OffByOne(e) == dirty[e] /\ reruns[e] <= MaxReruns
Again(e) == dirty[e] /\ RerunCount(e) <= MaxReruns

Ended_Idle(e) == "Idle"
Ended(e) == IF Again(e) THEN "Queued" ELSE "Idle"

Finish ==
  LET e == current
      again == Again(e)
  IN /\ state' = [state EXCEPT ![e] = Ended(e)]
     /\ dirty' = [dirty EXCEPT ![e] = FALSE]
     /\ reruns' = [reruns EXCEPT ![e] = IF again THEN RerunCount(e) ELSE 0]
     /\ lastGen' = [lastGen EXCEPT ![e] = IF again THEN writeGen ELSE @]
     /\ queue' = IF again THEN Append(queue, e) ELSE queue
     /\ gaveUp' = IF dirty[e] /\ ~again THEN gaveUp \cup {e} ELSE gaveUp
     /\ current' = NoEffect

EndsEffect_Early == current # NoEffect /\ Len(frames) - 1 <= depth
EndsEffect == current # NoEffect /\ Len(frames) - 1 < depth

\* Programs leave a try block before the function it is in.
Leave ==
  /\ Fetch
  /\ catcher # Len(frames)
  /\ frames' = Front(frames)
  /\ running' = (Len(frames) > 1)
  /\ UNCHANGED <<catcher, programs>>

Return ==
  /\ Leave
  /\ IF EndsEffect THEN Finish ELSE UNCHANGED <<current, queue, effectVars, gaveUp>>
  /\ UNCHANGED <<depth, writeGen, linkVars, read, stale, hosted>>

\* TAIL_CALL of a native, or AWAIT of nil: the frame is popped as by RETURN,
\* but current_effect_ is not looked at.
TailNative ==
  /\ NativeTails
  /\ Leave
  /\ UNCHANGED <<current, depth, queue, writeGen, effectVars, linkVars, history>>

\* TRY_BEGIN and TRY_END of one try block.
TryBegin ==
  /\ Throwing
  /\ Execute
  /\ catcher = 0
  /\ frames' = Spent
  /\ catcher' = Len(frames)
  /\ UNCHANGED <<running, programs, current, depth, queue, writeGen, effectVars, linkVars, history>>

TryEnd ==
  /\ Fetch
  /\ catcher = Len(frames)
  /\ catcher' = 0
  /\ UNCHANGED <<frames, running, programs, current, depth, queue, writeGen, effectVars, linkVars, history>>

\* THROW, or a runtime error, below a try block: frames are dropped one by
\* one and nothing is said to the effects whose bodies they run.
Throw ==
  /\ Throwing
  /\ Execute
  /\ catcher > 0
  /\ frames' = SubSeq(Spent, 1, catcher)
  /\ catcher' = 0
  /\ UNCHANGED <<running, programs, current, depth, queue, writeGen, effectVars, linkVars, history>>

\* The same without one: VM::run returns, and frames, current_effect_ and the
\* states of effects are what they were.
Fail ==
  /\ Failing
  /\ Execute
  /\ catcher = 0
  /\ frames' = Spent
  /\ running' = FALSE
  /\ UNCHANGED <<catcher, programs, current, depth, queue, writeGen, effectVars, linkVars, history>>

-----------------------------------------------------------------------------

Step ==
  \/ Call \/ Drain \/ Return \/ TailNative \/ TryBegin \/ TryEnd \/ Throw \/ Fail
  \/ \E e \in Effects : EffectRun(e)
  \/ \E s \in Signals : SignalGet(s) \/ SignalSet(s) \/ HostSet(s)

\* The host has no further program to run.
Done == ~running /\ programs = <<>> /\ UNCHANGED vars

Next == Interpret \/ Step \/ Done

\* A program that was started keeps executing instructions; the host need
\* never start another.
Fairness == WF_vars(Step)
Spec == Init /\ [][Next]_vars /\ Fairness

-----------------------------------------------------------------------------
(* Properties *)

Created == {e \in Effects : state[e] # "Absent"}

TypeOK ==
  /\ frames \in Seq([owner : Effects \cup {NoEffect}, fuel : Nat, entry : BOOLEAN])
  /\ catcher \in Nat /\ running \in BOOLEAN /\ programs \in Seq(Nat)
  /\ current \in Effects \cup {NoEffect} /\ depth \in Nat
  /\ queue \in Seq(Effects) /\ writeGen \in 0..GenMod - 1
  /\ state \in [Effects -> {"Absent", "Idle", "Queued", "Running"}]
  /\ dirty \in [Effects -> BOOLEAN]
  /\ reruns \in [Effects -> 0..MaxReruns]
  /\ lastGen \in [Effects -> 0..GenMod - 1]
  /\ deps \in [Effects -> SUBSET Signals]
  /\ subs \in [Signals -> SUBSET Effects]
  /\ read \in [Effects -> SUBSET Signals]
  /\ stale \in [Effects -> SUBSET Signals]
  /\ hosted \subseteq Signals /\ gaveUp \subseteq Effects

\* The two halves of a subscription agree: an effect is in the subscriber
\* list of exactly the signals in its dependency list, through reruns,
\* nesting and exceptions, so leaving the lists by way of the dependencies
\* leaves no subscription behind.
LinksAgree == \A e \in Effects, s \in Signals : s \in deps[e] <=> e \in subs[s]

\* An effect waits in the queue exactly when it says so, and only once.
QueueMatchesState ==
  /\ ToSet(queue) = {e \in Effects : state[e] = "Queued"}
  /\ \A i, j \in 1..Len(queue) : queue[i] = queue[j] => i = j

\* The body of an effect is never entered while it is still on the call
\* stack, however effects trigger and nest in one another.
BodyFrames(e) == {i \in 1..Len(frames) : frames[i].owner = e /\ frames[i].entry}
NoReentry == \A e \in Effects : \A i, j \in BodyFrames(e) : i = j

\* An effect at rest has seen the latest value of every signal it is
\* subscribed to: no write between its last read and now was lost, unless
\* the rerun limit dropped it or the write was one of the host, which tells
\* nobody.
RestingIsFresh ==
  \A e \in Created \ gaveUp : state[e] = "Idle" => stale[e] \cap deps[e] \subseteq hosted

\* docs/reactive.md:7, "When a signal's value changes, any effect that read it
\* automatically re-runs": when the program has returned, every effect has
\* seen the latest value of every signal it read.
EffectsFollowSignals == frames = <<>> => \A e \in Created \ gaveUp : stale[e] = {}

\* docs/reactive.md:146-150, "Normal code: current_effect_ = null", "Inside
\* effect: current_effect_ = <effect object>": the effect that reads are
\* subscribed to is the one whose code reads, in helper functions too.
CurrentIsOwner == running => current = Top.owner

\* However effects write the signals they or others read, control gets back
\* to the program and the program returns.
ProgramReturns == []<>~running
=============================================================================
