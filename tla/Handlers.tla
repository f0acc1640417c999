------------------------------ MODULE Handlers ------------------------------
(***************************************************************************)
(* What try, catch and throw promise (docs/language.md, "Error Handling"): *)
(* an exception goes to the innermost try block around it, that of the     *)
(* latest call which has one, and everything inside that block is over.    *)
(*                                                                         *)
(* There are no handlers here: a call knows the code it runs and how many  *)
(* try blocks are open around the place where it is, and that is all.      *)
(***************************************************************************)
EXTENDS Naturals, Sequences

CONSTANTS
  Codes,   \* names for the code of the calls in progress
  Fibers

VARIABLES
  stack,   \* the calls in progress, the latest one last
  parked   \* those of each suspended fiber

vars == <<stack, parked>>

\* A call whose place is inside open try blocks.
At(code, open) == [code |-> code, open |-> open]

Top == stack[Len(stack)]
Place(place) == stack' = [stack EXCEPT ![Len(stack)] = place] /\ UNCHANGED parked

Init == stack = <<>> /\ parked = [f \in Fibers |-> <<>>]

Call(c) == stack' = Append(stack, At(c, 0)) /\ UNCHANGED parked
TailCall(c) == stack # <<>> /\ Place(At(c, 0))
Return ==
  /\ stack # <<>>
  /\ stack' = SubSeq(stack, 1, Len(stack) - 1)
  /\ UNCHANGED parked

\* The place moves into a try block, or out of one or more.
Enter == stack # <<>> /\ Place(At(Top.code, Top.open + 1))
Leave == stack # <<>> /\ \E n \in 0..Top.open - 1 : Place(At(Top.code, n))

\* The calls that have a handler, and the end of a program without one.
Catching == {k \in DOMAIN stack : stack[k].open > 0}
Throw ==
  \E k \in Catching :
    /\ \A l \in Catching : l <= k
    /\ stack' = Append(SubSeq(stack, 1, k - 1), At(stack[k].code, stack[k].open - 1))
    /\ UNCHANGED parked
Fail == Catching = {} /\ stack' = <<>> /\ UNCHANGED parked

\* A fiber takes its calls along, and the host may drop everything.
Suspend(f) ==
  \E b \in 1..Len(stack) - 1 :
    /\ stack' = SubSeq(stack, 1, b)
    /\ parked' = [parked EXCEPT ![f] = SubSeq(stack, b + 1, Len(stack))]
Resume(f) ==
  /\ stack' = stack \o parked[f]
  /\ parked' = [parked EXCEPT ![f] = <<>>]
Discard == stack = <<>> /\ UNCHANGED stack /\ parked' = [f \in Fibers |-> <<>>]

Next ==
  \/ Return \/ Enter \/ Leave \/ Throw \/ Fail \/ Discard
  \/ \E c \in Codes : Call(c) \/ TailCall(c)
  \/ \E f \in Fibers : Suspend(f) \/ Resume(f)

Spec == Init /\ [][Next]_vars
=============================================================================
