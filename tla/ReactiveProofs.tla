--------------------------- MODULE ReactiveProofs ---------------------------
(***************************************************************************)
(* Subscriptions and the effect queue of Reactive, for any numbers of      *)
(* effects and signals and whatever the program nests, throws and returns. *)
(***************************************************************************)
EXTENDS Reactive, FiniteSetTheorems, TLAPS

\* The effects of which a program has made some so far.
FiniteEffects == IsFiniteSet(Effects)

Shapes ==
  /\ current \in Effects \cup {NoEffect}
  /\ queue \in Seq(Effects)
  /\ state \in [Effects -> {"Absent", "Idle", "Queued", "Running"}]
  /\ deps \in [Effects -> SUBSET Signals]
  /\ subs \in [Signals -> SUBSET Effects]

Inv == Shapes /\ LinksAgree /\ QueueMatchesState

\* A listing of a finite set names every element exactly once.
LEMMA Listing ==
  ASSUME NEW S, IsFiniteSet(S), NEW q \in SetToSeqs(S)
  PROVE  /\ q \in Seq(S) /\ ToSet(q) = S
         /\ \A i, j \in 1..Len(q) : q[i] = q[j] => i = j
  <1> DEFINE n == Cardinality(S)
  <1>1. n \in Nat
    BY FS_CardinalityType
  <1>2. q \in [1..n -> S] /\ \A i, j \in 1..n : i # j => q[i] # q[j]
    BY DEF SetToSeqs
  <1>3. q \in Injection(1..n, S)
    BY <1>2 DEF Injection, IsInjective
  <1>4. Cardinality(1..n) = n
    BY <1>1, FS_Interval
  <1>5. q \in Surjection(1..n, S)
    BY <1>3, <1>4, FS_Injection
  <1>6. \A x \in S : \E i \in 1..n : q[i] = x
    BY <1>5 DEF Surjection
  <1>7. q \in Seq(S) /\ Len(q) = n /\ DOMAIN q = 1..n
    BY <1>1, <1>2
  <1>8. ToSet(q) = S
    BY <1>2, <1>6, <1>7 DEF ToSet
  <1>9. QED
    BY <1>2, <1>7, <1>8

\* An empty queue means that no effect is in state Queued.
LEMMA NothingQueued ==
  ASSUME QueueMatchesState, queue = <<>>
  PROVE  \A e \in Effects : state[e] # "Queued"
  BY DEF QueueMatchesState, ToSet

LEMMA InitInv == Init => Inv
  <1> SUFFICES ASSUME Init PROVE Inv
    OBVIOUS
  <1>1. Shapes
    BY DEF Init, Shapes
  <1>2. LinksAgree
    BY DEF Init, LinksAgree
  <1>3. ToSet(queue) = {} /\ Len(queue) = 0
    BY DEF Init, ToSet
  <1>4. QueueMatchesState
    BY <1>3 DEF Init, QueueMatchesState
  <1>5. QED
    BY <1>1, <1>2, <1>4 DEF Inv

\* Entering the body of an effect that leaves the queue.
LEMMA EnterInv ==
  ASSUME Inv, NEW e \in Effects, NEW stack, Enter(e, stack),
         queue' \in Seq(Effects), ToSet(queue') = {d \in Effects : state[d] = "Queued"} \ {e},
         \A i, j \in 1..Len(queue') : queue'[i] = queue'[j] => i = j
  PROVE  Inv'
  <1>1. Shapes'
    BY DEF Inv, Shapes, Enter, Unsubscribed
  <1>2. LinksAgree'
    BY DEF Inv, Shapes, LinksAgree, Enter, Unsubscribed
  <1>3. {d \in Effects : state'[d] = "Queued"} = {d \in Effects : state[d] = "Queued"} \ {e}
    BY DEF Inv, Shapes, Enter
  <1>4. QueueMatchesState'
    BY <1>3 DEF QueueMatchesState
  <1>5. QED
    BY <1>1, <1>2, <1>4 DEF Inv

LEMMA EffectRunInv == ASSUME Inv, NEW e \in Effects, EffectRun(e) PROVE Inv'
  <1>1. queue = <<>> /\ queue' = queue /\ state[e] = "Absent" /\ Enter(e, Spent)
    BY DEF EffectRun, Execute, Fetch
  <1>2. {d \in Effects : state[d] = "Queued"} = {d \in Effects : state[d] = "Queued"} \ {e}
    BY <1>1
  <1>3. QED
    BY <1>1, <1>2, EnterInv DEF Inv, Shapes, QueueMatchesState

\* The drain loop takes the front of the queue.
LEMMA DrainInv == ASSUME Inv, Drain PROVE Inv'
  <1> DEFINE e == Head(queue)
             n == Len(queue)
  <1>1. /\ queue # <<>> /\ queue' = Tail(queue) /\ Enter(e, frames)
        /\ queue \in Seq(Effects)
        /\ ToSet(queue) = {d \in Effects : state[d] = "Queued"}
        /\ \A i, j \in 1..n : queue[i] = queue[j] => i = j
    BY DEF Drain, Inv, Shapes, QueueMatchesState
  <1>2. /\ n \in Nat \ {0} /\ e = queue[1] /\ e \in Effects /\ 1 \in 1..n
        /\ queue' \in Seq(Effects) /\ Len(queue') = n - 1
        /\ \A i \in 1..n - 1 : queue'[i] = queue[i + 1]
        /\ DOMAIN queue = 1..n /\ DOMAIN queue' = 1..n - 1
    BY <1>1
  <1>3. \A i \in 1..n - 1 : i + 1 \in 1..n /\ i + 1 # 1
    BY <1>2
  <1>4. \A i, j \in 1..n - 1 : queue'[i] = queue'[j] => i = j
    <2>1. ASSUME NEW i \in 1..n - 1, NEW j \in 1..n - 1, queue'[i] = queue'[j]
          PROVE  i = j
      <3>1. queue[i + 1] = queue[j + 1]
        BY <1>2, <2>1
      <3>2. i + 1 = j + 1
        BY <1>1, <1>3, <3>1
      <3>3. QED
        BY <3>2
    <2>2. QED
      BY <2>1
  <1>5. ToSet(queue') = ToSet(queue) \ {e}
    <2>1. ASSUME NEW i \in 1..n - 1 PROVE queue'[i] \in ToSet(queue) \ {e}
      <3>1. queue'[i] = queue[i + 1] /\ queue[i + 1] # queue[1]
        BY <1>1, <1>2, <1>3
      <3>2. QED
        BY <1>2, <1>3, <3>1 DEF ToSet
    <2>2. ASSUME NEW j \in 1..n, queue[j] # e PROVE queue[j] \in ToSet(queue')
      <3>1. j # 1
        BY <1>2, <2>2
      <3>2. j - 1 \in 1..n - 1 /\ (j - 1) + 1 = j
        BY <1>2, <3>1
      <3>3. queue'[j - 1] = queue[j]
        BY <1>2, <3>2
      <3>4. QED
        BY <1>2, <3>2, <3>3 DEF ToSet
    <2>3. ToSet(queue') \subseteq ToSet(queue) \ {e}
      <3>1. ToSet(queue') = {queue'[i] : i \in 1..n - 1}
        BY <1>2 DEF ToSet
      <3>2. QED
        BY <2>1, <3>1
    <2>4. ToSet(queue) \ {e} \subseteq ToSet(queue')
      <3>1. ToSet(queue) = {queue[j] : j \in 1..n}
        BY <1>2 DEF ToSet
      <3>2. QED
        BY <2>2, <3>1
    <2>5. QED
      BY <2>3, <2>4
  <1>6. QED
    BY <1>1, <1>2, <1>4, <1>5, EnterInv

LEMMA SignalGetInv == ASSUME Inv, NEW s \in Signals, SignalGet(s) PROVE Inv'
  <1>1. UNCHANGED <<current, queue, state>>
    BY DEF SignalGet, effectVars
  <1>2. Shapes' /\ LinksAgree'
    <2>1. CASE current # NoEffect
      <3>1. /\ current \in Effects
            /\ deps' = [deps EXCEPT ![current] = @ \cup {s}]
            /\ subs' = [subs EXCEPT ![s] = @ \cup {current}]
        BY <2>1 DEF SignalGet, Inv, Shapes
      <3>2. QED
        BY <1>1, <3>1 DEF Inv, Shapes, LinksAgree
    <2>2. CASE current = NoEffect
      <3>1. UNCHANGED <<deps, subs>>
        BY <2>2 DEF SignalGet, linkVars
      <3>2. QED
        BY <1>1, <3>1 DEF Inv, Shapes, LinksAgree
    <2>3. QED
      BY <2>1, <2>2
  <1>3. QueueMatchesState'
    BY <1>1 DEF Inv, QueueMatchesState
  <1>4. QED
    BY <1>2, <1>3 DEF Inv

\* SIGNAL_SET queues subscribers, none of which is in the queue already.
LEMMA SignalSetInv ==
  ASSUME FiniteEffects, Inv, NEW s \in Signals, SignalSet(s) PROVE Inv'
  <1>1. /\ queue = <<>> /\ UNCHANGED <<current, deps, subs>>
        /\ state' = [e \in Effects |-> IF e \in Requeued(s) THEN "Queued" ELSE state[e]]
    BY DEF SignalSet, Execute, Fetch, linkVars
  <1>2. Requeued(s) \in SUBSET Effects /\ IsFiniteSet(Requeued(s))
    <2>1. Requeued(s) \in SUBSET Effects
      BY DEF Requeued, Notified, Inv, Shapes
    <2>2. QED
      BY <2>1, FS_Subset DEF FiniteEffects
  <1>3. PICK order \in SetToSeqs(Requeued(s)) : queue' = queue \o order
    BY DEF SignalSet
  <1>4. /\ order \in Seq(Effects) /\ ToSet(order) = Requeued(s)
        /\ \A i, j \in 1..Len(order) : order[i] = order[j] => i = j
    <2>1. /\ order \in Seq(Requeued(s)) /\ ToSet(order) = Requeued(s)
          /\ \A i, j \in 1..Len(order) : order[i] = order[j] => i = j
      BY <1>2, <1>3, Listing
    <2>2. QED
      BY <1>2, <2>1
  <1>5. queue' = order
    BY <1>1, <1>3, <1>4
  <1>6. {e \in Effects : state'[e] = "Queued"} = Requeued(s)
    BY <1>1, <1>2, NothingQueued DEF Inv
  <1>7. Shapes' /\ LinksAgree'
    BY <1>1, <1>4, <1>5 DEF Inv, Shapes, LinksAgree
  <1>8. QED
    BY <1>4, <1>5, <1>6, <1>7 DEF Inv, QueueMatchesState

\* RETURN of an effect body: it is queued again or at rest.
LEMMA ReturnInv == ASSUME Inv, Return PROVE Inv'
  <1>1. queue = <<>> /\ UNCHANGED <<deps, subs>>
    BY DEF Return, Leave, Fetch, linkVars
  <1>2. CASE EndsEffect
    <2> DEFINE e == current
    <2>1. e \in Effects
      BY <1>2 DEF EndsEffect, Inv, Shapes
    <2>2. /\ state' = [state EXCEPT ![e] = IF Again(e) THEN "Queued" ELSE "Idle"]
          /\ queue' = IF Again(e) THEN Append(queue, e) ELSE queue
          /\ current' = NoEffect
      BY <1>2 DEF Return, Finish, Ended
    <2>3. \A d \in Effects : state[d] # "Queued"
      BY <1>1, NothingQueued DEF Inv
    <2>4. CASE Again(e)
      <3>1. queue' = <<e>> /\ state' = [state EXCEPT ![e] = "Queued"]
        BY <1>1, <2>2, <2>4
      <3>2. {d \in Effects : state'[d] = "Queued"} = {e}
        BY <2>1, <2>3, <3>1 DEF Inv, Shapes
      <3>3. ToSet(queue') = {e} /\ Len(queue') = 1 /\ queue' \in Seq(Effects)
        BY <2>1, <3>1 DEF ToSet
      <3>4. \A i, j \in 1..Len(queue') : i = j
        BY <3>3
      <3>5. QED
        BY <1>1, <2>2, <3>1, <3>2, <3>3, <3>4 DEF Inv, Shapes, LinksAgree, QueueMatchesState
    <2>5. CASE ~Again(e)
      <3>1. queue' = <<>> /\ state' = [state EXCEPT ![e] = "Idle"]
        BY <1>1, <2>2, <2>5
      <3>2. {d \in Effects : state'[d] = "Queued"} = {}
        BY <2>1, <2>3, <3>1 DEF Inv, Shapes
      <3>3. ToSet(queue') = {} /\ Len(queue') = 0 /\ queue' \in Seq(Effects)
        BY <3>1 DEF ToSet
      <3>4. \A i, j \in 1..Len(queue') : i = j
        BY <3>3
      <3>5. QED
        BY <1>1, <2>2, <3>1, <3>2, <3>3, <3>4 DEF Inv, Shapes, LinksAgree, QueueMatchesState
    <2>6. QED
      BY <2>4, <2>5
  <1>3. CASE ~EndsEffect
    <2>1. UNCHANGED <<current, queue, state>>
      BY <1>3 DEF Return, effectVars
    <2>2. QED
      BY <1>1, <2>1 DEF Inv, Shapes, LinksAgree, QueueMatchesState
  <1>4. QED
    BY <1>2, <1>3

\* The other steps move frames, write signals from outside or do nothing.
LEMMA QuietInv ==
  ASSUME Inv, UNCHANGED <<current, queue, state, deps, subs>> PROVE Inv'
  BY DEF Inv, Shapes, LinksAgree, QueueMatchesState

LEMMA NextInv == ASSUME FiniteEffects, Inv, [Next]_vars PROVE Inv'
  <1>1. CASE Interpret \/ Call \/ TailNative \/ TryBegin \/ TryEnd \/ Throw \/ Fail
    BY <1>1, QuietInv
    DEF Interpret, Call, TailNative, TryBegin, TryEnd, Throw, Fail, effectVars, linkVars
  <1>2. ASSUME NEW s \in Signals, HostSet(s) PROVE Inv'
    BY <1>2, QuietInv DEF HostSet, effectVars, linkVars
  <1>3. CASE Done \/ UNCHANGED vars
    BY <1>3, QuietInv DEF Done, vars, effectVars, linkVars
  <1>4. QED
    BY <1>1, <1>2, <1>3, EffectRunInv, DrainInv, SignalGetInv, SignalSetInv, ReturnInv
    DEF Next, Step

\* The invariant holds in every reachable state.
THEOREM ReactiveInvariant == ASSUME FiniteEffects PROVE Spec => []Inv
  <1>1. Inv /\ [Next]_vars => Inv'
    BY NextInv
  <1>2. QED
    BY <1>1, InitInv, PTL DEF Spec

\* SIGNAL_GET, EFFECT_RUN and the drain loop keep ObjEffect::dependencies and
\* ObjSignal::subscribers two views of one relation, so that no subscription
\* outlives the run of the effect that made it.
THEOREM Subscriptions == ASSUME FiniteEffects PROVE Spec => []LinksAgree
  <1>1. Inv => LinksAgree
    BY DEF Inv
  <1>2. QED
    BY <1>1, ReactiveInvariant, PTL

\* effect_queue_ holds each effect in state Queued once and no other: SIGNAL_SET
\* and RETURN never queue an effect twice, whatever was thrown or nested.
THEOREM QueueIsExact == ASSUME FiniteEffects PROVE Spec => []QueueMatchesState
  <1>1. Inv => QueueMatchesState
    BY DEF Inv
  <1>2. QED
    BY <1>1, ReactiveInvariant, PTL
=============================================================================
