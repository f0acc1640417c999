------------------------------- MODULE Memory --------------------------------
(***************************************************************************)
(* The memory that an Akar program sees: one without a collector.          *)
(* Objects appear, are loaded, stored and dropped; what the program can    *)
(* reach is there with the type and the references it was left with, and   *)
(* what it cannot reach any more is forgotten at once, so that its place   *)
(* may be taken by a new object.  Gc implements it: no step of the         *)
(* collector is a step of the program's memory.                            *)
(***************************************************************************)
EXTENDS FiniteSets

CONSTANT Objects

VARIABLES
  roots,  \* the objects in registers, frames and globals
  table,  \* the interned strings
  type,   \* the type of each object that can be reached
  refs    \* its references

vars == <<roots, table, type, refs>>

\* The least set that holds R and is closed under the references r.
Reach(R, r) ==
  LET Closed == {M \in SUBSET Objects : R \subseteq M /\ \A p \in M : r[p] \subseteq M}
  IN {o \in Objects : \A M \in Closed : o \in M}

Known == Reach(roots \cup table, refs)

\* What can still be reached has the types k and the references r; its set is bound
\* by \E for TLC, which would evaluate it for every object.
Left(k, r) ==
  \E V \in {Reach(roots' \cup table', r)} :
    /\ type' = [o \in Objects |-> IF o \in V THEN k[o] ELSE "string"]
    /\ refs' = [o \in Objects |-> IF o \in V THEN r[o] ELSE {}]

Init ==
  /\ roots = {} /\ table = {}
  /\ type = [o \in Objects |-> "string"]
  /\ refs = [o \in Objects |-> {}]

\* A new object: one that the program did not know, made of what it holds.
New(o) ==
  /\ o \in roots' /\ roots = roots' \ {o} /\ table' = table
  /\ o \notin Known
  /\ refs'[o] \subseteq roots
  /\ Left([type EXCEPT ![o] = type'[o]], [refs EXCEPT ![o] = refs'[o]])
Intern(o) ==
  /\ o \in table' /\ table = table' \ {o} /\ roots' = roots
  /\ o \notin Known
  /\ Left([type EXCEPT ![o] = "string"], [refs EXCEPT ![o] = {}])

Load(c, x) ==
  /\ x \in roots' /\ roots = roots' \ {x} /\ table' = table
  /\ c \in roots /\ x \in refs[c]
  /\ Left(type, refs)
Drop(x) ==
  /\ x \in roots /\ roots' = roots \ {x} /\ table' = table
  /\ Left(type, refs)

\* A store of what the program holds, over some of what was there.
Write(c) ==
  /\ roots' = roots /\ table' = table
  /\ c \in roots
  /\ refs'[c] # refs[c] /\ refs'[c] \subseteq refs[c] \cup roots
  /\ Left(type, [refs EXCEPT ![c] = refs'[c]])

\* A reference leaves an object for a register; registers leave for a fiber.
Take(c, x) ==
  /\ x \in roots' /\ roots = roots' \ {x} /\ table' = table
  /\ c \in roots /\ x \in refs[c]
  /\ Left(type, [refs EXCEPT ![c] = @ \ {x}])
Park(f) ==
  /\ roots' \subseteq roots /\ roots' # roots /\ table' = table
  /\ f \in roots' /\ type[f] = "fiber"
  /\ roots \ roots' \subseteq refs'[f] /\ refs'[f] \subseteq refs[f] \cup roots
  /\ Left(type, [refs EXCEPT ![f] = refs'[f]])

Next ==
  \/ \E o \in Objects : New(o) \/ Intern(o) \/ Drop(o) \/ Write(o) \/ Park(o)
  \/ \E c, x \in Objects : Load(c, x) \/ Take(c, x)

Spec == Init /\ [][Next]_vars
=============================================================================
