----------------------------- MODULE NativeHistory -----------------------------
(***************************************************************************)
(* What history promises: an owner remembers the stoppable leaf it was     *)
(* last left from, and a restore leads straight to what the record says.   *)
(***************************************************************************)
EXTENDS HistoryMachine

VARIABLES
  record,    \* the leaf an owner was last left from
  heading,   \* where a restore in flight is going
  before     \* the records at the beginning of the cycle

vars == <<control, record, heading, before>>

Init ==
  /\ machine \in Machines
  /\ mode = "rest" /\ at \in Stoppable \cup {Root} /\ home = None
  /\ holds = {}
  /\ record \in [Owners -> Stoppable \cup {None}]
  /\ \A o \in Owners : record[o] \in LeavesBelow(o) \cup {None}
  /\ heading = None
  /\ before = record

Begin ==
  /\ BeginCycle
  /\ before' = record
  /\ UNCHANGED <<record, heading>>

(* Leaving an owner for good; a visit that met pseudo states only changes   *)
(* nothing.                                                                 *)
Left(o) ==
  IF at = o /\ home \in below[o] THEN home ELSE record[o]

(* The target of a restore of o, given its record.                          *)
Target(o, kind, leaf) ==
  IF leaf = None THEN machine.default[o][kind]
  ELSE IF kind = "deep" THEN leaf
  ELSE CHOOSE c \in Children(o) : leaf \in Subtree(c)

Take ==
  \E e \in machine.edges :
    /\ Follow(e)
    /\ record' = [o \in Owners |-> Left(o)]
    /\ heading' = IF e.history = "none" THEN None ELSE Target(e.to, e.history, Left(e.to))
    /\ UNCHANGED before

(* An ordinary entry, or the ordinary initials of the state a restore has   *)
(* reached.                                                                 *)
EnterInitial ==
  /\ mode = "enter" /\ heading \in {None, at}
  /\ \E e \in InitialsOf(machine, at) :
       /\ Satisfied(e)
       /\ Descend(e.to, e.effect)
       /\ heading' = IF e.history = "none" THEN None ELSE Target(e.to, e.history, record[e.to])
  /\ UNCHANGED <<record, before>>

(* On the way of a restore no initial transition runs.                      *)
EnterTowards ==
  /\ mode = "enter" /\ heading \notin {None, at}
  /\ \E c \in Children(at) :
       /\ heading \in Subtree(c)
       /\ Descend(c, FALSE)
       /\ heading' = IF c \in Composite THEN heading ELSE None
  /\ UNCHANGED <<record, before>>

(* All or nothing.                                                          *)
Fail ==
  /\ Return
  /\ record' = before /\ heading' = None
  /\ UNCHANGED before

Next == Begin \/ Take \/ EnterInitial \/ EnterTowards \/ Fail

Spec == Init /\ [][Next]_vars

================================================================================
