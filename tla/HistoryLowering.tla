---------------------------- MODULE HistoryLowering ----------------------------
(***************************************************************************)
(* The machine lower_history makes of one with history: states are         *)
(* numbered, a variable per owner keeps the id of the stoppable leaf last  *)
(* exited below it, one shared variable the id a restore is heading for,   *)
(* and the initial transitions are rewritten to route by it.  The gate     *)
(* state of an evented initial is folded into the transition it guards.    *)
(***************************************************************************)
EXTENDS HistoryMachine

CONSTANT ids     \* the numbers of the states, in preorder from 1

Ids(S) == {ids[s] : s \in S}

Lowest(S) == CHOOSE n \in Ids(S) : \A k \in Ids(S) : n <= k
Highest(S) == CHOOSE n \in Ids(S) : \A k \in Ids(S) : k <= n

(* Preorder: a subtree is a range of numbers that starts at its root.  The  *)
(* states are finitely many, so that there are a lowest and a highest.      *)
ASSUME PreorderAssumption ==
  /\ ids \in [State -> Nat \ {0}]
  /\ \A s, t \in State : ids[s] = ids[t] => s = t
  /\ \A s, t \in State :
       IF t \in Subtree(s) THEN ids[s] <= ids[t]
       ELSE ids[t] < ids[s] \/ \A u \in Subtree(s) : ids[u] < ids[t]
  /\ \A S \in SUBSET State \ {{}} :
       \E low, high \in S : \A t \in S : ids[low] <= ids[t] /\ ids[t] <= ids[high]

VARIABLES
  hist,      \* __hist_<owner>
  goto,      \* __hist_goto
  saved,     \* the snapshot of both a cycle starts from
  remembered \* an observer: what the rule of history says the record is

vars == <<control, hist, goto, saved, remembered>>

(* _range and _in_subtree: a test on goto, or on a record.                  *)
Within(n, S) == S # {} /\ Lowest(S) <= n /\ n <= Highest(S)
InSubtree(n, s) == Within(n, Subtree(s))

-------------------------------------------------------------------------------
(* What is rewritten.                                                       *)

(* The leaves a record can name through the child c.                        *)
LeavesUnder(c) == IF c \in Stoppable THEN {c} ELSE LeavesBelow(c)

(* Mutant: a shallow history forgets the leaves that are children.          *)
RestoreTargetInner(o, kind, n) ==
  IF kind = "deep"
    THEN IF n # 0 THEN n ELSE ids[machine.default[o]["deep"]]
    ELSE IF \E c \in Children(o) : Within(n, LeavesBelow(c))
           THEN ids[CHOOSE c \in Children(o) : Within(n, LeavesBelow(c))]
           ELSE ids[machine.default[o]["shallow"]]

(* _restore_target: the expression, for the value the record has.           *)
RestoreTarget(o, kind, n) ==
  IF kind = "deep"
    THEN IF n # 0 THEN n ELSE ids[machine.default[o]["deep"]]
    ELSE IF \E c \in Children(o) : Within(n, LeavesUnder(c))
           THEN ids[CHOOSE c \in Children(o) : Within(n, LeavesUnder(c))]
           ELSE ids[machine.default[o]["shallow"]]

(* _possible_targets                                                        *)
PossibleTargets(o) ==
  {machine.default[o][k] : k \in KindsOf(machine, o)}
    \cup (IF "deep" \in KindsOf(machine, o) THEN LeavesBelow(o) ELSE {})
    \cup (IF "shallow" \in KindsOf(machine, o)
            THEN {c \in Children(o) : LeavesUnder(c) # {}} ELSE {})

(* The children of s on the way to a target.                                *)
Hops(s) ==
  {c \in Children(s) : \E o \in Owners : /\ s \in Subtree(o)
                                         /\ \E t \in PossibleTargets(o) : t \in Subtree(c)}

Targets == UNION {PossibleTargets(o) : o \in Owners}
CompositeTargets == Targets \cap Composite

Touched(s) == Hops(s) # {} \/ s \in CompositeTargets

Plain(e) == "event" \notin e.needs /\ ~e.effect /\ e.history = "none"

(* The first plain initial to a child on the way takes its route over.      *)
Merged(s, i) ==
  LET e == machine.initials[s][i] IN
  /\ Touched(s) /\ Plain(e) /\ e.to \in Hops(s)
  /\ \A j \in 1 .. i - 1 : ~(Plain(machine.initials[s][j]) /\ machine.initials[s][j].to = e.to)

(* Mutant: a state a restore ends at keeps its initials shut.               *)
GateZero(s) == goto = 0

Gate(s) == goto = 0 \/ (s \in CompositeTargets /\ goto = ids[s])

(* What goto becomes on an initial transition e that has been gated, and on *)
(* one that has been left alone.                                            *)
Sent(e, otherwise) ==
  IF e.history = "none" THEN otherwise ELSE RestoreTarget(e.to, e.history, hist[e.to])

-------------------------------------------------------------------------------
(* The lowered machine.                                                     *)

Encoded(leaf) == IF leaf = None THEN 0 ELSE ids[leaf]

(* history_variables: a start at a leaf is given records, or none.          *)
Init ==
  /\ machine \in Machines
  /\ mode = "rest" /\ at \in Stoppable \cup {Root} /\ home = None
  /\ holds = {}
  /\ remembered \in [Owners -> Stoppable \cup {None}]
  /\ \A o \in Owners : remembered[o] \in LeavesBelow(o) \cup {None}
  /\ hist = [o \in Owners |-> Encoded(remembered[o])]
  /\ goto = 0
  /\ saved = [hist |-> hist, goto |-> goto, remembered |-> remembered]

Begin ==
  /\ BeginCycle
  /\ saved' = [hist |-> hist, goto |-> goto, remembered |-> remembered]
  /\ UNCHANGED <<hist, goto, remembered>>

(* Mutant: a leaf is recorded everywhere.                                   *)
RecordedEverywhere == [o \in Owners |-> IF at \in Stoppable THEN ids[at] ELSE hist[o]]

(* Mutant: only the owner next above the leaf is told.                      *)
RecordedNearest == [o \in Owners |-> IF at \in Stoppable \cap Children(o) THEN ids[at] ELSE hist[o]]

(* The exit action of a stoppable leaf writes its id into every owner above *)
(* it.                                                                      *)
Recorded == [o \in Owners |-> IF at \in LeavesBelow(o) THEN ids[at] ELSE hist[o]]

(* Exits first, then the effect, which ends with the restore target.        *)
Take ==
  \E e \in machine.edges :
    /\ Follow(e)
    /\ hist' = Recorded
    /\ goto' = IF e.history = "none" THEN goto
               ELSE RestoreTarget(e.to, e.history, Recorded[e.to])
    /\ remembered' = [o \in Owners |->
         IF at = o /\ home \in below[o] THEN home ELSE remembered[o]]
    /\ UNCHANGED saved

(* Mutant: a leaf does not end the restore.                                 *)
OnwardAlways(c) == IF InSubtree(goto, c) THEN goto ELSE 0

(* Routes are taken while the target is ahead; entering a leaf ends them.   *)
Onward(c) == IF c \notin Composite THEN 0 ELSE IF InSubtree(goto, c) THEN goto ELSE 0

(* The rewritten guards of the initials of at, and those of the routes      *)
(* added in front of them.                                                  *)
Open(i) ==
  LET e == machine.initials[at][i] IN
  IF ~Touched(at) THEN Satisfied(e)
  ELSE \/ Gate(at) /\ Satisfied(e)
       \/ Merged(at, i) /\ InSubtree(goto, e.to)

OpenRoute(c) ==
  /\ c \in Hops(at)
  /\ \A i \in DOMAIN machine.initials[at] : Merged(at, i) => machine.initials[at][i].to # c
  /\ InSubtree(goto, c)

(* Where the initial i sends goto: a gated one clears it first, so that an  *)
(* entry of a nested history stands.                                        *)
Directed(i) ==
  LET e == machine.initials[at][i] IN
  IF Merged(at, i) THEN Onward(e.to) ELSE Sent(e, IF Touched(at) THEN 0 ELSE goto)

EnterInitial ==
  /\ mode = "enter"
  /\ \E i \in DOMAIN machine.initials[at] :
       LET e == machine.initials[at][i] IN
       /\ Open(i)
       /\ Descend(e.to, e.effect)
       /\ goto' = Directed(i)
  /\ UNCHANGED <<hist, saved, remembered>>

EnterRoute ==
  /\ mode = "enter"
  /\ \E c \in Children(at) :
       /\ OpenRoute(c)
       /\ Descend(c, FALSE)
       /\ goto' = IF c \in Composite THEN goto ELSE 0
  /\ UNCHANGED <<hist, saved, remembered>>

Fail ==
  /\ Return
  /\ hist' = saved.hist /\ goto' = saved.goto /\ remembered' = saved.remembered
  /\ UNCHANGED saved

Next ==
  \/ Begin \/ Take \/ Fail
  \/ EnterInitial \/ EnterRoute

Spec == Init /\ [][Next]_vars

-------------------------------------------------------------------------------
(* Properties.                                                              *)

(* The variables have their types; a record names a leaf below its owner.   *)
TypeOK ==
  /\ machine \in Machines
  /\ mode \in {"rest", "select", "enter", "ended"}
  /\ at \in State /\ home \in Stoppable \cup {None}
  /\ holds \in SUBSET Trigger
  /\ goto \in Ids(State) \cup {0}
  /\ hist \in [Owners -> Nat] /\ remembered \in [Owners -> Stoppable \cup {None}]
  /\ \A o \in Owners : /\ hist[o] \in Ids(LeavesBelow(o)) \cup {0}
                       /\ remembered[o] \in LeavesBelow(o) \cup {None}

(* __hist_goto is zero whenever the machine is stable, whatever route a     *)
(* restore has taken and however it has failed.                             *)
GotoIsOver == mode \in {"rest", "ended"} => goto = 0

(* The variable of an owner that is not active is its record: the leaf it   *)
(* was last left from, although leaves below an active owner and leaves of  *)
(* rejected candidates write it too.                                        *)
RecordsAreTrue ==
  \A o \in Owners : at \notin Subtree(o) => hist[o] = Encoded(remembered[o])

Heading == IF goto = 0 THEN None ELSE CHOOSE s \in State : ids[s] = goto

(* The rewritten initial transitions open exactly when the written ones do, *)
(* or, while a restore passes, exactly one does and leads towards its       *)
(* target: a restore can neither be lost nor fall back to an ordinary entry.*)
SameChoices ==
  mode = "enter" =>
    IF Heading \in {None, at}
      THEN /\ \A c \in Children(at) : ~OpenRoute(c)
           /\ \A i \in DOMAIN machine.initials[at] :
                Open(i) <=> Satisfied(machine.initials[at][i])
      ELSE \E c \in Children(at) :
             /\ Heading \in Subtree(c)
             /\ \A i \in DOMAIN machine.initials[at] :
                  Open(i) => machine.initials[at][i].to = c /\ Merged(at, i) /\ ~OpenRoute(c)
             /\ \A d \in Children(at) : OpenRoute(d) => d = c
             /\ OpenRoute(c) \/ \E i \in DOMAIN machine.initials[at] : Open(i)

Native == INSTANCE NativeHistory
  WITH record <- remembered, heading <- Heading, before <- saved.remembered

(* The lowered machine does what history promises.                          *)
KeepsHistory == Native!Spec

================================================================================
