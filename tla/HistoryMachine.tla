---------------------------- MODULE HistoryMachine ----------------------------
(***************************************************************************)
(* A hierarchical machine whose composite states may be entered through    *)
(* their history, as far as history is concerned: where control is, what   *)
(* initial transitions a composite has, and the rollback of a candidate    *)
(* that cannot reach a stoppable leaf.  What is remembered, and how a      *)
(* restore finds its way, is left to the modules that extend this one.     *)
(***************************************************************************)
EXTENDS Integers, Sequences

CONSTANTS State,
          Root,
          Pseudo,      \* the pseudo states, leaves all of them
          parent,      \* State \ {Root} -> State
          below,       \* the states strictly below a state
          Machines,    \* the machines over this tree
          None, Exit

Composite == {parent[s] : s \in State \ {Root}}
Stoppable == State \ (Composite \cup Pseudo)

Subtree(s) == {s} \cup below[s]
Children(s) == {c \in State \ {Root} : parent[c] = s}
LeavesBelow(s) == Stoppable \cap below[s]

ASSUME TreeAssumption ==
  /\ Root \in State /\ Root \in Composite
  /\ None \notin State /\ Exit \notin State
  /\ Pseudo \subseteq State \ Composite
  /\ parent \in [State \ {Root} -> State]
  /\ below \in [State -> SUBSET (State \ {Root})]
  /\ \A s \in State : s \notin below[s] /\ \A t \in below[s] : below[t] \subseteq below[s]
  /\ \A s \in State : \A t \in below[s] : \E c \in Children(s) : t \in Subtree(c)
  /\ \A s \in State \ {Root}, o \in State : s \in below[o] <=> parent[s] \in Subtree(o)

(* What the initial transitions of a machine may ask for.                   *)
Trigger == {"guard", "event"}

Kind == {"shallow", "deep"}
History == Kind \cup {"none"}

(* [*] -> to, [*] -> to.[H] or [*] -> to.[H*].                              *)
Initial == [to : State, needs : SUBSET Trigger, effect : BOOLEAN, history : History]

(* from -> to, with from and to siblings or to the exit; the triggers and   *)
(* effects of these matter to nobody here.                                  *)
Edge == [from : State, to : State \cup {Exit}, history : History]

(* default is what [H] -> and [H*] -> name below an owner; where nothing is *)
(* declared it does not matter.                                             *)
Machine == [initials : [Composite -> Seq(Initial)], edges : SUBSET Edge,
            default : [Composite \ {Root} -> [Kind -> State]]]

InitialsOf(m, s) == {m.initials[s][i] : i \in DOMAIN m.initials[s]}

Entries(m) == m.edges \cup UNION {InitialsOf(m, s) : s \in Composite}

(* used: the owners some transition enters through their history.           *)
OwnersOf(m) == {e.to : e \in {f \in Entries(m) : f.history # "none"}}

KindsOf(m, o) == {e.history : e \in {f \in Entries(m) : f.to = o}} \ {"none"}

(* The machines that the checks of declarations and targets let through.    *)
Valid(m) ==
  /\ m \in Machine
  /\ \A s \in Composite : \A e \in InitialsOf(m, s) : e.to \in Children(s)
  /\ \A e \in m.edges : /\ e.from # Root
                        /\ e.to = Exit \/ e.to \in Children(parent[e.from])
                        /\ e.to = Exit => e.history = "none"
  /\ \A o \in OwnersOf(m) : o \in Composite
  /\ \A o \in OwnersOf(m) :
       /\ m.default[o]["shallow"] \in Children(o) \ Pseudo
       /\ m.default[o]["deep"] \in below[o] \ Pseudo

ASSUME MachinesAssumption == \A m \in Machines : Valid(m)

VARIABLES
  machine,
  mode,    \* rest; select: an edge from at; enter: an initial of at; ended
  at,      \* the state control is at
  home,    \* the leaf the cycle started from
  holds    \* the triggers that hold

control == <<machine, mode, at, home, holds>>

Owners == OwnersOf(machine)

(* Control reaches t.                                                       *)
Reach(t) ==
  /\ at' = t
  /\ mode' = IF t \in Composite THEN "enter" ELSE IF t \in Pseudo THEN "select" ELSE "rest"

(* A cycle begins with the events and the data of the moment; a machine at  *)
(* its root has not been started.                                           *)
BeginCycle ==
  /\ mode = "rest"
  /\ mode' = IF at = Root THEN "enter" ELSE "select"
  /\ home' = IF at = Root THEN None ELSE at
  /\ holds' \in SUBSET Trigger
  /\ UNCHANGED <<machine, at>>

(* An effect may change what the guards say, not the events.                *)
Effect == holds' \in SUBSET Trigger /\ ("event" \in holds' <=> "event" \in holds)

(* The transition e from where control is: out of a composite through the   *)
(* exit, which ends it, or to a sibling.                                    *)
Follow(e) ==
  /\ mode = "select" /\ e.from = at
  /\ Effect
  /\ IF e.to # Exit THEN Reach(e.to)
     ELSE IF parent[at] = Root THEN mode' = "ended" /\ at' = Root
     ELSE mode' = "select" /\ at' = parent[at]
  /\ UNCHANGED <<machine, home>>

(* Control descends to a child of the composite it is at.                   *)
Descend(c, effect) ==
  /\ mode = "enter"
  /\ Reach(c)
  /\ IF effect THEN Effect ELSE UNCHANGED holds
  /\ UNCHANGED <<machine, home>>

(* The candidate, or every one, fails: control is where it was.             *)
Return ==
  /\ mode \in {"select", "enter"}
  /\ mode' = "rest"
  /\ at' = IF home = None THEN Root ELSE home
  /\ UNCHANGED <<machine, home, holds>>

Satisfied(e) == e.needs \subseteq holds

================================================================================
