----------------------------- MODULE HistoryProofs -----------------------------
(***************************************************************************)
(* Theorems about HistoryLowering, for every state tree numbered in        *)
(* preorder and every machine the checks of declarations let through: the  *)
(* lowered machine keeps what history promises.                            *)
(***************************************************************************)
EXTENDS HistoryLowering, TLAPS

-------------------------------------------------------------------------------
(* Numbers and the tree.                                                    *)

LEMMA Bounds ==
  ASSUME NEW S \in SUBSET State, S # {}
  PROVE  /\ Lowest(S) \in Ids(S) /\ Highest(S) \in Ids(S)
         /\ \A t \in S : Lowest(S) <= ids[t] /\ ids[t] <= Highest(S)
<1>1. PICK low \in S, high \in S : \A t \in S : ids[low] <= ids[t] /\ ids[t] <= ids[high]
  BY PreorderAssumption
<1>2. \E n \in Ids(S) : \A k \in Ids(S) : n <= k
  BY <1>1 DEF Ids
<1>3. \E n \in Ids(S) : \A k \in Ids(S) : k <= n
  BY <1>1 DEF Ids
<1>4. /\ Lowest(S) \in Ids(S) /\ \A k \in Ids(S) : Lowest(S) <= k
      /\ Highest(S) \in Ids(S) /\ \A k \in Ids(S) : k <= Highest(S)
  BY <1>2, <1>3 DEF Lowest, Highest
<1> QED
  BY <1>4 DEF Ids

LEMMA TreeFacts ==
  ASSUME NEW s \in State
  PROVE  /\ Subtree(s) \in SUBSET State /\ s \in Subtree(s)
         /\ below[s] \in SUBSET (State \ {Root})
         /\ \A t \in Subtree(s) : Subtree(t) \subseteq Subtree(s)
         /\ \A c \in Children(s) : /\ c \in State \ {Root} /\ c \in below[s] /\ s \notin Subtree(c)
                                   /\ s \in Composite
         /\ \A t \in below[s] : s \notin Subtree(t)
<1>1. Subtree(s) \in SUBSET State /\ s \in Subtree(s) /\ below[s] \in SUBSET (State \ {Root})
  BY TreeAssumption DEF Subtree
<1>2. \A t \in Subtree(s) : Subtree(t) \subseteq Subtree(s)
  BY TreeAssumption, <1>1 DEF Subtree
<1>3. \A t \in below[s] : s \notin Subtree(t)
  BY TreeAssumption, <1>1 DEF Subtree
<1>4. \A c \in Children(s) : c \in State \ {Root} /\ c \in below[s] /\ s \in Composite
  BY TreeAssumption DEF Children, Subtree, Composite
<1> QED
  BY <1>1, <1>2, <1>3, <1>4

LEMMA CompositesAreStates == Composite \subseteq State
<1> SUFFICES ASSUME NEW s \in State \ {Root} PROVE parent[s] \in State
  BY DEF Composite
<1> QED
  BY TreeAssumption

(* _in_subtree tells exactly the states of the subtree.                     *)
LEMMA SubtreeIsRange ==
  ASSUME NEW s \in State, NEW t \in State
  PROVE  InSubtree(ids[t], s) <=> t \in Subtree(s)
<1>1. Subtree(s) \in SUBSET State /\ s \in Subtree(s)
  BY TreeFacts
<1>2. /\ Lowest(Subtree(s)) \in Ids(Subtree(s)) /\ Highest(Subtree(s)) \in Ids(Subtree(s))
      /\ \A u \in Subtree(s) : Lowest(Subtree(s)) <= ids[u] /\ ids[u] <= Highest(Subtree(s))
  BY <1>1, Bounds
<1>3. PICK low \in Subtree(s), high \in Subtree(s) :
        Lowest(Subtree(s)) = ids[low] /\ Highest(Subtree(s)) = ids[high]
  BY <1>2 DEF Ids
<1>4. ids[t] \in Nat /\ ids[low] \in Nat /\ ids[high] \in Nat /\ ids[s] \in Nat
  BY <1>1, PreorderAssumption
<1>5. ids[low] = ids[s]
  BY <1>1, <1>2, <1>3, <1>4, PreorderAssumption
<1>6. CASE t \in Subtree(s)
  BY <1>1, <1>2, <1>6 DEF InSubtree, Within
<1>7. CASE t \notin Subtree(s)
  <2>1. ids[t] < ids[s] \/ ids[high] < ids[t]
    BY <1>7, <1>1, PreorderAssumption
  <2> QED
    BY <2>1, <1>3, <1>4, <1>5, <1>7 DEF InSubtree, Within
<1> QED
  BY <1>6, <1>7

LEMMA ZeroIsNowhere ==
  ASSUME NEW S \in SUBSET State
  PROVE  ~Within(0, S)
<1> SUFFICES ASSUME S # {}
             PROVE  ~(Lowest(S) <= 0)
  BY DEF Within
<1>1. Lowest(S) \in Ids(S)
  BY Bounds
<1> QED
  BY <1>1, PreorderAssumption DEF Ids

(* A range of leaves below a child tells the records that go through it.    *)
LEMMA LeavesAreRange ==
  ASSUME NEW c \in State, NEW t \in Stoppable
  PROVE  Within(ids[t], LeavesUnder(c)) <=> t \in Subtree(c)
<1>1. LeavesUnder(c) \in SUBSET State /\ LeavesUnder(c) \subseteq Subtree(c) /\ t \in State
  BY TreeFacts DEF LeavesUnder, LeavesBelow, Stoppable, Subtree
<1>2. ASSUME t \in Subtree(c) PROVE t \in LeavesUnder(c)
  <2>1. CASE t = c
    BY <2>1 DEF LeavesUnder
  <2>2. CASE t # c
    <3>1. t \in below[c]
      BY <1>2, <2>2 DEF Subtree
    <3>2. c \in Composite
      BY <3>1, TreeAssumption, TreeFacts
    <3> QED
      BY <3>1, <3>2 DEF LeavesUnder, LeavesBelow, Stoppable
  <2> QED
    BY <2>1, <2>2
<1>3. ASSUME t \in LeavesUnder(c) PROVE Within(ids[t], LeavesUnder(c))
  BY <1>1, <1>3, Bounds DEF Within
<1>4. ASSUME Within(ids[t], LeavesUnder(c)) PROVE t \in Subtree(c)
  <2>1. LeavesUnder(c) # {}
    BY <1>4 DEF Within
  <2>2. PICK low \in LeavesUnder(c), high \in LeavesUnder(c) :
          Lowest(LeavesUnder(c)) = ids[low] /\ Highest(LeavesUnder(c)) = ids[high]
    BY <1>1, <2>1, Bounds DEF Ids
  <2>3. ids[low] <= ids[t] /\ ids[t] <= ids[high]
    BY <1>4, <2>2 DEF Within
  <2>4. ids[c] <= ids[low]
    BY <1>1, PreorderAssumption
  <2> QED
    BY <1>1, <2>3, <2>4, PreorderAssumption
<1> QED
  BY <1>2, <1>3, <1>4

(* There is one way down to a state.                                        *)
LEMMA OneWay ==
  ASSUME NEW s \in State, NEW t \in State,
         NEW c \in Children(s), NEW d \in Children(s),
         t \in Subtree(c), t \in Subtree(d)
  PROVE  c = d
<1> SUFFICES ASSUME c # d PROVE FALSE
  OBVIOUS
<1>1. c \in State \ {Root} /\ d \in State \ {Root} /\ parent[c] = s /\ parent[d] = s
  BY DEF Children
<1>2. s \notin Subtree(c) /\ s \notin Subtree(d)
  BY TreeFacts
<1>3. c \notin Subtree(d) /\ d \notin Subtree(c)
  BY <1>1, <1>2, TreeAssumption DEF Subtree
<1>4. ids[c] \in Nat /\ ids[d] \in Nat /\ ids[t] \in Nat
  BY <1>1, PreorderAssumption
<1>5. ids[c] <= ids[t] /\ ids[d] <= ids[t]
  BY <1>1, PreorderAssumption
<1>6. ids[c] < ids[d] \/ ids[t] < ids[c]
  BY <1>1, <1>3, PreorderAssumption
<1>7. ids[d] < ids[c] \/ ids[t] < ids[d]
  BY <1>1, <1>3, PreorderAssumption
<1> QED
  BY <1>4, <1>5, <1>6, <1>7

-------------------------------------------------------------------------------
(* A machine that has passed the checks.                                    *)

LEMMA MachineFacts ==
  ASSUME NEW m \in Machines
  PROVE  /\ \A s \in Composite : \A i \in DOMAIN m.initials[s] :
              /\ m.initials[s][i] \in Initial /\ m.initials[s][i] \in InitialsOf(m, s)
              /\ m.initials[s][i] \in Entries(m) /\ m.initials[s][i].to \in Children(s)
         /\ \A s \in Composite : \A e \in InitialsOf(m, s) :
              e \in Initial /\ e \in Entries(m) /\ e.to \in Children(s)
         /\ \A e \in m.edges : /\ e \in Edge /\ e \in Entries(m) /\ e.from # Root
                               /\ e.to = Exit \/ e.to \in Children(parent[e.from])
                               /\ e.to = Exit => e.history = "none"
         /\ OwnersOf(m) \subseteq Composite \ {Root}
         /\ \A o \in OwnersOf(m) :
              /\ m.default[o]["shallow"] \in Children(o) \ Pseudo
              /\ m.default[o]["deep"] \in below[o] \ Pseudo
<1>1. Valid(m)
  BY MachinesAssumption
<1>2. m \in Machine
  BY <1>1 DEF Valid
<1>3. \A s \in Composite : m.initials[s] \in Seq(Initial)
  BY <1>2 DEF Machine
<1>4. m.edges \in SUBSET Edge
  BY <1>2 DEF Machine
<1>5. \A s \in Composite : \A i \in DOMAIN m.initials[s] :
        /\ m.initials[s][i] \in Initial /\ m.initials[s][i] \in InitialsOf(m, s)
        /\ m.initials[s][i] \in Entries(m)
  BY <1>3 DEF InitialsOf, Entries
<1>6. \A s \in Composite : \A e \in InitialsOf(m, s) : e \in Initial /\ e \in Entries(m)
  BY <1>3 DEF InitialsOf, Entries
<1>7. \A s \in Composite : \A e \in InitialsOf(m, s) : e.to \in Children(s)
  BY <1>1 DEF Valid
<1>8. \A e \in m.edges : /\ e \in Edge /\ e \in Entries(m) /\ e.from # Root
                         /\ e.to = Exit \/ e.to \in Children(parent[e.from])
                         /\ e.to = Exit => e.history = "none"
  BY <1>1, <1>4 DEF Valid, Entries
<1>9. Root \notin OwnersOf(m)
  <2> SUFFICES ASSUME NEW e \in Entries(m), e.history # "none", e.to = Root
               PROVE  FALSE
    BY DEF OwnersOf
  <2>1. CASE e \in m.edges
    BY <2>1, <1>8, TreeAssumption DEF Children
  <2>2. CASE \E s \in Composite : e \in InitialsOf(m, s)
    BY <2>2, <1>7 DEF Children
  <2> QED
    BY <2>1, <2>2 DEF Entries
<1>10. \A o \in OwnersOf(m) :
         /\ o \in Composite
         /\ m.default[o]["shallow"] \in Children(o) \ Pseudo
         /\ m.default[o]["deep"] \in below[o] \ Pseudo
  BY <1>1 DEF Valid
<1> QED
  BY <1>5, <1>6, <1>7, <1>8, <1>9, <1>10

LEMMA EntryIsUsed ==
  ASSUME NEW m \in Machines, NEW e \in Entries(m), e.history # "none"
  PROVE  e.to \in OwnersOf(m) /\ e.history \in KindsOf(m, e.to)
BY DEF OwnersOf, KindsOf

(* What history promises a restore of o, and what the lowered effect        *)
(* computes from the variable of a record.                                  *)
Promised(o, kind, leaf) ==
  IF leaf = None THEN machine.default[o][kind]
  ELSE IF kind = "deep" THEN leaf
  ELSE CHOOSE c \in Children(o) : leaf \in Subtree(c)

LEMMA RestoreIsPromised ==
  ASSUME machine \in Machines, NEW o \in Owners, NEW kind \in KindsOf(machine, o),
         kind \in Kind, NEW leaf \in LeavesBelow(o) \cup {None}
  PROVE  /\ RestoreTarget(o, kind, Encoded(leaf)) = ids[Promised(o, kind, leaf)]
         /\ Promised(o, kind, leaf) \in PossibleTargets(o)
         /\ Promised(o, kind, leaf) \in below[o]
<1>1. o \in State /\ o \in Composite /\ o # Root
  BY MachineFacts, CompositesAreStates DEF Owners
<1>2. /\ machine.default[o]["shallow"] \in Children(o)
      /\ machine.default[o]["deep"] \in below[o]
      /\ \A c \in Children(o) : c \in below[o]
  BY <1>1, MachineFacts, TreeFacts DEF Owners
<1>3. CASE leaf = None
  <2>1. Encoded(leaf) = 0
    BY <1>3 DEF Encoded
  <2>2. \A c \in Children(o) : ~Within(0, LeavesUnder(c))
    <3> SUFFICES ASSUME NEW c \in Children(o) PROVE LeavesUnder(c) \in SUBSET State
      BY ZeroIsNowhere
    <3> QED
      BY <1>1, TreeFacts DEF LeavesUnder, LeavesBelow, Stoppable, Children
  <2>3. RestoreTarget(o, kind, 0) = ids[machine.default[o][kind]]
    BY <2>2 DEF RestoreTarget, Kind
  <2>4. Promised(o, kind, leaf) = machine.default[o][kind]
    BY <1>3 DEF Promised
  <2> QED
    BY <1>2, <2>1, <2>3, <2>4 DEF PossibleTargets, Kind
<1>4. CASE leaf # None
  <2>1. leaf \in Stoppable /\ leaf \in below[o] /\ leaf \in State /\ Encoded(leaf) = ids[leaf]
    BY <1>4 DEF LeavesBelow, Encoded, Stoppable
  <2>2. CASE kind = "deep"
    <3>1. ids[leaf] # 0
      BY <2>1, PreorderAssumption
    <3>2. Promised(o, kind, leaf) = leaf
      BY <1>4, <2>2 DEF Promised
    <3> QED
      BY <2>1, <2>2, <3>1, <3>2, <1>4 DEF RestoreTarget, PossibleTargets
  <2>3. CASE kind = "shallow"
    <3>1. PICK c \in Children(o) : leaf \in Subtree(c)
      BY <1>1, <2>1, TreeAssumption
    <3>2. \A d \in Children(o) : leaf \in Subtree(d) <=> d = c
      BY <1>1, <2>1, <3>1, OneWay
    <3>3. \A d \in Children(o) : Within(ids[leaf], LeavesUnder(d)) <=> d = c
      BY <2>1, <3>2, LeavesAreRange DEF Children
    <3>4. Promised(o, kind, leaf) = c
      BY <1>4, <2>3, <3>2 DEF Promised
    <3>5. RestoreTarget(o, kind, ids[leaf]) = ids[c]
      <4>1. (CHOOSE d \in Children(o) : Within(ids[leaf], LeavesUnder(d))) = c
        BY <3>3
      <4> QED
        BY <2>3, <3>3, <4>1 DEF RestoreTarget
    <3>6. LeavesUnder(c) # {}
      BY <3>3 DEF Within
    <3> QED
      BY <1>2, <2>1, <2>3, <3>4, <3>5, <3>6 DEF PossibleTargets
  <2> QED
    BY <2>2, <2>3 DEF Kind
<1> QED
  BY <1>3, <1>4

-------------------------------------------------------------------------------
(* The invariant.                                                           *)

(* Where control can be.                                                    *)
Shape ==
  /\ mode = "enter" => at \in Composite
  /\ mode = "rest" => at \in Stoppable \cup {Root}
  /\ mode = "select" => at # Root
  /\ mode = "select" /\ at \in Stoppable => at = home
  /\ mode = "ended" => at = Root

Aims(o, t) == /\ t \in PossibleTargets(o) /\ goto = ids[t]
              /\ at \in Subtree(o) /\ t \in Subtree(at)

(* A restore in flight is between its owner and its target.                 *)
Underway == goto # 0 => mode = "enter" /\ \E o \in Owners : \E t \in State : Aims(o, t)

(* What the rollback restores.                                              *)
Snapshot ==
  /\ saved.goto = 0
  /\ saved.hist \in [Owners -> Nat] /\ saved.remembered \in [Owners -> Stoppable \cup {None}]
  /\ \A o \in Owners :
       /\ saved.hist[o] \in Ids(LeavesBelow(o)) \cup {0}
       /\ saved.remembered[o] \in LeavesBelow(o) \cup {None}

SnapshotIsTrue ==
  mode \in {"select", "enter"} =>
    \A o \in Owners : home \notin below[o] => saved.hist[o] = Encoded(saved.remembered[o])

(* Before the leaf of the cycle is left, and after.                         *)
Settled == mode \in {"rest", "ended"} \/ (mode = "select" /\ at \in Stoppable)

TrueOf(o) ==
  IF Settled THEN at \notin Subtree(o) => hist[o] = Encoded(remembered[o])
  ELSE IF home \in below[o]
    THEN hist[o] = ids[home] /\ (at \notin Subtree(o) => remembered[o] = home)
    ELSE hist[o] = Encoded(remembered[o])

Recording == \A o \in Owners : TrueOf(o)

IInv == TypeOK /\ Shape /\ Underway /\ Snapshot /\ SnapshotIsTrue /\ Recording

-------------------------------------------------------------------------------
(* What a step does to control.                                             *)

LEMMA Above ==
  ASSUME NEW s \in State, NEW c \in Children(s), NEW o \in State
  PROVE  /\ c \in State \ {Root} /\ s \in Composite
         /\ c \in below[o] <=> s \in Subtree(o)
         /\ s \notin Subtree(c)
<1>1. c \in State \ {Root} /\ s = parent[c]
  BY DEF Children
<1> QED
  BY <1>1, TreeAssumption, TreeFacts

LEMMA OwnersAre ==
  ASSUME machine \in Machines, NEW o \in Owners
  PROVE  /\ o \in State \ {Root} /\ o \in Composite /\ o \notin Stoppable
         /\ Root \notin Subtree(o) /\ None \notin below[o] /\ Exit \notin below[o]
         /\ LeavesBelow(o) \subseteq below[o] /\ LeavesBelow(o) \subseteq Stoppable
<1>1. o \in Composite \ {Root} /\ o \in State
  BY MachineFacts, CompositesAreStates DEF Owners
<1> QED
  BY <1>1, TreeFacts, TreeAssumption DEF Stoppable, Subtree, LeavesBelow

LEMMA Followed ==
  ASSUME TypeOK, Shape, NEW e \in machine.edges, Follow(e)
  PROVE  /\ at \in State \ {Root} /\ at \in Children(parent[at]) /\ parent[at] \in State
         /\ e \in Entries(machine) /\ e.history \in History
         /\ machine' = machine /\ home' = home /\ holds' \in SUBSET Trigger /\ mode = "select"
         /\ \/ e.to \in Children(parent[at]) /\ e.to \in State /\ Reach(e.to)
            \/ /\ e.history = "none" /\ parent[at] = Root
               /\ mode' = "ended" /\ at' = Root
            \/ /\ e.history = "none" /\ parent[at] # Root
               /\ mode' = "select" /\ at' = parent[at]
<1>1. machine \in Machines /\ at \in State
  BY DEF TypeOK
<1>2. mode = "select" /\ e.from = at /\ machine' = machine /\ home' = home
      /\ holds' \in SUBSET Trigger
  BY DEF Follow, Effect
<1>3. at # Root
  BY <1>2 DEF Shape
<1>4. parent[at] \in State /\ at \in Children(parent[at])
  BY <1>1, <1>3, TreeAssumption DEF Children
<1>5. /\ e \in Edge /\ e \in Entries(machine)
      /\ e.to = Exit \/ e.to \in Children(parent[at])
      /\ e.to = Exit => e.history = "none"
  BY <1>1, <1>2, MachineFacts
<1>6. e.history \in History
  BY <1>5 DEF Edge
<1>7. CASE e.to = Exit
  BY <1>1, <1>2, <1>3, <1>4, <1>5, <1>6, <1>7 DEF Follow
<1>8. CASE e.to # Exit
  <2>1. e.to \in Children(parent[at]) /\ e.to \in State
    BY <1>5, <1>8 DEF Children
  <2> QED
    BY <1>1, <1>2, <1>3, <1>4, <1>5, <1>6, <1>8, <2>1 DEF Follow
<1> QED
  BY <1>7, <1>8

LEMMA Descended ==
  ASSUME TypeOK, Shape, NEW c \in Children(at), NEW effect, Descend(c, effect)
  PROVE  /\ at \in State /\ at \in Composite /\ c \in State \ {Root}
         /\ machine' = machine /\ home' = home /\ holds' \in SUBSET Trigger /\ mode = "enter"
         /\ at' = c /\ Reach(c)
<1>1. at \in State /\ holds \in SUBSET Trigger
  BY DEF TypeOK
<1>2. c \in State \ {Root} /\ at \in Composite
  BY <1>1, Above
<1> QED
  BY <1>1, <1>2 DEF Descend, Reach, Effect

LEMMA Initials ==
  ASSUME TypeOK, Shape, mode = "enter", NEW i \in DOMAIN machine.initials[at]
  PROVE  /\ machine.initials[at][i] \in Initial
         /\ machine.initials[at][i] \in Entries(machine)
         /\ machine.initials[at][i] \in InitialsOf(machine, at)
         /\ machine.initials[at][i].to \in Children(at)
         /\ machine.initials[at][i].history \in History
<1>1. at \in Composite /\ machine \in Machines
  BY DEF Shape, TypeOK
<1>2. /\ machine.initials[at][i] \in Initial
      /\ machine.initials[at][i] \in Entries(machine)
      /\ machine.initials[at][i] \in InitialsOf(machine, at)
      /\ machine.initials[at][i].to \in Children(at)
  BY <1>1, MachineFacts
<1> QED
  BY <1>2 DEF Initial

(* A record leads a restore to one of its owner's targets.                  *)
LEMMA Restored ==
  ASSUME machine \in Machines, NEW e \in Entries(machine), e.history \in History,
         e.history # "none", NEW n \in Ids(LeavesBelow(e.to)) \cup {0}
  PROVE  /\ e.to \in Owners
         /\ \E t \in State : /\ RestoreTarget(e.to, e.history, n) = ids[t]
                             /\ t \in PossibleTargets(e.to) /\ t \in below[e.to]
<1>1. e.to \in Owners /\ e.history \in KindsOf(machine, e.to) /\ e.history \in Kind
  BY EntryIsUsed DEF Owners, History
<1>2. PICK leaf \in LeavesBelow(e.to) \cup {None} : n = Encoded(leaf)
  <2>1. CASE n = 0
    BY <2>1 DEF Encoded
  <2>2. CASE n \in Ids(LeavesBelow(e.to))
    <3>1. PICK leaf \in LeavesBelow(e.to) : n = ids[leaf]
      BY <2>2 DEF Ids
    <3>2. leaf # None
      BY TreeAssumption DEF LeavesBelow, Stoppable
    <3> QED
      BY <3>1, <3>2 DEF Encoded
  <2> QED
    BY <2>1, <2>2
<1>3. /\ RestoreTarget(e.to, e.history, n) = ids[Promised(e.to, e.history, leaf)]
      /\ Promised(e.to, e.history, leaf) \in PossibleTargets(e.to)
      /\ Promised(e.to, e.history, leaf) \in below[e.to]
  BY <1>1, <1>2, RestoreIsPromised
<1>4. below[e.to] \in SUBSET State
  BY <1>1, OwnersAre, TreeFacts
<1> QED
  BY <1>1, <1>3, <1>4

LEMMA Arrived ==
  ASSUME NEW t \in State \ {Root}, Reach(t)
  PROVE  /\ mode' \in {"rest", "select", "enter"} /\ at' = t
         /\ mode' = "enter" <=> t \in Composite
         /\ mode' = "rest" <=> t \in Stoppable
         /\ mode' = "select" => t \notin Stoppable
BY TreeAssumption DEF Reach, Stoppable

-------------------------------------------------------------------------------
(* One step of the lowered machine keeps each part.                         *)

LEMMA ShapeStep ==
  ASSUME TypeOK, Shape, Next
  PROVE  Shape'
<1>1. CASE Begin
  BY <1>1, TreeAssumption DEF Begin, BeginCycle, Shape, TypeOK, Stoppable
<1>2. CASE Take
  <2>1. PICK e \in machine.edges : Follow(e)
    BY <1>2 DEF Take
  <2>2. at \in State \ {Root} /\ parent[at] \in Composite /\ parent[at] \notin Stoppable
    BY <2>1, Followed, Above DEF Stoppable
  <2>3. CASE e.to \in Children(parent[at]) /\ Reach(e.to)
    <3>1. e.to \in State \ {Root}
      BY <2>3 DEF Children
    <3> QED
      BY <2>3, <3>1, Arrived DEF Shape
  <2>4. CASE mode' = "ended" /\ at' = Root
    BY <2>4 DEF Shape
  <2>5. CASE parent[at] # Root /\ mode' = "select" /\ at' = parent[at]
    BY <2>2, <2>5 DEF Shape
  <2> QED
    BY <2>1, <2>3, <2>4, <2>5, Followed
<1>3. ASSUME mode = "enter", NEW c \in Children(at), NEW effect, Descend(c, effect)
      PROVE  Shape'
  <2>1. Reach(c) /\ c \in State \ {Root}
    BY <1>3, Descended
  <2> QED
    BY <2>1, Arrived DEF Shape
<1>4. CASE EnterInitial
  <2>1. PICK i \in DOMAIN machine.initials[at] :
          Descend(machine.initials[at][i].to, machine.initials[at][i].effect)
    BY <1>4 DEF EnterInitial
  <2>2. mode = "enter" /\ machine.initials[at][i].to \in Children(at)
    BY <1>4, Initials DEF EnterInitial
  <2> QED
    BY <2>1, <2>2, <1>3
<1>5. CASE EnterRoute
  BY <1>5, <1>3 DEF EnterRoute
<1>6. CASE Fail
  <2>1. mode' = "rest" /\ (at' = Root \/ (at' = home /\ home # None))
    BY <1>6 DEF Fail, Return
  <2>2. home \in Stoppable \cup {None}
    BY DEF TypeOK
  <2>3. at' \in Stoppable \cup {Root}
    BY <2>1, <2>2
  <2> QED
    BY <2>1, <2>3 DEF Shape
<1> QED
  BY <1>1, <1>2, <1>4, <1>5, <1>6 DEF Next

(* A restore that has begun is under way.                                   *)
LEMMA UnderwayFrom ==
  ASSUME machine \in Machines, machine' = machine,
         NEW e \in Entries(machine), e.history \in History, e.history # "none",
         NEW n \in Ids(LeavesBelow(e.to)) \cup {0},
         goto' = RestoreTarget(e.to, e.history, n), Reach(e.to)
  PROVE  Underway' /\ goto' \in Ids(State)
<1>1. PICK t \in State : /\ RestoreTarget(e.to, e.history, n) = ids[t]
                         /\ t \in PossibleTargets(e.to) /\ t \in below[e.to]
  BY Restored
<1>2. e.to \in Owners /\ e.to \in Composite /\ e.to \in State
  BY Restored, OwnersAre
<1>3. at' = e.to /\ mode' = "enter"
  BY <1>2 DEF Reach
<1>4. t \in Subtree(e.to) /\ e.to \in Subtree(e.to)
  BY <1>1 DEF Subtree
<1>5. Aims(e.to, t)'
  BY <1>1, <1>3, <1>4 DEF Aims, PossibleTargets, KindsOf, Entries, InitialsOf
<1>6. e.to \in Owners'
  BY <1>2 DEF Owners
<1> QED
  BY <1>1, <1>3, <1>5, <1>6 DEF Underway, Ids

(* While a restore passes, the initials of the states on its way are shut.  *)
LEMMA WayIsTouched ==
  ASSUME machine \in Machines, Shape, Underway, at \in State, goto # 0
  PROVE  /\ mode = "enter" /\ Touched(at)
         /\ \E t \in State :
              /\ goto = ids[t] /\ t \in Subtree(at)
              /\ t = at => at \in CompositeTargets
              /\ t # at => \E c \in Hops(at) : t \in Subtree(c)
<1>1. PICK o \in Owners, t \in State : Aims(o, t)
  BY DEF Underway
<1>2. mode = "enter" /\ at \in Composite
  BY DEF Underway, Shape
<1>3. t \in PossibleTargets(o) /\ goto = ids[t] /\ at \in Subtree(o) /\ t \in Subtree(at)
  BY <1>1 DEF Aims
<1>4. ASSUME t = at PROVE at \in CompositeTargets
  BY <1>2, <1>3, <1>4 DEF CompositeTargets, Targets
<1>5. ASSUME t # at PROVE \E c \in Hops(at) : t \in Subtree(c)
  <2>1. t \in below[at]
    BY <1>3, <1>5 DEF Subtree
  <2>2. PICK c \in Children(at) : t \in Subtree(c)
    BY <2>1, TreeAssumption
  <2> QED
    BY <1>3, <2>2 DEF Hops
<1> QED
  BY <1>2, <1>3, <1>4, <1>5 DEF Touched

LEMMA UnderwayTake ==
  ASSUME TypeOK, Shape, Underway, Take
  PROVE  Underway' /\ goto' \in Ids(State) \cup {0}
<1>1. PICK e \in machine.edges :
        /\ Follow(e)
        /\ goto' = IF e.history = "none" THEN goto
                   ELSE RestoreTarget(e.to, e.history, Recorded[e.to])
  BY DEF Take
<1>2. goto = 0
  BY <1>1, Followed DEF Underway
<1>3. CASE e.history = "none"
  BY <1>1, <1>2, <1>3 DEF Underway
<1>4. CASE e.history # "none"
  <2>1. /\ e \in Entries(machine) /\ e.history \in History /\ machine' = machine
        /\ Reach(e.to) /\ machine \in Machines
    BY <1>1, <1>4, Followed DEF TypeOK
  <2>2. e.to \in Owners
    BY <2>1, <1>4, EntryIsUsed DEF Owners
  <2>3. Recorded[e.to] \in Ids(LeavesBelow(e.to)) \cup {0}
    BY <2>2 DEF Recorded, TypeOK, Ids
  <2> QED
    BY <1>1, <1>4, <2>1, <2>3, UnderwayFrom
<1> QED
  BY <1>3, <1>4

LEMMA UnderwayRoute ==
  ASSUME TypeOK, Shape, Underway, NEW c \in Children(at), NEW effect, Descend(c, effect),
         goto' = goto, InSubtree(goto, c), c \in Composite
  PROVE  Underway' /\ goto' \in Ids(State)
<1>1. /\ at \in State /\ c \in State /\ at' = c /\ Reach(c) /\ machine' = machine
      /\ machine \in Machines /\ Subtree(c) \in SUBSET State
  BY Descended, TreeFacts DEF TypeOK
<1>2. goto # 0
  BY <1>1, ZeroIsNowhere DEF InSubtree
<1>3. PICK o \in Owners, t \in State : Aims(o, t)
  BY <1>2 DEF Underway
<1>4. t \in PossibleTargets(o) /\ goto = ids[t] /\ at \in Subtree(o) /\ o \in State
  BY <1>1, <1>3, OwnersAre DEF Aims
<1>5. t \in Subtree(c)
  BY <1>1, <1>4, SubtreeIsRange
<1>6. c \in Subtree(o)
  BY <1>1, <1>4, Above DEF Subtree
<1>7. Aims(o, t)' /\ o \in Owners'
  BY <1>1, <1>4, <1>5, <1>6
  DEF Aims, PossibleTargets, KindsOf, Entries, InitialsOf, Owners, OwnersOf
<1>8. mode' = "enter"
  BY <1>1 DEF Reach
<1> QED
  BY <1>4, <1>7, <1>8 DEF Underway, Ids

LEMMA UnderwayInitial ==
  ASSUME TypeOK, Shape, Underway, EnterInitial
  PROVE  Underway' /\ goto' \in Ids(State) \cup {0}
<1>1. PICK i \in DOMAIN machine.initials[at] :
        /\ Descend(machine.initials[at][i].to, machine.initials[at][i].effect)
        /\ goto' = Directed(i)
  BY DEF EnterInitial
<1> DEFINE e == machine.initials[at][i]
<1>2. /\ mode = "enter" /\ e \in Entries(machine) /\ e.to \in Children(at)
      /\ e.history \in History /\ machine \in Machines /\ at \in State
  BY Initials DEF EnterInitial, TypeOK
<1>3. /\ machine' = machine /\ Reach(e.to) /\ at' = e.to
      /\ Descend(e.to, e.effect)
  BY <1>1, <1>2, Descended
<1>4. goto' = IF Merged(at, i) THEN Onward(e.to) ELSE Sent(e, IF Touched(at) THEN 0 ELSE goto)
  BY <1>1 DEF Directed
<1> HIDE DEF e
<1>5. CASE goto' = 0
  BY <1>5 DEF Underway
<1>6. CASE goto' # 0 /\ Merged(at, i)
  <2>1. e.to \in Composite /\ InSubtree(goto, e.to) /\ goto' = goto
    BY <1>4, <1>6 DEF Onward
  <2> QED
    BY <1>2, <1>3, <2>1, UnderwayRoute
<1>7. CASE goto' # 0 /\ ~Merged(at, i) /\ e.history = "none"
  <2>1. ~Touched(at) /\ goto # 0
    BY <1>4, <1>7 DEF Sent
  <2> QED
    BY <1>2, <2>1, WayIsTouched
<1>8. CASE ~Merged(at, i) /\ e.history # "none"
  <2>1. goto' = RestoreTarget(e.to, e.history, hist[e.to])
    BY <1>4, <1>8 DEF Sent
  <2>2. e.to \in Owners
    BY <1>2, <1>8, EntryIsUsed DEF Owners
  <2>3. hist[e.to] \in Ids(LeavesBelow(e.to)) \cup {0}
    BY <2>2 DEF TypeOK
  <2> QED
    BY <1>2, <1>3, <1>8, <2>1, <2>3, UnderwayFrom
<1> QED
  BY <1>5, <1>6, <1>7, <1>8

LEMMA UnderwayStep ==
  ASSUME TypeOK, Shape, Underway, Snapshot, Next
  PROVE  Underway' /\ goto' \in Ids(State) \cup {0}
<1>1. CASE Begin
  <2>1. goto = 0 /\ goto' = goto
    BY <1>1 DEF Begin, BeginCycle, Underway
  <2> QED
    BY <2>1 DEF Underway
<1>2. CASE Take
  BY <1>2, UnderwayTake
<1>3. CASE Fail
  BY <1>3 DEF Fail, Snapshot, Underway
<1>4. CASE EnterInitial
  BY <1>4, UnderwayInitial
<1>5. CASE EnterRoute
  <2>1. PICK c \in Children(at) : /\ OpenRoute(c) /\ Descend(c, FALSE)
                                  /\ goto' = IF c \in Composite THEN goto ELSE 0
    BY <1>5 DEF EnterRoute
  <2>2. CASE c \in Composite
    BY <2>1, <2>2, UnderwayRoute DEF OpenRoute
  <2>3. CASE c \notin Composite
    BY <2>1, <2>3 DEF Underway
  <2> QED
    BY <2>2, <2>3
<1> QED
  BY <1>1, <1>2, <1>3, <1>4, <1>5 DEF Next

(* A step of the lowered machine from what the records see.                 *)
LEMMA MachineStays ==
  ASSUME TypeOK, Shape, Next
  PROVE  /\ machine' = machine /\ machine \in Machines /\ Owners' = Owners
         /\ holds' \in SUBSET Trigger /\ at' \in State
         /\ mode' \in {"rest", "select", "enter", "ended"}
<1>1. machine \in Machines /\ at \in State /\ holds \in SUBSET Trigger /\ home \in Stoppable \cup {None}
  BY DEF TypeOK
<1>2. CASE Begin
  BY <1>1, <1>2 DEF Begin, BeginCycle, Owners
<1>3. CASE Take
  <2>1. PICK e \in machine.edges : Follow(e)
    BY <1>3 DEF Take
  <2>2. \A t \in State : Reach(t) => at' = t /\ mode' \in {"rest", "select", "enter"}
    BY DEF Reach
  <2>3. machine' = machine /\ holds' \in SUBSET Trigger
    BY <2>1, Followed
  <2>4. at' \in State /\ mode' \in {"rest", "select", "enter", "ended"}
    BY <2>1, <2>2, Followed, TreeAssumption
  <2> QED
    BY <1>1, <2>3, <2>4 DEF Owners
<1>4. ASSUME NEW c \in Children(at), NEW effect, Descend(c, effect)
      PROVE  /\ machine' = machine /\ holds' \in SUBSET Trigger /\ at' \in State
             /\ mode' \in {"rest", "select", "enter"}
  <2>1. machine' = machine /\ holds' \in SUBSET Trigger /\ at' = c /\ c \in State /\ Reach(c)
    BY <1>4, Descended
  <2> QED
    BY <2>1 DEF Reach
<1>5. CASE EnterInitial
  <2>1. PICK i \in DOMAIN machine.initials[at] :
          Descend(machine.initials[at][i].to, machine.initials[at][i].effect)
    BY <1>5 DEF EnterInitial
  <2>2. machine.initials[at][i].to \in Children(at)
    BY <1>5, Initials DEF EnterInitial
  <2> QED
    BY <1>1, <1>4, <2>1, <2>2 DEF Owners
<1>6. CASE EnterRoute
  BY <1>1, <1>4, <1>6 DEF EnterRoute, Owners
<1>7. CASE Fail
  <2>1. /\ machine' = machine /\ holds' = holds /\ mode' = "rest"
        /\ at' = Root \/ (at' = home /\ home # None)
    BY <1>7 DEF Fail, Return
  <2>2. at' \in State
    BY <1>1, <2>1, TreeAssumption DEF Stoppable
  <2> QED
    BY <1>1, <2>1, <2>2 DEF Owners
<1> QED
  BY <1>1, <1>2, <1>3, <1>5, <1>6, <1>7 DEF Next

LEMMA TypeStep ==
  ASSUME TypeOK, Shape, Underway, Snapshot, Next
  PROVE  TypeOK'
<1>1. goto' \in Ids(State) \cup {0}
  BY UnderwayStep
<1>2. /\ machine' = machine /\ machine \in Machines /\ Owners' = Owners
      /\ holds' \in SUBSET Trigger /\ at' \in State
      /\ mode' \in {"rest", "select", "enter", "ended"}
  BY MachineStays
<1>3. home' \in Stoppable \cup {None}
  <2>1. CASE Begin
    BY <2>1 DEF Begin, BeginCycle, TypeOK, Shape
  <2>2. CASE home' = home
    BY <2>2 DEF TypeOK
  <2> QED
    BY <2>1, <2>2 DEF Next, Take, Follow, EnterInitial, EnterRoute, Descend, Fail, Return
<1>4. /\ hist' \in [Owners -> Nat] /\ remembered' \in [Owners -> Stoppable \cup {None}]
      /\ \A o \in Owners : /\ hist'[o] \in Ids(LeavesBelow(o)) \cup {0}
                           /\ remembered'[o] \in LeavesBelow(o) \cup {None}
  <2>1. CASE Take
    <3>1. /\ hist' = Recorded
          /\ remembered' = [o \in Owners |->
               IF at = o /\ home \in below[o] THEN home ELSE remembered[o]]
      BY <2>1 DEF Take
    <3>2. at \in State /\ ids[at] \in Nat /\ home \in Stoppable \cup {None}
      BY PreorderAssumption DEF TypeOK
    <3>3. ASSUME NEW o \in Owners
          PROVE  /\ hist'[o] \in Ids(LeavesBelow(o)) \cup {0} /\ hist'[o] \in Nat
                 /\ remembered'[o] \in LeavesBelow(o) \cup {None}
                 /\ remembered'[o] \in Stoppable \cup {None}
      <4>1. hist'[o] = IF at \in LeavesBelow(o) THEN ids[at] ELSE hist[o]
        BY <3>1 DEF Recorded
      <4>2. remembered'[o] = IF at = o /\ home \in below[o] THEN home ELSE remembered[o]
        BY <3>1
      <4>3. /\ hist[o] \in Ids(LeavesBelow(o)) \cup {0} /\ hist[o] \in Nat
            /\ remembered[o] \in LeavesBelow(o) \cup {None}
        BY DEF TypeOK
      <4>4. None \notin below[o] /\ LeavesBelow(o) \subseteq Stoppable
        BY <1>2, OwnersAre
      <4> QED
        BY <3>2, <4>1, <4>2, <4>3, <4>4 DEF Ids, LeavesBelow
    <3> QED
      BY <3>1, <3>3 DEF Recorded
  <2>2. CASE Fail
    BY <2>2 DEF Fail, Snapshot
  <2>3. CASE UNCHANGED <<hist, remembered>>
    BY <2>3 DEF TypeOK
  <2> QED
    BY <2>1, <2>2, <2>3 DEF Next, Begin, EnterInitial, EnterRoute
<1> QED
  BY <1>1, <1>2, <1>3, <1>4 DEF TypeOK

LEMMA SnapshotStep ==
  ASSUME TypeOK, Shape, Underway, Snapshot, Next
  PROVE  Snapshot'
<1>1. Owners' = Owners
  BY MachineStays
<1>2. CASE Begin
  <2>1. /\ saved'.goto = goto /\ saved'.hist = hist /\ saved'.remembered = remembered
        /\ goto = 0
    BY <1>2 DEF Begin, BeginCycle, Underway
  <2> QED
    BY <1>1, <2>1 DEF Snapshot, TypeOK
<1>3. CASE saved' = saved
  BY <1>1, <1>3 DEF Snapshot
<1> QED
  BY <1>2, <1>3 DEF Next, Take, EnterInitial, EnterRoute, Fail

LEMMA SnapshotIsTrueStep ==
  ASSUME TypeOK, Shape, Underway, SnapshotIsTrue, Recording, Next
  PROVE  SnapshotIsTrue'
<1>1. Owners' = Owners /\ machine \in Machines
  BY MachineStays
<1>2. CASE Begin
  <2>1. /\ saved'.hist = hist /\ saved'.remembered = remembered /\ mode = "rest"
        /\ home' = IF at = Root THEN None ELSE at
    BY <1>2 DEF Begin, BeginCycle
  <2>2. at \in Stoppable \cup {Root}
    BY <2>1 DEF Shape
  <2>3. ASSUME NEW o \in Owners, home' \notin below[o]
        PROVE  hist[o] = Encoded(remembered[o])
    <3>1. at \notin Subtree(o)
      BY <1>1, <2>1, <2>2, <2>3, OwnersAre DEF Subtree
    <3> QED
      BY <2>1, <3>1 DEF Recording, TrueOf, Settled
  <2> QED
    BY <1>1, <2>1, <2>3 DEF SnapshotIsTrue, Encoded
<1>3. CASE Fail
  BY <1>3 DEF Fail, Return, SnapshotIsTrue
<1>4. CASE saved' = saved /\ home' = home /\ mode \in {"select", "enter"}
  BY <1>1, <1>4 DEF SnapshotIsTrue, Encoded
<1> QED
  BY <1>2, <1>3, <1>4
  DEF Next, Take, Follow, EnterInitial, EnterRoute, Descend

(* The leaf of a cycle writes every owner above it; none of them is left    *)
(* before control has passed through it.                                    *)
LEMMA RecordingTake ==
  ASSUME TypeOK, Shape, Recording, Take
  PROVE  Recording'
<1>1. PICK e \in machine.edges : Follow(e)
  BY DEF Take
<1>2. /\ at \in State \ {Root} /\ at \in Children(parent[at]) /\ parent[at] \in State
      /\ home' = home /\ mode = "select" /\ machine' = machine /\ machine \in Machines
  BY <1>1, Followed DEF TypeOK
<1>3. /\ hist' = Recorded /\ Owners' = Owners
      /\ remembered' = [o \in Owners |->
           IF at = o /\ home \in below[o] THEN home ELSE remembered[o]]
  BY <1>2 DEF Take, Owners
<1>4. \/ at' \in Children(parent[at])
      \/ at' = parent[at] /\ at' # Root /\ mode' = "select"
      \/ at' = Root /\ at' = parent[at]
  BY <1>1, Followed DEF Reach
<1>5. SUFFICES ASSUME NEW o \in Owners PROVE TrueOf(o)'
  BY <1>3 DEF Recording
<1>6. /\ o \in State \ {Root} /\ o \notin Stoppable /\ Root \notin Subtree(o)
      /\ None \notin below[o] /\ LeavesBelow(o) \subseteq below[o]
  BY <1>2, OwnersAre
<1>7. at \in below[o] <=> parent[at] \in Subtree(o)
  BY <1>2, <1>6, Above
(* Control stays within the owner unless it was at its top.                 *)
<1>8. at \in below[o] => at' \in Subtree(o)
  <2>1. ASSUME at' \in Children(parent[at]) PROVE at' \in below[o] <=> parent[at] \in Subtree(o)
    BY <1>2, <1>6, <2>1, Above
  <2> QED
    BY <1>4, <1>6, <1>7, <2>1 DEF Subtree
<1>9. /\ hist'[o] = IF at \in LeavesBelow(o) THEN ids[at] ELSE hist[o]
      /\ remembered'[o] = IF at = o /\ home \in below[o] THEN home ELSE remembered[o]
  BY <1>3 DEF Recorded
<1>10. TrueOf(o)
  BY DEF Recording
<1>11. CASE at \in Stoppable
  <2>1. at = home /\ at # o
    BY <1>2, <1>6, <1>11 DEF Shape
  <2>2. at \in LeavesBelow(o) <=> home \in below[o]
    BY <1>11, <2>1 DEF LeavesBelow
  <2>3. CASE home \in below[o]
    BY <1>2, <1>8, <1>9, <2>1, <2>2, <2>3 DEF TrueOf
  <2>4. CASE home \notin below[o]
    <3>1. hist[o] = Encoded(remembered[o])
      BY <1>2, <1>10, <1>11, <2>1, <2>4 DEF TrueOf, Settled, Subtree
    <3> QED
      BY <1>2, <1>9, <2>1, <2>2, <2>4, <3>1 DEF TrueOf, Encoded
  <2> QED
    BY <2>3, <2>4
<1>12. CASE at \notin Stoppable
  <2>1. /\ home \in below[o] => hist[o] = ids[home] /\ (at \notin Subtree(o) => remembered[o] = home)
        /\ home \notin below[o] => hist[o] = Encoded(remembered[o])
    BY <1>2, <1>10, <1>12 DEF TrueOf, Settled
  <2>2. hist'[o] = hist[o]
    BY <1>9, <1>12 DEF LeavesBelow
  <2>3. CASE home \in below[o]
    <3>1. at' \notin Subtree(o) => remembered'[o] = home
      BY <1>8, <1>9, <2>1, <2>3 DEF Subtree
    <3>2. home # None
      BY <1>6, <2>3
    <3> QED
      BY <1>2, <2>1, <2>2, <2>3, <3>1, <3>2 DEF TrueOf, Encoded
  <2>4. CASE home \notin below[o]
    BY <1>2, <1>9, <2>1, <2>2, <2>4 DEF TrueOf, Encoded
  <2> QED
    BY <2>3, <2>4
<1> QED
  BY <1>11, <1>12

LEMMA RecordingDescent ==
  ASSUME TypeOK, Shape, Recording, NEW c \in Children(at), NEW effect, Descend(c, effect),
         UNCHANGED <<hist, remembered>>
  PROVE  Recording'
<1>1. /\ at \in State /\ at \in Composite /\ c \in State \ {Root} /\ machine' = machine
      /\ home' = home /\ mode = "enter" /\ at' = c /\ Reach(c) /\ machine \in Machines
  BY Descended DEF TypeOK
<1>2. Owners' = Owners
  BY <1>1 DEF Owners
<1>3. SUFFICES ASSUME NEW o \in Owners PROVE TrueOf(o)'
  BY <1>2 DEF Recording
<1>4. None \notin below[o] /\ (c \in below[o] <=> at \in Subtree(o))
  BY <1>1, Above, OwnersAre
<1>5. at' \notin Subtree(o) => at \notin Subtree(o)
  BY <1>1, <1>4 DEF Subtree
<1>6. /\ home \in below[o] => hist[o] = ids[home] /\ (at \notin Subtree(o) => remembered[o] = home)
      /\ home \notin below[o] => hist[o] = Encoded(remembered[o])
  BY <1>1 DEF Recording, TrueOf, Settled
<1> QED
  BY <1>1, <1>4, <1>5, <1>6 DEF TrueOf, Encoded

LEMMA RecordingStep ==
  ASSUME TypeOK, Shape, SnapshotIsTrue, Recording, Next
  PROVE  Recording'
<1>1. Owners' = Owners /\ machine \in Machines /\ machine' = machine
  BY MachineStays
<1>2. CASE Begin
  <2>1. /\ UNCHANGED <<hist, remembered, at>> /\ mode = "rest"
        /\ at = Root => mode' = "enter" /\ home' = None
        /\ at # Root => mode' = "select" /\ home' = at
    BY <1>2 DEF Begin, BeginCycle
  <2>2. at \in Stoppable \cup {Root}
    BY <2>1 DEF Shape
  <2>3. ASSUME NEW o \in Owners PROVE TrueOf(o)'
    <3>1. at \notin Subtree(o) => hist[o] = Encoded(remembered[o])
      BY <2>1 DEF Recording, TrueOf, Settled
    <3>2. Root \notin Subtree(o) /\ None \notin below[o]
      BY <1>1, OwnersAre
    <3> QED
      BY <2>1, <2>2, <3>1, <3>2 DEF TrueOf, Settled, Encoded
  <2> QED
    BY <1>1, <2>3 DEF Recording
<1>3. CASE Take
  BY <1>3, RecordingTake
<1>4. CASE Fail
  <2>1. /\ hist' = saved.hist /\ remembered' = saved.remembered /\ mode' = "rest"
        /\ at' = IF home = None THEN Root ELSE home
        /\ mode \in {"select", "enter"}
    BY <1>4 DEF Fail, Return
  <2>2. ASSUME NEW o \in Owners, at' \notin Subtree(o)
        PROVE  hist'[o] = Encoded(remembered'[o])
    <3>1. home \notin below[o]
      BY <1>1, <2>1, <2>2, OwnersAre DEF Subtree
    <3> QED
      BY <2>1, <3>1 DEF SnapshotIsTrue
  <2> QED
    BY <1>1, <2>1, <2>2 DEF Recording, TrueOf, Settled, Encoded
<1>5. CASE EnterInitial
  <2>1. PICK i \in DOMAIN machine.initials[at] :
          /\ Descend(machine.initials[at][i].to, machine.initials[at][i].effect)
          /\ UNCHANGED <<hist, remembered>>
    BY <1>5 DEF EnterInitial
  <2>2. machine.initials[at][i].to \in Children(at)
    BY <1>5, Initials DEF EnterInitial
  <2> QED
    BY <2>1, <2>2, RecordingDescent
<1>6. CASE EnterRoute
  BY <1>6, RecordingDescent DEF EnterRoute
<1> QED
  BY <1>2, <1>3, <1>4, <1>5, <1>6 DEF Next

-------------------------------------------------------------------------------
LEMMA Initially == Init => IInv
<1> SUFFICES ASSUME Init PROVE IInv
  OBVIOUS
<1>1. /\ machine \in Machines /\ goto = 0 /\ mode = "rest" /\ at \in State
      /\ at \in Stoppable \cup {Root} /\ home = None /\ holds = {}
  BY TreeAssumption DEF Init, Stoppable
<1>2. ASSUME NEW o \in Owners
      PROVE  /\ hist[o] = Encoded(remembered[o]) /\ hist[o] \in Nat
             /\ hist[o] \in Ids(LeavesBelow(o)) \cup {0}
             /\ remembered[o] \in LeavesBelow(o) \cup {None}
  <2>1. /\ hist[o] = Encoded(remembered[o]) /\ remembered[o] \in LeavesBelow(o) \cup {None}
        /\ LeavesBelow(o) \subseteq Stoppable
    BY <1>2 DEF Init, LeavesBelow
  <2> QED
    BY <2>1, PreorderAssumption DEF Encoded, Ids, Stoppable
<1>3. remembered \in [Owners -> Stoppable \cup {None}] /\ hist \in [Owners -> Nat]
  BY <1>2 DEF Init
<1>4. TypeOK
  BY <1>1, <1>2, <1>3 DEF TypeOK
<1>5. saved.hist = hist /\ saved.goto = goto /\ saved.remembered = remembered
  BY DEF Init
<1> QED
  BY <1>1, <1>2, <1>3, <1>4, <1>5
  DEF IInv, Shape, Underway, Snapshot, SnapshotIsTrue, Recording, TrueOf, Settled

LEMMA Stutters ==
  ASSUME IInv, UNCHANGED vars
  PROVE  IInv'
<1>1. /\ machine' = machine /\ mode' = mode /\ at' = at /\ home' = home /\ holds' = holds
      /\ hist' = hist /\ goto' = goto /\ saved' = saved /\ remembered' = remembered
  BY DEF vars, control
<1>2. Owners' = Owners
  BY <1>1 DEF Owners
<1>3. TypeOK' /\ Shape' /\ Snapshot' /\ SnapshotIsTrue'
  BY <1>1, <1>2 DEF IInv, TypeOK, Shape, Snapshot, SnapshotIsTrue, Encoded
<1>4. \A o, t : Aims(o, t)' <=> Aims(o, t)
  BY <1>1 DEF Aims, PossibleTargets, KindsOf, Entries, InitialsOf
<1>5. Underway'
  BY <1>1, <1>2, <1>4 DEF IInv, Underway
<1>6. Recording'
  BY <1>1, <1>2 DEF IInv, Recording, TrueOf, Settled, Encoded
<1> QED
  BY <1>3, <1>5, <1>6 DEF IInv

LEMMA RecordIsTrue ==
  ASSUME IInv, NEW o \in Owners, at \notin Subtree(o)
  PROVE  hist[o] = Encoded(remembered[o])
<1>1. TrueOf(o) /\ machine \in Machines
  BY DEF IInv, Recording, TypeOK
<1>2. None \notin below[o]
  BY <1>1, OwnersAre
<1> QED
  BY <1>1, <1>2 DEF TrueOf, Encoded

(* The parts together are inductive: where control is, where a restore is   *)
(* heading, what the snapshot restores and what the records say before and  *)
(* after the leaf of the cycle has been left.                               *)
THEOREM Invariance == Spec => []IInv
<1>1. IInv /\ Next => IInv'
  BY TypeStep, ShapeStep, UnderwayStep, SnapshotStep, SnapshotIsTrueStep, RecordingStep DEF IInv
<1> QED
  BY <1>1, Initially, Stutters, PTL DEF Spec

(* The variables keep their types, and a record always names a stoppable    *)
(* leaf below its owner, or nothing.                                        *)
THEOREM TypeCorrect == Spec => []TypeOK
<1>1. IInv => TypeOK
  BY DEF IInv
<1> QED
  BY <1>1, Invariance, PTL

(* __hist_goto is zero at every stable point of every lowered machine.      *)
THEOREM GotoEnds == Spec => []GotoIsOver
<1>1. IInv => GotoIsOver
  BY DEF IInv, Underway, GotoIsOver
<1> QED
  BY <1>1, Invariance, PTL

(* The variable of an owner that is not active is the leaf it was last left *)
(* from, through nested owners, visits of pseudo states and rollbacks.      *)
THEOREM RecordsTrue == Spec => []RecordsAreTrue
<1>1. IInv => RecordsAreTrue
  BY RecordIsTrue DEF RecordsAreTrue
<1> QED
  BY <1>1, Invariance, PTL

-------------------------------------------------------------------------------
(* The initial transitions of a composite, rewritten and written.           *)

LEMMA HeadingIs ==
  ASSUME NEW t \in State, goto = ids[t]
  PROVE  Heading = t /\ goto # 0 /\ Heading # None
<1>1. goto # 0
  BY PreorderAssumption
<1>2. \A s \in State : ids[s] = goto <=> s = t
  BY PreorderAssumption
<1> QED
  BY <1>1, <1>2, TreeAssumption DEF Heading

(* No restore is passing: it is over, or this is where it ends.             *)
LEMMA Opened ==
  ASSUME IInv, mode = "enter", Heading \in {None, at}
  PROVE  /\ \A c \in Children(at) : ~InSubtree(goto, c)
         /\ Touched(at) => Gate(at)
         /\ goto # 0 => Touched(at)
<1>1. machine \in Machines /\ Shape /\ Underway /\ at \in State
  BY DEF IInv, TypeOK
<1>2. \A c \in Children(at) : c \in State /\ Subtree(c) \in SUBSET State /\ at \notin Subtree(c)
  BY <1>1, Above, TreeFacts
<1>3. CASE goto = 0
  BY <1>2, <1>3, ZeroIsNowhere DEF InSubtree, Gate
<1>4. CASE goto # 0
  <2>1. PICK t \in State : goto = ids[t] /\ (t = at => at \in CompositeTargets)
    BY <1>1, <1>4, WayIsTouched
  <2>2. t = at
    BY <2>1, HeadingIs
  <2>3. \A c \in Children(at) : ~InSubtree(goto, c)
    BY <1>1, <1>2, <2>1, <2>2, SubtreeIsRange
  <2> QED
    BY <1>1, <1>4, <2>1, <2>2, <2>3, WayIsTouched DEF Gate
<1> QED
  BY <1>3, <1>4

(* A restore is passing: there is one way on.                               *)
LEMMA Passing ==
  ASSUME IInv, mode = "enter", Heading \notin {None, at}
  PROVE  /\ goto # 0 /\ Touched(at) /\ ~Gate(at)
         /\ \E c \in Hops(at) : /\ Heading \in Subtree(c)
                                /\ \A d \in Children(at) : InSubtree(goto, d) <=> d = c
<1>1. machine \in Machines /\ Shape /\ Underway /\ at \in State
  BY DEF IInv, TypeOK
<1>2. goto # 0
  BY DEF Heading
<1>3. PICK t \in State : goto = ids[t] /\ (t # at => \E c \in Hops(at) : t \in Subtree(c))
  BY <1>1, <1>2, WayIsTouched
<1>4. Heading = t /\ t # at
  BY <1>3, HeadingIs
<1>5. PICK c \in Hops(at) : t \in Subtree(c)
  BY <1>3, <1>4
<1>6. c \in Children(at) /\ \A d \in Children(at) : d \in State
  BY <1>1, <1>5, Above DEF Hops
<1>7. \A d \in Children(at) : InSubtree(goto, d) <=> d = c
  BY <1>1, <1>3, <1>5, <1>6, SubtreeIsRange, OneWay
<1>8. ~Gate(at)
  BY <1>1, <1>2, <1>3, <1>4, PreorderAssumption DEF Gate
<1> QED
  BY <1>1, <1>2, <1>4, <1>5, <1>7, <1>8, WayIsTouched

(* _gate, merged routes and added routes, for every list of initials: a     *)
(* restore neither gets lost nor falls back to an ordinary initial, and no  *)
(* ordinary entry is shut or opened by the rewriting.                       *)
THEOREM ChoicesKept == Spec => []SameChoices
<1>1. IInv => SameChoices
  <2> SUFFICES ASSUME IInv, mode = "enter" PROVE SameChoices
    BY DEF SameChoices
  <2>1. \A i \in DOMAIN machine.initials[at] : machine.initials[at][i].to \in Children(at)
    BY Initials DEF IInv
  <2>2. CASE Heading \in {None, at}
    <3>1. \A c \in Children(at) : ~OpenRoute(c)
      BY <2>2, Opened DEF OpenRoute
    <3>2. ASSUME NEW i \in DOMAIN machine.initials[at]
          PROVE  Open(i) <=> Satisfied(machine.initials[at][i])
      <4> DEFINE e == machine.initials[at][i]
      <4>1. ~InSubtree(goto, e.to) /\ (Touched(at) => Gate(at))
        BY <2>1, <2>2, Opened
      <4>2. Open(i) <=> IF ~Touched(at) THEN Satisfied(e)
                        ELSE (Gate(at) /\ Satisfied(e)) \/ (Merged(at, i) /\ InSubtree(goto, e.to))
        BY DEF Open
      <4> QED
        BY <4>1, <4>2
    <3> QED
      BY <2>2, <3>1, <3>2 DEF SameChoices
  <2>3. CASE Heading \notin {None, at}
    <3>1. PICK c \in Hops(at) : /\ Heading \in Subtree(c)
                                /\ \A d \in Children(at) : InSubtree(goto, d) <=> d = c
      BY <2>3, Passing
    <3>2. Touched(at) /\ ~Gate(at) /\ c \in Children(at)
      BY <2>3, Passing DEF Hops
    <3>3. ASSUME NEW i \in DOMAIN machine.initials[at]
          PROVE  Open(i) <=> Merged(at, i) /\ machine.initials[at][i].to = c
      BY <2>1, <3>1, <3>2 DEF Open
    <3>4. \A i \in DOMAIN machine.initials[at] :
            Open(i) => machine.initials[at][i].to = c /\ Merged(at, i) /\ ~OpenRoute(c)
      BY <3>3 DEF OpenRoute
    <3>5. \A d \in Children(at) : OpenRoute(d) => d = c
      BY <3>1 DEF OpenRoute
    <3>6. OpenRoute(c) \/ \E i \in DOMAIN machine.initials[at] : Open(i)
      BY <3>1, <3>2, <3>3 DEF OpenRoute
    <3> QED
      BY <2>3, <3>1, <3>2, <3>4, <3>5, <3>6 DEF SameChoices
  <2> QED
    BY <2>2, <2>3
<1> QED
  BY <1>1, Invariance, PTL

-------------------------------------------------------------------------------
(* The lowered machine implements the one history promises.                 *)

LEMMA SameTree ==
  /\ Native!Composite = Composite /\ Native!Stoppable = Stoppable /\ Native!Owners = Owners
  /\ Native!Trigger = Trigger
  /\ \A s : /\ Native!Children(s) = Children(s) /\ Native!Subtree(s) = Subtree(s)
            /\ Native!LeavesBelow(s) = LeavesBelow(s)
            /\ Native!InitialsOf(machine, s) = InitialsOf(machine, s)
  /\ \A e : Native!Satisfied(e) <=> Satisfied(e)
BY DEF Native!Composite, Composite, Native!Stoppable, Stoppable, Native!Owners, Owners,
       Native!OwnersOf, OwnersOf, Native!Entries, Entries, Native!InitialsOf, InitialsOf,
       Native!Children, Children, Native!Subtree, Subtree, Native!LeavesBelow, LeavesBelow,
       Native!Satisfied, Satisfied, Native!Trigger, Trigger

LEMMA SameControl ==
  /\ Native!BeginCycle <=> BeginCycle
  /\ \A e : Native!Follow(e) <=> Follow(e)
  /\ \A c, effect : Native!Descend(c, effect) <=> Descend(c, effect)
  /\ Native!Return <=> Return
<1>1. Native!Effect <=> Effect
  BY SameTree DEF Native!Effect, Effect
<1>2. \A t : Native!Reach(t) <=> Reach(t)
  BY SameTree DEF Native!Reach, Reach
<1> QED
  BY <1>1, <1>2, SameTree
  DEF Native!BeginCycle, BeginCycle, Native!Follow, Follow, Native!Descend, Descend,
      Native!Return, Return

(* A restore that begins heads for what is promised.                        *)
LEMMA HeadingFrom ==
  ASSUME machine \in Machines, NEW e \in Entries(machine), e.history \in History,
         e.history # "none", NEW leaf \in LeavesBelow(e.to) \cup {None},
         goto' = RestoreTarget(e.to, e.history, Encoded(leaf))
  PROVE  Heading' = Native!Target(e.to, e.history, leaf)
<1>1. e.to \in Owners /\ e.history \in KindsOf(machine, e.to) /\ e.history \in Kind
  BY EntryIsUsed DEF Owners, History
<1>2. /\ goto' = ids[Promised(e.to, e.history, leaf)]
      /\ Promised(e.to, e.history, leaf) \in below[e.to]
  BY <1>1, RestoreIsPromised
<1>3. Promised(e.to, e.history, leaf) \in State
  BY <1>1, <1>2, OwnersAre, TreeFacts
<1>4. \A s \in State : ids[s] = goto' <=> s = Promised(e.to, e.history, leaf)
  BY <1>2, <1>3, PreorderAssumption
<1>5. goto' # 0
  BY <1>2, <1>3, PreorderAssumption
<1>6. Heading' = Promised(e.to, e.history, leaf)
  BY <1>3, <1>4, <1>5 DEF Heading
<1> QED
  BY <1>6
  DEF Promised, Native!Target, Native!Children, Children, Native!Subtree, Subtree

LEMMA TakeRefines ==
  ASSUME IInv, Take
  PROVE  Native!Take
<1>1. PICK e \in machine.edges :
        /\ Follow(e)
        /\ goto' = IF e.history = "none" THEN goto
                   ELSE RestoreTarget(e.to, e.history, Recorded[e.to])
  BY DEF Take
<1>2. TypeOK /\ Shape /\ machine \in Machines /\ mode = "select"
  BY <1>1, Followed DEF IInv, TypeOK
<1>3. /\ at \in State \ {Root} /\ at \in Children(parent[at]) /\ parent[at] \in State
      /\ e \in Entries(machine) /\ e.history \in History
      /\ e.history # "none" => e.to \in Children(parent[at])
  BY <1>1, <1>2, Followed
<1>4. remembered' = [o \in Owners |-> Native!Left(o)]
  BY DEF Take, Native!Left
<1>5. CASE e.history = "none"
  <2>1. goto' = 0
    BY <1>1, <1>2, <1>5 DEF IInv, Underway
  <2>2. Heading' = None
    BY <2>1 DEF Heading
  <2> QED
    BY <1>1, <1>4, <1>5, <2>2, SameControl, SameTree DEF Native!Take, Take
<1>6. CASE e.history # "none"
  <2> DEFINE o == e.to
  <2>1. o \in Owners
    BY <1>2, <1>3, <1>6, EntryIsUsed DEF Owners
  <2>2. /\ o \in State \ {Root} /\ o \notin Stoppable /\ None \notin below[o]
        /\ LeavesBelow(o) \subseteq below[o]
    BY <1>2, <2>1, OwnersAre
  <2>3. at \notin below[o]
    BY <1>3, <1>6, <2>2, Above
  <2>4. Recorded[o] = hist[o]
    BY <2>1, <2>2, <2>3 DEF Recorded
  <2>5. TrueOf(o)
    BY <2>1 DEF IInv, Recording
  <2>6. hist[o] = Encoded(Native!Left(o))
    <3>1. CASE at \in Stoppable
      <4>1. at # o /\ at \notin Subtree(o)
        BY <2>2, <2>3, <3>1 DEF Subtree
      <4> QED
        BY <1>2, <2>5, <3>1, <4>1 DEF TrueOf, Settled, Native!Left
    <3>2. CASE at \notin Stoppable
      <4>1. /\ home \in below[o] =>
                 hist[o] = ids[home] /\ (at \notin Subtree(o) => remembered[o] = home)
            /\ home \notin below[o] => hist[o] = Encoded(remembered[o])
        BY <1>2, <2>5, <3>2 DEF TrueOf, Settled
      <4>2. at \in Subtree(o) <=> at = o
        BY <2>3 DEF Subtree
      <4> QED
        BY <2>2, <4>1, <4>2 DEF Native!Left, Encoded
    <3> QED
      BY <3>1, <3>2
  <2>7. Native!Left(o) \in LeavesBelow(o) \cup {None}
    <3>1. remembered[o] \in LeavesBelow(o) \cup {None} /\ home \in Stoppable \cup {None}
      BY <1>2, <2>1 DEF TypeOK
    <3> QED
      BY <2>2, <3>1 DEF Native!Left, LeavesBelow
  <2>8. goto' = RestoreTarget(o, e.history, Encoded(Native!Left(o)))
    BY <1>1, <1>6, <2>4, <2>6
  <2>9. Heading' = Native!Target(o, e.history, Native!Left(o))
    BY <1>2, <1>3, <1>6, <2>7, <2>8, HeadingFrom
  <2> QED
    BY <1>1, <1>4, <1>6, <2>9, SameControl, SameTree DEF Native!Take, Take
<1> QED
  BY <1>5, <1>6

(* The way of a restore, by a merged route or an added one.                 *)
LEMMA WayRefines ==
  ASSUME IInv, mode = "enter", NEW c \in Children(at), Descend(c, FALSE), InSubtree(goto, c),
         goto' = IF c \in Composite THEN goto ELSE 0, UNCHANGED <<remembered, saved>>
  PROVE  Native!EnterTowards
<1>1. Heading \notin {None, at}
  BY Opened
<1>2. Heading \in Subtree(c)
  BY <1>1, Passing
<1>3. Heading' = IF c \in Composite THEN Heading ELSE None
  <2>1. CASE c \in Composite
    <3>1. goto' = goto
      BY <2>1
    <3> QED
      BY <2>1, <3>1 DEF Heading
  <2>2. CASE c \notin Composite
    <3>1. goto' = 0
      BY <2>2
    <3> QED
      BY <2>2, <3>1 DEF Heading
  <2> QED
    BY <2>1, <2>2
<1> QED
  BY <1>1, <1>2, <1>3, SameControl, SameTree DEF Native!EnterTowards

LEMMA InitialRefines ==
  ASSUME IInv, EnterInitial
  PROVE  Native!EnterInitial \/ Native!EnterTowards
<1>1. PICK i \in DOMAIN machine.initials[at] :
        /\ Open(i)
        /\ Descend(machine.initials[at][i].to, machine.initials[at][i].effect)
        /\ goto' = Directed(i)
  BY DEF EnterInitial
<1> DEFINE e == machine.initials[at][i]
<1>2. /\ mode = "enter" /\ e \in Initial /\ e \in Entries(machine) /\ e.to \in Children(at)
      /\ e \in InitialsOf(machine, at) /\ e.history \in History
      /\ machine \in Machines /\ TypeOK /\ at \in State
  BY Initials DEF EnterInitial, IInv, TypeOK
<1>3. UNCHANGED <<remembered, saved>>
  BY DEF EnterInitial
<1>4. goto' = IF Merged(at, i) THEN Onward(e.to) ELSE Sent(e, IF Touched(at) THEN 0 ELSE goto)
  BY <1>1 DEF Directed
<1>5. Open(i) <=> IF ~Touched(at) THEN Satisfied(e)
                  ELSE (Gate(at) /\ Satisfied(e)) \/ (Merged(at, i) /\ InSubtree(goto, e.to))
  BY DEF Open
<1>6. Merged(at, i) => e.history = "none" /\ ~e.effect
  BY DEF Merged, Plain
<1>7. Descend(e.to, e.effect)
  BY <1>1
<1>8. Open(i)
  BY <1>1
<1> HIDE DEF e
<1>9. CASE Heading \in {None, at}
  <2>1. /\ ~InSubtree(goto, e.to) /\ (goto # 0 => Touched(at))
        /\ Satisfied(e)
    BY <1>2, <1>5, <1>8, <1>9, Opened
  <2>2. CASE e.history = "none"
    <3>1. goto' = 0
      BY <1>4, <2>1, <2>2 DEF Onward, Sent
    <3>2. Heading' = None
      BY <3>1 DEF Heading
    <3> QED
      BY <1>2, <1>3, <1>7, <1>9, <2>1, <2>2, <3>2, SameControl, SameTree
      DEF Native!EnterInitial
  <2>3. CASE e.history # "none"
    <3>1. goto' = RestoreTarget(e.to, e.history, hist[e.to])
      BY <1>4, <1>6, <2>3 DEF Sent
    <3>2. e.to \in Owners /\ at \notin Subtree(e.to)
      BY <1>2, <2>3, EntryIsUsed, Above DEF Owners
    <3>3. hist[e.to] = Encoded(remembered[e.to])
      BY <3>2, RecordIsTrue
    <3>4. remembered[e.to] \in LeavesBelow(e.to) \cup {None}
      BY <1>2, <3>2 DEF TypeOK
    <3>5. Heading' = Native!Target(e.to, e.history, remembered[e.to])
      BY <1>2, <2>3, <3>1, <3>3, <3>4, HeadingFrom
    <3> QED
      BY <1>2, <1>3, <1>7, <1>9, <2>1, <2>3, <3>5, SameControl, SameTree
      DEF Native!EnterInitial
  <2> QED
    BY <2>2, <2>3
<1>10. CASE Heading \notin {None, at}
  <2>1. Merged(at, i) /\ InSubtree(goto, e.to)
    BY <1>2, <1>5, <1>8, <1>10, Passing
  <2>2. goto' = IF e.to \in Composite THEN goto ELSE 0
    BY <1>4, <2>1 DEF Onward
  <2>3. Descend(e.to, FALSE)
    BY <1>6, <1>7, <2>1 DEF Descend
  <2> QED
    BY <1>2, <1>3, <2>1, <2>2, <2>3, WayRefines
<1> QED
  BY <1>9, <1>10

LEMMA StepRefines ==
  ASSUME IInv, [Next]_vars
  PROVE  [Native!Next]_(Native!vars)
<1>1. CASE Begin
  <2>1. saved'.remembered = remembered /\ Heading' = Heading
    BY <1>1 DEF Begin, Heading
  <2> QED
    BY <1>1, <2>1, SameControl DEF Begin, Native!Begin, Native!Next
<1>2. CASE Take
  BY <1>2, TakeRefines DEF Native!Next
<1>3. CASE Fail
  <2>1. Heading' = None
    BY <1>3 DEF Fail, IInv, Snapshot, Heading
  <2> QED
    BY <1>3, <2>1, SameControl DEF Fail, Native!Fail, Native!Next
<1>4. CASE EnterInitial
  BY <1>4, InitialRefines DEF Native!Next
<1>5. CASE EnterRoute
  <2>1. PICK c \in Children(at) :
          /\ InSubtree(goto, c) /\ Descend(c, FALSE)
          /\ goto' = IF c \in Composite THEN goto ELSE 0
    BY <1>5 DEF EnterRoute, OpenRoute
  <2>2. mode = "enter" /\ UNCHANGED <<remembered, saved>>
    BY <1>5 DEF EnterRoute
  <2> QED
    BY <2>1, <2>2, WayRefines DEF Native!Next
<1>6. CASE UNCHANGED vars
  BY <1>6 DEF vars, control, Native!vars, Native!control, Heading
<1> QED
  BY <1>1, <1>2, <1>3, <1>4, <1>5, <1>6 DEF Next

(* lower_history keeps the meaning of history: every behaviour of the       *)
(* lowered machine is one of a machine that remembers, for each owner, the  *)
(* stoppable leaf it was last left from, and restores it directly.          *)
THEOREM HistoryKept == Spec => KeepsHistory
<1>1. Init => Native!Init
  <2> SUFFICES ASSUME Init PROVE Native!Init
    OBVIOUS
  <2>1. Heading = None /\ saved.remembered = remembered
    BY DEF Init, Heading
  <2> QED
    BY <2>1, SameTree DEF Init, Native!Init
<1> QED
  BY <1>1, Invariance, StepRefines, PTL DEF Spec, KeepsHistory, Native!Spec

================================================================================
