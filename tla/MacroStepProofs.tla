---------------------------- MODULE MacroStepProofs ----------------------------
(***************************************************************************)
(* For every tree, every machine over it and every start: the variables of *)
(* MacroStep keep their types, the stack is always a path of the tree,     *)
(* between cycles the machine rests at a boundary, plain before blocks run *)
(* exactly once, and the trace of a cycle accounts for what it publishes.  *)
(*                                                                         *)
(* The operations on contexts come first (what each does to the stack),    *)
(* then one lemma per action, then the theorems.                           *)
(***************************************************************************)
EXTENDS MacroStep, SequenceTheorems, WellFoundedInduction, TLAPS

-------------------------------------------------------------------------------
(* Sequences.                                                              *)

(* The elements of a stack are frames.                                     *)
LEMMA SeqFacts ==
  ASSUME NEW S, NEW s \in Seq(S)
  PROVE  /\ Len(s) \in Nat
         /\ \A i \in 1..Len(s) : s[i] \in S
         /\ s # <<>> <=> Len(s) > 0
         /\ s # <<>> => Len(s) \in 1..Len(s) /\ 1 \in 1..Len(s)
         /\ DOMAIN s = 1..Len(s)
  BY EmptySeq, LenProperties, ElementOfSeq

(* A sequence is given by its length and its elements.                     *)
LEMMA AppendFacts ==
  ASSUME NEW S, NEW s \in Seq(S), NEW x \in S
  PROVE  /\ Append(s, x) \in Seq(S)
         /\ Append(s, x) # <<>>
         /\ Len(Append(s, x)) = Len(s) + 1
         /\ \A i \in 1..Len(s) : Append(s, x)[i] = s[i]
         /\ Append(s, x)[Len(s) + 1] = x
  BY AppendProperties, SeqFacts

(* Removing the last frame.                                                *)
LEMMA PopFacts ==
  ASSUME NEW S, NEW s \in Seq(S), s # <<>>
  PROVE  /\ Pop(s) \in Seq(S)
         /\ Len(Pop(s)) = Len(s) - 1
         /\ \A i \in 1..(Len(s) - 1) : Pop(s)[i] = s[i]
  <1> DEFINE n == Len(s) - 1
  <1>1. Len(s) \in Nat /\ Len(s) > 0 /\ \A i \in 1..Len(s) : s[i] \in S
    BY SeqFacts
  <1>2. /\ n \in Nat
        /\ \A i \in 1..n : s[i] \in S
        /\ n = IF 1 <= n THEN n - 1 + 1 ELSE 0
        /\ \A i \in 1..n : i \in 1..(n - 1 + 1) /\ 1 + i - 1 = i
    <2>1. n \in Nat /\ \A i \in 1..n : i \in 1..Len(s)
      BY <1>1
    <2>2. \A i \in 1..n : s[i] \in S
      BY <1>1, <2>1
    <2> HIDE DEF n
    <2>3. n = IF 1 <= n THEN n - 1 + 1 ELSE 0
      BY <2>1
    <2>4. \A i \in 1..n : i \in 1..(n - 1 + 1) /\ 1 + i - 1 = i
      BY <2>1
    <2> QED
      BY <2>1, <2>2, <2>3, <2>4
  <1> HIDE DEF n
  <1>3. /\ SubSeq(s, 1, n) \in Seq(S)
        /\ Len(SubSeq(s, 1, n)) = IF 1 <= n THEN n - 1 + 1 ELSE 0
        /\ \A i \in 1..(n - 1 + 1) : SubSeq(s, 1, n)[i] = s[1 + i - 1]
    BY <1>2, SubSeqProperties
  <1>4. \A i \in 1..n : SubSeq(s, 1, n)[i] = s[i]
    BY <1>2, <1>3
  <1> QED
    BY <1>2, <1>3, <1>4 DEF Pop, n

(* Changing the mode of the frame on top.                                  *)
LEMMA SetModeFacts ==
  ASSUME NEW s \in Seq(Frame), s # <<>>, NEW m \in Mode
  PROVE  /\ SetTop(s, "mode", m) \in Seq(Frame)
         /\ Len(SetTop(s, "mode", m)) = Len(s)
         /\ \A i \in 1..(Len(s) - 1) : SetTop(s, "mode", m)[i] = s[i]
         /\ SetTop(s, "mode", m)[Len(s)] = [state |-> Top(s).state, mode |-> m, pending |-> Top(s).pending]
  <1> DEFINE t == SetTop(s, "mode", m)
             f == [s[Len(s)] EXCEPT !["mode"] = m]
  <1>1. Len(s) \in 1..Len(s) /\ s[Len(s)] \in Frame
    BY SeqFacts
  <1>2. f = [state |-> Top(s).state, mode |-> m, pending |-> Top(s).pending] /\ f \in Frame
    BY <1>1 DEF Frame, Top
  <1>3. t = [s EXCEPT ![Len(s)] = f]
    BY DEF SetTop
  <1> HIDE DEF t, f
  <1>4. t \in Seq(Frame) /\ Len(t) = Len(s)
    BY <1>1, <1>2, <1>3, ExceptSeq
  <1>5. \A j \in 1..Len(s) : t[j] = IF j = Len(s) THEN f ELSE s[j]
    BY <1>1, <1>2, <1>3, ExceptSeq
  <1>6. Len(s) \in Nat /\ \A i \in 1..(Len(s) - 1) : i \in 1..Len(s) /\ i # Len(s)
    BY SeqFacts
  <1> QED
    BY <1>1, <1>2, <1>4, <1>5, <1>6 DEF t

(* Clearing the pending flag of the frame on top.                          *)
LEMMA ClearPendingFacts ==
  ASSUME NEW s \in Seq(Frame), s # <<>>
  PROVE  /\ SetTop(s, "pending", FALSE) \in Seq(Frame)
         /\ Len(SetTop(s, "pending", FALSE)) = Len(s)
         /\ \A i \in 1..(Len(s) - 1) : SetTop(s, "pending", FALSE)[i] = s[i]
         /\ SetTop(s, "pending", FALSE)[Len(s)] = [state |-> Top(s).state, mode |-> Top(s).mode, pending |-> FALSE]
  <1> DEFINE t == SetTop(s, "pending", FALSE)
             f == [s[Len(s)] EXCEPT !["pending"] = FALSE]
  <1>1. Len(s) \in 1..Len(s) /\ s[Len(s)] \in Frame
    BY SeqFacts
  <1>2. f = [state |-> Top(s).state, mode |-> Top(s).mode, pending |-> FALSE] /\ f \in Frame
    <2>1. Top(s) \in Frame /\ f = [Top(s) EXCEPT !["pending"] = FALSE]
      BY <1>1 DEF Top
    <2> HIDE DEF f
    <2>2. f = [state |-> Top(s).state, mode |-> Top(s).mode, pending |-> FALSE]
      BY <2>1 DEF Frame
    <2>3. f \in Frame
      BY <2>1, <2>2, Zenon DEF Frame
    <2> QED
      BY <2>2, <2>3
  <1>3. t = [s EXCEPT ![Len(s)] = f]
    BY DEF SetTop
  <1> HIDE DEF t, f
  <1>4. t \in Seq(Frame) /\ Len(t) = Len(s)
    BY <1>1, <1>2, <1>3, ExceptSeq
  <1>5. \A j \in 1..Len(s) : t[j] = IF j = Len(s) THEN f ELSE s[j]
    BY <1>1, <1>2, <1>3, ExceptSeq
  <1>6. Len(s) \in Nat /\ \A i \in 1..(Len(s) - 1) : i \in 1..Len(s) /\ i # Len(s)
    BY SeqFacts
  <1> QED
    BY <1>1, <1>2, <1>4, <1>5, <1>6 DEF t

(* A path, frame by frame.                                                 *)
LEMMA PathFacts ==
  ASSUME NEW s \in Seq(Frame)
  PROVE  IsPath(States(s)) <=>
           /\ s # <<>> => s[1].state = Root
           /\ \A i \in 2..Len(s) : s[i].state # Root /\ s[i - 1].state = Parent[s[i].state]
  <1> DEFINE p == States(s)
  <1>1. Len(s) \in Nat /\ \A i \in 1..Len(s) : s[i].state \in State
    <2>1. Len(s) \in Nat /\ \A i \in 1..Len(s) : s[i] \in Frame
      BY SeqFacts
    <2>2. \A f \in Frame : f.state \in State
      BY DEF Frame
    <2> QED
      BY <2>1, <2>2
  <1>2. p = [i \in 1..Len(s) |-> s[i].state]
    BY DEF States
  <1> HIDE DEF p
  <1>3. p \in Seq(State)
    BY <1>1, <1>2, SeqDef
  <1>4. Len(p) = Len(s) /\ \A i \in 1..Len(s) : p[i] = s[i].state
    BY <1>1, <1>2, <1>3, LenProperties
  <1>5. (p # <<>> <=> s # <<>>) /\ (s # <<>> => 1 \in 1..Len(s))
    BY <1>3, <1>4, SeqFacts
  <1>6. \A i \in 2..Len(s) : i \in 1..Len(s) /\ i - 1 \in 1..Len(s)
    BY <1>1
  <1>7. IsPath(p) <=>
           /\ s # <<>> => s[1].state = Root
           /\ \A i \in 2..Len(s) : s[i].state # Root /\ s[i - 1].state = Parent[s[i].state]
    <2>1. p # <<>> /\ s # <<>> => (p[1] = Root <=> s[1].state = Root)
      BY <1>4, <1>5
    <2>2. ASSUME NEW i \in 2..Len(s)
          PROVE  (p[i] # Root /\ p[i - 1] = Parent[p[i]])
                   <=> (s[i].state # Root /\ s[i - 1].state = Parent[s[i].state])
      <3>1. p[i] = s[i].state /\ p[i - 1] = s[i - 1].state
        BY <1>4, <1>6
      <3> QED
        BY <3>1, Zenon
    <2>3. IsPath(p) <=> /\ p # <<>> => p[1] = Root
                        /\ \A i \in 2..Len(s) : p[i] # Root /\ p[i - 1] = Parent[p[i]]
      BY ONLY <1>4, Zenon DEF IsPath
    <2> QED
      BY ONLY <1>5, <2>1, <2>2, <2>3, Zenon
  <1> QED
    BY <1>7 DEF p

-------------------------------------------------------------------------------
(* The tree and the machine.                                               *)

(* A child of a state is a state, its parent is that state.                *)
LEMMA ChildFacts ==
  ASSUME NEW p, NEW s \in Children(p)
  PROVE  s \in State /\ s # Root /\ Parent[s] = p /\ p \notin Leaf
  BY DEF Children, Leaf

(* Pseudo states are leaves.                                               *)
LEMMA PseudoFacts ==
  ASSUME NEW s \in Composite
  PROVE  s \in State /\ s \notin Leaf /\ s \notin Pseudo
  BY TreeAssumption DEF Composite

(* The blocks of a machine map values to values.                           *)
LEMMA BlockFacts ==
  ASSUME machine \in Machine, NEW s \in State, NEW v \in Value
  PROVE  /\ machine.enter[s][v] \in Value
         /\ machine.during[s][v] \in Value
         /\ machine.exit[s][v] \in Value
         /\ machine.before[s][v] \in Value
         /\ machine.after[s][v] \in Value
  <1>1. IsMachine(machine)
    BY TreeAssumption
  <1> QED
    BY <1>1 DEF IsMachine

(* An initial transition leads to a child.                                 *)
LEMMA InitFacts ==
  ASSUME machine \in Machine, NEW s \in State, NEW t \in ToSet(machine.init[s])
  PROVE  t \in Transition /\ t.to \in Children(s)
  <1>1. IsMachine(machine)
    BY TreeAssumption
  <1>2. machine.init[s] \in Seq(Transition)
    BY <1>1 DEF IsMachine
  <1>3. t \in Transition
    BY <1>2, SeqFacts DEF ToSet
  <1> QED
    BY <1>1, <1>3 DEF IsMachine

(* Any other transition leads to a sibling or out.                         *)
LEMMA OutFacts ==
  ASSUME machine \in Machine, NEW s \in State, NEW t \in ToSet(machine.out[s])
  PROVE  t \in Transition /\ (t.to = Exit \/ (s # Root /\ t.to \in Children(Parent[s])))
  <1>1. IsMachine(machine)
    BY TreeAssumption
  <1>2. machine.out[s] \in Seq(Transition)
    BY <1>1 DEF IsMachine
  <1>3. t \in Transition
    BY <1>2, SeqFacts DEF ToSet
  <1> QED
    BY <1>1, <1>3 DEF IsMachine

(* The effect of a transition.                                             *)
LEMMA EffectFacts ==
  ASSUME NEW t \in Transition, NEW v \in Value
  PROVE  t.effect[v] \in Value /\ t.event \in Event \cup {None}
  BY DEF Transition

(* What is selected is one of the candidates.                              *)
LEMMA SelectionFacts ==
  ASSUME NEW c, NEW t \in Selection(c).take
  PROVE  t \in ToSet(Candidates(c))
  BY DEF Selection, ToSet

-------------------------------------------------------------------------------
(* Operations on contexts.                                                 *)

(* A mark is added to the trace.                                           *)
LEMMA NotedFacts ==
  ASSUME NEW c \in Contexts, NEW k \in {"enter", "exit", "before"}, NEW s \in State
  PROVE  Noted(c, k, s) \in Seq(Mark)
  <1>1. c.trace \in Seq(Mark) /\ <<k, s>> \in Mark
    BY DEF Contexts, Mark
  <1> QED
    BY <1>1, AppendFacts DEF Noted

LEMMA ContextFacts ==
  ASSUME NEW c \in Contexts
  PROVE  /\ c.stack \in Seq(Frame) /\ c.value \in Value /\ c.trace \in Seq(Mark)
         /\ Bare(c) \in Contexts /\ Bare(c).stack = c.stack
  <1>1. <<>> \in Seq(Mark)
    BY EmptySeq
  <1> QED
    BY <1>1 DEF Contexts, Bare

(* The frame on top is a frame.                                            *)
LEMMA TopFacts ==
  ASSUME NEW s \in Seq(Frame), s # <<>>
  PROVE  /\ Top(s) \in Frame /\ Top(s) = s[Len(s)]
         /\ Top(s).state \in State /\ Top(s).mode \in Mode /\ Top(s).pending \in BOOLEAN
  <1>1. Top(s) \in Frame
    BY SeqFacts DEF Top
  <1> QED
    BY <1>1 DEF Frame, Top

(* Entering a state pushes a frame; a composite waits for its child, and   *)
(* only a composite.                                                       *)
LEMMA EnterFacts ==
  ASSUME machine \in Machine, NEW c \in Contexts, NEW s \in State
  PROVE  /\ EnterState(c, s) \in Contexts
         /\ \E m \in Mode :
              /\ EnterState(c, s).stack
                   = Append(c.stack, [state |-> s, mode |-> m, pending |-> s \in Composite])
              /\ m = "init_wait" <=> s \in Composite
  <1> DEFINE e == EnterState(c, s)
             m == IF NoOutgoing(s) THEN "active" ELSE IF s \in Leaf THEN "after_entry" ELSE "init_wait"
             f == [state |-> s, mode |-> m, pending |-> s \in Composite]
  <1>1. c.stack \in Seq(Frame) /\ c.value \in Value
    BY ContextFacts
  <1>2. m \in Mode
    BY DEF Mode
  <1>3. m = "init_wait" <=> s \in Composite
    BY PseudoFacts, TreeAssumption DEF Composite, NoOutgoing
  <1>4. f \in Frame
    <2>1. (s \in Composite) \in BOOLEAN
      OBVIOUS
    <2>2. \A b \in BOOLEAN, x \in Mode : [state |-> s, mode |-> x, pending |-> b] \in Frame
      BY Zenon DEF Frame
    <2> HIDE DEF m
    <2> QED
      BY <1>2, <2>1, <2>2, Zenon
  <1>5. e.stack = Append(c.stack, f)
    BY DEF EnterState
  <1>6. e.stack \in Seq(Frame)
    <2> HIDE DEF e, f
    <2> QED
      BY <1>1, <1>4, <1>5, AppendFacts
  <1>7. e.value \in Value
    <2>1. machine.enter[s][c.value] \in Value
      BY <1>1, BlockFacts
    <2>2. machine.during[s][machine.enter[s][c.value]] \in Value
      BY <2>1, BlockFacts
    <2> QED
      BY <1>1, <2>1, <2>2 DEF EnterState
  <1>8. e.trace \in Seq(Mark)
    BY NotedFacts DEF EnterState
  <1>9. e \in Contexts
    <2>1. e = [trace |-> e.trace, value |-> e.value, stack |-> e.stack]
      BY DEF EnterState
    <2> HIDE DEF e
    <2> QED
      BY <1>6, <1>7, <1>8, <2>1 DEF Contexts
  <1> QED
    BY <1>2, <1>3, <1>5, <1>9

-------------------------------------------------------------------------------
(* The shape of the stack.                                                 *)

(* The state t may be entered on the stack s: it is a child of the top, and *)
(* a plain before block is owed only if t is a pseudo state.               *)
Ready(s, t, descending) ==
  /\ IsPath(States(s))
  /\ IF s = <<>> THEN t = Root ELSE t \in Children(Top(s).state)
  /\ \A i \in 1..Len(s) : s[i].mode = "active" \/ (descending /\ s[i].mode = "init_wait")
  /\ \A i \in 1..Len(s) : s[i].pending => i = Len(s) /\ t \in Pseudo

(* Entering keeps the shape.                                               *)
LEMMA EnterShaped ==
  ASSUME machine \in Machine, NEW c \in Contexts, NEW t \in State, NEW d \in BOOLEAN,
         Ready(c.stack, t, d)
  PROVE  Shaped(EnterState(c, t).stack, d)
  <1> DEFINE s == c.stack
             e == EnterState(c, t).stack
             n == Len(c.stack)
  <1>1. s \in Seq(Frame)
    BY ContextFacts
  <1>2. PICK m \in Mode : /\ e = Append(s, [state |-> t, mode |-> m, pending |-> t \in Composite])
                          /\ m = "init_wait" <=> t \in Composite
    BY EnterFacts
  <1> DEFINE f == [state |-> t, mode |-> m, pending |-> t \in Composite]
  <1>3. f.state = t /\ (f.pending => f.mode = "init_wait")
    BY <1>2
  <1>4. f \in Frame
    BY DEF Frame
  <1>5. e = Append(s, f)
    BY <1>2
  <1>6. Ready(s, t, d)
    OBVIOUS
  <1> HIDE DEF s, e, f
  <1>7. /\ e \in Seq(Frame) /\ e # <<>>
        /\ Len(e) = Len(s) + 1
        /\ \A i \in 1..Len(s) : e[i] = s[i]
        /\ e[Len(s) + 1] = f
    BY <1>1, <1>4, <1>5, AppendFacts
  <1>8. Len(s) \in Nat /\ (s # <<>> <=> Len(s) > 0)
    BY <1>1, SeqFacts
  <1>9. /\ s # <<>> => s[1].state = Root
        /\ \A i \in 2..Len(s) : s[i].state # Root /\ s[i - 1].state = Parent[s[i].state]
    BY <1>1, <1>6, PathFacts DEF Ready
  <1>10. IsPath(States(e))
    <2>1. e[1].state = Root
      <3>1. CASE s = <<>>
        BY <1>3, <1>6, <1>7, <1>8, <3>1 DEF Ready
      <3>2. CASE s # <<>>
        BY <1>7, <1>8, <1>9, <3>2
      <3> QED
        BY <3>1, <3>2
    <2>2. ASSUME NEW i \in 2..Len(e) PROVE e[i].state # Root /\ e[i - 1].state = Parent[e[i].state]
      <3>1. CASE i \in 2..Len(s)
        <4>1. i \in 1..Len(s) /\ i - 1 \in 1..Len(s)
          BY <1>8, <3>1
        <4> QED
          BY <1>7, <1>9, <3>1, <4>1
      <3>2. CASE i = Len(s) + 1
        <4>1. s # <<>> /\ i - 1 = Len(s) /\ Len(s) \in 1..Len(s)
          BY <1>7, <1>8, <3>2
        <4>2. t # Root /\ Parent[t] = s[Len(s)].state
          BY <1>6, <4>1, ChildFacts DEF Ready, Top
        <4> QED
          BY <1>3, <1>7, <3>2, <4>1, <4>2
      <3> QED
        BY <1>7, <1>8, <3>1, <3>2
    <2> QED
      BY <1>7, <2>1, <2>2, PathFacts
  <1>11. Descent(e, d)
    <2>1. \A i \in 1..(Len(e) - 1) : i \in 1..Len(s)
      BY <1>7, <1>8
    <2> QED
      BY <1>6, <1>7, <2>1 DEF Descent, Ready
  <1>12. Owed(e)
    <2> SUFFICES ASSUME NEW i \in 1..Len(e), e[i].pending
                 PROVE  \/ i = Len(e) /\ e[i].mode = "init_wait"
                        \/ i = Len(e) - 1 /\ Top(e).state \in Pseudo
      BY DEF Owed
    <2>1. CASE i = Len(s) + 1
      BY <1>3, <1>7, <2>1
    <2>2. CASE i \in 1..Len(s)
      <3>1. i = Len(s) /\ t \in Pseudo
        BY <1>6, <1>7, <2>2 DEF Ready
      <3> QED
        BY <1>3, <1>7, <1>8, <3>1 DEF Top
    <2> QED
      BY <1>7, <1>8, <2>1, <2>2
  <1>13. Shaped(e, d)
    BY <1>10, <1>11, <1>12 DEF Shaped
  <1> QED
    BY <1>13 DEF e

(* A stack of the same states is a path as well.                           *)
LEMMA SamePath ==
  ASSUME NEW s \in Seq(Frame), NEW r \in Seq(Frame), Len(r) = Len(s),
         \A i \in 1..Len(s) : r[i].state = s[i].state,
         IsPath(States(s))
  PROVE  IsPath(States(r)) /\ (r # <<>> <=> s # <<>>)
  <1>1. /\ Len(s) \in Nat
        /\ r # <<>> <=> s # <<>>
        /\ s # <<>> => 1 \in 1..Len(s)
    BY SeqFacts
  <1>2. \A i \in 2..Len(s) : i \in 1..Len(s) /\ i - 1 \in 1..Len(s)
    BY <1>1
  <1>3. /\ s # <<>> => s[1].state = Root
        /\ \A i \in 2..Len(s) : s[i].state # Root /\ s[i - 1].state = Parent[s[i].state]
    BY PathFacts
  <1>4. /\ r # <<>> => r[1].state = Root
        /\ \A i \in 2..Len(r) : r[i].state # Root /\ r[i - 1].state = Parent[r[i].state]
    BY <1>1, <1>2, <1>3
  <1> QED
    BY <1>1, <1>4, PathFacts

(* The stack r is s, with fewer plain before blocks owed.                  *)
Calmer(s, r) ==
  /\ Len(r) = Len(s)
  /\ \A i \in 1..Len(s) : /\ r[i].state = s[i].state
                          /\ r[i].mode = s[i].mode
                          /\ r[i].pending => s[i].pending

(* Clearing the flag on top is calmer.                                     *)
LEMMA ClearCalmer ==
  ASSUME NEW s \in Seq(Frame), s # <<>>
  PROVE  LET r == SetTop(s, "pending", FALSE)
         IN  r \in Seq(Frame) /\ Calmer(s, r) /\ ~Top(r).pending
  <1> DEFINE r == SetTop(s, "pending", FALSE)
  <1>1. /\ r \in Seq(Frame)
        /\ Len(r) = Len(s)
        /\ \A i \in 1..(Len(s) - 1) : r[i] = s[i]
        /\ r[Len(s)] = [state |-> Top(s).state, mode |-> Top(s).mode, pending |-> FALSE]
    BY ClearPendingFacts
  <1> HIDE DEF r
  <1>2. ~Top(r).pending
    BY <1>1 DEF Top
  <1>3. Len(s) \in Nat
    BY SeqFacts
  <1>4. Calmer(s, r)
    <2> SUFFICES ASSUME NEW i \in 1..Len(s)
                 PROVE  /\ r[i].state = s[i].state
                        /\ r[i].mode = s[i].mode
                        /\ r[i].pending => s[i].pending
      BY <1>1 DEF Calmer
    <2>1. CASE i = Len(s)
      BY <1>1, <2>1 DEF Top
    <2>2. CASE i # Len(s)
      BY <1>1, <1>3, <2>2
    <2> QED
      BY <2>1, <2>2
  <1> QED
    BY <1>1, <1>2, <1>4 DEF r

(* The plain before block runs at most once, on the top.                   *)
LEMMA ConsumeFacts ==
  ASSUME machine \in Machine, NEW c \in Contexts, c.stack # <<>>
  PROVE  /\ ConsumeBefore(c) \in Contexts
         /\ Calmer(c.stack, ConsumeBefore(c).stack)
         /\ ~Top(ConsumeBefore(c).stack).pending
  <1>1. c.stack \in Seq(Frame) /\ c.value \in Value
    BY ContextFacts
  <1>2. Top(c.stack).state \in State
    BY <1>1, TopFacts
  <1>3. CASE ~Top(c.stack).pending
    BY <1>3 DEF ConsumeBefore, Calmer
  <1>4. CASE Top(c.stack).pending
    <2> DEFINE s == c.stack
               r == SetTop(s, "pending", FALSE)
               v == machine.before[Top(s).state][c.value]
               w == Noted(c, "before", Top(s).state)
    <2>1. ConsumeBefore(c) = [stack |-> r, value |-> v, trace |-> w]
      BY <1>4 DEF ConsumeBefore
    <2>2. v \in Value /\ w \in Seq(Mark)
      BY <1>1, <1>2, BlockFacts, NotedFacts
    <2>3. r \in Seq(Frame) /\ Calmer(s, r) /\ ~Top(r).pending
      BY <1>1, ClearCalmer
    <2> HIDE DEF r, v, w
    <2>4. ConsumeBefore(c) \in Contexts /\ ConsumeBefore(c).stack = r
      BY <2>1, <2>2, <2>3 DEF Contexts
    <2> QED
      BY <2>3, <2>4
  <1> QED
    BY <1>3, <1>4

(* Routing to a child.                                                     *)
LEMMA RouteFacts ==
  ASSUME machine \in Machine, NEW c \in Contexts, c.stack # <<>>, NEW t
  PROVE  /\ Route(c, t) \in Contexts
         /\ Calmer(c.stack, Route(c, t).stack)
         /\ t \notin Pseudo => ~Top(Route(c, t).stack).pending
  <1>1. CASE t \in Pseudo
    BY <1>1 DEF Route, Calmer
  <1>2. CASE t \notin Pseudo
    BY <1>2, ConsumeFacts DEF Route
  <1> QED
    BY <1>1, <1>2

(* ... which is ready to be entered then.                                  *)
LEMMA RouteReady ==
  ASSUME machine \in Machine, NEW c \in Contexts, c.stack # <<>>, NEW d \in BOOLEAN,
         IsPath(States(c.stack)),
         NEW t \in Children(Top(c.stack).state),
         \A i \in 1..Len(c.stack) :
           /\ c.stack[i].mode = "active" \/ (d /\ c.stack[i].mode = "init_wait")
           /\ c.stack[i].pending => i = Len(c.stack)
  PROVE  Ready(Route(c, t).stack, t, d) /\ Route(c, t).stack # <<>>
  <1> DEFINE s == c.stack
             r == Route(c, t).stack
  <1>1. /\ s \in Seq(Frame) /\ r \in Seq(Frame)
        /\ Calmer(s, r)
        /\ t \notin Pseudo => ~Top(r).pending
    BY RouteFacts, ContextFacts
  <1>2. s # <<>> /\ IsPath(States(s)) /\ t \in Children(Top(s).state)
    OBVIOUS
  <1>3. \A i \in 1..Len(s) : s[i].mode = "active" \/ (d /\ s[i].mode = "init_wait")
    OBVIOUS
  <1>b. \A i \in 1..Len(s) : s[i].pending => i = Len(s)
    OBVIOUS
  <1> HIDE DEF s, r
  <1>4. IsPath(States(r)) /\ r # <<>>
    BY <1>1, <1>2, SamePath DEF Calmer
  <1>5. Len(r) = Len(s) /\ Len(s) \in 1..Len(s)
    BY <1>1, <1>2, SeqFacts DEF Calmer
  <1>6. Top(r).state = Top(s).state
    BY <1>1, <1>5 DEF Top, Calmer
  <1>a. 1..Len(r) = 1..Len(s)
    BY <1>5
  <1>7. \A i \in 1..Len(r) : r[i].mode = "active" \/ (d /\ r[i].mode = "init_wait")
    <2> TAKE i \in 1..Len(r)
    <2>1. i \in 1..Len(s)
      BY <1>a, Zenon
    <2>2. r[i].mode = s[i].mode
      BY <1>1, <2>1, Zenon DEF Calmer
    <2> QED
      BY ONLY <1>3, <2>1, <2>2, Zenon
  <1>8. \A i \in 1..Len(r) : r[i].pending => i = Len(r) /\ t \in Pseudo
    <2> SUFFICES ASSUME NEW i \in 1..Len(r), r[i].pending
                 PROVE  i = Len(r) /\ t \in Pseudo
      BY Zenon
    <2>1. i \in 1..Len(s)
      BY <1>a, Zenon
    <2>2. s[i].pending
      BY <1>1, <2>1, Zenon DEF Calmer
    <2>3. i = Len(r)
      BY ONLY <1>b, <1>5, <2>1, <2>2, Zenon
    <2> QED
      BY <1>1, <2>3, Zenon DEF Top
  <1>9. Ready(r, t, d)
    BY <1>2, <1>4, <1>6, <1>7, <1>8 DEF Ready
  <1> QED
    BY <1>4, <1>9 DEF r

(* Fewer promises are needed while a descent goes on.                      *)
LEMMA WeakerShape ==
  ASSUME NEW s, NEW d \in BOOLEAN, Shaped(s, FALSE)
  PROVE  Shaped(s, d)
  BY DEF Shaped, Descent

(* A context whose top waits for a child t may route to it.                *)
LEMMA WaitingRoutes ==
  ASSUME machine \in Machine, NEW c \in Contexts, c.stack # <<>>, NEW d \in BOOLEAN,
         Shaped(c.stack, d), Waiting(c), NEW t \in Children(Top(c.stack).state),
         NEW v \in Value
  PROVE  LET r == Route([c EXCEPT !.value = v], t)
         IN  r \in Contexts /\ r.stack # <<>> /\ Ready(r.stack, t, TRUE)
  <1> DEFINE b == [c EXCEPT !.value = v]
             s == c.stack
  <1>1. b \in Contexts /\ b.stack = s /\ s \in Seq(Frame)
    BY DEF Contexts
  <1>2. Top(s).state \notin Pseudo
    <2>1. Top(s).state \in State /\ Top(s).state \notin Leaf
      BY <1>1, TopFacts, ChildFacts
    <2> QED
      BY <2>1, PseudoFacts DEF Composite
  <1>3. Len(s) \in Nat /\ Len(s) > 0
    BY <1>1, SeqFacts
  <1>4. \A i \in 1..Len(s) : s[i].pending => i = Len(s)
    BY <1>2 DEF Shaped, Owed
  <1>5. \A i \in 1..Len(s) : s[i].mode = "active" \/ s[i].mode = "init_wait"
    <2> TAKE i \in 1..Len(s)
    <2>1. CASE i = Len(s)
      BY <2>1 DEF Waiting, Top
    <2>2. CASE i # Len(s)
      <3>1. i \in 1..(Len(s) - 1)
        BY <1>3, <2>2
      <3> QED
        BY <3>1 DEF Shaped, Descent
    <2> QED
      BY <2>1, <2>2
  <1>6. IsPath(States(s)) /\ s # <<>> /\ t \in Children(Top(s).state)
    BY DEF Shaped
  <1> HIDE DEF s, b
  <1>7. Ready(Route(b, t).stack, t, TRUE) /\ Route(b, t).stack # <<>>
    BY <1>1, <1>4, <1>5, <1>6, RouteReady
  <1>8. Route(b, t) \in Contexts
    BY <1>1, <1>6, RouteFacts
  <1> QED
    BY <1>7, <1>8 DEF b

(* Setting the owner active keeps the child ready.                         *)
LEMMA ActiveReady ==
  ASSUME NEW s \in Seq(Frame), s # <<>>, NEW t, Ready(s, t, TRUE)
  PROVE  LET r == SetTop(s, "mode", "active")
         IN  r \in Seq(Frame) /\ Ready(r, t, TRUE)
  <1> DEFINE r == SetTop(s, "mode", "active")
  <1>1. /\ r \in Seq(Frame)
        /\ Len(r) = Len(s)
        /\ \A i \in 1..(Len(s) - 1) : r[i] = s[i]
        /\ r[Len(s)] = [state |-> Top(s).state, mode |-> "active", pending |-> Top(s).pending]
    BY SetModeFacts DEF Mode
  <1> HIDE DEF r
  <1>2. Len(s) \in Nat /\ Len(s) > 0 /\ r # <<>>
    BY <1>1, SeqFacts
  <1>3. \A i \in 1..Len(s) : /\ r[i].state = s[i].state
                             /\ r[i].pending => s[i].pending
                             /\ r[i].mode = s[i].mode \/ r[i].mode = "active"
    <2> TAKE i \in 1..Len(s)
    <2>1. CASE i = Len(s)
      BY <1>1, <2>1 DEF Top
    <2>2. CASE i # Len(s)
      <3>1. i \in 1..(Len(s) - 1)
        BY <1>2, <2>2
      <3> QED
        BY <1>1, <3>1
    <2> QED
      BY <2>1, <2>2
  <1>5. IsPath(States(r))
    BY <1>1, <1>3, SamePath DEF Ready
  <1>6. Top(r).state = Top(s).state
    BY <1>1 DEF Top
  <1>7. \A i \in 1..Len(r) : r[i].mode = "active" \/ r[i].mode = "init_wait"
    BY <1>1, <1>3 DEF Ready
  <1>8. \A i \in 1..Len(r) : r[i].pending => i = Len(r) /\ t \in Pseudo
    <2>1. \A i \in 1..Len(s) : s[i].pending => i = Len(s) /\ t \in Pseudo
      BY Zenon DEF Ready
    <2>2. Len(r) = Len(s) /\ \A i \in 1..Len(s) : r[i].pending => s[i].pending
      BY ONLY <1>1, <1>3, Zenon
    <2> QED
      BY ONLY <2>1, <2>2, Zenon
  <1>9. t \in Children(Top(r).state)
    BY <1>6 DEF Ready
  <1>10. Ready(r, t, TRUE)
    BY <1>2, <1>5, <1>7, <1>8, <1>9 DEF Ready
  <1> QED
    BY <1>1, <1>10 DEF r

(* What is entered is on top; a composite waits there.                     *)
LEMMA EnterTop ==
  ASSUME machine \in Machine, NEW c \in Contexts, NEW t \in State
  PROVE  LET e == EnterState(c, t)
         IN  /\ e \in Contexts /\ e.stack # <<>>
             /\ t \in Composite => Waiting(e)
  <1> DEFINE e == EnterState(c, t)
             s == c.stack
  <1>1. e \in Contexts
    BY EnterFacts
  <1>2. PICK m \in Mode : /\ e.stack = Append(s, [state |-> t, mode |-> m, pending |-> t \in Composite])
                          /\ m = "init_wait" <=> t \in Composite
    BY EnterFacts
  <1> DEFINE f == [state |-> t, mode |-> m, pending |-> t \in Composite]
  <1>3. f \in Frame /\ f.mode = m
    BY DEF Frame
  <1>4. s \in Seq(Frame) /\ e.stack = Append(s, f)
    BY <1>2, ContextFacts
  <1> HIDE DEF e, f, s
  <1>5. e.stack # <<>> /\ Len(e.stack) = Len(s) + 1 /\ e.stack[Len(s) + 1] = f
    BY <1>3, <1>4, AppendFacts
  <1>6. Top(e.stack).mode = m
    BY <1>3, <1>5 DEF Top
  <1>7. t \in Composite => Waiting(e)
    BY <1>2, <1>6 DEF Waiting
  <1> QED
    BY <1>1, <1>5, <1>7 DEF e

(* An initial transition, in either form.                                  *)
LEMMA TakeInitShaped ==
  ASSUME machine \in Machine, NEW c \in Contexts, c.stack # <<>>, NEW d \in BOOLEAN,
         Shaped(c.stack, d), Waiting(c), NEW t \in ToSet(machine.init[Top(c.stack).state]),
         NEW e \in {TakeInit(c, t), TakeInitNested(c, t)}
  PROVE  /\ e \in Contexts /\ e.stack # <<>> /\ Shaped(e.stack, TRUE)
         /\ t.to \in Composite => Waiting(e)
  <1> DEFINE v == t.effect[c.value]
             r == Route([c EXCEPT !.value = v], t.to)
             a == [r EXCEPT !.stack = SetTop(@, "mode", "active")]
  <1>1. c.stack \in Seq(Frame) /\ c.value \in Value
    BY ContextFacts
  <1>2. Top(c.stack).state \in State
    BY <1>1, TopFacts
  <1>3. t \in Transition /\ t.to \in Children(Top(c.stack).state) /\ t.to \in State
    BY <1>2, InitFacts, ChildFacts
  <1>4. v \in Value
    BY <1>1, <1>3, EffectFacts
  <1>5. e \in {EnterState(a, t.to), EnterState(r, t.to)}
    BY DEF TakeInit, TakeInitNested
  <1> HIDE DEF v
  <1>6. r \in Contexts /\ r.stack # <<>> /\ Ready(r.stack, t.to, TRUE)
    BY <1>3, <1>4, WaitingRoutes
  <1> HIDE DEF r
  <1>7. a \in Contexts /\ Ready(a.stack, t.to, TRUE)
    <2>1. r.stack \in Seq(Frame)
      BY <1>6, ContextFacts
    <2>2. SetTop(r.stack, "mode", "active") \in Seq(Frame) /\ Ready(SetTop(r.stack, "mode", "active"), t.to, TRUE)
      BY <1>6, <2>1, ActiveReady
    <2> DEFINE q == SetTop(r.stack, "mode", "active")
    <2>3. a = [r EXCEPT !.stack = q]
      OBVIOUS
    <2> HIDE DEF q, a
    <2>4. a \in Contexts /\ a.stack = q
      <3>1. r \in Contexts /\ q \in Seq(Frame)
        BY <1>6, <2>2 DEF q
      <3> QED
        BY ONLY <2>3, <3>1 DEF Contexts
    <2> QED
      BY <2>2, <2>4 DEF q
  <1> HIDE DEF a
  <1>8. CASE e = EnterState(a, t.to)
    BY <1>3, <1>7, <1>8, EnterShaped, EnterTop
  <1>9. CASE e = EnterState(r, t.to)
    BY <1>3, <1>6, <1>9, EnterShaped, EnterTop
  <1> QED
    BY <1>5, <1>8, <1>9

(* The end of a descent.                                                   *)
LEMMA SettleShaped ==
  ASSUME NEW s \in Seq(Frame), NEW d \in BOOLEAN, Shaped(s, d)
  PROVE  /\ Settle(s) \in Seq(Frame) /\ Shaped(Settle(s), FALSE)
         /\ s # <<>> => Settle(s) # <<>>
  <1> DEFINE r == Settle(s)
             f(i) == IF i < Len(s) /\ s[i].mode = "init_wait" THEN [s[i] EXCEPT !.mode = "active"]
                     ELSE s[i]
  <1>1. Len(s) \in Nat /\ \A i \in 1..Len(s) : s[i] \in Frame
    BY SeqFacts
  <1>2. \A i \in 1..Len(s) : /\ f(i) \in Frame
                             /\ f(i).state = s[i].state /\ f(i).pending = s[i].pending
                             /\ f(i).mode = IF i < Len(s) /\ s[i].mode = "init_wait" THEN "active" ELSE s[i].mode
    BY <1>1 DEF Frame, Mode
  <1>3. r = [i \in 1..Len(s) |-> f(i)]
    BY DEF Settle
  <1> HIDE DEF r, f
  <1>4. r \in Seq(Frame)
    BY <1>1, <1>2, <1>3, SeqDef
  <1>5. Len(r) = Len(s) /\ \A i \in 1..Len(s) : r[i] = f(i)
    BY <1>1, <1>3, <1>4, LenProperties
  <1>6. \A i \in 1..Len(s) : /\ r[i].state = s[i].state /\ r[i].pending = s[i].pending
                             /\ r[i].mode = IF i < Len(s) /\ s[i].mode = "init_wait" THEN "active" ELSE s[i].mode
    BY <1>2, <1>5
  <1>7. (s # <<>> <=> Len(s) > 0) /\ (r # <<>> <=> Len(r) > 0)
    BY <1>4, SeqFacts
  <1>8. IsPath(States(r))
    BY <1>4, <1>5, <1>6, SamePath DEF Shaped
  <1>9. Descent(r, FALSE)
    <2> SUFFICES ASSUME NEW i \in 1..(Len(s) - 1) PROVE r[i].mode = "active"
      BY <1>5 DEF Descent
    <2>1. i \in 1..Len(s) /\ i < Len(s)
      BY <1>1
    <2>2. s[i].mode = "active" \/ s[i].mode = "init_wait"
      BY DEF Shaped, Descent
    <2> QED
      BY <1>6, <2>1, <2>2
  <1>10. Owed(r)
    <2> SUFFICES ASSUME NEW i \in 1..Len(s), r[i].pending
                 PROVE  \/ i = Len(s) /\ r[i].mode = "init_wait"
                        \/ i = Len(s) - 1 /\ Top(r).state \in Pseudo
      BY <1>5 DEF Owed
    <2>1. s[i].pending
      BY ONLY <1>6, r[i].pending, i \in 1..Len(s), Zenon
    <2>2. \/ i = Len(s) /\ s[i].mode = "init_wait"
          \/ i = Len(s) - 1 /\ Top(s).state \in Pseudo
      BY <2>1 DEF Shaped, Owed
    <2>3. Len(s) \in 1..Len(s)
      BY <1>1
    <2>4. Top(r).state = Top(s).state
      BY <1>5, <1>6, <2>3 DEF Top
    <2>5. i = Len(s) => r[i].mode = s[i].mode
      BY <1>1, <1>6
    <2> QED
      BY <2>2, <2>4, <2>5
  <1>11. Shaped(r, FALSE)
    BY <1>8, <1>9, <1>10 DEF Shaped
  <1> QED
    BY <1>4, <1>5, <1>7, <1>11 DEF r

(* A new mode on top, when the top does not wait for a child.              *)
LEMMA SetModeShaped ==
  ASSUME NEW s \in Seq(Frame), s # <<>>, NEW d \in BOOLEAN, Shaped(s, d),
         Top(s).mode # "init_wait", NEW m \in Mode
  PROVE  LET r == SetTop(s, "mode", m)
         IN  /\ r \in Seq(Frame) /\ r # <<>> /\ Shaped(r, d)
             /\ Top(r).state = Top(s).state /\ Top(r).mode = m /\ ~Top(r).pending
             /\ Len(r) = Len(s) /\ \A i \in 1..(Len(s) - 1) : r[i] = s[i]
  <1> DEFINE r == SetTop(s, "mode", m)
  <1>1. /\ r \in Seq(Frame)
        /\ Len(r) = Len(s)
        /\ \A i \in 1..(Len(s) - 1) : r[i] = s[i]
        /\ r[Len(s)] = [state |-> Top(s).state, mode |-> m, pending |-> Top(s).pending]
    BY SetModeFacts
  <1> HIDE DEF r
  <1>2. Len(s) \in Nat /\ Len(s) > 0 /\ Len(s) \in 1..Len(s)
    BY SeqFacts
  <1>3. ~Top(s).pending
    <2>1. Len(s) # Len(s) - 1
      BY <1>2
    <2>2. \A i \in 1..Len(s) : s[i].pending => \/ i = Len(s) /\ s[i].mode = "init_wait"
                                               \/ i = Len(s) - 1 /\ Top(s).state \in Pseudo
      BY Zenon DEF Shaped, Owed
    <2>3. s[Len(s)].mode # "init_wait"
      BY DEF Top
    <2> QED
      BY ONLY <1>2, <2>1, <2>2, <2>3, Zenon DEF Top
  <1>4. Top(r).state = Top(s).state /\ Top(r).mode = m /\ (Top(r).pending => Top(s).pending)
    BY <1>1 DEF Top
  <1>5. \A i \in 1..Len(s) : i = Len(s) \/ i \in 1..(Len(s) - 1)
    BY <1>2
  <1>6. \A i \in 1..Len(s) : r[i].state = s[i].state
    BY <1>1, <1>5 DEF Top
  <1>7. IsPath(States(r)) /\ r # <<>>
    BY <1>1, <1>6, SamePath DEF Shaped
  <1>8. Descent(r, d)
    BY <1>1 DEF Shaped, Descent
  <1>9. Owed(r)
    <2> SUFFICES ASSUME NEW i \in 1..Len(s), r[i].pending
                 PROVE  i = Len(r) - 1 /\ Top(r).state \in Pseudo
      BY <1>1 DEF Owed
    <2>1. CASE i = Len(s)
      BY <1>1, <1>3, <1>4, <2>1, Zenon DEF Top
    <2>2. CASE i \in 1..(Len(s) - 1)
      <3>1. r[i] = s[i] /\ i # Len(s)
        BY <1>1, <1>2, <2>2
      <3>2. i = Len(s) - 1 /\ Top(s).state \in Pseudo
        BY <3>1, Zenon DEF Shaped, Owed
      <3> QED
        BY <1>1, <1>4, <3>2
    <2> QED
      BY <1>5, <2>1, <2>2
  <1>10. Shaped(r, d)
    BY <1>7, <1>8, <1>9 DEF Shaped
  <1> QED
    BY <1>1, <1>3, <1>4, <1>7, <1>10, Zenon DEF r

(* No plain before block is owed and all frames are active.                *)
Calm(s) ==
  /\ IsPath(States(s))
  /\ \A i \in 1..Len(s) : s[i].mode = "active" /\ ~s[i].pending

LEMMA CalmShaped ==
  ASSUME NEW s, Calm(s)
  PROVE  Shaped(s, FALSE)
  <1>1. Descent(s, FALSE)
    <2> SUFFICES ASSUME NEW i \in 1..(Len(s) - 1) PROVE s[i].mode = "active"
      BY DEF Descent
    <2>1. CASE i \in 1..Len(s)
      BY <2>1 DEF Calm
    <2> QED
      BY <2>1
  <1>2. Owed(s)
    BY DEF Calm, Owed
  <1> QED
    BY <1>1, <1>2 DEF Calm, Shaped

(* The empty stack has every shape.                                        *)
LEMMA EmptyShaped == Shaped(<<>>, FALSE) /\ <<>> \in Seq(Frame)
  <1>1. <<>> \in Seq(Frame) /\ Len(<<>>) = 0
    BY EmptySeq
  <1>2. IsPath(States(<<>>))
    <2> DEFINE s == <<>>
    <2>1. s \in Seq(Frame) /\ s = <<>> /\ 2..Len(s) = {}
      BY <1>1
    <2> HIDE DEF s
    <2>2. IsPath(States(s))
      BY <2>1, PathFacts
    <2> QED
      BY <2>2 DEF s
  <1> QED
    BY <1>1, <1>2 DEF Shaped, Descent, Owed

(* The parent of a child that was left through [*] is post_child_exit.     *)
LEMMA FinalizeShaped ==
  ASSUME machine \in Machine, NEW c \in Contexts, Calm(c.stack)
  PROVE  FinalizeExit(c) \in Contexts /\ Shaped(FinalizeExit(c).stack, FALSE)
  <1> DEFINE s == c.stack
             after == machine.after[Top(s).state][c.value]
             r == SetTop(s, "mode", "post_child_exit")
  <1>1. s \in Seq(Frame) /\ c.value \in Value /\ Shaped(s, FALSE)
    BY ContextFacts, CalmShaped
  <1>2. CASE s = <<>>
    BY <1>1, <1>2 DEF FinalizeExit
  <1>3. CASE s # <<>>
    <2>1. Top(s).state \in State
      BY <1>1, <1>3, TopFacts
    <2>2. after \in Value /\ machine.exit[Top(s).state][after] \in Value
      BY <1>1, <2>1, BlockFacts
    <2>3. CASE Top(s).state = Root
      <3> DEFINE v == machine.exit[Top(s).state][after]
                 w == Noted(c, "exit", Top(s).state)
      <3>1. FinalizeExit(c) = [stack |-> <<>>, value |-> v, trace |-> w]
        BY <1>3, <2>3 DEF FinalizeExit
      <3>2. v \in Value /\ w \in Seq(Mark)
        BY <2>1, <2>2, NotedFacts
      <3> HIDE DEF v, w
      <3>3. FinalizeExit(c) \in Contexts /\ FinalizeExit(c).stack = <<>>
        BY ONLY <3>1, <3>2, EmptyShaped DEF Contexts
      <3> QED
        BY <3>3, EmptyShaped
    <2>4. CASE Top(s).state # Root
      <3>1. FinalizeExit(c) = [c EXCEPT !.stack = r, !.value = after]
        BY <1>3, <2>4 DEF FinalizeExit
      <3>2. Top(s).mode # "init_wait"
        BY <1>1, <1>3, SeqFacts DEF Calm, Top
      <3>3. r \in Seq(Frame) /\ Shaped(r, FALSE)
        BY <1>1, <1>3, <3>2, SetModeShaped DEF Mode
      <3>4. /\ [c EXCEPT !.stack = r, !.value = after] \in Contexts
            /\ [c EXCEPT !.stack = r, !.value = after].stack = r
        <4> HIDE DEF r, after
        <4>1. c \in Contexts /\ r \in Seq(Frame) /\ after \in Value
          BY <2>2, <3>3
        <4> QED
          BY ONLY <4>1 DEF Contexts
      <3> QED
        BY <3>1, <3>3, <3>4
    <2> QED
      BY <2>3, <2>4
  <1> QED
    BY <1>2, <1>3

(* Leaving a pseudo state drops the plain before block its parent owes.    *)
LEMMA ClearCalm ==
  ASSUME NEW c \in Contexts, NEW source, IsPath(States(c.stack)),
         \A i \in 1..Len(c.stack) : c.stack[i].mode = "active",
         \A i \in 1..Len(c.stack) : c.stack[i].pending => i = Len(c.stack) /\ source \in Pseudo
  PROVE  ClearBefore(c, source) \in Contexts /\ Calm(ClearBefore(c, source).stack)
  <1> DEFINE s == c.stack
             r == SetTop(s, "pending", FALSE)
  <1>1. s \in Seq(Frame) /\ Len(s) \in Nat
    BY ContextFacts, SeqFacts
  <1>2. CASE source \in Pseudo /\ s # <<>>
    <2>1. ClearBefore(c, source) = [c EXCEPT !.stack = r]
      BY <1>2 DEF ClearBefore
    <2>2. r \in Seq(Frame) /\ Calmer(s, r) /\ ~Top(r).pending
      BY <1>1, <1>2, ClearCalmer
    <2>3. /\ IsPath(States(s))
          /\ \A i \in 1..Len(s) : s[i].mode = "active"
          /\ \A i \in 1..Len(s) : s[i].pending => i = Len(s)
      OBVIOUS
    <2>4. ClearBefore(c, source) \in Contexts /\ ClearBefore(c, source).stack = r
      <3>1. [c EXCEPT !.stack = r] \in Contexts /\ [c EXCEPT !.stack = r].stack = r
        <4> HIDE DEF r
        <4>1. c \in Contexts /\ r \in Seq(Frame)
          BY <2>2
        <4> QED
          BY ONLY <4>1 DEF Contexts
      <3> QED
        BY <2>1, <3>1
    <2> HIDE DEF r, s
    <2>5. IsPath(States(r))
      BY <1>1, <2>2, <2>3, SamePath DEF Calmer
    <2>6. Len(r) = Len(s)
      BY <2>2 DEF Calmer
    <2>7. \A i \in 1..Len(r) : r[i].mode = "active" /\ ~r[i].pending
      <3> SUFFICES ASSUME NEW i \in 1..Len(s) PROVE r[i].mode = "active" /\ ~r[i].pending
        BY <2>6, Zenon
      <3>1. r[i].mode = "active"
        BY <2>2, <2>3, Zenon DEF Calmer
      <3>2. CASE i = Len(r)
        BY <2>2, <3>1, <3>2, Zenon DEF Top
      <3>3. CASE i # Len(r)
        BY <2>2, <2>3, <2>6, <3>3, Zenon DEF Calmer
      <3> QED
        BY <3>1, <3>2, <3>3
    <2> QED
      BY <2>4, <2>5, <2>7 DEF Calm
  <1>3. CASE ~(source \in Pseudo /\ s # <<>>)
    <2>1. ClearBefore(c, source) = c
      BY <1>3 DEF ClearBefore
    <2>2. s # <<>> \/ 1..Len(s) = {}
      BY <1>1, EmptySeq
    <2>3. \A i \in 1..Len(s) : ~s[i].pending
      BY <1>3, <2>2
    <2> QED
      BY <2>1, <2>3 DEF Calm
  <1> QED
    BY <1>2, <1>3

(* The source of a transition has been left: the pop, the exit block and   *)
(* the effect.                                                             *)
Left(c, t) ==
  LET source == Top(c.stack).state
  IN  [stack |-> Pop(c.stack), value |-> t.effect[machine.exit[source][c.value]],
       trace |-> Noted(c, "exit", source)]

Routed(c, t) ==
  IF Top(c.stack).state \in Pseudo /\ Left(c, t).stack # <<>> THEN Route(Left(c, t), t.to)
  ELSE Left(c, t)

(* What is left is a path of active states, and a sibling may be entered.  *)
LEMMA LeftFacts ==
  ASSUME machine \in Machine, NEW c \in Contexts, c.stack # <<>>, Shaped(c.stack, FALSE),
         ~Waiting(c), NEW t \in ToSet(machine.out[Top(c.stack).state])
  PROVE  LET source == Top(c.stack).state
             l == Left(c, t).stack
             r == Routed(c, t)
         IN  /\ TakeOut(c, t) = IF t.to = Exit THEN FinalizeExit(ClearBefore(Left(c, t), source))
                                ELSE EnterState(r, t.to)
             /\ t \in Transition /\ source \in State
             /\ Left(c, t) \in Contexts
             /\ Len(l) = Len(c.stack) - 1 /\ \A i \in 1..Len(l) : l[i] = c.stack[i]
             /\ IsPath(States(l))
             /\ \A i \in 1..Len(l) : l[i].mode = "active"
             /\ \A i \in 1..Len(l) : l[i].pending => i = Len(l) /\ source \in Pseudo
             /\ t.to # Exit => /\ l # <<>> /\ t.to \in Children(Top(l).state) /\ t.to \in State
                               /\ r \in Contexts /\ Ready(r.stack, t.to, FALSE)
  <1> DEFINE s == c.stack
             source == Top(s).state
             l == Pop(s)
             v == t.effect[machine.exit[source][c.value]]
             w == Noted(c, "exit", source)
             left == Left(c, t)
             routed == Routed(c, t)
  <1>1. s \in Seq(Frame) /\ c.value \in Value /\ s # <<>>
    BY ContextFacts
  <1>2. source \in State
    BY <1>1, TopFacts
  <1>3. t \in Transition /\ (t.to = Exit \/ (source # Root /\ t.to \in Children(Parent[source])))
    BY <1>2, OutFacts
  <1>4. v \in Value /\ w \in Seq(Mark)
    <2>1. machine.exit[source][c.value] \in Value
      BY <1>1, <1>2, BlockFacts
    <2> QED
      BY <1>2, <1>3, <2>1, EffectFacts, NotedFacts
  <1>5. l \in Seq(Frame) /\ Len(l) = Len(s) - 1 /\ \A i \in 1..(Len(s) - 1) : l[i] = s[i]
    BY <1>1, PopFacts
  <1>6. Len(s) \in Nat /\ Len(s) > 0 /\ Len(l) \in Nat /\ (l # <<>> <=> Len(l) > 0)
    BY <1>1, <1>5, SeqFacts
  <1>7. IsPath(States(s)) /\ Descent(s, FALSE) /\ Owed(s) /\ s[Len(s)].mode # "init_wait"
    BY DEF Shaped, Waiting, Top
  <1>8. TakeOut(c, t) = IF t.to = Exit THEN FinalizeExit(ClearBefore(left, source))
                        ELSE EnterState(IF source \in Pseudo /\ left.stack # <<>> THEN Route(left, t.to)
                                        ELSE left, t.to)
    BY DEF TakeOut, Left
  <1>9. left \in Contexts /\ left.stack = l
    <2>1. left = [stack |-> l, value |-> v, trace |-> w]
      BY DEF Left
    <2> HIDE DEF v, w, l, left
    <2> QED
      BY <1>4, <1>5, <2>1 DEF Contexts
  <1>10. source = s[Len(s)].state
    BY DEF Top
  <1>r. routed = IF source \in Pseudo /\ left.stack # <<>> THEN Route(left, t.to) ELSE left
    BY DEF Routed
  <1> HIDE DEF s, source, l, v, w, left, routed
  <1>11. /\ s[1].state = Root
         /\ \A i \in 2..Len(s) : s[i].state # Root /\ s[i - 1].state = Parent[s[i].state]
    BY <1>1, <1>7, PathFacts
  <1>12. IsPath(States(l))
    <2>1. \A i \in 2..Len(l) : i \in 1..(Len(s) - 1) /\ i - 1 \in 1..(Len(s) - 1) /\ i \in 2..Len(s)
      BY <1>5, <1>6
    <2>2. l # <<>> => 1 \in 1..(Len(s) - 1)
      BY <1>5, <1>6
    <2>3. /\ l # <<>> => l[1].state = Root
          /\ \A i \in 2..Len(l) : l[i].state # Root /\ l[i - 1].state = Parent[l[i].state]
      BY <1>5, <1>11, <2>1, <2>2
    <2> QED
      BY <1>5, <2>3, PathFacts
  <1>13. \A i \in 1..Len(l) : l[i].mode = "active"
    BY <1>5, <1>7 DEF Descent
  <1>14. \A i \in 1..Len(l) : l[i].pending => i = Len(l) /\ source \in Pseudo
    <2> SUFFICES ASSUME NEW i \in 1..(Len(s) - 1), l[i].pending
                 PROVE  i = Len(s) - 1 /\ source \in Pseudo
      BY <1>5, Zenon
    <2>1. i \in 1..Len(s) /\ i # Len(s)
      BY <1>6
    <2>2. s[i].pending
      BY <1>5, Zenon
    <2> QED
      BY <1>7, <1>10, <2>1, <2>2, Zenon DEF Owed, Top
  <1>15. ASSUME t.to # Exit
         PROVE  /\ l # <<>> /\ t.to \in Children(Top(l).state) /\ t.to \in State
                /\ routed \in Contexts /\ Ready(routed.stack, t.to, FALSE)
    <2>1. source # Root /\ t.to \in Children(Parent[source]) /\ t.to \in State
      BY <1>3, <1>15, ChildFacts
    <2>2. Len(s) # 1
      BY <1>10, <1>11, <2>1
    <2>3. Len(s) \in 2..Len(s) /\ Len(s) - 1 \in 1..(Len(s) - 1) /\ l # <<>>
      BY <1>5, <1>6, <2>2
    <2>4. Top(l).state = Parent[source]
      BY <1>5, <1>10, <1>11, <2>3 DEF Top
    <2>5. routed \in Contexts /\ Ready(routed.stack, t.to, FALSE)
      <3>1. CASE source \in Pseudo
        <4>1. \A i \in 1..Len(l) : /\ l[i].mode = "active" \/ (FALSE /\ l[i].mode = "init_wait")
                                   /\ l[i].pending => i = Len(l)
          BY <1>13, <1>14, Zenon
        <4>2. Ready(Route(left, t.to).stack, t.to, FALSE)
          BY <1>9, <1>12, <2>1, <2>3, <2>4, <4>1, RouteReady
        <4> QED
          BY <1>9, <1>r, <2>3, <3>1, <4>2, RouteFacts
      <3>2. CASE source \notin Pseudo
        <4>1. Ready(l, t.to, FALSE)
          BY <1>12, <1>13, <1>14, <2>1, <2>3, <2>4, <3>2, Zenon DEF Ready
        <4> QED
          BY <1>9, <1>r, <3>2, <4>1
      <3> QED
        BY <3>1, <3>2
    <2> QED
      BY <2>1, <2>3, <2>4, <2>5
  <1>16. TakeOut(c, t) = IF t.to = Exit THEN FinalizeExit(ClearBefore(left, source))
                         ELSE EnterState(routed, t.to)
    BY <1>8, <1>r
  <1>17. \A i \in 1..Len(l) : l[i] = s[i]
    BY <1>5
  <1> QED
    BY <1>2, <1>3, <1>5, <1>9, <1>12, <1>13, <1>14, <1>15, <1>16, <1>17 DEF s, source, left, routed

(* Any other transition: exit to the parent or entry of a sibling.         *)
LEMMA TakeOutShaped ==
  ASSUME machine \in Machine, NEW c \in Contexts, c.stack # <<>>, Shaped(c.stack, FALSE),
         ~Waiting(c), NEW t \in ToSet(machine.out[Top(c.stack).state])
  PROVE  /\ TakeOut(c, t) \in Contexts /\ Shaped(TakeOut(c, t).stack, FALSE)
         /\ t.to \in Composite => Waiting(TakeOut(c, t))
         /\ t \in Transition
  <1> DEFINE source == Top(c.stack).state
             left == Left(c, t)
             routed == Routed(c, t)
             cleared == ClearBefore(left, source)
  <1>1. CASE t.to = Exit
    <2>1. cleared \in Contexts /\ Calm(cleared.stack)
      BY LeftFacts, ClearCalm
    <2>2. TakeOut(c, t) = FinalizeExit(cleared) /\ t \in Transition
      BY <1>1, LeftFacts
    <2>3. t.to \notin Composite
      BY <1>1, TreeAssumption DEF Composite
    <2> HIDE DEF cleared
    <2> QED
      BY <2>1, <2>2, <2>3, FinalizeShaped
  <1>2. CASE t.to # Exit
    <2>1. /\ TakeOut(c, t) = EnterState(routed, t.to) /\ t \in Transition
          /\ t.to \in State /\ routed \in Contexts /\ Ready(routed.stack, t.to, FALSE)
      BY <1>2, LeftFacts
    <2> HIDE DEF routed
    <2> QED
      BY <2>1, EnterShaped, EnterTop
  <1> QED
    BY <1>1, <1>2

-------------------------------------------------------------------------------
(* The stacks a cycle can start from.                                      *)

(* A hot start puts the path to its target on the stack.                   *)
LEMMA HotShaped ==
  ASSUME NEW target \in State
  PROVE  /\ HotStack(target) \in Seq(Frame) /\ Shaped(HotStack(target), FALSE)
         /\ \A i \in 1..Len(HotStack(target)) : ~HotStack(target)[i].pending
  <1> DEFINE h == HotStack(target)
             p == Path(target)
             f(i) == HotFrame(p[i], i = Len(p))
  <1>1. p \in Seq(State) /\ IsPath(p)
    BY TreeAssumption
  <1>2. h = [i \in 1..Len(p) |-> f(i)]
    BY DEF HotStack
  <1>3. ASSUME NEW s \in State, NEW b \in BOOLEAN
        PROVE  /\ HotFrame(s, b) \in Frame
               /\ HotFrame(s, b).state = s
               /\ ~HotFrame(s, b).pending
               /\ ~b => HotFrame(s, b).mode = "active"
    BY DEF HotFrame, Frame, Mode
  <1> HIDE DEF p, h
  <1>4. Len(p) \in Nat /\ \A i \in 1..Len(p) : p[i] \in State
    BY <1>1, SeqFacts
  <1>5. \A i \in 1..Len(p) : f(i) \in Frame /\ f(i).state = p[i] /\ ~f(i).pending
    BY <1>3, <1>4
  <1>6. \A i \in 1..Len(p) : i # Len(p) => f(i).mode = "active"
    BY <1>3, <1>4
  <1> HIDE DEF f
  <1>7. h \in Seq(Frame)
    BY <1>2, <1>4, <1>5, SeqDef
  <1>8. Len(h) = Len(p) /\ \A i \in 1..Len(h) : h[i] = f(i)
    BY <1>2, <1>4, <1>7, LenProperties
  <1>9. IsPath(States(h))
    <2>1. /\ p # <<>> <=> Len(p) > 0
          /\ h # <<>> <=> Len(h) > 0
      BY <1>1, <1>7, SeqFacts
    <2>2. /\ p # <<>> => p[1] = Root
          /\ \A i \in 2..Len(p) : p[i] # Root /\ p[i - 1] = Parent[p[i]]
      BY <1>1 DEF IsPath
    <2>3. \A i \in 2..Len(p) : i \in 1..Len(p) /\ i - 1 \in 1..Len(p)
      BY <1>4
    <2>4. \A i \in 1..Len(p) : h[i].state = p[i]
      BY <1>5, <1>8
    <2>5. h # <<>> => p # <<>> /\ 1 \in 1..Len(p)
      BY <1>4, <1>8, <2>1
    <2>6. /\ h # <<>> => h[1].state = Root
          /\ \A i \in 2..Len(h) : h[i].state # Root /\ h[i - 1].state = Parent[h[i].state]
      BY <1>8, <2>2, <2>3, <2>4, <2>5
    <2> QED
      BY <1>7, <2>6, PathFacts
  <1>10. Descent(h, FALSE)
    <2> SUFFICES ASSUME NEW i \in 1..(Len(h) - 1) PROVE h[i].mode = "active"
      BY DEF Descent
    <2>1. i \in 1..Len(h) /\ i # Len(h)
      BY <1>4, <1>8
    <2> QED
      BY <1>6, <1>8, <2>1
  <1>11. Owed(h)
    BY <1>5, <1>8 DEF Owed
  <1>12. Shaped(h, FALSE)
    BY <1>9, <1>10, <1>11 DEF Shaped
  <1>13. \A i \in 1..Len(h) : ~h[i].pending
    BY <1>5, <1>8
  <1> QED
    BY <1>7, <1>12, <1>13 DEF h

(* Before its first cycle the root waits alone.                            *)
LEMMA RootShaped ==
  LET s == <<[state |-> Root, mode |-> "init_wait", pending |-> FALSE]>>
  IN  s \in Seq(Frame) /\ Shaped(s, FALSE) /\ \A i \in 1..Len(s) : ~s[i].pending
  <1> DEFINE f == [state |-> Root, mode |-> "init_wait", pending |-> FALSE]
             s == <<f>>
  <1>1. f \in Frame /\ f.state = Root /\ ~f.pending
    BY TreeAssumption DEF Frame, Mode
  <1> HIDE DEF f
  <1>2. s \in Seq(Frame) /\ Len(s) = 1 /\ s[1] = f
    BY <1>1
  <1> HIDE DEF s
  <1>3. IsPath(States(s))
    BY <1>1, <1>2, PathFacts
  <1>4. Descent(s, FALSE) /\ Owed(s)
    BY <1>1, <1>2 DEF Descent, Owed
  <1>5. \A i \in 1..Len(s) : ~s[i].pending
    BY <1>1, <1>2
  <1> QED
    BY <1>2, <1>3, <1>4, <1>5 DEF s, f, Shaped

(* The snapshot both passes start from.                                    *)
LEMMA SnapshotShaped ==
  ASSUME machine \in Machine, stack \in Seq(Frame), value \in Value, initialized \in BOOLEAN,
         Shaped(stack, FALSE), ~Ended
  PROVE  /\ Snapshot \in Contexts /\ Snapshot.stack # <<>> /\ Shaped(Snapshot.stack, FALSE)
         /\ ~initialized /\ Root \in Composite => Waiting(Snapshot)
  <1>1. \A s \in Seq(Frame) : Context(s, value) \in Contexts /\ Context(s, value).stack = s
    <2>1. <<>> \in Seq(Mark)
      BY EmptySeq
    <2> QED
      BY <2>1 DEF Context, Contexts
  <1>2. CASE initialized
    BY <1>1, <1>2 DEF Snapshot, Ended
  <1>3. CASE ~initialized
    <2> DEFINE c == Context(<<>>, value)
    <2>1. c \in Contexts /\ c.stack = <<>>
      BY <1>1, EmptyShaped
    <2>2. Snapshot = EnterState(c, Root)
      BY <1>3 DEF Snapshot
    <2> HIDE DEF c
    <2>3. Ready(c.stack, Root, FALSE)
      <3>1. Len(<<>>) = 0
        BY EmptySeq
      <3> QED
        BY <2>1, <3>1, EmptyShaped DEF Ready, Shaped
    <2>4. Root \in State
      BY TreeAssumption
    <2> QED
      BY <2>1, <2>2, <2>3, <2>4, EnterShaped, EnterTop
  <1> QED
    BY <1>2, <1>3

(* Both passes start from it.                                              *)
LEMMA StartPassFacts ==
  ASSUME IInv, ~Ended, StartPass
  PROVE  /\ run' \in Contexts /\ run'.stack # <<>> /\ Shaped(run'.stack, nested')
         /\ nested' \in BOOLEAN /\ (nested' => Waiting(run'))
         /\ consumed' \in Seq(Event)
         /\ Snapshot.trace \in Seq(Mark)
  <1>1. /\ machine \in Machine /\ stack \in Seq(Frame) /\ value \in Value /\ initialized \in BOOLEAN
        /\ Shaped(stack, FALSE)
    BY DEF IInv, TypeOK
  <1>2. /\ Snapshot \in Contexts /\ Snapshot.stack # <<>> /\ Shaped(Snapshot.stack, FALSE)
        /\ ~initialized /\ Root \in Composite => Waiting(Snapshot)
    BY <1>1, SnapshotShaped
  <1>3. run' = Bare(Snapshot) /\ nested' = (~initialized /\ Root \in Composite) /\ consumed' = <<>>
    BY DEF StartPass
  <1>4. run' \in Contexts /\ run'.stack = Snapshot.stack /\ Snapshot.trace \in Seq(Mark)
    BY <1>2, <1>3, ContextFacts
  <1>5. nested' \in BOOLEAN /\ (nested' => Waiting(run'))
    <2>1. (~initialized /\ Root \in Composite) \in BOOLEAN
      OBVIOUS
    <2>2. Waiting(Snapshot) => Waiting(run')
      BY <1>4 DEF Waiting
    <2> QED
      BY <1>2, <1>3, <2>1, <2>2, Zenon
  <1>6. Shaped(run'.stack, nested')
    <2>1. Shaped(run'.stack, FALSE)
      BY <1>2, <1>4
    <2> QED
      BY <1>5, <2>1, WeakerShape
  <1> QED
    BY <1>2, <1>3, <1>4, <1>5, <1>6, EmptySeq

-------------------------------------------------------------------------------
(* What the actions have in common.                                        *)

(* The clone moves to a context of the right shape.                        *)
LEMMA MoveInv ==
  ASSUME IInv, pass # "idle", NEW c \in Contexts, Move(c), c.stack # <<>>,
         nested' \in BOOLEAN, Shaped(c.stack, nested'), nested' => Waiting(c),
         consumed' \in Seq(Event)
  PROVE  IInv'
  <1>1. /\ run' = Bare(c)
        /\ trace' = IF pass = "committing" THEN trace \o c.trace ELSE trace
        /\ UNCHANGED <<machine, stack, value, initialized, hot, pass, events, promise, result>>
    BY DEF Move, public
  <1>2. run' \in Contexts /\ run'.stack = c.stack /\ c.trace \in Seq(Mark)
    BY <1>1, ContextFacts
  <1>3. trace' \in Seq(Mark)
    BY <1>1, <1>2, ConcatProperties DEF IInv, TypeOK
  <1>4. TypeOK'
    BY <1>1, <1>2, <1>3 DEF IInv, TypeOK
  <1>5. Shaped(stack, FALSE)' /\ Rested'
    BY <1>1 DEF IInv, Rested, IsBoundary, Top
  <1>6. Shaped(run.stack, nested)'
    BY <1>2
  <1>7. Running'
    BY <1>1, <1>2 DEF IInv, Running, Waiting, Ended
  <1> QED
    BY <1>4, <1>5, <1>6, <1>7 DEF IInv

(* The call returns with nothing changed.                                  *)
LEMMA AbandonInv ==
  ASSUME IInv, NEW how \in {"delta", "raised"}, Abandon(how)
  PROVE  IInv'
  <1>1. /\ pass' = "idle" /\ result' = how /\ run' = Context(stack, value)
        /\ nested' = FALSE /\ consumed' = <<>> /\ trace' = <<>>
        /\ UNCHANGED <<machine, stack, value, initialized, hot, events, promise>>
    BY DEF Abandon, public
  <1>2. <<>> \in Seq(Mark) /\ <<>> \in Seq(Event)
    BY EmptySeq
  <1>3. stack \in Seq(Frame) /\ value \in Value /\ Shaped(stack, FALSE)
    BY DEF IInv, TypeOK
  <1>4. run' \in Contexts /\ run'.stack = stack
    BY <1>1, <1>2, <1>3 DEF Context, Contexts
  <1>5. TypeOK'
    BY <1>1, <1>2, <1>4 DEF IInv, TypeOK, Pass, Result
  <1>6. Shaped(stack, FALSE)' /\ Rested'
    BY <1>1 DEF IInv, Rested, IsBoundary, Top
  <1>7. Shaped(run.stack, nested)'
    BY <1>1, <1>3, <1>4
  <1>8. Running'
    BY <1>1 DEF Running
  <1> QED
    BY <1>5, <1>6, <1>7, <1>8 DEF IInv

(* A pass ends at a boundary or at the end of the machine.                 *)
LEMMA FinishInv ==
  ASSUME IInv, pass # "idle", ~nested, NEW c \in Contexts, Finish(c), Shaped(c.stack, FALSE),
         c.stack = <<>> \/ IsBoundary(c.stack),
         pass = "committing" => consumed' \in Seq(Event)
  PROVE  IInv'
  <1>1. CASE pass = "validating"
    <2>1. /\ pass' = "committing" /\ promise' = Bare(c) /\ StartPass /\ trace' = Snapshot.trace
          /\ UNCHANGED <<machine, stack, value, initialized, hot, events, result>>
      BY <1>1 DEF Finish, public
    <2>2. ~Ended
      BY <1>1 DEF IInv, Running
    <2>3. /\ run' \in Contexts /\ run'.stack # <<>> /\ Shaped(run'.stack, nested')
          /\ nested' \in BOOLEAN /\ (nested' => Waiting(run'))
          /\ consumed' \in Seq(Event)
          /\ trace' \in Seq(Mark)
      BY <2>1, <2>2, StartPassFacts
    <2>4. promise' \in Contexts
      BY <2>1, ContextFacts
    <2>5. TypeOK'
      BY <2>1, <2>3, <2>4 DEF IInv, TypeOK, Pass
    <2>6. Shaped(stack, FALSE)' /\ Rested'
      BY <2>1 DEF IInv, Rested, IsBoundary, Top
    <2>7. Shaped(run.stack, nested)'
      BY <2>3
    <2>8. Running'
      BY <2>1, <2>2, <2>3 DEF Running, Ended, Waiting
    <2> QED
      BY <2>5, <2>6, <2>7, <2>8 DEF IInv
  <1>2. CASE pass = "committing"
    <2>1. /\ pass' = "idle" /\ stack' = c.stack /\ value' = c.value /\ initialized' = TRUE
          /\ result' = IF c.stack = <<>> THEN "ended" ELSE "stable"
          /\ run' = Bare(c) /\ trace' = trace \o c.trace
          /\ UNCHANGED <<machine, hot, events, nested, promise>>
      BY <1>2 DEF Finish
    <2>2. /\ c.stack \in Seq(Frame) /\ c.value \in Value /\ c.trace \in Seq(Mark)
          /\ run' \in Contexts /\ run'.stack = c.stack
      BY <2>1, ContextFacts
    <2>3. trace' \in Seq(Mark)
      BY <2>1, <2>2, ConcatProperties DEF IInv, TypeOK
    <2>4. TypeOK'
      BY <1>2, <2>1, <2>2, <2>3 DEF IInv, TypeOK, Pass, Result
    <2>5. Rested'
      BY <2>1 DEF Rested, IsBoundary, Top
    <2>6. Shaped(stack, FALSE)'
      BY <2>1
    <2>7. Shaped(run.stack, nested)'
      <3>1. nested' = FALSE
        BY <2>1 DEF IInv, TypeOK
      <3> QED
        BY <2>2, <3>1
    <2>8. Running'
      BY <2>1 DEF Running
    <2> QED
      BY <2>4, <2>5, <2>6, <2>7, <2>8 DEF IInv
  <1> QED
    BY <1>1, <1>2 DEF Finish

-------------------------------------------------------------------------------
(* One lemma per action.                                                   *)

LEMMA CallInv ==
  ASSUME IInv, Call
  PROVE  IInv'
  <1>1. /\ ~Ended /\ StartPass /\ pass' = "validating" /\ events' \in SUBSET Event /\ trace' = <<>>
        /\ UNCHANGED <<machine, stack, value, initialized, hot, promise, result>>
    BY DEF Call, public
  <1>2. /\ run' \in Contexts /\ run'.stack # <<>> /\ Shaped(run'.stack, nested')
        /\ nested' \in BOOLEAN /\ (nested' => Waiting(run'))
        /\ consumed' \in Seq(Event)
    BY <1>1, StartPassFacts
  <1>3. trace' \in Seq(Mark)
    BY <1>1, EmptySeq
  <1>4. TypeOK'
    BY <1>1, <1>2, <1>3 DEF IInv, TypeOK, Pass
  <1>5. Shaped(stack, FALSE)' /\ Rested'
    BY <1>1 DEF IInv, Rested, IsBoundary, Top
  <1>6. Shaped(run.stack, nested)'
    BY <1>2
  <1>7. Running'
    BY <1>1, <1>2 DEF Running, Ended, Waiting
  <1> QED
    BY <1>4, <1>5, <1>6, <1>7 DEF IInv

(* The event of a transition is recorded when it has one.                  *)
LEMMA ConsumeTyped ==
  ASSUME IInv, NEW t \in Transition, Consume(t)
  PROVE  consumed' \in Seq(Event)
  <1>1. consumed \in Seq(Event) /\ t.event \in Event \cup {None}
    BY DEF IInv, TypeOK, Transition
  <1> QED
    BY <1>1, AppendProperties DEF Consume

(* An initial transition, nested or in the loop.                           *)
LEMMA TakeInitialInv ==
  ASSUME IInv, pass # "idle", run.stack # <<>>, Waiting(run),
         NEW t \in ToSet(Candidates(run)), TakeInitial(t)
  PROVE  IInv'
  <1> DEFINE e == IF pass = "committing" THEN TakeInitNested(run, t) ELSE TakeInit(run, t)
             c == IF Descends(t) THEN e ELSE [e EXCEPT !.stack = Settle(@)]
  <1>1. machine \in Machine /\ run \in Contexts /\ nested \in BOOLEAN /\ Shaped(run.stack, nested)
    BY DEF IInv, TypeOK
  <1>2. t \in ToSet(machine.init[Top(run.stack).state])
    BY DEF Candidates
  <1>3. e \in {TakeInit(run, t), TakeInitNested(run, t)}
    OBVIOUS
  <1>4. Move(c) /\ nested' = Descends(t) /\ Consume(t)
    BY DEF TakeInitial
  <1> HIDE DEF e
  <1>5. /\ e \in Contexts /\ e.stack # <<>> /\ Shaped(e.stack, TRUE)
        /\ t.to \in Composite => Waiting(e)
    BY <1>1, <1>2, <1>3, TakeInitShaped
  <1>6. t \in Transition
    <2>1. Top(run.stack).state \in State
      BY <1>1, ContextFacts, TopFacts
    <2> QED
      BY <1>1, <1>2, <2>1, InitFacts
  <1>7. consumed' \in Seq(Event)
    BY <1>4, <1>6, ConsumeTyped
  <1>8. Descends(t) \in BOOLEAN /\ (Descends(t) => t.to \in Composite)
    BY DEF Descends
  <1>9. c \in Contexts /\ c.stack # <<>> /\ Shaped(c.stack, Descends(t)) /\ (Descends(t) => Waiting(c))
    <2>1. CASE Descends(t)
      BY <1>5, <1>8, <2>1
    <2>2. CASE ~Descends(t)
      <3>1. e.stack \in Seq(Frame)
        BY <1>5, ContextFacts
      <3>2. Settle(e.stack) \in Seq(Frame) /\ Shaped(Settle(e.stack), FALSE) /\ Settle(e.stack) # <<>>
        BY <1>5, <3>1, SettleShaped
      <3>3. c = [e EXCEPT !.stack = Settle(e.stack)]
        BY <2>2
      <3> HIDE DEF c
      <3>4. c \in Contexts /\ c.stack = Settle(e.stack)
        BY ONLY <1>5, <3>2, <3>3 DEF Contexts
      <3>5. Descends(t) = FALSE
        BY <1>8, <2>2
      <3> QED
        BY <3>2, <3>4, <3>5
    <2> QED
      BY <2>1, <2>2
  <1> HIDE DEF c
  <1> QED
    BY <1>4, <1>7, <1>8, <1>9, MoveInv

LEMMA NestedInitialInv ==
  ASSUME IInv, NestedInitial(Selection(run))
  PROVE  IInv'
  <1>1. pass # "idle" /\ nested
    BY DEF NestedInitial, Nested
  <1>2. PICK t \in Selection(run).take : TakeInitial(t)
    BY DEF NestedInitial
  <1>3. run.stack # <<>> /\ Waiting(run)
    BY <1>1 DEF IInv, Running
  <1>4. t \in ToSet(Candidates(run))
    BY SelectionFacts
  <1> QED
    BY <1>1, <1>2, <1>3, <1>4, TakeInitialInv

LEMMA InitializesInv ==
  ASSUME IInv, Initializes(Selection(run))
  PROVE  IInv'
  <1>1. pass # "idle" /\ Waiting(run)
    BY DEF Initializes, Iterates, Fresh
  <1>2. PICK t \in Selection(run).take : TakeInitial(t)
    BY DEF Initializes
  <1>3. run.stack # <<>>
    BY <1>1 DEF IInv, Running
  <1>4. t \in ToSet(Candidates(run))
    BY SelectionFacts
  <1> QED
    BY <1>1, <1>2, <1>3, <1>4, TakeInitialInv

LEMMA NestedWaitsInv ==
  ASSUME IInv, NestedWaits(Selection(run))
  PROVE  IInv'
  <1> DEFINE c == [run EXCEPT !.stack = Settle(@)]
  <1>1. /\ pass # "idle" /\ nested' = FALSE /\ consumed' = consumed /\ Move(c)
    BY DEF NestedWaits, Nested
  <1>2. run \in Contexts /\ nested \in BOOLEAN /\ Shaped(run.stack, nested) /\ consumed \in Seq(Event)
    BY DEF IInv, TypeOK
  <1>3. run.stack # <<>> /\ run.stack \in Seq(Frame)
    BY <1>1, <1>2, ContextFacts DEF IInv, Running
  <1>4. Settle(run.stack) \in Seq(Frame) /\ Shaped(Settle(run.stack), FALSE) /\ Settle(run.stack) # <<>>
    BY <1>2, <1>3, SettleShaped
  <1>5. c = [run EXCEPT !.stack = Settle(run.stack)]
    OBVIOUS
  <1> HIDE DEF c
  <1>6. c \in Contexts /\ c.stack = Settle(run.stack)
    BY ONLY <1>2, <1>4, <1>5 DEF Contexts
  <1> QED
    BY <1>1, <1>2, <1>4, <1>6, MoveInv

LEMMA PseudoSettlesInv ==
  ASSUME IInv, PseudoSettles
  PROVE  IInv'
  <1> DEFINE r == SetTop(run.stack, "mode", "active")
             c == [run EXCEPT !.stack = SetTop(@, "mode", "active")]
  <1>1. /\ pass # "idle" /\ nested' = nested /\ ~nested /\ consumed' = consumed /\ Move(c)
        /\ Arrived(run)
    BY DEF PseudoSettles, Iterates, Fresh
  <1>2. /\ run \in Contexts /\ nested = FALSE /\ Shaped(run.stack, FALSE) /\ consumed \in Seq(Event)
        /\ run.stack # <<>> /\ Top(run.stack).mode # "init_wait"
    <2>1. nested = FALSE
      BY <1>1 DEF IInv, TypeOK
    <2> QED
      BY <1>1, <2>1 DEF IInv, TypeOK, Running, Arrived
  <1>3. run.stack \in Seq(Frame)
    BY <1>2, ContextFacts
  <1>4. r \in Seq(Frame) /\ Shaped(r, FALSE) /\ r # <<>>
    BY <1>2, <1>3, SetModeShaped DEF Mode
  <1>5. c = [run EXCEPT !.stack = r]
    OBVIOUS
  <1> HIDE DEF r, c
  <1>6. c \in Contexts /\ c.stack = r
    BY ONLY <1>2, <1>4, <1>5 DEF Contexts
  <1> QED
    BY <1>1, <1>2, <1>4, <1>6, MoveInv

LEMMA LeafStaysInv ==
  ASSUME IInv, LeafStays(Selection(run))
  PROVE  IInv'
  <1> DEFINE r == SetTop(run.stack, "mode", "after_entry")
             v == machine.during[Top(run.stack).state][run.value]
             c == [run EXCEPT !.stack = SetTop(@, "mode", "after_entry"),
                              !.value = machine.during[Top(run.stack).state][@]]
  <1>1. /\ pass # "idle" /\ nested' = nested /\ ~nested /\ consumed' = consumed /\ Move(c)
        /\ ~Waiting(run)
    BY DEF LeafStays, Iterates, Fresh, Routes
  <1>2. /\ machine \in Machine /\ run \in Contexts /\ nested = FALSE /\ Shaped(run.stack, FALSE)
        /\ consumed \in Seq(Event)
        /\ run.stack # <<>> /\ Top(run.stack).mode # "init_wait"
    <2>1. nested = FALSE
      BY <1>1 DEF IInv, TypeOK
    <2> QED
      BY <1>1, <2>1 DEF IInv, TypeOK, Running, Waiting
  <1>3. run.stack \in Seq(Frame) /\ run.value \in Value
    BY <1>2, ContextFacts
  <1>4. r \in Seq(Frame) /\ Shaped(r, FALSE) /\ r # <<>>
    BY <1>2, <1>3, SetModeShaped DEF Mode
  <1>5. v \in Value
    BY <1>2, <1>3, TopFacts, BlockFacts
  <1>6. c = [run EXCEPT !.stack = r, !.value = v]
    OBVIOUS
  <1> HIDE DEF r, v, c
  <1>7. c \in Contexts /\ c.stack = r
    BY ONLY <1>2, <1>4, <1>5, <1>6 DEF Contexts
  <1> QED
    BY <1>1, <1>2, <1>4, <1>7, MoveInv

(* What is selected where the loop routes leads out.                       *)
LEMMA SelectedOut ==
  ASSUME ~Waiting(run), NEW t \in Selection(run).take
  PROVE  t \in ToSet(machine.out[Top(run.stack).state])
  <1>1. t \in ToSet(Candidates(run))
    BY SelectionFacts
  <1>2. t \in ToSet(machine.out[Top(run.stack).state]) \/ t \in ToSet(<<>>)
    BY <1>1 DEF Candidates
  <1>3. ToSet(<<>>) = {}
    BY EmptySeq DEF ToSet
  <1> QED
    BY <1>2, <1>3

(* A transition out is selected where the loop routes.                     *)
LEMMA RoutesOut ==
  ASSUME IInv, Fresh, Routes, NEW t \in Selection(run).take
  PROVE  /\ TakeOut(run, t) \in Contexts /\ Shaped(TakeOut(run, t).stack, FALSE)
         /\ t.to \in Composite => Waiting(TakeOut(run, t))
         /\ t \in Transition
         /\ pass # "idle" /\ ~nested
  <1>1. pass # "idle" /\ ~nested /\ ~Waiting(run)
    BY DEF Fresh, Routes
  <1>2. nested = FALSE
    BY <1>1 DEF IInv, TypeOK
  <1>3. /\ machine \in Machine /\ run \in Contexts /\ Shaped(run.stack, FALSE)
        /\ run.stack # <<>>
    BY <1>1, <1>2 DEF IInv, TypeOK, Running
  <1>4. t \in ToSet(machine.out[Top(run.stack).state])
    BY <1>1, SelectedOut
  <1> QED
    BY <1>1, <1>3, <1>4, TakeOutShaped

LEMMA MovesInv ==
  ASSUME IInv, Moves(Selection(run))
  PROVE  IInv'
  <1>1. Fresh /\ Routes
    BY DEF Moves, Iterates, Fresh
  <1>2. PICK t \in Selection(run).take :
               /\ TakeOut(run, t).stack # <<>>
               /\ Move(TakeOut(run, t))
               /\ nested' = Descends(t)
               /\ Consume(t)
    BY DEF Moves
  <1>3. /\ TakeOut(run, t) \in Contexts /\ Shaped(TakeOut(run, t).stack, FALSE)
        /\ t.to \in Composite => Waiting(TakeOut(run, t))
        /\ t \in Transition
        /\ pass # "idle"
    BY <1>1, RoutesOut
  <1>4. nested' \in BOOLEAN /\ (nested' => Waiting(TakeOut(run, t)))
    BY <1>2, <1>3 DEF Descends
  <1>5. Shaped(TakeOut(run, t).stack, nested')
    BY <1>3, <1>4, WeakerShape
  <1>6. consumed' \in Seq(Event)
    BY <1>2, <1>3, ConsumeTyped
  <1> QED
    BY <1>2, <1>3, <1>4, <1>5, <1>6, MoveInv

LEMMA TerminatesInv ==
  ASSUME IInv, Terminates(Selection(run))
  PROVE  IInv'
  <1>1. Fresh /\ Routes
    BY DEF Terminates
  <1>2. PICK t \in Selection(run).take :
               /\ TakeOut(run, t).stack = <<>>
               /\ pass = "committing" => Consume(t)
               /\ Finish(TakeOut(run, t))
    BY DEF Terminates
  <1>3. /\ TakeOut(run, t) \in Contexts /\ Shaped(TakeOut(run, t).stack, FALSE)
        /\ t \in Transition
        /\ pass # "idle" /\ ~nested
    BY <1>1, RoutesOut
  <1>4. pass = "committing" => consumed' \in Seq(Event)
    BY <1>2, <1>3, ConsumeTyped
  <1> QED
    BY <1>2, <1>3, <1>4, FinishInv

(* A pass stops on a stoppable leaf: nothing is owed there.                *)
LEMMA StopsInv ==
  ASSUME IInv, Stops
  PROVE  IInv'
  <1> DEFINE s == run.stack
             r == SetTop(s, "mode", "active")
             c == [run EXCEPT !.stack = SetTop(@, "mode", "active")]
  <1>1. /\ pass # "idle" /\ ~nested /\ Arrived(run) /\ Viable(run) /\ Finish(c)
        /\ pass = "committing" => consumed' = consumed
    BY DEF Stops, Fresh
  <1>2. nested = FALSE
    BY <1>1 DEF IInv, TypeOK
  <1>3. /\ run \in Contexts /\ Shaped(s, FALSE) /\ consumed \in Seq(Event)
        /\ s # <<>> /\ Top(s).mode # "init_wait" /\ Top(s).state \in Stoppable
    BY <1>1, <1>2 DEF IInv, TypeOK, Arrived, Viable
  <1>4. s \in Seq(Frame)
    BY <1>3, ContextFacts
  <1>5. /\ r \in Seq(Frame) /\ r # <<>> /\ Shaped(r, FALSE)
        /\ Top(r).state = Top(s).state /\ Top(r).mode = "active" /\ ~Top(r).pending
        /\ Len(r) = Len(s) /\ \A i \in 1..(Len(s) - 1) : r[i] = s[i]
    BY <1>3, <1>4, SetModeShaped DEF Mode
  <1>6. c = [run EXCEPT !.stack = r]
    OBVIOUS
  <1> HIDE DEF s, r, c
  <1>7. c \in Contexts /\ c.stack = r
    BY ONLY <1>3, <1>5, <1>6 DEF Contexts, s
  <1>8. IsBoundary(r)
    <2>1. Len(s) \in Nat
      BY <1>4, SeqFacts
    <2>2. ASSUME NEW i \in 1..Len(r)
          PROVE  r[i].mode = "active" /\ ~r[i].pending
      <3>1. CASE i = Len(r)
        BY <1>5, <3>1, Zenon DEF Top
      <3>2. CASE i # Len(r)
        <4>1. i \in 1..(Len(r) - 1)
          BY <1>5, <2>1, <3>2
        <4>2. r[i].mode = "active"
          BY <1>5, <4>1 DEF Shaped, Descent
        <4>3. ~r[i].pending
          <5>1. Top(r).state \notin Pseudo
            BY <1>3, <1>5 DEF Stoppable
          <5>2. r[i].pending => i = Len(r) \/ Top(r).state \in Pseudo
            BY <1>5, Zenon DEF Shaped, Owed
          <5> QED
            BY <3>2, <5>1, <5>2
        <4> QED
          BY <4>2, <4>3
      <3> QED
        BY <3>1, <3>2
    <2> QED
      BY <1>3, <1>5, <2>2 DEF IsBoundary
  <1> QED
    BY <1>1, <1>3, <1>5, <1>7, <1>8, FinishInv

LEMMA GivesUpInv ==
  ASSUME IInv, GivesUp
  PROVE  IInv'
  BY AbandonInv DEF GivesUp

LEMMA StrandsInv ==
  ASSUME IInv, Strands(Selection(run))
  PROVE  IInv'
  BY AbandonInv DEF Strands

LEMMA RaisesInv ==
  ASSUME IInv, Raises(Selection(run))
  PROVE  IInv'
  BY AbandonInv DEF Raises

-------------------------------------------------------------------------------
(* The invariant holds at the start.                                       *)
LEMMA InitInv ==
  ASSUME Init
  PROVE  IInv
  <1>1. /\ machine \in Machine /\ value \in Value /\ initialized \in BOOLEAN
        /\ hot = stack /\ pass = "idle" /\ events = {} /\ run = Context(stack, value)
        /\ nested = FALSE /\ trace = <<>> /\ consumed = <<>> /\ promise = Context(stack, value)
        /\ result = "none"
    BY DEF Init
  <1>2. stack \in Seq(Frame) /\ Shaped(stack, FALSE)
    <2>1. HotStart \subseteq State
      BY TreeAssumption
    <2> QED
      BY <2>1, HotShaped, RootShaped DEF Init
  <1>3. <<>> \in Seq(Mark) /\ <<>> \in Seq(Event)
    BY EmptySeq
  <1>4. Context(stack, value) \in Contexts /\ Context(stack, value).stack = stack
    BY <1>1, <1>2, <1>3 DEF Context, Contexts
  <1>5. TypeOK
    BY <1>1, <1>2, <1>3, <1>4 DEF TypeOK, Pass, Result
  <1>6. Shaped(run.stack, nested)
    BY <1>1, <1>2, <1>4
  <1>7. Rested /\ Running
    BY <1>1 DEF Rested, Running
  <1> QED
    BY <1>2, <1>5, <1>6, <1>7 DEF IInv

(* Every step keeps it.                                                    *)
LEMMA NextInv ==
  ASSUME IInv, Next
  PROVE  IInv'
  <1>1. CASE Call
    BY <1>1, CallInv
  <1>2. CASE PseudoSettles
    BY <1>2, PseudoSettlesInv
  <1>3. CASE Stops
    BY <1>3, StopsInv
  <1>4. CASE GivesUp
    BY <1>4, GivesUpInv
  <1>5. CASE NestedInitial(Selection(run))
    BY <1>5, NestedInitialInv
  <1>6. CASE NestedWaits(Selection(run))
    BY <1>6, NestedWaitsInv
  <1>7. CASE Moves(Selection(run))
    BY <1>7, MovesInv
  <1>8. CASE Terminates(Selection(run))
    BY <1>8, TerminatesInv
  <1>9. CASE LeafStays(Selection(run))
    BY <1>9, LeafStaysInv
  <1>10. CASE Initializes(Selection(run))
    BY <1>10, InitializesInv
  <1>11. CASE Strands(Selection(run))
    BY <1>11, StrandsInv
  <1>12. CASE Raises(Selection(run))
    BY <1>12, RaisesInv
  <1> QED
    BY <1>1, <1>2, <1>3, <1>4, <1>5, <1>6, <1>7, <1>8, <1>9, <1>10, <1>11, <1>12 DEF Next, Step

(* A step that changes nothing keeps it.                                   *)
LEMMA StutterInv ==
  ASSUME IInv, UNCHANGED vars
  PROVE  IInv'
  <1>1. /\ UNCHANGED <<machine, stack, value, initialized, hot, pass, events, run, nested>>
        /\ UNCHANGED <<trace, consumed, promise, result>>
    BY DEF vars
  <1>2. TypeOK'
    BY <1>1 DEF IInv, TypeOK
  <1>3. Shaped(stack, FALSE)' /\ Rested' /\ Shaped(run.stack, nested)'
    BY <1>1 DEF IInv, Rested, IsBoundary, Top
  <1>4. Running'
    BY <1>1 DEF IInv, Running, Ended, Waiting
  <1> QED
    BY <1>2, <1>3, <1>4 DEF IInv

(* IInv: why StackIsPath and RestsAtBoundary hold.                         *)
THEOREM Invariance == Spec => []IInv
  <1>1. Init => IInv
    BY InitInv
  <1>2. IInv /\ [Next]_vars => IInv'
    BY NextInv, StutterInv
  <1> QED
    BY <1>1, <1>2, PTL DEF Spec

(* The variables keep their types through all passes of all cycles.        *)
THEOREM TypeCorrect == Spec => []TypeOK
  <1>1. IInv => TypeOK
    BY DEF IInv
  <1> QED
    BY <1>1, Invariance, PTL

(* The public stack and the clone's are paths of the tree from the root in *)
(* every state of every cycle, for every machine: exits, sibling entries,  *)
(* nested descents and hot starts leave no stray frame.                    *)
THEOREM PathInvariance == Spec => []StackIsPath
  <1>1. IInv => StackIsPath
    BY DEF IInv, Shaped, StackIsPath
  <1> QED
    BY <1>1, Invariance, PTL

(* Between cycles the machine rests at a boundary, has ended, or has not   *)
(* left its start: a cycle that raises or gives up publishes nothing of    *)
(* its passes, and one that stops has no block or routing outstanding.     *)
THEOREM RestAtBoundary == Spec => []RestsAtBoundary
  <1>1. IInv => RestsAtBoundary
    BY DEF IInv, Rested, RestsAtBoundary
  <1> QED
    BY <1>1, Invariance, PTL

-------------------------------------------------------------------------------
(* Plain before blocks.                                                    *)

(* A set of numbers that is not empty has a least one.                     *)
LEMMA LeastNumber ==
  ASSUME NEW T \in SUBSET Nat, T # {}
  PROVE  \E n \in T : \A m \in T : n <= m
  <1> DEFINE R == {p \in Nat \X Nat : p[1] < p[2]}
  <1>1. IsWellFoundedOn(R, Nat)
    BY NatLessThanWellFounded DEF OpToRel
  <1>2. PICK n \in T : \A m \in T : <<m, n>> \notin R
    BY <1>1, WFMin
  <1>3. \A m \in T : ~(m < n)
    BY <1>2
  <1> QED
    BY <1>2, <1>3

(* No state is twice on a path: the first that were would have a parent    *)
(* that is.                                                                *)
LEMMA PathDistinct ==
  ASSUME NEW s \in Seq(Frame), IsPath(States(s))
  PROVE  \A i, j \in 1..Len(s) : i < j => s[i].state # s[j].state
  <1> DEFINE Twice == {i \in 1..Len(s) : \E j \in 1..Len(s) : i < j /\ s[i].state = s[j].state}
  <1>1. Len(s) \in Nat
    BY SeqFacts
  <1>2. /\ s # <<>> => s[1].state = Root
        /\ \A i \in 2..Len(s) : s[i].state # Root /\ s[i - 1].state = Parent[s[i].state]
    BY PathFacts
  <1>3. ASSUME Twice # {} PROVE FALSE
    <2>1. Twice \in SUBSET Nat
      OBVIOUS
    <2>2. PICK i \in Twice : \A k \in Twice : i <= k
      BY <1>3, <2>1, LeastNumber
    <2>3. PICK j \in 1..Len(s) : i < j /\ s[i].state = s[j].state
      BY <2>2
    <2>4. i \in 1..Len(s) /\ j \in 2..Len(s) /\ s # <<>>
      BY <1>1, <2>2, <2>3, SeqFacts
    <2>5. i # 1
      BY <1>2, <2>3, <2>4
    <2>6. i \in 2..Len(s) /\ i - 1 \in 1..Len(s) /\ j - 1 \in 1..Len(s) /\ i - 1 < j - 1
      BY <1>1, <2>3, <2>4, <2>5
    <2>7. s[i - 1].state = s[j - 1].state
      BY <1>2, <2>3, <2>4, <2>6
    <2>8. i - 1 \in Twice
      BY <2>6, <2>7
    <2> QED
      BY <2>2, <2>6, <2>8
  <1> QED
    BY <1>3

(* Among the first n marks c has been entered, and its plain before block  *)
(* has run since.                                                          *)
EnteredBy(tr, n, c) ==
  \E k \in 1..n : tr[k] = <<"enter", c>> /\ \A l \in (k + 1)..n : tr[l] # <<"enter", c>>

BegunBy(tr, n, c) ==
  \E k \in 1..n : tr[k] = <<"before", c>> /\ \A l \in (k + 1)..n : tr[l] # <<"enter", c>>

Entered(tr, c) == EnteredBy(tr, Len(tr), c)
Begun(tr, c) == BegunBy(tr, Len(tr), c)

(* Entering x now is in order: its parent's block has run if the parent    *)
(* has been entered.                                                       *)
Prepared(tr, n, x) ==
  x # Root /\ x \notin Pseudo /\ EnteredBy(tr, n, Parent[x]) => BegunBy(tr, n, Parent[x])

(* The mark m may follow p.                                                *)
Follows(p, m) ==
  p[1] = "before" => m[1] = "enter" /\ m[2] \notin Pseudo /\ Parent[m[2]] = p[2]

InOrder(tr, n, m) ==
  /\ m[1] = "before" => EnteredBy(tr, n, m[2]) /\ ~BegunBy(tr, n, m[2])
  /\ m[1] = "enter" => Prepared(tr, n, m[2])

Orderly(tr) ==
  \A i \in 1..Len(tr) : /\ InOrder(tr, i - 1, tr[i])
                        /\ i < Len(tr) => Follows(tr[i], tr[i + 1])

(* The next mark may be m, or any.                                         *)
Admits(tr, m) == tr # <<>> => Follows(tr[Len(tr)], m)
Closed(tr) == tr # <<>> => tr[Len(tr)][1] # "before"

(* An orderly trace is what PlainBeforeOnce asks for.                      *)
LEMMA OrderlyOnce ==
  ASSUME trace \in Seq(Mark), Orderly(trace)
  PROVE  PlainBeforeOnce
  <1> DEFINE since(i, c) == {j \in 1..(i - 1) :
                       \E k \in 1..j : /\ trace[k] = <<"enter", c>>
                                       /\ \A l \in (k + 1)..(i - 1) : trace[l] # <<"enter", c>>}
  <1>1. Len(trace) \in Nat
    BY SeqFacts
  <1>2. ASSUME NEW i \in 1..Len(trace), NEW c, EnteredBy(trace, i - 1, c)
        PROVE  since(i, c) # {}
    <2>1. PICK k \in 1..(i - 1) : trace[k] = <<"enter", c>> /\ \A l \in (k + 1)..(i - 1) : trace[l] # <<"enter", c>>
      BY <1>2 DEF EnteredBy
    <2>2. k \in 1..k
      BY <2>1
    <2> QED
      BY <2>1, <2>2
  <1>3. ASSUME NEW i \in 1..Len(trace), NEW c, since(i, c) # {}
        PROVE  EnteredBy(trace, i - 1, c)
    <2>1. PICK j \in 1..(i - 1) : \E k \in 1..j : /\ trace[k] = <<"enter", c>>
                                       /\ \A l \in (k + 1)..(i - 1) : trace[l] # <<"enter", c>>
      BY <1>3
    <2>2. PICK k \in 1..j : trace[k] = <<"enter", c>> /\ \A l \in (k + 1)..(i - 1) : trace[l] # <<"enter", c>>
      BY <2>1
    <2>3. k \in 1..(i - 1)
      BY <1>1, <2>1, <2>2
    <2> QED
      BY <2>2, <2>3 DEF EnteredBy
  <1>4. ASSUME NEW i \in 1..Len(trace), NEW c, NEW j \in since(i, c), trace[j] = <<"before", c>>
        PROVE  BegunBy(trace, i - 1, c)
    <2>1. PICK k \in 1..j : trace[k] = <<"enter", c>> /\ \A l \in (k + 1)..(i - 1) : trace[l] # <<"enter", c>>
      OBVIOUS
    <2>2. \A l \in (j + 1)..(i - 1) : l \in (k + 1)..(i - 1)
      BY <1>1, <2>1
    <2> QED
      BY <1>4, <2>1, <2>2 DEF BegunBy
  <1>5. ASSUME NEW i \in 1..Len(trace), NEW c, EnteredBy(trace, i - 1, c), BegunBy(trace, i - 1, c)
        PROVE  \E j \in since(i, c) : trace[j] = <<"before", c>>
    <2>1. PICK k \in 1..(i - 1) : trace[k] = <<"enter", c>> /\ \A l \in (k + 1)..(i - 1) : trace[l] # <<"enter", c>>
      BY <1>5 DEF EnteredBy
    <2>2. PICK j \in 1..(i - 1) : trace[j] = <<"before", c>> /\ \A l \in (j + 1)..(i - 1) : trace[l] # <<"enter", c>>
      BY <1>5 DEF BegunBy
    <2>3. k \notin (j + 1)..(i - 1)
      BY <2>1, <2>2
    <2>4. k \in 1..j
      BY <1>1, <2>1, <2>2, <2>3
    <2> QED
      BY <2>1, <2>2, <2>4
  <1> HIDE DEF since
  <1>6. ASSUME NEW i \in 1..Len(trace), NEW k, NEW s, k = trace[i][1], s = trace[i][2]
        PROVE  /\ k = "before" =>
                    /\ since(i, s) # {}
                    /\ \A j \in since(i, s) : trace[j] # <<"before", s>>
                    /\ i < Len(trace) => /\ trace[i + 1][1] = "enter"
                                         /\ trace[i + 1][2] \notin Pseudo
                                         /\ Parent[trace[i + 1][2]] = s
               /\ k = "enter" /\ s # Root /\ s \notin Pseudo /\ since(i, Parent[s]) # {} =>
                    \E j \in since(i, Parent[s]) : trace[j] = <<"before", Parent[s]>>
    <2>1. InOrder(trace, i - 1, trace[i]) /\ (i < Len(trace) => Follows(trace[i], trace[i + 1]))
      BY DEF Orderly
    <2>2. CASE k = "before"
      BY <1>2, <1>4, <1>6, <2>1, <2>2 DEF InOrder, Follows
    <2>3. CASE k = "enter" /\ s # Root /\ s \notin Pseudo /\ since(i, Parent[s]) # {}
      BY <1>3, <1>5, <1>6, <2>1, <2>3 DEF InOrder, Prepared
    <2> QED
      BY <2>2, <2>3
  <1> QED
    <2> SUFFICES ASSUME NEW i \in 1..Len(trace)
                 PROVE  LET k == trace[i][1]
                            s == trace[i][2]
                        IN  /\ k = "before" =>
                                 /\ since(i, s) # {}
                                 /\ \A j \in since(i, s) : trace[j] # <<"before", s>>
                                 /\ i < Len(trace) => /\ trace[i + 1][1] = "enter"
                                                      /\ trace[i + 1][2] \notin Pseudo
                                                      /\ Parent[trace[i + 1][2]] = s
                            /\ k = "enter" /\ s # Root /\ s \notin Pseudo /\ since(i, Parent[s]) # {} =>
                                 \E j \in since(i, Parent[s]) : trace[j] = <<"before", Parent[s]>>
      BY Zenon DEF PlainBeforeOnce, since
    <2> QED
      BY <1>6

(* What a mark adds.                                                       *)
LEMMA EarlierMarks ==
  ASSUME NEW tr \in Seq(Mark), NEW m \in Mark, NEW n \in 0..Len(tr), NEW c
  PROVE  /\ EnteredBy(Append(tr, m), n, c) <=> EnteredBy(tr, n, c)
         /\ BegunBy(Append(tr, m), n, c) <=> BegunBy(tr, n, c)
  <1>1. Len(tr) \in Nat /\ \A i \in 1..Len(tr) : Append(tr, m)[i] = tr[i]
    BY AppendFacts, SeqFacts
  <1>2. \A k \in 1..n : k \in 1..Len(tr) /\ \A l \in (k + 1)..n : l \in 1..Len(tr)
    BY <1>1
  <1> QED
    BY <1>1, <1>2 DEF EnteredBy, BegunBy

(* The newest mark decides about its own state only.                       *)
LEMMA LatestMark ==
  ASSUME NEW tr \in Seq(Mark), NEW m \in Mark, NEW c
  PROVE  /\ Entered(Append(tr, m), c) <=> m = <<"enter", c>> \/ Entered(tr, c)
         /\ Begun(Append(tr, m), c) <=> m = <<"before", c>> \/ (Begun(tr, c) /\ m # <<"enter", c>>)
  <1> DEFINE t == Append(tr, m)
             n == Len(tr)
  <1>1. n \in Nat /\ Len(t) = n + 1 /\ t[n + 1] = m /\ \A i \in 1..n : t[i] = tr[i]
    BY AppendFacts, SeqFacts
  <1> HIDE DEF t, n
  <1>2. ASSUME NEW a, NEW k \in 1..(n + 1)
        PROVE  (\A l \in (k + 1)..(n + 1) : t[l] # a) <=>
                 k = n + 1 \/ (m # a /\ \A l \in (k + 1)..n : tr[l] # a)
    <2>1. CASE k = n + 1
      BY <1>1, <2>1
    <2>2. CASE k \in 1..n
      <3>1. \A l : l \in (k + 1)..(n + 1) <=> l = n + 1 \/ l \in (k + 1)..n
        BY <1>1, <2>2
      <3>2. \A l \in (k + 1)..n : l \in 1..n
        BY <1>1, <2>2
      <3>3. k # n + 1
        BY <1>1, <2>2
      <3> QED
        BY <1>1, <3>1, <3>2, <3>3
    <2> QED
      BY <1>1, <2>1, <2>2
  <1>3. \A k : k \in 1..(n + 1) <=> k = n + 1 \/ k \in 1..n
    BY <1>1
  <1>4. EnteredBy(t, n + 1, c) <=> m = <<"enter", c>> \/ EnteredBy(tr, n, c)
    <2>1. ASSUME EnteredBy(t, n + 1, c), m # <<"enter", c>> PROVE EnteredBy(tr, n, c)
      <3>1. PICK k \in 1..(n + 1) : t[k] = <<"enter", c>> /\ \A l \in (k + 1)..(n + 1) : t[l] # <<"enter", c>>
        BY <2>1 DEF EnteredBy
      <3>2. k \in 1..n
        BY <1>1, <1>3, <2>1, <3>1
      <3>3. \A l \in (k + 1)..n : tr[l] # <<"enter", c>>
        BY <1>1, <1>2, <3>1, <3>2
      <3> QED
        BY <1>1, <3>1, <3>2, <3>3 DEF EnteredBy
    <2>2. ASSUME m = <<"enter", c>> PROVE EnteredBy(t, n + 1, c)
      BY <1>1, <1>2, <1>3, <2>2 DEF EnteredBy
    <2>3. ASSUME EnteredBy(tr, n, c), m # <<"enter", c>> PROVE EnteredBy(t, n + 1, c)
      <3>1. PICK k \in 1..n : tr[k] = <<"enter", c>> /\ \A l \in (k + 1)..n : tr[l] # <<"enter", c>>
        BY <2>3 DEF EnteredBy
      <3> QED
        BY <1>1, <1>2, <1>3, <2>3, <3>1 DEF EnteredBy
    <2> QED
      BY <2>1, <2>2, <2>3
  <1>5. BegunBy(t, n + 1, c) <=> m = <<"before", c>> \/ (BegunBy(tr, n, c) /\ m # <<"enter", c>>)
    <2>1. ASSUME BegunBy(t, n + 1, c), m # <<"before", c>>
          PROVE  BegunBy(tr, n, c) /\ m # <<"enter", c>>
      <3>1. PICK k \in 1..(n + 1) : t[k] = <<"before", c>> /\ \A l \in (k + 1)..(n + 1) : t[l] # <<"enter", c>>
        BY <2>1 DEF BegunBy
      <3>2. k \in 1..n
        BY <1>1, <1>3, <2>1, <3>1
      <3>3. m # <<"enter", c>> /\ \A l \in (k + 1)..n : tr[l] # <<"enter", c>>
        BY <1>1, <1>2, <3>1, <3>2
      <3> QED
        BY <1>1, <3>1, <3>2, <3>3 DEF BegunBy
    <2>2. ASSUME m = <<"before", c>> PROVE BegunBy(t, n + 1, c)
      BY <1>1, <1>2, <1>3, <2>2 DEF BegunBy
    <2>3. ASSUME BegunBy(tr, n, c), m # <<"enter", c>> PROVE BegunBy(t, n + 1, c)
      <3>1. PICK k \in 1..n : tr[k] = <<"before", c>> /\ \A l \in (k + 1)..n : tr[l] # <<"enter", c>>
        BY <2>3 DEF BegunBy
      <3>2. k \in 1..(n + 1) /\ t[k] = <<"before", c>>
        BY <1>1, <1>3, <3>1
      <3>3. \A l \in (k + 1)..(n + 1) : t[l] # <<"enter", c>>
        BY <1>2, <2>3, <3>1, <3>2
      <3> QED
        BY <3>2, <3>3 DEF BegunBy
    <2> QED
      BY <2>1, <2>2, <2>3
  <1> QED
    BY <1>1, <1>4, <1>5 DEF Entered, Begun, t, n

(* An orderly trace grows by a mark that is in order.                      *)
LEMMA OrderlyGrows ==
  ASSUME NEW tr \in Seq(Mark), Orderly(tr), NEW m \in Mark,
         Admits(tr, m), InOrder(tr, Len(tr), m)
  PROVE  Orderly(Append(tr, m))
  <1> DEFINE t == Append(tr, m)
             n == Len(tr)
  <1>1. n \in Nat /\ Len(t) = n + 1 /\ t[n + 1] = m /\ \A i \in 1..n : t[i] = tr[i]
    BY AppendFacts, SeqFacts
  <1>2. \A i \in 0..n : \A x : InOrder(t, i, x) <=> InOrder(tr, i, x)
    BY EarlierMarks DEF InOrder, Prepared
  <1>3. n > 0 => tr # <<>>
    BY SeqFacts
  <1> HIDE DEF t, n
  <1>4. ASSUME NEW i \in 1..(n + 1)
        PROVE  InOrder(t, i - 1, t[i]) /\ (i < n + 1 => Follows(t[i], t[i + 1]))
    <2>1. CASE i = n + 1
      <3>1. i - 1 = n /\ n \in 0..n
        BY <1>1, <2>1
      <3> QED
        BY <1>1, <1>2, <2>1, <3>1 DEF n
    <2>2. CASE i \in 1..n
      <3>1. i - 1 \in 0..n /\ i \in 1..Len(tr)
        BY <1>1, <2>2 DEF n
      <3>2. InOrder(t, i - 1, t[i])
        BY <1>1, <1>2, <2>2, <3>1 DEF Orderly
      <3>3. CASE i = n
        <4>1. t[i] = tr[Len(tr)] /\ t[i + 1] = m
          BY <1>1, <2>2, <3>3 DEF n
        <4>2. tr # <<>>
          BY <1>1, <1>3, <2>2
        <4> QED
          BY <3>2, <4>1, <4>2 DEF Admits
      <3>4. CASE i # n
        <4>1. i + 1 \in 1..n /\ i < Len(tr)
          BY <1>1, <2>2, <3>4 DEF n
        <4> QED
          BY <1>1, <2>2, <3>1, <3>2, <4>1 DEF Orderly
      <3> QED
        BY <3>3, <3>4
    <2> QED
      BY <1>1, <2>1, <2>2
  <1> QED
    BY <1>1, <1>4 DEF Orderly, t

-------------------------------------------------------------------------------
(* Frames and the trace.                                                   *)

(* The trace accounts for the frame f: a pending block has not run since   *)
(* f's state was entered, and one that is settled has.                     *)
Accounted(f, tr) ==
  /\ f.pending => Entered(tr, f.state) /\ ~Begun(tr, f.state)
  /\ f.state \in Composite /\ ~f.pending /\ f.mode # "post_child_exit" /\ Entered(tr, f.state)
       => Begun(tr, f.state)

Accounts(s, tr) == \A i \in 1..Len(s) : Accounted(s[i], tr)

(* g owes no more than f, and has settled no more.                         *)
Inherits(f, g) ==
  /\ g.state = f.state
  /\ g.pending => f.pending
  /\ g.state \in Composite /\ ~g.pending /\ g.mode # "post_child_exit"
       => ~f.pending /\ f.mode # "post_child_exit"

(* Fewer debts stay accounted for.                                         *)
LEMMA AccountsKept ==
  ASSUME NEW s \in Seq(Frame), NEW r \in Seq(Frame), NEW tr, Accounts(s, tr), Len(r) <= Len(s),
         \A i \in 1..Len(r) : Inherits(s[i], r[i])
  PROVE  Accounts(r, tr)
  <1> SUFFICES ASSUME NEW i \in 1..Len(r) PROVE Accounted(r[i], tr)
    BY DEF Accounts
  <1>1. i \in 1..Len(s)
    <2>1. Len(r) \in Nat /\ Len(s) \in Nat
      BY SeqFacts
    <2> QED
      BY <2>1
  <1>2. Accounted(s[i], tr) /\ Inherits(s[i], r[i])
    BY <1>1 DEF Accounts
  <1> QED
    BY <1>2, Zenon DEF Accounted, Inherits

(* A mark about another state, or an exit, changes nothing.                *)
LEMMA OtherMark ==
  ASSUME NEW s \in Seq(Frame), NEW tr \in Seq(Mark), NEW m \in Mark, Accounts(s, tr),
         \A i \in 1..Len(s) : m[1] = "exit" \/ s[i].state # m[2]
  PROVE  Accounts(s, Append(tr, m))
  <1> SUFFICES ASSUME NEW i \in 1..Len(s) PROVE Accounted(s[i], Append(tr, m))
    BY DEF Accounts
  <1>1. m # <<"enter", s[i].state>> /\ m # <<"before", s[i].state>>
    <2>1. m[1] = "exit" \/ s[i].state # m[2]
      OBVIOUS
    <2> QED
      BY <2>1
  <1>2. /\ Entered(Append(tr, m), s[i].state) <=> Entered(tr, s[i].state)
        /\ Begun(Append(tr, m), s[i].state) <=> Begun(tr, s[i].state)
    BY <1>1, LatestMark
  <1>3. Accounted(s[i], tr)
    BY DEF Accounts
  <1> QED
    BY <1>2, <1>3, Zenon DEF Accounted

-------------------------------------------------------------------------------
(* Replaying the trace.                                                    *)

(* g is what the first n marks make of the path.                           *)
Runs(path, marks, n, g) ==
  g = [i \in 0..n |-> IF i = 0 THEN path ELSE Replayed(g[i - 1], marks[i])]

(* The recursion of Replay has a solution, and one only.                   *)
LEMMA RunsExist ==
  ASSUME NEW path, NEW marks, NEW n \in Nat
  PROVE  \E g : Runs(path, marks, n, g)
  <1> DEFINE T == {k \in Nat : ~ \E g : Runs(path, marks, k, g)}
  <1>1. ASSUME T # {} PROVE FALSE
    <2>1. T \in SUBSET Nat
      OBVIOUS
    <2>2. PICK k \in T : \A l \in T : k <= l
      BY <1>1, <2>1, LeastNumber
    <2>3. CASE k = 0
      <3> DEFINE g == [i \in 0..0 |-> path]
      <3>1. 0..0 = {0}
        OBVIOUS
      <3>2. Runs(path, marks, 0, g)
        BY <3>1 DEF Runs
      <3> QED
        BY <2>2, <2>3, <3>2
    <2>4. CASE k # 0
      <3>1. k - 1 \in Nat /\ k - 1 \notin T
        BY <2>2, <2>4
      <3>2. PICK g : Runs(path, marks, k - 1, g)
        BY <3>1
      <3> DEFINE h == [i \in 0..k |-> IF i = k THEN Replayed(g[k - 1], marks[k]) ELSE g[i]]
      <3>3. \A i \in 0..(k - 1) : g[i] = IF i = 0 THEN path ELSE Replayed(g[i - 1], marks[i])
        BY <3>2 DEF Runs
      <3>4. \A i \in 0..k : h[i] = IF i = 0 THEN path ELSE Replayed(h[i - 1], marks[i])
        <4> TAKE i \in 0..k
        <4>1. CASE i = k
          <5>1. k - 1 \in 0..k /\ k - 1 # k /\ k \in 0..k
            BY <3>1, <2>2
          <5>2. h[k - 1] = g[k - 1] /\ h[k] = Replayed(g[k - 1], marks[k])
            BY <5>1
          <5> HIDE DEF h
          <5> QED
            BY <2>4, <4>1, <5>2
        <4>2. CASE i # k
          <5>1. i \in 0..(k - 1)
            BY <2>2, <4>2
          <5>2. h[i] = g[i]
            BY <4>2
          <5>3. i # 0 => i - 1 \in 0..k /\ i - 1 # k
            BY <2>2, <5>1
          <5>4. i # 0 => h[i - 1] = g[i - 1]
            BY <5>3
          <5> HIDE DEF h
          <5> QED
            BY <3>3, <5>1, <5>2, <5>4
        <4> QED
          BY <4>1, <4>2
      <3>5. h = [i \in 0..k |-> h[i]]
        OBVIOUS
      <3> HIDE DEF h
      <3>6. Runs(path, marks, k, h)
        BY <3>4, <3>5 DEF Runs
      <3> QED
        BY <2>2, <3>6
    <2> QED
      BY <2>3, <2>4
  <1> QED
    BY <1>1

(* Where the marks agree, so do the runs.                                  *)
LEMMA RunsAgree ==
  ASSUME NEW path, NEW a, NEW b, NEW n \in Nat, NEW k \in Nat, n <= k, NEW g, NEW h,
         Runs(path, a, n, g), Runs(path, b, k, h), \A i \in 1..n : a[i] = b[i]
  PROVE  g[n] = h[n]
  <1> DEFINE T == {i \in 0..n : g[i] # h[i]}
  <1>1. /\ \A i \in 0..n : g[i] = IF i = 0 THEN path ELSE Replayed(g[i - 1], a[i])
        /\ \A i \in 0..k : h[i] = IF i = 0 THEN path ELSE Replayed(h[i - 1], b[i])
    BY DEF Runs
  <1>2. ASSUME T # {} PROVE FALSE
    <2>1. T \in SUBSET Nat
      OBVIOUS
    <2>2. PICK i \in T : \A l \in T : i <= l
      BY <1>2, <2>1, LeastNumber
    <2>3. i \in 0..k /\ i \in 0..n
      BY <2>2
    <2>4. CASE i = 0
      BY <1>1, <2>2, <2>3, <2>4
    <2>5. CASE i # 0
      <3>1. i - 1 \in 0..n /\ i - 1 \notin T /\ i \in 1..n
        BY <2>2, <2>3, <2>5
      <3>2. g[i - 1] = h[i - 1] /\ a[i] = b[i]
        BY <3>1
      <3>3. g[i] = Replayed(g[i - 1], a[i]) /\ h[i] = Replayed(h[i - 1], b[i])
        BY <1>1, <2>3, <2>5
      <3> QED
        BY <2>2, <3>2, <3>3
    <2> QED
      BY <2>4, <2>5
  <1>3. n \in 0..n /\ n \notin T
    BY <1>2
  <1> QED
    BY <1>3

(* Replay is the last value of such a run.                                 *)
LEMMA ReplayRuns ==
  ASSUME NEW path, NEW marks, Len(marks) \in Nat
  PROVE  \E g : Runs(path, marks, Len(marks), g) /\ Replay(path, marks) = g[Len(marks)]
  <1> DEFINE g == CHOOSE f : f = [n \in 0..Len(marks) |-> IF n = 0 THEN path ELSE Replayed(f[n - 1], marks[n])]
  <1>1. \E f : f = [n \in 0..Len(marks) |-> IF n = 0 THEN path ELSE Replayed(f[n - 1], marks[n])]
    <2>1. PICK f : Runs(path, marks, Len(marks), f)
      BY RunsExist
    <2>2. f = [n \in 0..Len(marks) |-> IF n = 0 THEN path ELSE Replayed(f[n - 1], marks[n])]
      BY <2>1, Zenon DEF Runs
    <2> QED
      BY <2>2, Zenon
  <1>2. g = [n \in 0..Len(marks) |-> IF n = 0 THEN path ELSE Replayed(g[n - 1], marks[n])]
    BY <1>1, Zenon
  <1>3. Replay(path, marks) = g[Len(marks)]
    BY Zenon DEF Replay
  <1> HIDE DEF g
  <1> QED
    BY <1>2, <1>3 DEF Runs

(* One mark more.                                                          *)
LEMMA ReplayGrows ==
  ASSUME NEW path, NEW tr \in Seq(Mark), NEW m \in Mark
  PROVE  /\ Replay(path, <<>>) = path
         /\ Replay(path, Append(tr, m)) = Replayed(Replay(path, tr), m)
  <1> DEFINE t == Append(tr, m)
             n == Len(tr)
  <1>1. n \in Nat /\ Len(t) = n + 1 /\ t[n + 1] = m /\ \A i \in 1..n : t[i] = tr[i]
    BY AppendFacts, SeqFacts
  <1>2. Replay(path, <<>>) = path
    <2>1. Len(<<>>) = 0
      BY EmptySeq
    <2>2. PICK g : Runs(path, <<>>, 0, g) /\ Replay(path, <<>>) = g[0]
      BY <2>1, ReplayRuns
    <2>3. 0 \in 0..0
      OBVIOUS
    <2> QED
      BY <2>2, <2>3 DEF Runs
  <1> HIDE DEF t, n
  <1>3. PICK g : Runs(path, tr, n, g) /\ Replay(path, tr) = g[n]
    BY <1>1, ReplayRuns DEF n
  <1>4. PICK h : Runs(path, t, n + 1, h) /\ Replay(path, t) = h[n + 1]
    BY <1>1, ReplayRuns
  <1>5. g[n] = h[n]
    <2>1. n + 1 \in Nat /\ n <= n + 1
      BY <1>1
    <2>2. \A i \in 1..n : tr[i] = t[i]
      BY <1>1
    <2>3. Runs(path, tr, n, g) /\ Runs(path, t, n + 1, h)
      BY <1>3, <1>4
    <2> QED
      BY ONLY <1>1, <2>1, <2>2, <2>3, RunsAgree
  <1>6. h[n + 1] = Replayed(h[n], t[n + 1])
    <2> DEFINE k == n + 1
    <2>1. k \in 0..k /\ k # 0 /\ k - 1 = n
      BY <1>1
    <2>2. Runs(path, t, k, h)
      BY <1>4
    <2> HIDE DEF k
    <2>3. \A i \in 0..k : h[i] = IF i = 0 THEN path ELSE Replayed(h[i - 1], t[i])
      BY ONLY <2>2 DEF Runs
    <2>4. h[k] = Replayed(h[k - 1], t[k])
      BY ONLY <2>1, <2>3
    <2> QED
      BY <2>1, <2>4 DEF k
  <1> QED
    BY <1>1, <1>2, <1>3, <1>4, <1>5, <1>6 DEF t
(* The path the cycle starts from, and where the trace leads.              *)
Origin == IF initialized THEN States(stack) ELSE <<>>

Replays(s, tr) == Replay(Origin, tr) = States(s)

(* The states of a stack.                                                  *)
LEMMA StatesFacts ==
  ASSUME NEW s \in Seq(Frame)
  PROVE  /\ States(s) \in Seq(State) /\ Len(States(s)) = Len(s)
         /\ \A i \in 1..Len(s) : States(s)[i] = s[i].state
         /\ s # <<>> => States(s) # <<>> /\ Last(States(s)) = Top(s).state
  <1> DEFINE p == States(s)
  <1>1. Len(s) \in Nat /\ \A i \in 1..Len(s) : s[i] \in Frame
    BY SeqFacts
  <1>2. \A i \in 1..Len(s) : s[i].state \in State
    BY <1>1 DEF Frame
  <1>3. p = [i \in 1..Len(s) |-> s[i].state]
    BY DEF States
  <1> HIDE DEF p
  <1>4. p \in Seq(State)
    BY <1>1, <1>2, <1>3, SeqDef
  <1>5. Len(p) = Len(s) /\ \A i \in 1..Len(s) : p[i] = s[i].state
    BY <1>1, <1>3, <1>4, LenProperties
  <1>6. s # <<>> => p # <<>> /\ Len(s) \in 1..Len(s)
    BY <1>4, <1>5, SeqFacts
  <1>7. s # <<>> => Last(p) = Top(s).state
    BY <1>5, <1>6 DEF Last, Top
  <1> QED
    BY <1>4, <1>5, <1>6, <1>7 DEF p

(* Frames with the same states have the same path.                         *)
LEMMA SameStates ==
  ASSUME NEW s \in Seq(Frame), NEW r \in Seq(Frame), Len(r) = Len(s),
         \A i \in 1..Len(s) : r[i].state = s[i].state
  PROVE  States(r) = States(s)
  <1>1. /\ States(s) \in Seq(State) /\ States(r) \in Seq(State)
        /\ Len(States(s)) = Len(s) /\ Len(States(r)) = Len(s)
        /\ \A i \in 1..Len(s) : States(s)[i] = s[i].state /\ States(r)[i] = r[i].state
    BY StatesFacts
  <1> QED
    BY <1>1, SeqEqual

(* What each kind of mark does to the path.                                *)
LEMMA EnterReplays ==
  ASSUME NEW s \in Seq(Frame), NEW tr \in Seq(Mark), NEW f \in Frame, Replays(s, tr)
  PROVE  Replays(Append(s, f), Append(tr, <<"enter", f.state>>))
  <1> DEFINE m == <<"enter", f.state>>
             r == Append(s, f)
             p == States(s)
  <1>1. f.state \in State
    BY DEF Frame
  <1>2. m \in Mark /\ m[1] = "enter" /\ m[2] = f.state
    BY <1>1 DEF Mark
  <1>3. Replayed(p, m) = Append(p, f.state)
    BY <1>2 DEF Replayed
  <1>4. /\ r \in Seq(Frame) /\ Len(r) = Len(s) + 1 /\ r[Len(s) + 1] = f /\ Len(s) \in Nat
        /\ \A i \in 1..Len(s) : r[i] = s[i]
    BY AppendFacts, SeqFacts
  <1> HIDE DEF m, r, p
  <1>5. /\ p \in Seq(State) /\ Len(p) = Len(s) /\ \A i \in 1..Len(s) : p[i] = s[i].state
        /\ States(r) \in Seq(State) /\ Len(States(r)) = Len(r)
        /\ \A i \in 1..Len(r) : States(r)[i] = r[i].state
    BY <1>4, StatesFacts DEF p
  <1>6. /\ Append(p, f.state) \in Seq(State) /\ Len(Append(p, f.state)) = Len(s) + 1
        /\ \A i \in 1..Len(s) : Append(p, f.state)[i] = p[i]
        /\ Append(p, f.state)[Len(s) + 1] = f.state
    BY <1>1, <1>5, AppendFacts
  <1>7. \A i \in 1..(Len(s) + 1) : States(r)[i] = Append(p, f.state)[i]
    <2> TAKE i \in 1..(Len(s) + 1)
    <2>1. CASE i = Len(s) + 1
      BY <1>4, <1>5, <1>6, <2>1
    <2>2. CASE i # Len(s) + 1
      <3>1. i \in 1..Len(s) /\ i \in 1..Len(r)
        BY <1>4, <2>2
      <3> QED
        BY <1>4, <1>5, <1>6, <3>1
    <2> QED
      BY <2>1, <2>2
  <1>8. States(r) = Append(p, f.state)
    BY <1>4, <1>5, <1>6, <1>7, SeqEqual
  <1>9. Replay(Origin, Append(tr, m)) = Replayed(p, m)
    BY <1>2, ReplayGrows DEF Replays, p
  <1> QED
    BY <1>3, <1>8, <1>9 DEF Replays, r, m

(* A plain before block in the innermost state.                            *)
LEMMA BeforeReplays ==
  ASSUME NEW s \in Seq(Frame), NEW tr \in Seq(Mark), s # <<>>, Replays(s, tr)
  PROVE  Replays(s, Append(tr, <<"before", Top(s).state>>))
  <1> DEFINE m == <<"before", Top(s).state>>
             p == States(s)
  <1>1. p # <<>> /\ Last(p) = Top(s).state /\ Top(s).state \in State
    BY StatesFacts, TopFacts
  <1>2. m \in Mark /\ m[1] = "before" /\ m[2] = Top(s).state
    BY <1>1 DEF Mark
  <1> HIDE DEF m, p
  <1>3. Replayed(p, m) = p
    BY <1>1, <1>2 DEF Replayed
  <1>4. Replay(Origin, Append(tr, m)) = Replayed(p, m)
    BY <1>2, ReplayGrows DEF Replays, p
  <1> QED
    BY <1>3, <1>4 DEF Replays, p, m

(* An exit of the innermost state.                                         *)
LEMMA ExitReplays ==
  ASSUME NEW s \in Seq(Frame), NEW tr \in Seq(Mark), s # <<>>, Replays(s, tr)
  PROVE  Replays(Pop(s), Append(tr, <<"exit", Top(s).state>>))
  <1> DEFINE m == <<"exit", Top(s).state>>
             p == States(s)
             l == Pop(s)
  <1>1. p \in Seq(State) /\ p # <<>> /\ Last(p) = Top(s).state /\ Top(s).state \in State
    BY StatesFacts, TopFacts
  <1>2. m \in Mark /\ m[1] = "exit" /\ m[2] = Top(s).state
    BY <1>1 DEF Mark
  <1>3. Len(p) = Len(s) /\ \A i \in 1..Len(s) : p[i] = s[i].state
    BY StatesFacts
  <1>4. /\ l \in Seq(Frame) /\ Len(l) = Len(s) - 1 /\ \A i \in 1..(Len(s) - 1) : l[i] = s[i]
    BY PopFacts
  <1> HIDE DEF m, p, l
  <1>5. Replayed(p, m) = Pop(p)
    BY <1>1, <1>2 DEF Replayed, Front, Pop
  <1>6. /\ Pop(p) \in Seq(State) /\ Len(Pop(p)) = Len(s) - 1
        /\ \A i \in 1..(Len(s) - 1) : Pop(p)[i] = p[i]
    BY <1>1, <1>3, PopFacts
  <1>7. /\ States(l) \in Seq(State) /\ Len(States(l)) = Len(l)
        /\ \A i \in 1..Len(l) : States(l)[i] = l[i].state
    BY <1>4, StatesFacts
  <1>8. Len(s) \in Nat /\ \A i \in 1..(Len(s) - 1) : i \in 1..Len(s)
    BY SeqFacts
  <1>9. States(l) = Pop(p)
    BY <1>3, <1>4, <1>6, <1>7, <1>8, SeqEqual
  <1>10. Replay(Origin, Append(tr, m)) = Replayed(p, m)
    BY <1>2, ReplayGrows DEF Replays, p
  <1> QED
    BY <1>5, <1>9, <1>10 DEF Replays, l, m

-------------------------------------------------------------------------------
(* Operations on contexts and the trace.                                   *)

(* What an operation on c adds to the trace tr.                            *)
Sum(tr, c) == tr \o c.trace

(* Appending after concatenating.                                          *)
LEMMA ConcatAppend ==
  ASSUME NEW S, NEW s \in Seq(S), NEW t \in Seq(S), NEW x \in S
  PROVE  s \o Append(t, x) = Append(s \o t, x)
  OBVIOUS

(* The sum is a trace, and a mark noted on c is appended to it.            *)
LEMMA SumFacts ==
  ASSUME NEW tr \in Seq(Mark), NEW c \in Contexts
  PROVE  /\ Sum(tr, c) \in Seq(Mark)
         /\ \A k \in {"enter", "exit", "before"}, s \in State :
              /\ <<k, s>> \in Mark
              /\ tr \o Noted(c, k, s) = Append(Sum(tr, c), <<k, s>>)
  <1>1. c.trace \in Seq(Mark)
    BY ContextFacts
  <1>2. Sum(tr, c) \in Seq(Mark)
    BY <1>1, ConcatProperties DEF Sum
  <1>3. ASSUME NEW k \in {"enter", "exit", "before"}, NEW s \in State
        PROVE  <<k, s>> \in Mark /\ tr \o Noted(c, k, s) = Append(Sum(tr, c), <<k, s>>)
    <2> DEFINE m == <<k, s>>
    <2>1. m \in Mark
      BY DEF Mark
    <2> HIDE DEF m
    <2>2. tr \o Append(c.trace, m) = Append(tr \o c.trace, m)
      BY <1>1, <2>1, ConcatAppend
    <2> QED
      BY <2>1, <2>2 DEF Noted, Sum, m
  <1> QED
    BY <1>2, <1>3

(* A mark that is no plain before block may follow a settled trace, and    *)
(* settles it.                                                             *)
LEMMA ClosedFacts ==
  ASSUME NEW tr \in Seq(Mark), NEW m \in Mark
  PROVE  /\ Closed(tr) => Admits(tr, m)
         /\ m[1] # "before" => Closed(Append(tr, m))
         /\ Append(tr, m) # <<>> /\ Append(tr, m)[Len(Append(tr, m))] = m
  <1>1. /\ Append(tr, m) # <<>> /\ Append(tr, m)[Len(Append(tr, m))] = m
    BY AppendFacts
  <1> QED
    BY <1>1 DEF Closed, Admits, Follows

(* What a context and the trace so far promise together.                   *)
Sound(tr, c) ==
  /\ Orderly(Sum(tr, c))
  /\ Accounts(c.stack, Sum(tr, c))
  /\ Replays(c.stack, Sum(tr, c))

(* Entering a state that is ready to be entered.                           *)
LEMMA EnterSound ==
  ASSUME machine \in Machine, NEW tr \in Seq(Mark), NEW c \in Contexts, NEW x \in State,
         NEW d \in BOOLEAN, Ready(c.stack, x, d), Sound(tr, c),
         Admits(Sum(tr, c), <<"enter", x>>)
  PROVE  LET e == EnterState(c, x)
         IN  Sound(tr, e) /\ Closed(Sum(tr, e))
  <1> DEFINE e == EnterState(c, x)
             s == c.stack
             u == Sum(tr, c)
             m == <<"enter", x>>
  <1>1. s \in Seq(Frame) /\ u \in Seq(Mark) /\ m \in Mark /\ e \in Contexts
    BY ContextFacts, SumFacts, EnterFacts
  <1>2. Sum(tr, e) = Append(u, m)
    <2>1. e.trace = Noted(c, "enter", x)
      BY DEF EnterState
    <2> HIDE DEF e
    <2> QED
      BY <2>1, SumFacts DEF Sum
  <1>3. PICK q \in Mode : /\ e.stack = Append(s, [state |-> x, mode |-> q, pending |-> x \in Composite])
                          /\ q = "init_wait" <=> x \in Composite
    BY EnterFacts
  <1> DEFINE f == [state |-> x, mode |-> q, pending |-> x \in Composite]
  <1>4. f \in Frame /\ f.state = x /\ (f.pending <=> x \in Composite)
    <2>1. \A b \in BOOLEAN : LET g == [state |-> x, mode |-> q, pending |-> b]
                              IN  g \in Frame /\ g.state = x /\ (g.pending <=> b)
      BY Zenon DEF Frame
    <2>2. (x \in Composite) \in BOOLEAN
      OBVIOUS
    <2> QED
      BY <2>1, <2>2, Zenon
  <1>5. e.stack = Append(s, f) /\ e.stack \in Seq(Frame)
    BY <1>1, <1>3, ContextFacts
  <1>6. IsPath(States(e.stack))
    BY EnterShaped DEF Shaped
  <1>7. m[1] = "enter" /\ m[2] = x
    OBVIOUS
  <1> HIDE DEF e, f, m, u, s
  <1>8. Len(e.stack) = Len(s) + 1 /\ e.stack[Len(s) + 1] = f /\ Len(s) \in Nat
        /\ \A i \in 1..Len(s) : e.stack[i] = s[i]
    BY <1>1, <1>4, <1>5, AppendFacts, SeqFacts
  <1>9. \A i \in 1..Len(s) : s[i].state # x
    <2> TAKE i \in 1..Len(s)
    <2>1. i \in 1..Len(e.stack) /\ Len(s) + 1 \in 1..Len(e.stack) /\ i < Len(s) + 1
      BY <1>8
    <2>2. e.stack[i].state # e.stack[Len(s) + 1].state
      BY <1>5, <1>6, <2>1, PathDistinct
    <2> QED
      BY <1>4, <1>8, <2>2
  <1>10. Prepared(u, Len(u), x)
    <2> SUFFICES ASSUME x # Root, x \notin Pseudo, Entered(u, Parent[x])
                 PROVE  Begun(u, Parent[x])
      BY DEF Prepared, Entered, Begun
    <2>1. s # <<>> /\ x \in Children(Top(s).state)
      BY DEF Ready, s
    <2>2. Parent[x] = Top(s).state /\ Top(s).state \in Composite
      BY <1>1, <2>1, TopFacts, ChildFacts DEF Composite
    <2>3. Len(s) \in 1..Len(s) /\ Top(s) = s[Len(s)]
      BY <1>1, <2>1, SeqFacts DEF Top
    <2>4. ~Top(s).pending
      BY <2>3, Zenon DEF Ready, s
    <2>5. Top(s).mode # "post_child_exit"
      BY <2>3 DEF Ready, s
    <2>6. Accounted(Top(s), u)
      BY <2>3 DEF Sound, Accounts, s, u
    <2> QED
      BY <2>2, <2>4, <2>5, <2>6, Zenon DEF Accounted
  <1>11. Orderly(Append(u, m))
    <2>1. InOrder(u, Len(u), m)
      BY <1>7, <1>10 DEF InOrder
    <2> QED
      BY <1>1, <2>1, OrderlyGrows DEF Sound, u, m
  <1>12. Accounts(s, Append(u, m))
    BY <1>1, <1>7, <1>9, OtherMark DEF Sound, s, u
  <1>13. Accounted(f, Append(u, m))
    <2>1. Entered(Append(u, m), x)
      BY <1>1, LatestMark DEF m
    <2>2. ~Begun(Append(u, m), x)
      <3>1. m # <<"before", x>>
        BY <1>7
      <3> QED
        BY <1>1, <3>1, LatestMark DEF m
    <2> QED
      BY <1>4, <2>1, <2>2, Zenon DEF Accounted
  <1>14. Accounts(e.stack, Append(u, m))
    <2> SUFFICES ASSUME NEW i \in 1..(Len(s) + 1) PROVE Accounted(e.stack[i], Append(u, m))
      BY <1>8 DEF Accounts
    <2>1. CASE i = Len(s) + 1
      BY <1>8, <1>13, <2>1
    <2>2. CASE i # Len(s) + 1
      <3>1. i \in 1..Len(s)
        BY <1>8, <2>2
      <3> QED
        BY <1>8, <1>12, <3>1 DEF Accounts
    <2> QED
      BY <2>1, <2>2
  <1>15. Closed(Append(u, m))
    BY <1>1, <1>7, ClosedFacts
  <1>16. Replays(e.stack, Append(u, m))
    BY <1>1, <1>4, <1>5, EnterReplays DEF Sound, s, u, m
  <1> QED
    BY <1>2, <1>11, <1>14, <1>15, <1>16 DEF Sound, e

(* Routing: the plain before block is noted once, for a child that is not  *)
(* a pseudo state, and then only that child may be entered.                *)
LEMMA RouteSound ==
  ASSUME machine \in Machine, NEW tr \in Seq(Mark), NEW c \in Contexts, c.stack # <<>>,
         IsPath(States(c.stack)), NEW t \in Children(Top(c.stack).state),
         Sound(tr, c), Closed(Sum(tr, c))
  PROVE  LET r == Route(c, t)
         IN  Sound(tr, r) /\ Admits(Sum(tr, r), <<"enter", t>>)
  <1> DEFINE s == c.stack
             u == Sum(tr, c)
             p == Top(s).state
             q == SetTop(s, "pending", FALSE)
             m == <<"before", p>>
             e == <<"enter", t>>
             r == Route(c, t)
  <1>1. /\ s \in Seq(Frame) /\ s # <<>> /\ u \in Seq(Mark)
        /\ p \in State /\ t \in State /\ Parent[t] = p
        /\ IsPath(States(s)) /\ Accounts(s, u) /\ Orderly(u) /\ Closed(u) /\ Replays(s, u)
    BY ContextFacts, SumFacts, TopFacts, ChildFacts DEF Sound
  <1>2. m \in Mark /\ e \in Mark /\ m[1] = "before" /\ m[2] = p /\ e[1] = "enter" /\ e[2] = t
    BY <1>1 DEF Mark
  <1>3. CASE t \in Pseudo \/ ~Top(s).pending
    <2>1. r = c
      BY <1>3 DEF Route, ConsumeBefore
    <2> HIDE DEF r, e, u
    <2>2. Admits(u, e)
      BY <1>1, <1>2, ClosedFacts
    <2> QED
      BY <2>1, <2>2 DEF r, e, u
  <1>4. CASE t \notin Pseudo /\ Top(s).pending
    <2>1. r = [stack |-> q, value |-> machine.before[p][c.value], trace |-> Noted(c, "before", p)]
      BY <1>4 DEF Route, ConsumeBefore
    <2>2. r.stack = q /\ r.trace = Noted(c, "before", p)
      BY <2>1
    <2> HIDE DEF r
    <2>3. Sum(tr, r) = Append(u, m)
      <3>1. "before" \in {"enter", "exit", "before"}
        OBVIOUS
      <3>2. tr \o Noted(c, "before", p) = Append(u, m)
        BY <1>1, <3>1, SumFacts
      <3> QED
        BY <2>2, <3>2 DEF Sum
    <2>4. /\ q \in Seq(Frame)
          /\ Len(q) = Len(s)
          /\ \A i \in 1..(Len(s) - 1) : q[i] = s[i]
          /\ q[Len(s)] = [state |-> p, mode |-> Top(s).mode, pending |-> FALSE]
      BY <1>1, ClearPendingFacts
    <2>5. Len(s) \in Nat /\ Len(s) \in 1..Len(s) /\ Top(s) = s[Len(s)]
      BY <1>1, SeqFacts DEF Top
    <2>6. Accounted(s[Len(s)], u)
      BY <1>1, <2>5 DEF Accounts
    <2>7. s[Len(s)].state = p
      BY <2>5
    <2>8. Entered(u, p) /\ ~Begun(u, p)
      BY <1>4, <2>5, <2>6, <2>7, Zenon DEF Accounted
    <2> HIDE DEF m, u, q, s, p, e
    <2>9. Orderly(Append(u, m))
      <3>1. Admits(u, m)
        BY <1>1, <1>2, ClosedFacts
      <3>2. InOrder(u, Len(u), m)
        BY <1>2, <2>8 DEF InOrder, Entered, Begun
      <3> QED
        BY <1>1, <1>2, <3>1, <3>2, OrderlyGrows
    <2>10. ASSUME NEW i \in 1..Len(s) PROVE Accounted(q[i], Append(u, m))
      <3>1. CASE i = Len(s)
        <4>1. q[i].state = p /\ ~q[i].pending
          BY <2>4, <3>1
        <4>2. Begun(Append(u, m), p)
          BY <1>1, <1>2, LatestMark DEF m
        <4> QED
          BY <4>1, <4>2, Zenon DEF Accounted
      <3>2. CASE i # Len(s)
        <4>1. i \in 1..(Len(s) - 1) /\ i < Len(s)
          BY <2>5, <3>2
        <4>2. s[i].state # p
          BY <1>1, <2>5, <2>7, <4>1, PathDistinct
        <4>3. /\ Entered(Append(u, m), s[i].state) <=> Entered(u, s[i].state)
              /\ Begun(Append(u, m), s[i].state) <=> Begun(u, s[i].state)
          <5>1. m # <<"enter", s[i].state>> /\ m # <<"before", s[i].state>>
            BY <1>2, <4>2
          <5> QED
            BY <1>1, <1>2, <5>1, LatestMark
        <4>4. Accounted(s[i], u) /\ q[i] = s[i]
          BY <1>1, <2>4, <4>1 DEF Accounts
        <4> QED
          BY <4>3, <4>4, Zenon DEF Accounted
      <3> QED
        BY <3>1, <3>2
    <2>11. Accounts(q, Append(u, m))
      BY <2>4, <2>10 DEF Accounts
    <2>12. Admits(Append(u, m), e)
      <3>1. Append(u, m)[Len(Append(u, m))] = m
        BY <1>1, <1>2, ClosedFacts
      <3> QED
        BY <1>1, <1>2, <1>4, <3>1 DEF Admits, Follows
    <2>13. Replays(q, Append(u, m))
      <3>1. \A i \in 1..Len(s) : q[i].state = s[i].state
        <4> TAKE i \in 1..Len(s)
        <4>1. i = Len(s) \/ i \in 1..(Len(s) - 1)
          BY <2>5
        <4> QED
          BY <2>4, <2>7, <4>1
      <3>2. States(q) = States(s)
        BY <1>1, <2>4, <3>1, SameStates
      <3>3. Replays(s, Append(u, m))
        BY <1>1, BeforeReplays DEF m, p
      <3> QED
        BY <3>2, <3>3 DEF Replays
    <2> QED
      BY <2>2, <2>3, <2>9, <2>11, <2>12, <2>13 DEF Sound, r, e
  <1> QED
    BY <1>3, <1>4

(* An initial transition of the committed pass.                            *)
LEMMA InitialSound ==
  ASSUME machine \in Machine, NEW tr \in Seq(Mark), NEW c \in Contexts, c.stack # <<>>,
         NEW d \in BOOLEAN, Shaped(c.stack, d), Waiting(c),
         NEW t \in ToSet(machine.init[Top(c.stack).state]), Sound(tr, c), Closed(Sum(tr, c))
  PROVE  LET e == TakeInitNested(c, t)
         IN  e \in Contexts /\ Sound(tr, e) /\ Closed(Sum(tr, e))
  <1> DEFINE v == t.effect[c.value]
             b == [c EXCEPT !.value = v]
             r == Route(b, t.to)
  <1>1. c.stack \in Seq(Frame) /\ c.value \in Value /\ Top(c.stack).state \in State
    BY ContextFacts, TopFacts
  <1>2. t \in Transition /\ t.to \in Children(Top(c.stack).state) /\ t.to \in State
    BY <1>1, InitFacts, ChildFacts
  <1>3. v \in Value
    BY <1>1, <1>2, EffectFacts
  <1>4. TakeInitNested(c, t) = EnterState(r, t.to)
    BY DEF TakeInitNested
  <1> HIDE DEF v
  <1>5. b \in Contexts /\ b.stack = c.stack /\ b.trace = c.trace
    BY <1>3 DEF Contexts
  <1>6. r \in Contexts /\ r.stack # <<>> /\ Ready(r.stack, t.to, TRUE)
    BY <1>2, <1>3, WaitingRoutes
  <1>7. IsPath(States(c.stack))
    BY DEF Shaped
  <1> HIDE DEF b
  <1>8. Sound(tr, b) /\ Closed(Sum(tr, b))
    BY <1>5 DEF Sound, Sum
  <1>9. Sound(tr, r) /\ Admits(Sum(tr, r), <<"enter", t.to>>)
    BY <1>2, <1>5, <1>7, <1>8, RouteSound
  <1> HIDE DEF r
  <1>10. EnterState(r, t.to) \in Contexts
    BY <1>2, <1>6, EnterFacts
  <1> QED
    BY <1>2, <1>4, <1>6, <1>9, <1>10, EnterSound

(* A descent that ends.                                                    *)
LEMMA SettleSound ==
  ASSUME NEW s \in Seq(Frame), NEW tr, Accounts(s, tr)
  PROVE  Accounts(Settle(s), tr) /\ States(Settle(s)) = States(s)
  <1> DEFINE r == Settle(s)
             f(i) == IF i < Len(s) /\ s[i].mode = "init_wait" THEN [s[i] EXCEPT !.mode = "active"]
                     ELSE s[i]
  <1>1. Len(s) \in Nat /\ \A i \in 1..Len(s) : s[i] \in Frame
    BY SeqFacts
  <1>2. \A i \in 1..Len(s) :
          /\ f(i) \in Frame
          /\ f(i).state = s[i].state /\ f(i).pending = s[i].pending
          /\ f(i).mode = s[i].mode \/ s[i].mode = "init_wait"
    BY <1>1 DEF Frame, Mode
  <1>3. r = [i \in 1..Len(s) |-> f(i)]
    BY DEF Settle
  <1> HIDE DEF r, f
  <1>4. r \in Seq(Frame)
    BY <1>1, <1>2, <1>3, SeqDef
  <1>5. Len(r) = Len(s) /\ Len(r) <= Len(s) /\ \A i \in 1..Len(s) : r[i] = f(i)
    BY <1>1, <1>3, <1>4, LenProperties
  <1>6. \A i \in 1..Len(r) : Inherits(s[i], r[i])
    <2> TAKE i \in 1..Len(r)
    <2>1. /\ r[i].state = s[i].state /\ r[i].pending = s[i].pending
          /\ r[i].mode = s[i].mode \/ s[i].mode = "init_wait"
      BY <1>2, <1>5
    <2>2. r[i].mode # "post_child_exit" => s[i].mode # "post_child_exit"
      BY <2>1
    <2> QED
      BY <2>1, <2>2, Zenon DEF Inherits
  <1>7. Accounts(r, tr)
    BY <1>4, <1>5, <1>6, AccountsKept
  <1>8. States(r) = States(s)
    BY <1>2, <1>4, <1>5, SameStates
  <1> QED
    BY <1>7, <1>8 DEF r

(* A new mode of a leaf on top.                                            *)
LEMMA ModeSound ==
  ASSUME NEW s \in Seq(Frame), s # <<>>, NEW tr, Accounts(s, tr), NEW m \in Mode,
         Top(s).state \in Leaf
  PROVE  Accounts(SetTop(s, "mode", m), tr) /\ States(SetTop(s, "mode", m)) = States(s)
  <1> DEFINE r == SetTop(s, "mode", m)
  <1>1. /\ r \in Seq(Frame)
        /\ Len(r) = Len(s)
        /\ \A i \in 1..(Len(s) - 1) : r[i] = s[i]
        /\ r[Len(s)] = [state |-> Top(s).state, mode |-> m, pending |-> Top(s).pending]
    BY SetModeFacts
  <1> HIDE DEF r
  <1>2. Len(s) \in Nat /\ Len(r) <= Len(s)
    BY <1>1, SeqFacts
  <1>3. ASSUME NEW i \in 1..Len(r) PROVE Inherits(s[i], r[i])
    <2>1. CASE i = Len(s)
      <3>1. r[i].state = s[i].state /\ r[i].pending = s[i].pending /\ r[i].state \notin Composite
        BY <1>1, <2>1 DEF Top, Composite
      <3> QED
        BY <3>1, Zenon DEF Inherits
    <2>2. CASE i # Len(s)
      <3>1. r[i] = s[i]
        BY <1>1, <1>2, <2>2
      <3> QED
        BY <3>1, Zenon DEF Inherits
    <2> QED
      BY <2>1, <2>2
  <1>4. Accounts(r, tr)
    BY <1>1, <1>2, <1>3, AccountsKept
  <1>5. States(r) = States(s)
    <2>1. \A i \in 1..Len(s) : r[i].state = s[i].state
      BY <1>1, <1>3 DEF Inherits
    <2> QED
      BY <1>1, <2>1, SameStates
  <1> QED
    BY <1>4, <1>5 DEF r

(* The exit of a state is noted, and its frame is gone.                    *)
LEMMA LeftSound ==
  ASSUME machine \in Machine, NEW tr \in Seq(Mark), NEW c \in Contexts, c.stack # <<>>,
         Shaped(c.stack, FALSE), ~Waiting(c), NEW t \in ToSet(machine.out[Top(c.stack).state]),
         Sound(tr, c), Closed(Sum(tr, c))
  PROVE  Sound(tr, Left(c, t)) /\ Closed(Sum(tr, Left(c, t)))
  <1> DEFINE s == c.stack
             source == Top(s).state
             left == Left(c, t)
             l == left.stack
             u == Sum(tr, c)
             m == <<"exit", source>>
  <1>1. /\ left \in Contexts /\ source \in State
        /\ Len(l) = Len(s) - 1 /\ \A i \in 1..Len(l) : l[i] = s[i]
    BY LeftFacts
  <1>2. s \in Seq(Frame) /\ l \in Seq(Frame) /\ u \in Seq(Mark)
    BY <1>1, ContextFacts, SumFacts
  <1>3. Accounts(s, u) /\ Orderly(u) /\ Closed(u) /\ Replays(s, u)
    BY DEF Sound
  <1>4. m \in Mark /\ m[1] = "exit"
    BY <1>1 DEF Mark
  <1>5. Sum(tr, left) = Append(u, m)
    <2>1. left.trace = Noted(c, "exit", source)
      BY DEF Left
    <2>2. "exit" \in {"enter", "exit", "before"}
      OBVIOUS
    <2>3. tr \o Noted(c, "exit", source) = Append(u, m)
      BY <1>1, <2>2, SumFacts
    <2> QED
      BY <2>1, <2>3 DEF Sum
  <1>a. Replays(l, Append(u, m))
    <2>1. l = Pop(s)
      BY DEF Left
    <2> HIDE DEF l, u
    <2> QED
      BY <1>2, <1>3, <2>1, ExitReplays
  <1> HIDE DEF s, source, left, l, u, m
  <1>6. Accounts(l, u)
    <2>1. Len(s) \in Nat /\ Len(l) <= Len(s)
      BY <1>1, <1>2, SeqFacts
    <2>2. \A i \in 1..Len(l) : Inherits(s[i], l[i])
      BY <1>1, Zenon DEF Inherits
    <2> QED
      BY <1>2, <1>3, <2>1, <2>2, AccountsKept
  <1>7. Accounts(l, Append(u, m))
    BY <1>2, <1>4, <1>6, OtherMark
  <1>8. Orderly(Append(u, m))
    <2>1. Admits(u, m) /\ InOrder(u, Len(u), m)
      BY <1>2, <1>3, <1>4, ClosedFacts DEF InOrder
    <2> QED
      BY <1>2, <1>3, <1>4, <2>1, OrderlyGrows
  <1>9. Closed(Append(u, m))
    BY <1>2, <1>4, ClosedFacts
  <1> QED
    BY <1>5, <1>7, <1>8, <1>9, <1>a DEF Sound, left, l

(* The parent of what was left through [*] owes no block any more.         *)
LEMMA FinalizeSound ==
  ASSUME machine \in Machine, NEW tr \in Seq(Mark), NEW b \in Contexts, NEW source,
         IsPath(States(b.stack)),
         \A i \in 1..Len(b.stack) : b.stack[i].mode = "active",
         \A i \in 1..Len(b.stack) : b.stack[i].pending => i = Len(b.stack) /\ source \in Pseudo,
         Sound(tr, b), Closed(Sum(tr, b))
  PROVE  LET e == FinalizeExit(ClearBefore(b, source))
         IN  Sound(tr, e) /\ Closed(Sum(tr, e))
  <1> DEFINE c == ClearBefore(b, source)
             s == b.stack
             k == c.stack
             e == FinalizeExit(c)
             u == Sum(tr, b)
  <1>1. c \in Contexts /\ Calm(k)
    BY ClearCalm
  <1>2. s \in Seq(Frame) /\ k \in Seq(Frame) /\ u \in Seq(Mark)
    BY <1>1, ContextFacts, SumFacts
  <1>3. Accounts(s, u) /\ Orderly(u) /\ Closed(u) /\ Replays(s, u)
    BY DEF Sound
  <1>4. /\ c.trace = b.trace /\ Len(k) = Len(s)
        /\ s # <<>> => Top(k).state = Top(s).state
        /\ \A i \in 1..(Len(s) - 1) : k[i] = s[i]
    <2>1. CASE source \in Pseudo /\ s # <<>>
      <3> DEFINE r == SetTop(s, "pending", FALSE)
      <3>1. c = [b EXCEPT !.stack = r]
        BY <2>1 DEF ClearBefore
      <3>2. /\ r \in Seq(Frame) /\ Len(r) = Len(s)
            /\ \A i \in 1..(Len(s) - 1) : r[i] = s[i]
            /\ r[Len(s)] = [state |-> Top(s).state, mode |-> Top(s).mode, pending |-> FALSE]
        BY <1>2, <2>1, ClearPendingFacts
      <3> HIDE DEF r, c
      <3>3. c.trace = b.trace /\ c.stack = r
        BY <3>1 DEF Contexts
      <3> QED
        BY <3>2, <3>3 DEF Top
    <2>2. CASE ~(source \in Pseudo /\ s # <<>>)
      BY <2>2 DEF ClearBefore
    <2> QED
      BY <2>1, <2>2
  <1>b. States(k) = States(s)
    <2>1. Len(s) \in Nat /\ (Len(s) > 0 => s # <<>> /\ k # <<>>)
      BY <1>2, <1>4, SeqFacts
    <2>2. ASSUME NEW i \in 1..Len(s) PROVE k[i].state = s[i].state
      <3>1. CASE i = Len(s)
        BY <1>4, <2>1, <3>1 DEF Top
      <3>2. CASE i # Len(s)
        <4>1. i \in 1..(Len(s) - 1)
          BY <2>1, <3>2
        <4> QED
          BY <1>4, <4>1
      <3> QED
        BY <3>1, <3>2
    <2> HIDE DEF s, k
    <2> QED
      BY <1>2, <1>4, <2>2, SameStates
  <1>c. Replays(k, u)
    BY <1>3, <1>b DEF Replays
  <1>5. Sum(tr, c) = u
    BY <1>4 DEF Sum
  <1>6. CASE k = <<>>
    <2>1. e = c
      BY <1>6 DEF FinalizeExit
    <2>2. Len(s) = 0 /\ Len(k) = 0
      BY <1>4, <1>6, EmptySeq
    <2>3. Accounts(k, u)
      BY <2>2 DEF Accounts
    <2> QED
      BY <1>3, <1>5, <1>c, <2>1, <2>3 DEF Sound
  <1>7. CASE k # <<>> /\ Top(k).state = Root
    <2> DEFINE m == <<"exit", Root>>
    <2>1. e.stack = <<>> /\ e.trace = Noted(c, "exit", Root)
      BY <1>7 DEF FinalizeExit
    <2>2. Root \in State /\ "exit" \in {"enter", "exit", "before"}
      BY TreeAssumption
    <2>3. tr \o Noted(c, "exit", Root) = Append(u, m)
      BY <1>1, <1>5, <2>2, SumFacts
    <2>4. m \in Mark /\ m[1] = "exit"
      BY <2>2 DEF Mark
    <2>8. Pop(k) = <<>>
      <3> DEFINE n == Len(k)
      <3>1. \A i \in 2..n : k[i].state # Root
        BY <1>1, <1>2, PathFacts DEF Calm
      <3>2. n \in Nat /\ n > 0
        BY <1>2, <1>7, SeqFacts
      <3>3. k[n].state = Root
        BY <1>7 DEF Top
      <3>4. n = 1
        <4> HIDE DEF n, k
        <4> QED
          BY <3>1, <3>2, <3>3
      <3>5. Pop(k) \in Seq(Frame) /\ Len(Pop(k)) = 0
        BY <1>2, <1>7, <3>4, PopFacts
      <3> HIDE DEF k
      <3> QED
        BY <3>5, SeqFacts
    <2>9. Replays(<<>>, Append(u, m))
      <3>1. Top(k).state = Root
        BY <1>7
      <3> HIDE DEF k, u
      <3> QED
        BY <1>2, <1>7, <1>c, <2>8, <3>1, ExitReplays
    <2> HIDE DEF e, m, u, s, c, k
    <2>5. Sum(tr, e) = Append(u, m)
      BY <2>1, <2>3 DEF Sum
    <2>6. Orderly(Append(u, m)) /\ Closed(Append(u, m))
      <3>1. Admits(u, m) /\ InOrder(u, Len(u), m)
        BY <1>2, <1>3, <2>4, ClosedFacts DEF InOrder
      <3> QED
        BY <1>2, <1>3, <2>4, <3>1, OrderlyGrows, ClosedFacts
    <2>7. Accounts(<<>>, Append(u, m))
      BY EmptySeq DEF Accounts
    <2> QED
      BY <2>1, <2>5, <2>6, <2>7, <2>9 DEF Sound, e, c
  <1>8. CASE k # <<>> /\ Top(k).state # Root
    <2> DEFINE r == SetTop(k, "mode", "post_child_exit")
    <2>1. e = [c EXCEPT !.stack = r, !.value = machine.after[Top(k).state][c.value]]
      BY <1>8 DEF FinalizeExit
    <2>2. /\ r \in Seq(Frame) /\ Len(r) = Len(k)
          /\ \A i \in 1..(Len(k) - 1) : r[i] = k[i]
          /\ r[Len(k)] = [state |-> Top(k).state, mode |-> "post_child_exit", pending |-> Top(k).pending]
      BY <1>2, <1>8, SetModeFacts DEF Mode
    <2> HIDE DEF r
    <2>3. e.stack = r /\ e.trace = c.trace
      <3>1. c \in Contexts
        BY <1>1
      <3> HIDE DEF c, k
      <3> QED
        BY <2>1, <3>1 DEF Contexts
    <2>4. Len(k) \in Nat /\ Len(k) \in 1..Len(k) /\ s # <<>>
      BY <1>2, <1>4, <1>8, SeqFacts
    <2>5. ASSUME NEW i \in 1..Len(r) PROVE Inherits(s[i], r[i])
      <3>1. CASE i = Len(k)
        <4>1. ~Top(k).pending
          BY <1>1, <2>4, Zenon DEF Calm, Top
        <4>2. r[i].state = s[i].state /\ r[i].mode = "post_child_exit" /\ r[i].pending = Top(k).pending
          BY <1>4, <2>2, <2>4, <3>1 DEF Top
        <4> QED
          BY <4>1, <4>2, Zenon DEF Inherits
      <3>2. CASE i # Len(k)
        <4>1. i \in 1..(Len(k) - 1)
          BY <2>2, <2>4, <3>2
        <4>2. r[i] = s[i]
          BY <1>4, <2>2, <4>1
        <4> QED
          BY <4>2, Zenon DEF Inherits
      <3> QED
        BY <3>1, <3>2
    <2>6. Accounts(r, u)
      <3>1. Len(r) <= Len(s)
        BY <1>4, <2>2, <2>4
      <3> HIDE DEF s, u, c, k
      <3> QED
        BY <1>2, <1>3, <2>2, <2>5, <3>1, AccountsKept
    <2>7. Sum(tr, e) = u
      BY <1>5, <2>3 DEF Sum
    <2>8. Replays(r, u)
      <3>1. \A i \in 1..Len(k) : r[i].state = k[i].state
        <4> TAKE i \in 1..Len(k)
        <4>1. i = Len(k) \/ i \in 1..(Len(k) - 1)
          BY <2>4
        <4> QED
          BY <2>2, <4>1 DEF Top
      <3> HIDE DEF k
      <3>2. States(r) = States(k)
        BY <1>2, <2>2, <3>1, SameStates
      <3> QED
        BY <1>c, <3>2 DEF Replays
    <2> QED
      BY <1>3, <2>3, <2>6, <2>7, <2>8 DEF Sound
  <1> QED
    BY <1>6, <1>7, <1>8

(* Any other transition.                                                   *)
LEMMA TakeOutSound ==
  ASSUME machine \in Machine, NEW tr \in Seq(Mark), NEW c \in Contexts, c.stack # <<>>,
         Shaped(c.stack, FALSE), ~Waiting(c), NEW t \in ToSet(machine.out[Top(c.stack).state]),
         Sound(tr, c), Closed(Sum(tr, c))
  PROVE  Sound(tr, TakeOut(c, t)) /\ Closed(Sum(tr, TakeOut(c, t)))
  <1> DEFINE source == Top(c.stack).state
             left == Left(c, t)
             routed == Routed(c, t)
  <1>1. left \in Contexts /\ Sound(tr, left) /\ Closed(Sum(tr, left))
    BY LeftFacts, LeftSound
  <1>2. CASE t.to = Exit
    <2>1. TakeOut(c, t) = FinalizeExit(ClearBefore(left, source))
      BY <1>2, LeftFacts
    <2>2. /\ IsPath(States(left.stack))
          /\ \A i \in 1..Len(left.stack) : left.stack[i].mode = "active"
          /\ \A i \in 1..Len(left.stack) : left.stack[i].pending => i = Len(left.stack) /\ source \in Pseudo
      BY LeftFacts
    <2> HIDE DEF left, source
    <2> QED
      BY <1>1, <2>1, <2>2, FinalizeSound
  <1>3. CASE t.to # Exit
    <2>1. /\ TakeOut(c, t) = EnterState(routed, t.to)
          /\ t.to \in State /\ routed \in Contexts /\ Ready(routed.stack, t.to, FALSE)
          /\ left.stack # <<>> /\ t.to \in Children(Top(left.stack).state)
          /\ IsPath(States(left.stack))
      BY <1>3, LeftFacts
    <2>2. <<"enter", t.to>> \in Mark
      BY <2>1 DEF Mark
    <2>3. Sum(tr, left) \in Seq(Mark)
      BY <1>1, SumFacts
    <2>4. routed = IF source \in Pseudo THEN Route(left, t.to) ELSE left
      BY <2>1 DEF Routed
    <2> HIDE DEF left, source, routed
    <2>5. Sound(tr, routed) /\ Admits(Sum(tr, routed), <<"enter", t.to>>)
      <3>1. CASE source \in Pseudo
        BY <1>1, <2>1, <2>4, <3>1, RouteSound
      <3>2. CASE source \notin Pseudo
        BY <1>1, <2>2, <2>3, <2>4, <3>2, ClosedFacts
      <3> QED
        BY <3>1, <3>2
    <2> QED
      BY <2>1, <2>5, EnterSound
  <1> QED
    BY <1>2, <1>3

-------------------------------------------------------------------------------
(* Why PlainBeforeOnce holds: the trace of the committed pass is orderly,  *)
(* accounts for the frames of its clone, and is settled between steps.     *)
BlockInv ==
  /\ Orderly(trace)
  /\ run.trace = <<>>
  /\ \A i \in 1..Len(hot) : ~hot[i].pending
  /\ pass = "committing" => Closed(trace) /\ Accounts(run.stack, trace) /\ Replays(run.stack, trace)

(* No mark at all.                                                         *)
LEMMA EmptyOrderly == Orderly(<<>>) /\ Closed(<<>>) /\ \A x : ~Entered(<<>>, x)
  <1>1. Len(<<>>) = 0
    BY EmptySeq
  <1> QED
    BY <1>1 DEF Orderly, Closed, Entered, EnteredBy

(* The committed pass, as a context that goes on from the trace.           *)
LEMMA CommittingSound ==
  ASSUME IInv, BlockInv, pass = "committing"
  PROVE  /\ machine \in Machine /\ run \in Contexts /\ trace \in Seq(Mark)
         /\ Sound(trace, run) /\ Closed(Sum(trace, run))
  <1>1. machine \in Machine /\ run \in Contexts /\ trace \in Seq(Mark)
    BY DEF IInv, TypeOK
  <1>2. Sum(trace, run) = trace
    BY <1>1, ConcatEmptySeq DEF Sum, BlockInv
  <1> QED
    BY <1>1, <1>2 DEF BlockInv, Sound

(* A pass starts on frames that owe nothing, or enters the root.           *)
LEMMA StartBlocks ==
  ASSUME IInv, BlockInv, ~Ended, StartPass
  PROVE  /\ run'.trace = <<>>
         /\ Orderly(Snapshot.trace) /\ Closed(Snapshot.trace)
         /\ Accounts(run'.stack, Snapshot.trace) /\ Replays(run'.stack, Snapshot.trace)
  <1>1. /\ machine \in Machine /\ stack \in Seq(Frame) /\ value \in Value /\ initialized \in BOOLEAN
        /\ Shaped(stack, FALSE) /\ Rested
    BY DEF IInv, TypeOK
  <1>2. Snapshot \in Contexts
    BY <1>1, SnapshotShaped
  <1>3. run' = Bare(Snapshot)
    BY DEF StartPass
  <1>4. run'.stack = Snapshot.stack /\ run'.trace = <<>>
    BY <1>2, <1>3, ContextFacts DEF Bare, Contexts
  <1>5. CASE initialized
    <2>1. Snapshot.stack = stack /\ Snapshot.trace = <<>>
      BY <1>5 DEF Snapshot, Context
    <2>2. \A i \in 1..Len(stack) : ~stack[i].pending
      <3>1. CASE stack = <<>>
        BY <3>1, EmptySeq
      <3>2. CASE stack = hot
        BY <3>2 DEF BlockInv
      <3>3. CASE IsBoundary(stack)
        BY <3>3, Zenon DEF IsBoundary
      <3> QED
        BY <1>1, <3>1, <3>2, <3>3 DEF Rested
    <2>3. Accounts(stack, <<>>)
      BY <2>2, EmptyOrderly, Zenon DEF Accounts, Accounted
    <2>4. Replays(stack, <<>>)
      <3>1. <<>> \in Seq(Mark) /\ <<"enter", Root>> \in Mark
        BY EmptySeq, TreeAssumption DEF Mark
      <3> QED
        BY <1>5, <3>1, ReplayGrows DEF Replays, Origin
    <2> QED
      BY <1>4, <2>1, <2>3, <2>4, EmptyOrderly
  <1>6. CASE ~initialized
    <2> DEFINE c == Context(<<>>, value)
    <2>1. <<>> \in Seq(Mark) /\ <<>> \in Seq(Frame) /\ Len(<<>>) = 0
      BY EmptySeq
    <2>2. c \in Contexts /\ c.stack = <<>> /\ c.trace = <<>>
      BY <1>1, <2>1 DEF Context, Contexts
    <2>3. Snapshot = EnterState(c, Root)
      BY <1>6 DEF Snapshot
    <2> HIDE DEF c
    <2>4. Sum(<<>>, c) = <<>>
      BY <2>1, <2>2, ConcatEmptySeq DEF Sum
    <2>5. Sum(<<>>, Snapshot) = Snapshot.trace
      BY <1>2, ContextFacts, ConcatEmptySeq DEF Sum
    <2>6. Ready(c.stack, Root, FALSE) /\ Root \in State
      BY <2>1, <2>2, EmptyShaped, TreeAssumption DEF Ready, Shaped
    <2>9. Replays(<<>>, <<>>)
      <3>1. <<"enter", Root>> \in Mark
        BY TreeAssumption DEF Mark
      <3>2. Replay(Origin, <<>>) = <<>>
        BY <1>6, <2>1, <3>1, ReplayGrows DEF Origin
      <3>3. States(<<>>) = <<>>
        <4> DEFINE s == <<>>
        <4>1. s \in Seq(Frame) /\ Len(s) = 0
          BY <2>1
        <4> HIDE DEF s
        <4>2. States(s) \in Seq(State) /\ Len(States(s)) = 0
          BY <4>1, StatesFacts
        <4>3. States(s) = <<>>
          BY <4>2, SeqFacts
        <4> QED
          BY <4>3 DEF s
      <3> QED
        BY <3>2, <3>3 DEF Replays
    <2>7. Sound(<<>>, c) /\ Admits(Sum(<<>>, c), <<"enter", Root>>)
      BY <2>1, <2>2, <2>4, <2>9, EmptyOrderly DEF Sound, Accounts, Admits
    <2>8. Sound(<<>>, Snapshot) /\ Closed(Sum(<<>>, Snapshot))
      BY <1>1, <2>1, <2>2, <2>3, <2>6, <2>7, EnterSound
    <2> QED
      BY <1>4, <2>5, <2>8 DEF Sound
  <1> QED
    BY <1>1, <1>5, <1>6

(* What the actions have in common.                                        *)
LEMMA MoveBlocks ==
  ASSUME IInv, BlockInv, NEW c \in Contexts, Move(c),
         pass = "committing" => Sound(trace, c) /\ Closed(Sum(trace, c))
  PROVE  BlockInv'
  <1>1. /\ run' = Bare(c)
        /\ trace' = IF pass = "committing" THEN Sum(trace, c) ELSE trace
        /\ hot' = hot /\ pass' = pass /\ Origin' = Origin
    BY DEF Move, Sum, public, Origin, States
  <1>2. run'.trace = <<>> /\ run'.stack = c.stack
    BY <1>1, ContextFacts DEF Bare, Contexts
  <1>3. CASE pass = "committing"
    <2>1. trace' = Sum(trace, c)
      BY <1>1, <1>3
    <2>2. Orderly(trace)' /\ Closed(trace)' /\ Accounts(run.stack, trace)'
      BY <1>2, <1>3, <2>1 DEF Sound
    <2>3. Replays(run.stack, trace)'
      BY <1>1, <1>2, <1>3, <2>1 DEF Sound, Replays
    <2> QED
      BY <1>1, <1>2, <2>2, <2>3 DEF BlockInv
  <1>4. CASE pass # "committing"
    <2>1. trace' = trace
      BY <1>1, <1>4
    <2>2. Orderly(trace)'
      BY <2>1 DEF BlockInv
    <2> QED
      BY <1>1, <1>2, <1>4, <2>2 DEF BlockInv
  <1> QED
    BY <1>3, <1>4

(* The trace is dropped with the clone.                                    *)
LEMMA AbandonBlocks ==
  ASSUME BlockInv, NEW how, Abandon(how)
  PROVE  BlockInv'
  <1>1. pass' = "idle" /\ run' = Context(stack, value) /\ trace' = <<>> /\ hot' = hot
    BY DEF Abandon
  <1>2. run'.trace = <<>>
    BY <1>1 DEF Context
  <1>3. Orderly(trace)'
    BY <1>1, EmptyOrderly
  <1> QED
    BY <1>1, <1>2, <1>3 DEF BlockInv

(* The committed pass starts over, or publishes.                           *)
LEMMA FinishBlocks ==
  ASSUME IInv, BlockInv, pass # "idle", NEW c \in Contexts, Finish(c),
         pass = "committing" => Sound(trace, c)
  PROVE  BlockInv'
  <1>1. CASE pass = "validating"
    <2>1. /\ pass' = "committing" /\ StartPass /\ trace' = Snapshot.trace /\ hot' = hot
          /\ Origin' = Origin
      BY <1>1 DEF Finish, public, Origin, States
    <2>2. ~Ended
      BY <1>1 DEF IInv, Running
    <2>3. /\ run'.trace = <<>>
          /\ Orderly(Snapshot.trace) /\ Closed(Snapshot.trace)
          /\ Accounts(run'.stack, Snapshot.trace) /\ Replays(run'.stack, Snapshot.trace)
      BY <2>1, <2>2, StartBlocks
    <2>4. Orderly(trace)' /\ Closed(trace)' /\ Accounts(run.stack, trace)'
      BY <2>1, <2>3
    <2>5. Replays(run.stack, trace)'
      BY <2>1, <2>3 DEF Replays
    <2> QED
      BY <2>1, <2>3, <2>4, <2>5 DEF BlockInv
  <1>2. CASE pass = "committing"
    <2>1. pass' = "idle" /\ run' = Bare(c) /\ trace' = Sum(trace, c) /\ hot' = hot
      BY <1>2 DEF Finish, Sum
    <2>2. run'.trace = <<>>
      BY <2>1 DEF Bare, Contexts
    <2>3. Orderly(trace)'
      BY <1>2, <2>1 DEF Sound
    <2> QED
      BY <2>1, <2>2, <2>3 DEF BlockInv
  <1> QED
    BY <1>1, <1>2 DEF Finish

(* One lemma per action.                                                   *)
LEMMA CallBlocks ==
  ASSUME IInv, BlockInv, Call
  PROVE  BlockInv'
  <1>1. ~Ended /\ StartPass /\ pass' = "validating" /\ trace' = <<>> /\ hot' = hot
    BY DEF Call
  <1>2. run'.trace = <<>>
    BY <1>1, StartBlocks
  <1>3. Orderly(trace)'
    BY <1>1, EmptyOrderly
  <1> QED
    BY <1>1, <1>2, <1>3 DEF BlockInv

(* An initial transition, nested or in the loop.                           *)
LEMMA TakeInitialBlocks ==
  ASSUME IInv, BlockInv, pass # "idle", run.stack # <<>>, Waiting(run),
         NEW t \in ToSet(Candidates(run)), TakeInitial(t)
  PROVE  BlockInv'
  <1> DEFINE e == IF pass = "committing" THEN TakeInitNested(run, t) ELSE TakeInit(run, t)
             r == Settle(e.stack)
             c == IF Descends(t) THEN e ELSE [e EXCEPT !.stack = Settle(@)]
  <1>1. machine \in Machine /\ run \in Contexts /\ nested \in BOOLEAN /\ Shaped(run.stack, nested)
    BY DEF IInv, TypeOK
  <1>2. t \in ToSet(machine.init[Top(run.stack).state])
    BY DEF Candidates
  <1>3. e \in {TakeInit(run, t), TakeInitNested(run, t)}
    OBVIOUS
  <1>4. Move(c)
    BY DEF TakeInitial
  <1>5. pass = "committing" => Sound(trace, e) /\ Closed(Sum(trace, e))
    BY <1>1, <1>2, CommittingSound, InitialSound
  <1> HIDE DEF e
  <1>6. e \in Contexts /\ Shaped(e.stack, TRUE)
    BY <1>1, <1>2, <1>3, TakeInitShaped
  <1>7. e.stack \in Seq(Frame) /\ e.value \in Value
    BY <1>6, ContextFacts
  <1>8. c \in Contexts /\ (pass = "committing" => Sound(trace, c) /\ Closed(Sum(trace, c)))
    <2>1. CASE Descends(t)
      BY <1>5, <1>6, <2>1
    <2>2. CASE ~Descends(t)
      <3>1. r \in Seq(Frame)
        BY <1>6, <1>7, SettleShaped
      <3>2. c = [e EXCEPT !.stack = r]
        BY <2>2
      <3>3. /\ Accounts(e.stack, Sum(trace, e)) => Accounts(r, Sum(trace, e))
            /\ Accounts(e.stack, Sum(trace, e)) => States(r) = States(e.stack)
        BY <1>7, SettleSound
      <3> HIDE DEF c, r
      <3>4. c \in Contexts /\ c.stack = r /\ c.trace = e.trace
        BY ONLY <1>6, <3>1, <3>2 DEF Contexts
      <3>5. Sum(trace, c) = Sum(trace, e)
        BY <3>4 DEF Sum
      <3> QED
        BY <1>5, <3>3, <3>4, <3>5 DEF Sound, Replays
    <2> QED
      BY <2>1, <2>2
  <1> HIDE DEF c
  <1> QED
    BY <1>4, <1>8, MoveBlocks

(* The initial transition of an entered composite.                         *)
LEMMA NestedInitialBlocks ==
  ASSUME IInv, BlockInv, NestedInitial(Selection(run))
  PROVE  BlockInv'
  <1>1. pass # "idle" /\ nested
    BY DEF NestedInitial, Nested
  <1>2. PICK t \in Selection(run).take : TakeInitial(t)
    BY DEF NestedInitial
  <1>3. run.stack # <<>> /\ Waiting(run)
    BY <1>1 DEF IInv, Running
  <1>4. t \in ToSet(Candidates(run))
    BY SelectionFacts
  <1> QED
    BY <1>1, <1>2, <1>3, <1>4, TakeInitialBlocks

(* The initial transition of a waiting composite.                          *)
LEMMA InitializesBlocks ==
  ASSUME IInv, BlockInv, Initializes(Selection(run))
  PROVE  BlockInv'
  <1>1. pass # "idle" /\ Waiting(run)
    BY DEF Initializes, Iterates, Fresh
  <1>2. PICK t \in Selection(run).take : TakeInitial(t)
    BY DEF Initializes
  <1>3. run.stack # <<>>
    BY <1>1 DEF IInv, Running
  <1>4. t \in ToSet(Candidates(run))
    BY SelectionFacts
  <1> QED
    BY <1>1, <1>2, <1>3, <1>4, TakeInitialBlocks

(* A descent that finds no initial transition.                             *)
LEMMA NestedWaitsBlocks ==
  ASSUME IInv, BlockInv, NestedWaits(Selection(run))
  PROVE  BlockInv'
  <1> DEFINE r == Settle(run.stack)
             c == [run EXCEPT !.stack = Settle(@)]
  <1>1. Move(c)
    BY DEF NestedWaits
  <1>2. run \in Contexts /\ nested \in BOOLEAN /\ Shaped(run.stack, nested)
    BY DEF IInv, TypeOK
  <1>3. run.stack \in Seq(Frame)
    BY <1>2, ContextFacts
  <1>4. r \in Seq(Frame)
    BY <1>2, <1>3, SettleShaped
  <1>5. pass = "committing" => Accounts(r, Sum(trace, run)) /\ States(r) = States(run.stack)
    BY <1>3, CommittingSound, SettleSound DEF Sound
  <1>6. c = [run EXCEPT !.stack = r]
    OBVIOUS
  <1> HIDE DEF c, r
  <1>7. c \in Contexts /\ c.stack = r /\ c.trace = run.trace
    BY ONLY <1>2, <1>4, <1>6 DEF Contexts
  <1>8. Sum(trace, c) = Sum(trace, run)
    BY <1>7 DEF Sum
  <1>9. pass = "committing" => Sound(trace, c) /\ Closed(Sum(trace, c))
    BY <1>5, <1>7, <1>8, CommittingSound DEF Sound, Replays
  <1> QED
    BY <1>1, <1>7, <1>9, MoveBlocks

(* A leaf on top changes its mode.                                         *)
LEMMA LeafModeSound ==
  ASSUME IInv, BlockInv, run.stack # <<>>, Top(run.stack).state \in Leaf, NEW m \in Mode,
         NEW v \in Value, NEW c, c = [run EXCEPT !.stack = SetTop(run.stack, "mode", m), !.value = v]
  PROVE  /\ c \in Contexts
         /\ pass = "committing" => Sound(trace, c) /\ Closed(Sum(trace, c))
  <1> DEFINE r == SetTop(run.stack, "mode", m)
  <1>1. run \in Contexts
    BY DEF IInv, TypeOK
  <1>2. run.stack \in Seq(Frame)
    BY <1>1, ContextFacts
  <1>3. r \in Seq(Frame)
    BY <1>2, SetModeFacts
  <1>4. pass = "committing" => Accounts(r, Sum(trace, run)) /\ States(r) = States(run.stack)
    BY <1>2, CommittingSound, ModeSound DEF Sound
  <1>5. c = [run EXCEPT !.stack = r, !.value = v]
    OBVIOUS
  <1> HIDE DEF r
  <1>6. c \in Contexts /\ c.stack = r /\ c.trace = run.trace
    <2>1. v \in Value
      OBVIOUS
    <2> QED
      BY ONLY <1>1, <1>3, <1>5, <2>1 DEF Contexts
  <1>7. Sum(trace, c) = Sum(trace, run)
    BY <1>6 DEF Sum
  <1> QED
    BY <1>4, <1>6, <1>7, CommittingSound DEF Sound, Replays

(* Where a pass has arrived there is a leaf on top.                        *)
LEMMA ArrivedFacts ==
  ASSUME IInv, Arrived(run), NEW c, c = [run EXCEPT !.stack = SetTop(@, "mode", "active")]
  PROVE  /\ run.stack # <<>> /\ Top(run.stack).state \in Leaf /\ run.value \in Value
         /\ c = [run EXCEPT !.stack = SetTop(run.stack, "mode", "active"), !.value = run.value]
  <1>1. run \in Contexts
    BY DEF IInv, TypeOK
  <1>2. run.value \in Value
    BY <1>1, ContextFacts
  <1>3. \A r : [run EXCEPT !.stack = r] = [run EXCEPT !.stack = r, !.value = run.value]
    BY <1>1 DEF Contexts
  <1> QED
    BY <1>2, <1>3 DEF Arrived

(* A pseudo state is ready to be left.                                     *)
LEMMA PseudoSettlesBlocks ==
  ASSUME IInv, BlockInv, PseudoSettles
  PROVE  BlockInv'
  <1> DEFINE c == [run EXCEPT !.stack = SetTop(@, "mode", "active")]
  <1>1. Move(c) /\ Arrived(run)
    BY DEF PseudoSettles
  <1>2. /\ run.stack # <<>> /\ Top(run.stack).state \in Leaf /\ run.value \in Value
        /\ c = [run EXCEPT !.stack = SetTop(run.stack, "mode", "active"), !.value = run.value]
    BY <1>1, ArrivedFacts
  <1> HIDE DEF c
  <1>3. "active" \in Mode
    BY DEF Mode
  <1>4. c \in Contexts /\ (pass = "committing" => Sound(trace, c) /\ Closed(Sum(trace, c)))
    BY <1>2, <1>3, LeafModeSound
  <1> QED
    BY <1>1, <1>4, MoveBlocks

(* A pass that stops changes a mode only.                                  *)
LEMMA StopsSound ==
  ASSUME IInv, BlockInv, Stops
  PROVE  LET c == [run EXCEPT !.stack = SetTop(@, "mode", "active")]
         IN  /\ Finish(c) /\ pass # "idle" /\ c \in Contexts
             /\ pass = "committing" => Sound(trace, c)
  <1> DEFINE c == [run EXCEPT !.stack = SetTop(@, "mode", "active")]
  <1>1. Finish(c) /\ Arrived(run) /\ pass # "idle"
    BY DEF Stops, Fresh
  <1>2. /\ run.stack # <<>> /\ Top(run.stack).state \in Leaf /\ run.value \in Value
        /\ c = [run EXCEPT !.stack = SetTop(run.stack, "mode", "active"), !.value = run.value]
    BY <1>1, ArrivedFacts
  <1> HIDE DEF c
  <1>3. "active" \in Mode
    BY DEF Mode
  <1>4. c \in Contexts /\ (pass = "committing" => Sound(trace, c))
    BY <1>2, <1>3, LeafModeSound
  <1> QED
    BY <1>1, <1>4 DEF c

(* ... which keeps the invariant.                                          *)
LEMMA StopsBlocks ==
  ASSUME IInv, BlockInv, Stops
  PROVE  BlockInv'
  BY StopsSound, FinishBlocks

(* A leaf that stays runs its during block.                                *)
LEMMA LeafStaysBlocks ==
  ASSUME IInv, BlockInv, LeafStays(Selection(run))
  PROVE  BlockInv'
  <1> DEFINE v == machine.during[Top(run.stack).state][run.value]
             c == [run EXCEPT !.stack = SetTop(@, "mode", "after_entry"),
                              !.value = machine.during[Top(run.stack).state][@]]
  <1>1. Move(c) /\ pass # "idle" /\ Top(run.stack).state \in Leaf
    BY DEF LeafStays, Iterates, Fresh
  <1>2. machine \in Machine /\ run \in Contexts /\ run.stack # <<>>
    BY <1>1 DEF IInv, TypeOK, Running
  <1>3. v \in Value
    BY <1>2, ContextFacts, TopFacts, BlockFacts
  <1>4. c = [run EXCEPT !.stack = SetTop(run.stack, "mode", "after_entry"), !.value = v]
    OBVIOUS
  <1>5. "after_entry" \in Mode
    BY DEF Mode
  <1> HIDE DEF c, v
  <1>6. c \in Contexts /\ (pass = "committing" => Sound(trace, c) /\ Closed(Sum(trace, c)))
    BY <1>1, <1>2, <1>3, <1>4, <1>5, LeafModeSound
  <1> QED
    BY <1>1, <1>6, MoveBlocks

(* A transition out, where the loop routes.                                *)
LEMMA RoutesSound ==
  ASSUME IInv, BlockInv, Fresh, Routes, NEW t \in Selection(run).take
  PROVE  /\ TakeOut(run, t) \in Contexts /\ pass # "idle"
         /\ pass = "committing" => Sound(trace, TakeOut(run, t)) /\ Closed(Sum(trace, TakeOut(run, t)))
  <1>1. pass # "idle" /\ ~Waiting(run) /\ nested = FALSE
    BY DEF Fresh, Routes, IInv, TypeOK
  <1>2. run \in Contexts /\ Shaped(run.stack, FALSE) /\ run.stack # <<>>
    BY <1>1 DEF IInv, TypeOK, Running
  <1>3. t \in ToSet(machine.out[Top(run.stack).state])
    BY <1>1, SelectedOut
  <1> QED
    BY <1>1, <1>2, <1>3, CommittingSound, TakeOutSound, RoutesOut

(* A transition that leads to another state.                               *)
LEMMA MovesBlocks ==
  ASSUME IInv, BlockInv, Moves(Selection(run))
  PROVE  BlockInv'
  <1>1. Fresh /\ Routes
    BY DEF Moves, Iterates, Fresh
  <1>2. PICK t \in Selection(run).take : Move(TakeOut(run, t))
    BY DEF Moves
  <1> QED
    BY <1>1, <1>2, RoutesSound, MoveBlocks

(* A transition that ends the machine.                                     *)
LEMMA TerminatesBlocks ==
  ASSUME IInv, BlockInv, Terminates(Selection(run))
  PROVE  BlockInv'
  <1>1. Fresh /\ Routes
    BY DEF Terminates
  <1>2. PICK t \in Selection(run).take : Finish(TakeOut(run, t))
    BY DEF Terminates
  <1> QED
    BY <1>1, <1>2, RoutesSound, FinishBlocks

(* The invariant holds at the start.                                       *)
LEMMA InitBlocks ==
  ASSUME Init
  PROVE  BlockInv
  <1>1. hot = stack /\ pass = "idle" /\ run = Context(stack, value) /\ trace = <<>>
    BY DEF Init
  <1>2. run.trace = <<>>
    BY <1>1 DEF Context
  <1>3. \A i \in 1..Len(stack) : ~stack[i].pending
    <2>1. HotStart \subseteq State
      BY TreeAssumption
    <2> QED
      BY <2>1, HotShaped, RootShaped DEF Init
  <1> QED
    BY <1>1, <1>2, <1>3, EmptyOrderly DEF BlockInv

(* Every step keeps it.                                                    *)
LEMMA NextBlocks ==
  ASSUME IInv, BlockInv, Next
  PROVE  BlockInv'
  <1>1. CASE Call
    BY <1>1, CallBlocks
  <1>2. CASE PseudoSettles
    BY <1>2, PseudoSettlesBlocks
  <1>3. CASE Stops
    BY <1>3, StopsBlocks
  <1>4. CASE GivesUp
    BY <1>4, AbandonBlocks DEF GivesUp
  <1>5. CASE NestedInitial(Selection(run))
    BY <1>5, NestedInitialBlocks
  <1>6. CASE NestedWaits(Selection(run))
    BY <1>6, NestedWaitsBlocks
  <1>7. CASE Moves(Selection(run))
    BY <1>7, MovesBlocks
  <1>8. CASE Terminates(Selection(run))
    BY <1>8, TerminatesBlocks
  <1>9. CASE LeafStays(Selection(run))
    BY <1>9, LeafStaysBlocks
  <1>10. CASE Initializes(Selection(run))
    BY <1>10, InitializesBlocks
  <1>11. CASE Strands(Selection(run))
    BY <1>11, AbandonBlocks DEF Strands
  <1>12. CASE Raises(Selection(run))
    BY <1>12, AbandonBlocks DEF Raises
  <1> QED
    BY <1>1, <1>2, <1>3, <1>4, <1>5, <1>6, <1>7, <1>8, <1>9, <1>10, <1>11, <1>12 DEF Next, Step

(* A step that changes nothing keeps it.                                   *)
LEMMA StutterBlocks ==
  ASSUME BlockInv, UNCHANGED vars
  PROVE  BlockInv'
  <1>1. UNCHANGED <<trace, run, hot, pass>>
    BY DEF vars
  <1>2. Origin' = Origin
    BY DEF vars, public, Origin, States
  <1>3. Orderly(trace)' /\ (pass = "committing" => Accounts(run.stack, trace)')
    BY <1>1 DEF BlockInv
  <1>4. pass = "committing" => Closed(trace)' /\ Replays(run.stack, trace)'
    BY <1>1, <1>2 DEF BlockInv, Replays
  <1> QED
    BY <1>1, <1>3, <1>4 DEF BlockInv

(* A cycle that publishes: what its trace leads to is what it publishes.   *)
Accountable ==
  pass = "committing" /\ pass' = "idle" /\ result' \in {"stable", "ended"} =>
    Replay(Origin, trace') = States(stack')

(* Publishing what is sound is accountable.                                *)
LEMMA FinishReplays ==
  ASSUME NEW c \in Contexts, Finish(c), pass = "committing" => Sound(trace, c)
  PROVE  Accountable
  <1> SUFFICES ASSUME pass = "committing"
               PROVE  Replay(Origin, trace') = States(stack')
    BY DEF Accountable
  <1>1. stack' = c.stack /\ trace' = Sum(trace, c)
    BY DEF Finish, Sum
  <1>2. States(stack') = States(c.stack)
    BY <1>1
  <1> QED
    BY <1>1, <1>2 DEF Sound, Replays

(* A move does not end the call.                                           *)
LEMMA MoveReplays ==
  ASSUME NEW c, Move(c)
  PROVE  Accountable
  BY DEF Move, Accountable

(* A call that returns without publishing promises no trace.               *)
LEMMA AbandonReplays ==
  ASSUME NEW how \in {"delta", "raised"}, Abandon(how)
  PROVE  Accountable
  BY DEF Abandon, Accountable

(* Every step is accountable.                                              *)
LEMMA NextReplays ==
  ASSUME IInv, BlockInv, Next
  PROVE  Accountable
  <1>1. CASE Call
    BY <1>1 DEF Call, Accountable
  <1>2. CASE PseudoSettles
    BY <1>2, MoveReplays DEF PseudoSettles
  <1>3. CASE Stops
    <2> DEFINE c == [run EXCEPT !.stack = SetTop(@, "mode", "active")]
    <2>1. Finish(c) /\ c \in Contexts /\ (pass = "committing" => Sound(trace, c))
      BY <1>3, StopsSound
    <2> HIDE DEF c
    <2> QED
      BY <2>1, FinishReplays
  <1>4. CASE GivesUp
    BY <1>4, AbandonReplays DEF GivesUp
  <1>5. CASE NestedInitial(Selection(run))
    BY <1>5, MoveReplays DEF NestedInitial, TakeInitial
  <1>6. CASE NestedWaits(Selection(run))
    BY <1>6, MoveReplays DEF NestedWaits
  <1>7. CASE Moves(Selection(run))
    BY <1>7, MoveReplays DEF Moves
  <1>8. CASE Terminates(Selection(run))
    <2>1. Fresh /\ Routes
      BY <1>8 DEF Terminates
    <2>2. PICK t \in Selection(run).take : Finish(TakeOut(run, t))
      BY <1>8 DEF Terminates
    <2> QED
      BY <2>1, <2>2, RoutesSound, FinishReplays
  <1>9. CASE LeafStays(Selection(run))
    BY <1>9, MoveReplays DEF LeafStays
  <1>10. CASE Initializes(Selection(run))
    BY <1>10, MoveReplays DEF Initializes, TakeInitial
  <1>11. CASE Strands(Selection(run))
    BY <1>11, AbandonReplays DEF Strands
  <1>12. CASE Raises(Selection(run))
    BY <1>12, AbandonReplays DEF Raises
  <1> QED
    BY <1>1, <1>2, <1>3, <1>4, <1>5, <1>6, <1>7, <1>8, <1>9, <1>10, <1>11, <1>12 DEF Next, Step

(* IInv and BlockInv together are inductive.                               *)
THEOREM BlockInvariance == Spec => [](IInv /\ BlockInv)
  <1>1. Init => IInv /\ BlockInv
    BY InitInv, InitBlocks
  <1>2. IInv /\ BlockInv /\ [Next]_vars => IInv' /\ BlockInv'
    BY NextInv, StutterInv, NextBlocks, StutterBlocks
  <1> QED
    BY <1>1, <1>2, PTL DEF Spec

(* A plain before block runs exactly once for each entry of its composite  *)
(* that selects a child which is not a pseudo state, right before that     *)
(* child is entered, and never otherwise: for every tree, every machine    *)
(* and every route through pseudo states, nested initial transitions and   *)
(* exits.                                                                  *)
THEOREM BeforeOnce == Spec => []PlainBeforeOnce
  <1>1. IInv /\ BlockInv => PlainBeforeOnce
    BY OrderlyOnce DEF IInv, TypeOK, BlockInv
  <1> QED
    BY <1>1, BlockInvariance, PTL

(* The trace a cycle returns leads from the path before the cycle to the   *)
(* path it publishes: every exit of the committed pass leaves the          *)
(* innermost state, and no enter or exit goes unrecorded.                  *)
THEOREM TraceIsComplete == Spec => TraceReplays
  <1>1. IInv /\ BlockInv /\ [Next]_vars =>
          [pass = "committing" /\ pass' = "idle" /\ result' \in {"stable", "ended"} =>
             Replay(IF initialized THEN States(stack) ELSE <<>>, trace') = States(stack')]_vars
    BY NextReplays DEF Accountable, Origin
  <1> QED
    BY <1>1, BlockInvariance, PTL DEF Spec, TraceReplays

================================================================================
