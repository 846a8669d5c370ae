--------------------------- MODULE MacroStepPromise ---------------------------
(***************************************************************************)
(* Whatever the committed pass of a cycle publishes was promised by the    *)
(* validation pass, for every tree of finitely many states, every machine  *)
(* over it with finitely many valuations, and every start.                 *)
(*                                                                         *)
(* The passes differ in two ways: in the descent through composites the    *)
(* committed pass leaves owners waiting for a while, and because of those  *)
(* modes the search from a candidate, which never goes on from its source, *)
(* may accept what it rejected in the validation pass.  So the proof       *)
(* compares contexts that differ in modes below the top only: they have    *)
(* the same candidates, guards and steps (Near, Kin), the search finds the *)
(* same in both as long as it does not come back to its source             *)
(* (KinAccepts, AcceptedNotLost, RejectedLocked), and a committed pass     *)
(* that leaves the way of the validation pass can only come back to it     *)
(* (OnCourse).                                                             *)
(***************************************************************************)
EXTENDS MacroStepProofs, FiniteSetTheorems

-------------------------------------------------------------------------------
(* The search.                                                             *)

(* A transition leads from a context to a context.                         *)
LEMMA TakenTyped ==
  ASSUME machine \in Machine, NEW c \in Contexts, c.stack # <<>>, NEW t \in ToSet(Candidates(c))
  PROVE  Taken(c, t) \in Contexts /\ Taken(c, t).trace = <<>>
  <1> DEFINE s == c.stack
             source == Top(s).state
  <1>1. /\ s \in Seq(Frame) /\ c.value \in Value
        /\ source \in State
    BY ContextFacts, TopFacts
  <1>2. \A e \in Contexts : Bare(e) \in Contexts /\ Bare(e).trace = <<>>
    BY ContextFacts DEF Bare, Contexts
  <1>3. CASE Waiting(c)
    <2> DEFINE v == t.effect[c.value]
               b == [c EXCEPT !.value = v]
               r == Route(b, t.to)
               a == [r EXCEPT !.stack = SetTop(@, "mode", "active")]
    <2>1. t \in ToSet(machine.init[source])
      BY <1>3 DEF Candidates
    <2>2. t \in Transition /\ t.to \in State
      BY <1>1, <2>1, InitFacts, ChildFacts
    <2>3. v \in Value
      BY <1>1, <2>2, EffectFacts
    <2>4. Taken(c, t) = Bare(EnterState(a, t.to))
      BY <1>3 DEF Taken, TakeInit
    <2> HIDE DEF v
    <2>5. b \in Contexts /\ b.stack # <<>>
      BY <2>3 DEF Contexts
    <2> HIDE DEF b
    <2>6. r \in Contexts /\ Calmer(b.stack, r.stack)
      BY <2>5, RouteFacts
    <2> HIDE DEF r
    <2>7. r.stack \in Seq(Frame) /\ r.stack # <<>>
      <3>1. r.stack \in Seq(Frame) /\ b.stack \in Seq(Frame) /\ Len(r.stack) = Len(b.stack)
        BY <2>5, <2>6, ContextFacts DEF Calmer
      <3> QED
        BY <2>5, <3>1, SeqFacts
    <2>8. a \in Contexts
      <3> DEFINE q == SetTop(r.stack, "mode", "active")
      <3>1. q \in Seq(Frame)
        BY <2>7, SetModeFacts DEF Mode
      <3>2. a = [r EXCEPT !.stack = q]
        OBVIOUS
      <3> HIDE DEF q
      <3> QED
        BY ONLY <2>6, <3>1, <3>2 DEF Contexts
    <2> HIDE DEF a
    <2> QED
      BY <1>2, <2>2, <2>4, <2>8, EnterFacts
  <1>4. CASE ~Waiting(c)
    <2> DEFINE left == Left(c, t)
               routed == Routed(c, t)
               cleared == ClearBefore(left, source)
    <2>1. t \in ToSet(machine.out[source])
      <3>1. ToSet(<<>>) = {}
        BY EmptySeq DEF ToSet
      <3> QED
        BY <1>4, <3>1 DEF Candidates
    <2>2. t \in Transition /\ (t.to = Exit \/ t.to \in State)
      BY <1>1, <2>1, OutFacts, ChildFacts
    <2>3. Taken(c, t) = Bare(IF t.to = Exit THEN FinalizeExit(cleared) ELSE EnterState(routed, t.to))
      BY <1>4 DEF Taken, TakeOut, Left, Routed
    <2>4. left \in Contexts
      <3> DEFINE l == Pop(s)
                 v == t.effect[machine.exit[source][c.value]]
                 w == Noted(c, "exit", source)
      <3>1. left = [stack |-> l, value |-> v, trace |-> w]
        BY DEF Left
      <3>2. machine.exit[source][c.value] \in Value
        BY <1>1, BlockFacts
      <3>3. v \in Value
        BY <2>2, <3>2, EffectFacts
      <3>4. w \in Seq(Mark)
        BY <1>1, NotedFacts
      <3>5. l \in Seq(Frame)
        BY <1>1, PopFacts
      <3> HIDE DEF l, v, w
      <3> QED
        BY ONLY <3>1, <3>3, <3>4, <3>5 DEF Contexts
    <2> HIDE DEF left
    <2>5. CASE t.to = Exit
      <3>1. cleared \in Contexts
        <4>1. CASE source \in Pseudo /\ left.stack # <<>>
          <5> DEFINE q == SetTop(left.stack, "pending", FALSE)
          <5>1. q \in Seq(Frame)
            BY <2>4, <4>1, ContextFacts, ClearPendingFacts
          <5>2. cleared = [left EXCEPT !.stack = q]
            BY <4>1 DEF ClearBefore
          <5> HIDE DEF q
          <5> QED
            BY ONLY <2>4, <5>1, <5>2 DEF Contexts
        <4>2. CASE ~(source \in Pseudo /\ left.stack # <<>>)
          BY <2>4, <4>2 DEF ClearBefore
        <4> QED
          BY <4>1, <4>2
      <3> HIDE DEF cleared
      <3>2. FinalizeExit(cleared) \in Contexts
        <4> DEFINE p == Top(cleared.stack).state
                   after == machine.after[p][cleared.value]
        <4>1. CASE cleared.stack = <<>>
          BY <3>1, <4>1 DEF FinalizeExit
        <4>2. CASE cleared.stack # <<>>
          <5>1. cleared.stack \in Seq(Frame) /\ cleared.value \in Value /\ p \in State
            BY <3>1, <4>2, ContextFacts, TopFacts
          <5>2. after \in Value /\ machine.exit[p][after] \in Value
            BY <5>1, BlockFacts
          <5>3. CASE p = Root
            <6> DEFINE v == machine.exit[p][after]
                       w == Noted(cleared, "exit", p)
            <6>1. FinalizeExit(cleared) = [stack |-> <<>>, value |-> v, trace |-> w]
              BY <4>2, <5>3 DEF FinalizeExit
            <6>2. v \in Value /\ w \in Seq(Mark)
              BY <3>1, <5>1, <5>2, NotedFacts
            <6> HIDE DEF v, w
            <6> QED
              BY ONLY <6>1, <6>2, EmptyShaped DEF Contexts
          <5>4. CASE p # Root
            <6> DEFINE q == SetTop(cleared.stack, "mode", "post_child_exit")
            <6>1. FinalizeExit(cleared) = [cleared EXCEPT !.stack = q, !.value = after]
              BY <4>2, <5>4 DEF FinalizeExit
            <6>2. q \in Seq(Frame)
              BY <4>2, <5>1, SetModeFacts DEF Mode
            <6> HIDE DEF q, after
            <6> QED
              BY ONLY <3>1, <5>2, <6>1, <6>2 DEF Contexts
          <5> QED
            BY <5>3, <5>4
        <4> QED
          BY <4>1, <4>2
      <3> QED
        BY <1>2, <2>3, <2>5, <3>2
    <2>6. CASE t.to # Exit
      <3>1. routed \in Contexts
        <4>1. routed = IF source \in Pseudo /\ left.stack # <<>> THEN Route(left, t.to) ELSE left
          BY DEF Routed, left
        <4> QED
          BY <2>4, <4>1, RouteFacts
      <3> HIDE DEF routed
      <3> QED
        BY <1>2, <2>2, <2>3, <2>6, <3>1, EnterFacts
    <2> QED
      BY <2>5, <2>6
  <1> QED
    BY <1>3, <1>4

(* So does a step of the search.                                           *)
LEMMA OnwardTyped ==
  ASSUME machine \in Machine, NEW c \in Contexts
  PROVE  Onward(c) \subseteq Contexts /\ \A d \in Onward(c) : c.trace = <<>> => d.trace = <<>>
  <1> SUFFICES ASSUME NEW d \in Onward(c)
               PROVE  d \in Contexts /\ (c.trace = <<>> => d.trace = <<>>)
    OBVIOUS
  <1>1. ~Viable(c) /\ c.stack # <<>>
    BY DEF Onward, Viable
  <1>2. CASE Arrived(c)
    <2> DEFINE q == SetTop(c.stack, "mode", "active")
    <2>1. d = [c EXCEPT !.stack = q]
      BY <1>1, <1>2 DEF Onward
    <2>2. q \in Seq(Frame)
      BY <1>1, ContextFacts, SetModeFacts DEF Mode
    <2> HIDE DEF q
    <2> QED
      BY ONLY <2>1, <2>2, c \in Contexts DEF Contexts
  <1>3. CASE ~Arrived(c)
    <2>1. PICK t \in ToSet(Candidates(c)) : d = Taken(c, t)
      BY <1>1, <1>3 DEF Onward
    <2> QED
      BY <1>1, <2>1, TakenTyped
  <1> QED
    BY <1>2, <1>3

Done(source, known) == (\E c \in known : Viable(c)) \/ Further(source, known) = known

(* The rounds of the search are well defined, those that never end too.    *)
LEMMA ExploredOpens ==
  ASSUME machine \in Machine, NEW source, NEW start \in Contexts
  PROVE  \E f : /\ Explored(source, start) = f[{start}]
                /\ \A k \in SUBSET Contexts :
                     f[k] = IF Done(source, k) THEN k ELSE f[Further(source, k)]
  <1> DEFINE D == SUBSET Contexts
             F(k) == Further(source, k)
             Stop(k) == Done(source, k)
             Body(g) == [k \in D |-> IF Stop(k) THEN k ELSE g[F(k)]]
             Chain(k, T) == k \in T /\ \A y \in T : ~Stop(y) => F(y) \in T
             Reaches(k, x) == \A T \in SUBSET D : Chain(k, T) => x \in T
             Ends(k) == {x \in D : Stop(x) /\ Reaches(k, x)}
             f == [k \in D |-> UNION Ends(k)]
  <1>1. \A k \in D : F(k) \in D
    BY OnwardTyped DEF Further
  <1>2. Explored(source, start) = (CHOOSE g : g = Body(g))[{start}]
    BY Zenon DEF Explored, Done
  <1> HIDE DEF D, F, Stop
  <1>3. ASSUME NEW k \in D, Stop(k) PROVE UNION Ends(k) = k
    <2>1. k \in Ends(k)
      BY <1>3
    <2>2. ASSUME NEW x \in Ends(k) PROVE x = k
      <3>1. {k} \in SUBSET D /\ Chain(k, {k})
        BY <1>3
      <3> QED
        BY <2>2, <3>1
    <2> QED
      BY <2>1, <2>2
  <1>4. ASSUME NEW k \in D, ~Stop(k) PROVE Ends(k) = Ends(F(k))
    <2>1. ASSUME NEW x \in Ends(k) PROVE x \in Ends(F(k))
      <3> SUFFICES ASSUME NEW T \in SUBSET D, Chain(F(k), T) PROVE x \in T
        BY <2>1
      <3>1. T \cup {k} \in SUBSET D /\ Chain(k, T \cup {k})
        BY <1>4
      <3>2. x \in T \cup {k} /\ Stop(x)
        BY <2>1, <3>1
      <3> QED
        BY <1>4, <3>2
    <2>2. ASSUME NEW x \in Ends(F(k)) PROVE x \in Ends(k)
      <3> SUFFICES ASSUME NEW T \in SUBSET D, Chain(k, T) PROVE x \in T
        BY <2>2
      <3>1. Chain(F(k), T)
        BY <1>4
      <3> QED
        BY <2>2, <3>1
    <2> QED
      BY <2>1, <2>2
  <1> HIDE DEF Ends
  <1>5. f = Body(f)
    <2>1. \A k \in D : f[k] = UNION Ends(k)
      OBVIOUS
    <2>2. \A k \in D : f[k] = IF Stop(k) THEN k ELSE f[F(k)]
      BY <1>1, <1>3, <1>4, <2>1
    <2>3. f = [k \in D |-> f[k]]
      OBVIOUS
    <2> HIDE DEF f
    <2> QED
      BY <2>2, <2>3
  <1> HIDE DEF f
  <1>6. PICK g : g = Body(g) /\ Explored(source, start) = g[{start}]
    <2> HIDE DEF Body
    <2>1. \E g : g = Body(g)
      BY <1>5
    <2> DEFINE h == CHOOSE g : g = Body(g)
    <2>2. h = Body(h)
      BY <2>1
    <2> QED
      BY <1>2, <2>2
  <1>7. \A k \in D : g[k] = IF Stop(k) THEN k ELSE g[F(k)]
    <2>1. g = Body(g)
      BY <1>6
    <2> QED
      BY <2>1
  <1> QED
    BY <1>6, <1>7, Zenon DEF D, F, Stop

-------------------------------------------------------------------------------
(* Stacks that differ in modes only.                                       *)
Alike(s, r) ==
  /\ Len(r) = Len(s)
  /\ \A i \in 1..Len(s) : r[i] = [s[i] EXCEPT !.mode = r[i].mode]

Near(c, d) ==
  /\ c \in Contexts /\ d \in Contexts
  /\ d.value = c.value
  /\ Alike(c.stack, d.stack)

(* Contexts between the steps of the validation pass.                      *)
Settled == {c \in Contexts : c.trace = <<>> /\ Shaped(c.stack, FALSE)}

(* d is the settled context c, but for modes below the top.                *)
Kin(c, d) ==
  /\ c \in Settled
  /\ Near(c, d)
  /\ d.trace = <<>>
  /\ c.stack # <<>> => Top(d.stack).mode = Top(c.stack).mode

(* A frame whose mode is set keeps the rest.                               *)
LEMMA FrameFacts ==
  ASSUME NEW f \in Frame, NEW m \in Mode
  PROVE  LET g == [f EXCEPT !.mode = m]
         IN  /\ g \in Frame /\ g.state = f.state /\ g.mode = m /\ (g.pending <=> f.pending)
             /\ g = [state |-> f.state, mode |-> m, pending |-> f.pending]
  <1> DEFINE g == [f EXCEPT !.mode = m]
             h == [state |-> f.state, mode |-> m, pending |-> f.pending]
  <1>1. f.state \in State /\ f.pending \in BOOLEAN
    BY DEF Frame
  <1>2. g = h
    BY DEF Frame
  <1>3. h \in Frame
    BY <1>1, Zenon DEF Frame
  <1>4. h.state = f.state /\ h.mode = m /\ h.pending = f.pending
    OBVIOUS
  <1> HIDE DEF g, h
  <1>5. g \in Frame /\ g.state = f.state /\ g.mode = m /\ g.pending = f.pending
    BY <1>2, <1>3, <1>4, Zenon
  <1> QED
    BY <1>2, <1>5, Zenon DEF g, h

(* Frames with the same state, mode and flag are the same.                 *)
LEMMA SameFrame ==
  ASSUME NEW f \in Frame, NEW g \in Frame
  PROVE  g = [f EXCEPT !.mode = g.mode] <=> (g.state = f.state /\ (g.pending <=> f.pending))
  <1>1. /\ f = [state |-> f.state, mode |-> f.mode, pending |-> f.pending]
        /\ g = [state |-> g.state, mode |-> g.mode, pending |-> g.pending]
        /\ f.pending \in BOOLEAN /\ g.pending \in BOOLEAN
    BY Zenon DEF Frame
  <1>2. f.mode \in Mode /\ g.mode \in Mode
    BY DEF Frame
  <1>3. [f EXCEPT !.mode = g.mode] = [state |-> f.state, mode |-> g.mode, pending |-> f.pending]
    BY <1>2, FrameFacts
  <1>4. ASSUME g.state = f.state, g.pending <=> f.pending
        PROVE  g = [state |-> f.state, mode |-> g.mode, pending |-> f.pending]
    <2>1. g.pending = f.pending
      BY <1>1, <1>4
    <2> QED
      BY <1>1, <1>4, <2>1, Zenon
  <1>5. ASSUME g = [state |-> f.state, mode |-> g.mode, pending |-> f.pending]
        PROVE  g.state = f.state /\ (g.pending <=> f.pending)
    <2> DEFINE h == [state |-> f.state, mode |-> g.mode, pending |-> f.pending]
    <2>1. h.state = f.state /\ h.pending = f.pending
      OBVIOUS
    <2>2. g = h
      BY <1>5
    <2> HIDE DEF h
    <2>3. g.state = f.state /\ g.pending = f.pending
      BY <2>1, <2>2, Zenon
    <2> QED
      BY <2>3, Zenon
  <1> QED
    BY <1>3, <1>4, <1>5, Zenon

(* Alike, frame by frame.                                                  *)
LEMMA AlikeFacts ==
  ASSUME NEW s \in Seq(Frame), NEW r \in Seq(Frame)
  PROVE  Alike(s, r) <=> /\ Len(r) = Len(s)
                         /\ \A i \in 1..Len(s) : /\ r[i].state = s[i].state
                                                 /\ r[i].pending <=> s[i].pending
  <1>1. Len(r) = Len(s) => \A i \in 1..Len(s) : s[i] \in Frame /\ r[i] \in Frame
    BY SeqFacts
  <1>2. Len(r) = Len(s) => \A i \in 1..Len(s) : r[i] = [s[i] EXCEPT !.mode = r[i].mode]
                            <=> r[i].state = s[i].state /\ (r[i].pending <=> s[i].pending)
    BY <1>1, SameFrame, Zenon
  <1> QED
    BY <1>2, Zenon DEF Alike

(* Being alike is an equivalence.                                          *)
LEMMA AlikeEquivalence ==
  /\ \A s \in Seq(Frame) : Alike(s, s)
  /\ \A s, r \in Seq(Frame) : Alike(s, r) => Alike(r, s)
  /\ \A s, r, q \in Seq(Frame) : Alike(s, r) /\ Alike(r, q) => Alike(s, q)
  <1>1. \A s \in Seq(Frame) : Alike(s, s)
    BY AlikeFacts, Zenon
  <1>2. ASSUME NEW s \in Seq(Frame), NEW r \in Seq(Frame), Alike(s, r) PROVE Alike(r, s)
    <2>1. /\ Len(r) = Len(s)
          /\ \A i \in 1..Len(s) : r[i].state = s[i].state /\ (r[i].pending <=> s[i].pending)
      BY <1>2, AlikeFacts, Zenon
    <2>2. \A i \in 1..Len(r) : s[i].state = r[i].state /\ (s[i].pending <=> r[i].pending)
      BY <2>1, Zenon
    <2> QED
      BY <2>1, <2>2, AlikeFacts, Zenon
  <1>3. ASSUME NEW s \in Seq(Frame), NEW r \in Seq(Frame), NEW q \in Seq(Frame),
               Alike(s, r), Alike(r, q)
        PROVE  Alike(s, q)
    <2>1. /\ Len(r) = Len(s) /\ Len(q) = Len(r)
          /\ \A i \in 1..Len(s) : r[i].state = s[i].state /\ (r[i].pending <=> s[i].pending)
          /\ \A i \in 1..Len(r) : q[i].state = r[i].state /\ (q[i].pending <=> r[i].pending)
      BY <1>3, AlikeFacts, Zenon
    <2>2. \A i \in 1..Len(s) : q[i].state = s[i].state /\ (q[i].pending <=> s[i].pending)
      BY <2>1, Zenon
    <2> QED
      BY <2>1, <2>2, AlikeFacts, Zenon
  <1> QED
    BY <1>1, <1>2, <1>3

(* The empty stack is like itself only; the tops are alike.                *)
LEMMA AlikeTop ==
  ASSUME NEW s \in Seq(Frame), NEW r \in Seq(Frame), Alike(s, r)
  PROVE  /\ Len(r) = Len(s) /\ (r # <<>> <=> s # <<>>)
         /\ s # <<>> => /\ Top(r) \in Frame /\ Top(s) \in Frame
                        /\ Top(r).state = Top(s).state /\ (Top(r).pending <=> Top(s).pending)
                        /\ Top(r).mode = Top(s).mode => Top(r) = Top(s)
  <1>1. Len(r) = Len(s) /\ (r # <<>> <=> s # <<>>) /\ (s # <<>> => Len(s) \in 1..Len(s))
    BY SeqFacts DEF Alike
  <1>2. \A i \in 1..Len(s) : r[i].state = s[i].state /\ (r[i].pending <=> s[i].pending)
    BY AlikeFacts, Zenon
  <1>3. ASSUME s # <<>>
        PROVE  /\ Top(r) \in Frame /\ Top(s) \in Frame
               /\ Top(r).state = Top(s).state /\ (Top(r).pending <=> Top(s).pending)
    <2>1. Top(r) \in Frame /\ Top(s) \in Frame
      BY <1>1, <1>3, TopFacts
    <2>2. Top(r) = r[Len(s)] /\ Top(s) = s[Len(s)]
      BY <1>1 DEF Top
    <2> QED
      BY <1>1, <1>2, <1>3, <2>1, <2>2, Zenon
  <1>4. ASSUME s # <<>>, Top(r).mode = Top(s).mode
        PROVE  Top(r) = Top(s)
    <2>1. Top(r) = [Top(s) EXCEPT !.mode = Top(r).mode]
      BY <1>3, <1>4, SameFrame, Zenon
    <2>2. Top(r) = [Top(s) EXCEPT !.mode = Top(s).mode] /\ Top(s) \in Frame
      BY <1>3, <1>4, <2>1
    <2> QED
      BY ONLY <2>2, Zenon DEF Frame
  <1> QED
    BY <1>1, <1>3, <1>4

-------------------------------------------------------------------------------
(* The operations do the same to stacks that differ in modes only.         *)

(* Stacks stay alike when the same frame is pushed.                        *)
LEMMA AlikeAppend ==
  ASSUME NEW s \in Seq(Frame), NEW r \in Seq(Frame), Alike(s, r), NEW f \in Frame
  PROVE  /\ Alike(Append(s, f), Append(r, f))
         /\ Append(s, f) \in Seq(Frame) /\ Append(r, f) \in Seq(Frame)
         /\ Top(Append(s, f)) = f /\ Top(Append(r, f)) = f
         /\ Append(s, f) # <<>>
  <1> DEFINE a == Append(s, f)
             b == Append(r, f)
  <1>1. /\ a \in Seq(Frame) /\ Len(a) = Len(s) + 1 /\ \A i \in 1..Len(s) : a[i] = s[i]
        /\ a[Len(s) + 1] = f /\ a # <<>>
        /\ b \in Seq(Frame) /\ Len(b) = Len(r) + 1 /\ \A i \in 1..Len(r) : b[i] = r[i]
        /\ b[Len(r) + 1] = f
    BY AppendFacts
  <1> HIDE DEF a, b
  <1>2. /\ Len(r) = Len(s) /\ Len(s) \in Nat
        /\ \A i \in 1..Len(s) : r[i].state = s[i].state /\ (r[i].pending <=> s[i].pending)
    BY AlikeFacts, SeqFacts
  <1>3. \A i \in 1..Len(a) : i \in 1..Len(s) \/ i = Len(s) + 1
    BY <1>1, <1>2
  <1>4. \A i \in 1..Len(a) : b[i].state = a[i].state /\ (b[i].pending <=> a[i].pending)
    <2> TAKE i \in 1..Len(a)
    <2>1. CASE i \in 1..Len(s)
      <3>1. b[i] = r[i] /\ a[i] = s[i]
        BY <1>1, <1>2, <2>1
      <3> QED
        BY <1>2, <2>1, <3>1, Zenon
    <2>2. CASE i = Len(s) + 1
      <3>1. b[i] = f /\ a[i] = f
        BY <1>1, <1>2, <2>2
      <3> QED
        BY <3>1, Zenon
    <2> QED
      BY <1>3, <2>1, <2>2
  <1>5. Alike(a, b)
    BY <1>1, <1>2, <1>4, AlikeFacts
  <1>6. Top(a) = f /\ Top(b) = f
    BY <1>1, <1>2 DEF Top
  <1> QED
    BY <1>1, <1>5, <1>6 DEF a, b

(* Stacks stay alike when their tops are popped.                           *)
LEMMA AlikePop ==
  ASSUME NEW s \in Seq(Frame), NEW r \in Seq(Frame), Alike(s, r), s # <<>>
  PROVE  Alike(Pop(s), Pop(r)) /\ Pop(s) \in Seq(Frame) /\ Pop(r) \in Seq(Frame)
  <1>1. /\ Len(r) = Len(s) /\ Len(s) \in Nat /\ r # <<>>
        /\ \A i \in 1..Len(s) : r[i].state = s[i].state /\ (r[i].pending <=> s[i].pending)
    BY AlikeFacts, AlikeTop, SeqFacts
  <1> DEFINE a == Pop(s)
             b == Pop(r)
  <1>2. /\ a \in Seq(Frame) /\ Len(a) = Len(s) - 1 /\ \A i \in 1..(Len(s) - 1) : a[i] = s[i]
        /\ b \in Seq(Frame) /\ Len(b) = Len(r) - 1 /\ \A i \in 1..(Len(r) - 1) : b[i] = r[i]
    BY <1>1, PopFacts
  <1> HIDE DEF a, b
  <1>3. \A i \in 1..Len(a) : i \in 1..Len(s) /\ a[i] = s[i] /\ b[i] = r[i]
    BY <1>1, <1>2
  <1>4. \A i \in 1..Len(a) : b[i].state = a[i].state /\ (b[i].pending <=> a[i].pending)
    <2> TAKE i \in 1..Len(a)
    <2>1. i \in 1..Len(s) /\ a[i] = s[i] /\ b[i] = r[i]
      BY <1>3
    <2> QED
      BY <1>1, <2>1, Zenon
  <1>5. Alike(a, b)
    BY <1>1, <1>2, <1>4, AlikeFacts
  <1> QED
    BY <1>2, <1>5 DEF a, b

(* A new mode on top is not seen.                                          *)
LEMMA AlikeMode ==
  ASSUME NEW s \in Seq(Frame), s # <<>>, NEW m \in Mode
  PROVE  Alike(s, SetTop(s, "mode", m)) /\ SetTop(s, "mode", m) \in Seq(Frame)
  <1> DEFINE r == SetTop(s, "mode", m)
  <1>1. /\ r \in Seq(Frame) /\ Len(r) = Len(s)
        /\ \A i \in 1..(Len(s) - 1) : r[i] = s[i]
        /\ r[Len(s)] = [state |-> Top(s).state, mode |-> m, pending |-> Top(s).pending]
    BY SetModeFacts
  <1> HIDE DEF r
  <1>2. Len(s) \in Nat
    BY SeqFacts
  <1>3. \A i \in 1..Len(s) : r[i].state = s[i].state /\ (r[i].pending <=> s[i].pending)
    <2> TAKE i \in 1..Len(s)
    <2>1. CASE i = Len(s)
      <3>1. r[i].state = Top(s).state /\ r[i].pending = Top(s).pending
        BY <1>1, <2>1
      <3> QED
        BY <2>1, <3>1, Zenon DEF Top
    <2>2. CASE i # Len(s)
      <3>1. r[i] = s[i]
        BY <1>1, <1>2, <2>2
      <3> QED
        BY <3>1, Zenon
    <2> QED
      BY <2>1, <2>2
  <1>4. Alike(s, r)
    BY <1>1, <1>3, AlikeFacts
  <1> QED
    BY <1>1, <1>4 DEF r

(* Clearing the flags on both tops keeps them alike.                       *)
LEMMA AlikeClear ==
  ASSUME NEW s \in Seq(Frame), NEW r \in Seq(Frame), Alike(s, r), s # <<>>
  PROVE  /\ Alike(SetTop(s, "pending", FALSE), SetTop(r, "pending", FALSE))
         /\ SetTop(s, "pending", FALSE) \in Seq(Frame) /\ SetTop(r, "pending", FALSE) \in Seq(Frame)
  <1>1. /\ Len(r) = Len(s) /\ Len(s) \in Nat /\ r # <<>>
        /\ \A i \in 1..Len(s) : r[i].state = s[i].state /\ (r[i].pending <=> s[i].pending)
        /\ Top(r).state = Top(s).state
    BY AlikeFacts, AlikeTop, SeqFacts
  <1> DEFINE a == SetTop(s, "pending", FALSE)
             b == SetTop(r, "pending", FALSE)
  <1>2. /\ a \in Seq(Frame) /\ Len(a) = Len(s) /\ \A i \in 1..(Len(s) - 1) : a[i] = s[i]
        /\ a[Len(s)] = [state |-> Top(s).state, mode |-> Top(s).mode, pending |-> FALSE]
        /\ b \in Seq(Frame) /\ Len(b) = Len(r) /\ \A i \in 1..(Len(r) - 1) : b[i] = r[i]
        /\ b[Len(r)] = [state |-> Top(r).state, mode |-> Top(r).mode, pending |-> FALSE]
    BY <1>1, ClearPendingFacts
  <1> HIDE DEF a, b
  <1>3. \A i \in 1..Len(a) : b[i].state = a[i].state /\ (b[i].pending <=> a[i].pending)
    <2> TAKE i \in 1..Len(a)
    <2>1. CASE i = Len(s)
      BY <1>1, <1>2, <2>1
    <2>2. CASE i # Len(s)
      <3>1. i \in 1..Len(s) /\ a[i] = s[i] /\ b[i] = r[i]
        BY <1>1, <1>2, <2>2
      <3> QED
        BY <1>1, <3>1, Zenon
    <2> QED
      BY <2>1, <2>2
  <1>4. Alike(a, b)
    BY <1>1, <1>2, <1>3, AlikeFacts
  <1> QED
    BY <1>2, <1>4 DEF a, b

-------------------------------------------------------------------------------
(* Contexts.                                                               *)

(* What near contexts share.                                               *)
LEMMA NearFacts ==
  ASSUME NEW c, NEW d, Near(c, d)
  PROVE  /\ c \in Contexts /\ d \in Contexts
         /\ c.stack \in Seq(Frame) /\ d.stack \in Seq(Frame) /\ c.value \in Value
         /\ d.value = c.value
         /\ Alike(c.stack, d.stack)
         /\ d.stack # <<>> <=> c.stack # <<>>
  BY ContextFacts, AlikeTop DEF Near

(* What is built from pieces that are near is near.                        *)
LEMMA NearBuilt ==
  ASSUME NEW s \in Seq(Frame), NEW r \in Seq(Frame), Alike(s, r), NEW v \in Value,
         NEW w \in Seq(Mark), NEW x \in Seq(Mark)
  PROVE  Near([stack |-> s, value |-> v, trace |-> w], [stack |-> r, value |-> v, trace |-> x])
  BY DEF Near, Contexts

(* Entering a state keeps contexts near and makes their tops equal.        *)
LEMMA NearEnter ==
  ASSUME machine \in Machine, NEW c, NEW d, Near(c, d), NEW s \in State
  PROVE  /\ Near(EnterState(c, s), EnterState(d, s))
         /\ EnterState(c, s).stack # <<>>
         /\ Top(EnterState(d, s).stack) = Top(EnterState(c, s).stack)
  <1> DEFINE m == IF NoOutgoing(s) THEN "active" ELSE IF s \in Leaf THEN "after_entry" ELSE "init_wait"
             f == [state |-> s, mode |-> m, pending |-> s \in Composite]
             v(x) == IF NoOutgoing(s) THEN x
                     ELSE IF s \in Leaf THEN machine.during[s][machine.enter[s][x]]
                     ELSE machine.enter[s][x]
  <1>1. EnterState(c, s) \in Contexts /\ EnterState(d, s) \in Contexts
    BY NearFacts, EnterFacts
  <1>2. f \in Frame
    <2>1. m \in Mode
      BY DEF Mode
    <2>2. (s \in Composite) \in BOOLEAN
      OBVIOUS
    <2>3. \A b \in BOOLEAN, x \in Mode : [state |-> s, mode |-> x, pending |-> b] \in Frame
      BY Zenon DEF Frame
    <2> HIDE DEF m
    <2> QED
      BY <2>1, <2>2, <2>3, Zenon
  <1>3. /\ EnterState(c, s).stack = Append(c.stack, f) /\ EnterState(d, s).stack = Append(d.stack, f)
        /\ EnterState(c, s).value = v(c.value) /\ EnterState(d, s).value = v(d.value)
    BY DEF EnterState
  <1> HIDE DEF f, v
  <1>4. /\ Alike(Append(c.stack, f), Append(d.stack, f)) /\ Append(c.stack, f) # <<>>
        /\ Top(Append(c.stack, f)) = f /\ Top(Append(d.stack, f)) = f
    BY <1>2, NearFacts, AlikeAppend
  <1>5. d.value = c.value
    BY NearFacts
  <1> QED
    BY <1>1, <1>3, <1>4, <1>5, Zenon DEF Near

(* So does the same change of the values.                                  *)
LEMMA NearValue ==
  ASSUME NEW c, NEW d, Near(c, d), NEW v \in Value
  PROVE  Near([c EXCEPT !.value = v], [d EXCEPT !.value = v])
  <1>1. c \in Contexts /\ d \in Contexts /\ Alike(c.stack, d.stack)
    BY NearFacts
  <1>2. /\ [c EXCEPT !.value = v] \in Contexts /\ [c EXCEPT !.value = v].stack = c.stack
        /\ [c EXCEPT !.value = v].value = v
        /\ [d EXCEPT !.value = v] \in Contexts /\ [d EXCEPT !.value = v].stack = d.stack
        /\ [d EXCEPT !.value = v].value = v
    BY <1>1 DEF Contexts
  <1> QED
    BY <1>1, <1>2, Zenon DEF Near

(* A new mode on top.                                                      *)
LEMMA SetModeTop ==
  ASSUME NEW s \in Seq(Frame), s # <<>>, NEW m \in Mode
  PROVE  LET r == SetTop(s, "mode", m)
         IN  /\ r \in Seq(Frame) /\ Len(r) = Len(s) /\ r # <<>>
             /\ Top(r).state = Top(s).state /\ Top(r).mode = m
             /\ Top(r).pending = Top(s).pending
  <1> DEFINE r == SetTop(s, "mode", m)
             f == [state |-> Top(s).state, mode |-> m, pending |-> Top(s).pending]
  <1>1. r \in Seq(Frame) /\ Len(r) = Len(s) /\ r[Len(s)] = f
    BY SetModeFacts
  <1>2. f.state = Top(s).state /\ f.mode = m /\ f.pending = Top(s).pending
    OBVIOUS
  <1> HIDE DEF r, f
  <1>3. Top(r) = f /\ r # <<>>
    BY <1>1, SeqFacts DEF Top
  <1> QED
    BY <1>1, <1>2, <1>3, Zenon DEF r

(* A new mode on either top.                                               *)
LEMMA NearMode ==
  ASSUME NEW c, NEW d, Near(c, d), c.stack # <<>>, NEW m \in Mode
  PROVE  LET a == [c EXCEPT !.stack = SetTop(@, "mode", m)]
             b == [d EXCEPT !.stack = SetTop(@, "mode", m)]
         IN  /\ Near(a, b) /\ Near(a, d)
             /\ a.stack # <<>> /\ Top(a.stack).mode = m /\ Top(b.stack).mode = m
  <1> DEFINE s == SetTop(c.stack, "mode", m)
             r == SetTop(d.stack, "mode", m)
             a == [c EXCEPT !.stack = s]
             b == [d EXCEPT !.stack = r]
  <1>1. /\ c \in Contexts /\ d \in Contexts /\ Alike(c.stack, d.stack) /\ d.value = c.value
        /\ c.stack \in Seq(Frame) /\ d.stack \in Seq(Frame) /\ d.stack # <<>>
    BY NearFacts
  <1>2. s \in Seq(Frame) /\ r \in Seq(Frame) /\ Alike(c.stack, s) /\ Alike(d.stack, r)
    BY <1>1, AlikeMode
  <1>3. Alike(s, d.stack) /\ Alike(s, r)
    BY <1>1, <1>2, AlikeEquivalence
  <1>t. s # <<>> /\ Top(s).mode = m /\ Top(r).mode = m
    BY <1>1, SetModeTop
  <1> HIDE DEF s, r
  <1>4. a \in Contexts /\ a.stack = s /\ a.value = c.value /\ b \in Contexts /\ b.stack = r /\ b.value = d.value
    BY <1>1, <1>2 DEF Contexts
  <1> HIDE DEF a, b
  <1>5. Near(a, b) /\ Near(a, d)
    BY <1>1, <1>3, <1>4, Zenon DEF Near
  <1> QED
    BY <1>4, <1>5, <1>t, Zenon DEF a, b, s, r

(* So does waiting for the target of a transition.                         *)
LEMMA NearRoute ==
  ASSUME machine \in Machine, NEW c, NEW d, Near(c, d), c.stack # <<>>, NEW t
  PROVE  Near(Route(c, t), Route(d, t)) /\ Route(c, t).stack # <<>>
  <1>1. /\ c \in Contexts /\ d \in Contexts /\ Alike(c.stack, d.stack) /\ d.value = c.value
        /\ c.stack \in Seq(Frame) /\ d.stack \in Seq(Frame) /\ d.stack # <<>> /\ c.value \in Value
    BY NearFacts
  <1>2. CASE t \in Pseudo
    BY <1>2 DEF Route
  <1>3. CASE t \notin Pseudo
    <2>1. /\ Top(d.stack).state = Top(c.stack).state /\ Top(c.stack).state \in State
          /\ Top(d.stack).pending <=> Top(c.stack).pending
      BY <1>1, AlikeTop, TopFacts
    <2>2. CASE Top(c.stack).pending
      <3> DEFINE s == SetTop(c.stack, "pending", FALSE)
                 r == SetTop(d.stack, "pending", FALSE)
                 v == machine.before[Top(c.stack).state][c.value]
                 w == Noted(c, "before", Top(c.stack).state)
                 x == Noted(d, "before", Top(c.stack).state)
      <3>0. Top(d.stack).pending
        BY <2>1, <2>2
      <3>1. Route(c, t) = [stack |-> s, value |-> v, trace |-> w]
        BY <1>3, <2>2 DEF Route, ConsumeBefore
      <3>2. Route(d, t) = [stack |-> r, value |-> v, trace |-> x]
        BY <1>1, <1>3, <2>1, <3>0 DEF Route, ConsumeBefore
      <3>3. v \in Value /\ w \in Seq(Mark) /\ x \in Seq(Mark)
        BY <1>1, <2>1, BlockFacts, NotedFacts
      <3>4. /\ s \in Seq(Frame) /\ r \in Seq(Frame) /\ Alike(s, r)
            /\ Len(s) = Len(c.stack)
        BY <1>1, AlikeClear, ClearPendingFacts
      <3> HIDE DEF s, r, v, w, x
      <3>5. s # <<>>
        BY <1>1, <3>4, SeqFacts
      <3> QED
        BY <3>1, <3>2, <3>3, <3>4, <3>5, NearBuilt
    <2>3. CASE ~Top(c.stack).pending
      <3>1. ~Top(d.stack).pending
        BY <2>1, <2>3
      <3>2. Route(c, t) = c /\ Route(d, t) = d
        BY <1>3, <2>3, <3>1 DEF Route, ConsumeBefore
      <3> QED
        BY <3>2
    <2> QED
      BY <2>2, <2>3
  <1> QED
    BY <1>2, <1>3

(* So does leaving the source of a transition.                             *)
LEMMA NearLeft ==
  ASSUME machine \in Machine, NEW c, NEW d, Near(c, d), c.stack # <<>>,
         NEW t \in ToSet(machine.out[Top(c.stack).state])
  PROVE  Near(Left(c, t), Left(d, t)) /\ Top(d.stack).state = Top(c.stack).state
  <1> DEFINE source == Top(c.stack).state
             s == Pop(c.stack)
             r == Pop(d.stack)
             v == t.effect[machine.exit[source][c.value]]
             w == Noted(c, "exit", source)
             x == Noted(d, "exit", source)
  <1>1. /\ c \in Contexts /\ d \in Contexts /\ Alike(c.stack, d.stack) /\ d.value = c.value
        /\ c.stack \in Seq(Frame) /\ d.stack \in Seq(Frame) /\ d.stack # <<>> /\ c.value \in Value
    BY NearFacts
  <1>2. Top(d.stack).state = source /\ source \in State
    BY <1>1, AlikeTop, TopFacts
  <1>3. Left(c, t) = [stack |-> s, value |-> v, trace |-> w]
    BY DEF Left
  <1>4. Left(d, t) = [stack |-> r, value |-> v, trace |-> x]
    BY <1>1, <1>2 DEF Left
  <1>5. v \in Value
    <2>1. machine.exit[source][c.value] \in Value
      BY <1>1, <1>2, BlockFacts
    <2> QED
      BY <1>2, <2>1, OutFacts, EffectFacts
  <1>6. w \in Seq(Mark) /\ x \in Seq(Mark)
    BY <1>1, <1>2, NotedFacts
  <1>7. s \in Seq(Frame) /\ r \in Seq(Frame) /\ Alike(s, r)
    BY <1>1, AlikePop
  <1>8. Near(Left(c, t), Left(d, t))
    <2> HIDE DEF s, r, v, w, x
    <2> QED
      BY <1>3, <1>4, <1>5, <1>6, <1>7, NearBuilt
  <1> QED
    BY <1>2, <1>8

(* So does dropping the plain before block of a pseudo state's parent.     *)
LEMMA NearClear ==
  ASSUME NEW c, NEW d, Near(c, d), NEW source
  PROVE  Near(ClearBefore(c, source), ClearBefore(d, source))
  <1>1. /\ c \in Contexts /\ d \in Contexts /\ Alike(c.stack, d.stack) /\ d.value = c.value
        /\ c.stack \in Seq(Frame) /\ d.stack \in Seq(Frame) /\ (d.stack # <<>> <=> c.stack # <<>>)
    BY NearFacts
  <1>2. CASE source \in Pseudo /\ c.stack # <<>>
    <2> DEFINE s == SetTop(c.stack, "pending", FALSE)
               r == SetTop(d.stack, "pending", FALSE)
               a == [c EXCEPT !.stack = s]
               b == [d EXCEPT !.stack = r]
    <2>1. ClearBefore(c, source) = a /\ ClearBefore(d, source) = b
      BY <1>1, <1>2 DEF ClearBefore
    <2>2. s \in Seq(Frame) /\ r \in Seq(Frame) /\ Alike(s, r)
      BY <1>1, <1>2, AlikeClear
    <2> HIDE DEF s, r
    <2>3. a \in Contexts /\ a.stack = s /\ a.value = c.value /\ b \in Contexts /\ b.stack = r /\ b.value = d.value
      BY <1>1, <2>2 DEF Contexts
    <2> HIDE DEF a, b
    <2> QED
      BY <1>1, <2>1, <2>2, <2>3, Zenon DEF Near
  <1>3. CASE ~(source \in Pseudo /\ c.stack # <<>>)
    <2>1. ClearBefore(c, source) = c /\ ClearBefore(d, source) = d
      BY <1>1, <1>3 DEF ClearBefore
    <2> QED
      BY <2>1
  <1> QED
    BY <1>2, <1>3

(* Exits through equal tops keep contexts near, with tops of one mode.     *)
LEMMA NearFinalize ==
  ASSUME machine \in Machine, NEW c, NEW d, Near(c, d)
  PROVE  LET a == FinalizeExit(c)
             b == FinalizeExit(d)
         IN  Near(a, b) /\ (a.stack # <<>> => Top(b.stack).mode = Top(a.stack).mode)
  <1>1. /\ c \in Contexts /\ d \in Contexts /\ Alike(c.stack, d.stack) /\ d.value = c.value
        /\ c.stack \in Seq(Frame) /\ d.stack \in Seq(Frame) /\ (d.stack # <<>> <=> c.stack # <<>>)
        /\ c.value \in Value
    BY NearFacts
  <1>2. CASE c.stack = <<>>
    BY <1>1, <1>2 DEF FinalizeExit
  <1>3. CASE c.stack # <<>>
    <2> DEFINE p == Top(c.stack).state
               after == machine.after[p][c.value]
    <2>1. Top(d.stack).state = p /\ p \in State /\ d.stack # <<>>
      BY <1>1, <1>3, AlikeTop, TopFacts
    <2>2. after \in Value /\ machine.exit[p][after] \in Value
      BY <1>1, <2>1, BlockFacts
    <2>3. CASE p = Root
      <3> DEFINE v == machine.exit[p][after]
                 w == Noted(c, "exit", p)
                 x == Noted(d, "exit", p)
                 e == <<>>
      <3>1. FinalizeExit(c) = [stack |-> e, value |-> v, trace |-> w]
        BY <1>3, <2>3 DEF FinalizeExit
      <3>2. FinalizeExit(d) = [stack |-> e, value |-> v, trace |-> x]
        BY <1>1, <2>1, <2>3 DEF FinalizeExit
      <3>3. v \in Value /\ w \in Seq(Mark) /\ x \in Seq(Mark)
        BY <1>1, <2>1, <2>2, NotedFacts
      <3>4. e \in Seq(Frame) /\ Alike(e, e)
        BY EmptyShaped, AlikeEquivalence
      <3>5. [stack |-> e, value |-> v, trace |-> w].stack = e
        OBVIOUS
      <3> HIDE DEF v, w, x
      <3>6. Near(FinalizeExit(c), FinalizeExit(d))
        <4> HIDE DEF e
        <4> QED
          BY <3>1, <3>2, <3>3, <3>4, NearBuilt
      <3> QED
        BY <3>1, <3>5, <3>6
    <2>4. CASE p # Root
      <3> DEFINE a == [c EXCEPT !.stack = SetTop(@, "mode", "post_child_exit")]
                 b == [d EXCEPT !.stack = SetTop(@, "mode", "post_child_exit")]
      <3>1. /\ Near(a, b) /\ a.stack # <<>>
            /\ Top(a.stack).mode = "post_child_exit" /\ Top(b.stack).mode = "post_child_exit"
        BY <1>3, NearMode DEF Mode
      <3>2. /\ FinalizeExit(c) = [c EXCEPT !.stack = SetTop(@, "mode", "post_child_exit"), !.value = after]
            /\ FinalizeExit(d) = [d EXCEPT !.stack = SetTop(@, "mode", "post_child_exit"), !.value = after]
        BY <1>1, <1>3, <2>1, <2>4 DEF FinalizeExit
      <3>3. FinalizeExit(c) = [a EXCEPT !.value = after] /\ FinalizeExit(d) = [b EXCEPT !.value = after]
        BY <1>1, <3>2 DEF Contexts
      <3> HIDE DEF a, b, after
      <3>4. a \in Contexts /\ b \in Contexts
        BY <3>1 DEF Near
      <3>5. [a EXCEPT !.value = after].stack = a.stack /\ [b EXCEPT !.value = after].stack = b.stack
        BY <3>4 DEF Contexts
      <3> QED
        BY <2>2, <3>1, <3>3, <3>5, NearValue
    <2> QED
      BY <2>3, <2>4
  <1> QED
    BY <1>2, <1>3

(* Entering a child of the source's parent, or leaving it.                 *)
LEMMA NearTakeOut ==
  ASSUME machine \in Machine, NEW c, NEW d, Near(c, d), c.stack # <<>>,
         NEW t \in ToSet(machine.out[Top(c.stack).state])
  PROVE  LET a == TakeOut(c, t)
             b == TakeOut(d, t)
         IN  Near(a, b) /\ (a.stack # <<>> => Top(b.stack).mode = Top(a.stack).mode)
  <1> DEFINE source == Top(c.stack).state
             l == Left(c, t)
             m == Left(d, t)
             x == IF source \in Pseudo /\ l.stack # <<>> THEN Route(l, t.to) ELSE l
             y == IF source \in Pseudo /\ m.stack # <<>> THEN Route(m, t.to) ELSE m
  <1>1. Near(l, m) /\ Top(d.stack).state = source
    BY NearLeft
  <1>2. TakeOut(c, t) = IF t.to = Exit THEN FinalizeExit(ClearBefore(l, source)) ELSE EnterState(x, t.to)
    BY DEF TakeOut, Left
  <1>3. TakeOut(d, t) = IF t.to = Exit THEN FinalizeExit(ClearBefore(m, source)) ELSE EnterState(y, t.to)
    BY <1>1 DEF TakeOut, Left
  <1>4. t.to = Exit \/ t.to \in State
    <2>1. source \in State
      BY NearFacts, TopFacts
    <2> QED
      BY <2>1, OutFacts, ChildFacts
  <1> HIDE DEF l, m
  <1>5. CASE t.to = Exit
    <2>1. Near(ClearBefore(l, source), ClearBefore(m, source))
      BY <1>1, NearClear
    <2> QED
      BY <1>2, <1>3, <1>5, <2>1, NearFinalize
  <1>6. CASE t.to # Exit
    <2>1. Near(x, y)
      <3>1. m.stack # <<>> <=> l.stack # <<>>
        BY <1>1, NearFacts
      <3> QED
        BY <1>1, <3>1, NearRoute
    <2> HIDE DEF x, y
    <2> QED
      BY <1>2, <1>3, <1>4, <1>6, <2>1, NearEnter
  <1> QED
    BY <1>5, <1>6

(* Both forms of an initial transition.                                    *)
LEMMA NearTakeInit ==
  ASSUME machine \in Machine, NEW c, NEW d, Near(c, d), c.stack # <<>>,
         NEW t \in ToSet(machine.init[Top(c.stack).state]),
         NEW e \in {TakeInit(d, t), TakeInitNested(d, t)}
  PROVE  /\ Near(TakeInit(c, t), e)
         /\ TakeInit(c, t).stack # <<>>
         /\ Top(e.stack).mode = Top(TakeInit(c, t).stack).mode
  <1> DEFINE v == t.effect[c.value]
             x == Route([c EXCEPT !.value = v], t.to)
             y == Route([d EXCEPT !.value = v], t.to)
             a == [x EXCEPT !.stack = SetTop(@, "mode", "active")]
             b == [y EXCEPT !.stack = SetTop(@, "mode", "active")]
  <1>1. /\ c \in Contexts /\ d \in Contexts /\ d.value = c.value
        /\ c.stack \in Seq(Frame) /\ c.value \in Value
    BY NearFacts
  <1>2. t \in Transition /\ t.to \in State
    BY <1>1, TopFacts, InitFacts, ChildFacts
  <1>3. v \in Value
    BY <1>1, <1>2, EffectFacts
  <1>4. /\ TakeInit(c, t) = EnterState(a, t.to)
        /\ TakeInit(d, t) = EnterState(b, t.to) /\ TakeInitNested(d, t) = EnterState(y, t.to)
    <2>1. /\ [c EXCEPT !.value = t.effect[@]] = [c EXCEPT !.value = v]
          /\ [d EXCEPT !.value = t.effect[@]] = [d EXCEPT !.value = v]
      BY <1>1
    <2> QED
      BY <2>1, Zenon DEF TakeInit, TakeInitNested
  <1> HIDE DEF v
  <1>5. Near([c EXCEPT !.value = v], [d EXCEPT !.value = v]) /\ [c EXCEPT !.value = v].stack # <<>>
    <2>1. [c EXCEPT !.value = v].stack = c.stack
      BY <1>1 DEF Contexts
    <2> QED
      BY <1>3, <2>1, NearValue
  <1>6. Near(x, y) /\ x.stack # <<>>
    BY <1>5, NearRoute
  <1> HIDE DEF x, y
  <1>7. Near(a, b) /\ Near(a, y)
    BY <1>6, NearMode DEF Mode
  <1> HIDE DEF a, b
  <1>8. /\ Near(EnterState(a, t.to), EnterState(b, t.to)) /\ Near(EnterState(a, t.to), EnterState(y, t.to))
        /\ EnterState(a, t.to).stack # <<>>
        /\ Top(EnterState(b, t.to).stack) = Top(EnterState(a, t.to).stack)
        /\ Top(EnterState(y, t.to).stack) = Top(EnterState(a, t.to).stack)
    BY <1>2, <1>7, NearEnter
  <1> QED
    BY <1>4, <1>8

-------------------------------------------------------------------------------
(* Settled contexts, and their kin.                                        *)

(* Settled contexts that differ in modes below the top do not differ.      *)
LEMMA SettledUnique ==
  ASSUME NEW c \in Settled, NEW d \in Settled, Near(c, d),
         c.stack # <<>> => Top(d.stack).mode = Top(c.stack).mode
  PROVE  c = d
  <1> DEFINE s == c.stack
             r == d.stack
  <1>1. /\ c \in Contexts /\ d \in Contexts /\ c.trace = <<>> /\ d.trace = <<>>
        /\ d.value = c.value /\ Alike(s, r) /\ s \in Seq(Frame) /\ r \in Seq(Frame)
        /\ Descent(s, FALSE) /\ Descent(r, FALSE)
        /\ s # <<>> => Top(r).mode = Top(s).mode
    BY NearFacts DEF Settled, Shaped
  <1>2. Len(r) = Len(s) /\ Len(s) \in Nat /\ (s # <<>> => Top(r) = Top(s))
    BY <1>1, AlikeTop, SeqFacts
  <1>e. \A i \in 1..Len(s) : s[i] \in Frame /\ r[i] \in Frame
                             /\ r[i].state = s[i].state /\ (r[i].pending <=> s[i].pending)
    BY <1>1, <1>2, AlikeFacts, SeqFacts
  <1> HIDE DEF s, r
  <1>3. ASSUME NEW i \in 1..Len(s) PROVE r[i] = s[i]
    <2>1. CASE i = Len(s)
      <3>1. s # <<>>
        BY <1>1, <2>1, SeqFacts
      <3> QED
        BY <1>2, <2>1, <3>1 DEF Top
    <2>2. CASE i # Len(s)
      <3>1. i \in 1..(Len(s) - 1)
        BY <1>2, <2>2
      <3>2. s[i].mode = "active" /\ r[i].mode = "active"
        BY <1>1, <1>2, <3>1 DEF Descent
      <3>e. /\ s[i] \in Frame /\ r[i] \in Frame
            /\ r[i].state = s[i].state /\ (r[i].pending <=> s[i].pending)
        BY <1>e, Zenon
      <3>3. r[i] = [s[i] EXCEPT !.mode = r[i].mode]
        BY ONLY <3>e, SameFrame, ZenonT(30)
      <3>4. r[i] = [s[i] EXCEPT !.mode = s[i].mode] /\ s[i] \in Frame
        BY <1>e, <3>2, <3>3
      <3> QED
        BY ONLY <3>4, Zenon DEF Frame
    <2> QED
      BY <2>1, <2>2
  <1>4. r = s
    BY <1>1, <1>2, <1>3, SeqEqual
  <1> QED
    <2>1. c = [stack |-> s, value |-> c.value, trace |-> <<>>]
      BY <1>1 DEF Contexts, s
    <2>2. d = [stack |-> r, value |-> d.value, trace |-> <<>>]
      BY <1>1 DEF Contexts, r
    <2> QED
      BY <1>1, <1>4, <2>1, <2>2

(* What the loop looks at is the same for kin.                             *)
LEMMA KinFacts ==
  ASSUME NEW c, NEW d, Kin(c, d)
  PROVE  /\ c \in Settled /\ c \in Contexts /\ d \in Contexts /\ Near(c, d)
         /\ c.value = d.value /\ d.trace = <<>> /\ c.trace = <<>>
         /\ d.stack # <<>> <=> c.stack # <<>>
         /\ c.stack # <<>> => /\ Top(d.stack) = Top(c.stack)
                              /\ Waiting(d) <=> Waiting(c)
                              /\ Candidates(d) = Candidates(c)
         /\ \A t : Enabled(d, t) <=> Enabled(c, t)
         /\ Arrived(d) <=> Arrived(c)
         /\ Viable(d) <=> Viable(c)
  <1>1. /\ c \in Settled /\ c \in Contexts /\ d \in Contexts /\ Near(c, d)
        /\ d.value = c.value /\ d.trace = <<>> /\ c.trace = <<>>
        /\ d.stack # <<>> <=> c.stack # <<>>
        /\ c.stack \in Seq(Frame) /\ d.stack \in Seq(Frame) /\ Alike(c.stack, d.stack)
    BY NearFacts DEF Kin, Settled
  <1>2. c.stack # <<>> => Top(d.stack) = Top(c.stack)
    BY <1>1, AlikeTop DEF Kin
  <1>3. c.stack # <<>> => /\ Waiting(d) <=> Waiting(c)
                          /\ Candidates(d) = Candidates(c)
    BY <1>2 DEF Waiting, Candidates
  <1>4. \A t : Enabled(d, t) <=> Enabled(c, t)
    BY <1>1 DEF Enabled
  <1>5. Arrived(d) <=> Arrived(c)
    BY <1>1, <1>2, Zenon DEF Arrived
  <1>6. Viable(d) <=> Viable(c)
    BY <1>1, <1>2, <1>5, Zenon DEF Viable
  <1> QED
    BY <1>1, <1>2, <1>3, <1>4, <1>5, <1>6

(* A context is its own kin, and no two contexts have the same kin.        *)
LEMMA KinUnique ==
  /\ \A c \in Settled : Kin(c, c)
  /\ \A c, e, d : Kin(c, d) /\ Kin(e, d) => c = e
  /\ \A c : \A d \in Settled : Kin(c, d) => c = d
  <1>1. ASSUME NEW c \in Settled PROVE Kin(c, c)
    BY AlikeEquivalence, ContextFacts DEF Kin, Near, Settled
  <1>2. ASSUME NEW c, NEW e, NEW d, Kin(c, d), Kin(e, d) PROVE c = e
    <2>1. /\ c \in Settled /\ e \in Settled /\ Near(c, d) /\ Near(e, d)
          /\ c.stack # <<>> <=> d.stack # <<>>
          /\ e.stack # <<>> <=> d.stack # <<>>
          /\ c.stack # <<>> => Top(d.stack) = Top(c.stack)
          /\ e.stack # <<>> => Top(d.stack) = Top(e.stack)
      BY <1>2, KinFacts
    <2>2. Near(c, e)
      <3>1. /\ c \in Contexts /\ e \in Contexts /\ e.value = c.value
            /\ c.stack \in Seq(Frame) /\ e.stack \in Seq(Frame) /\ d.stack \in Seq(Frame)
            /\ Alike(c.stack, d.stack) /\ Alike(e.stack, d.stack)
        BY <2>1, NearFacts
      <3>2. Alike(c.stack, e.stack)
        BY <3>1, AlikeEquivalence
      <3> QED
        BY <3>1, <3>2 DEF Near
    <2> QED
      BY <2>1, <2>2, SettledUnique
  <1>3. ASSUME NEW c, NEW d \in Settled, Kin(c, d) PROVE c = d
    BY <1>1, <1>2, <1>3
  <1> QED
    BY <1>1, <1>2, <1>3

(* The validation pass: owners are active once they have routed.           *)
LEMMA TakeInitSettled ==
  ASSUME machine \in Machine, NEW c \in Contexts, c.stack # <<>>, Shaped(c.stack, FALSE),
         Waiting(c), NEW t \in ToSet(machine.init[Top(c.stack).state])
  PROVE  Shaped(TakeInit(c, t).stack, FALSE)
  <1> DEFINE v == t.effect[c.value]
             b == [c EXCEPT !.value = v]
             r == Route(b, t.to)
             q == SetTop(r.stack, "mode", "active")
             a == [r EXCEPT !.stack = q]
             s == c.stack
  <1>1. c.stack \in Seq(Frame) /\ c.value \in Value
    BY ContextFacts
  <1>2. t \in Transition /\ t.to \in Children(Top(c.stack).state) /\ t.to \in State
    BY <1>1, TopFacts, InitFacts, ChildFacts
  <1>3. v \in Value
    BY <1>1, <1>2, EffectFacts
  <1>4. TakeInit(c, t) = EnterState(a, t.to)
    BY Zenon DEF TakeInit
  <1> HIDE DEF v
  <1>5. r \in Contexts /\ r.stack # <<>> /\ Ready(r.stack, t.to, TRUE)
    BY <1>2, <1>3, WaitingRoutes
  <1>6. r.stack \in Seq(Frame) /\ Calmer(s, r.stack)
    <2>1. b \in Contexts /\ b.stack = s
      BY <1>3 DEF Contexts
    <2> HIDE DEF b
    <2> QED
      BY <2>1, RouteFacts, ContextFacts
  <1> HIDE DEF r
  <1>7. /\ q \in Seq(Frame) /\ Ready(q, t.to, TRUE) /\ Len(q) = Len(r.stack)
        /\ \A i \in 1..(Len(r.stack) - 1) : q[i] = r.stack[i]
        /\ q # <<>> /\ Top(q).mode = "active"
    BY <1>5, <1>6, ActiveReady, SetModeFacts, SetModeTop DEF Mode
  <1> HIDE DEF q
  <1>8. a \in Contexts /\ a.stack = q
    BY <1>5, <1>7 DEF Contexts
  <1>9. ASSUME NEW i \in 1..Len(q) PROVE q[i].mode = "active"
    <2>0. Len(q) = Len(s) /\ Len(s) \in Nat
      BY <1>1, <1>6, <1>7, SeqFacts DEF Calmer
    <2>1. CASE i = Len(q)
      BY <1>7, <2>1 DEF Top
    <2>2. CASE i # Len(q)
      <3>1. i \in 1..(Len(s) - 1) /\ i \in 1..Len(s) /\ i \in 1..(Len(r.stack) - 1)
        BY <1>7, <2>0, <2>2
      <3>2. s[i].mode = "active"
        BY <3>1 DEF Shaped, Descent
      <3> QED
        BY <1>6, <1>7, <3>1, <3>2 DEF Calmer
    <2> QED
      BY <2>1, <2>2
  <1>10. Ready(q, t.to, FALSE)
    BY <1>7, <1>9 DEF Ready
  <1> HIDE DEF a
  <1> QED
    BY <1>2, <1>4, <1>8, <1>10, EnterShaped

(* What a transition makes of a context, as the validation pass takes it.  *)
LEMMA TakenSettled ==
  ASSUME machine \in Machine, NEW c \in Settled, c.stack # <<>>, NEW t \in ToSet(Candidates(c))
  PROVE  /\ Taken(c, t) \in Settled
         /\ Waiting(c) => /\ t \in ToSet(machine.init[Top(c.stack).state])
                          /\ Taken(c, t) = Bare(TakeInit(c, t))
         /\ ~Waiting(c) => /\ t \in ToSet(machine.out[Top(c.stack).state])
                           /\ Taken(c, t) = Bare(TakeOut(c, t))
  <1>1. c \in Contexts /\ c.trace = <<>> /\ Shaped(c.stack, FALSE)
    BY DEF Settled
  <1>2. Taken(c, t) \in Contexts /\ Taken(c, t).trace = <<>>
    BY <1>1, TakenTyped
  <1>3. CASE Waiting(c)
    <2>1. t \in ToSet(machine.init[Top(c.stack).state])
      BY <1>3 DEF Candidates
    <2>2. TakeInit(c, t) \in Contexts /\ Shaped(TakeInit(c, t).stack, FALSE)
      BY <1>1, <1>3, <2>1, TakeInitSettled, TakeInitShaped
    <2>3. Taken(c, t) = Bare(TakeInit(c, t)) /\ Bare(TakeInit(c, t)).stack = TakeInit(c, t).stack
      BY <1>3, <2>2, ContextFacts DEF Taken
    <2> QED
      BY <1>2, <1>3, <2>1, <2>2, <2>3 DEF Settled
  <1>4. CASE ~Waiting(c)
    <2>1. t \in ToSet(machine.out[Top(c.stack).state])
      <3>1. ToSet(<<>>) = {}
        BY EmptySeq DEF ToSet
      <3> QED
        BY <1>4, <3>1 DEF Candidates
    <2>2. TakeOut(c, t) \in Contexts /\ Shaped(TakeOut(c, t).stack, FALSE)
      BY <1>1, <1>4, <2>1, TakeOutShaped
    <2>3. Taken(c, t) = Bare(TakeOut(c, t)) /\ Bare(TakeOut(c, t)).stack = TakeOut(c, t).stack
      BY <1>4, <2>2, ContextFacts DEF Taken
    <2> QED
      BY <1>2, <1>4, <2>1, <2>2, <2>3 DEF Settled
  <1> QED
    BY <1>3, <1>4

(* Kin of a settled context from what is near before the trace is dropped. *)
LEMMA KinBare ==
  ASSUME NEW a, NEW b, Near(a, b), Bare(a) \in Settled,
         a.stack # <<>> => Top(b.stack).mode = Top(a.stack).mode
  PROVE  Kin(Bare(a), Bare(b))
  <1>1. a \in Contexts /\ b \in Contexts /\ Alike(a.stack, b.stack) /\ b.value = a.value
    BY NearFacts
  <1>2. /\ Bare(a) \in Contexts /\ Bare(b) \in Contexts
        /\ Bare(a).stack = a.stack /\ Bare(b).stack = b.stack
        /\ Bare(a).value = a.value /\ Bare(b).value = b.value /\ Bare(b).trace = <<>>
    <2>1. <<>> \in Seq(Mark)
      BY EmptySeq
    <2> QED
      BY <1>1, <2>1 DEF Bare, Contexts
  <1> QED
    BY <1>1, <1>2, Zenon DEF Kin, Near

(* The same transition leads from kin to kin, in either form of an initial *)
(* transition.                                                             *)
LEMMA KinTaken ==
  ASSUME machine \in Machine, NEW c, NEW d, Kin(c, d), c.stack # <<>>,
         NEW t \in ToSet(Candidates(c))
  PROVE  /\ Kin(Taken(c, t), Taken(d, t))
         /\ Waiting(c) => Kin(Taken(c, t), Bare(TakeInitNested(d, t)))
  <1>1. /\ c \in Settled /\ c \in Contexts /\ d \in Contexts /\ Near(c, d)
        /\ Waiting(d) <=> Waiting(c)
    BY KinFacts
  <1>2. /\ Taken(c, t) \in Settled
        /\ Waiting(c) => /\ t \in ToSet(machine.init[Top(c.stack).state])
                         /\ Taken(c, t) = Bare(TakeInit(c, t))
        /\ ~Waiting(c) => /\ t \in ToSet(machine.out[Top(c.stack).state])
                          /\ Taken(c, t) = Bare(TakeOut(c, t))
    BY <1>1, TakenSettled
  <1>3. CASE Waiting(c)
    <2>1. \A e \in {TakeInit(d, t), TakeInitNested(d, t)} :
            /\ Near(TakeInit(c, t), e)
            /\ Top(e.stack).mode = Top(TakeInit(c, t).stack).mode
      BY <1>1, <1>2, <1>3, NearTakeInit
    <2>2. Kin(Bare(TakeInit(c, t)), Bare(TakeInit(d, t)))
          /\ Kin(Bare(TakeInit(c, t)), Bare(TakeInitNested(d, t)))
      BY <1>2, <1>3, <2>1, KinBare
    <2>3. Taken(d, t) = Bare(TakeInit(d, t))
      BY <1>1, <1>3 DEF Taken
    <2> QED
      BY <1>2, <1>3, <2>2, <2>3
  <1>4. CASE ~Waiting(c)
    <2>1. /\ Near(TakeOut(c, t), TakeOut(d, t))
          /\ TakeOut(c, t).stack # <<>> => Top(TakeOut(d, t).stack).mode = Top(TakeOut(c, t).stack).mode
      BY <1>1, <1>2, <1>4, NearTakeOut
    <2>2. Kin(Bare(TakeOut(c, t)), Bare(TakeOut(d, t)))
      BY <1>2, <1>4, <2>1, KinBare
    <2>3. Taken(d, t) = Bare(TakeOut(d, t))
      BY <1>1, <1>4 DEF Taken
    <2> QED
      BY <1>2, <1>4, <2>2, <2>3
  <1> QED
    BY <1>3, <1>4

(* The plain effect of arriving: the state on top is active.               *)
Resting(c) == [c EXCEPT !.stack = SetTop(@, "mode", "active")]

(* Kin come to rest as kin.                                                *)
LEMMA RestingFacts ==
  ASSUME NEW c, NEW d, Kin(c, d), Arrived(c)
  PROVE  Kin(Resting(c), Resting(d)) /\ Resting(c) \in Settled
  <1>1. /\ c \in Settled /\ c \in Contexts /\ d \in Contexts /\ Near(c, d) /\ c.stack # <<>>
        /\ d.trace = <<>> /\ c.trace = <<>> /\ c.stack \in Seq(Frame) /\ Shaped(c.stack, FALSE)
        /\ Top(c.stack).mode # "init_wait"
    BY KinFacts, NearFacts DEF Arrived, Settled
  <1>2. /\ Near(Resting(c), Resting(d))
        /\ Top(Resting(c).stack).mode = "active" /\ Top(Resting(d).stack).mode = "active"
    BY <1>1, NearMode DEF Mode, Resting
  <1>3. Resting(c).trace = <<>> /\ Resting(d).trace = <<>>
        /\ Resting(c).stack = SetTop(c.stack, "mode", "active")
    BY <1>1 DEF Resting, Contexts
  <1>4. Shaped(SetTop(c.stack, "mode", "active"), FALSE)
    BY <1>1, SetModeShaped DEF Mode
  <1>5. Resting(c) \in Settled
    BY <1>2, <1>3, <1>4 DEF Settled, Near
  <1> QED
    BY <1>2, <1>3, <1>5 DEF Kin

(* The search goes on alike from kin.                                      *)
LEMMA KinOnward ==
  ASSUME machine \in Machine, NEW c, NEW d, Kin(c, d)
  PROVE  /\ \A x \in Onward(c) : x \in Settled /\ \E y \in Onward(d) : Kin(x, y)
         /\ \A y \in Onward(d) : \E x \in Onward(c) : Kin(x, y)
  <1>1. /\ c \in Settled
        /\ Viable(d) <=> Viable(c)
        /\ Arrived(d) <=> Arrived(c)
        /\ c.stack # <<>> => Candidates(d) = Candidates(c)
        /\ \A t : Enabled(d, t) <=> Enabled(c, t)
    BY KinFacts
  <1>2. CASE Viable(c)
    BY <1>1, <1>2 DEF Onward
  <1>3. CASE ~Viable(c) /\ Arrived(c)
    <2>1. Onward(c) = {Resting(c)} /\ Onward(d) = {Resting(d)}
      BY <1>1, <1>3 DEF Onward, Resting
    <2> QED
      BY <1>3, <2>1, RestingFacts
  <1>4. CASE ~Viable(c) /\ ~Arrived(c)
    <2> DEFINE T == {t \in ToSet(Candidates(c)) : Enabled(c, t)}
    <2>1. c.stack # <<>>
      BY <1>4 DEF Viable
    <2>2. Onward(c) = {Taken(c, t) : t \in T} /\ Onward(d) = {Taken(d, t) : t \in T}
      <3>1. T = {t \in ToSet(Candidates(d)) : Enabled(d, t)}
        BY <1>1, <2>1
      <3> QED
        BY <1>1, <1>4, <3>1 DEF Onward
    <2>3. \A t \in T : Kin(Taken(c, t), Taken(d, t)) /\ Taken(c, t) \in Settled
      BY <1>1, <2>1, KinTaken, TakenSettled
    <2> HIDE DEF T
    <2> QED
      BY <2>2, <2>3
  <1> QED
    BY <1>2, <1>3, <1>4

(* Contexts that are settled but for modes below the top.                  *)
Kindred == {d \in Contexts : \E c : Kin(c, d)}

(* The search stays among the kindred contexts.                            *)
LEMMA KindredOnward ==
  ASSUME machine \in Machine, NEW d \in Kindred
  PROVE  Onward(d) \subseteq Kindred
  <1>1. PICK c : Kin(c, d)
    BY DEF Kindred
  <1>2. Onward(d) \subseteq Contexts
    BY OnwardTyped DEF Kindred
  <1> QED
    BY <1>1, <1>2, KinOnward DEF Kindred

-------------------------------------------------------------------------------
(* There are finitely many.                                                *)

(* What is mapped one to one into a finite set is finite.                  *)
LEMMA FiniteSource ==
  ASSUME NEW S, NEW T, IsFiniteSet(T), NEW f \in [S -> T],
         \A x, y \in S : f[x] = f[y] => x = y
  PROVE  IsFiniteSet(S) /\ Cardinality(S) <= Cardinality(T)
  BY FS_Injection DEF Injection, IsInjective

(* There are finitely many frames.                                         *)
LEMMA FiniteFrames ==
  ASSUME IsFiniteSet(State)
  PROVE  IsFiniteSet(Frame)
  <1> DEFINE T == (State \X Mode) \X BOOLEAN
             f == [x \in Frame |-> <<<<x.state, x.mode>>, x.pending>>]
  <1>1. IsFiniteSet(Mode) /\ IsFiniteSet(BOOLEAN)
    <2>1. IsFiniteSet({"active"}) /\ IsFiniteSet({TRUE})
      BY FS_Singleton
    <2>2. IsFiniteSet({"active"} \cup {"after_entry"}) /\ IsFiniteSet({TRUE} \cup {FALSE})
      BY <2>1, FS_AddElement
    <2>3. IsFiniteSet(({"active"} \cup {"after_entry"}) \cup {"init_wait"})
      BY <2>2, FS_AddElement
    <2>4. IsFiniteSet((({"active"} \cup {"after_entry"}) \cup {"init_wait"}) \cup {"post_child_exit"})
      BY <2>3, FS_AddElement
    <2>5. Mode = ((({"active"} \cup {"after_entry"}) \cup {"init_wait"}) \cup {"post_child_exit"})
      BY DEF Mode
    <2>6. BOOLEAN = {TRUE} \cup {FALSE}
      OBVIOUS
    <2> QED
      BY <2>2, <2>4, <2>5, <2>6
  <1>2. IsFiniteSet(T)
    <2>1. IsFiniteSet(State \X Mode)
      BY <1>1, FS_Product
    <2> QED
      BY <1>1, <2>1, FS_Product
  <1>3. f \in [Frame -> T]
    <2> SUFFICES ASSUME NEW x \in Frame PROVE <<<<x.state, x.mode>>, x.pending>> \in T
      BY Zenon
    <2>1. x.state \in State /\ x.mode \in Mode /\ x.pending \in BOOLEAN
      BY DEF Frame
    <2> QED
      BY <2>1, Zenon
  <1>4. ASSUME NEW x \in Frame, NEW y \in Frame, f[x] = f[y] PROVE x = y
    <2>1. /\ x = [state |-> x.state, mode |-> x.mode, pending |-> x.pending]
          /\ y = [state |-> y.state, mode |-> y.mode, pending |-> y.pending]
      BY Zenon DEF Frame
    <2>2. <<<<x.state, x.mode>>, x.pending>> = <<<<y.state, y.mode>>, y.pending>>
      BY <1>4
    <2>3. x.state = y.state /\ x.mode = y.mode /\ x.pending = y.pending
      BY <2>2, Zenon
    <2> QED
      BY <2>1, <2>3, Zenon
  <1> HIDE DEF T, f
  <1> QED
    BY <1>2, <1>3, <1>4, FiniteSource

(* No stack is longer than there are states.                               *)
LEMMA ShortStack ==
  ASSUME IsFiniteSet(State), NEW s \in Seq(Frame), IsPath(States(s))
  PROVE  Len(s) <= Cardinality(State)
  <1> DEFINE f == [i \in 1..Len(s) |-> s[i].state]
  <1>1. Len(s) \in Nat /\ \A i \in 1..Len(s) : s[i].state \in State
    <2>1. Len(s) \in Nat /\ \A i \in 1..Len(s) : s[i] \in Frame
      BY SeqFacts
    <2> QED
      BY <2>1 DEF Frame
  <1>2. f \in [1..Len(s) -> State]
    BY <1>1
  <1>3. ASSUME NEW i \in 1..Len(s), NEW j \in 1..Len(s), f[i] = f[j] PROVE i = j
    <2>1. s[i].state = s[j].state
      BY <1>3
    <2>2. ~(i < j) /\ ~(j < i)
      BY <2>1, PathDistinct
    <2> QED
      BY <1>1, <2>2
  <1> HIDE DEF f
  <1>4. Cardinality(1..Len(s)) <= Cardinality(State)
    BY <1>2, <1>3, FiniteSource
  <1>5. Cardinality(1..Len(s)) = Len(s)
    <2>1. \A n \in Nat : Cardinality(1..n) = IF 1 > n THEN 0 ELSE n - 1 + 1
      BY FS_Interval
    <2> QED
      BY <1>1, <2>1
  <1> QED
    BY <1>4, <1>5

(* There are finitely many kindred contexts, for the stack is a path.      *)
LEMMA KindredFinite ==
  ASSUME IsFiniteSet(State), IsFiniteSet(Value)
  PROVE  IsFiniteSet(Kindred)
  <1> DEFINE N == Cardinality(State)
             Slots == (1..N) \X Frame
             T == (SUBSET Slots) \X Value
             cells(d) == {<<i, d.stack[i]>> : i \in 1..Len(d.stack)}
             f == [d \in Kindred |-> <<cells(d), d.value>>]
  <1>1. N \in Nat
    BY FS_CardinalityType
  <1>2. IsFiniteSet(T)
    <2>1. IsFiniteSet(1..N) /\ IsFiniteSet(Frame)
      BY <1>1, FS_Interval, FiniteFrames
    <2>2. IsFiniteSet(Slots)
      BY <2>1, FS_Product
    <2> HIDE DEF Slots
    <2>3. IsFiniteSet(SUBSET Slots)
      BY <2>2, FS_SUBSET
    <2> QED
      BY <2>3, FS_Product
  <1>3. ASSUME NEW d \in Kindred
        PROVE  /\ d \in Contexts /\ d.trace = <<>> /\ d.value \in Value /\ d.stack \in Seq(Frame)
               /\ Len(d.stack) \in 0..N
    <2>1. PICK c : Kin(c, d)
      BY DEF Kindred
    <2>2. /\ d \in Contexts /\ d.trace = <<>> /\ d.value \in Value /\ d.stack \in Seq(Frame)
          /\ c \in Settled /\ c.stack \in Seq(Frame) /\ Alike(c.stack, d.stack)
      BY <2>1, KinFacts, NearFacts
    <2>3. IsPath(States(c.stack)) /\ Len(d.stack) = Len(c.stack) /\ Len(c.stack) \in Nat
      BY <2>2, SeqFacts DEF Settled, Shaped, Alike
    <2>4. Len(c.stack) <= N
      BY <2>2, <2>3, ShortStack
    <2> QED
      BY <1>1, <2>2, <2>3, <2>4
  <1>4. f \in [Kindred -> T]
    <2> SUFFICES ASSUME NEW d \in Kindred PROVE cells(d) \subseteq Slots /\ d.value \in Value
      BY Zenon
    <2>1. \A i \in 1..Len(d.stack) : i \in 1..N /\ d.stack[i] \in Frame
      BY <1>1, <1>3, SeqFacts
    <2> QED
      BY <1>3, <2>1
  <1>5. ASSUME NEW x \in Kindred, NEW y \in Kindred, f[x] = f[y] PROVE x = y
    <2> DEFINE s == x.stack
               r == y.stack
    <2>1. cells(x) = cells(y) /\ x.value = y.value
      <3>1. <<cells(x), x.value>> = <<cells(y), y.value>>
        BY <1>5, Zenon
      <3> HIDE DEF cells
      <3> QED
        BY <3>1
    <2>2. s \in Seq(Frame) /\ r \in Seq(Frame) /\ Len(s) \in Nat /\ Len(r) \in Nat
      BY <1>3, SeqFacts
    <2>3. {<<i, s[i]>> : i \in 1..Len(s)} = {<<i, r[i]>> : i \in 1..Len(r)}
      BY <2>1
    <2>0. x = [stack |-> s, value |-> x.value, trace |-> <<>>] /\ y = [stack |-> r, value |-> y.value, trace |-> <<>>]
      BY <1>3 DEF Contexts
    <2> HIDE DEF s, r
    <2>4. ASSUME NEW i \in 1..Len(s) PROVE i \in 1..Len(r) /\ r[i] = s[i]
      <3>1. <<i, s[i]>> \in {<<j, s[j]>> : j \in 1..Len(s)}
        OBVIOUS
      <3>2. PICK j \in 1..Len(r) : <<i, s[i]>> = <<j, r[j]>>
        BY <2>3, <3>1, Zenon
      <3> QED
        BY <3>2
    <2>5. ASSUME NEW i \in 1..Len(r) PROVE i \in 1..Len(s)
      <3>1. <<i, r[i]>> \in {<<j, r[j]>> : j \in 1..Len(r)}
        OBVIOUS
      <3>2. PICK j \in 1..Len(s) : <<i, r[i]>> = <<j, s[j]>>
        BY <2>3, <3>1, Zenon
      <3> QED
        BY <3>2
    <2>6. Len(s) = Len(r)
      <3>1. CASE Len(s) < Len(r)
        <4>1. Len(r) \in 1..Len(r)
          BY <2>2, <3>1
        <4> QED
          BY <2>2, <2>5, <3>1, <4>1
      <3>2. CASE Len(r) < Len(s)
        <4>1. Len(s) \in 1..Len(s)
          BY <2>2, <3>2
        <4> QED
          BY <2>2, <2>4, <3>2, <4>1
      <3> QED
        BY <2>2, <3>1, <3>2
    <2>7. s = r
      BY <2>2, <2>4, <2>6, SeqEqual
    <2> QED
      BY <2>0, <2>1, <2>7
  <1> HIDE DEF T, f
  <1> QED
    BY <1>2, <1>4, <1>5, FiniteSource

-------------------------------------------------------------------------------
(* What the search finds.                                                  *)

(* The search from a candidate's source holds the start and what follows,  *)
(* goes on until it holds a viable context or nothing more follows, and    *)
(* never goes on from the source.                                          *)
Onwards(S, source) == \A c \in S \ {source} : Onward(c) \subseteq S

Fruitful(S) == \E c \in S : Viable(c)

(* What is explored is the least set that the search does not leave, or    *)
(* holds a viable context.                                                 *)
LEMMA ExploredFacts ==
  ASSUME machine \in Machine, IsFiniteSet(State), IsFiniteSet(Value),
         NEW source, NEW start \in Kindred
  PROVE  LET R == Explored(source, start)
         IN  /\ start \in R /\ R \subseteq Kindred
             /\ \A S : start \in S /\ Onwards(S, source) => R \subseteq S
             /\ Fruitful(R) \/ Onwards(R, source)
  <1> DEFINE D == SUBSET Contexts
             U == Kindred
             F(k) == Further(source, k)
  <1>1. PICK f : /\ Explored(source, start) = f[{start}]
                 /\ \A k \in D : f[k] = IF Done(source, k) THEN k ELSE f[F(k)]
    <2>1. start \in Contexts
      BY DEF Kindred
    <2> QED
      BY <2>1, ExploredOpens
  <1> DEFINE Good(k) == /\ k \subseteq f[k] /\ f[k] \subseteq U
                        /\ \A S : k \subseteq S /\ Onwards(S, source) => f[k] \subseteq S
                        /\ Fruitful(f[k]) \/ Onwards(f[k], source)
             Bad == {k \in SUBSET U : ~Good(k)}
             Rest(k) == Cardinality(U \ k)
  <1>2. U \subseteq Contexts
    BY DEF Kindred
  <1>3. IsFiniteSet(U)
    BY KindredFinite
  <1>4. \A k : k \subseteq F(k)
    BY DEF Further
  <1>5. \A k, S : k \subseteq S /\ Onwards(S, source) => F(k) \subseteq S
    BY DEF Further, Onwards
  <1>6. Onwards(U, source)
    BY KindredOnward DEF Onwards
  <1>7. \A k \in SUBSET U : F(k) \in SUBSET U
    BY <1>5, <1>6
  <1>8. \A k \in SUBSET U : IsFiniteSet(U \ k) /\ Rest(k) \in Nat
    <2> TAKE k \in SUBSET U
    <2>1. IsFiniteSet(U \ k)
      BY <1>3, FS_Difference
    <2> QED
      BY <2>1, FS_CardinalityType
  <1>9. \A k : Done(source, k) => Fruitful(k) \/ Onwards(k, source)
    <2> SUFFICES ASSUME NEW k, Done(source, k), ~Fruitful(k)
                 PROVE  Onwards(k, source)
      OBVIOUS
    <2>1. Further(source, k) = k
      BY DEF Done, Fruitful
    <2> QED
      BY <2>1 DEF Further, Onwards
  <1>10. \A k : ~Done(source, k) => F(k) # k
    BY DEF Done
  <1> HIDE DEF F
  <1>11. ASSUME NEW k \in SUBSET U, Done(source, k) PROVE Good(k)
    <2>1. f[k] = k
      BY <1>1, <1>2, <1>11
    <2> QED
      BY <1>9, <1>11, <2>1
  <1>12. ASSUME NEW k \in SUBSET U, ~Done(source, k), Good(F(k)) PROVE Good(k)
    <2>1. f[k] = f[F(k)]
      BY <1>1, <1>2, <1>12
    <2> QED
      BY <1>4, <1>5, <1>12, <2>1
  <1>13. ASSUME NEW k \in SUBSET U, ~Done(source, k) PROVE Rest(F(k)) < Rest(k)
    <2>1. F(k) \in SUBSET U /\ k \subseteq F(k) /\ F(k) # k
      BY <1>4, <1>7, <1>10, <1>13
    <2>2. U \ F(k) \in SUBSET (U \ k) /\ U \ F(k) # U \ k
      BY <2>1
    <2>3. Rest(F(k)) <= Rest(k) /\ Rest(F(k)) # Rest(k)
      BY <1>8, <2>2, FS_Subset
    <2> QED
      BY <1>8, <2>1, <2>3
  <1> HIDE DEF Good, Rest
  <1>14. Bad = {}
    <2> SUFFICES ASSUME Bad # {} PROVE FALSE
      OBVIOUS
    <2> DEFINE T == {Rest(k) : k \in Bad}
    <2>1. T \in SUBSET Nat /\ T # {}
      BY <1>8
    <2>2. PICK n \in T : \A m \in T : n <= m
      BY <2>1, LeastNumber
    <2>3. PICK k \in Bad : n = Rest(k)
      BY <2>2
    <2>4. k \in SUBSET U /\ ~Good(k)
      BY <2>3
    <2>5. ~Done(source, k)
      BY <1>11, <2>4
    <2>6. F(k) \in SUBSET U /\ ~Good(F(k))
      BY <1>7, <1>12, <2>4, <2>5
    <2>7. Rest(k) <= Rest(F(k))
      BY <2>2, <2>3, <2>6
    <2>8. Rest(F(k)) < Rest(k) /\ Rest(k) \in Nat /\ Rest(F(k)) \in Nat
      BY <1>8, <1>13, <2>4, <2>5, <2>6
    <2> QED
      BY <2>7, <2>8
  <1>15. {start} \in SUBSET U
    OBVIOUS
  <1>16. Good({start})
    BY <1>14, <1>15
  <1> QED
    BY <1>1, <1>16 DEF Good

-------------------------------------------------------------------------------
(* What the search accepts.                                                *)

Accepts(c, t) == Enabled(c, t) /\ Fruitful(Explored(c, Taken(c, t)))

(* From c no viable context can be reached ...                             *)
Lost(c) ==
  \E S \in SUBSET Settled : c \in S /\ ~Fruitful(S) /\ \A e \in S : Onward(e) \subseteq S

(* ... without passing v.                                                  *)
Locked(c, v) ==
  \E S \in SUBSET Settled : c \in S /\ ~Fruitful(S) /\ Onwards(S, v)

(* The search for a candidate starts from kin in kin.                      *)
LEMMA KinStart ==
  ASSUME machine \in Machine, NEW c, NEW d, Kin(c, d), c.stack # <<>>,
         NEW t \in ToSet(Candidates(c))
  PROVE  Taken(d, t) \in Kindred /\ Kin(Taken(c, t), Taken(d, t)) /\ Taken(c, t) \in Settled
  <1>1. Kin(Taken(c, t), Taken(d, t))
    BY KinTaken
  <1> QED
    BY <1>1, KinFacts DEF Kindred

(* A candidate accepted in a settled context is accepted in its kin.       *)
LEMMA KinAccepts ==
  ASSUME machine \in Machine, IsFiniteSet(State), IsFiniteSet(Value),
         NEW v, NEW u, Kin(v, u), v.stack # <<>>, NEW t \in ToSet(Candidates(v)), Accepts(v, t)
  PROVE  Accepts(u, t)
  <1> SUFFICES ASSUME ~Accepts(u, t) PROVE FALSE
    OBVIOUS
  <1> DEFINE R == Explored(v, Taken(v, t))
             Q == Explored(u, Taken(u, t))
             S == {c \in Settled : \E d \in Q : Kin(c, d)}
  <1>1. Enabled(v, t) /\ Fruitful(R) /\ Enabled(u, t) /\ ~Fruitful(Q)
    BY KinFacts DEF Accepts
  <1>2. /\ Taken(v, t) \in Kindred /\ Taken(u, t) \in Kindred /\ Taken(v, t) \in Settled
        /\ Kin(Taken(v, t), Taken(u, t))
    <2>1. Kin(v, v)
      BY KinFacts, KinUnique
    <2> QED
      BY <2>1, KinStart
  <1>3. Taken(u, t) \in Q /\ Onwards(Q, u)
    BY <1>1, <1>2, ExploredFacts
  <1>4. \A T : Taken(v, t) \in T /\ Onwards(T, v) => R \subseteq T
    BY <1>2, ExploredFacts
  <1> HIDE DEF R, Q
  <1>5. Taken(v, t) \in S
    BY <1>2, <1>3
  <1>6. Onwards(S, v)
    <2> SUFFICES ASSUME NEW c \in S, c # v, NEW x \in Onward(c) PROVE x \in S
      BY DEF Onwards
    <2>1. PICK d \in Q : Kin(c, d)
      OBVIOUS
    <2>2. d # u
      BY <2>1, KinUnique
    <2>3. Onward(d) \subseteq Q
      BY <1>3, <2>2 DEF Onwards
    <2>4. x \in Settled /\ \E y \in Onward(d) : Kin(x, y)
      BY <2>1, KinOnward
    <2> QED
      BY <2>3, <2>4
  <1>7. R \subseteq S
    BY <1>4, <1>5, <1>6
  <1>8. PICK e \in S : Viable(e)
    BY <1>1, <1>7 DEF Fruitful
  <1>9. PICK d \in Q : Kin(e, d)
    BY <1>8
  <1> QED
    BY <1>1, <1>8, <1>9, KinFacts DEF Fruitful

(* An accepted candidate leads somewhere.                                  *)
LEMMA AcceptedNotLost ==
  ASSUME machine \in Machine, IsFiniteSet(State), IsFiniteSet(Value),
         NEW y, NEW u, Kin(y, u), y.stack # <<>>, NEW t \in ToSet(Candidates(y)), Accepts(u, t)
  PROVE  ~Lost(Taken(y, t))
  <1> SUFFICES ASSUME NEW S \in SUBSET Settled, Taken(y, t) \in S, ~Fruitful(S),
                      \A e \in S : Onward(e) \subseteq S
               PROVE  FALSE
    BY DEF Lost
  <1> DEFINE Q == Explored(u, Taken(u, t))
             T == {d \in Contexts : \E c \in S : Kin(c, d)}
  <1>1. Taken(u, t) \in Kindred /\ Kin(Taken(y, t), Taken(u, t)) /\ Taken(u, t) \in T
    BY KinStart DEF Kindred
  <1>2. Onwards(T, u)
    <2> SUFFICES ASSUME NEW d \in T, NEW x \in Onward(d) PROVE x \in T
      BY DEF Onwards
    <2>1. PICK c \in S : Kin(c, d)
      OBVIOUS
    <2>2. PICK z \in Onward(c) : Kin(z, x)
      BY <2>1, KinOnward
    <2>3. z \in S /\ x \in Contexts
      BY <2>1, <2>2, KinFacts
    <2> QED
      BY <2>2, <2>3
  <1>3. Q \subseteq T
    BY <1>1, <1>2, ExploredFacts
  <1>4. PICK d \in T : Viable(d)
    BY <1>3 DEF Accepts, Fruitful
  <1>5. PICK c \in S : Kin(c, d)
    BY <1>4
  <1> QED
    BY <1>4, <1>5, KinFacts DEF Fruitful

(* One that is not leads nowhere, or back.                                 *)
LEMMA RejectedLocked ==
  ASSUME machine \in Machine, IsFiniteSet(State), IsFiniteSet(Value),
         NEW v \in Settled, v.stack # <<>>, NEW t \in ToSet(Candidates(v)),
         Enabled(v, t), ~Accepts(v, t)
  PROVE  Locked(Taken(v, t), v)
  <1> DEFINE R == Explored(v, Taken(v, t))
  <1>1. Taken(v, t) \in Kindred /\ Taken(v, t) \in Settled /\ ~Fruitful(R)
    <2>1. Kin(v, v)
      BY KinUnique
    <2> QED
      BY <2>1, KinStart DEF Accepts
  <1>2. Onwards(Settled, v)
    <2>1. \A c \in Settled : Kin(c, c)
      BY KinUnique
    <2>2. \A c \in Settled : \A x \in Onward(c) : x \in Settled
      BY <2>1, KinOnward
    <2> QED
      BY <2>2 DEF Onwards
  <1>3. Taken(v, t) \in R /\ R \subseteq Settled /\ Onwards(R, v)
    BY <1>1, <1>2, ExploredFacts
  <1> QED
    BY <1>1, <1>3 DEF Locked

-------------------------------------------------------------------------------
(* What is selected.                                                       *)

(* The selection is the first accepted candidate, if there is one.         *)
LEMMA SelectionFirst ==
  ASSUME machine \in Machine, NEW c \in Contexts, c.trace = <<>>, c.stack # <<>>
  PROVE  LET K == Candidates(c)
             take == Selection(c).take
         IN  /\ \A t \in take : t \in ToSet(K) /\ Accepts(c, t)
             /\ \A t \in take : \E i \in DOMAIN K :
                  /\ t = K[i] /\ Accepts(c, K[i])
                  /\ \A j \in DOMAIN K : Accepts(c, K[j]) => i <= j
             /\ \A i \in DOMAIN K : Accepts(c, K[i]) /\ (\A j \in DOMAIN K : Accepts(c, K[j]) => i <= j)
                                     => K[i] \in take
             /\ \A t, u \in take : t = u
             /\ \A t \in ToSet(K) : Accepts(c, t) => take # {} /\ ~Selection(c).raises
  <1> DEFINE K == Candidates(c)
             take == Selection(c).take
             A == {i \in DOMAIN K : VerdictOf(c, K[i]) = "accept"}
             good == {i \in DOMAIN K : Accepts(c, K[i])}
             raises == Selection(c).raises
  <1>1. K \in Seq(Transition) /\ DOMAIN K \in SUBSET Nat
    <2>1. Top(c.stack).state \in State
      BY ContextFacts, TopFacts
    <2>2. /\ machine.init[Top(c.stack).state] \in Seq(Transition)
          /\ machine.out[Top(c.stack).state] \in Seq(Transition)
      <3>1. IsMachine(machine)
        BY TreeAssumption
      <3> QED
        BY <2>1, <3>1 DEF IsMachine
    <2>3. K \in Seq(Transition)
      BY <2>2, EmptySeq DEF Candidates
    <2> HIDE DEF K
    <2> QED
      BY <2>3, SeqFacts
  <1>2. /\ take = {K[i] : i \in {j \in A : \A k \in A : j <= k}}
        /\ raises => A = {}
    <2> DEFINE verdict == [i \in DOMAIN K |-> VerdictOf(c, K[i])]
               B == {i \in DOMAIN K : verdict[i] = "accept"}
    <2>1. /\ take = {K[i] : i \in {j \in B : \A k \in B : j <= k}}
          /\ raises => B = {}
      BY Zenon DEF Selection
    <2>2. B = A
      OBVIOUS
    <2> HIDE DEF A, B, take, raises
    <2> QED
      BY <2>1, <2>2
  <1>3. Bare(c) = c
    BY DEF Bare, Contexts
  <1>4. \A t : VerdictOf(c, t) = "accept" <=> Accepts(c, t)
    BY <1>3 DEF VerdictOf, Verdict, Accepts, Fruitful
  <1>5. A = good
    BY <1>4
  <1>6. ToSet(K) = {K[i] : i \in DOMAIN K}
    BY DEF ToSet
  <1> HIDE DEF K, take, A, raises
  <1>7. take = {K[i] : i \in {j \in good : \A k \in good : j <= k}} /\ (raises => good = {})
    BY <1>2, <1>5
  <1>8. \A t \in take : t \in ToSet(K) /\ Accepts(c, t)
    BY <1>6, <1>7
  <1>9. \A t \in take : \E i \in DOMAIN K :
          /\ t = K[i] /\ Accepts(c, K[i])
          /\ \A j \in DOMAIN K : Accepts(c, K[j]) => i <= j
    BY <1>7
  <1>10. \A i \in DOMAIN K : Accepts(c, K[i]) /\ (\A j \in DOMAIN K : Accepts(c, K[j]) => i <= j)
                              => K[i] \in take
    BY <1>7
  <1>11. \A t, u \in take : t = u
    <2> TAKE t, u \in take
    <2>1. PICK i \in DOMAIN K : /\ t = K[i] /\ Accepts(c, K[i])
                                /\ \A j \in DOMAIN K : Accepts(c, K[j]) => i <= j
      BY <1>9
    <2>2. PICK k \in DOMAIN K : /\ u = K[k] /\ Accepts(c, K[k])
                                /\ \A j \in DOMAIN K : Accepts(c, K[j]) => k <= j
      BY <1>9
    <2>3. i <= k /\ k <= i /\ i \in Nat /\ k \in Nat
      BY <1>1, <2>1, <2>2
    <2> QED
      BY <2>1, <2>2, <2>3
  <1>12. \A t \in ToSet(K) : Accepts(c, t) => take # {} /\ ~raises
    <2> SUFFICES ASSUME NEW t \in ToSet(K), Accepts(c, t)
                 PROVE  take # {} /\ ~raises
      OBVIOUS
    <2>1. good \in SUBSET Nat /\ good # {}
      BY <1>1, <1>6
    <2>2. PICK i \in good : \A j \in good : i <= j
      BY <2>1, LeastNumber
    <2>3. K[i] \in take
      BY <1>10, <2>2
    <2> QED
      BY <1>7, <2>1, <2>3
  <1> QED
    BY <1>8, <1>9, <1>10, <1>11, <1>12 DEF K, take, raises

(* What the selection in kin of a settled context differs in.              *)
LEMMA KinSelects ==
  ASSUME machine \in Machine, IsFiniteSet(State), IsFiniteSet(Value),
         NEW v, NEW u, Kin(v, u), v.stack # <<>>
  PROVE  /\ \A t \in Selection(u).take :
              /\ t \in ToSet(Candidates(v)) /\ Accepts(u, t) /\ Enabled(v, t)
              /\ Accepts(v, t) => t \in Selection(v).take
         /\ Selection(v).take # {} => Selection(u).take # {} /\ ~Selection(u).raises
         /\ Selection(u).raises => Selection(u).take = {}
  <1> DEFINE K == Candidates(v)
  <1>1. /\ v \in Contexts /\ u \in Contexts /\ v.trace = <<>> /\ u.trace = <<>> /\ u.stack # <<>>
        /\ Candidates(u) = K
        /\ \A t : Enabled(u, t) <=> Enabled(v, t)
    BY KinFacts
  <1>2. \A t \in ToSet(K) : Accepts(v, t) => Accepts(u, t)
    BY KinAccepts
  <1>3. \A i \in DOMAIN K : K[i] \in ToSet(K)
    BY DEF ToSet
  <1> HIDE DEF K
  <1>4. ASSUME NEW t \in Selection(u).take
        PROVE  /\ t \in ToSet(K) /\ Accepts(u, t) /\ Enabled(v, t)
               /\ Accepts(v, t) => t \in Selection(v).take
    <2>1. t \in ToSet(K) /\ Accepts(u, t)
      BY <1>1, SelectionFirst
    <2>2. PICK i \in DOMAIN K : /\ t = K[i]
                                /\ \A j \in DOMAIN K : Accepts(u, K[j]) => i <= j
      BY <1>1, SelectionFirst
    <2>3. \A j \in DOMAIN K : Accepts(v, K[j]) => i <= j
      BY <1>2, <1>3, <2>2
    <2>4. Accepts(v, t) => K[i] \in Selection(v).take
      BY <1>1, <2>2, <2>3, SelectionFirst DEF K
    <2>5. Enabled(v, t)
      BY <1>1, <2>1 DEF Accepts
    <2> QED
      BY <2>1, <2>2, <2>4, <2>5
  <1>5. Selection(v).take # {} => Selection(u).take # {} /\ ~Selection(u).raises
    <2> SUFFICES ASSUME NEW t \in Selection(v).take
                 PROVE  Selection(u).take # {} /\ ~Selection(u).raises
      OBVIOUS
    <2>1. t \in ToSet(K) /\ Accepts(v, t)
      BY <1>1, SelectionFirst DEF K
    <2> QED
      BY <1>1, <1>2, <2>1, SelectionFirst
  <1>6. Selection(u).raises => Selection(u).take = {}
    <2> SUFFICES ASSUME NEW t \in Selection(u).take PROVE ~Selection(u).raises
      OBVIOUS
    <2> QED
      BY <1>1, SelectionFirst
  <1> QED
    BY <1>4, <1>5, <1>6 DEF K

(* Where a viable context can be reached, the selection finds a way.       *)
LEMMA NotLostSelects ==
  ASSUME machine \in Machine, IsFiniteSet(State), IsFiniteSet(Value),
         NEW y, NEW u, Kin(y, u), ~Viable(y), ~Arrived(y), ~Lost(y)
  PROVE  Selection(u).take # {}
  <1> SUFFICES ASSUME Selection(u).take = {} PROVE FALSE
    OBVIOUS
  <1> DEFINE K == ToSet(Candidates(y))
             Q(t) == Explored(u, Taken(u, t))
             S == {y} \cup {c \in Settled : \E t \in K : /\ Enabled(y, t)
                                                         /\ \E d \in Q(t) : Kin(c, d)}
  <1>1. /\ y \in Settled /\ u \in Contexts /\ y.trace = <<>> /\ u.trace = <<>>
        /\ y.stack # <<>> /\ u.stack # <<>>
        /\ Candidates(u) = Candidates(y)
        /\ \A t : Enabled(u, t) <=> Enabled(y, t)
    BY KinFacts DEF Viable
  <1>2. \A t \in K : Enabled(y, t) =>
          /\ Taken(u, t) \in Q(t) /\ ~Fruitful(Q(t)) /\ Onwards(Q(t), u)
          /\ Kin(Taken(y, t), Taken(u, t)) /\ Taken(y, t) \in Settled
    <2> SUFFICES ASSUME NEW t \in K, Enabled(y, t)
                 PROVE  /\ Taken(u, t) \in Q(t) /\ ~Fruitful(Q(t)) /\ Onwards(Q(t), u)
                        /\ Kin(Taken(y, t), Taken(u, t)) /\ Taken(y, t) \in Settled
      OBVIOUS
    <2>1. ~Accepts(u, t)
      BY <1>1, SelectionFirst
    <2>2. ~Fruitful(Q(t))
      BY <1>1, <2>1 DEF Accepts
    <2>3. Taken(u, t) \in Kindred /\ Kin(Taken(y, t), Taken(u, t)) /\ Taken(y, t) \in Settled
      BY <1>1, KinStart
    <2> QED
      BY <2>2, <2>3, ExploredFacts
  <1>3. Onward(y) = {Taken(y, t) : t \in {u_ \in K : Enabled(y, u_)}}
    BY DEF Onward
  <1> HIDE DEF K, Q
  <1>4. y \in S /\ S \in SUBSET Settled
    BY <1>1
  <1>5. ~Fruitful(S)
    <2> SUFFICES ASSUME NEW c \in S, Viable(c) PROVE FALSE
      BY DEF Fruitful
    <2>1. PICK t \in K : Enabled(y, t) /\ \E d \in Q(t) : Kin(c, d)
      OBVIOUS
    <2>2. PICK d \in Q(t) : Kin(c, d)
      BY <2>1
    <2>3. Viable(d)
      BY <2>2, KinFacts
    <2> QED
      BY <1>2, <2>1, <2>2, <2>3 DEF Fruitful
  <1>6. Onward(y) \subseteq S
    BY <1>2, <1>3
  <1>7. \A c \in S : Onward(c) \subseteq S
    <2> SUFFICES ASSUME NEW c \in S, c # y, NEW x \in Onward(c) PROVE x \in S
      BY <1>6
    <2>1. PICK t \in K : Enabled(y, t) /\ \E d \in Q(t) : Kin(c, d)
      OBVIOUS
    <2>2. PICK d \in Q(t) : Kin(c, d)
      BY <2>1
    <2>3. d # u
      BY <2>2, KinUnique
    <2>4. Onward(d) \subseteq Q(t)
      BY <1>2, <2>1, <2>2, <2>3 DEF Onwards
    <2>5. x \in Settled /\ \E z \in Onward(d) : Kin(x, z)
      BY <2>2, KinOnward
    <2> QED
      BY <2>1, <2>4, <2>5
  <1> QED
    BY <1>4, <1>5, <1>7 DEF Lost

-------------------------------------------------------------------------------
(* The validation pass, and where it leads.                                *)

Staying(c) == [c EXCEPT !.stack = SetTop(@, "mode", "after_entry"),
                        !.value = machine.during[Top(c.stack).state][@]]

Stays(c) ==
  /\ ~Waiting(c)
  /\ Top(c.stack).state \in Leaf
  /\ ~NoOutgoing(Top(c.stack).state)
  /\ Nothing(Selection(c))

(* The validation pass goes from c to d, or stays in c for good.           *)
LeadsOn(c, d) ==
  IF Viable(c) THEN d = c
  ELSE IF Arrived(c) THEN d = Resting(c)
  ELSE IF Selection(c).take # {} THEN \E t \in Selection(c).take : d = Taken(c, t)
  ELSE IF Stays(c) THEN d = Staying(c)
  ELSE d = c

LeadsBack(S) == \A c \in Settled : (\E d \in S : LeadsOn(c, d)) => c \in S

(* From c it comes to w.                                                   *)
Ends(c, w) == \A S \in SUBSET Settled : w \in S /\ LeadsBack(S) => c \in S

(* The way of the validation pass never forks.                             *)
LEMMA LeadsOnOne ==
  ASSUME machine \in Machine, NEW c \in Settled, NEW d, NEW e, LeadsOn(c, d), LeadsOn(c, e)
  PROVE  d = e
  <1>1. CASE Viable(c) \/ Arrived(c) \/ Selection(c).take = {}
    BY <1>1 DEF LeadsOn
  <1>2. CASE ~Viable(c) /\ ~Arrived(c) /\ Selection(c).take # {}
    <2>1. \A t, u \in Selection(c).take : t = u
      <3>1. c \in Contexts /\ c.trace = <<>> /\ c.stack # <<>>
        BY <1>2 DEF Settled, Viable
      <3> QED
        BY <3>1, SelectionFirst
    <2> QED
      BY <1>2, <2>1 DEF LeadsOn
  <1> QED
    BY <1>1, <1>2

(* The end of the way, one step further and one step back.                 *)
LEMMA EndsFacts ==
  ASSUME machine \in Machine
  PROVE  /\ \A c : Ends(c, c)
         /\ \A x : \A c, d \in Settled : Ends(x, c) /\ LeadsOn(c, d) => Ends(x, d)
         /\ \A c, w, d \in Settled : Ends(c, w) /\ LeadsOn(c, d) => c = w \/ Ends(d, w)
         /\ \A c, w \in Settled : Ends(c, w) /\ LeadsOn(c, c) => c = w
  <1>1. \A c : Ends(c, c)
    BY DEF Ends
  <1>2. \A x : \A c, d \in Settled : Ends(x, c) /\ LeadsOn(c, d) => Ends(x, d)
    BY DEF Ends, LeadsBack
  <1>3. ASSUME NEW c \in Settled, NEW w \in Settled, NEW d \in Settled,
               Ends(c, w), LeadsOn(c, d), c # w
        PROVE  Ends(d, w)
    <2> DEFINE S == {w} \cup {x \in Settled : \E y \in Settled : LeadsOn(x, y) /\ Ends(y, w)}
    <2>1. S \in SUBSET Settled /\ w \in S
      OBVIOUS
    <2>2. LeadsBack(S)
      <3> SUFFICES ASSUME NEW x \in Settled, NEW y \in S, LeadsOn(x, y) PROVE x \in S
        BY DEF LeadsBack
      <3>1. Ends(y, w)
        <4>1. CASE y = w
          BY <1>1, <4>1
        <4>2. CASE y # w
          <5>1. PICK z \in Settled : LeadsOn(y, z) /\ Ends(z, w)
            BY <4>2
          <5>2. y \in Settled
            BY <2>1
          <5> QED
            BY <5>1, <5>2 DEF Ends, LeadsBack
        <4> QED
          BY <4>1, <4>2
      <3> QED
        BY <2>1, <3>1
    <2>3. c \in S
      BY <1>3, <2>1, <2>2 DEF Ends
    <2>4. PICK y \in Settled : LeadsOn(c, y) /\ Ends(y, w)
      BY <1>3, <2>3
    <2> QED
      BY <1>3, <2>4, LeadsOnOne
  <1>4. ASSUME NEW c \in Settled, NEW w \in Settled, Ends(c, w), LeadsOn(c, c), c # w
        PROVE  FALSE
    <2> DEFINE S == Settled \ {c}
    <2>1. LeadsBack(S)
      <3> SUFFICES ASSUME NEW x \in Settled, NEW y \in S, LeadsOn(x, y), x = c PROVE FALSE
        BY DEF LeadsBack
      <3> QED
        BY <1>4, LeadsOnOne
    <2> QED
      BY <1>4, <2>1 DEF Ends
  <1> QED
    BY <1>1, <1>2, <1>3, <1>4

(* What staying in a leaf makes of a settled context.                      *)
LEMMA StayingSettled ==
  ASSUME machine \in Machine, NEW c \in Settled, c.stack # <<>>, ~Waiting(c)
  PROVE  Staying(c) \in Settled
  <1> DEFINE s == SetTop(c.stack, "mode", "after_entry")
             v == machine.during[Top(c.stack).state][c.value]
  <1>1. /\ c \in Contexts /\ c.trace = <<>> /\ Shaped(c.stack, FALSE)
        /\ c.stack \in Seq(Frame) /\ c.value \in Value
    BY ContextFacts DEF Settled
  <1>2. s \in Seq(Frame) /\ Shaped(s, FALSE)
    BY <1>1, SetModeShaped DEF Mode, Waiting
  <1>3. v \in Value
    BY <1>1, TopFacts, BlockFacts
  <1>4. Staying(c) = [c EXCEPT !.stack = s, !.value = v]
    BY DEF Staying
  <1> HIDE DEF s, v
  <1>5. Staying(c) \in Contexts /\ Staying(c).stack = s /\ Staying(c).trace = <<>>
    BY <1>1, <1>2, <1>3, <1>4 DEF Contexts
  <1> QED
    BY <1>2, <1>5 DEF Settled

(* The end of a descent is seen in modes below the top only.               *)
LEMMA SettleAlike ==
  ASSUME NEW s \in Seq(Frame), NEW d \in BOOLEAN, Shaped(s, d)
  PROVE  Alike(s, Settle(s)) /\ (s # <<>> => Top(Settle(s)).mode = Top(s).mode)
  <1> DEFINE r == Settle(s)
             f(i) == IF i < Len(s) /\ s[i].mode = "init_wait" THEN [s[i] EXCEPT !.mode = "active"]
                     ELSE s[i]
  <1>1. /\ Len(s) \in Nat /\ \A i \in 1..Len(s) : s[i] \in Frame
        /\ s # <<>> => Len(s) \in 1..Len(s)
    BY SeqFacts
  <1>2. \A i \in 1..Len(s) : f(i) = [s[i] EXCEPT !.mode = f(i).mode]
    <2> TAKE i \in 1..Len(s)
    <2>1. s[i] \in Frame
      BY <1>1
    <2>2. CASE i < Len(s) /\ s[i].mode = "init_wait"
      <3>1. f(i) = [s[i] EXCEPT !.mode = "active"]
        BY <2>2
      <3>2. [s[i] EXCEPT !.mode = "active"].mode = "active"
        BY <2>1, FrameFacts DEF Mode
      <3> HIDE DEF f
      <3> QED
        BY <3>1, <3>2
    <2>3. CASE ~(i < Len(s) /\ s[i].mode = "init_wait")
      <3>1. f(i) = s[i]
        BY <2>3
      <3>2. s[i] = [s[i] EXCEPT !.mode = s[i].mode]
        BY ONLY <2>1, Zenon DEF Frame
      <3> HIDE DEF f
      <3> QED
        BY <3>1, <3>2
    <2> QED
      BY <2>2, <2>3
  <1>3. r = [i \in 1..Len(s) |-> f(i)] /\ r \in Seq(Frame)
    BY SettleShaped DEF Settle
  <1>4. s # <<>> => f(Len(s)) = s[Len(s)]
    BY <1>1
  <1> HIDE DEF r, f
  <1>5. Len(r) = Len(s) /\ \A i \in 1..Len(s) : r[i] = f(i)
    BY <1>1, <1>3, LenProperties
  <1>6. Alike(s, r)
    BY <1>2, <1>5 DEF Alike
  <1>7. s # <<>> => Top(r) = Top(s)
    BY <1>1, <1>4, <1>5 DEF Top
  <1> QED
    BY <1>6, <1>7 DEF r

(* It leads to the settled context the descent is kin of.                  *)
LEMMA KinSettle ==
  ASSUME NEW c, NEW e \in Contexts, Kin(c, Bare(e)), Shaped(e.stack, TRUE)
  PROVE  Bare([e EXCEPT !.stack = Settle(@)]) = c
  <1> DEFINE s == Settle(e.stack)
             f == Bare([e EXCEPT !.stack = Settle(@)])
  <1>1. e.stack \in Seq(Frame) /\ Bare(e).stack = e.stack /\ Bare(e).value = e.value
    BY ContextFacts DEF Bare, Contexts
  <1>2. /\ s \in Seq(Frame) /\ Shaped(s, FALSE) /\ Alike(e.stack, s)
        /\ e.stack # <<>> => Top(s).mode = Top(e.stack).mode
    BY <1>1, SettleShaped, SettleAlike
  <1> HIDE DEF s
  <1>3. f \in Contexts /\ f.stack = s /\ f.value = e.value /\ f.trace = <<>>
    <2>1. f = [[e EXCEPT !.stack = s] EXCEPT !.trace = <<>>]
      BY DEF Bare, s
    <2>2. <<>> \in Seq(Mark)
      BY EmptySeq
    <2> HIDE DEF f
    <2> QED
      BY <1>2, <2>1, <2>2 DEF Contexts
  <1> HIDE DEF f
  <1>4. f \in Settled
    BY <1>2, <1>3 DEF Settled
  <1>5. /\ c \in Settled /\ c \in Contexts /\ c.stack \in Seq(Frame) /\ Alike(c.stack, e.stack)
        /\ e.value = c.value /\ (c.stack # <<>> => Top(e.stack) = Top(c.stack))
        /\ e.stack # <<>> <=> c.stack # <<>>
    BY <1>1, KinFacts, NearFacts
  <1>6. Alike(c.stack, s)
    BY <1>1, <1>2, <1>5, AlikeEquivalence
  <1>7. Near(c, f)
    BY <1>3, <1>5, <1>6 DEF Near
  <1>8. c = f
    BY <1>2, <1>3, <1>4, <1>5, <1>7, SettledUnique
  <1> QED
    BY <1>8 DEF f

-------------------------------------------------------------------------------
(* The committed pass on its course to the context w.                      *)

(* It is where the validation pass comes by, but for modes below the top,  *)
(* or has left its way and can only come back to it.                       *)
OnCourse(u, w) ==
  \E v \in Settled : /\ Ends(v, w)
                     /\ \E y : Kin(y, u) /\ (y = v \/ (Locked(y, v) /\ ~Lost(y)))

(* A transition is taken.                                                  *)
LEMMA CourseTakes ==
  ASSUME machine \in Machine, IsFiniteSet(State), IsFiniteSet(Value),
         NEW u, NEW w \in Settled, OnCourse(u, w), u.stack # <<>>, ~Arrived(u),
         Viable(w), NEW t \in Selection(u).take,
         NEW d, \A y : Kin(y, u) => Kin(Taken(y, t), d)
  PROVE  OnCourse(d, w)
  <1>1. PICK v, y : /\ v \in Settled /\ Ends(v, w) /\ Kin(y, u)
                    /\ y = v \/ (Locked(y, v) /\ ~Lost(y))
    BY DEF OnCourse
  <1>2. /\ y \in Settled /\ y.stack # <<>> /\ ~Arrived(y) /\ ~Viable(y)
        /\ Candidates(u) = Candidates(y)
    BY <1>1, KinFacts DEF Viable
  <1>3. /\ t \in ToSet(Candidates(y)) /\ Accepts(u, t) /\ Enabled(y, t)
        /\ Accepts(y, t) => t \in Selection(y).take
    BY <1>1, <1>2, KinSelects
  <1>4. Taken(y, t) \in Settled /\ Kin(Taken(y, t), d) /\ ~Lost(Taken(y, t))
    BY <1>1, <1>2, <1>3, TakenSettled, AcceptedNotLost
  <1>5. Taken(y, t) \in Onward(y)
    BY <1>2, <1>3 DEF Onward
  <1>6. CASE y = v /\ Accepts(v, t)
    <2>1. LeadsOn(v, Taken(v, t))
      BY <1>2, <1>3, <1>6 DEF LeadsOn
    <2>2. v # w
      BY <1>2, <1>6
    <2>3. Ends(Taken(v, t), w)
      BY <1>1, <1>4, <1>6, <2>1, <2>2, EndsFacts
    <2> QED
      BY <1>4, <1>6, <2>3 DEF OnCourse
  <1>7. CASE y = v /\ ~Accepts(v, t)
    <2>1. Locked(Taken(v, t), v)
      BY <1>2, <1>3, <1>7, RejectedLocked
    <2> QED
      BY <1>1, <1>4, <1>7, <2>1 DEF OnCourse
  <1>8. CASE y # v
    <2>1. Locked(Taken(y, t), v)
      BY <1>1, <1>5, <1>8 DEF Locked, Onwards
    <2> QED
      BY <1>1, <1>4, <2>1 DEF OnCourse
  <1> QED
    BY <1>6, <1>7, <1>8

(* A pseudo state is arrived in.                                           *)
LEMMA CourseRests ==
  ASSUME machine \in Machine,
         NEW u \in Settled, NEW w \in Settled, OnCourse(u, w), Arrived(u), ~Viable(u), Viable(w)
  PROVE  OnCourse(Resting(u), w)
  <1>1. PICK v, y : /\ v \in Settled /\ Ends(v, w) /\ Kin(y, u)
                    /\ y = v \/ (Locked(y, v) /\ ~Lost(y))
    BY DEF OnCourse
  <1>2. y = u
    BY <1>1, KinUnique
  <1>3. Kin(Resting(u), Resting(u)) /\ Resting(u) \in Settled
    BY <1>1, <1>2, RestingFacts
  <1>4. Onward(u) = {Resting(u)}
    BY DEF Onward, Resting
  <1>5. CASE u = v
    <2>1. LeadsOn(v, Resting(v)) /\ v # w
      BY <1>5 DEF LeadsOn
    <2>2. Ends(Resting(v), w)
      BY <1>1, <1>3, <1>5, <2>1, EndsFacts
    <2> QED
      BY <1>3, <1>5, <2>2 DEF OnCourse
  <1>6. CASE u # v
    <2>1. Locked(Resting(u), v)
      BY <1>1, <1>2, <1>4, <1>6 DEF Locked, Onwards
    <2>2. ~Lost(Resting(u))
      <3> SUFFICES ASSUME Lost(Resting(u)) PROVE Lost(u)
        BY <1>1, <1>2, <1>6
      <3>1. PICK S \in SUBSET Settled : /\ Resting(u) \in S /\ ~Fruitful(S)
                                        /\ \A e \in S : Onward(e) \subseteq S
        BY DEF Lost
      <3> DEFINE T == S \cup {u}
      <3>2. T \in SUBSET Settled /\ u \in T /\ ~Fruitful(T)
        BY <3>1 DEF Fruitful
      <3>3. \A e \in T : Onward(e) \subseteq T
        BY <1>4, <3>1
      <3> QED
        BY <3>2, <3>3 DEF Lost
    <2> QED
      BY <1>1, <1>3, <2>1, <2>2 DEF OnCourse
  <1> QED
    BY <1>5, <1>6

(* Where nothing is selected, the committed pass is where the validation   *)
(* pass comes by.                                                          *)
LEMMA CourseWaits ==
  ASSUME machine \in Machine, IsFiniteSet(State), IsFiniteSet(Value),
         NEW u, NEW w \in Settled, OnCourse(u, w), u.stack # <<>>, ~Arrived(u),
         Selection(u).take = {}
  PROVE  \E v \in Settled : /\ Ends(v, w) /\ Kin(v, u) /\ ~Viable(v) /\ ~Arrived(v)
                            /\ Selection(v).take = {}
  <1>1. PICK v, y : /\ v \in Settled /\ Ends(v, w) /\ Kin(y, u)
                    /\ y = v \/ (Locked(y, v) /\ ~Lost(y))
    BY DEF OnCourse
  <1>2. y \in Settled /\ y.stack # <<>> /\ ~Arrived(y) /\ ~Viable(y)
    BY <1>1, KinFacts DEF Viable
  <1>3. y = v
    BY <1>1, <1>2, NotLostSelects
  <1>4. Selection(v).take = {}
    BY <1>1, <1>2, <1>3, KinSelects
  <1> QED
    BY <1>1, <1>2, <1>3, <1>4

(* A leaf stays.                                                           *)
LEMMA CourseStays ==
  ASSUME machine \in Machine, IsFiniteSet(State), IsFiniteSet(Value),
         NEW u \in Settled, NEW w \in Settled, OnCourse(u, w), u.stack # <<>>, ~Arrived(u),
         Stays(u), Viable(w)
  PROVE  OnCourse(Staying(u), w)
  <1>1. Selection(u).take = {} /\ ~Waiting(u)
    BY DEF Stays, Nothing
  <1>2. Ends(u, w) /\ ~Viable(u)
    <2>1. PICK v \in Settled : Ends(v, w) /\ Kin(v, u) /\ ~Viable(v)
      BY <1>1, CourseWaits
    <2>2. v = u
      BY <2>1, KinUnique
    <2> QED
      BY <2>1, <2>2
  <1>3. Staying(u) \in Settled /\ LeadsOn(u, Staying(u))
    BY <1>1, <1>2, StayingSettled DEF LeadsOn
  <1>4. Ends(Staying(u), w)
    BY <1>2, <1>3, EndsFacts
  <1>5. Kin(Staying(u), Staying(u))
    BY <1>3, KinUnique
  <1> QED
    BY <1>3, <1>4, <1>5 DEF OnCourse

(* The course ends in w.                                                   *)
LEMMA CourseEnds ==
  ASSUME machine \in Machine,
         NEW u \in Settled, NEW w \in Settled, OnCourse(u, w), Viable(u)
  PROVE  u = w
  <1>1. PICK v, y : /\ v \in Settled /\ Ends(v, w) /\ Kin(y, u)
                    /\ y = v \/ (Locked(y, v) /\ ~Lost(y))
    BY DEF OnCourse
  <1>2. y = u
    BY <1>1, KinUnique
  <1>3. u = v
    BY <1>1, <1>2 DEF Locked, Fruitful
  <1>4. LeadsOn(u, u)
    BY DEF LeadsOn
  <1> QED
    BY <1>1, <1>3, <1>4, EndsFacts

(* On it there is nothing to raise.                                        *)
LEMMA CourseQuiet ==
  ASSUME machine \in Machine, IsFiniteSet(State), IsFiniteSet(Value),
         NEW u, NEW w \in Settled, OnCourse(u, w), u.stack # <<>>, ~Arrived(u), Viable(w),
         u \in Settled \/ Waiting(u)
  PROVE  ~Selection(u).raises
  <1> SUFFICES ASSUME Selection(u).raises PROVE FALSE
    OBVIOUS
  <1>1. Selection(u).take = {}
    <2>1. PICK y : Kin(y, u)
      BY DEF OnCourse
    <2>2. y.stack # <<>>
      BY <2>1, KinFacts
    <2> QED
      BY <2>1, <2>2, KinSelects
  <1>2. PICK v \in Settled : /\ Ends(v, w) /\ Kin(v, u) /\ ~Viable(v) /\ ~Arrived(v)
                             /\ Selection(v).take = {}
    BY <1>1, CourseWaits
  <1>3. ~Stays(v)
    <2>1. CASE u \in Settled
      <3>1. v = u
        BY <1>2, <2>1, KinUnique
      <3> QED
        BY <3>1 DEF Stays, Nothing
    <2>2. CASE Waiting(u)
      BY <1>2, <2>2, KinFacts DEF Stays
    <2> QED
      BY <2>1, <2>2
  <1>4. LeadsOn(v, v)
    BY <1>2, <1>3 DEF LeadsOn
  <1> QED
    BY <1>2, <1>4, EndsFacts

-------------------------------------------------------------------------------
(* What depends on the machine and the events only stays as it is.         *)

(* Where a transition leads depends on the machine and the events only.    *)
LEMMA SameTaken ==
  ASSUME UNCHANGED <<machine, events>>, NEW c, NEW t
  PROVE  Taken(c, t)' = Taken(c, t) /\ Enabled(c, t)' = Enabled(c, t)
  BY SMT DEF Enabled, Taken, Waiting, TakeInit, TakeOut, EnterState, Route, ConsumeBefore,
             FinalizeExit, ClearBefore, Bare, Noted, NoOutgoing, SetTop, Top, Pop

(* So do the layers of the search,                                         *)
LEMMA SameOnward ==
  ASSUME UNCHANGED <<machine, events>>, NEW c
  PROVE  Viable(c)' = Viable(c) /\ Onward(c)' = Onward(c) /\ Candidates(c)' = Candidates(c)
  BY SMT DEF Viable, Arrived, Onward, Taken, Candidates, Enabled, Waiting, TakeInit, TakeOut,
             EnterState, Route, ConsumeBefore, FinalizeExit, ClearBefore, Bare, Noted,
             NoOutgoing, SetTop, Top, Pop

(* what it explores,                                                       *)
LEMMA SameExplored ==
  ASSUME UNCHANGED <<machine, events>>, NEW source, NEW start
  PROVE  Explored(source, start)' = Explored(source, start)
  <1>1. \A c : Viable(c)' <=> Viable(c)
    BY SameOnward
  <1>2. \A c : Onward(c)' = Onward(c)
    BY SameOnward
  <1>3. \A k : Further(source, k)' = Further(source, k)
    BY ONLY <1>2, Zenon DEF Further
  <1> QED
    BY ONLY <1>1, <1>3, ZenonT(60) DEF Explored

(* and what it finds repeating.                                            *)
LEMMA SameRepeating ==
  ASSUME UNCHANGED <<machine, events>>, NEW s
  PROVE  Repeating(s)' = Repeating(s)
  <1>2. \A c : Onward(c)' = Onward(c)
    BY SameOnward
  <1>3. \A k : Continuing(k)' = Continuing(k)
    <2> TAKE k
    <2>1. \A c : c \in Continuing(k)' <=> c \in Continuing(k)
      BY ONLY <1>2, Zenon DEF Continuing
    <2> QED
      BY <2>1
  <1> QED
    BY ONLY <1>3, Zenon DEF Repeating

(* The selection depends on machine and events only.                       *)
LEMMA SameSelection ==
  ASSUME UNCHANGED <<machine, events>>, NEW c
  PROVE  Selection(c)' = Selection(c)
  <1>1. /\ \A x : Viable(x)' <=> Viable(x)
        /\ \A x, y : Explored(x, y)' = Explored(x, y)
        /\ \A x : Repeating(x)' = Repeating(x)
    BY SameOnward, SameExplored, SameRepeating
  <1>2. \A x, y : Verdict(x, y)' = Verdict(x, y)
    BY ONLY <1>1, Zenon DEF Verdict
  <1>3. /\ \A x, t : (Enabled(x, t)' <=> Enabled(x, t)) /\ Taken(x, t)' = Taken(x, t)
        /\ \A x : Candidates(x)' = Candidates(x)
    BY SameTaken, SameOnward
  <1>4. \A x, t : VerdictOf(x, t)' = VerdictOf(x, t)
    BY ONLY <1>2, <1>3, Zenon DEF VerdictOf, Bare
  <1> QED
    BY ONLY <1>3, <1>4, Zenon DEF Selection

-------------------------------------------------------------------------------
(* What the promise is worth.                                              *)

(* What a pass that ends in w makes of it.                                 *)
Final(w) == IF w.stack = <<>> THEN w ELSE Resting(w)

(* The validation pass has come where it is from the snapshot; the pass    *)
(* that is committed is on course to where the validation pass ended.      *)
PromiseInv ==
  /\ pass = "validating" => run \in Settled /\ Ends(Bare(Snapshot), run)
  /\ pass = "committing" =>
       \E w \in Settled : Viable(w) /\ promise = Final(w) /\ OnCourse(run, w)

(* So do the ways of the passes.                                           *)
LEMMA SameCourse ==
  ASSUME UNCHANGED <<machine, events>>
  PROVE  /\ \A c, w : Ends(c, w)' <=> Ends(c, w)
         /\ \A c, w : OnCourse(c, w)' <=> OnCourse(c, w)
  <1>1. /\ \A c : Selection(c)' = Selection(c)
        /\ \A c, t : Taken(c, t)' = Taken(c, t)
        /\ \A c : Onward(c)' = Onward(c)
    BY SameSelection, SameTaken, SameOnward
  <1>2. /\ \A c : Staying(c)' = Staying(c)
        /\ \A c : NoOutgoing(Top(c.stack).state)' <=> NoOutgoing(Top(c.stack).state)
    BY DEF Staying, NoOutgoing
  <1>3. \A c : Stays(c)' <=> Stays(c)
    BY ONLY <1>1, <1>2, Zenon DEF Stays, Waiting, Top, Nothing
  <1>4. \A c, d : LeadsOn(c, d)' <=> LeadsOn(c, d)
    BY ONLY <1>1, <1>2, <1>3, Zenon DEF LeadsOn
  <1>5. \A S : LeadsBack(S)' <=> LeadsBack(S)
    BY ONLY <1>4, Zenon DEF LeadsBack
  <1>6. \A c, w : Ends(c, w)' <=> Ends(c, w)
    BY ONLY <1>5, Zenon DEF Ends
  <1>7. \A S, v : Onwards(S, v)' <=> Onwards(S, v)
    BY ONLY <1>1, Zenon DEF Onwards
  <1>8. \A c : Lost(c)' <=> Lost(c)
    BY ONLY <1>1, Zenon DEF Lost
  <1>9. \A c, v : Locked(c, v)' <=> Locked(c, v)
    BY ONLY <1>7, Zenon DEF Locked
  <1>10. \A c, w : OnCourse(c, w)' <=> OnCourse(c, w)
    BY ONLY <1>6, <1>8, <1>9, Zenon DEF OnCourse
  <1> QED
    BY <1>6, <1>10

(* A pass starts where the other one did.                                  *)
LEMMA StartSettled ==
  ASSUME IInv, ~Ended
  PROVE  Bare(Snapshot) \in Settled
  <1>1. Snapshot \in Contexts /\ Shaped(Snapshot.stack, FALSE)
    BY SnapshotShaped DEF IInv, TypeOK
  <1>2. Bare(Snapshot) \in Contexts /\ Bare(Snapshot).stack = Snapshot.stack
    BY <1>1, ContextFacts
  <1>3. Bare(Snapshot).trace = <<>>
    BY <1>1 DEF Bare, Contexts
  <1> QED
    BY <1>1, <1>2, <1>3 DEF Settled

(* Where the loop iterates, the clone is settled.                          *)
LEMMA RunSettled ==
  ASSUME IInv, PromiseInv, pass # "idle", ~nested
  PROVE  run \in Settled
  <1>1. run \in Contexts /\ Shaped(run.stack, FALSE)
    <2>1. nested = FALSE
      BY DEF IInv, TypeOK
    <2> QED
      BY <2>1 DEF IInv, TypeOK
  <1>2. CASE pass = "validating"
    BY <1>2 DEF PromiseInv
  <1>3. CASE pass = "committing"
    <2>1. PICK w, y : Kin(y, run)
      BY <1>3 DEF PromiseInv, OnCourse
    <2> QED
      BY <1>1, <2>1, KinFacts DEF Settled
  <1> QED
    BY <1>2, <1>3 DEF IInv, TypeOK, Pass

(* A move keeps to the course.                                             *)
LEMMA MovePromise ==
  ASSUME IInv, PromiseInv, pass # "idle", NEW c, Move(c),
         pass = "validating" => Bare(c) \in Settled /\ LeadsOn(run, Bare(c)),
         pass = "committing" =>
           \A w \in Settled : Viable(w) /\ OnCourse(run, w) => OnCourse(Bare(c), w)
  PROVE  PromiseInv'
  <1>1. /\ run' = Bare(c)
        /\ UNCHANGED <<machine, stack, value, initialized, pass, events, promise>>
    BY DEF Move, public
  <1>2. Bare(Snapshot)' = Bare(Snapshot)
    BY <1>1 DEF Snapshot, Context, EnterState, Bare, Noted, NoOutgoing
  <1>3. /\ \A x, w : Ends(x, w)' <=> Ends(x, w)
        /\ \A x, w : OnCourse(x, w)' <=> OnCourse(x, w)
    BY <1>1, SameCourse
  <1>4. ASSUME pass' = "validating"
        PROVE  run' \in Settled /\ Ends(Bare(Snapshot), run)'
    <2>1. run \in Settled /\ Ends(Bare(Snapshot), run) /\ run' \in Settled /\ LeadsOn(run, run')
      BY <1>1, <1>4 DEF PromiseInv
    <2>2. Ends(Bare(Snapshot), run')
      BY <2>1, EndsFacts DEF IInv, TypeOK
    <2> QED
      BY <1>2, <1>3, <2>1, <2>2
  <1>5. ASSUME pass' = "committing"
        PROVE  \E w \in Settled : Viable(w) /\ promise' = Final(w) /\ OnCourse(run, w)'
    <2>1. PICK w \in Settled : Viable(w) /\ promise = Final(w) /\ OnCourse(run, w)
      BY <1>1, <1>5 DEF PromiseInv
    <2>2. OnCourse(run', w)
      BY <1>1, <1>5, <2>1
    <2> QED
      BY <1>1, <1>3, <2>1, <2>2
  <1> QED
    BY <1>4, <1>5 DEF PromiseInv

(* An initial transition is taken, in the form of the pass.                *)
LEMMA TakeInitialPromise ==
  ASSUME IsFiniteSet(State), IsFiniteSet(Value),
         IInv, PromiseInv, pass # "idle", Waiting(run),
         NEW t \in Selection(run).take, TakeInitial(t)
  PROVE  PromiseInv'
  <1> DEFINE e == IF pass = "committing" THEN TakeInitNested(run, t) ELSE TakeInit(run, t)
             c == IF Descends(t) THEN e ELSE [e EXCEPT !.stack = Settle(@)]
  <1>1. /\ machine \in Machine /\ run \in Contexts /\ run.stack # <<>> /\ ~Arrived(run)
        /\ nested \in BOOLEAN /\ Shaped(run.stack, nested)
    BY DEF IInv, TypeOK, Running, Waiting, Arrived
  <1>2. Move(c)
    BY DEF TakeInitial
  <1>3. t \in ToSet(Candidates(run)) /\ t \in ToSet(machine.init[Top(run.stack).state])
    BY SelectionFacts DEF Candidates
  <1>4. e \in {TakeInit(run, t), TakeInitNested(run, t)}
    OBVIOUS
  <1>5. e \in Contexts /\ Shaped(e.stack, TRUE)
    BY <1>1, <1>3, <1>4, TakeInitShaped
  <1>6. \A y : Kin(y, run) => Kin(Taken(y, t), Bare(e))
    <2> SUFFICES ASSUME NEW y, Kin(y, run) PROVE Kin(Taken(y, t), Bare(e))
      OBVIOUS
    <2>1. y.stack # <<>> /\ t \in ToSet(Candidates(y)) /\ Waiting(y)
      BY <1>1, <1>3, KinFacts
    <2>2. /\ Kin(Taken(y, t), Taken(run, t))
          /\ Kin(Taken(y, t), Bare(TakeInitNested(run, t)))
      BY <1>1, <2>1, KinTaken
    <2>3. Taken(run, t) = Bare(TakeInit(run, t))
      BY DEF Taken
    <2> QED
      BY <1>4, <2>2, <2>3
  <1> HIDE DEF e
  <1>7. \A y : Kin(y, run) => Kin(Taken(y, t), Bare(c))
    <2> SUFFICES ASSUME NEW y, Kin(y, run) PROVE Kin(Taken(y, t), Bare(c))
      OBVIOUS
    <2>1. Kin(Taken(y, t), Bare(e))
      BY <1>6
    <2>2. CASE Descends(t)
      BY <2>1, <2>2
    <2>3. CASE ~Descends(t)
      <3>1. Bare(c) = Taken(y, t)
        BY <1>5, <2>1, <2>3, KinSettle
      <3> QED
        BY <2>1, <3>1, KinFacts, KinUnique
    <2> QED
      BY <2>2, <2>3
  <1>8. ASSUME pass = "validating"
        PROVE  Bare(c) \in Settled /\ LeadsOn(run, Bare(c))
    <2>1. run \in Settled /\ Kin(run, run)
      BY <1>8, KinUnique DEF PromiseInv
    <2>2. Taken(run, t) \in Settled /\ Kin(Taken(run, t), Bare(e))
      BY <1>1, <1>3, <1>6, <2>1, TakenSettled
    <2>3. ~Descends(t)
      BY <1>8 DEF Descends
    <2>4. Bare(c) = Taken(run, t)
      BY <1>5, <2>2, <2>3, KinSettle
    <2>5. LeadsOn(run, Taken(run, t))
      BY <1>1 DEF LeadsOn, Viable
    <2> QED
      BY <2>2, <2>4, <2>5
  <1> HIDE DEF c
  <1>9. \A w \in Settled : Viable(w) /\ OnCourse(run, w) => OnCourse(Bare(c), w)
    BY <1>1, <1>7, CourseTakes
  <1> QED
    BY <1>2, <1>8, <1>9, MovePromise

(* One lemma per step of a pass: a nested initial transition that waits.   *)
LEMMA NestedWaitsPromise ==
  ASSUME IsFiniteSet(State), IsFiniteSet(Value),
         IInv, PromiseInv, NestedWaits(Selection(run))
  PROVE  PromiseInv'
  <1> DEFINE c == [run EXCEPT !.stack = Settle(@)]
  <1>1. /\ pass # "idle" /\ nested /\ Move(c) /\ Selection(run).take = {}
    BY DEF NestedWaits, Nested, Nothing
  <1>2. /\ machine \in Machine /\ run \in Contexts /\ run.stack # <<>>
        /\ Waiting(run) /\ ~Arrived(run) /\ Shaped(run.stack, TRUE)
    <2>1. nested = TRUE
      BY <1>1 DEF IInv, TypeOK
    <2> QED
      BY <1>1, <2>1 DEF IInv, TypeOK, Running, Waiting, Arrived
  <1>3. \A y : Kin(y, run) => Bare(c) = y
    <2> SUFFICES ASSUME NEW y, Kin(y, run) PROVE Bare(c) = y
      OBVIOUS
    <2>1. Bare(run) = run
      <3>1. run.trace = <<>>
        BY KinFacts
      <3> QED
        BY <1>2, <3>1 DEF Bare, Contexts
    <2>2. Kin(y, Bare(run))
      BY <2>1
    <2> QED
      BY <1>2, <2>2, KinSettle
  <1> HIDE DEF c
  <1>4. ASSUME pass = "validating"
        PROVE  Bare(c) \in Settled /\ LeadsOn(run, Bare(c))
    <2>1. run \in Settled /\ Bare(c) = run
      BY <1>3, <1>4, KinUnique DEF PromiseInv
    <2>2. ~Stays(run)
      BY <1>2 DEF Stays
    <2> QED
      BY <1>1, <1>2, <2>1, <2>2 DEF LeadsOn
  <1>5. ASSUME NEW w \in Settled, OnCourse(run, w)
        PROVE  OnCourse(Bare(c), w)
    <2>1. PICK v \in Settled : Ends(v, w) /\ Kin(v, run)
      BY <1>1, <1>2, <1>5, CourseWaits
    <2>2. Bare(c) = v /\ Kin(v, v)
      BY <1>3, <2>1, KinUnique
    <2> QED
      BY <2>1, <2>2 DEF OnCourse
  <1> QED
    BY <1>1, <1>4, <1>5, MovePromise

(* A pseudo state settles.                                                 *)
LEMMA PseudoSettlesPromise ==
  ASSUME IInv, PromiseInv, PseudoSettles
  PROVE  PromiseInv'
  <1> DEFINE c == Resting(run)
  <1>1. /\ pass # "idle" /\ ~nested /\ Move(c) /\ Arrived(run) /\ ~Viable(run)
        /\ machine \in Machine
    BY DEF PseudoSettles, Iterates, Fresh, Resting, IInv, TypeOK
  <1>2. run \in Settled
    BY <1>1, RunSettled
  <1>3. c \in Settled /\ Bare(c) = c
    <2>1. c \in Settled
      BY <1>1, <1>2, KinUnique, RestingFacts
    <2> HIDE DEF c
    <2> QED
      BY <2>1 DEF Settled, Bare, Contexts
  <1>4. LeadsOn(run, c)
    BY <1>1 DEF LeadsOn
  <1>5. \A w \in Settled : Viable(w) /\ OnCourse(run, w) => OnCourse(c, w)
    BY <1>1, <1>2, CourseRests
  <1> HIDE DEF c
  <1> QED
    BY <1>1, <1>3, <1>4, <1>5, MovePromise

(* A leaf stays.                                                           *)
LEMMA LeafStaysPromise ==
  ASSUME IsFiniteSet(State), IsFiniteSet(Value),
         IInv, PromiseInv, LeafStays(Selection(run))
  PROVE  PromiseInv'
  <1> DEFINE c == Staying(run)
  <1>1. /\ pass # "idle" /\ ~nested /\ Move(c) /\ ~Arrived(run) /\ ~Waiting(run) /\ Stays(run)
        /\ Selection(run).take = {}
    BY DEF LeafStays, Iterates, Fresh, Routes, Staying, Stays, Nothing
  <1>2. machine \in Machine /\ run.stack # <<>> /\ run \in Settled
    BY <1>1, RunSettled DEF IInv, TypeOK, Running
  <1>3. c \in Settled /\ Bare(c) = c
    <2>1. c \in Settled
      BY <1>1, <1>2, StayingSettled
    <2> HIDE DEF c
    <2> QED
      BY <2>1 DEF Settled, Bare, Contexts
  <1>4. LeadsOn(run, c)
    BY <1>1, <1>2 DEF LeadsOn, Viable
  <1>5. \A w \in Settled : Viable(w) /\ OnCourse(run, w) => OnCourse(c, w)
    BY <1>1, <1>2, CourseStays
  <1> HIDE DEF c
  <1> QED
    BY <1>1, <1>3, <1>4, <1>5, MovePromise

(* What a routed transition leads to.                                      *)
LEMMA TakeOutPromise ==
  ASSUME IsFiniteSet(State), IsFiniteSet(Value),
         IInv, PromiseInv, Fresh, Routes, NEW t \in Selection(run).take
  PROVE  LET d == Bare(TakeOut(run, t))
         IN  /\ run \in Settled /\ d \in Settled /\ LeadsOn(run, d)
             /\ \A w \in Settled : Viable(w) /\ OnCourse(run, w) => OnCourse(d, w)
  <1>1. /\ pass # "idle" /\ ~nested /\ ~Arrived(run) /\ ~Waiting(run)
        /\ machine \in Machine /\ run.stack # <<>>
    BY DEF Fresh, Routes, IInv, TypeOK, Running
  <1>2. run \in Settled /\ t \in ToSet(Candidates(run))
    BY <1>1, RunSettled, SelectionFacts
  <1>3. Taken(run, t) \in Settled /\ Taken(run, t) = Bare(TakeOut(run, t))
    BY <1>1, <1>2, TakenSettled
  <1>4. LeadsOn(run, Taken(run, t))
    BY <1>1 DEF LeadsOn, Viable
  <1>5. \A y : Kin(y, run) => Kin(Taken(y, t), Taken(run, t))
    BY <1>2, <1>3, KinUnique
  <1>6. \A w \in Settled : Viable(w) /\ OnCourse(run, w) => OnCourse(Taken(run, t), w)
    BY <1>1, <1>5, CourseTakes
  <1> QED
    BY <1>2, <1>3, <1>4, <1>6

(* A transition is taken.                                                  *)
LEMMA MovesPromise ==
  ASSUME IsFiniteSet(State), IsFiniteSet(Value),
         IInv, PromiseInv, Moves(Selection(run))
  PROVE  PromiseInv'
  <1>1. Fresh /\ Routes /\ pass # "idle"
    BY DEF Moves, Iterates, Fresh
  <1>2. PICK t \in Selection(run).take : Move(TakeOut(run, t))
    BY DEF Moves
  <1> QED
    BY <1>1, <1>2, TakeOutPromise, MovePromise

(* The validation pass ends in w, and the committed pass starts.           *)
LEMMA FinishPromise ==
  ASSUME IInv, PromiseInv, pass # "idle", NEW c, Finish(c),
         pass = "validating" =>
           \E w \in Settled : Viable(w) /\ Bare(c) = Final(w) /\ Ends(Bare(Snapshot), w)
  PROVE  PromiseInv'
  <1>1. CASE pass = "validating"
    <2>1. /\ pass' = "committing" /\ promise' = Bare(c) /\ run' = Bare(Snapshot)
          /\ UNCHANGED <<machine, events>>
      BY <1>1 DEF Finish, StartPass
    <2>2. PICK w \in Settled : Viable(w) /\ Bare(c) = Final(w) /\ Ends(Bare(Snapshot), w)
      BY <1>1
    <2>3. Bare(Snapshot) \in Settled
      BY <1>1, StartSettled DEF IInv, Running
    <2>4. OnCourse(Bare(Snapshot), w)
      BY <2>2, <2>3, KinUnique DEF OnCourse
    <2>5. OnCourse(run, w)'
      BY <2>1, <2>4, SameCourse
    <2> QED
      BY <2>1, <2>2, <2>5 DEF PromiseInv
  <1>2. CASE pass = "committing"
    BY <1>2 DEF Finish, PromiseInv
  <1> QED
    BY <1>1, <1>2 DEF IInv, TypeOK, Pass

(* The pass stops.                                                         *)
LEMMA StopsPromise ==
  ASSUME IInv, PromiseInv, Stops
  PROVE  PromiseInv'
  <1>1. /\ pass # "idle" /\ ~nested /\ Arrived(run) /\ Viable(run) /\ Finish(Resting(run))
    BY DEF Stops, Fresh, Resting
  <1>2. run \in Settled
    BY <1>1, RunSettled
  <1>3. Bare(Resting(run)) = Final(run)
    <2>1. Resting(run) \in Settled
      BY <1>1, <1>2, KinUnique, RestingFacts
    <2>2. Bare(Resting(run)) = Resting(run)
      BY <2>1 DEF Settled, Bare, Contexts
    <2> QED
      BY <1>1, <2>2 DEF Final, Arrived
  <1>4. pass = "validating" => Ends(Bare(Snapshot), run)
    BY DEF PromiseInv
  <1> QED
    BY <1>1, <1>2, <1>3, <1>4, FinishPromise

(* The machine has left its root.                                          *)
LEMMA TerminatesPromise ==
  ASSUME IsFiniteSet(State), IsFiniteSet(Value),
         IInv, PromiseInv, Terminates(Selection(run))
  PROVE  PromiseInv'
  <1>1. Fresh /\ Routes /\ pass # "idle" /\ machine \in Machine
    BY DEF Terminates, Fresh, IInv, TypeOK
  <1>2. PICK t \in Selection(run).take : TakeOut(run, t).stack = <<>> /\ Finish(TakeOut(run, t))
    BY DEF Terminates
  <1> DEFINE w == Bare(TakeOut(run, t))
  <1>3. run \in Settled /\ w \in Settled /\ LeadsOn(run, w)
    BY <1>1, TakeOutPromise
  <1>4. w.stack = <<>>
    <2>1. TakeOut(run, t) \in Contexts
      BY <1>1, RoutesOut
    <2> QED
      BY <1>2, <2>1, ContextFacts
  <1> HIDE DEF w
  <1>5. Viable(w) /\ Final(w) = w
    BY <1>4 DEF Viable, Final
  <1>6. pass = "validating" => Ends(Bare(Snapshot), w)
    BY <1>1, <1>3, EndsFacts DEF PromiseInv
  <1>7. Bare(TakeOut(run, t)) = w
    BY DEF w
  <1> QED
    BY <1>1, <1>2, <1>3, <1>5, <1>6, <1>7, FinishPromise

(* A cycle is called.                                                      *)
LEMMA CallPromise ==
  ASSUME IInv, Call
  PROVE  PromiseInv'
  <1>1. /\ pass' = "validating" /\ run' = Bare(Snapshot) /\ ~Ended
        /\ UNCHANGED <<machine, stack, value, initialized>>
    BY DEF Call, StartPass, public
  <1>2. Bare(Snapshot)' = Bare(Snapshot)
    BY <1>1 DEF Snapshot, Context, EnterState, Bare, Noted, NoOutgoing
  <1>3. run' \in Settled
    BY <1>1, StartSettled
  <1>4. Ends(Bare(Snapshot), run)'
    BY <1>1, <1>2 DEF Ends
  <1> QED
    BY <1>1, <1>3, <1>4 DEF PromiseInv

(* Every step keeps the promise.                                           *)
LEMMA NextPromise ==
  ASSUME IsFiniteSet(State), IsFiniteSet(Value),
         IInv, PromiseInv, Next
  PROVE  PromiseInv'
  <1>1. CASE Call
    BY <1>1, CallPromise
  <1>2. CASE PseudoSettles
    BY <1>2, PseudoSettlesPromise
  <1>3. CASE Stops
    BY <1>3, StopsPromise
  <1>4. CASE GivesUp
    BY <1>4 DEF GivesUp, Abandon, PromiseInv
  <1>5. CASE pass # "idle" /\ NestedInitial(Selection(run))
    <2>1. Waiting(run)
      BY <1>5 DEF NestedInitial, Nested, IInv, Running
    <2> QED
      BY <1>5, <2>1, TakeInitialPromise DEF NestedInitial
  <1>6. CASE NestedWaits(Selection(run))
    BY <1>6, NestedWaitsPromise
  <1>7. CASE Moves(Selection(run))
    BY <1>7, MovesPromise
  <1>8. CASE Terminates(Selection(run))
    BY <1>8, TerminatesPromise
  <1>9. CASE LeafStays(Selection(run))
    BY <1>9, LeafStaysPromise
  <1>10. CASE pass # "idle" /\ Initializes(Selection(run))
    BY <1>10, TakeInitialPromise DEF Initializes
  <1>11. CASE Strands(Selection(run))
    BY <1>11 DEF Strands, Abandon, PromiseInv
  <1>12. CASE Raises(Selection(run))
    BY <1>12 DEF Raises, Abandon, PromiseInv
  <1> QED
    BY <1>1, <1>2, <1>3, <1>4, <1>5, <1>6, <1>7, <1>8, <1>9, <1>10, <1>11, <1>12
       DEF Next, Step

-------------------------------------------------------------------------------

(* A committed pass that returns has kept the promise, unless in a Delta.  *)
LEMMA NextPublishes ==
  ASSUME IsFiniteSet(State), IsFiniteSet(Value),
         IInv, PromiseInv, Next, pass = "committing", pass' = "idle", result' # "delta"
  PROVE  stack' = promise.stack /\ value' = promise.value
  <1>1. PICK w \in Settled : Viable(w) /\ promise = Final(w) /\ OnCourse(run, w)
    BY DEF PromiseInv
  <1>2. machine \in Machine /\ run \in Contexts /\ run.stack # <<>>
    BY DEF IInv, TypeOK, Running
  <1>3. CASE Stops
    <2>1. /\ ~nested /\ Arrived(run) /\ Viable(run)
          /\ stack' = Resting(run).stack /\ value' = Resting(run).value
      BY <1>3 DEF Stops, Fresh, Resting, Finish
    <2>2. run = w
      BY <1>1, <1>2, <2>1, RunSettled, CourseEnds
    <2> QED
      BY <1>1, <1>2, <2>1, <2>2 DEF Final
  <1>4. CASE Terminates(Selection(run))
    <2>1. Fresh /\ Routes
      BY <1>4 DEF Terminates
    <2>2. PICK t \in Selection(run).take : /\ TakeOut(run, t).stack = <<>>
                                           /\ Finish(TakeOut(run, t))
      BY <1>4 DEF Terminates
    <2> DEFINE d == Bare(TakeOut(run, t))
    <2>3. d \in Settled /\ OnCourse(d, w)
      BY <1>1, <2>1, TakeOutPromise
    <2>4. d.stack = <<>> /\ TakeOut(run, t).value = d.value
      <3>1. TakeOut(run, t) \in Contexts
        BY <2>1, RoutesOut
      <3> QED
        BY <2>2, <3>1 DEF Bare, Contexts
    <2>5. stack' = TakeOut(run, t).stack /\ value' = TakeOut(run, t).value
      BY <2>2 DEF Finish
    <2> HIDE DEF d
    <2>6. d = w
      BY <1>1, <1>2, <2>3, <2>4, CourseEnds DEF Viable
    <2> QED
      BY <1>1, <2>2, <2>4, <2>5, <2>6 DEF Final
  <1>5. CASE Raises(Selection(run))
    <2>1. /\ Nested \/ Fresh
          /\ ~Arrived(run) /\ Selection(run).raises
      BY <1>5 DEF Raises
    <2>2. run \in Settled \/ Waiting(run)
      BY <2>1, RunSettled DEF Nested, Fresh, IInv, Running
    <2> QED
      BY <1>1, <1>2, <2>1, <2>2, CourseQuiet
  <1>6. ~Call
    BY DEF Call
  <1>7. ~GivesUp /\ ~Strands(Selection(run))
    BY DEF GivesUp, Strands, Abandon
  <1>8. ~PseudoSettles /\ ~Moves(Selection(run)) /\ ~LeafStays(Selection(run))
        /\ ~NestedWaits(Selection(run))
    BY DEF PseudoSettles, Moves, LeafStays, NestedWaits, Move
  <1>9. ~NestedInitial(Selection(run)) /\ ~Initializes(Selection(run))
    BY DEF NestedInitial, Initializes, TakeInitial, Move
  <1> QED
    BY <1>3, <1>4, <1>5, <1>6, <1>7, <1>8, <1>9 DEF Next, Step

(* A stuttering step keeps the promise.                                    *)
LEMMA StutterPromise ==
  ASSUME PromiseInv, UNCHANGED vars
  PROVE  PromiseInv'
  <1>1. UNCHANGED <<machine, events>>
        /\ run' = run /\ pass' = pass /\ promise' = promise
        /\ UNCHANGED <<stack, value, initialized>>
    BY DEF vars, public
  <1>2. Bare(Snapshot)' = Bare(Snapshot)
    BY <1>1 DEF Snapshot, Context, EnterState, Bare, Noted, NoOutgoing
  <1>3. /\ \A x, w : Ends(x, w)' <=> Ends(x, w)
        /\ \A x, w : OnCourse(x, w)' <=> OnCourse(x, w)
    BY <1>1, SameCourse
  <1>4. pass' = "validating" => run' \in Settled /\ Ends(Bare(Snapshot), run)'
    BY <1>1, <1>2, <1>3 DEF PromiseInv
  <1>5. ASSUME pass' = "committing"
        PROVE  \E w \in Settled : Viable(w) /\ promise' = Final(w) /\ OnCourse(run, w)'
    <2>1. PICK w \in Settled : Viable(w) /\ promise = Final(w) /\ OnCourse(run, w)
      BY <1>1, <1>5 DEF PromiseInv
    <2> QED
      BY <1>1, <1>3, <2>1
  <1> QED
    BY <1>4, <1>5 DEF PromiseInv

(* Whatever a committed pass publishes was promised by the validation pass *)
(* (_cycle_with_inputs), for finitely many states and valuations.          *)
THEOREM PublishedIsPromised ==
  ASSUME IsFiniteSet(State), IsFiniteSet(Value)
  PROVE  Spec => PublishesPromise
  <1>1. Init => PromiseInv
    BY DEF Init, PromiseInv
  <1>2. IInv /\ PromiseInv /\ [Next]_vars => PromiseInv'
    BY NextPromise, StutterPromise
  <1>3. IInv /\ PromiseInv /\ [Next]_vars =>
          [pass = "committing" /\ pass' = "idle" /\ result' # "delta" =>
             stack' = promise.stack /\ value' = promise.value]_vars
    BY NextPublishes
  <1> QED
    BY <1>1, <1>2, <1>3, Invariance, PTL DEF Spec, PublishesPromise

================================================================================
