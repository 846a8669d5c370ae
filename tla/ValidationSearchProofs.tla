------------------------ MODULE ValidationSearchProofs ------------------------
(***************************************************************************)
(* Theorems about ValidationSearch, for every set of contexts, every graph *)
(* and every limit.                                                        *)
(***************************************************************************)
EXTENDS ValidationSearch, SequenceTheorems, FiniteSetTheorems, TLAPS

Pending == {worklist[k].at : k \in 1..Len(worklist)}

(* Nothing is lost: what has been explored leads only to what has been     *)
(* explored, what is pending, or the source.                               *)
Covered == seen \cup {source} \cup Pending

StartCovered == start \in Covered

ExploredCovered ==
  \A c \in seen \ {source} : kind[c] = "relay" /\ Leads(c) \subseteq Covered

NothingLost ==
  outcome \in {"searching", "dead_end", "livelock"} => StartCovered /\ ExploredCovered

PendingReachable == Pending \subseteq Reachable

TrailsExplored ==
  \A k \in 1..Len(worklist) :
    /\ Occurs(source, worklist[k].trail)
    /\ \A i \in 1..Len(worklist[k].trail) : worklist[k].trail[i] \in seen \cup {source}

RejectedIsDrained == outcome \in {"dead_end", "livelock"} => worklist = <<>>

Inv ==
  /\ TypeOK
  /\ kind[source] = "relay"
  /\ PendingReachable
  /\ TrailsExplored
  /\ NothingLost
  /\ RejectedIsDrained
  /\ AcceptedIsViable

-------------------------------------------------------------------------------

(* Popping: top is an entry, and rest is the worklist without it.          *)
LEMMA PopFacts ==
  ASSUME TypeOK, worklist # <<>>
  PROVE  /\ Len(worklist) \in Nat \ {0}
         /\ top \in Entry
         /\ rest \in Seq(Entry)
         /\ Len(rest) = Len(worklist) - 1
         /\ \A k \in 1..Len(rest) : rest[k] = worklist[k]
  <1>1. worklist \in Seq(Entry)
    BY DEF TypeOK
  <1>2. Len(worklist) \in Nat \ {0}
    BY <1>1, EmptySeq
  <1>3. \A k \in 1..Len(worklist) : worklist[k] \in Entry
    BY <1>1, ElementOfSeq
  <1>4. /\ rest \in Seq(Entry)
        /\ Len(rest) = Len(worklist) - 1
        /\ \A k \in 1..(Len(worklist) - 1) : rest[k] = worklist[k]
    <2>1. \A k \in 1..(Len(worklist) - 1) : worklist[k] \in Entry
      BY <1>2, <1>3
    <2>2. /\ rest \in Seq(Entry)
          /\ Len(rest) = IF 1 <= Len(worklist) - 1 THEN Len(worklist) - 1 - 1 + 1 ELSE 0
          /\ \A k \in 1..(Len(worklist) - 1 - 1 + 1) : rest[k] = worklist[1 + k - 1]
      BY <1>2, <2>1, SubSeqProperties DEF rest
    <2> DEFINE n == Len(worklist) - 1
    <2>3. n \in Nat /\ n - 1 + 1 = n /\ (1 <= n \/ n = 0)
      <3>1. \A m \in Nat \ {0} : m - 1 \in Nat /\ m - 1 - 1 + 1 = m - 1 /\ (1 <= m - 1 \/ m - 1 = 0)
        OBVIOUS
      <3> QED
        BY <1>2, <3>1
    <2>4. Len(rest) = n
      BY <2>2, <2>3
    <2>5. \A k \in 1..n : rest[k] = worklist[k]
      <3> TAKE k \in 1..n
      <3>1. k \in 1..(n - 1 + 1) /\ 1 + k - 1 = k
        BY <2>3
      <3> QED
        BY <2>2, <3>1
    <2> QED
      BY <2>2, <2>4, <2>5
  <1> QED
    BY <1>2, <1>3, <1>4 DEF top

(* What graph lists is a sequence of contexts.                             *)
LEMMA GraphFacts ==
  ASSUME TypeOK, NEW c \in Context
  PROVE  /\ graph[c] \in Seq(Context)
         /\ Len(graph[c]) \in Nat
         /\ DOMAIN graph[c] = 1..Len(graph[c])
         /\ \A i \in 1..Len(graph[c]) : graph[c][i] \in Context
  <1>1. PICK n \in 0..MaxOut : graph[c] \in [1..n -> Context]
    <2>1. graph[c] \in SuccessorList
      BY DEF TypeOK
    <2> QED
      BY <2>1, Zenon DEF SuccessorList
  <1>2. graph[c] \in Seq(Context)
    BY <1>1, SeqDef, BoundsAssumption
  <1> QED
    BY <1>2, LenProperties, ElementOfSeq

(* Pushing: the successors are entries over the same trail.                *)
LEMMA PushFacts ==
  ASSUME TypeOK, NEW c \in Context, NEW trail \in Seq(Context), NEW w \in Seq(Entry)
  PROVE  /\ w \o Successors(c, trail) \in Seq(Entry)
         /\ Len(w \o Successors(c, trail)) = Len(w) + Len(graph[c])
         /\ \A k \in 1..Len(w) : (w \o Successors(c, trail))[k] = w[k]
         /\ \A k \in 1..Len(graph[c]) :
              (w \o Successors(c, trail))[Len(w) + k] =
                [at |-> graph[c][Len(graph[c]) + 1 - k], trail |-> trail]
  <1> DEFINE n == Len(graph[c])
             s == Successors(c, trail)
  <1>1. n \in Nat /\ \A i \in 1..n : graph[c][i] \in Context
    BY GraphFacts
  <1>2. \A i \in 1..n : [at |-> graph[c][n + 1 - i], trail |-> trail] \in Entry
    BY <1>1 DEF Entry
  <1>3. s \in [1..n -> Entry] /\ \A i \in 1..n : s[i] = [at |-> graph[c][n + 1 - i], trail |-> trail]
    BY <1>2 DEF Successors
  <1>4. s \in Seq(Entry) /\ Len(s) = n
    <2>1. s \in Seq(Entry)
      BY <1>1, <1>3, SeqDef
    <2> QED
      BY <1>1, <1>3, <2>1, LenProperties
  <1>5. /\ w \o s \in Seq(Entry)
        /\ Len(w \o s) = Len(w) + n
        /\ \A i \in 1..(Len(w) + n) : (w \o s)[i] = IF i <= Len(w) THEN w[i] ELSE s[i - Len(w)]
    <2> HIDE DEF s, n
    <2>1. \A t \in Seq(Entry) :
            /\ w \o t \in Seq(Entry)
            /\ Len(w \o t) = Len(w) + Len(t)
            /\ \A i \in 1..(Len(w) + Len(t)) :
                 (w \o t)[i] = IF i <= Len(w) THEN w[i] ELSE t[i - Len(w)]
      BY ConcatProperties
    <2> QED
      BY <1>4, <2>1
  <1>6. Len(w) \in Nat
    BY LenProperties
  <1>7. \A k \in 1..n : (w \o s)[Len(w) + k] = s[k]
    <2> TAKE k \in 1..n
    <2>1. Len(w) + k \in 1..(Len(w) + n) /\ ~(Len(w) + k <= Len(w)) /\ Len(w) + k - Len(w) = k
      BY <1>1, <1>6
    <2> QED
      BY <1>5, <2>1
  <1>8. \A k \in 1..Len(w) : (w \o s)[k] = w[k]
    BY <1>1, <1>5, <1>6
  <1> QED
    BY <1>3, <1>5, <1>7, <1>8

(* The initial state is typed.                                             *)
LEMMA InitTypeOK == Init => TypeOK
  BY DEF Init, Begin, TypeOK, Entry, Outcome, Kind

(* Every step keeps the types.                                             *)
LEMMA NextTypeOK == TypeOK /\ [Next]_vars => TypeOK'
  <1> SUFFICES ASSUME TypeOK, [Next]_vars PROVE TypeOK'
    OBVIOUS
  <1>1. CASE Popping
    <2>1. top \in Entry /\ rest \in Seq(Entry)
      BY <1>1, PopFacts DEF Popping
    <2>2. top.at \in Context /\ top.trail \in Seq(Context)
      BY <2>1 DEF Entry
    <2>3. CASE PopOnTrail
      <3>1. IndexOf(top.at, top.trail) \in 1..Len(top.trail)
        BY <2>3 DEF PopOnTrail, Occurs, IndexOf
      <3>2. SubSeq(top.trail, IndexOf(top.at, top.trail), Len(top.trail)) \in Seq(Context)
        <4>1. Len(top.trail) \in Int /\ \A i \in 1..Len(top.trail) : top.trail[i] \in Context
          BY <2>2, LenProperties, ElementOfSeq
        <4>2. /\ IndexOf(top.at, top.trail) \in Int
              /\ \A i \in IndexOf(top.at, top.trail)..Len(top.trail) : top.trail[i] \in Context
          BY <3>1, <4>1
        <4> QED
          BY <4>1, <4>2, SubSeqProperties
      <3>3. loop' \in Seq(Context)
        BY <2>2, <2>3, <3>2, AppendProperties DEF PopOnTrail
      <3> QED
        BY <2>1, <2>3, <3>3 DEF PopOnTrail, TypeOK, graphVars
    <2>4. CASE PopRelay
      <3>1. Append(top.trail, top.at) \in Seq(Context)
        BY <2>2, AppendProperties
      <3>2. worklist' \in Seq(Entry)
        BY <2>1, <2>2, <2>4, <3>1, PushFacts DEF PopRelay
      <3> QED
        BY <2>2, <2>4, <3>2 DEF PopRelay, TypeOK, graphVars
    <2>5. CASE PopEnded \/ PopTooDeep \/ PopSeen \/ PopAtLimit \/ PopStable
      BY <2>1, <2>2, <2>5 DEF PopEnded, PopTooDeep, PopSeen, PopAtLimit, PopStable,
        TypeOK, graphVars, Outcome
    <2> QED
      BY <1>1, <2>3, <2>4, <2>5 DEF Next, Drained, Popping, vars, TypeOK
  <1>2. CASE ~Popping
    BY <1>2 DEF Next, Drained, PopEnded, PopTooDeep, PopOnTrail, PopSeen, PopAtLimit,
      PopStable, PopRelay, Searchable, New, TypeOK, vars, graphVars, Outcome
  <1> QED
    BY <1>1, <1>2

(* Every value has its type in every reachable state.                      *)
THEOREM TypeCorrect == Spec => []TypeOK
  BY InitTypeOK, NextTypeOK, PTL DEF Spec

-------------------------------------------------------------------------------

(* The search always continues inside what is reachable.                   *)
LEMMA ReachableFacts ==
  ASSUME TypeOK
  PROVE  /\ start \in Reachable
         /\ \A c \in Reachable \ {source} : kind[c] = "relay" => Leads(c) \subseteq Reachable
  <1>1. start \in Reachable
    BY DEF TypeOK, Reachable, ReachableFrom, ClosedSets
  <1>2. ASSUME NEW c \in Reachable \ {source}, kind[c] = "relay", NEW d \in Leads(c)
        PROVE  d \in Reachable
    <2>1. c \in Context /\ d \in Context
      BY GraphFacts DEF Leads, Reachable, ReachableFrom
    <2>2. ASSUME NEW S \in ClosedSets({start}) PROVE d \in S
      <3>1. c \in S
        BY DEF Reachable, ReachableFrom
      <3> QED
        BY <1>2, <3>1 DEF ClosedSets
    <2> QED
      BY <2>1, <2>2 DEF Reachable, ReachableFrom
  <1> QED
    BY <1>1, <1>2

(* The machine does not change while it is searched.                       *)
LEMMA SameReachable ==
  ASSUME UNCHANGED graphVars
  PROVE  /\ Reachable' = Reachable
         /\ \A c : Leads(c)' = Leads(c)
         /\ \A c : Viable(c)' = Viable(c)
  BY DEF graphVars, Reachable, ReachableFrom, ClosedSets, Leads, Viable

(* Where the popped entry stands.                                          *)
LEMMA TopFacts ==
  ASSUME Inv, worklist # <<>>
  PROVE  /\ top.at \in Context
         /\ top.trail \in Seq(Context)
         /\ top.at \in Reachable
         /\ Occurs(source, top.trail)
         /\ \A i \in 1..Len(top.trail) : top.trail[i] \in seen \cup {source}
         /\ \A c \in Pending : c = top.at \/ \E k \in 1..Len(rest) : c = rest[k].at
         /\ \A k \in 1..Len(rest) :
              /\ rest[k].at \in Pending
              /\ Occurs(source, rest[k].trail)
              /\ \A i \in 1..Len(rest[k].trail) : rest[k].trail[i] \in seen \cup {source}
  <1> DEFINE n == Len(worklist)
  <1>0. TypeOK
    BY DEF Inv
  <1>1. /\ n \in Nat \ {0}
        /\ top \in Entry
        /\ Len(rest) = n - 1
        /\ \A k \in 1..Len(rest) : rest[k] = worklist[k]
    BY <1>0, PopFacts
  <1>2. n \in 1..n /\ \A k \in 1..Len(rest) : k \in 1..n
    BY <1>1
  <1>3. \A k \in 1..n : k = n \/ k \in 1..Len(rest)
    BY <1>1
  <1>4. top = worklist[n] /\ top.at \in Pending
    BY <1>2 DEF top, Pending
  <1>5. /\ top.at \in Context
        /\ top.trail \in Seq(Context)
    BY <1>1 DEF Entry
  <1>6. top.at \in Reachable
    BY <1>4 DEF Inv, PendingReachable
  <1>7. TrailsExplored
    BY DEF Inv
  <1>8. /\ Occurs(source, top.trail)
        /\ \A i \in 1..Len(top.trail) : top.trail[i] \in seen \cup {source}
    BY <1>2, <1>4, <1>7 DEF TrailsExplored
  <1>9. ASSUME NEW c \in Pending
        PROVE  c = top.at \/ \E k \in 1..Len(rest) : c = rest[k].at
    <2>1. PICK k \in 1..n : c = worklist[k].at
      BY DEF Pending
    <2> QED
      BY <1>1, <1>3, <1>4, <2>1
  <1>10. ASSUME NEW k \in 1..Len(rest)
         PROVE  /\ rest[k].at \in Pending
                /\ Occurs(source, rest[k].trail)
                /\ \A i \in 1..Len(rest[k].trail) : rest[k].trail[i] \in seen \cup {source}
    <2>1. k \in 1..n /\ rest[k] = worklist[k]
      BY <1>1, <1>2
    <2> QED
      BY <1>7, <2>1 DEF Pending, TrailsExplored
  <1> QED
    BY <1>5, <1>6, <1>8, <1>9, <1>10

(* Dropping the popped entry keeps the invariant of those that remain.     *)
LEMMA DropTop ==
  ASSUME Inv, worklist # <<>>, worklist' = rest, UNCHANGED graphVars, seen \subseteq seen'
  PROVE  /\ PendingReachable'
         /\ TrailsExplored'
         /\ Pending \subseteq Pending' \cup {top.at}
  <1> USE TopFacts, SameReachable
  <1>1. PendingReachable'
    BY DEF Pending, PendingReachable, Inv
  <1>2. TrailsExplored'
    BY DEF TrailsExplored, graphVars
  <1>3. Pending \subseteq Pending' \cup {top.at}
    BY DEF Pending
  <1> QED
    BY <1>1, <1>2, <1>3

(* The search begins with everything pending.                              *)
LEMMA InitInv == Init => Inv
  <1> SUFFICES ASSUME Init PROVE Inv
    OBVIOUS
  <1>1. TypeOK
    BY InitTypeOK
  <1>2. /\ worklist = <<[at |-> start, trail |-> <<source>>]>>
        /\ Len(worklist) = 1
        /\ worklist[1].at = start
        /\ worklist[1].trail = <<source>>
        /\ seen = {}
        /\ outcome = "searching"
        /\ kind[source] = "relay"
    BY DEF Init, Begin
  <1>3. Pending = {start}
    BY <1>2 DEF Pending
  <1>4. TrailsExplored
    BY <1>2 DEF TrailsExplored, Occurs
  <1> QED
    BY <1>1, <1>2, <1>3, <1>4, ReachableFacts DEF Inv, PendingReachable, NothingLost,
      StartCovered, ExploredCovered, Covered, RejectedIsDrained, AcceptedIsViable

(* One iteration that pops without pushing.                                *)
LEMMA PopInv ==
  ASSUME Inv, TypeOK',
         PopEnded \/ PopTooDeep \/ PopOnTrail \/ PopSeen \/ PopAtLimit \/ PopStable
  PROVE  Inv'
  <1>1. /\ outcome = "searching"
        /\ worklist # <<>>
        /\ worklist' = rest
        /\ UNCHANGED graphVars
        /\ seen \subseteq seen'
    BY DEF PopEnded, PopTooDeep, PopOnTrail, PopSeen, PopAtLimit, PopStable, Popping,
      Searchable, New
  <1>2. /\ PendingReachable'
        /\ TrailsExplored'
        /\ Pending \subseteq Pending' \cup {top.at}
    BY <1>1, DropTop
  <1>3. top.at \in Reachable
    BY <1>1, TopFacts
  <1>4. CASE PopEnded \/ PopStable
    <2>1. outcome' = "stable" /\ Viable(top.at)
      BY <1>4 DEF PopEnded, PopStable, Viable
    <2>2. AcceptedIsViable'
      BY <1>1, <1>3, <2>1, SameReachable DEF AcceptedIsViable
    <2> QED
      BY <1>1, <1>2, <2>1, <2>2 DEF Inv, NothingLost, RejectedIsDrained, graphVars
  <1>5. CASE PopTooDeep \/ PopAtLimit
    <2>1. outcome' \in {"depth_limit", "step_limit"}
      BY <1>5 DEF PopTooDeep, PopAtLimit
    <2> QED
      BY <1>1, <1>2, <2>1 DEF Inv, NothingLost, RejectedIsDrained, AcceptedIsViable, graphVars
  <1>6. CASE PopOnTrail \/ PopSeen
    <2>1. outcome' = "searching" /\ seen' = seen /\ source' = source /\ start' = start /\ kind' = kind
      BY <1>1, <1>6 DEF PopOnTrail, PopSeen, graphVars
    <2>2. top.at \in seen \cup {source}
      BY <1>1, <1>6, TopFacts DEF PopOnTrail, PopSeen, Occurs
    <2>3. Covered \subseteq Covered'
      BY <1>2, <2>1, <2>2 DEF Covered
    <2>4. StartCovered /\ ExploredCovered
      BY <1>1 DEF Inv, NothingLost
    <2>5. StartCovered'
      BY <2>1, <2>3, <2>4 DEF StartCovered
    <2>6. ExploredCovered'
      BY <1>1, <2>1, <2>3, <2>4, SameReachable DEF ExploredCovered
    <2> QED
      BY <1>2, <2>1, <2>5, <2>6 DEF Inv, NothingLost, RejectedIsDrained, AcceptedIsViable
  <1> QED
    BY <1>4, <1>5, <1>6

(* What an iteration that explores a relay does to the worklist: the popped *)
(* entry gives way to one for each successor, over the extended trail.     *)
LEMMA RelayFacts ==
  ASSUME Inv, PopRelay
  PROVE  LET c == top.at
             trail == Append(top.trail, top.at)
             n == Len(rest)
             m == Len(graph[c])
         IN  /\ outcome = "searching" /\ outcome' = "searching"
             /\ worklist # <<>>
             /\ UNCHANGED graphVars
             /\ seen' = seen \cup {c}
             /\ kind[c] = "relay"
             /\ ~Occurs(c, top.trail)
             /\ c \in Context /\ c \in Reachable
             /\ c # source
             /\ trail \in Seq(Context)
             /\ Len(trail) = Len(top.trail) + 1
             /\ Len(top.trail) \in Nat
             /\ \A i \in 1..Len(top.trail) : trail[i] = top.trail[i]
             /\ trail[Len(top.trail) + 1] = c
             /\ Occurs(source, trail)
             /\ \A i \in 1..Len(trail) : trail[i] \in seen' \cup {source}
             /\ n \in Nat /\ m \in Nat
             /\ Len(worklist') = n + m
             /\ \A k \in 1..n : worklist'[k] = rest[k]
             /\ \A k \in 1..m : worklist'[n + k].at = graph[c][m + 1 - k]
             /\ \A k \in 1..m : worklist'[n + k].trail = trail
             /\ \A k \in 1..Len(worklist') : k \in 1..n \/ \E j \in 1..m : k = n + j
             /\ \A k \in 1..n : k \in 1..Len(worklist')
             /\ \A j \in 1..m : n + j \in 1..Len(worklist') /\ m + 1 - j \in 1..m
             /\ \A j \in 1..m : worklist'[n + j].at \in Leads(c)
             /\ \A d \in Leads(c) : \E j \in 1..m : worklist'[n + j].at = d
  <1> DEFINE c == top.at
             trail == Append(top.trail, top.at)
             n == Len(rest)
             m == Len(graph[c])
  <1>1. /\ outcome = "searching" /\ outcome' = "searching"
        /\ worklist # <<>>
        /\ worklist' = rest \o Successors(c, trail)
        /\ UNCHANGED graphVars
        /\ seen' = seen \cup {c}
        /\ kind[c] = "relay"
        /\ ~Occurs(c, top.trail)
    BY DEF PopRelay, Popping, Searchable, New
  <1>2. TypeOK /\ kind' = kind /\ source' = source /\ start' = start
    BY <1>1 DEF Inv, graphVars
  <1>3. /\ c \in Context /\ c \in Reachable
        /\ top.trail \in Seq(Context)
        /\ c # source
    BY <1>1, TopFacts
  <1>4. /\ trail \in Seq(Context)
        /\ Len(trail) = Len(top.trail) + 1
        /\ Len(top.trail) \in Nat
        /\ \A i \in 1..Len(top.trail) : trail[i] = top.trail[i]
        /\ trail[Len(top.trail) + 1] = c
    BY <1>3, AppendProperties, LenProperties
  <1>5. /\ Occurs(source, trail)
        /\ \A i \in 1..Len(trail) : trail[i] \in seen' \cup {source}
    <2>1. /\ \E i \in 1..Len(top.trail) : top.trail[i] = source
          /\ \A i \in 1..Len(top.trail) : top.trail[i] \in seen \cup {source}
      BY <1>1, TopFacts DEF Occurs
    <2>2. \A i \in 1..Len(trail) : i \in 1..Len(top.trail) \/ i = Len(top.trail) + 1
      BY <1>4
    <2>3. \A i \in 1..Len(top.trail) : i \in 1..Len(trail)
      BY <1>4
    <2>4. Occurs(source, trail)
      BY <1>4, <2>1, <2>3 DEF Occurs
    <2> QED
      BY <1>1, <1>4, <2>1, <2>2, <2>4
  <1>6. /\ n \in Nat /\ m \in Nat
        /\ Len(worklist') = n + m
        /\ \A k \in 1..n : worklist'[k] = rest[k]
        /\ \A k \in 1..m : worklist'[n + k].at = graph[c][m + 1 - k]
        /\ \A k \in 1..m : worklist'[n + k].trail = trail
    <2>1. rest \in Seq(Entry)
      BY <1>1, <1>2, PopFacts
    <2>2. n \in Nat /\ m \in Nat
      BY <1>2, <1>3, <2>1, GraphFacts, LenProperties
    <2> DEFINE s == Successors(c, trail)
    <2>3. /\ Len(rest \o s) = Len(rest) + Len(graph[c])
          /\ \A k \in 1..Len(rest) : (rest \o s)[k] = rest[k]
          /\ \A k \in 1..Len(graph[c]) : (rest \o s)[Len(rest) + k] =
               [at |-> graph[c][Len(graph[c]) + 1 - k], trail |-> trail]
      <3> DEFINE w == rest
      <3>1. c \in Context /\ trail \in Seq(Context) /\ w \in Seq(Entry) /\ TypeOK
        BY <1>2, <1>3, <1>4, <2>1
      <3> HIDE DEF c, trail, w
      <3>2. /\ Len(w \o Successors(c, trail)) = Len(w) + Len(graph[c])
            /\ \A k \in 1..Len(w) : (w \o Successors(c, trail))[k] = w[k]
            /\ \A k \in 1..Len(graph[c]) : (w \o Successors(c, trail))[Len(w) + k] =
                 [at |-> graph[c][Len(graph[c]) + 1 - k], trail |-> trail]
        BY ONLY <3>1, PushFacts
      <3> QED
        BY ONLY <3>2 DEF w, s
    <2>4. worklist' = rest \o s
      BY <1>1
    <2> HIDE DEF c, trail, s
    <2>5. \A k \in 1..m : worklist'[n + k] = [at |-> graph[c][m + 1 - k], trail |-> trail]
      BY <2>3, <2>4
    <2>6. \A k \in 1..m : worklist'[n + k].at = graph[c][m + 1 - k] /\ worklist'[n + k].trail = trail
      <3> TAKE k \in 1..m
      <3> DEFINE r == worklist'[n + k]
                 a == graph[c][m + 1 - k]
      <3>1. r = [at |-> a, trail |-> trail]
        BY <2>5
      <3> HIDE DEF r, a
      <3>2. r.at = a /\ r.trail = trail
        BY <3>1
      <3> QED
        BY <3>2 DEF r, a
    <2> QED
      BY <2>2, <2>3, <2>4, <2>6
  <1>7. \A k \in 1..Len(worklist') : k \in 1..n \/ \E j \in 1..m : k = n + j
    <2> TAKE k \in 1..Len(worklist')
    <2>1. k \in 1..n \/ (k - n \in 1..m /\ k = n + (k - n))
      BY <1>6
    <2> QED
      BY <2>1
  <1>8. /\ \A k \in 1..n : k \in 1..Len(worklist')
        /\ \A j \in 1..m : n + j \in 1..Len(worklist') /\ m + 1 - j \in 1..m
    BY <1>6
  <1>9. DOMAIN graph[c] = 1..m
    BY <1>2, <1>3, GraphFacts
  <1>10. ASSUME NEW j \in 1..m PROVE worklist'[n + j].at \in Leads(c)
    <2>1. worklist'[n + j].at = graph[c][m + 1 - j]
      BY <1>6
    <2> QED
      BY <1>8, <1>9, <2>1 DEF Leads
  <1>11. \A d \in Leads(c) : \E j \in 1..m : worklist'[n + j].at = d
    <2> SUFFICES ASSUME NEW i \in 1..m PROVE \E j \in 1..m : worklist'[n + j].at = graph[c][i]
      BY <1>9 DEF Leads
    <2>1. m + 1 - i \in 1..m /\ m + 1 - (m + 1 - i) = i
      <3>1. m \in Nat
        BY <1>6
      <3> HIDE DEF m
      <3> QED
        BY ONLY <3>1, i \in 1..m
    <2> HIDE DEF c, m, n
    <2> QED
      BY <1>6, <2>1
  <1> HIDE DEF trail, n, m
  <1>12. UNCHANGED graphVars
    BY <1>1
  <1> QED
    BY <1>1, <1>3, <1>4, <1>5, <1>6, <1>7, <1>8, <1>10, <1>11 DEF trail, n, m

(* One iteration that explores a relay and pushes what it leads to.        *)
LEMMA RelayInv ==
  ASSUME Inv, TypeOK', PopRelay
  PROVE  Inv'
  <1> DEFINE c == top.at
             trail == Append(top.trail, top.at)
             n == Len(rest)
             m == Len(graph[c])
  <1>1. /\ outcome = "searching" /\ outcome' = "searching"
        /\ worklist # <<>>
        /\ UNCHANGED graphVars
        /\ seen' = seen \cup {c}
        /\ kind[c] = "relay"
    BY RelayFacts
  <1>2. TypeOK /\ kind' = kind /\ source' = source /\ start' = start
    BY <1>1 DEF Inv, graphVars
  <1>3. c \in Context /\ c \in Reachable /\ c # source
    BY RelayFacts
  <1>5. /\ Occurs(source, trail)
        /\ \A i \in 1..Len(trail) : trail[i] \in seen' \cup {source}
    BY RelayFacts
  <1>6. /\ \A k \in 1..n : worklist'[k] = rest[k]
        /\ \A k \in 1..m : worklist'[n + k].trail = trail
        /\ \A j \in 1..m : worklist'[n + j].at \in Leads(c)
        /\ \A d \in Leads(c) : \E j \in 1..m : worklist'[n + j].at = d
    BY RelayFacts
  <1>7. \A k \in 1..Len(worklist') : k \in 1..n \/ \E j \in 1..m : k = n + j
    BY RelayFacts
  <1>8. /\ \A k \in 1..n : k \in 1..Len(worklist')
        /\ \A j \in 1..m : n + j \in 1..Len(worklist')
    BY RelayFacts
  <1>10. Pending' \subseteq Pending \cup Leads(c)
    <2> SUFFICES ASSUME NEW k \in 1..Len(worklist') PROVE worklist'[k].at \in Pending \cup Leads(c)
      BY DEF Pending
    <2>1. CASE k \in 1..n
      BY <1>1, <1>6, <2>1, TopFacts
    <2>2. ASSUME NEW j \in 1..m, k = n + j PROVE worklist'[k].at \in Leads(c)
      BY <1>6, <2>2
    <2> QED
      BY <1>7, <2>1, <2>2
  <1>11. Pending \subseteq Pending' \cup {c}
    <2> SUFFICES ASSUME NEW k \in 1..n PROVE rest[k].at \in Pending'
      BY <1>1, TopFacts
    <2> QED
      BY <1>6, <1>8 DEF Pending
  <1>12. Leads(c) \subseteq Pending'
    BY <1>6, <1>8 DEF Pending
  <1>13. PendingReachable'
    <2>1. Leads(c) \subseteq Reachable
      BY <1>1, <1>2, <1>3, ReachableFacts
    <2> QED
      BY <1>1, <1>10, <2>1, SameReachable DEF Inv, PendingReachable
  <1>14. TrailsExplored'
    <2> SUFFICES ASSUME NEW k \in 1..Len(worklist')
                 PROVE  /\ Occurs(source, worklist'[k].trail)
                        /\ \A i \in 1..Len(worklist'[k].trail) :
                             worklist'[k].trail[i] \in seen' \cup {source}
      BY <1>2 DEF TrailsExplored, Occurs
    <2>1. CASE k \in 1..n
      BY <1>1, <1>6, <2>1, TopFacts
    <2>2. ASSUME NEW j \in 1..m, k = n + j PROVE worklist'[k].trail = trail
      BY <1>6, <2>2
    <2> QED
      BY <1>5, <1>7, <2>1, <2>2
  <1>15. Covered \subseteq Covered'
    BY <1>1, <1>2, <1>11 DEF Covered
  <1>16. StartCovered' /\ ExploredCovered'
    <2>1. StartCovered /\ ExploredCovered
      BY <1>1 DEF Inv, NothingLost
    <2>2. StartCovered'
      BY <1>2, <1>15, <2>1 DEF StartCovered
    <2>3. Leads(c) \subseteq Covered'
      BY <1>12 DEF Covered
    <2>4. ExploredCovered'
      BY <1>1, <1>2, <1>15, <2>1, <2>3, SameReachable DEF ExploredCovered
    <2> QED
      BY <2>2, <2>4
  <1> QED
    BY <1>1, <1>2, <1>13, <1>14, <1>16 DEF Inv, NothingLost, RejectedIsDrained, AcceptedIsViable

(* Every step keeps the invariant.                                         *)
LEMMA NextInv == Inv /\ [Next]_vars => Inv'
  <1> SUFFICES ASSUME Inv, [Next]_vars PROVE Inv'
    OBVIOUS
  <1>1. TypeOK'
    BY NextTypeOK DEF Inv
  <1>2. CASE PopRelay
    BY <1>1, <1>2, RelayInv
  <1>3. CASE PopEnded \/ PopTooDeep \/ PopOnTrail \/ PopSeen \/ PopAtLimit \/ PopStable
    BY <1>1, <1>3, PopInv
  <1>4. CASE Drained
    <2>1. UNCHANGED graphVars /\ worklist' = worklist /\ seen' = seen
      BY <1>4 DEF Drained
    <2>2. /\ outcome = "searching" /\ worklist = <<>>
          /\ outcome' \in {"dead_end", "livelock"}
      BY <1>4 DEF Drained
    <2>3. Covered' = Covered /\ Pending' = Pending
      BY <2>1 DEF Covered, Pending, graphVars
    <2>4. PendingReachable' /\ TrailsExplored'
      BY <2>1, <2>3, SameReachable DEF Inv, PendingReachable, TrailsExplored, Occurs, graphVars
    <2>5. NothingLost'
      BY <2>1, <2>2, <2>3, SameReachable DEF Inv, NothingLost, StartCovered, ExploredCovered,
        graphVars
    <2> QED
      BY <1>1, <2>1, <2>2, <2>4, <2>5 DEF Inv, RejectedIsDrained, AcceptedIsViable, graphVars
  <1>5. CASE UNCHANGED vars
    <2>1. UNCHANGED graphVars /\ UNCHANGED <<worklist, seen, outcome>>
      BY <1>5 DEF vars, graphVars
    <2>2. Covered' = Covered /\ Pending' = Pending
      BY <2>1 DEF Covered, Pending, graphVars
    <2>3. PendingReachable' /\ TrailsExplored' /\ NothingLost'
      BY <2>1, <2>2, SameReachable DEF Inv, PendingReachable, TrailsExplored, Occurs,
        NothingLost, StartCovered, ExploredCovered, graphVars
    <2> QED
      BY <1>1, <2>1, <2>3, SameReachable DEF Inv, RejectedIsDrained, AcceptedIsViable, graphVars
  <1> QED
    BY <1>2, <1>3, <1>4, <1>5 DEF Next

(* When the search has drained, what was seen, with the source, is closed  *)
(* and holds the start: it holds everything reachable, and none of it is   *)
(* viable.                                                                 *)
LEMMA InvRejected == Inv => RejectedIsHopeless
  <1> SUFFICES ASSUME Inv, outcome \in {"dead_end", "livelock"}
               PROVE  \A c \in Reachable : ~Viable(c)
    BY DEF RejectedIsHopeless
  <1>1. Covered = seen \cup {source}
    BY DEF Inv, RejectedIsDrained, Covered, Pending
  <1>2. StartCovered /\ ExploredCovered
    BY DEF Inv, NothingLost
  <1>3. Covered \in ClosedSets({start})
    BY <1>1, <1>2 DEF ClosedSets, StartCovered, ExploredCovered, Inv, TypeOK
  <1>4. Reachable \subseteq Covered
    BY <1>3 DEF Reachable, ReachableFrom
  <1>5. \A c \in Covered : kind[c] = "relay"
    BY <1>1, <1>2 DEF ExploredCovered, Inv
  <1> QED
    BY <1>4, <1>5 DEF Viable

(* A candidate the search accepts has a continuation to a stoppable leaf   *)
(* or to the end that does not pass through its source.                    *)
THEOREM AcceptedSound == Spec => []AcceptedIsViable
  <1>1. Inv => AcceptedIsViable
    BY DEF Inv
  <1> QED
    BY InitInv, NextInv, <1>1, PTL DEF Spec

(* A candidate the search rejects has none: no pruning rule loses a        *)
(* continuation, whatever the machine and however long the search.         *)
THEOREM RejectedComplete == Spec => []RejectedIsHopeless
  BY InitInv, NextInv, InvRejected, PTL DEF Spec

-------------------------------------------------------------------------------
(* What the search tells its caller: a livelock error holds a closed walk,  *)
(* a plain refusal is given only for an acyclic continuation, and the step  *)
(* limit trips only on too many signatures.                                 *)

from(k) == worklist[k].trail[Len(worklist[k].trail)]

OnTrail(c, k) == Occurs(c, worklist[k].trail)

(* The step from b to d has been pushed after the entry k and not popped.  *)
Awaits(b, d, k) ==
  \E j \in 1..Len(worklist) : j > k /\ from(j) = b /\ worklist[j].at = d

(* A trail is a walk of the machine, and its entry one step further.       *)
TrailsWalk ==
  \A k \in 1..Len(worklist) :
    /\ Len(worklist[k].trail) > 0
    /\ \A i \in 1..(Len(worklist[k].trail) - 1) :
         worklist[k].trail[i + 1] \in Leads(worklist[k].trail[i])
    /\ worklist[k].at \in Leads(from(k))

SourceUnseen == source \notin seen

(* Every step taken remembered a signature, and so did the refused one.    *)
Counted ==
  /\ IsFiniteSet(seen)
  /\ outcome # "step_limit" => Cardinality(seen) = steps

(* What is below on the worklist was pushed on the way to what is above.   *)
Nested ==
  \A k, j \in 1..Len(worklist) : k <= j => \A c \in Context : OnTrail(c, k) => OnTrail(c, j)

(* What has been left behind leads back to no trail.                       *)
Settled ==
  \A k \in 1..Len(worklist) : \A b \in seen : \A d \in Leads(b) :
    ~OnTrail(b, k) => (d \in seen /\ ~OnTrail(d, k)) \/ Awaits(b, d, k)

(* The steps that have been followed form no cycle: every set of explored  *)
(* contexts has one whose steps inside the set are all still to be taken.  *)
Acyclic ==
  \A S \in SUBSET seen :
    S # {} => \E x \in S : \A d \in S \cap Leads(x) : Awaits(x, d, 0)

StrictlyCovered ==
  /\ start \in seen \cup Pending
  /\ \A c \in seen : Leads(c) \subseteq seen \cup Pending

NoRepetition ==
  loop = <<>> /\ outcome \in {"searching", "dead_end"} => Settled /\ Acyclic /\ StrictlyCovered

DeadEndIsLoopFree == outcome = "dead_end" => loop = <<>>

VerdictInv ==
  /\ Inv
  /\ TrailsWalk
  /\ SourceUnseen
  /\ Counted
  /\ Nested
  /\ NoRepetition
  /\ DeadEndIsLoopFree
  /\ LoopIsAClosedWalk
  /\ LimitNeedsManySignatures

-------------------------------------------------------------------------------

(* The loop begins with one entry, over the trail of the source.           *)
LEMMA InitVerdict == Init => VerdictInv
  <1> SUFFICES ASSUME Init PROVE VerdictInv
    OBVIOUS
  <1>1. Inv /\ TypeOK
    BY InitInv, InitTypeOK
  <1>2. /\ Len(worklist) = 1
        /\ worklist[1].at = start
        /\ worklist[1].trail = <<source>>
        /\ seen = {} /\ steps = 0 /\ loop = <<>> /\ outcome = "searching"
    BY DEF Init, Begin
  <1>3. start \in Leads(source)
    <2>1. \E i \in 1..Len(graph[source]) : graph[source][i] = start
      BY DEF Init, Occurs
    <2>2. DOMAIN graph[source] = 1..Len(graph[source])
      BY <1>1, GraphFacts DEF TypeOK
    <2> QED
      BY <2>1, <2>2 DEF Leads
  <1>4. TrailsWalk
    <2>1. Len(worklist[1].trail) = 1 /\ worklist[1].trail[1] = source
      BY <1>2
    <2>2. from(1) = source
      BY <2>1 DEF from
    <2> QED
      BY <1>2, <1>3, <2>1, <2>2 DEF TrailsWalk
  <1>5. Nested
    BY <1>2 DEF Nested
  <1>6. Counted
    BY <1>2, FS_EmptySet DEF Counted
  <1>7. Settled /\ Acyclic
    BY <1>2 DEF Settled, Acyclic
  <1>8. StrictlyCovered
    BY <1>2 DEF StrictlyCovered, Pending
  <1>9. LoopIsAClosedWalk /\ LimitNeedsManySignatures
    BY <1>2 DEF LoopIsAClosedWalk, LimitNeedsManySignatures
  <1> QED
    BY <1>1, <1>2, <1>4, <1>5, <1>6, <1>7, <1>8, <1>9 DEF VerdictInv, SourceUnseen,
      NoRepetition, DeadEndIsLoopFree

(* What lies below the popped entry stays as it is, and of the steps that  *)
(* await their turn at most the one of that entry is gone.                 *)
LEMMA KeptBelow ==
  ASSUME TypeOK, worklist # <<>>, Len(worklist') \in Nat, Len(rest) <= Len(worklist'),
         \A k \in 1..Len(rest) : worklist'[k] = rest[k]
  PROVE  /\ Len(worklist) \in Nat \ {0}
         /\ top = worklist[Len(worklist)]
         /\ Len(rest) = Len(worklist) - 1
         /\ \A k \in 1..Len(rest) :
              /\ k \in 1..Len(worklist) /\ k \in 1..Len(worklist')
              /\ k < Len(worklist)
              /\ worklist'[k] = worklist[k]
              /\ from(k)' = from(k)
              /\ \A c : OnTrail(c, k)' <=> OnTrail(c, k)
         /\ \A b, d : \A k \in Nat :
              Awaits(b, d, k) =>
                Awaits(b, d, k)' \/ (b = from(Len(worklist)) /\ d = top.at)
  <1> DEFINE n == Len(worklist)
  <1>1. /\ n \in Nat \ {0}
        /\ Len(rest) = n - 1
        /\ \A k \in 1..Len(rest) : rest[k] = worklist[k]
    BY PopFacts
  <1>2. top = worklist[n]
    BY DEF top
  <1>3. \A k \in 1..Len(rest) : k \in 1..n /\ k \in 1..Len(worklist') /\ k < n
    BY <1>1
  <1>4. \A k \in 1..Len(rest) : worklist'[k] = worklist[k]
    BY <1>1
  <1>5. \A k \in 1..Len(rest) : from(k)' = from(k)
    BY <1>4 DEF from
  <1>6. \A k \in 1..Len(rest) : \A c : OnTrail(c, k)' <=> OnTrail(c, k)
    BY <1>4 DEF OnTrail, Occurs
  <1>7. ASSUME NEW b, NEW d, NEW k \in Nat, Awaits(b, d, k)
        PROVE  Awaits(b, d, k)' \/ (b = from(n) /\ d = top.at)
    <2>1. PICK j \in 1..n : j > k /\ from(j) = b /\ worklist[j].at = d
      BY <1>7 DEF Awaits
    <2>2. j = n \/ j \in 1..Len(rest)
      BY <1>1
    <2>3. CASE j \in 1..Len(rest)
      <3>1. j \in 1..Len(worklist') /\ from(j)' = b /\ worklist'[j].at = d
        BY <1>3, <1>4, <1>5, <2>1, <2>3
      <3> QED
        BY <2>1, <3>1 DEF Awaits
    <2> QED
      BY <1>2, <2>1, <2>2, <2>3
  <1> QED
    BY <1>1, <1>2, <1>3, <1>4, <1>5, <1>6, <1>7

(* Popping without pushing keeps what is said of the worklist.             *)
LEMMA DropVerdict ==
  ASSUME VerdictInv, worklist # <<>>, worklist' = rest, UNCHANGED graphVars
  PROVE  /\ TrailsWalk'
         /\ Nested'
  <1>1. TypeOK
    BY DEF VerdictInv, Inv
  <1>2. Len(worklist') \in Nat /\ Len(rest) = Len(worklist')
    BY <1>1, PopFacts, LenProperties
  <1>3. \A k \in 1..Len(rest) :
          /\ k \in 1..Len(worklist)
          /\ worklist'[k] = worklist[k]
          /\ from(k)' = from(k)
          /\ \A c : OnTrail(c, k)' <=> OnTrail(c, k)
    BY <1>1, <1>2, KeptBelow
  <1>4. TrailsWalk'
    BY <1>2, <1>3, SameReachable DEF VerdictInv, TrailsWalk
  <1>5. Nested'
    BY <1>2, <1>3 DEF VerdictInv, Nested
  <1> QED
    BY <1>4, <1>5

(* A repeated signature closes a walk: from its place on the trail to the  *)
(* end of the trail, and one step further.                                 *)
LEMMA LoopFacts ==
  ASSUME VerdictInv, PopOnTrail
  PROVE  LoopIsAClosedWalk' /\ loop' # <<>>
  <1> DEFINE t == top.trail
             c == top.at
             i == IndexOf(c, t)
             n == Len(t)
             walk == SubSeq(t, i, n)
  <1>1. /\ worklist # <<>> /\ Occurs(c, t)
        /\ loop' = Append(walk, c)
        /\ UNCHANGED graphVars
    BY DEF PopOnTrail, Searchable, Popping
  <1>2. TypeOK /\ c \in Context /\ t \in Seq(Context)
    BY <1>1, TopFacts DEF VerdictInv, Inv
  <1>3. /\ n \in Nat
        /\ c \in Leads(t[n])
        /\ \A k \in 1..(n - 1) : t[k + 1] \in Leads(t[k])
    <2>1. Len(worklist) \in 1..Len(worklist) /\ top = worklist[Len(worklist)]
      BY <1>1, <1>2, PopFacts DEF top
    <2> QED
      BY <1>2, <2>1, LenProperties DEF VerdictInv, TrailsWalk, from
  <1>4. i \in 1..n /\ t[i] = c
    BY <1>1 DEF Occurs, IndexOf
  <1>5. /\ walk \in Seq(Context)
        /\ Len(walk) = n - i + 1
        /\ \A k \in 1..(n - i + 1) : walk[k] = t[i + k - 1]
    <2> HIDE DEF t, i, c
    <2>1. \A k \in i..n : t[k] \in Context
      BY <1>2, <1>3, <1>4, ElementOfSeq
    <2> QED
      BY <1>3, <1>4, <2>1, SubSeqProperties
  <1> HIDE DEF walk, i, n, t, c
  <1>6. /\ loop' \in Seq(Context)
        /\ Len(loop') = n - i + 2
        /\ \A k \in 1..(n - i + 1) : loop'[k] = t[i + k - 1]
        /\ loop'[n - i + 2] = c
    <2>1. /\ loop' \in Seq(Context)
          /\ Len(loop') = Len(walk) + 1
          /\ \A k \in 1..Len(walk) : loop'[k] = walk[k]
          /\ loop'[Len(walk) + 1] = c
      BY <1>1, <1>2, <1>5, AppendProperties
    <2>2. Len(walk) + 1 = n - i + 2
      BY <1>3, <1>4, <1>5
    <2> QED
      BY <1>5, <2>1, <2>2
  <1>7. Len(loop') > 1 /\ loop'[1] = loop'[Len(loop')]
    BY <1>3, <1>4, <1>6
  <1>8. ASSUME NEW k \in 1..(Len(loop') - 1) PROVE loop'[k + 1] \in Leads(loop'[k])
    <2>1. k \in 1..(n - i + 1) /\ i + k - 1 \in 1..n /\ loop'[k] = t[i + k - 1]
      BY <1>3, <1>4, <1>6
    <2>2. CASE k + 1 \in 1..(n - i + 1)
      <3>1. i + k - 1 \in 1..(n - 1) /\ i + (k + 1) - 1 = i + k - 1 + 1
        BY <1>3, <1>4, <2>1, <2>2
      <3>2. loop'[k + 1] = t[i + (k + 1) - 1]
        BY <1>6, <2>2
      <3> QED
        BY <1>3, <2>1, <3>1, <3>2
    <2>3. CASE k = n - i + 1
      <3>1. k + 1 = n - i + 2 /\ i + k - 1 = n
        BY <1>3, <1>4, <2>3
      <3> QED
        BY <1>3, <1>6, <2>1, <3>1
    <2> QED
      BY <1>3, <1>4, <2>1, <2>2, <2>3
  <1>9. loop' # <<>>
    BY <1>7, EmptySeq, <1>6
  <1> QED
    BY <1>1, <1>7, <1>8, <1>9, SameReachable DEF LoopIsAClosedWalk

(* A context the loop meets for the first time is counted.                 *)
LEMMA CountFacts ==
  ASSUME VerdictInv, New
  PROVE  /\ top.at # source
         /\ IsFiniteSet(seen \cup {top.at})
         /\ Cardinality(seen \cup {top.at}) = steps + 1
         /\ steps \in Nat
  <1>1. worklist # <<>> /\ outcome = "searching" /\ ~Occurs(top.at, top.trail) /\ top.at \notin seen
    BY DEF New, Searchable, Popping
  <1>2. Occurs(source, top.trail)
    BY <1>1, TopFacts DEF VerdictInv
  <1>3. IsFiniteSet(seen) /\ Cardinality(seen) = steps
    BY <1>1 DEF VerdictInv, Counted
  <1>4. steps \in Nat
    BY DEF VerdictInv, Inv, TypeOK
  <1> QED
    BY <1>1, <1>2, <1>3, <1>4, FS_AddElement

(* An iteration that ends the search or remembers a loop.                  *)
LEMMA EndVerdict ==
  ASSUME VerdictInv, Inv',
         PopEnded \/ PopTooDeep \/ PopOnTrail \/ PopAtLimit \/ PopStable
  PROVE  VerdictInv'
  <1>1. /\ worklist # <<>> /\ worklist' = rest /\ UNCHANGED graphVars
        /\ outcome = "searching"
        /\ source' = source /\ limit' = limit
    BY DEF PopEnded, PopTooDeep, PopOnTrail, PopAtLimit, PopStable, Searchable, New, Popping,
      graphVars
  <1>2. TrailsWalk' /\ Nested'
    BY <1>1, DropVerdict
  <1>3. CASE PopEnded \/ PopTooDeep
    <2>1. outcome' \in {"stable", "depth_limit"} /\ UNCHANGED <<seen, steps, loop>>
      BY <1>3 DEF PopEnded, PopTooDeep
    <2>2. LoopIsAClosedWalk'
      BY <1>1, <2>1, SameReachable DEF VerdictInv, LoopIsAClosedWalk
    <2> QED
      BY <1>1, <1>2, <2>1, <2>2 DEF VerdictInv, SourceUnseen, Counted, NoRepetition,
        DeadEndIsLoopFree, LimitNeedsManySignatures
  <1>4. CASE PopOnTrail
    <2>1. UNCHANGED <<seen, steps, outcome>>
      BY <1>4 DEF PopOnTrail
    <2>2. LoopIsAClosedWalk' /\ loop' # <<>>
      BY <1>4, LoopFacts
    <2> QED
      BY <1>1, <1>2, <2>1, <2>2 DEF VerdictInv, SourceUnseen, Counted, NoRepetition,
        DeadEndIsLoopFree, LimitNeedsManySignatures
  <1>5. CASE PopAtLimit \/ PopStable
    <2>1. /\ seen' = seen \cup {top.at} /\ loop' = loop /\ New
          /\ \/ outcome' = "step_limit" /\ steps >= limit
             \/ outcome' = "stable" /\ steps' = steps + 1
      BY <1>5 DEF PopAtLimit, PopStable
    <2>2. LoopIsAClosedWalk'
      BY <1>1, <2>1, SameReachable DEF VerdictInv, LoopIsAClosedWalk
    <2>3. SourceUnseen'
      BY <1>1, <2>1, CountFacts DEF VerdictInv, SourceUnseen
    <2>4. Counted'
      BY <2>1, CountFacts DEF Counted
    <2>5. LimitNeedsManySignatures'
      <3>1. limit \in Nat
        BY BoundsAssumption DEF VerdictInv, Inv, TypeOK
      <3> QED
        BY <1>1, <2>1, <3>1, CountFacts DEF LimitNeedsManySignatures
    <2> QED
      BY <1>2, <2>1, <2>2, <2>3, <2>4, <2>5 DEF VerdictInv, NoRepetition, DeadEndIsLoopFree
  <1> QED
    BY <1>3, <1>4, <1>5

(* Everything explored that is not on the popped trail leads only to what  *)
(* is explored and not on it either.                                       *)
LEMMA SettledTop ==
  ASSUME VerdictInv, worklist # <<>>, loop = <<>>, outcome = "searching"
  PROVE  LET n == Len(worklist)
         IN  /\ OnTrail(from(n), n)
             /\ \A c : OnTrail(c, n) <=> Occurs(c, top.trail)
             /\ \A b \in seen : \A d \in Leads(b) :
                  ~OnTrail(b, n) => d \in seen /\ ~OnTrail(d, n)
             /\ \A k \in 1..Len(rest) : \A c \in Context : OnTrail(c, k) => OnTrail(c, n)
  <1> DEFINE n == Len(worklist)
  <1>1. /\ n \in Nat \ {0} /\ n \in 1..n
        /\ Len(rest) = n - 1
        /\ top = worklist[n]
    BY PopFacts DEF VerdictInv, Inv, top
  <1>2. OnTrail(from(n), n)
    <2>1. /\ Len(worklist[n].trail) > 0
          /\ Len(worklist[n].trail) \in Nat
      <3>1. worklist[n].trail \in Seq(Context)
        BY <1>1, TopFacts DEF VerdictInv
      <3> QED
        BY <1>1, <3>1, LenProperties DEF VerdictInv, TrailsWalk
    <2>2. Len(worklist[n].trail) \in 1..Len(worklist[n].trail)
      BY <2>1
    <2> QED
      BY <2>2 DEF OnTrail, Occurs, from
  <1>3. \A c : OnTrail(c, n) <=> Occurs(c, top.trail)
    BY <1>1 DEF OnTrail
  <1>4. ASSUME NEW b \in seen, NEW d \in Leads(b), ~OnTrail(b, n)
        PROVE  d \in seen /\ ~OnTrail(d, n)
    <2>1. ~Awaits(b, d, n)
      BY <1>1 DEF Awaits
    <2> QED
      BY <1>1, <1>4, <2>1 DEF VerdictInv, NoRepetition, Settled
  <1>5. \A k \in 1..Len(rest) : \A c \in Context : OnTrail(c, k) => OnTrail(c, n)
    BY <1>1 DEF VerdictInv, Nested
  <1> QED
    BY <1>2, <1>3, <1>4, <1>5

(* An iteration that meets a context explored on another branch closes no  *)
(* cycle.                                                                  *)
LEMMA SeenVerdict ==
  ASSUME VerdictInv, Inv', PopSeen
  PROVE  VerdictInv'
  <1> DEFINE n == Len(worklist)
             c == top.at
  <1>1. /\ worklist # <<>> /\ worklist' = rest /\ UNCHANGED graphVars
        /\ outcome = "searching" /\ source' = source /\ start' = start
        /\ UNCHANGED <<seen, steps, loop, outcome>>
        /\ c \in seen /\ ~Occurs(c, top.trail)
    BY DEF PopSeen, Searchable, Popping, graphVars
  <1>2. TrailsWalk' /\ Nested'
    BY <1>1, DropVerdict
  <1>3. TypeOK /\ seen \subseteq Context
    BY DEF VerdictInv, Inv, TypeOK
  <1>4. Len(worklist') \in Nat /\ Len(rest) = Len(worklist')
    BY <1>1, <1>3, PopFacts, LenProperties
  <1>5. /\ \A k \in 1..Len(rest) :
             k \in 1..n /\ k \in Nat /\ \A b : OnTrail(b, k)' <=> OnTrail(b, k)
        /\ \A b, d : \A k \in Nat :
             Awaits(b, d, k) => Awaits(b, d, k)' \/ (b = from(n) /\ d = c)
    BY <1>1, <1>3, <1>4, KeptBelow
  <1>6. ASSUME loop = <<>> PROVE Settled' /\ Acyclic' /\ StrictlyCovered'
    <2>1. Settled /\ Acyclic /\ StrictlyCovered
      BY <1>1, <1>6 DEF VerdictInv, NoRepetition
    <2>2. /\ OnTrail(from(n), n)
          /\ ~OnTrail(c, n)
          /\ \A b \in seen : \A d \in Leads(b) :
               ~OnTrail(b, n) => d \in seen /\ ~OnTrail(d, n)
          /\ \A k \in 1..Len(rest) : \A b \in Context : OnTrail(b, k) => OnTrail(b, n)
      BY <1>1, <1>6, SettledTop
    <2>3. Settled'
      <3> SUFFICES ASSUME NEW k \in 1..Len(rest), NEW b \in seen, NEW d \in Leads(b),
                          ~OnTrail(b, k)
                   PROVE  (d \in seen /\ ~OnTrail(d, k)) \/ Awaits(b, d, k)'
        BY <1>1, <1>4, <1>5, SameReachable DEF Settled
      <3>1. (d \in seen /\ ~OnTrail(d, k)) \/ Awaits(b, d, k)
        BY <1>5, <2>1 DEF Settled
      <3>2. ~OnTrail(c, k)
        BY <1>1, <1>3, <2>2
      <3> QED
        BY <1>1, <1>5, <3>1, <3>2
    <2>4. Acyclic'
      <3> SUFFICES ASSUME NEW S \in SUBSET seen, S # {}
                   PROVE  \E x \in S : \A d \in S \cap Leads(x) : Awaits(x, d, 0)'
        BY <1>1, SameReachable DEF Acyclic
      <3> DEFINE F == {x \in S : ~OnTrail(x, n)}
      <3>1. CASE F # {}
        <4>1. PICK x \in F : \A d \in F \cap Leads(x) : Awaits(x, d, 0)
          BY <2>1, <3>1 DEF Acyclic
        <4>2. x # from(n) /\ \A d \in S \cap Leads(x) : d \in F
          BY <2>2
        <4> QED
          BY <1>5, <4>1, <4>2
      <3>2. CASE F = {}
        <4>1. PICK x \in S : \A d \in S \cap Leads(x) : Awaits(x, d, 0)
          BY <2>1 DEF Acyclic
        <4>2. \A d \in S : d # c
          BY <2>2, <3>2
        <4> QED
          BY <1>5, <4>1, <4>2
      <3> QED
        BY <3>1, <3>2
    <2>5. StrictlyCovered'
      <3>1. Pending \subseteq Pending' \cup {c}
        BY <1>1, DropTop DEF VerdictInv
      <3> QED
        BY <1>1, <2>1, <3>1, SameReachable DEF StrictlyCovered
    <2> QED
      BY <2>3, <2>4, <2>5
  <1>7. LoopIsAClosedWalk'
    BY <1>1, SameReachable DEF VerdictInv, LoopIsAClosedWalk
  <1> QED
    BY <1>1, <1>2, <1>6, <1>7 DEF VerdictInv, SourceUnseen, Counted, NoRepetition,
      DeadEndIsLoopFree, LimitNeedsManySignatures

(* What the popped entry gives way to when a relay is explored, as the     *)
(* operators of this module see it.                                        *)
LEMMA RelayTrails ==
  ASSUME VerdictInv, PopRelay
  PROVE  LET n == Len(worklist)
             c == top.at
         IN  /\ outcome = "searching" /\ outcome' = "searching" /\ worklist # <<>>
             /\ UNCHANGED graphVars /\ UNCHANGED loop
             /\ source' = source /\ start' = start
             /\ seen' = seen \cup {c} /\ c \notin seen /\ steps' = steps + 1
             /\ seen' \subseteq Context
             /\ \A k \in 1..Len(worklist') :
                  \/ k \in 1..Len(rest)
                  \/ /\ k \in Nat /\ k >= n
                     /\ from(k)' = c
                     /\ worklist'[k].at \in Leads(c)
                     /\ \A b : OnTrail(b, k)' <=> Occurs(b, top.trail) \/ b = c
                     /\ Len(worklist'[k].trail) > 0
                     /\ \A i \in 1..(Len(worklist'[k].trail) - 1) :
                          worklist'[k].trail[i + 1] \in Leads(worklist'[k].trail[i])
             /\ \A d \in Leads(c) : \E j \in 1..Len(worklist') :
                  j >= n /\ from(j)' = c /\ worklist'[j].at = d
             /\ Len(worklist') \in Nat /\ Len(rest) <= Len(worklist')
             /\ \A k \in 1..Len(rest) : worklist'[k] = rest[k]
  <1> DEFINE n == Len(worklist)
             c == top.at
             t == top.trail
             trail == Append(t, c)
             m == Len(graph[c])
  <1>0. Inv /\ TypeOK
    BY DEF VerdictInv, Inv
  <1>1. /\ outcome = "searching" /\ outcome' = "searching" /\ worklist # <<>>
        /\ UNCHANGED graphVars
        /\ seen' = seen \cup {c} /\ c \in Context
        /\ Len(trail) = Len(t) + 1
        /\ Len(t) \in Nat
        /\ \A i \in 1..Len(t) : trail[i] = t[i]
        /\ trail[Len(t) + 1] = c
    BY <1>0, RelayFacts
  <1>2. /\ Len(rest) \in Nat /\ m \in Nat
        /\ Len(worklist') = Len(rest) + m
        /\ \A k \in 1..Len(rest) : worklist'[k] = rest[k]
        /\ \A j \in 1..m : worklist'[Len(rest) + j].trail = trail
        /\ \A j \in 1..m : worklist'[Len(rest) + j].at \in Leads(c)
        /\ \A d \in Leads(c) : \E j \in 1..m : worklist'[Len(rest) + j].at = d
    BY <1>0, RelayFacts
  <1>3. \A k \in 1..Len(worklist') : k \in 1..Len(rest) \/ \E j \in 1..m : k = Len(rest) + j
    BY <1>0, RelayFacts
  <1>4. UNCHANGED loop /\ c \notin seen /\ steps' = steps + 1
    BY DEF PopRelay, New
  <1>5. n \in Nat \ {0} /\ n \in 1..n /\ Len(rest) = n - 1 /\ top = worklist[n]
    BY <1>0, <1>1, PopFacts DEF top
  <1>6. /\ Len(t) > 0
        /\ \A i \in 1..(Len(t) - 1) : t[i + 1] \in Leads(t[i])
        /\ c \in Leads(t[Len(t)])
    BY <1>5 DEF VerdictInv, TrailsWalk, from
  <1>7. \A b : Occurs(b, trail) <=> Occurs(b, t) \/ b = c
    <2>1. \A i \in 1..Len(trail) : i \in 1..Len(t) \/ i = Len(t) + 1
      BY <1>1
    <2>2. Len(t) + 1 \in 1..Len(trail) /\ \A i \in 1..Len(t) : i \in 1..Len(trail)
      BY <1>1
    <2> HIDE DEF trail
    <2> QED
      BY <1>1, <2>1, <2>2 DEF Occurs
  <1>8. \A i \in 1..(Len(trail) - 1) : trail[i + 1] \in Leads(trail[i])
    <2> SUFFICES ASSUME NEW i \in 1..Len(t) PROVE trail[i + 1] \in Leads(trail[i])
      BY <1>1
    <2>1. trail[i] = t[i]
      BY <1>1
    <2>2. CASE i = Len(t)
      BY <1>1, <1>6, <2>1, <2>2
    <2>3. CASE i # Len(t)
      <3>1. i \in 1..(Len(t) - 1) /\ i + 1 \in 1..Len(t)
        BY <1>1, <2>3
      <3>2. trail[i + 1] = t[i + 1]
        BY <1>1, <3>1
      <3> QED
        BY <1>6, <2>1, <3>1, <3>2
    <2> QED
      BY <2>2, <2>3
  <1> HIDE DEF trail
  <1>9. ASSUME NEW k, NEW j \in 1..m, k = Len(rest) + j
        PROVE  /\ k \in 1..Len(worklist') /\ k \in Nat /\ k >= n
               /\ worklist'[k].trail = trail
               /\ worklist'[k].at \in Leads(c)
               /\ from(k)' = c
               /\ \A b : OnTrail(b, k)' <=> Occurs(b, t) \/ b = c
    <2>1. worklist'[k].trail = trail /\ worklist'[k].at \in Leads(c)
      BY <1>2, <1>9
    <2>2. k \in 1..Len(worklist') /\ k >= n /\ k \in Nat
      BY <1>2, <1>5, <1>9
    <2>3. from(k)' = c
      BY <1>1, <2>1 DEF from
    <2>4. \A b : OnTrail(b, k)' <=> Occurs(b, trail)
      BY <2>1 DEF OnTrail, Occurs
    <2> QED
      BY <1>7, <2>1, <2>2, <2>3, <2>4
  <1>10. ASSUME NEW k \in 1..Len(worklist'), k \notin 1..Len(rest)
         PROVE  /\ k \in Nat /\ k >= n
                /\ from(k)' = c
                /\ worklist'[k].at \in Leads(c)
                /\ \A b : OnTrail(b, k)' <=> Occurs(b, t) \/ b = c
                /\ Len(worklist'[k].trail) > 0
                /\ \A i \in 1..(Len(worklist'[k].trail) - 1) :
                     worklist'[k].trail[i + 1] \in Leads(worklist'[k].trail[i])
    <2>1. PICK j \in 1..m : k = Len(rest) + j
      BY <1>3, <1>10
    <2>2. Len(trail) > 0
      BY <1>1
    <2> QED
      BY <1>8, <1>9, <2>1, <2>2
  <1>11. ASSUME NEW d \in Leads(c)
         PROVE  \E j \in 1..Len(worklist') : j >= n /\ from(j)' = c /\ worklist'[j].at = d
    <2>1. PICK j \in 1..m : worklist'[Len(rest) + j].at = d
      BY <1>2
    <2>2. PICK k : k = Len(rest) + j
      OBVIOUS
    <2> QED
      BY <1>9, <2>1, <2>2
  <1>12. source' = source /\ start' = start /\ UNCHANGED graphVars
    BY <1>1 DEF graphVars
  <1>13. seen' \subseteq Context
    BY <1>0, <1>1 DEF TypeOK
  <1>14. Len(worklist') \in Nat /\ Len(rest) <= Len(worklist')
    BY <1>2
  <1> QED
    BY <1>1, <1>2, <1>4, <1>10, <1>11, <1>12, <1>13, <1>14

(* An iteration that explores a relay closes no cycle either: its context  *)
(* is new, and everything it leads to awaits its turn.                     *)
LEMMA RelayVerdict ==
  ASSUME VerdictInv, Inv', PopRelay
  PROVE  VerdictInv'
  <1> DEFINE n == Len(worklist)
             c == top.at
  <1>1. /\ outcome = "searching" /\ outcome' = "searching" /\ worklist # <<>>
        /\ UNCHANGED graphVars /\ UNCHANGED loop
        /\ source' = source /\ start' = start
        /\ seen' = seen \cup {c} /\ c \notin seen /\ steps' = steps + 1
        /\ seen' \subseteq Context
        /\ Len(worklist') \in Nat /\ Len(rest) <= Len(worklist')
        /\ \A k \in 1..Len(rest) : worklist'[k] = rest[k]
    BY RelayTrails
  <1>2. \A k \in 1..Len(worklist') :
          \/ k \in 1..Len(rest)
          \/ /\ k \in Nat /\ k >= n
             /\ from(k)' = c
             /\ worklist'[k].at \in Leads(c)
             /\ \A b : OnTrail(b, k)' <=> Occurs(b, top.trail) \/ b = c
             /\ Len(worklist'[k].trail) > 0
             /\ \A i \in 1..(Len(worklist'[k].trail) - 1) :
                  worklist'[k].trail[i + 1] \in Leads(worklist'[k].trail[i])
    BY RelayTrails
  <1>3. \A d \in Leads(c) : \E j \in 1..Len(worklist') :
          j >= n /\ from(j)' = c /\ worklist'[j].at = d
    BY RelayTrails
  <1>4. TypeOK
    BY DEF VerdictInv, Inv
  <1>5. /\ n \in Nat \ {0} /\ n \in 1..n
        /\ top = worklist[n]
        /\ Len(rest) = n - 1
        /\ \A k \in 1..Len(rest) :
             /\ k \in 1..n /\ k \in 1..Len(worklist') /\ k \in Nat /\ k < n
             /\ worklist'[k] = worklist[k]
             /\ from(k)' = from(k)
             /\ \A b : OnTrail(b, k)' <=> OnTrail(b, k)
        /\ \A b, d : \A k \in Nat :
             Awaits(b, d, k) => Awaits(b, d, k)' \/ (b = from(n) /\ d = c)
    BY <1>1, <1>4, KeptBelow
  <1>6. /\ c # source
        /\ IsFiniteSet(seen')
        /\ Cardinality(seen') = steps'
    BY <1>1, CountFacts DEF PopRelay
  <1>7. ~OnTrail(c, n) /\ \A b : OnTrail(b, n) <=> Occurs(b, top.trail)
    BY <1>5 DEF PopRelay, New, OnTrail
  <1>8. \A k \in 1..Len(rest) : \A b \in Context : OnTrail(b, k) => OnTrail(b, n)
    BY <1>5 DEF VerdictInv, Nested
  <1>9. TrailsWalk'
    <2> SUFFICES ASSUME NEW k \in 1..Len(worklist')
                 PROVE  /\ Len(worklist'[k].trail) > 0
                        /\ \A i \in 1..(Len(worklist'[k].trail) - 1) :
                             worklist'[k].trail[i + 1] \in Leads(worklist'[k].trail[i])
                        /\ worklist'[k].at \in Leads(from(k)')
      BY <1>1, SameReachable DEF TrailsWalk
    <2>1. CASE k \in 1..Len(rest)
      BY <1>5, <2>1 DEF VerdictInv, TrailsWalk
    <2>2. CASE k \notin 1..Len(rest)
      BY <1>2, <2>2
    <2> QED
      BY <2>1, <2>2
  <1>10. Nested'
    <2> SUFFICES ASSUME NEW k \in 1..Len(worklist'), NEW j \in 1..Len(worklist'), k <= j,
                        NEW b \in Context, OnTrail(b, k)'
                 PROVE  OnTrail(b, j)'
      BY DEF Nested
    <2>1. CASE j \in 1..Len(rest)
      <3>1. k \in 1..Len(rest)
        BY <1>5, <2>1
      <3> QED
        BY <1>5, <2>1, <3>1 DEF VerdictInv, Nested
    <2>2. CASE j \notin 1..Len(rest)
      <3>1. \A a : OnTrail(a, j)' <=> Occurs(a, top.trail) \/ a = c
        BY <1>2, <2>2
      <3>2. CASE k \in 1..Len(rest)
        BY <1>5, <1>7, <1>8, <3>1, <3>2
      <3>3. CASE k \notin 1..Len(rest)
        BY <1>2, <3>1, <3>3
      <3> QED
        BY <3>2, <3>3
    <2> QED
      BY <2>1, <2>2
  <1>11. ASSUME NEW b, b = c, NEW d \in Leads(b), NEW k \in Nat, k < n
         PROVE  Awaits(b, d, k)'
    <2>1. PICK j \in 1..Len(worklist') : j >= n /\ from(j)' = b /\ worklist'[j].at = d
      BY <1>3, <1>11
    <2>2. j > k
      BY <1>5, <1>11, <2>1
    <2> QED
      BY <2>1, <2>2 DEF Awaits
  <1>12. ASSUME loop = <<>> PROVE Settled' /\ Acyclic' /\ StrictlyCovered'
    <2>1. Settled /\ Acyclic /\ StrictlyCovered
      BY <1>1, <1>12 DEF VerdictInv, NoRepetition
    <2>2. \A b \in seen : \A d \in Leads(b) :
            ~OnTrail(b, n) => d \in seen /\ ~OnTrail(d, n)
      BY <1>1, <1>12, SettledTop
    <2>3. Settled'
      <3> SUFFICES ASSUME NEW k \in 1..Len(worklist'), NEW b \in seen', NEW d \in Leads(b),
                          ~OnTrail(b, k)'
                   PROVE  (d \in seen' /\ ~OnTrail(d, k)') \/ Awaits(b, d, k)'
        BY <1>1, SameReachable DEF Settled
      <3>1. CASE k \in 1..Len(rest) /\ b = c
        BY <1>5, <1>11, <3>1
      <3>2. CASE k \in 1..Len(rest) /\ b # c
        <4>1. b \in seen /\ ~OnTrail(b, k) /\ k \in 1..n
          BY <1>1, <1>5, <3>2
        <4>2. (d \in seen /\ ~OnTrail(d, k)) \/ Awaits(b, d, k)
          BY <2>1, <4>1 DEF Settled
        <4>3. ~OnTrail(c, k) /\ c \in seen'
          BY <1>1, <1>7, <1>8, <3>2
        <4> QED
          BY <1>1, <1>5, <3>2, <4>2, <4>3
      <3>3. CASE k \notin 1..Len(rest)
        <4>1. \A a : OnTrail(a, k)' <=> Occurs(a, top.trail) \/ a = c
          BY <1>2, <3>3
        <4>2. b \in seen /\ ~OnTrail(b, n)
          BY <1>1, <1>7, <4>1
        <4>3. d \in seen /\ ~OnTrail(d, n)
          BY <2>2, <4>2
        <4> QED
          BY <1>1, <1>7, <4>1, <4>3
      <3> QED
        BY <3>1, <3>2, <3>3
    <2>4. Acyclic'
      <3> SUFFICES ASSUME NEW S \in SUBSET seen', S # {}
                   PROVE  \E x \in S : \A d \in S \cap Leads(x) : Awaits(x, d, 0)'
        BY <1>1, SameReachable DEF Acyclic
      <3>1. CASE c \in S
        <4>1. 0 \in Nat /\ 0 < n
          BY <1>5
        <4> QED
          BY <1>11, <3>1, <4>1
      <3>2. CASE c \notin S
        <4>1. S \in SUBSET seen
          BY <1>1, <3>2
        <4>2. PICK x \in S : \A d \in S \cap Leads(x) : Awaits(x, d, 0)
          BY <2>1, <4>1 DEF Acyclic
        <4> QED
          BY <1>5, <3>2, <4>2
      <3> QED
        BY <3>1, <3>2
    <2>5. StrictlyCovered'
      <3>1. Pending \subseteq Pending' \cup {c}
        <4> SUFFICES ASSUME NEW k \in 1..n PROVE worklist[k].at \in Pending' \cup {c}
          BY DEF Pending
        <4>1. k = n \/ k \in 1..Len(rest)
          BY <1>5
        <4> QED
          BY <1>5, <4>1 DEF Pending
      <3>2. Leads(c) \subseteq Pending'
        BY <1>3 DEF Pending
      <3> QED
        BY <1>1, <2>1, <3>1, <3>2, SameReachable DEF StrictlyCovered
    <2> QED
      BY <2>3, <2>4, <2>5
  <1>13. LoopIsAClosedWalk'
    BY <1>1, SameReachable DEF VerdictInv, LoopIsAClosedWalk
  <1>14. SourceUnseen'
    BY <1>1, <1>6 DEF VerdictInv, SourceUnseen
  <1> QED
    BY <1>1, <1>6, <1>9, <1>10, <1>12, <1>13, <1>14 DEF VerdictInv, Counted, NoRepetition,
      DeadEndIsLoopFree, LimitNeedsManySignatures

(* Every step keeps the invariant.                                         *)
LEMMA NextVerdict == VerdictInv /\ [Next]_vars => VerdictInv'
  <1> SUFFICES ASSUME VerdictInv, [Next]_vars PROVE VerdictInv'
    OBVIOUS
  <1>1. Inv'
    BY NextInv DEF VerdictInv
  <1>2. CASE PopEnded \/ PopTooDeep \/ PopOnTrail \/ PopAtLimit \/ PopStable
    BY <1>1, <1>2, EndVerdict
  <1>3. CASE PopSeen
    BY <1>1, <1>3, SeenVerdict
  <1>4. CASE PopRelay
    BY <1>1, <1>4, RelayVerdict
  <1>5. CASE Drained \/ UNCHANGED vars
    <2>1. /\ UNCHANGED graphVars /\ UNCHANGED <<worklist, seen, steps, loop>>
          /\ source' = source /\ start' = start /\ limit' = limit
          /\ \/ outcome' = outcome
             \/ /\ outcome = "searching" /\ outcome' \in {"dead_end", "livelock"}
                /\ outcome' = "dead_end" => loop = <<>>
      BY <1>5 DEF Drained, vars, graphVars
    <2>2. TrailsWalk' /\ LoopIsAClosedWalk'
      BY <2>1, SameReachable DEF VerdictInv, TrailsWalk, LoopIsAClosedWalk, from
    <2>3. Nested'
      BY <2>1 DEF VerdictInv, Nested, OnTrail, Occurs
    <2>4. Counted' /\ LimitNeedsManySignatures' /\ SourceUnseen' /\ DeadEndIsLoopFree'
      BY <2>1 DEF VerdictInv, Counted, LimitNeedsManySignatures, SourceUnseen, DeadEndIsLoopFree
    <2>5. Pending' = Pending /\ \A b, d, k : Awaits(b, d, k)' <=> Awaits(b, d, k)
      BY <2>1 DEF Pending, Awaits, from
    <2>6. \A b, k : OnTrail(b, k)' <=> OnTrail(b, k)
      BY <2>1 DEF OnTrail, Occurs
    <2>7. Settled => Settled'
      BY <2>1, <2>5, <2>6, SameReachable DEF Settled
    <2>8. Acyclic => Acyclic'
      BY <2>1, <2>5, SameReachable DEF Acyclic
    <2>9. StrictlyCovered => StrictlyCovered'
      BY <2>1, <2>5, SameReachable DEF StrictlyCovered
    <2>10. NoRepetition'
      BY <2>1, <2>7, <2>8, <2>9 DEF VerdictInv, NoRepetition
    <2> QED
      BY <1>1, <2>2, <2>3, <2>4, <2>10 DEF VerdictInv
  <1> QED
    BY <1>2, <1>3, <1>4, <1>5 DEF Next

-------------------------------------------------------------------------------

(* What is reached after one step from from is reached by way of one of    *)
(* the contexts in from.                                                   *)
LEMMA ReachesThrough ==
  ASSUME TypeOK, NEW X \in SUBSET Context, NEW c \in ReachableFrom(X),
         source \notin X, \A d \in X : kind[d] = "relay"
  PROVE  c \in X \/ \E d \in X : c \in ReachableFrom(Leads(d))
  <1> DEFINE T == X \cup UNION {ReachableFrom(Leads(d)) : d \in X}
  <1>1. T \subseteq Context
    BY DEF ReachableFrom
  <1>2. \A d \in X : Leads(d) \subseteq ReachableFrom(Leads(d))
    <2> TAKE d \in X
    <2>1. Leads(d) \subseteq Context
      BY GraphFacts DEF Leads
    <2> QED
      BY <2>1 DEF ReachableFrom, ClosedSets
  <1>3. ASSUME NEW d \in X, NEW e \in ReachableFrom(Leads(d)) \ {source}, kind[e] = "relay",
               NEW f \in Leads(e)
        PROVE  f \in ReachableFrom(Leads(d))
    <2>1. e \in Context /\ f \in Context
      BY GraphFacts DEF ReachableFrom, Leads
    <2>2. \A S \in ClosedSets(Leads(d)) : f \in S
      BY <1>3 DEF ReachableFrom, ClosedSets
    <2> QED
      BY <2>1, <2>2 DEF ReachableFrom
  <1>4. \A e \in T \ {source} : kind[e] = "relay" => Leads(e) \subseteq T
    BY <1>2, <1>3
  <1>5. T \in ClosedSets(X)
    BY <1>1, <1>4 DEF ClosedSets
  <1> QED
    BY <1>5 DEF ReachableFrom

(* When the search has drained without a loop, what was seen is closed,    *)
(* does not hold the source and has a last step in each of its parts.      *)
LEMMA InvDeadEnd == VerdictInv => DeadEndIsAcyclic
  <1> SUFFICES ASSUME VerdictInv, outcome = "dead_end"
               PROVE  /\ source \notin Reachable
                      /\ \A c \in Reachable : c \notin ReachableFrom(Leads(c))
    BY DEF DeadEndIsAcyclic
  <1>1. Inv /\ TypeOK /\ loop = <<>>
    BY DEF VerdictInv, Inv, DeadEndIsLoopFree
  <1>2. Pending = {} /\ \A b, d : ~Awaits(b, d, 0)
    BY <1>1 DEF Inv, RejectedIsDrained, Pending, Awaits
  <1>3. StrictlyCovered /\ Acyclic /\ source \notin seen
    BY <1>1 DEF VerdictInv, NoRepetition, SourceUnseen
  <1>4. start \in seen /\ \A c \in seen : Leads(c) \subseteq seen /\ kind[c] = "relay"
    BY <1>1, <1>2, <1>3 DEF StrictlyCovered, Inv, NothingLost, ExploredCovered
  <1>5. seen \in ClosedSets({start})
    BY <1>1, <1>4 DEF ClosedSets, TypeOK
  <1>6. Reachable \subseteq seen
    BY <1>5 DEF Reachable, ReachableFrom
  <1>7. ASSUME NEW c \in seen, c \in ReachableFrom(Leads(c)) PROVE FALSE
    <2> DEFINE S == {x \in seen : c \in ReachableFrom(Leads(x))}
    <2>1. c \in S /\ S \in SUBSET seen
      BY <1>7
    <2>2. PICK x \in S : S \cap Leads(x) = {}
      BY <1>2, <1>3, <2>1 DEF Acyclic
    <2>3. /\ Leads(x) \in SUBSET Context /\ source \notin Leads(x)
          /\ \A d \in Leads(x) : d \in seen /\ kind[d] = "relay"
      BY <1>1, <1>3, <1>4 DEF TypeOK
    <2>4. c \in Leads(x) \/ \E d \in Leads(x) : c \in ReachableFrom(Leads(d))
      BY <1>1, <2>2, <2>3, ReachesThrough
    <2> QED
      BY <2>1, <2>2, <2>3, <2>4
  <1> QED
    BY <1>3, <1>6, <1>7

(* What the caller is told is true: the signatures of a livelock error are *)
(* a closed walk, a plain refusal means that nothing reachable can repeat, *)
(* and the step limit trips only on more signatures than it allows.        *)
THEOREM VerdictHonest == Spec => []VerdictIsHonest
  <1>1. VerdictInv => VerdictIsHonest
    BY InvDeadEnd DEF VerdictInv, VerdictIsHonest
  <1> QED
    BY InitVerdict, NextVerdict, <1>1, PTL DEF Spec

===============================================================================
