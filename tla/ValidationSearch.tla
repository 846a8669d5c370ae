--------------------------- MODULE ValidationSearch ---------------------------
(***************************************************************************)
(* The speculative search of the simulation runtime                        *)
(* (SimulationRuntime._validation_search_reaches_stable): before a         *)
(* candidate transition is taken, an explicit last-in-first-out worklist   *)
(* looks for one continuation that reaches a stoppable leaf or the end of  *)
(* the machine.                                                            *)
(*                                                                         *)
(* A Context stands for one execution signature: the frames of the stack   *)
(* with their modes and pending flags, and the values of the variables.    *)
(* Inputs, parameters and events are frozen during a cycle, so what one    *)
(* step can do from a context is a fixed list of contexts: graph[c] lists  *)
(* them in declaration order, after the guards have been evaluated.        *)
(***************************************************************************)
EXTENDS Naturals, Sequences, FiniteSets

CONSTANTS Context,     \* execution signatures
          MaxOut,      \* bound: declared transitions of one source
          Limits       \* values of _DFS_STEP_LIMIT

ASSUME BoundsAssumption == MaxOut \in Nat /\ Limits \subseteq Nat

VARIABLES graph,       \* enabled successors of each context, in declaration order
          kind,        \* what the loop body finds at each context
          source,      \* the context whose candidate is being validated
          limit,       \* _DFS_STEP_LIMIT of this runtime
          start,       \* what the candidate leads to: where the search begins
          worklist,    \* Seq of [at, trail], the last one is popped next
          seen,        \* seen_signatures
          steps,       \* steps_taken
          loop,        \* signatures of the remembered livelock error, <<>> if none
          outcome      \* how the call ends, or "searching"

graphVars == <<graph, kind, source, limit, start>>
vars == <<graph, kind, source, limit, start, worklist, seen, steps, loop, outcome>>

(***************************************************************************)
(* "ended": the stack is empty or the machine has ended; "too_deep": more  *)
(* frames than _DFS_STRUCTURAL_DEPTH_LIMIT; "stable": a stoppable leaf     *)
(* that has just been entered; "relay": anything that must move on (a      *)
(* pseudo leaf, a composite waiting for its initial child, a composite     *)
(* whose child has exited), with no successor when it is a dead end.       *)
(***************************************************************************)
Kind == {"ended", "too_deep", "stable", "relay"}

Outcome == {"searching", "stable", "dead_end", "livelock", "step_limit", "depth_limit"}

Entry == [at : Context, trail : Seq(Context)]

SuccessorList == UNION {[1..n -> Context] : n \in 0..MaxOut}

Occurs(c, s) == \E i \in 1..Len(s) : s[i] = c

TypeOK ==
  /\ graph \in [Context -> SuccessorList]
  /\ kind \in [Context -> Kind]
  /\ source \in Context
  /\ limit \in Limits
  /\ start \in Context
  /\ worklist \in Seq(Entry)
  /\ seen \in SUBSET Context
  /\ steps \in Nat
  /\ loop \in Seq(Context)
  /\ outcome \in Outcome

-------------------------------------------------------------------------------

(* The candidate's effect and entry actions have been applied on a clone,  *)
(* which gives start; the source is the first signature of the trail.      *)
Begin ==
  /\ worklist = <<[at |-> start, trail |-> <<source>>]>>
  /\ seen = {}
  /\ steps = 0
  /\ loop = <<>>
  /\ outcome = "searching"

(* start is what one enabled candidate of source leads to. *)
Init ==
  /\ graph \in [Context -> SuccessorList]
  /\ kind \in [Context -> Kind]
  /\ source \in {c \in Context : kind[c] = "relay"}
  /\ limit \in Limits
  /\ start \in {c \in Context : Occurs(c, graph[source])}
  /\ Begin

top == worklist[Len(worklist)]
rest == SubSeq(worklist, 1, Len(worklist) - 1)

Popping == outcome = "searching" /\ worklist # <<>>

(* Mutant: the last declared candidate is never pushed.                    *)
SuccessorsButLast(c, trail) ==
  [i \in 1..(Len(graph[c]) - 1) |-> [at |-> graph[c][Len(graph[c]) - i], trail |-> trail]]

(* Each next context is pushed with the extended trail.  The code walks    *)
(* the declarations in reverse, so the first declared is popped first.     *)
Successors(c, trail) ==
  [i \in 1..Len(graph[c]) |->
     [at |-> graph[c][Len(graph[c]) + 1 - i], trail |-> trail]]

(* trail.index: a trail never holds a signature twice, so there is one.    *)
IndexOf(c, s) == CHOOSE i \in 1..Len(s) : s[i] = c

PopEnded ==
  /\ Popping
  /\ kind[top.at] = "ended"
  /\ outcome' = "stable"
  /\ worklist' = rest
  /\ UNCHANGED <<graphVars, seen, steps, loop>>

PopTooDeep ==
  /\ Popping
  /\ kind[top.at] = "too_deep"
  /\ outcome' = "depth_limit"
  /\ worklist' = rest
  /\ UNCHANGED <<graphVars, seen, steps, loop>>

Searchable == Popping /\ kind[top.at] \in {"stable", "relay"}

(* Mutant: a repeated signature is dropped without a livelock error.       *)
PopOnTrailSilent ==
  /\ Searchable
  /\ Occurs(top.at, top.trail)
  /\ worklist' = rest
  /\ UNCHANGED <<graphVars, seen, steps, loop, outcome>>

(* Mutant: the repeated entry stays on the worklist.                       *)
PopOnTrailKept ==
  /\ Searchable
  /\ Occurs(top.at, top.trail)
  /\ loop' = Append(SubSeq(top.trail, IndexOf(top.at, top.trail), Len(top.trail)),
                    top.at)
  /\ UNCHANGED <<graphVars, worklist, seen, steps, outcome>>

PopOnTrail ==
  /\ Searchable
  /\ Occurs(top.at, top.trail)
  /\ loop' = Append(SubSeq(top.trail, IndexOf(top.at, top.trail), Len(top.trail)),
                    top.at)
  /\ worklist' = rest
  /\ UNCHANGED <<graphVars, seen, steps, outcome>>

PopSeen ==
  /\ Searchable
  /\ ~Occurs(top.at, top.trail)
  /\ top.at \in seen
  /\ worklist' = rest
  /\ UNCHANGED <<graphVars, seen, steps, loop, outcome>>

New == Searchable /\ ~Occurs(top.at, top.trail) /\ top.at \notin seen

PopAtLimit ==
  /\ New
  /\ steps >= limit
  /\ seen' = seen \cup {top.at}
  /\ outcome' = "step_limit"
  /\ worklist' = rest
  /\ UNCHANGED <<graphVars, steps, loop>>

(* Mutant: whatever has been entered counts as a stable boundary.          *)
PopAnyStable ==
  /\ New
  /\ steps < limit
  /\ seen' = seen \cup {top.at}
  /\ steps' = steps + 1
  /\ outcome' = "stable"
  /\ worklist' = rest
  /\ UNCHANGED <<graphVars, loop>>

PopStable ==
  /\ New
  /\ steps < limit
  /\ kind[top.at] = "stable"
  /\ seen' = seen \cup {top.at}
  /\ steps' = steps + 1
  /\ outcome' = "stable"
  /\ worklist' = rest
  /\ UNCHANGED <<graphVars, loop>>

(* Mutant: the worklist entry is remembered in place of the signature.     *)
PopRelayEntry ==
  /\ New
  /\ steps < limit
  /\ kind[top.at] = "relay"
  /\ seen' = seen \cup {top}
  /\ steps' = steps + 1
  /\ worklist' = rest \o Successors(top.at, Append(top.trail, top.at))
  /\ UNCHANGED <<graphVars, loop, outcome>>

PopRelay ==
  /\ New
  /\ steps < limit
  /\ kind[top.at] = "relay"
  /\ seen' = seen \cup {top.at}
  /\ steps' = steps + 1
  /\ worklist' = rest \o Successors(top.at, Append(top.trail, top.at))
  /\ UNCHANGED <<graphVars, loop, outcome>>

Drained ==
  /\ outcome = "searching"
  /\ worklist = <<>>
  /\ outcome' = IF loop = <<>> THEN "dead_end" ELSE "livelock"
  /\ UNCHANGED <<graphVars, worklist, seen, steps, loop>>

Next ==
  \/ PopEnded
  \/ PopTooDeep
  \/ PopOnTrail
  \/ PopSeen
  \/ PopAtLimit
  \/ PopStable
  \/ PopRelay
  \/ Drained

Spec == Init /\ [][Next]_vars

(* The search is one synchronous call: nothing else runs until it returns. *)
FairSpec == Spec /\ WF_vars(Next)

-------------------------------------------------------------------------------
(***************************************************************************)
(* What the callers rely on.  Leads(c) are the contexts one step after c;  *)
(* the search never continues from the source, so what it can reach is the *)
(* least set that holds start and is closed under the steps of the other   *)
(* relays.                                                                 *)
(***************************************************************************)
Leads(c) == {graph[c][i] : i \in DOMAIN graph[c]}

ClosedSets(from) ==
  {S \in SUBSET Context :
     from \subseteq S /\ \A c \in S \ {source} : kind[c] = "relay" => Leads(c) \subseteq S}

ReachableFrom(from) == {c \in Context : \A S \in ClosedSets(from) : c \in S}

Reachable == ReachableFrom({start})

Viable(c) == kind[c] \in {"stable", "ended"}

(* A candidate is accepted only if a continuation that does not come back  *)
(* through its source reaches a stoppable leaf or the end                  *)
(* (the two return True branches of the loop).                             *)
AcceptedIsViable == outcome = "stable" => \E c \in Reachable : Viable(c)

(* A candidate is rejected, by False or by the livelock error, only when   *)
(* no continuation at all is viable: pruning by trail and by               *)
(* seen_signatures never loses one.                                        *)
RejectedIsHopeless ==
  outcome \in {"dead_end", "livelock"} => \A c \in Reachable : ~Viable(c)

(* What the caller is told is true.  The signatures of a livelock error are *)
(* a closed walk of the machine; a plain refusal, without an error, means   *)
(* that no explored path can repeat; and the step limit trips only on more  *)
(* different signatures than it allows, so that a small machine is never    *)
(* called unbounded.                                                        *)
LoopIsAClosedWalk ==
  loop # <<>> =>
    /\ Len(loop) > 1
    /\ loop[1] = loop[Len(loop)]
    /\ \A i \in 1..(Len(loop) - 1) : loop[i + 1] \in Leads(loop[i])

DeadEndIsAcyclic ==
  outcome = "dead_end" =>
    /\ source \notin Reachable
    /\ \A c \in Reachable : c \notin ReachableFrom(Leads(c))

LimitNeedsManySignatures == outcome = "step_limit" => Cardinality(seen) > limit

VerdictIsHonest ==
  /\ LoopIsAClosedWalk
  /\ DeadEndIsAcyclic
  /\ LimitNeedsManySignatures

(* The call returns, whatever the machine (the while loop ends).           *)
Returns == <>(outcome # "searching")

===============================================================================
