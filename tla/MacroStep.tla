------------------------------- MODULE MacroStep -------------------------------
(***************************************************************************)
(* One cycle() of the simulation runtime on a hierarchical state machine   *)
(* (pyfcstm.simulate.runtime.SimulationRuntime): the call runs the machine *)
(* on a clone in validation mode and, when that reaches a stable boundary, *)
(* runs it again from the same snapshot in committed mode.  Each pass is a *)
(* loop that looks at the top frame of the stack; one action here is one   *)
(* iteration of that loop, or one nested initial transition.               *)
(*                                                                         *)
(* The state tree is a constant.  The transition lists are a variable that *)
(* never changes, so that one run checks many machines.  A Value stands    *)
(* for all persistent variables at once; guards, effects and lifecycle     *)
(* blocks are what they make of it.                                        *)
(***************************************************************************)
EXTENDS Naturals, Sequences, FiniteSets, SequencesExt

CONSTANTS State,        \* every state of the machine
          Root,         \* its root state
          Parent,       \* [State \ {Root} -> State]
          Pseudo,       \* pseudo states: routing only, never a stable boundary
          Value,        \* valuations of the persistent variables
          Event,        \* events a cycle may be given
          None,         \* an eventless transition's event
          Exit,         \* the target of a transition to [*]
          Machine,      \* the machines to consider, see IsMachine
          HotStart      \* targets of a hot start

Children(s) == {c \in State \ {Root} : Parent[c] = s}

Leaf == {s \in State : Children(s) = {}}

Composite == State \ Leaf

Stoppable == Leaf \ Pseudo

Transition == [to : State \cup {Exit}, event : Event \cup {None},
               guard : SUBSET Value, effect : [Value -> Value]]

(* init: initial transitions of a composite, in declaration order; out:    *)
(* transitions leaving a state; the others: lifecycle blocks, with during  *)
(* the whole during chain of a leaf, before and after the plain ones of a  *)
(* composite.  Transitions are declared in a composite and lead to its     *)
(* children, or out of it; the root is only left.                          *)
IsMachine(m) ==
  LET Lists  == [State -> Seq(Transition)]
      Blocks == [State -> [Value -> Value]]
  IN  /\ m \in [init : Lists, out : Lists, enter : Blocks, during : Blocks, exit : Blocks,
                before : Blocks, after : Blocks]
      /\ \A s \in State :
           /\ \A t \in ToSet(m.init[s]) : t.to \in Children(s)
           /\ \A t \in ToSet(m.out[s]) :
                t.to = Exit \/ (s # Root /\ t.to \in Children(Parent[s]))

Mode == {"active", "after_entry", "init_wait", "post_child_exit"}

Frame == [state : State, mode : Mode, pending : BOOLEAN]

Pass == {"idle", "validating", "committing"}

Result == {"none", "stable", "ended", "delta", "raised"}

Mark == {"enter", "exit", "before"} \X State

(* The states from the root down to s.                                     *)
Path(s) ==
  LET Up[n \in 0..Cardinality(State)] ==
        IF n = 0 THEN <<s>>
        ELSE LET path == Up[n - 1]
             IN  IF Head(path) = Root THEN path ELSE <<Parent[Head(path)]>> \o path
  IN  Up[Cardinality(State)]

IsPath(p) ==
  /\ p # <<>> => p[1] = Root
  /\ \A i \in 2..Len(p) : p[i] # Root /\ p[i - 1] = Parent[p[i]]

(* The states form a tree: from each one the walk up ends at the root.     *)
ASSUME TreeAssumption ==
  /\ Root \in State
  /\ Parent \in [State \ {Root} -> State]
  /\ \A s \in State : Path(s) \in Seq(State) \ {<<>>} /\ IsPath(Path(s)) /\ Last(Path(s)) = s
  /\ Pseudo \subseteq Leaf
  /\ HotStart \subseteq State
  /\ Exit \notin State
  /\ None \notin Event
  /\ \A m \in Machine : IsMachine(m)

VARIABLES machine,      \* transition lists and lifecycle blocks
          stack, value, \* the public state of the runtime
          initialized,  \* _initialized
          hot,          \* the stack the constructor built
          pass,         \* which pass of cycle() is running
          events,       \* d_events of the running cycle
          run,          \* the working clone: [stack, value]
          nested,       \* an entered composite still attempts its initial transition
          visited,      \* seen_signatures of the pass
          trace,        \* _cycle_trace: enters, exits and plain before blocks
          consumed,     \* consumed_events
          promise,      \* where the validation pass got to
          result        \* how the last cycle() returned

public == <<stack, value, initialized>>
vars == <<machine, stack, value, initialized, hot, pass, events, run, nested, visited,
          trace, consumed, promise, result>>

-------------------------------------------------------------------------------
(* Operations on a context: a record [stack, value, trace] where trace is  *)
(* what the operation adds to the cycle trace.                             *)

Contexts == [stack : Seq(Frame), value : Value, trace : Seq(Mark)]

Context(s, v) == [stack |-> s, value |-> v, trace |-> <<>>]

Top(s) == s[Len(s)]

(* Mutant: the frame of the source stays.                                  *)
PopNothing(s) == s

Pop(s) == SubSeq(s, 1, Len(s) - 1)

States(s) == [i \in 1..Len(s) |-> s[i].state]

SetTop(s, field, x) == [s EXCEPT ![Len(s)] = [@ EXCEPT ![field] = x]]

Noted(c, kind, s) == Append(c.trace, <<kind, s>>)

(* A pseudo state without any edge: entered without running any block.     *)
NoOutgoing(s) == s \in Pseudo /\ machine.out[s] = <<>> /\ machine.init[s] = <<>>

EnterState(c, s) ==
  LET entered == machine.enter[s][c.value]
  IN  [trace |-> Noted(c, "enter", s),
       value |-> IF NoOutgoing(s) THEN c.value
                 ELSE IF s \in Leaf THEN machine.during[s][entered] ELSE entered,
       stack |-> Append(c.stack,
                   [state   |-> s,
                    mode    |-> IF NoOutgoing(s) THEN "active"
                                ELSE IF s \in Leaf THEN "after_entry" ELSE "init_wait",
                    pending |-> s \in Composite])]

(* The plain before block of the composite on top runs once, when routing  *)
(* has chosen a child that is not a pseudo state.                          *)
ConsumeBefore(c) ==
  IF Top(c.stack).pending
  THEN [stack |-> SetTop(c.stack, "pending", FALSE),
        value |-> machine.before[Top(c.stack).state][c.value],
        trace |-> Noted(c, "before", Top(c.stack).state)]
  ELSE c

(* Mutant: entering a pseudo state runs the plain before block as well.    *)
RouteEager(c, target) == ConsumeBefore(c)

Route(c, target) == IF target \in Pseudo THEN c ELSE ConsumeBefore(c)

(* An initial transition: effect, plain before block, entry of the child,  *)
(* and then the composite is active.                                       *)
TakeInit(c, t) ==
  LET routed == Route([c EXCEPT !.value = t.effect[@]], t.to)
  IN  EnterState([routed EXCEPT !.stack = SetTop(@, "mode", "active")], t.to)

(* Mutant: the nested path forgets the plain before block.                 *)
TakeInitNestedBare(c, t) == EnterState([c EXCEPT !.value = t.effect[@]], t.to)

(* In committed mode a composite child attempts its own initial transition *)
(* before the owner is set active.                                         *)
TakeInitNested(c, t) ==
  EnterState(Route([c EXCEPT !.value = t.effect[@]], t.to), t.to)

(* Mutant: owners of a nested descent keep waiting.                        *)
SettleNothing(s) == s

(* ... which then happens to every composite of the descent but the last.  *)
Settle(s) ==
  [i \in 1..Len(s) |->
     IF i < Len(s) /\ s[i].mode = "init_wait" THEN [s[i] EXCEPT !.mode = "active"] ELSE s[i]]

(* Mutant: the exit of the root is not recorded.                           *)
FinalizeExitUntraced(c) ==
  IF c.stack = <<>> THEN c
  ELSE LET parent == Top(c.stack).state
           after  == machine.after[parent][c.value]
       IN  IF parent = Root
           THEN [c EXCEPT !.stack = <<>>, !.value = machine.exit[parent][after]]
           ELSE [c EXCEPT !.stack = SetTop(@, "mode", "post_child_exit"), !.value = after]

(* The child has been popped through [*].                                  *)
FinalizeExit(c) ==
  IF c.stack = <<>> THEN c
  ELSE LET parent == Top(c.stack).state
           after  == machine.after[parent][c.value]
       IN  IF parent = Root
           THEN [stack |-> <<>>, value |-> machine.exit[parent][after],
                 trace |-> Noted(c, "exit", parent)]
           ELSE [c EXCEPT !.stack = SetTop(@, "mode", "post_child_exit"), !.value = after]

ClearBefore(c, source) ==
  IF source \in Pseudo /\ c.stack # <<>>
  THEN [c EXCEPT !.stack = SetTop(@, "pending", FALSE)] ELSE c

(* A transition from the state on top: its exit block, the effect, then    *)
(* the exit to the parent or the entry of a sibling.                       *)
TakeOut(c, t) ==
  LET source == Top(c.stack).state
      left   == [stack |-> Pop(c.stack), value |-> t.effect[machine.exit[source][c.value]],
                 trace |-> Noted(c, "exit", source)]
  IN  IF t.to = Exit THEN FinalizeExit(ClearBefore(left, source))
      ELSE EnterState(IF source \in Pseudo /\ left.stack # <<>> THEN Route(left, t.to) ELSE left,
                      t.to)

-------------------------------------------------------------------------------
(* Which transition is taken.                                              *)

Waiting(c) == Top(c.stack).mode = "init_wait"

Candidates(c) ==
  LET s == Top(c.stack).state
  IN  IF Waiting(c) THEN machine.init[s]
      ELSE IF s \in Leaf \/ Top(c.stack).mode = "post_child_exit" THEN machine.out[s] ELSE <<>>

(* The event is there and the guard holds on the current values.           *)
Enabled(c, t) == (t.event = None \/ t.event \in events) /\ c.value \in t.guard

Bare(c) == [c EXCEPT !.trace = <<>>]

Taken(c, t) == Bare(IF Waiting(c) THEN TakeInit(c, t) ELSE TakeOut(c, t))

Arrived(c) == c.stack # <<>> /\ Top(c.stack).state \in Leaf /\ Top(c.stack).mode = "after_entry"

Viable(c) == c.stack = <<>> \/ (Arrived(c) /\ Top(c.stack).state \in Stoppable)

(* One step of the speculative search.                                     *)
Onward(c) ==
  IF Viable(c) THEN {}
  ELSE IF Arrived(c) THEN {[c EXCEPT !.stack = SetTop(@, "mode", "active")]}
  ELSE {Taken(c, t) : t \in {u \in ToSet(Candidates(c)) : Enabled(c, u)}}

(* One more round of the search, which never goes on from the source of    *)
(* the candidate.                                                          *)
Further(source, known) == known \cup UNION {Onward(c) : c \in known \ {source}}

(* What the search opens, round by round, until it holds a viable context. *)
Explored(source, start) ==
  LET Open[known \in SUBSET Contexts] ==
        LET next == Further(source, known)
        IN  IF (\E c \in known : Viable(c)) \/ next = known THEN known ELSE Open[next]
  IN  Open[{start}]

(* The contexts of a set from which a path goes on inside it.              *)
Continuing(kept) == {c \in kept : Onward(c) \cap kept # {}}

(* Contexts left when those that lead nowhere are removed again and again: *)
(* some remain exactly when a path repeats.                                *)
Repeating(contexts) ==
  LET Prune[kept \in SUBSET contexts] ==
        LET rest == Continuing(kept)
        IN  IF rest = kept THEN kept ELSE Prune[rest]
  IN  Prune[contexts]

(* What _validation_search_reaches_stable answers for a candidate, as      *)
(* ValidationSearch shows; its safety limits are beyond the small machines *)
(* this module is checked on.                                              *)
Verdict(source, start) ==
  LET opened == Explored(source, start)
  IN  IF \E c \in opened : Viable(c) THEN "accept"
      ELSE IF source \in opened \/ Repeating(opened) # {} THEN "loop"
      ELSE "reject"

VerdictOf(c, t) == IF Enabled(c, t) THEN Verdict(Bare(c), Taken(c, t)) ELSE "disabled"

(* _select_valid_candidate: the first accepted candidate in declaration    *)
(* order, at most one in take.  A loop is remembered and raised only when  *)
(* none is accepted.                                                       *)
Selection(c) ==
  LET candidates == Candidates(c)
      verdict == [i \in DOMAIN candidates |-> VerdictOf(c, candidates[i])]
      accepted == {i \in DOMAIN candidates : verdict[i] = "accept"}
  IN  [take   |-> {candidates[i] : i \in {j \in accepted : \A k \in accepted : j <= k}},
       raises |-> accepted = {} /\ \E i \in DOMAIN candidates : verdict[i] = "loop"]

Nothing(selection) == selection.take = {} /\ ~selection.raises

-------------------------------------------------------------------------------

HotFrame(s, is_target) ==
  [state   |-> s,
   mode    |-> IF is_target /\ s \in Composite THEN "init_wait" ELSE "active",
   pending |-> FALSE]

HotStack(target) ==
  LET path == Path(target)
  IN  [i \in 1..Len(path) |-> HotFrame(path[i], i = Len(path))]

Init ==
  /\ machine \in Machine
  /\ value \in Value
  /\ \/ /\ initialized = FALSE
        /\ stack = <<[state |-> Root, mode |-> "init_wait", pending |-> FALSE]>>
     \/ /\ initialized = TRUE
        /\ \E target \in HotStart : stack = HotStack(target)
  /\ hot = stack
  /\ pass = "idle"
  /\ events = {}
  /\ run = Context(stack, value)
  /\ nested = FALSE
  /\ visited = {}
  /\ trace = <<>>
  /\ consumed = <<>>
  /\ promise = Context(stack, value)
  /\ result = "none"

Ended == initialized /\ stack = <<>>

(* Each pass starts from the same snapshot; before the first cycle has     *)
(* committed, it enters the root.                                          *)
Snapshot == IF initialized THEN Context(stack, value) ELSE EnterState(Context(<<>>, value), Root)

StartPass ==
  /\ run' = Bare(Snapshot)
  /\ nested' = (~initialized /\ Root \in Composite)
  /\ visited' = {}
  /\ consumed' = <<>>

(* cycle(events).  An ended runtime ignores the call.                      *)
Call ==
  /\ pass = "idle"
  /\ ~Ended
  /\ pass' = "validating"
  /\ events' \in SUBSET Event
  /\ StartPass
  /\ trace' = <<>>
  /\ UNCHANGED <<machine, public, hot, promise, result>>

(* The clone moves to c; only the committed pass is traced.                *)
Move(c) ==
  /\ run' = Bare(c)
  /\ trace' = IF pass = "committing" THEN trace \o c.trace ELSE trace
  /\ UNCHANGED <<machine, public, hot, pass, events, promise, result>>

(* Mutant: an eventless transition is recorded too.                        *)
ConsumeAny(t) ==
  consumed' = IF pass = "committing" THEN Append(consumed, t.event) ELSE consumed

Consume(t) ==
  consumed' = IF pass = "committing" /\ t.event # None THEN Append(consumed, t.event) ELSE consumed

(* A pass has reached a stable boundary or the end of the machine.  The    *)
(* validation pass is dropped and the committed pass starts over; the      *)
(* committed pass publishes its context.                                   *)
Finish(c) ==
  \/ /\ pass = "validating"
     /\ pass' = "committing"
     /\ promise' = Bare(c)
     /\ StartPass
     /\ trace' = Snapshot.trace
     /\ UNCHANGED <<machine, public, hot, events, result>>
  \/ /\ pass = "committing"
     /\ pass' = "idle"
     /\ stack' = c.stack
     /\ value' = c.value
     /\ initialized' = TRUE
     /\ result' = IF c.stack = <<>> THEN "ended" ELSE "stable"
     /\ run' = Bare(c)
     /\ trace' = trace \o c.trace
     /\ visited' = {}
     /\ UNCHANGED <<machine, hot, events, nested, promise>>

(* The clone is dropped, the public state stays.                           *)
Abandon(how) ==
  /\ pass' = "idle"
  /\ result' = how
  /\ run' = Context(stack, value)
  /\ nested' = FALSE
  /\ visited' = {}
  /\ consumed' = <<>>
  /\ trace' = <<>>
  /\ UNCHANGED <<machine, public, hot, events, promise>>

(* The transition entered a composite that must now choose a child at      *)
(* once: committed mode only, the validation loop comes back to it.        *)
Descends(t) == pass = "committing" /\ t.to \in Composite

TakeInitial(t) ==
  LET c == IF pass = "committing" THEN TakeInitNested(run, t) ELSE TakeInit(run, t)
  IN  /\ Move(IF Descends(t) THEN c ELSE [c EXCEPT !.stack = Settle(@)])
      /\ nested' = Descends(t)
      /\ Consume(t)

Nested == pass # "idle" /\ nested

NestedInitial(selection) ==
  /\ Nested
  /\ \E t \in selection.take : TakeInitial(t)
  /\ UNCHANGED visited

NestedWaits(selection) ==
  /\ Nested
  /\ Nothing(selection)
  /\ Move([run EXCEPT !.stack = Settle(@)])
  /\ nested' = FALSE
  /\ UNCHANGED <<visited, consumed>>

(* An iteration of the loop, on a context it has not seen in this pass.    *)
Fresh ==
  /\ pass # "idle"
  /\ ~nested
  /\ run \notin visited

(* Mutant: the loop does not remember where it has been.                   *)
IteratesBlindly == Fresh /\ UNCHANGED visited

Iterates == Fresh /\ visited' = visited \cup {run}

PseudoSettles ==
  /\ Iterates
  /\ Arrived(run)
  /\ ~Viable(run)
  /\ Move([run EXCEPT !.stack = SetTop(@, "mode", "active")])
  /\ UNCHANGED <<nested, consumed>>

Stops ==
  /\ Fresh
  /\ Arrived(run)
  /\ Viable(run)
  /\ (pass = "committing" => UNCHANGED consumed)
  /\ Finish([run EXCEPT !.stack = SetTop(@, "mode", "active")])

Routes == ~Arrived(run) /\ ~Waiting(run)

Moves(selection) ==
  /\ Iterates
  /\ Routes
  /\ \E t \in selection.take :
       /\ TakeOut(run, t).stack # <<>>
       /\ Move(TakeOut(run, t))
       /\ nested' = Descends(t)
       /\ Consume(t)

Terminates(selection) ==
  /\ Fresh
  /\ Routes
  /\ \E t \in selection.take :
       /\ TakeOut(run, t).stack = <<>>
       /\ (pass = "committing" => Consume(t))
       /\ Finish(TakeOut(run, t))

LeafStays(selection) ==
  /\ Iterates
  /\ Routes
  /\ Top(run.stack).state \in Leaf
  /\ ~NoOutgoing(Top(run.stack).state)
  /\ Nothing(selection)
  /\ Move([run EXCEPT !.stack = SetTop(@, "mode", "after_entry"),
                      !.value = machine.during[Top(run.stack).state][@]])
  /\ UNCHANGED <<nested, consumed>>

Initializes(selection) ==
  /\ Iterates
  /\ Waiting(run)
  /\ \E t \in selection.take : TakeInitial(t)

(* No stable boundary, the cycle is a Delta: the pass repeats itself or is *)
(* in a pseudo state without any edge ...                                  *)
GivesUp ==
  /\ pass # "idle"
  /\ ~nested
  /\ run \in visited \/ NoOutgoing(Top(run.stack).state)
  /\ Abandon("delta")

(* ... or in a composite that nothing leads out of.                        *)
Strands(selection) ==
  /\ Fresh
  /\ Top(run.stack).state \in Composite
  /\ Nothing(selection)
  /\ Abandon("delta")

(* A livelock error leaves cycle() with nothing changed.                   *)
Raises(selection) ==
  /\ Nested \/ Fresh
  /\ ~Arrived(run)
  /\ selection.raises
  /\ Abandon("raised")

Step ==
  \/ PseudoSettles
  \/ Stops
  \/ GivesUp
  \/ pass # "idle" /\ \E selection \in {Selection(run)} :
       \/ NestedInitial(selection)
       \/ NestedWaits(selection)
       \/ Moves(selection)
       \/ Terminates(selection)
       \/ LeafStays(selection)
       \/ Initializes(selection)
       \/ Strands(selection)
       \/ Raises(selection)

Next == Call \/ Step

Spec == Init /\ [][Next]_vars

(* cycle() is synchronous: once called, its loop runs until it returns.    *)
FairSpec == Spec /\ WF_vars(Step)

-------------------------------------------------------------------------------
(***************************************************************************)
(* Properties.                                                             *)
(***************************************************************************)

TypeOK ==
  /\ machine \in Machine
  /\ {stack, hot} \subseteq Seq(Frame)
  /\ value \in Value
  /\ {run, promise} \subseteq Contexts
  /\ initialized \in BOOLEAN /\ nested \in BOOLEAN
  /\ pass \in Pass /\ result \in Result
  /\ events \in SUBSET Event
  /\ trace \in Seq(Mark)
  /\ consumed \in Seq(Event)

(* In every pass and at every step the frames are a path of the tree from  *)
(* the root: no exit, sibling entry or descent leaves a frame behind.      *)
StackIsPath == IsPath(States(stack)) /\ IsPath(States(run.stack))

IsBoundary(s) ==
  /\ \A i \in 1..Len(s) : s[i].mode = "active" /\ ~s[i].pending
  /\ Top(s).state \in Stoppable

(* Between cycles the machine rests on a stoppable leaf with no routing    *)
(* or plain before block outstanding, has ended, or is where it started.   *)
RestsAtBoundary == pass = "idle" => stack \in {<<>>, hot} \/ IsBoundary(stack)

(* What the validation pass found is what the committed pass does: it      *)
(* neither gives up nor raises, and ends in the same stack and values      *)
(* ("Validation and committed execution must agree", _cycle_with_inputs).  *)
CommitKeepsPromise ==
  [][pass = "committing" /\ pass' = "idle" =>
       /\ result' \in {"stable", "ended"}
       /\ stack' = promise.stack
       /\ value' = promise.value]_vars

(* What is published was validated: although the committed pass selects    *)
(* its transitions anew and takes nested initial transitions by a path of  *)
(* their own, it does not raise, and unless the cycle is a Delta it ends   *)
(* in the stack and values the validation pass ended in.                   *)
PublishesPromise ==
  [][pass = "committing" /\ pass' = "idle" /\ result' # "delta" =>
       stack' = promise.stack /\ value' = promise.value]_vars

(* Replaying enters and exits over a path; <<None>> when one does not fit. *)
Replayed(p, m) ==
  CASE m[1] = "enter" -> Append(p, m[2])
    [] m[1] = "exit" /\ p # <<>> /\ Last(p) = m[2] -> Front(p)
    [] m[1] = "before" /\ p # <<>> /\ Last(p) = m[2] -> p
    [] OTHER -> <<None>>

Replay(path, marks) ==
  LET After[n \in 0..Len(marks)] ==
        IF n = 0 THEN path ELSE Replayed(After[n - 1], marks[n])
  IN  After[Len(marks)]

(* The trace a cycle returns accounts for its whole effect on the active   *)
(* path: every exit leaves the innermost active state, plain before blocks *)
(* run in the innermost composite, and the enters and exits lead from the  *)
(* path before the cycle to the path after it.                             *)
TraceReplays ==
  [][pass = "committing" /\ pass' = "idle" /\ result' \in {"stable", "ended"} =>
       Replay(IF initialized THEN States(stack) ELSE <<>>, trace') = States(stack')]_vars

(* A plain before block runs exactly once for each entry of its composite  *)
(* that selects a child which is not a pseudo state, right before that     *)
(* child is entered, and never otherwise.                                  *)
PlainBeforeOnce ==
  \A i \in 1..Len(trace) :
    LET kind == trace[i][1]
        s    == trace[i][2]
        \* the marks since the composite c was last entered, up to i
        since(c) == {j \in 1..(i - 1) :
                       \E k \in 1..j : /\ trace[k] = <<"enter", c>>
                                       /\ \A l \in (k + 1)..(i - 1) : trace[l] # <<"enter", c>>}
    IN  /\ kind = "before" =>
             /\ since(s) # {}
             /\ \A j \in since(s) : trace[j] # <<"before", s>>
             /\ i < Len(trace) => /\ trace[i + 1][1] = "enter"
                                  /\ trace[i + 1][2] \notin Pseudo
                                  /\ Parent[trace[i + 1][2]] = s
        /\ kind = "enter" /\ s # Root /\ s \notin Pseudo /\ since(Parent[s]) # {} =>
             \E j \in since(Parent[s]) : trace[j] = <<"before", Parent[s]>>

(* A Delta means that nothing could be done: no enabled candidate of the   *)
(* state the machine rests in leads to a stable boundary or to the end     *)
(* (cycle: "No stoppable successor can be committed").                     *)
DeltaIsHopeless ==
  [][pass # "idle" /\ pass' = "idle" /\ result' = "delta" =>
       \A c \in Explored(Context(<<>>, value), Bare(Snapshot)) : ~Viable(c)]_vars

(* Why StackIsPath and RestsAtBoundary hold.  Below the top everything is  *)
(* active, or still descends; a plain before block is owed only by a       *)
(* composite that waits for its child, or by the parent of a pseudo state. *)
Descent(s, descending) ==
  \A i \in 1..(Len(s) - 1) : s[i].mode = "active" \/ (descending /\ s[i].mode = "init_wait")

Owed(s) ==
  \A i \in 1..Len(s) :
    s[i].pending => \/ i = Len(s) /\ s[i].mode = "init_wait"
                    \/ i = Len(s) - 1 /\ Top(s).state \in Pseudo

Shaped(s, descending) == IsPath(States(s)) /\ Descent(s, descending) /\ Owed(s)

Rested == stack \in {<<>>, hot} \/ IsBoundary(stack)

Running ==
  pass # "idle" => /\ ~Ended
                   /\ run.stack # <<>>
                   /\ nested => Waiting(run)

IInv == TypeOK /\ Shaped(stack, FALSE) /\ Shaped(run.stack, nested) /\ Rested /\ Running

(* Every call of cycle() returns.                                          *)
CycleReturns == pass # "idle" ~> pass = "idle"

================================================================================
