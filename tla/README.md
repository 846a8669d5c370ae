# TLA+ models of pyfcstm

pyfcstm is a toolchain for hierarchical finite state machines: a DSL and its
parser, a model with history and imports lowered away, a simulation runtime, a
bounded model checker and static analyses built on Z3, code templates, diagrams
and a self-check. This directory holds TLA+ models of its core, the TLC runs
that check them on small instances and TLAPS proofs of the theorems that matter
most. Everything is translated from the Python source; the file and lines that
each definition stands for are in `PROJECT.json` under `map`.

## 1. Inventory

| Part | State it keeps | Operations | What is hard |
|---|---|---|---|
| **Simulation runtime** (`pyfcstm/simulate/runtime.py`) | stack of frames (state, mode, pending plain-before flag), variables, `_initialized`, `_ended`, history, `cycle_count`, handler errors, error state | construction and hot start, `cycle()`, handler registry, session copy | two passes over clones that must agree; a look-ahead search before each transition; failures anywhere inside a call that must leave no mark |
| **Input sources** (`simulate/inputs.py`) | per provider: step, cached sample; the poison flag | `get`, `cycle`, overrides | partial failure while reading or advancing several user-written providers; retries |
| **Decision diagnostics** (`simulate/diagnostics.py`) | a collector for one cycle | observes candidate checks | none: it never changes execution |
| **Abstract handlers** (`runtime.py`, `decorators.py`, `context.py`) | registry from action path to handlers, collected errors | register, unregister, clear, copy to another runtime | user code fails in the middle of the committed pass |
| **Simulation REPL and batch** (`entry/simulate/`) | the current runtime, its input adapter, settings | init, reset, cycle, events | replacing the runtime; Ctrl+C keeps the session alive |
| **Model** (`model/model.py`, `expr.py`, `load.py`) | the finished machine, immutable in use | conversion from the syntax tree | long, sequential, many diagnostics |
| **History lowering** (`model/history.py`) | `__hist_<owner>` and `__hist_goto` in the lowered machine | rewrites `[H]` / `[H*]` into exit actions, effects and guarded initial transitions | the shared `__hist_goto` must be zero at every stable point; records written by visits that are then rejected |
| **Import assembly** (`model/imports.py`) | the stack of files being loaded, the diagnostics collected, the program assembled so far | recursive inclusion, renaming of variables, events and paths, merging | cycles against diamonds; the result must not depend on the order of imports; rejected modules must leave nothing behind |
| **Self-check supervisor** (`_selfcheck/supervisor.py`, `model.py`) | ledger of rows, states and results; forced exit code; report file | select, reserve, run, close, freeze, report | exactly one terminal result per check whatever ends the run, Ctrl+C between any two steps |
| **Self-check workers** (`_selfcheck/process.py`) | session directory, spools, process group or job of one worker | spawn behind a start gate, wait, terminate, drain, classify, clean up | an answer racing its deadline; descendants that outlive the worker; Ctrl+C during clean-up |
| **BMC** (`bmc/`) | none between calls | binding, macro expansion, relation, properties, witnesses | the static macro relation must agree with the runtime |
| **Verification, solver, semantics** (`verify/`, `solver/`, `semantics/`) | none | graph analyses, translation to Z3, arithmetic | numbers |
| **DSL, diagnostics, rendering, diagrams, highlighting, guides, command line, JavaScript port** | none | parsing, reports, text | no concurrency, no failure handling of interest |

How the parts interact. A program is parsed, its imports are assembled into one
program, the program becomes a model and history is lowered out of it. The command line and the REPL own a `SimulationRuntime`
over that model and call `cycle(events, inputs)`. The call samples every input provider once,
runs the machine on a clone (*validation*), and, if that reaches a stable
boundary, runs it again from the same snapshot (*committed* pass) with handlers
and trace. Whenever a pass must leave a composite or a pseudo state, or choose
an initial child, it asks the
*speculative search* of each candidate whether it can still reach a stoppable
leaf or the end. Then the providers are advanced and the prepared stack,
variables, history and count are assigned. A handler or a provider is user code
and may raise; a caller may call again after any exception. The self-check is
on its own: its supervisor runs checks one after the other, most of them in a
worker process each, and shares nothing with the rest but the code it tests.

What makes the parts correct:

* search: accepts exactly the candidates with a viable continuation, reports a
  loop when and only when one was met, returns;
* macro step: the stack is always a path of the tree, the machine rests only on
  boundaries, both passes agree, blocks run as often as they should, the trace
  explains the outcome;
* cycle protocol: a call is atomic, sources and cycle count stay in step,
  history is complete and bounded;
* history: the lowered machine chooses, enters and remembers what a machine
  with history would, and `__hist_goto` is back at zero at rest;
* imports: what is accepted is what makes sense, independently of the order;
  bindings agree in type and role; a module is merged whole or not at all;
* supervisor: every selected check is reported once, checks run only after
  their prerequisites, exit code, stream and report file tell one truth;
* workers: nothing they started survives the call, and a verdict is the answer
  of this worker, given in time.

The hazards behind these, each at its source line, are in `PROJECT.json` under
`hazards`.

## 2. Modules

| Module | Models | Kind |
|---|---|---|
| `ValidationSearch` | `_validation_search_reaches_stable` | algorithm over an arbitrary graph of signatures |
| `MacroStep` | `cycle()` on the machine: both passes, all entry and exit rules | state machine |
| `AtomicCycle` | what a call of `cycle()` promises | abstract specification |
| `CycleProtocol` | `cycle()` around the machine: reading, the passes, handlers, advancing, publishing | detailed specification, implements `AtomicCycle` |
| `HistoryMachine` | where control is in a machine with history, and what its transitions look like | common part of the next two |
| `NativeHistory` | a machine that remembers the leaf an owner was last left from | abstract specification |
| `HistoryLowering` | `lower_history`: the rewritten machine with its hidden variables | detailed specification, implements `NativeHistory` |
| `ImportAssembly` | `assemble_state_machine_imports` as a stack of programs | state machine |
| `ImportMeaning` | what a program with imports means, without an order | reference definition for `ImportAssembly` |
| `SelfCheckContract` | what the self-check promises | abstract specification |
| `SelfCheck` | one call of `run_supervisor` with its `Ledger` | detailed specification, implements `SelfCheckContract` |
| `WorkerProcess` | one call of `run_check_process`, its worker and the operating system | state machine of several processes |
| `MC<...>` | instances of the above | model checking |
| `ValidationSearchProofs`, `MacroStepProofs`, `MacroStepPromise`, `CycleProtocolProofs`, `HistoryProofs`, `ImportProofs`, `SelfCheckProofs`, `WorkerProcessProofs` | theorems | proofs |

The first three models look at the same call from three distances. `CycleProtocol`
knows that a pass may succeed, be a Delta or raise, not why. `MacroStep` knows
why, and uses the *verdict* of the search in closed form (`Verdict`: a viable
context is reachable without going through the source). `ValidationSearch`
shows that the worklist algorithm computes that verdict. `SelfCheck` and
`WorkerProcess` are composed in the same way: `Outcome` is what a worker's
verdicts look like to the supervisor.

### ValidationSearch

A *signature* of the code (`_create_execution_signature`: frames with modes and
pending flags, variable values) is an opaque `Context`. Inputs, parameters and
events do not change during a cycle, so the enabled successors of a signature
are a fixed list, `graph[c]`, in declaration order. `kind[c]` says what the
loop body finds: the machine has ended, the stack is too deep, a freshly
entered stoppable leaf, or a *relay* that must move on (pseudo leaf, composite
waiting for its initial child, composite whose child has exited); a relay
without successor is a dead end. One action is one iteration of the `while`
loop; the disjuncts are its branches in their order: `PopEnded`, `PopTooDeep`,
`PopOnTrail` (remember a loop), `PopSeen`, `PopAtLimit`, `PopStable`,
`PopRelay`, and `Drained` for the end of the loop. Candidates are pushed in
reverse, so that the first declared is explored first.

### MacroStep

`stack`, `value` and `initialized` are the public state, `run` the working
clone, `visited` the signatures of the running pass, `trace` and `consumed`
what `CycleResult` reports, and `promise` a history variable: the context the
validation pass ended in. `machine` never changes: it holds the transition lists and the
lifecycle blocks, so that one run checks a family of machines. A `Value` stands
for all persistent variables; guards are sets of values, effects and blocks
functions on them.

The operations `EnterState`, `ConsumeBefore`, `Route`, `TakeInit`,
`FinalizeExit`, `ClearBefore` and `TakeOut` are the methods of the same or
similar names. Actions are the iterations of `_run_cycle_on_context`, split by
what they find: `PseudoSettles` and `Stops` (a leaf just entered),
`Moves` and `Terminates` (a transition out), `LeafStays` (no candidate: the
during chain runs), `Initializes` (an initial transition), `GivesUp` and
`Strands` (Delta), `Raises` (livelock error).

The passes differ in one place, and the model keeps it: in validation mode an entered composite waits for
the loop to come back (`TakeInit`), in committed mode `_enter_state` recurses
into the initial transition at once, and the owners become active only when the
recursion returns (`NestedInitial`, `NestedWaits`, `TakeInitNested`, `Settle`).
The recursion is flattened: `nested` says that the composite on top still
attempts its initial transition.

The definitions were compared with the running Python code as well: on a few
hundred of the machines below, some 7000 cycles gave the same stack with modes,
the same value, trace, consumed events and result as the model computes.

### CycleProtocol and AtomicCycle

`phase` is `reading`, `committing`, `advancing` or `idle`; `cursor` is the
provider that is read or advanced next. `Read` samples through the cache of
`_CachedInput`; `ReadFails` is an exhausted sequence or a provider that cannot
answer. `ValidationSucceeds`, `PreparesDelta`, `PreparesCommit` and
`PassRaises` are the ways the passes can end. `HandlerRaises` and
`HandlerLogged` are the two error modes. `Advance` and `AdvanceFails` move the
providers, the second with the provider either moved or not. `Publish` is the
block of assignments at the end. `Interrupted` is a `KeyboardInterrupt`, which
no `except Exception` catches. `Abort` is what the `finally` of `cycle()` does.
Between cycles the caller may set `history_size` (`Sizes`), as the REPL does.

`AtomicCycle` has only what a caller sees: boundary, count, history, collected
errors and whether the runtime has failed. It allows a whole cycle (`Commit` or
`Delta`) recorded with the samples of its own step, or a failure that changes
nothing else. `CycleProtocol` implements it with `errors` mapped to the value
before the call while a call runs, and `failed` to `error \/ poisoned`.

### HistoryMachine, NativeHistory and HistoryLowering

`HistoryMachine` has what a machine with history and the lowered one share:
control is `at` a state and leaves it (`select`) or enters its children
(`enter`); `BeginCycle`, `Follow`, `Descend` and `Return` are a cycle, a
transition, an entry and the rollback of a candidate. The conditions that
guards and events put on an initial transition are the set `needs` of what must
hold; effects may change what guards say.

`NativeHistory` adds the rule: leaving an owner for good records the leaf the
visit began from (`Left`), and entering `o.[H]` or `o.[H*]` heads for a target
(`Target`), past all initial transitions on the way. `HistoryLowering` is what
the five rewritings of `history.py` produce. `ids` are the numbers of the
states in preorder, so that a subtree is a range (`InSubtree`). `Recorded` is
the exit action of a leaf, `RestoreTarget` the expression assigned to
`__hist_goto` by an entry, `Hops` and `CompositeTargets` decide which states
are touched, `Gate` is the conjunct added to their initial transitions,
`OpenRoute` the routes put in front of them, `Merged` a route laid over an
existing initial, and `Onward` and `Sent` what happens to `__hist_goto` on
each. A gate pseudo state of an evented initial is folded into the transition
behind it. `remembered` is an observer of the abstract rule and changes
nothing. The refinement maps `record` to it and `heading` to the state
`__hist_goto` numbers; `RecordsAreTrue` ties the observer to the variables.

### ImportAssembly and ImportMeaning

A frame of `stack` is one `_assemble_program` in progress: its file, the chain
of import statements that led there, the next statement, the declarations so
far with where they came from, the variables assigned, the references to
events, the states grafted on. An action handles one import: `AliasConflict`,
`NotFound`, `Circular`, `Unreadable` refuse it, `Load` opens the module. A
module without imports left is refused by `RejectWrites`, `RejectNested`,
`RejectNames` or `RejectBinding` or grafted onto its host by `Merge` or
`MergeReporting`, in the order of the code. `Report` raises in strict mode and
goes on in collect mode. `Crash` is the `AttributeError` of collect mode: after
a missing event target has been reported, its events are read all the same
(`imports.py`, line 1526; the comment at lines 635 to 644 says collect mode
always reaches the end); it is in the list of hazards.

Variable names and paths are sequences, so `<<alias>> \o name` is the prefixed
name, and a rewriting that forgets or repeats a prefix is visible.
`ImportMeaning` says the same without an order: chains of statements name
instances (`FileOf` follows them, statement by statement), and recursive functions
over chains give scope, assignments, states, the place of an instance (`Place`)
and the meaning of an event.

### SelfCheck and SelfCheckContract

`phase` follows `run_supervisor` through its try block (`select`, `plan`,
`reserve`, `environment`, `next`, `running`, `publish`, `progress`), its
handlers (`interrupted`, `faulted`) and what comes after it (`freeze`, `report`,
`write`, `shown`, `emit`). `Ledger.reserve` is two actions, `ReserveRow` and
`ReserveState`, and `Ledger.commit` is two, `Settle` or `Finish` and `Publish`,
because Ctrl+C may come between their assignments. `Disposition` is what the
loop decides of a check from its prerequisites, policy and the deadline;
`Normalized` is the treatment of strict warnings; `Closed` and `RowsWith` are
`_terminalize_unfinished` and `ensure_reserved`. `Interrupt` and `Fault` leave
the try block; outside it they leave the call (`Raised`), which the bootstrap
turns into 130 or 3. Report and stream are a snapshot of the ledger and the
status shown per check.

`SelfCheckContract` chooses checks, decides them and publishes; verdicts never
change and are published only when complete. The synthetic rows are no chosen
checks and so are outside the contract: the report-write row does change after a failed
write.

### WorkerProcess

`phase` follows `run_check_process`: transport (`MakeDir`, `MakeFile`,
`MakeSpools`), `Spawn`, `Attach` to a job on Windows, `talk` to the worker until
it ends, its time is over or the pipes fail, then `_terminate` by what it does
next, on POSIX SIGTERM to the group, the grace period, SIGKILL, waiting for the
group and reaping, on Windows the job, or its leader if there is none, then
`Settle` and `Kill`. Once the worker has ended, or has been terminated and drained
(`Drain`), its output is read from the spools (`Capture`); the tree of a worker
that ended by itself is terminated only after that. `Conclude` or `ReadFails`
give the result, then come the context managers (`Leave`, `CloseSpools`,
`Cleanup`).

`answer` is how much of the result frame the worker has written: nothing, less
than its prefix (`Scrap`), some of it (`Torn`) or all. With `mode = "file"` the
parent reads the file at the end, and a failing read is an ERROR whatever the
exit code (`ReadFails`). With `mode = "stdout"` it looks for the frame in the
spool (`Captures`), and there a failing read is not reported: `seen` is then any
part of the answer, none included, and `misread` remembers it. A scrap on
stdout cannot be told from other output and counts as no answer (`Missing`), so
that the exit code decides between CRASH and ERROR. `VerdictIsEarned` says what a
verdict means under all this: a whole answer given in time is lost only to a
read that failed, and a CRASH hides an answer only on stdout, where it is a
scrap or the spool could not be read.

The environment moves at any time: the
worker passes its gate, writes its frame in pieces, exits, is killed; it and its
descendants fork. A process killed is `doomed` and dies when the system gets to
it; one that was sent SIGTERM may ignore it. Each call to the system that can fail may
fail, the reads of file and spool included. `Interrupt` is Ctrl+C: it unwinds into the managers that are left.

## 3. Runs

| Run | Instance | Checks |
|---|---|---|
| `ValidationSearch` | every graph on 4 signatures of all four kinds, at most 2 candidates each, step limits 2 and 9 | `TypeOK`, `AcceptedIsViable`, `RejectedIsHopeless`, `VerdictIsHonest`, `Returns` |
| `MacroStep` | 129 machines on the tree `Root{C{D{A,P},R},B,Q}` (P, R, Q pseudo) with guards, effects and an event, cold start and hot starts at `D` and `P`, any number of cycles | `TypeOK`, `StackIsPath`, `RestsAtBoundary`, `PlainBeforeOnce`, `PublishesPromise`, `TraceReplays`, `CycleReturns` |
| `MacroStepDelta` | two pseudo states that prefer each other | `DeltaIsHopeless`, violated (finding 1) |
| `MacroStepDescent` | a pseudo state tried first whose way out returns to the initial transition that chose it | `CommitKeepsPromise`, violated (finding 2) |
| `CycleProtocol` | three providers with sequences that end, hold and start again, both error modes, a `history_size` of 0, 1 or all that changes, 3 cycles | `TypeOK`, `Lockstep`, `HistoryIsRecent`, `Atomic`, `CycleReturns` |
| `HistoryLowering` | 48 machines on `R{I; O{A; C{D; E}; Q}}` (Q pseudo) with shallow, deep, nested and initial entries | `TypeOK`, `GotoIsOver`, `RecordsAreTrue`, `SameChoices`, `KeepsHistory` |
| `ImportAssembly` | 10464 starts: bindings through two levels, two leaves that share a variable, imports that go wrong, mapped events; strict and collect mode | `TypeOK`, `BindingsAreSound`, `AcceptsWhatIsSound`, `NothingHalfImported`, `MappedEventsArrive` |
| `ImportEvents` | the same | `EventsKeepTheirMeaning`, violated (finding 3) |
| `SelfCheck` | three registries, every outcome, deadline, faults and Ctrl+C everywhere but inside `Ledger.reserve` | `TypeOK`, `EveryCheckReported`, `OneRowPerCheck`, `RanOnGoodGround`, `BlockedForAReason`, `OutputsAgree`, `Terminates`, `KeepsContract` |
| `SelfCheckReserving` | Ctrl+C inside `Ledger.reserve` | `OneRowPerCheck`, violated (finding 4) |
| `WorkerProcess` | two descendants, POSIX and Windows, Ctrl+C everywhere but inside the termination and after it | `TypeOK`, `NothingLeftRunning`, `NothingLeftBehind`, `VerdictIsEarned`, `Returns` |
| `WorkerInterrupt` | POSIX, a worker that is past its start gate when it is terminated (`MCPastGateSpec`), Ctrl+C in the grace period | `NothingLeftRunning`, violated (finding 5) |

Bounds, and why they are enough.

* Search. Four signatures hold every shape the pruning rules distinguish: a diamond
  (seen on another branch), a cycle through the source, a cycle beside it, a
  dead end next to a viable branch. One `StepLimit` is above the number of
  signatures, where the verdict is the subject, and one below it, where the
  limit is.
  `MaxOut = 2` gives a first and a later candidate. The source is never
  expanded, so only one of its successors, the start, is enumerated.
* Macro step. The tree has three levels below the root, a leaf and a pseudo state inside the
  innermost composite, a pseudo state on every level and a plain leaf outside:
  nested initial transitions two deep, exits that cascade through two
  composites, and routing from a pseudo state into a composite all occur. Two
  values are enough for guards to depend on what the path wrote.
  The state space is finite without a bound on the number of cycles, because
  nothing counts them.
* Protocol. `MaxCycles = 3` lets every provider run past its end and the history
  drop entries; `MaxErrors = 1` a handler failure in every cycle.
* History. Owners nest two deep, with a leaf, a composite and a pseudo state
  below the outer one, so a restore may end at a composite, pass one and go
  through a merged initial or a route of its own; every shape of initial
  transition (guarded, evented, with effect, with history) meets every route.
* Imports. Two levels and two imports per program are the least at which a
  declaration is bound through a module in between, a variable is shared, a
  diamond differs from a cycle and an import is refused because of one below it.
  The assembly ends by itself, so the space is finite.
* Self-check. The registries are the shapes of the real one (a local check, a
  capability, a check that needs both, one that needs that), one in the wrong
  order with two checks waiting for each other, and one with an ID twice. `FaultAt`
  are the phases with calls that can raise outside the check's own guard.
* Workers. Two descendants let one fork while the other is being killed.
  Nothing counts, so the space is finite.

`CHECK_DEADLOCK FALSE` is given for the systems that really stop: the search
when it returns, the runtime when the machine has ended or failed (calls are then
ignored), the lowered machine likewise, the supervisor and the worker call when they are over.
`ImportAssembly` has a step for being over instead (`Over`), so that TLC finds
an assembly that gets stuck.

Fairness. `cycle()`, the search, the supervisor and the worker call are synchronous calls in one thread: once
called, they run until they return. `FairSpec` therefore asks weak fairness of
the steps of a running call and nothing of the caller. `HandlerLogged` is
bounded by `MaxErrors` because a pass runs finitely many handlers. In
`SelfCheck` a check comes to an end because a worker has its own deadline and
the local check is a pure function. In
`WorkerProcess` only the parent is fair, because each of its waits has a
timeout; the worker, its descendants and the system owe nothing.
`HistoryLowering` and `ImportAssembly` state no liveness: how long a cycle of
the first takes is the subject of the runtime's models, and every step of the
second works off an import statement, of which there are finitely many because
a cycle is not followed.

Five runs show disagreements between the code and its documentation:

1. **A Delta although a boundary is reachable** (`MacroStepDelta`). The
   executing loop takes, at every pseudo state, the first candidate that the
   search accepts. Each acceptance is right, but the transitions chosen can lead
   back to a signature the pass has visited; `_run_cycle_on_context` then gives
   up with a Delta. The documentation says that a Delta means that no stoppable
   successor can be committed, and that a cyclic candidate is skipped when a
   later one can reach a stoppable state.
2. **A Delta although the validation pass succeeded** (`MacroStepDescent`). In a
   nested descent of the committed pass the owners are still in `init_wait`; in
   the validation pass they are active. The search tells contexts apart by the
   modes of the whole stack, so in the committed pass it does not see that a
   path has come back to the source of the candidate, and accepts what the
   validation pass had refused as a loop. The pass then repeats itself and the
   cycle is a Delta, while the comment says that the two passes must agree.
   Found when `CommitKeepsPromise`, which had held on the machines checked
   before, was to be proved. What remains true, `PublishesPromise`, is that
   nothing is ever published that the validation pass did not reach.
3. **An absolute event that changes its meaning** (`ImportEvents`). A module's
   absolute path, written in a transition of a nested state and not mapped, gets
   the path of that state in front of it and then that of the instance; the
   module docstring promises the instance's scope only. An unmapped event whose
   path is the target of another event's mapping is captured by it.
4. **A check reported twice** (`SelfCheckReserving`). Ctrl+C between the two
   assignments of `Ledger.reserve` leaves an ID in `_order` without a state, and
   the clean-up, which promises one terminal result, adds it again.
5. **A worker that outlives the call** (`WorkerInterrupt`).
   `_WorkerTree.terminate` sets its flag first; on POSIX, Ctrl+C during the grace
   period between SIGTERM and SIGKILL leaves a worker that has passed its gate
   and ignores SIGTERM alive, because the terminate of the
   clean-up then returns at once, while the comment says that an interrupt
   anywhere in the function releases everything.

Findings 2 to 5 have been reproduced with the Python code.

Each property of a passing run has a mutant: a variant of one definition, kept
next to it and marked `Mutant:`, with a plausible bug under which TLC finds the
property violated.

## 4. Proofs

`ValidationSearchProofs` (for every set of signatures, every graph and limit;
assumption: `BoundsAssumption`, the bounds are natural numbers):

* `TypeCorrect`: `Spec => []TypeOK`.
* `AcceptedSound`: `Spec => []AcceptedIsViable`. Everything on the worklist is
  reachable from the start by steps that never leave the source, so an accepted
  context is.
* `RejectedComplete`: `Spec => []RejectedIsHopeless`. The invariant is that the
  contexts already expanded are closed under the steps of relays except for
  what is still on the worklist, that no expanded context is viable, and that
  trails hold only expanded contexts and the source. When the worklist is empty
  the expanded contexts (and the source) form a closed set without a viable member.
  `RejectedIsHopeless` alone is not inductive: nothing in it says why a
  signature that was skipped as seen cannot hide a continuation.
* `VerdictHonest`: `Spec => []VerdictIsHonest`. The three parts need three
  facts. That a reported loop is a closed walk follows from `TrailsWalk`: every
  trail is a walk of the graph that ends before its context. That the limit trips only on
  more signatures than it allows follows from `Counted`: one step per signature
  seen. That a refusal without a loop means nothing
  reachable repeats is the hard one, because a signature skipped as seen is not
  explored again from its new trail: `Nested` says that the trails further down
  the worklist are part of those above them, and `NoRepetition` that, as long as
  no loop has been met, what has been left behind leads back to no trail
  (`Settled`), the steps followed form no cycle (`Acyclic`) and every signature
  seen has its successors seen or waiting (`StrictlyCovered`).

`MacroStepProofs` (for every state tree, every machine over it, every valuation
and hot start; assumption: `TreeAssumption`, the states form a tree, pseudo
states are leaves, initial transitions lead to children and the others to
siblings or out):

* `TypeCorrect`: `Spec => []TypeOK`.
* `PathInvariance`: `Spec => []StackIsPath`.
* `RestAtBoundary`: `Spec => []RestsAtBoundary`.
* `BeforeOnce`: `Spec => []PlainBeforeOnce`.
* `TraceIsComplete`: `Spec => TraceReplays`.

The first three follow from `IInv`. `StackIsPath` is not inductive: that a selected
initial transition fits the top of the stack needs to know in which mode each
frame is. `Shaped` says it: below the top every frame is active, or still waits
in a nested descent (`Descent`), and a plain before block is owed only by a
composite that waits for its child or by the parent of the pseudo state on top
(`Owed`). `Owed` is also why nothing is outstanding at a boundary: a stoppable
leaf is not a pseudo state, so nobody below it owes a block. The lemmas say what
each operation does to the shape of a stack (`EnterShaped`, `RouteReady`,
`TakeInitShaped`, `SettleShaped`, `TakeOutShaped`), then one lemma per action
follows. What the selection answers plays no part, so the theorems do not
depend on the search.

The other two are about the trace, a sequence that grows without bound, and
follow from `IInv /\ BlockInv`. `BlockInv` says that the trace is `Orderly` (each
mark was in order when it was made, and a plain before block is followed by the
entry of its child), that between steps no such block is the last mark
(`Closed`), that the trace accounts for the frames of the committing clone
(`Accounts`: a block that is pending has not run since its composite was entered,
one that is settled has), and that replaying the trace over the path the cycle
started from gives the path of the clone (`Replays`). A state entered is never on
the stack already (`PathDistinct`), so a mark disturbs what is known of one frame
only; a composite in `post_child_exit` is exempt from `Accounts`, because leaving a
pseudo child through `[*]` drops a block that never ran. `PathDistinct` and
`ReplayGrows` (replaying one more mark is one more step) are inductions; they argue
from a least counterexample (`LeastNumber`), which needs no operator parameter.

`MacroStepPromise` (as `MacroStepProofs`, for finitely many states and valuations):

* `PublishedIsPromised`: `Spec => PublishesPromise`, provided `State` and `Value`
  are finite. The proviso is what makes the search a search: `Explored` and
  `Repeating` go on until nothing new is found, and on infinitely many contexts
  they need not end. The code ends there by its step and depth limits, which
  `ValidationSearch` has and `MacroStep` leaves out.

The search from a candidate never goes on from the candidate's source, so what it
answers depends on which contexts it takes for that source, and the committed pass,
whose owners still wait during a nested descent, has other contexts than the
validation pass (finding 2). The proof compares contexts that differ in modes below the
top only (`Near`; `Kin`, if one of them is what a validation pass can be in). Such
contexts have the same candidates, guards and steps (`KinTaken`), so:

* what the validation pass accepts is accepted in its kin (`KinAccepts`), for the search
  among kin meets its own source at most later;
* what is accepted leads to a viable context (`AcceptedNotLost`), and what the
  validation pass rejects leads to none except through the source (`RejectedLocked`).

Hence, if the committed pass takes an earlier candidate than the validation pass did
at v, it is in a context from which a viable context can be reached, but only by way
of v. `OnCourse` says this: the committed pass is at kin of a context the validation
pass comes by, or `Locked` behind one and not `Lost`. `PromiseInv` states it for the
whole run: while validating, the way from the snapshot (`Ends`, along `LeadsOn`,
which never forks) goes through where the pass is; while committing, the pass is on
course to a viable context w and the promise is what w makes of it. A locked context
is not viable, and a pass that stops is in a settled context, whose only settled kin
is itself, so it stops at w (`CourseEnds`). A pass on course does not raise
(`CourseQuiet`): a context with no accepted candidate is lost, so there the pass has
not left the way of the validation pass (`CourseWaits`), which found nothing either
and would have ended there. What is left is to run into its own trail, the Delta of
finding 2. `PublishesPromise` itself says nothing of a pass under way. `PromiseInv`
quantifies over sets of contexts, too many for TLC to enumerate; TLC checks
`PublishesPromise`.

`CycleProtocolProofs` (for every number of providers, every length, end policy,
set of history sizes and error modes; assumption: `ParameterAssumption`):

* `TypeCorrect`: `Spec => []TypeOK`.
* `SourcesInLockstep`: `Spec => []Lockstep`, provided no interrupt hits the
  advancement. That is needed: `_InputSources.advance` poisons the runtime for
  subclasses of `Exception` only, so that Ctrl+C in a provider's `cycle()` leaves
  the earlier providers one step ahead in a runtime that goes on (TLC shows it
  when `"advancing"` is added to `Interruptible`).
* `HistoryComplete`: `Spec => []HistoryIsRecent`.
* `CycleIsAtomic`: `Spec => Atomic`, under the same proviso: every step of the
  protocol is a step of `AtomicCycle` or stutters.

The inductive invariant is `IInv`: the sources already advanced are one step
ahead of the others (`SourceSteps`), a cached sample belongs to the step it is
cached at (`CacheIsCurrent`), hence the vector read so far is the one of this
cycle (`InputsAreCurrent`), and a call in flight has failed nothing
(`InFlight`). `Lockstep` says nothing about a call that is under way and so is
not inductive by itself.

`HistoryProofs` (for every finite tree numbered in preorder and every valid
machine over it; assumptions: `TreeAssumption`, `MachinesAssumption`,
`PreorderAssumption`):

* `TypeCorrect`, `GotoEnds` (`[]GotoIsOver`), `RecordsTrue`
  (`[]RecordsAreTrue`), `ChoicesKept` (`[]SameChoices`).
* `HistoryKept`: `Spec => KeepsHistory`, the refinement.

`IInv` adds to the types where control may be (`Shape`), that `__hist_goto` is zero
or numbers a state still ahead on a path of hops (`Underway`), that the snapshot
of the cycle is of the same kind (`Snapshot`, `SnapshotIsTrue`), and what an owner that is
active has recorded: what leaving it would record, if it is left with the home leaf
(`Recording`). `RecordsAreTrue` is not inductive because it is silent about active
owners; `GotoIsOver` is not because it is silent about a restore in flight. The
arithmetic is in the lemmas about ranges of numbers: a state is in a subtree
exactly when its number is in the range.

`ImportProofs` (for every set of file systems; assumptions:
`FilesAssumption`, there are finitely many files, the entry program has been parsed,
imports have an order and declarations are records with a role; `PathsAssumption`, states and the
parts of what refers to an event are paths):

* `TypeCorrect`: `Spec => []TypeOK`.
* `BindingsSound`: `Spec => []BindingsAreSound`, through any number of levels.

`BindingsAreSound` is not inductive: it does not say where declarations come
from, and an input serves one import alone only because the renaming of a module is
injective and each frame's declarations lie below its chain. `IInv` is `Outer`
and `Stacked`: every frame is `Sane` (`Framed`, `Declared`, `Kept`, `Compatible`,
`Unshared`) and linked to the next by the import it is at.

Of the properties in `ImportMeaning`, under the same assumptions:

* `EventsArrive`: `Spec => []MappedEventsArrive`. The property speaks of the finished
  entry program only. Its invariant says of every frame on the way that it is what
  its chain leads to (`Standing`), and of every reference that it comes from an
  instance at or below that frame, is relative as long as nothing has mapped it, and
  names what it meant where it was written (`Tracked`).
* `ImportsAreWhole`: `Spec => []NothingHalfImported`. A program that has been opened
  can be read and is not its own ancestor (`AllRead`); what has been reported since
  it was opened is wrong with an instance strictly below it, at an import it has
  passed (`Reporting`), so that what it kept are the instances below it with nothing
  wrong down to them (`Keeping`); and its declarations, references and states are
  those of these instances (`Contents`). `Finished` holds on to this when the entry
  program has no import left.
* `SoundIsAccepted`: `Spec => []AcceptsWhatIsSound`, in both directions. While nothing
  is reported, what has been taken over could be read and has an alias of its own as
  far as the imports before it go (`Found`, `AliasFree`), and every program on the
  stack is what the instances it took over make of it: it declares, assigns and
  contains exactly that, every binding fits, no input is shared (`Exact`, a
  conjunction of `Ready` and `Fine`). A finished program without a report has taken
  over every chain, so it is sound (`AcceptedSound`); an import that is reported of
  makes the program unsound, because what the assembly compares there is what `Scope`,
  `Assigned` and `States` say (`Refused`); a call that raises has reported (`Ended`).
  `Exact` has `Located` as a hypothesis: the equations of `Scope` hold only where every
  chain can be followed, and imports not reached yet may be the ones that cannot.

Chains of imports are finite because no file is its own ancestor: `LeadsShort` (a
chain that can be followed is no longer than there are files, a pigeonhole argument)
bounds them. What the recursive functions over chains return is not assumed:
that there is a function with the equation of `FileOf`, `States` or the meaning of an
event is proved from a least counterexample, and only then is the definition unfolded
(over a tree of chains by `AllExist`, from the longest chains down).

`SelfCheckProofs` (for every registry, valid or not, every set of phases where
interrupts and faults hit; assumption: `ParameterAssumption`):

* `TypeCorrect`, `EveryResult` (`[]EveryCheckReported`), `GoodGround`
  (`[]RanOnGoodGround`), `OnlyBlockedForAReason` (`[]BlockedForAReason`),
  `OneTruth` (`[]OutputsAgree`).
* `OneRow`: `Spec => []OneRowPerCheck`, provided neither interrupt nor fault
  hits `Ledger.reserve` between its assignments, which finding 4 shows to be
  needed.
* `ContractKept`: `Spec => KeepsContract`.

`IInv` says where cursor and plan are in each phase (`Placed`), which states go
with which results (`Consistent`), what has been reserved (`Reservation`) and
that results lie before the cursor (`Advancement`). For `OutputsAgree`, `Truth`
adds what forced the exit code (`Forcing`), where a result came from (`Origin`),
what has been streamed (`Streamed`) and the exit code and file of the last
phases (`Ended`).

`WorkerProcessProofs` (for any number of descendants, both platforms;
assumption: `ParameterAssumption`):

* `TypeCorrect`; `VerdictsEarned`: `Spec => []VerdictIsEarned`.
* `NothingRuns` and `NothingStays`: `Spec => []NothingLeftRunning` and
  `[]NothingLeftBehind`, provided Ctrl+C does not hit the termination
  (`Uninterrupted`), which finding 5 shows to be needed.

`IInv` says what exists in which phase (`Stages`), that a worker before its gate
has no descendants (`Gated`), what each stage of the termination has achieved
(`Terminated`), how much of the answer the parent has found and when that is less
than was written (`Reading`), what the verdict rests on (`Judged`) and what has been released
(`Released`). That a group survives its leader is what makes `NothingLeftRunning`
not inductive: after the leader is reaped only `Terminated` knows who is doomed.

Only model-checked: all liveness, because fairness and `ENABLED` are outside what
TLAPS proves.

## 5. Abstractions and what is not modelled

* Expressions, numbers and operation blocks are functions on a small set of
  valuations. Errors of evaluation and of writeback are one way a pass can raise
  (`PassRaises`).
* The limits on steps and depth are modelled in `ValidationSearch`; `MacroStep`
  is used on machines far below them.
* Handlers receive a read-only context, so a handler is only its failure.
* Integrated providers are the case of one provider whose samples are vectors.
* History: whether events occur and what guards read is open; reserved names
  and undeclared targets are the validity of the machines.
* Imports: display names and documentation, combo triggers, duplicate source
  events and source events that are not absolute, the selectors and templates
  that choose a variable's new name (the result is given), references to actions
  (rewritten like absolute events), event declarations on states, variables used
  without a declaration.
* Self-check: a check's callback is its outcome, a frame is absent, shorter than its prefix, torn or whole, text
  and environment report are left out. A failure to attach a job on Windows is in,
  job limits are not. Ctrl+C while the context managers close spools and
  session, and a descendant that leaves the process group, are not: for these
  the code promises nothing.
* Not modelled although they have state: the REPL and batch session around a
  runtime, registration and removal of handlers.
* Not modelled at all: parsing, model conversion, diagnostics, rendering, diagrams, highlighting,
  command line parsing, guides, the JavaScript port (stateless or pure output);
  the Z3 encodings and arithmetic of the BMC, solver and semantics packages
  (numbers beyond TLC's reach), the generated runtimes (the macro step again,
  as text in other languages), static verification (graph analyses without state).

## 6. Plan

1. (done) `ValidationSearch`, `MacroStep`, `CycleProtocol` / `AtomicCycle`.
2. (done) `HistoryLowering` against `NativeHistory`.
3. (done) `SelfCheck` against `SelfCheckContract`, `WorkerProcess`.
4. (done) `ImportAssembly` against `ImportMeaning`.
5. `SimulateSession` and `HandlerRegistry`: replacement of the runtime by init
   and reset, session copy.
6. `MacroRelation`: the macro steps the BMC enumerates against those of `MacroStep`.
