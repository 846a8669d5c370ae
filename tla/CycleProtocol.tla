----------------------------- MODULE CycleProtocol -----------------------------
(***************************************************************************)
(* One call of SimulationRuntime.cycle() seen from outside the machine:    *)
(* the input sources are read one by one, the machine runs twice (what it  *)
(* does is MacroStep's subject, here only how a pass can end), abstract    *)
(* handlers run in the committed pass, the sources are advanced one by     *)
(* one, and the prepared boundary is published.  Any of these steps can    *)
(* fail, and the caller may call again.                                    *)
(***************************************************************************)
EXTENDS Naturals, Sequences

CONSTANTS Boundary,      \* where the machine can rest: stack and variables
          Ended,         \* the boundary of a machine that has ended
          N,             \* number of model inputs, numbered as declared
          Length,        \* [Provider -> Nat], samples of a SequenceInput
          End,           \* [Provider -> EndPolicy], its end policy
          NoSample,      \* nothing cached
          Override,      \* an input value given with the call
          Sizes,         \* the values history_size may get, Unlimited for None
          Unlimited,
          ErrorModes,    \* the values abstract_error_mode may get
          Interruptible, \* phases in which Ctrl+C may hit
          MaxCycles,     \* bound: cycles recorded
          MaxErrors      \* bound: handler failures in one cycle

Provider == 1..N

EndPolicy == {"error", "hold", "loop"}

ASSUME ParameterAssumption ==
  /\ N \in Nat
  /\ Length \in [Provider -> Nat]
  /\ End \in [Provider -> EndPolicy]
  /\ \A p \in Provider : Length[p] = 0 => End[p] = "error"
  /\ NoSample \notin Nat /\ Override \notin Nat
  /\ Sizes \subseteq Nat \cup {Unlimited} /\ Unlimited \notin Nat
  /\ Ended \notin Boundary
  /\ ErrorModes \subseteq {"raise", "log"}
  /\ Interruptible \subseteq {"reading", "committing", "advancing"}
  /\ MaxCycles \in Nat /\ MaxErrors \in Nat

VARIABLES boundary,   \* stack, vars, _initialized and _ended
          count,      \* cycle_count
          history,
          keep,       \* history_size
          mode,       \* abstract_error_mode
          errors,     \* how many entries _abstract_handler_errors has
          error,      \* _is_error_state
          poisoned,   \* _input_sources.error is set
          source,     \* per input: _step and the cached value of its source
          phase,      \* what the running call does
          cursor,     \* the source it reads or advances next
          overrides,  \* inputs given with the call
          inputs,     \* the input vector of the call
          saved,      \* errors before the call (previous_errors)
          prepared    \* what will be published

recorded == <<boundary, count, history, keep, mode>>
call == <<overrides, inputs, saved, prepared>>
vars == <<boundary, count, history, keep, mode, errors, error, poisoned, source, phase, cursor,
          overrides, inputs, saved, prepared>>

(* Mutant: a source that holds its last sample reads one past the end.     *)
SequenceIndexPastEnd(p, step) ==
  IF step < Length[p] THEN step
  ELSE IF End[p] = "hold" THEN Length[p] ELSE step % Length[p]

(* _sequence_index; a sample is named by its index.                        *)
SequenceIndex(p, step) ==
  IF step < Length[p] THEN step
  ELSE IF End[p] = "hold" THEN Length[p] - 1 ELSE step % Length[p]

Exhausted(p, step) == step >= Length[p] /\ End[p] = "error"

Samples(p) == 0..(Length[p] - 1)

Source == [step : Nat, cached : Nat \cup {NoSample}]

Entry == [cycle : Nat, at : Boundary \cup {Ended}, delta : BOOLEAN,
          inputs : [Provider -> Nat \cup {Override, NoSample}]]

Phase == {"idle", "reading", "committing", "advancing"}

Prepared == [at : Boundary \cup {Ended}, delta : BOOLEAN, errors : Nat]

TypeOK ==
  /\ boundary \in Boundary \cup {Ended}
  /\ count \in Nat
  /\ history \in Seq(Entry)
  /\ keep \in Sizes /\ mode \in ErrorModes
  /\ errors \in Nat /\ saved \in Nat
  /\ error \in BOOLEAN /\ poisoned \in BOOLEAN
  /\ source \in [Provider -> Source]
  /\ \A p \in Provider : source[p].cached \in Samples(p) \cup {NoSample}
  /\ phase \in Phase
  /\ cursor \in 1..(N + 1)
  /\ overrides \in SUBSET Provider
  /\ inputs \in [Provider -> Nat \cup {Override, NoSample}]
  /\ prepared \in Prepared

-------------------------------------------------------------------------------

Init ==
  /\ boundary \in Boundary
  /\ count = 0
  /\ history = <<>>
  /\ keep \in Sizes
  /\ mode \in ErrorModes
  /\ errors = 0
  /\ error = FALSE
  /\ poisoned = FALSE
  /\ source = [p \in Provider |-> [step |-> 0, cached |-> NoSample]]
  /\ phase = "idle"
  /\ cursor = 1
  /\ overrides = {}
  /\ inputs = [p \in Provider |-> NoSample]
  /\ saved = 0
  /\ prepared = [at |-> boundary, delta |-> FALSE, errors |-> 0]

(* is_error_state or _ended: the call is ignored.                          *)
Stopped == error \/ poisoned \/ boundary = Ended

(* cycle(): events and overrides are checked before anything is sampled, a *)
(* call that is ignored or refused there changes nothing.                  *)
Call ==
  /\ phase = "idle"
  /\ ~Stopped
  /\ count < MaxCycles
  /\ phase' = "reading"
  /\ cursor' = 1
  /\ overrides' \in SUBSET Provider
  /\ inputs' = [p \in Provider |-> NoSample]
  /\ saved' = errors
  /\ UNCHANGED <<recorded, errors, error, poisoned, source, prepared>>

(* The call ends with an exception: nothing is recorded and the errors     *)
(* collected by handlers are forgotten.                                    *)
Abort ==
  /\ phase' = "idle"
  /\ errors' = saved
  /\ UNCHANGED <<recorded, cursor, call>>

Reading == phase = "reading" /\ cursor \in Provider

Cached(p) == source[p].cached # NoSample

(* get() of the next source; overridden inputs are sampled too.            *)
Read ==
  /\ Reading
  /\ Cached(cursor) \/ ~Exhausted(cursor, source[cursor].step)
  /\ LET sample == IF Cached(cursor) THEN source[cursor].cached
                   ELSE SequenceIndex(cursor, source[cursor].step)
     IN  /\ source' = [source EXCEPT ![cursor].cached = sample]
         /\ inputs' = [inputs EXCEPT ![cursor] = IF cursor \in overrides THEN Override
                                                 ELSE sample]
  /\ cursor' = cursor + 1
  /\ UNCHANGED <<recorded, errors, error, poisoned, phase, overrides, saved, prepared>>

(* Mutant: a failed read is retried inside the call.                       *)
ReadRetried ==
  /\ Reading
  /\ cursor' = 1
  /\ UNCHANGED <<recorded, errors, error, poisoned, source, phase, call>>

(* get() raises: an exhausted sequence, or a provider that cannot answer   *)
(* now.  Samples already taken stay cached.                                *)
ReadFails ==
  /\ Reading
  /\ Abort
  /\ UNCHANGED <<error, poisoned, source>>

Validating == phase = "reading" /\ cursor = N + 1

(* The validation pass reaches a stable boundary or the end.               *)
ValidationSucceeds ==
  /\ Validating
  /\ phase' = "committing"
  /\ UNCHANGED <<recorded, errors, error, poisoned, source, cursor, call>>

Prepare(at, delta, reported) ==
  /\ prepared' = [at |-> at, delta |-> delta, errors |-> reported]
  /\ phase' = "advancing"
  /\ cursor' = 1
  /\ UNCHANGED <<recorded, errors, error, poisoned, source, overrides, inputs, saved>>

(* A Delta, found by the validation pass or, when a committed-only callback *)
(* changes the outcome, by the committed pass.                              *)
PreparesDelta ==
  /\ Validating \/ phase = "committing"
  /\ Prepare(boundary, TRUE, saved)

PreparesCommit ==
  /\ phase = "committing"
  /\ \E at \in Boundary \cup {Ended} : Prepare(at, FALSE, errors)

(* A livelock, safety-limit, expression or writeback error of either pass. *)
PassRaises ==
  /\ Validating \/ phase = "committing"
  /\ Abort
  /\ UNCHANGED <<error, poisoned, source>>

(* An abstract handler raises: mode "raise" stops the runtime for good,    *)
(* mode "log" takes a note and goes on.                                    *)
HandlerRaises ==
  /\ phase = "committing"
  /\ mode = "raise"
  /\ error' = TRUE
  /\ Abort
  /\ UNCHANGED <<poisoned, source>>

HandlerLogged ==
  /\ phase = "committing"
  /\ mode = "log"
  /\ errors < saved + MaxErrors
  /\ errors' = errors + 1
  /\ UNCHANGED <<recorded, error, poisoned, source, phase, cursor, call>>

Advancing == phase = "advancing" /\ cursor \in Provider

(* Mutant: the sample of the last step stays cached.                       *)
SteppedStale(p) == [source EXCEPT ![p].step = @ + 1]

Stepped(p) == [source EXCEPT ![p] = [step |-> @.step + 1, cached |-> NoSample]]

(* cycle() of the next source.                                             *)
Advance ==
  /\ Advancing
  /\ source' = Stepped(cursor)
  /\ cursor' = cursor + 1
  /\ UNCHANGED <<recorded, errors, error, poisoned, phase, call>>

(* Mutant: the runtime stays usable after a source failed to advance.      *)
AdvanceFailsUnnoticed ==
  /\ Advancing
  /\ source' \in {source, Stepped(cursor)}
  /\ Abort
  /\ UNCHANGED <<error, poisoned>>

(* ... raises, before or after it has advanced itself.                     *)
AdvanceFails ==
  /\ Advancing
  /\ poisoned' = TRUE
  /\ source' \in {source, Stepped(cursor)}
  /\ Abort
  /\ UNCHANGED error

(* Mutant: the oldest entries are kept.                                    *)
RecentOldest(s) ==
  IF keep = Unlimited \/ Len(s) <= keep THEN s ELSE SubSeq(s, 1, keep)

Recent(s) ==
  IF keep = Unlimited \/ Len(s) <= keep THEN s
  ELSE SubSeq(s, Len(s) - keep + 1, Len(s))

Publish ==
  /\ phase = "advancing"
  /\ cursor = N + 1
  /\ boundary' = prepared.at
  /\ errors' = prepared.errors
  /\ count' = count + 1
  /\ history' = Recent(Append(history, [cycle |-> count + 1, at |-> prepared.at,
                                        delta |-> prepared.delta, inputs |-> inputs]))
  /\ phase' = "idle"
  /\ UNCHANGED <<keep, mode, error, poisoned, source, cursor, call>>

(* KeyboardInterrupt is not caught by any of the handlers for Exception.   *)
Interrupted ==
  /\ phase \in Interruptible
  /\ Abort
  /\ UNCHANGED <<error, poisoned, source>>

(* clear_abstract_handler_session, between two calls.                      *)
ClearHandlers ==
  /\ phase = "idle"
  /\ errors # 0
  /\ errors' = 0
  /\ UNCHANGED <<recorded, error, poisoned, source, phase, cursor, call>>

(* history_size is assigned between two calls; the history is cut only when *)
(* the next cycle is published.                                             *)
Resize ==
  /\ phase = "idle"
  /\ keep' \in Sizes \ {keep}
  /\ UNCHANGED <<boundary, count, history, mode, errors, error, poisoned, source, phase,
                 cursor, call>>

Step ==
  \/ Read \/ ReadFails
  \/ ValidationSucceeds \/ PreparesDelta \/ PreparesCommit \/ PassRaises
  \/ HandlerRaises \/ HandlerLogged
  \/ Advance \/ AdvanceFails \/ Publish
  \/ Interrupted

Next == Call \/ Step \/ ClearHandlers \/ Resize

Spec == Init /\ [][Next]_vars

(* cycle() is synchronous: once called it runs until it returns or raises. *)
FairSpec == Spec /\ WF_vars(Step)

-------------------------------------------------------------------------------
(***************************************************************************)
(* Properties.                                                             *)
(***************************************************************************)

(* Between calls every source stands at the step of the next cycle, or the *)
(* runtime is poisoned: no failure or retry skips or repeats a sample      *)
(* (cycle: "Success, Delta and termination advance each source once ... a  *)
(* provider that raises from cycle() permanently poisons the runtime").    *)
Lockstep == phase = "idle" /\ ~poisoned => \A p \in Provider : source[p].step = count

(* The history is a run of the latest cycles, in order and without a gap,   *)
(* however failed calls and changes of history_size interleave, and it has  *)
(* lost a cycle only to a history_size.                                     *)
HistoryIsRecent ==
  /\ Len(history) <= count
  /\ \A i \in DOMAIN history : history[i].cycle = count - Len(history) + i
  /\ Len(history) = count \/ \E size \in Sizes \ {Unlimited} : size <= Len(history)

(* cycle() is atomic although it is made of many steps that can fail: each *)
(* one implements a step of AtomicCycle or none.                           *)
A == INSTANCE AtomicCycle
       WITH errors <- IF phase = "idle" THEN errors ELSE saved,
            failed <- error \/ poisoned,
            Sample <- SequenceIndex

Atomic == A!Spec

(* Why both hold.  The sources already advanced are one step ahead ...     *)
SourceSteps ==
  ~poisoned => \A p \in Provider :
                 source[p].step = IF phase = "advancing" /\ p < cursor THEN count + 1 ELSE count

(* ... what is cached is the sample of the step it is cached at ...        *)
CacheIsCurrent ==
  \A p \in Provider : Cached(p) => source[p].cached = SequenceIndex(p, source[p].step)

(* ... so the vector read so far is the one of this cycle ...              *)
InputsAreCurrent ==
  phase # "idle" =>
    \A p \in Provider :
      phase # "reading" \/ p < cursor =>
        inputs[p] = IF p \in overrides THEN Override ELSE SequenceIndex(p, count)

(* ... and a call in flight has failed nothing and lost no error.          *)
InFlight ==
  phase # "idle" =>
    /\ ~Stopped
    /\ saved <= errors
    /\ phase = "reading" => errors = saved
    /\ phase = "advancing" =>
         IF prepared.delta THEN prepared.at = boundary /\ prepared.errors = saved
         ELSE saved <= prepared.errors

IInv == TypeOK /\ SourceSteps /\ CacheIsCurrent /\ InputsAreCurrent /\ InFlight

(* Every call returns or raises.                                           *)
CycleReturns == phase # "idle" ~> phase = "idle"

================================================================================
