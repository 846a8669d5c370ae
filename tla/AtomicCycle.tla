------------------------------ MODULE AtomicCycle ------------------------------
(***************************************************************************)
(* What one call of SimulationRuntime.cycle() promises its caller: either  *)
(* it records exactly one more cycle, stamped with the sample every input  *)
(* source holds for that cycle, or it leaves no mark but that the runtime  *)
(* may have failed for good.  A failed or ended runtime ignores calls.     *)
(***************************************************************************)
EXTENDS Naturals, Sequences

CONSTANTS Boundary,      \* where the machine can rest
          Ended,         \* the boundary of a machine that has ended
          Provider,      \* the model's inputs
          Override,      \* an input value given with the call
          Sizes,         \* how many entries the history may keep,
          Unlimited,     \* or no bound
          Sample(_, _)   \* the sample an input's source gives at a step

VARIABLES boundary, count, history, errors, failed,
          keep           \* entries the history keeps

vars == <<boundary, count, history, errors, failed, keep>>

Init ==
  /\ boundary \in Boundary
  /\ count = 0
  /\ history = <<>>
  /\ errors = 0
  /\ failed = FALSE
  /\ keep \in Sizes

Recent(s) ==
  IF keep = Unlimited \/ Len(s) <= keep THEN s
  ELSE SubSeq(s, Len(s) - keep + 1, Len(s))

Inputs(overrides, step) ==
  [p \in Provider |-> IF p \in overrides THEN Override ELSE Sample(p, step)]

(* The next cycle has run on the samples of step count.                    *)
Recorded(at, delta) ==
  /\ ~failed
  /\ boundary # Ended
  /\ boundary' = at
  /\ count' = count + 1
  /\ \E overrides \in SUBSET Provider :
       history' = Recent(Append(history, [cycle |-> count + 1, at |-> at, delta |-> delta,
                                          inputs |-> Inputs(overrides, count)]))
  /\ UNCHANGED <<failed, keep>>

(* Handlers may have failed in log mode.                                   *)
Commit == \E at \in Boundary \cup {Ended} : Recorded(at, FALSE) /\ errors' >= errors

Delta == Recorded(boundary, TRUE) /\ UNCHANGED errors

Fail == failed' = TRUE /\ UNCHANGED <<boundary, count, history, errors, keep>>

ClearHandlers == errors' = 0 /\ UNCHANGED <<boundary, count, history, failed, keep>>

Resize == keep' \in Sizes /\ UNCHANGED <<boundary, count, history, errors, failed>>

Next == Commit \/ Delta \/ Fail \/ ClearHandlers \/ Resize

Spec == Init /\ [][Next]_vars

================================================================================
