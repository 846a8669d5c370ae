------------------------------ MODULE SelfCheck ------------------------------
(***************************************************************************)
(* One call of run_supervisor: the checks are selected and reserved in the *)
(* ledger, run one after the other as far as their prerequisites and the   *)
(* global deadline let them, and reported.  An exception or a Ctrl+C may   *)
(* end the try block at any point; its handlers give every unfinished      *)
(* check a terminal result, and the report is made all the same.           *)
(***************************************************************************)
EXTENDS Naturals, Sequences

CONSTANTS Registries,     \* what selected_specs(profile) may give: sequences of checks
          Prereq,         \* [check -> set of checks], CheckSpec.prerequisites
          Required,       \* the checks whose failure counts
          Capability,     \* CAPABILITY_CHECK_IDS
          SkipOnWarn,     \* checks with prerequisite_policy "skip_on_warn"
          ExplicitSkip,   \* checks with explicit_skip
          Local,          \* checks with execution "local"
          Registry, Infrastructure, ReportWrite,   \* the synthetic checks
          Report,         \* a report file is asked for
          FailOnWarn,
          Streaming,      \* human output: results are shown as they come
          InterruptAt,    \* phases in which Ctrl+C may arrive
          FaultAt         \* phases whose calls may raise an ordinary exception

Selection == UNION {{r[i] : i \in 1..Len(r)} : r \in Registries}

Synthetic == {Registry, Infrastructure, ReportWrite}

Check == Selection \cup Synthetic

ASSUME ParameterAssumption ==
  /\ Registries \subseteq Seq(Selection)
  /\ Selection \cap Synthetic = {}
  /\ Registry # Infrastructure /\ Registry # ReportWrite /\ Infrastructure # ReportWrite
  /\ Prereq \in [Selection -> SUBSET Selection]
  /\ Capability \cup SkipOnWarn \cup ExplicitSkip \cup Local \subseteq Selection
  /\ Required \subseteq Check /\ Synthetic \subseteq Required
  /\ {Report, FailOnWarn, Streaming} \subseteq BOOLEAN

Failing == {"BLOCKED", "FAIL", "ERROR", "TIMEOUT", "CRASH"}

Terminal == Failing \cup {"PASS", "WARN", "SKIP"}

(* The phases inside the try block of run_supervisor, and all of them.      *)
Guarded == {"select", "plan", "reserve", "reserving", "environment", "next",
            "running", "publish", "progress"}

Phase == Guarded \cup {"interrupted", "faulted", "freeze", "report", "write",
                       "shown", "emit", "done", "raised"}

VARIABLES selected, \* the checks of the profile in registry order
          phase,    \* where the supervisor is
          specs,    \* the checks of this run
          cursor,   \* the check it is at
          rows,     \* how often a check occurs in Ledger._order
          state,    \* Ledger._states; "NONE" for a check not reserved
          result,   \* Ledger._results; "none" without one
          shown,    \* the status the streamed output has shown; "none" before
          late,     \* the global deadline has passed
          forced,   \* forced_exit; 0 for None
          exit,     \* the exit code, once there is one
          disk      \* the report file: empty, or the snapshot written

ledger == <<rows, state, result>>
ending == <<exit, disk>>
vars == <<selected, phase, specs, cursor, ledger, shown, late, forced, ending>>

Init ==
  /\ selected \in Registries
  /\ phase = "select" /\ specs = <<>> /\ cursor = 1
  /\ rows = [c \in Check |-> 0]
  /\ state = [c \in Check |-> "NONE"]
  /\ result = [c \in Check |-> "none"]
  /\ shown = [c \in Check |-> "none"]
  /\ late = FALSE /\ forced = 0 /\ exit = 0 /\ disk = {}

Goto(p) == phase' = p /\ UNCHANGED selected

Chosen == {specs[i] : i \in 1..Len(specs)}

-----------------------------------------------------------------------------
(* Setting up: selection, validation and plan, reservation, environment.    *)

Select ==
  /\ phase = "select"
  /\ specs' = selected
  /\ Goto("plan")
  /\ UNCHANGED <<cursor, ledger, shown, late, forced, ending>>

(* _validate_specs finds a check ID twice.                                  *)
Invalid == \E i, j \in 1..Len(selected) : i # j /\ selected[i] = selected[j]

Plan ==
  /\ phase = "plan"
  /\ specs' = IF Invalid THEN <<Registry>> ELSE specs
  /\ Goto("reserve")
  /\ UNCHANGED <<cursor, ledger, shown, late, forced, ending>>

(* Ledger.reserve appends the ID to _order, then sets its state.            *)
ReserveRow ==
  /\ phase = "reserve" /\ cursor <= Len(specs)
  /\ rows' = [rows EXCEPT ![specs[cursor]] = @ + 1]
  /\ Goto("reserving")
  /\ UNCHANGED <<specs, cursor, state, result, shown, late, forced, ending>>

ReserveState ==
  /\ phase = "reserving"
  /\ state' = [state EXCEPT ![specs[cursor]] = "PENDING"]
  /\ cursor' = cursor + 1
  /\ Goto("reserve")
  /\ UNCHANGED <<specs, rows, result, shown, late, forced, ending>>

Reserved ==
  /\ phase = "reserve" /\ cursor > Len(specs)
  /\ cursor' = 1
  /\ Goto("environment")
  /\ UNCHANGED <<specs, ledger, shown, late, forced, ending>>

CollectEnvironment ==
  /\ phase = "environment"
  /\ Goto("next")
  /\ UNCHANGED <<specs, cursor, ledger, shown, late, forced, ending>>

-----------------------------------------------------------------------------
(* Running the checks.                                                      *)

(* Mutant: a prerequisite without a result is not waited for.               *)
DispositionTrusting(c) ==
  LET Some(S) == \E p \in Prereq[c] : result[p] \in S
  IN  IF c \in ExplicitSkip THEN "SKIP"
      ELSE IF c \in SkipOnWarn /\ Some({"WARN"}) THEN "SKIP"
      ELSE IF Some({"SKIP"}) THEN "SKIP"
      ELSE IF Some(Failing) \/ late THEN "BLOCKED"
      ELSE "run"

(* Mutant: the first failure blocks everything after it.                    *)
DispositionFailFast(c) ==
  IF c \in ExplicitSkip THEN "SKIP"
  ELSE IF late \/ \E p \in Selection : result[p] \in Failing THEN "BLOCKED"
  ELSE "run"

(* What the loop does with a check: a status committed without running it,  *)
(* or "run".                                                                *)
Disposition(c) ==
  LET Some(S) == \E p \in Prereq[c] : result[p] \in S
  IN  IF c \in ExplicitSkip THEN "SKIP"
      ELSE IF Some({"none"}) THEN "BLOCKED"
      ELSE IF c \in SkipOnWarn /\ Some({"WARN"}) THEN "SKIP"
      ELSE IF \E p \in Prereq[c] \cap Capability : result[p] \in Failing THEN "BLOCKED"
      ELSE IF Some({"SKIP"}) THEN "SKIP"
      ELSE IF Some(Failing) \/ late THEN "BLOCKED"
      ELSE "run"

(* The next check, while the loop has one.                                  *)
Looping == phase = "next" /\ cursor <= Len(specs)

(* Ledger.commit stores the result, then the state.                         *)
Commit(c, status) ==
  /\ result' = [result EXCEPT ![c] = status]
  /\ Goto("publish")
  /\ UNCHANGED <<specs, cursor, rows, state, shown, late, forced, ending>>

(* _validate_specs found errors: the only check is selfcheck.registry.      *)
RegistryInvalid ==
  /\ Looping /\ Invalid
  /\ Commit(Registry, "ERROR")

Settle ==
  /\ Looping /\ ~Invalid
  /\ Disposition(specs[cursor]) # "run"
  /\ Commit(specs[cursor], Disposition(specs[cursor]))

Start ==
  /\ Looping /\ ~Invalid
  /\ Disposition(specs[cursor]) = "run"
  /\ state' = [state EXCEPT ![specs[cursor]] = "RUNNING"]
  /\ Goto("running")
  /\ UNCHANGED <<specs, cursor, rows, result, shown, late, forced, ending>>

(* What running a check gives: the callback's own status, where a warning   *)
(* with a strict reason is "STRICT", and ERROR for anything it raises; a    *)
(* worker process can also time out or crash.                               *)
Outcome(c) == {"PASS", "WARN", "STRICT", "SKIP", "FAIL", "ERROR"}
                \cup (IF c \in Local THEN {} ELSE {"TIMEOUT", "CRASH"})

(* Mutant: the outcome is taken as it is.                                   *)
NormalizedRaw(c, outcome) == outcome

Normalized(c, outcome) ==
  IF outcome # "STRICT" THEN outcome ELSE IF c \in Required THEN "FAIL" ELSE "WARN"

Finish ==
  /\ phase = "running"
  /\ \E outcome \in Outcome(specs[cursor]) :
       Commit(specs[cursor], Normalized(specs[cursor], outcome))

Publish ==
  /\ phase = "publish"
  /\ state' = [state EXCEPT ![specs[cursor]] = result[specs[cursor]]]
  /\ Goto("progress")
  /\ UNCHANGED <<specs, cursor, rows, result, shown, late, forced, ending>>

Shown(c, status) == shown' = IF Streaming THEN [shown EXCEPT ![c] = status] ELSE shown

Progress ==
  /\ phase = "progress"
  /\ Shown(specs[cursor], result[specs[cursor]])
  /\ cursor' = cursor + 1
  /\ forced' = IF Invalid THEN 1 ELSE forced
  /\ Goto("next")
  /\ UNCHANGED <<specs, ledger, late, ending>>

(* Mutant: the loop expects one more check.                                 *)
LoopEndsLate ==
  /\ phase = "next" /\ cursor > Len(specs) + 1
  /\ Goto("freeze")
  /\ UNCHANGED <<specs, cursor, ledger, shown, late, forced, ending>>

LoopEnds ==
  /\ phase = "next" /\ cursor > Len(specs)
  /\ Goto("freeze")
  /\ UNCHANGED <<specs, cursor, ledger, shown, late, forced, ending>>

DeadlinePasses ==
  /\ phase \in {"next", "running"} /\ ~late
  /\ late' = TRUE
  /\ UNCHANGED <<selected, phase, specs, cursor, ledger, shown, forced, ending>>

-----------------------------------------------------------------------------
(* Leaving the try block by an exception.                                   *)

Interrupt ==
  /\ phase \in Guarded \cap InterruptAt
  /\ forced' = 130
  /\ Goto("interrupted")
  /\ UNCHANGED <<specs, cursor, ledger, shown, late, ending>>

Fault ==
  /\ phase \in Guarded \cap FaultAt
  /\ forced' = 3
  /\ Goto("faulted")
  /\ UNCHANGED <<specs, cursor, ledger, shown, late, ending>>

(* Mutant: every terminal commit adds a row.                                *)
RowsWithAlways(S) ==
  [c \in Check |-> rows[c] + (IF c \in S THEN 1 ELSE 0)]

(* ensure_reserved: a check without a state gets a row.                     *)
RowsWith(S) ==
  [c \in Check |-> rows[c] + (IF c \in S /\ state[c] = "NONE" THEN 1 ELSE 0)]

(* Mutant: only what the ledger knows is unfinished.                        *)
UnfinishedReserved == {c \in Chosen : state[c] \in {"PENDING", "RUNNING"}}

Unfinished == {c \in Chosen : result[c] = "none"}

(* Mutant: finished checks are closed again.                                *)
ClosedAll(running) ==
  [c \in Check |-> IF c \notin Chosen THEN result[c]
                   ELSE IF state[c] = "RUNNING" THEN running ELSE "BLOCKED"]

(* _terminalize_unfinished: the running check gets the given status, checks *)
(* that never ran are BLOCKED.                                              *)
Closed(running) ==
  [c \in Check |-> IF c \notin Unfinished THEN result[c]
                   ELSE IF state[c] = "RUNNING" THEN running ELSE "BLOCKED"]

States(S) == [c \in Check |-> IF c \in S THEN result'[c] ELSE state[c]]

Interrupted ==
  /\ phase = "interrupted"
  /\ rows' = RowsWith(Unfinished)
  /\ result' = Closed("CRASH")
  /\ state' = States(Unfinished)
  /\ Goto("freeze")
  /\ UNCHANGED <<specs, cursor, shown, late, forced, ending>>

Faulted ==
  /\ phase = "faulted"
  /\ rows' = RowsWith(Unfinished \cup {Infrastructure})
  /\ result' = [Closed("ERROR") EXCEPT ![Infrastructure] = "ERROR"]
  /\ state' = States(Unfinished \cup {Infrastructure})
  /\ Shown(Infrastructure, "ERROR")
  /\ Goto("freeze")
  /\ UNCHANGED <<specs, cursor, late, forced, ending>>

-----------------------------------------------------------------------------
(* The report.                                                              *)

Reported == {c \in Check : rows[c] > 0}

(* Ledger.freeze raises when a row has no result.                           *)
Complete == \A c \in Reported : result[c] # "none"

ExitCode ==
  IF \E c \in Reported \cap Required :
        result[c] \in Failing \cup (IF FailOnWarn THEN {"WARN"} ELSE {})
  THEN 1 ELSE 0

Freeze ==
  /\ phase = "freeze" /\ Complete
  /\ exit' = IF forced # 0 THEN forced ELSE ExitCode
  /\ Goto(IF Report THEN "report" ELSE "emit")
  /\ UNCHANGED <<specs, cursor, ledger, shown, late, forced, disk>>

(* The provisional PASS that the report file will contain.                  *)
ReportPending ==
  /\ phase = "report"
  /\ rows' = RowsWith({ReportWrite})
  /\ result' = [result EXCEPT ![ReportWrite] = "PASS"]
  /\ state' = States({ReportWrite})
  /\ Goto("write")
  /\ UNCHANGED <<specs, cursor, shown, late, forced, ending>>

Snapshot == [rows |-> rows, result |-> result, exit |-> exit]

WriteSucceeds ==
  /\ phase = "write"
  /\ disk' = {Snapshot}
  /\ Goto("shown")
  /\ UNCHANGED <<specs, cursor, ledger, shown, late, forced, exit>>

(* Mutant: the exit code computed before the write stands.                  *)
WriteFailsQuietly ==
  /\ phase = "write"
  /\ result' = [result EXCEPT ![ReportWrite] = "ERROR"]
  /\ state' = States({ReportWrite})
  /\ Goto("shown")
  /\ UNCHANGED <<specs, cursor, rows, shown, late, forced, ending>>

WriteFails ==
  /\ phase = "write"
  /\ result' = [result EXCEPT ![ReportWrite] = "ERROR"]
  /\ state' = States({ReportWrite})
  /\ exit' = IF forced = 0 THEN 1 ELSE forced
  /\ Goto("shown")
  /\ UNCHANGED <<specs, cursor, rows, shown, late, forced, disk>>

ReportShown ==
  /\ phase = "shown"
  /\ Shown(ReportWrite, result[ReportWrite])
  /\ Goto("emit")
  /\ UNCHANGED <<specs, cursor, ledger, late, forced, ending>>

Emit ==
  /\ phase = "emit"
  /\ Goto("done")
  /\ UNCHANGED <<specs, cursor, ledger, shown, late, forced, ending>>

(* Outside the try block an exception leaves run_supervisor: _run_guarded   *)
(* of the bootstrap ends with 130 for Ctrl+C and 3 for anything else.       *)
Raised(code) ==
  /\ exit' = code
  /\ Goto("raised")
  /\ UNCHANGED <<specs, cursor, ledger, shown, late, forced, disk>>

Unguarded == {"interrupted", "faulted", "freeze", "report", "write", "shown", "emit"}

InterruptOutside == phase \in Unguarded \cap InterruptAt /\ Raised(130)

FaultOutside == phase \in Unguarded \cap FaultAt /\ Raised(3)

-----------------------------------------------------------------------------

Step ==
  \/ Select \/ Plan \/ ReserveRow \/ ReserveState \/ Reserved \/ CollectEnvironment
  \/ RegistryInvalid \/ Settle \/ Start \/ Finish \/ Publish \/ Progress \/ LoopEnds
  \/ Interrupted \/ Faulted
  \/ Freeze \/ ReportPending \/ WriteSucceeds \/ WriteFails \/ ReportShown \/ Emit

Next ==
  \/ Step
  \/ DeadlinePasses \/ Interrupt \/ Fault \/ InterruptOutside \/ FaultOutside

Spec == Init /\ [][Next]_vars

(* The supervisor is one thread that goes on as long as it can: a worker    *)
(* ends by its own deadline, the local callback is a pure function.         *)
FairSpec == Spec /\ WF_vars(Step)

-----------------------------------------------------------------------------
(* Properties.                                                              *)

(* The variables have their types.                                          *)
TypeOK ==
  /\ selected \in Registries
  /\ phase \in Phase
  /\ specs \in {<<>>, selected, <<Registry>>}
  /\ cursor \in 1..(Len(specs) + 1)
  /\ rows \in [Check -> Nat]
  /\ state \in [Check -> Terminal \cup {"NONE", "PENDING", "RUNNING"}]
  /\ result \in [Check -> Terminal \cup {"none"}]
  /\ shown \in [Check -> Terminal \cup {"none"}]
  /\ late \in BOOLEAN
  /\ forced \in {0, 1, 3, 130} /\ exit \in {0, 1, 3, 130}
  /\ disk \subseteq [rows : [Check -> Nat],
                   result : [Check -> Terminal \cup {"none"}],
                   exit : {0, 1, 3, 130}]

Final == {"freeze", "report", "write", "shown", "emit", "done"}

(* Whatever ended the run (its last check, the deadline, an exception or    *)
(* Ctrl+C in any phase, also between the two assignments of Ledger.commit), *)
(* the snapshot can be frozen and has a result for every check that was     *)
(* selected.                                                                *)
EveryCheckReported ==
  phase \in Final => Complete /\ Chosen \subseteq Reported

(* The snapshot has one row for each of its checks.                         *)
OneRowPerCheck == phase \in Final => \A c \in Check : rows[c] <= 1

(* A check has run only if each of its prerequisites passed, or warned      *)
(* where the policy allows it; so a check behind a failed, skipped, blocked *)
(* or unresolved prerequisite is reported as SKIP or BLOCKED.               *)
RanOnGoodGround ==
  \A c \in Selection :
    ~Invalid /\ (state[c] = "RUNNING" \/ result[c] \notin {"none", "SKIP", "BLOCKED"}) =>
      \A p \in Prereq[c] :
        \/ result[p] = "PASS"
        \/ result[p] = "WARN" /\ c \notin SkipOnWarn

(* Failures stay isolated: a check is BLOCKED only because the run ended    *)
(* early, or a prerequisite of its own failed or does not precede it.       *)
Precedes(p, c) == \E i, j \in 1..Len(selected) :
                    i < j /\ selected[i] = p /\ selected[j] = c

BlockedForAReason ==
  \A c \in Selection :
    result[c] = "BLOCKED" =>
      \/ late \/ forced \in {3, 130}
      \/ \E p \in Prereq[c] : result[p] \in Failing \/ ~Precedes(p, c)

(* The outputs agree on one truth, also after a failed report write has     *)
(* changed a result.  Exit code 0 means that every selected check is        *)
(* reported and no required one failed, 1 that a required one did, 3 and    *)
(* 130 that the run was cut short; the report file says what the final      *)
(* output says, unless emitting that failed; and what has been streamed is  *)
(* true at the end and, if the run was not cut short, complete.             *)
ExitCodeTellsTheTruth ==
  phase \in {"emit", "done"} =>
    LET bad == {c \in Reported \cap Required :
                  result[c] \in Failing \/ (FailOnWarn /\ result[c] = "WARN")}
    IN  /\ exit = 0 => bad = {} /\ \A i \in DOMAIN selected : selected[i] \in Reported
        /\ exit = 1 => bad # {}
        /\ exit = 3 => result[Infrastructure] = "ERROR"
        /\ exit = 130 => forced = 130

FileAgrees == phase \in {"emit", "done"} => disk \subseteq {Snapshot}

StreamAgrees ==
  phase = "done" /\ Streaming =>
    /\ \A c \in Check : shown[c] \in {"none", result[c]}
    /\ forced = 0 => \A c \in Reported : shown[c] # "none"

OutputsAgree == ExitCodeTellsTheTruth /\ FileAgrees /\ StreamAgrees

(* A run comes to an end.                                                   *)
Terminates == <>(phase \in {"done", "raised"})

Verdict == [c \in Chosen |-> result[c]]

Contract == INSTANCE SelfCheckContract
  WITH Verdicts <- Terminal, Open <- "none", verdict <- Verdict,
       published <- (phase = "done")

(* The supervisor keeps the contract: verdicts are never changed and are    *)
(* published only when complete.                                            *)
KeepsContract == Contract!Spec
================================================================================
