---------------------------- MODULE SelfCheckProofs ----------------------------
(***************************************************************************)
(* Proofs about the self-check supervisor, for every registry, every set   *)
(* of prerequisites and every place where the run can be cut short.        *)
(***************************************************************************)
EXTENDS SelfCheck, TLAPS

LoopPhase == {"next", "running", "publish", "progress"}

(* Which checks the run is about, and where its cursor is.                  *)
Placed ==
  /\ phase = "select" => specs = <<>>
  /\ phase = "plan" => specs = selected
  /\ phase \in Guarded \ {"select", "plan"} =>
       specs = IF Invalid THEN <<Registry>> ELSE selected
  /\ phase \in {"select", "plan", "environment"} => cursor = 1
  /\ phase \in {"reserving", "running", "publish", "progress"} => cursor <= Len(specs)

(* What the ledger knows of a check is consistent.                          *)
Consistent ==
  \A c \in Check :
    /\ state[c] # "NONE" => rows[c] > 0
    /\ rows[c] > 0 => c \in Chosen \/ result[c] # "none"
    /\ result[c] # "none" => state[c] # "NONE"

(* How far the reservation has come.                                        *)
Reservation ==
  /\ phase \in {"select", "plan"} => \A c \in Check : rows[c] = 0 /\ state[c] = "NONE"
  /\ phase \in {"reserve", "reserving"} =>
       \A i \in 1..Len(specs) : state[specs[i]] = (IF i < cursor THEN "PENDING" ELSE "NONE")
  /\ phase = "reserving" => rows[specs[cursor]] > 0
  /\ phase = "write" => rows[ReportWrite] > 0
  /\ phase \in LoopPhase \cup {"environment"} =>
       \A i \in 1..Len(specs) : state[specs[i]] # "NONE"
  /\ phase \in {"select", "plan", "reserve", "reserving", "environment"} =>
       \A c \in Check : result[c] = "none" /\ state[c] # "RUNNING"

(* How far the loop has come.                                               *)
Advancement ==
  /\ phase \in {"next", "running"} =>
       \A i \in 1..Len(specs) : result[specs[i]] = "none" <=> i >= cursor
  /\ phase \in {"publish", "progress"} =>
       \A i \in 1..Len(specs) : result[specs[i]] = "none" <=> i > cursor
  /\ phase = "running" => state[specs[cursor]] = "RUNNING" /\ ~Invalid
  /\ phase \in Final => \A c \in Chosen : result[c] # "none"

IInv == TypeOK /\ Placed /\ Consistent /\ Reservation /\ Advancement

(* Rows and states agree, except within Ledger.reserve.                     *)
Rowed ==
  \A c \in Check :
    rows[c] = (IF state[c] = "NONE" /\ ~(phase = "reserving" /\ c = specs[cursor])
               THEN 0 ELSE 1)

-----------------------------------------------------------------------------

LEMMA SelectionIsSelected ==
  ASSUME selected \in Registries
  PROVE
  /\ selected \in Seq(Selection)
  /\ \A i \in 1..Len(selected) : selected[i] \in Selection
  /\ Len(selected) \in Nat
<1>1. Registries \subseteq Seq(Selection)
  BY ParameterAssumption
<1> QED BY <1>1

(* The registry of a run is valid or not from beginning to end.             *)
LEMMA SameRegistry ==
  ASSUME UNCHANGED selected
  PROVE  Invalid' <=> Invalid
BY DEF Invalid

LEMMA Distinct ==
  ~Invalid => \A i, j \in 1..Len(selected) : i # j => selected[i] # selected[j]
BY DEF Invalid

LEMMA SyntheticChecks ==
  /\ Registry \in Check /\ Infrastructure \in Check /\ ReportWrite \in Check
  /\ Registry \notin Selection /\ Infrastructure \notin Selection /\ ReportWrite \notin Selection
  /\ Registry # Infrastructure /\ Registry # ReportWrite /\ Infrastructure # ReportWrite
BY ParameterAssumption DEF Synthetic, Check

(* Facts about any list of checks a run can have.                           *)
LEMMA RunChecks ==
  ASSUME selected \in Registries, specs \in {<<>>, selected, <<Registry>>}
  PROVE  /\ Len(specs) \in Nat
         /\ \A i \in 1..Len(specs) : specs[i] \in Check /\ specs[i] \in Chosen
         /\ Chosen \subseteq Check
         /\ Infrastructure \notin Chosen /\ ReportWrite \notin Chosen
BY SelectionIsSelected, SyntheticChecks DEF Chosen, Check

LEMMA OutcomesAreStatuses ==
  \A c \in Check :
    /\ Disposition(c) \in {"SKIP", "BLOCKED", "run"}
    /\ \A outcome \in Outcome(c) : Normalized(c, outcome) \in Terminal
BY DEF Disposition, Outcome, Normalized, Terminal, Failing

(* A commit in the loop, whatever the status.                               *)
LEMMA CommitKeeps ==
  ASSUME IInv, phase \in {"next", "running"}, cursor <= Len(specs), NEW status \in Terminal,
         Commit(specs[cursor], status)
  PROVE  IInv'
<1> USE RunChecks, SameRegistry, SyntheticChecks DEF IInv, TypeOK, Placed, Commit, Goto, ledger, ending
<1>0. /\ specs[cursor] \in Check /\ cursor \in 1..Len(specs)
      /\ result' = [result EXCEPT ![specs[cursor]] = status]
      /\ phase' = "publish" /\ specs' = specs /\ cursor' = cursor /\ rows' = rows /\ state' = state
  OBVIOUS
<1>1. status # "none"
  BY DEF Terminal, Failing
<1>2. TypeOK'
  BY <1>0 DEF Phase, Guarded
<1>3. Placed'
  BY <1>0 DEF Guarded
<1>4. Consistent'
  BY <1>0, <1>1 DEF Consistent, Reservation, LoopPhase, Chosen
<1>5. Reservation'
  BY <1>0 DEF Reservation, LoopPhase
<1>6. \A i \in 1..Len(specs) : i # cursor => specs[i] # specs[cursor]
  <2>1. phase \in Guarded \ {"select", "plan"}
    BY DEF Guarded
  <2>2. CASE Invalid
    <3>1. specs = <<Registry>>
      BY <2>1, <2>2
    <3> QED BY <3>1, <1>0
  <2>3. CASE ~Invalid
    BY <2>1, <2>3, <1>0, Distinct
  <2> QED BY <2>2, <2>3
<1>7. \A i \in 1..Len(specs) : result[specs[i]] = "none" <=> i >= cursor
  BY DEF Advancement
<1>8. \A i \in 1..Len(specs) : result'[specs[i]] = "none" <=> i > cursor
  <2> SUFFICES ASSUME NEW i \in 1..Len(specs) PROVE result'[specs[i]] = "none" <=> i > cursor
    OBVIOUS
  <2>1. CASE i = cursor
    BY <2>1, <1>0, <1>1
  <2>2. CASE i # cursor
    <3>1. result'[specs[i]] = result[specs[i]]
      BY <2>2, <1>0, <1>6
    <3> QED BY <2>2, <3>1, <1>0, <1>7
  <2> QED BY <2>1, <2>2
<1>9. Advancement'
  BY <1>0, <1>8 DEF Advancement, Final
<1> QED BY <1>2, <1>3, <1>4, <1>5, <1>9

LEMMA InitEstablishes == ASSUME Init PROVE IInv
<1> USE DEF Init
<1>1. Len(specs) = 0
  OBVIOUS
<1>2. TypeOK
  <2>1. cursor \in 1..(Len(specs) + 1) /\ phase \in Phase /\ specs \in {<<>>, selected, <<Registry>>}
    BY <1>1 DEF Phase, Guarded
  <2>2. rows \in [Check -> Nat] /\ disk = {}
    OBVIOUS
  <2>3. /\ state \in [Check -> Terminal \cup {"NONE", "PENDING", "RUNNING"}]
        /\ result \in [Check -> Terminal \cup {"none"}]
        /\ shown \in [Check -> Terminal \cup {"none"}]
    OBVIOUS
  <2> QED BY <2>1, <2>2, <2>3 DEF TypeOK
<1>3. Placed /\ Consistent /\ Reservation /\ Advancement
  BY <1>1 DEF Placed, Consistent, Reservation, Advancement, LoopPhase, Final, Guarded
<1> QED BY <1>2, <1>3 DEF IInv

LEMMA SelectKeeps == ASSUME IInv, Select PROVE IInv'
BY RunChecks, SameRegistry, SelectionIsSelected, SyntheticChecks
DEF Select, Goto, ledger, ending, IInv, TypeOK, Placed, Consistent, Reservation, Advancement,
    Phase, Guarded, Final, LoopPhase, Chosen

LEMMA PlanKeeps == ASSUME IInv, Plan PROVE IInv'
BY RunChecks, SameRegistry, SelectionIsSelected, SyntheticChecks
DEF Plan, Goto, ledger, ending, IInv, TypeOK, Placed, Consistent, Reservation, Advancement,
    Phase, Guarded, Final, LoopPhase, Chosen

LEMMA ReserveRowKeeps == ASSUME IInv, ReserveRow PROVE IInv'
<1> USE RunChecks, SameRegistry DEF ReserveRow, Goto, ledger, ending, IInv, TypeOK, Placed
<1>1. cursor \in 1..Len(specs) /\ specs[cursor] \in Check /\ specs[cursor] \in Chosen
  OBVIOUS
<1>2. rows' \in [Check -> Nat] /\ rows'[specs[cursor]] > 0 /\ specs' = specs /\ cursor' = cursor
  BY <1>1
<1>3. \A c \in Check : rows'[c] # rows[c] => c \in Chosen
  BY <1>1
<1>4. \A c \in Check : rows'[c] >= rows[c]
  BY <1>1
<1>5. TypeOK' /\ Placed'
  BY <1>1, <1>2 DEF Phase, Guarded
<1>6. Consistent'
  BY <1>2, <1>3, <1>4 DEF Consistent, Chosen
<1>7. Reservation' /\ Advancement'
  BY <1>2 DEF Reservation, Advancement, LoopPhase, Final
<1> QED BY <1>5, <1>6, <1>7

LEMMA ReserveStateKeeps == ASSUME IInv, ReserveState PROVE IInv'
<1>1. TypeOK'
  BY RunChecks, SameRegistry, SelectionIsSelected, SyntheticChecks
  DEF ReserveState, Goto, ending, IInv, TypeOK, Placed, Reservation, Phase, Guarded, Final,
      LoopPhase, Terminal, Failing, Chosen
<1>2. Placed'
  BY RunChecks, SameRegistry, SelectionIsSelected, SyntheticChecks
  DEF ReserveState, Goto, ending, IInv, TypeOK, Placed, Phase, Guarded, Final, LoopPhase,
      Terminal, Failing, Chosen
<1>3. Consistent'
  BY RunChecks, SameRegistry, SelectionIsSelected, SyntheticChecks
  DEF ReserveState, Goto, ending, IInv, TypeOK, Placed, Consistent, Reservation, Advancement,
      Phase, Guarded, Final, LoopPhase, Terminal, Failing, Chosen
<1>4. Reservation'
  <2>1. \A i \in 1..Len(specs) : i # cursor => specs[i] # specs[cursor]
    BY RunChecks, Distinct DEF ReserveState, IInv, TypeOK, Placed, Guarded
  <2>2. /\ \A i \in 1..Len(specs) : state[specs[i]] = (IF i < cursor THEN "PENDING" ELSE "NONE")
        /\ cursor \in 1..Len(specs) /\ \A i \in 1..Len(specs) : specs[i] \in Check
        /\ state \in [Check -> Terminal \cup {"NONE", "PENDING", "RUNNING"}]
        /\ state' = [state EXCEPT ![specs[cursor]] = "PENDING"]
        /\ cursor' = cursor + 1 /\ specs' = specs
    BY RunChecks DEF ReserveState, IInv, TypeOK, Placed, Reservation
  <2>3. ASSUME NEW i \in 1..Len(specs)
        PROVE  state'[specs[i]] = (IF i < cursor + 1 THEN "PENDING" ELSE "NONE")
    <3>1. CASE i = cursor
      BY <3>1, <2>2
    <3>2. CASE i # cursor
      <4>1. state'[specs[i]] = state[specs[i]] /\ (i < cursor <=> i < cursor + 1)
        BY <3>2, <2>1, <2>2
      <4> QED BY <4>1, <2>2
    <3> QED BY <3>1, <3>2
  <2> QED
    BY <2>2, <2>3 DEF ReserveState, Goto, IInv, Reservation, LoopPhase, TypeOK
<1>5. Advancement'
  BY RunChecks, SameRegistry, SelectionIsSelected, SyntheticChecks
  DEF ReserveState, Goto, ending, IInv, TypeOK, Placed, Consistent, Reservation, Advancement,
      Phase, Guarded, Final, LoopPhase, Terminal, Failing, Chosen
<1> QED BY <1>1, <1>2, <1>3, <1>4, <1>5 DEF IInv

LEMMA ReservedKeeps == ASSUME IInv, Reserved PROVE IInv'
BY RunChecks, SameRegistry, SelectionIsSelected, SyntheticChecks
DEF Reserved, Goto, ledger, ending, IInv, TypeOK, Placed, Consistent, Reservation, Advancement,
    Phase, Guarded, Final, LoopPhase, Chosen

LEMMA CollectEnvironmentKeeps == ASSUME IInv, CollectEnvironment PROVE IInv'
BY RunChecks, SameRegistry, SelectionIsSelected, SyntheticChecks
DEF CollectEnvironment, Goto, ledger, ending, IInv, TypeOK, Placed, Consistent, Reservation,
    Advancement, Phase, Guarded, Final, LoopPhase, Chosen

LEMMA RegistryInvalidKeeps == ASSUME IInv, RegistryInvalid PROVE IInv'
<1>1. specs[cursor] = Registry /\ cursor <= Len(specs) /\ "ERROR" \in Terminal
  <2>1. specs = <<Registry>> /\ cursor <= Len(specs) /\ cursor \in 1..(Len(specs) + 1)
    BY DEF RegistryInvalid, Looping, IInv, Placed, TypeOK, Guarded
  <2> QED BY <2>1 DEF Terminal, Failing
<1> QED BY <1>1, CommitKeeps DEF RegistryInvalid, Looping

LEMMA SettleKeeps == ASSUME IInv, Settle PROVE IInv'
<1>1. specs[cursor] \in Check
  BY RunChecks DEF Settle, Looping, IInv, TypeOK
<1>2. Disposition(specs[cursor]) \in Terminal
  BY <1>1, OutcomesAreStatuses DEF Settle, Terminal, Failing
<1> QED BY <1>2, CommitKeeps DEF Settle, Looping

LEMMA StartKeeps == ASSUME IInv, Start PROVE IInv'
<1> USE RunChecks, SameRegistry DEF Start, Looping, Goto, ending, IInv, TypeOK
<1>1. cursor \in 1..Len(specs) /\ specs[cursor] \in Check /\ specs[cursor] \in Chosen
  OBVIOUS
<1>2. TypeOK' /\ Placed'
  BY <1>1 DEF Phase, Guarded, Placed
<1>3. Consistent'
  BY <1>1 DEF Consistent, Reservation, LoopPhase, Chosen
<1>4. Reservation'
  BY <1>1 DEF Reservation, LoopPhase
<1>5. Advancement'
  BY <1>1 DEF Advancement, Final
<1> QED BY <1>2, <1>3, <1>4, <1>5

LEMMA FinishKeeps == ASSUME IInv, Finish PROVE IInv'
<1>1. cursor <= Len(specs) /\ specs[cursor] \in Check
  BY RunChecks DEF Finish, IInv, TypeOK, Placed
<1>2. PICK outcome \in Outcome(specs[cursor]) :
        Commit(specs[cursor], Normalized(specs[cursor], outcome))
  BY DEF Finish
<1> QED BY <1>1, <1>2, OutcomesAreStatuses, CommitKeeps DEF Finish

LEMMA PublishKeeps == ASSUME IInv, Publish PROVE IInv'
BY RunChecks, SameRegistry, SelectionIsSelected, SyntheticChecks
DEF Publish, Goto, ending, IInv, TypeOK, Placed, Consistent, Reservation, Advancement, Phase,
    Guarded, Final, LoopPhase, Terminal, Failing, Chosen

LEMMA ProgressKeeps == ASSUME IInv, Progress PROVE IInv'
BY RunChecks, SameRegistry, SelectionIsSelected, SyntheticChecks
DEF Progress, Shown, Goto, ledger, ending, IInv, TypeOK, Placed, Consistent, Reservation,
    Advancement, Phase, Guarded, Final, LoopPhase, Chosen

LEMMA LoopEndsKeeps == ASSUME IInv, LoopEnds PROVE IInv'
BY RunChecks, SameRegistry, SelectionIsSelected, SyntheticChecks
DEF LoopEnds, Goto, ledger, ending, IInv, TypeOK, Placed, Consistent, Reservation, Advancement,
    Phase, Guarded, Final, LoopPhase, Chosen

LEMMA DeadlinePassesKeeps == ASSUME IInv, DeadlinePasses PROVE IInv'
BY RunChecks, SameRegistry, SelectionIsSelected, SyntheticChecks
DEF DeadlinePasses, ledger, ending, IInv, TypeOK, Placed, Consistent, Reservation, Advancement,
    Phase, Guarded, Final, LoopPhase, Chosen

LEMMA InterruptKeeps == ASSUME IInv, Interrupt PROVE IInv'
BY RunChecks, SameRegistry, SelectionIsSelected, SyntheticChecks
DEF Interrupt, Guarded, Goto, ledger, ending, IInv, TypeOK, Placed, Consistent, Reservation,
    Advancement, Phase, Final, LoopPhase, Chosen

LEMMA FaultKeeps == ASSUME IInv, Fault PROVE IInv'
BY RunChecks, SameRegistry, SelectionIsSelected, SyntheticChecks
DEF Fault, Guarded, Goto, ledger, ending, IInv, TypeOK, Placed, Consistent, Reservation,
    Advancement, Phase, Final, LoopPhase, Chosen

LEMMA InterruptedKeeps == ASSUME IInv, Interrupted PROVE IInv'
<1>1. TypeOK'
  BY RunChecks, SameRegistry, SelectionIsSelected, SyntheticChecks
  DEF Interrupted, RowsWith, Unfinished, Closed, States, Goto, ending, IInv, TypeOK, Placed,
      Reservation, Phase, Guarded, Final, LoopPhase, Terminal, Failing, Chosen
<1>2. Placed'
  BY RunChecks, SameRegistry, SelectionIsSelected, SyntheticChecks
  DEF Interrupted, RowsWith, Unfinished, Closed, States, Goto, ending, IInv, TypeOK, Placed,
      Phase, Guarded, Final, LoopPhase, Terminal, Failing, Chosen
<1>3. Consistent'
  BY RunChecks, SameRegistry, SelectionIsSelected, SyntheticChecks
  DEF Interrupted, RowsWith, Unfinished, Closed, States, Goto, ending, IInv, TypeOK, Placed,
      Consistent, Reservation, Advancement, Phase, Guarded, Final, LoopPhase, Terminal, Failing,
      Chosen
<1>4. Reservation'
  BY RunChecks, SameRegistry, SelectionIsSelected, SyntheticChecks
  DEF Interrupted, RowsWith, Unfinished, Closed, States, Goto, ending, IInv, TypeOK, Placed,
      Consistent, Reservation, Advancement, Phase, Guarded, Final, LoopPhase, Terminal, Failing,
      Chosen
<1>5. Advancement'
  BY RunChecks, SameRegistry, SelectionIsSelected, SyntheticChecks
  DEF Interrupted, RowsWith, Unfinished, Closed, States, Goto, ending, IInv, TypeOK, Placed,
      Consistent, Reservation, Advancement, Phase, Guarded, Final, LoopPhase, Terminal, Failing,
      Chosen
<1> QED BY <1>1, <1>2, <1>3, <1>4, <1>5 DEF IInv

LEMMA FaultedKeeps == ASSUME IInv, Faulted PROVE IInv'
<1> USE RunChecks, SameRegistry, SyntheticChecks DEF Faulted, Goto, ledger, ending, IInv, TypeOK
<1> DEFINE S == Unfinished \cup {Infrastructure}
<1>1. /\ specs' = specs /\ cursor' = cursor /\ phase' = "freeze" /\ S \subseteq Check
  BY DEF Unfinished
<1>2. {"CRASH", "ERROR", "BLOCKED"} \subseteq Terminal /\ "none" \notin Terminal
  BY DEF Terminal, Failing
<1>3. /\ Closed("ERROR") \in [Check -> Terminal \cup {"none"}]
      /\ \A c \in Check : IF c \in Unfinished THEN Closed("ERROR")[c] \in Terminal
                           ELSE Closed("ERROR")[c] = result[c]
  BY <1>2 DEF Closed, Unfinished
<1>4. /\ result' \in [Check -> Terminal \cup {"none"}]
      /\ \A c \in Check : IF c \in S THEN result'[c] \in Terminal ELSE result'[c] = result[c]
  BY <1>2, <1>3
<1>5. /\ rows' \in [Check -> Nat]
      /\ \A c \in Check : rows'[c] >= rows[c]
      /\ \A c \in S : state[c] = "NONE" => rows'[c] > 0
      /\ \A c \in Check : c \notin S => rows'[c] = rows[c]
  <2>1. rows' = [c \in Check |-> rows[c] + (IF c \in S /\ state[c] = "NONE" THEN 1 ELSE 0)]
    BY DEF RowsWith
  <2>2. rows \in [Check -> Nat] /\ S \subseteq Check
    BY <1>1
  <2> HIDE DEF S
  <2> QED BY ONLY <2>1, <2>2
<1>6. /\ state' \in [Check -> Terminal \cup {"NONE", "PENDING", "RUNNING"}]
      /\ \A c \in Check : state'[c] = (IF c \in S THEN result'[c] ELSE state[c])
  BY <1>4 DEF States
<1>7. shown' \in [Check -> Terminal \cup {"none"}]
  BY <1>2 DEF Shown
<1>8. TypeOK'
  <2>1. /\ selected' = selected /\ selected \in Registries
        /\ specs' \in {<<>>, selected, <<Registry>>} /\ cursor' \in 1..(Len(specs') + 1)
    BY <1>1
  <2>2. phase' \in Phase /\ late' \in BOOLEAN /\ forced' = forced /\ exit' = exit /\ disk' = disk
    BY <1>1 DEF Phase
  <2> HIDE DEF S, Faulted
  <2> QED BY ONLY <2>1, <2>2, <1>4, <1>5, <1>6, <1>7, TypeOK DEF TypeOK
<1>9. Consistent'
  <2> HIDE DEF S, Faulted, TypeOK
  <2>1. /\ Consistent /\ Chosen' = Chosen
        /\ "none" \notin Terminal /\ "NONE" \notin Terminal
    BY <1>1 DEF Terminal, Failing, Chosen
  <2>2. ASSUME NEW c \in Check
        PROVE  /\ state'[c] # "NONE" => rows'[c] > 0
               /\ rows'[c] > 0 => c \in Chosen \/ result'[c] # "none"
               /\ result'[c] # "none" => state'[c] # "NONE"
    <3>1. CASE c \in S
      <4>1. result'[c] \in Terminal /\ state'[c] = result'[c]
        BY ONLY <3>1, <1>4, <1>6, <2>2
      <4>2. rows'[c] > 0
        <5>1. rows'[c] \in Nat /\ rows[c] \in Nat /\ rows'[c] >= rows[c]
          BY ONLY <1>5, <2>2, TypeOK DEF TypeOK
        <5>2. state[c] = "NONE" => rows'[c] > 0
          BY ONLY <3>1, <1>5, <2>2
        <5>3. state[c] # "NONE" => rows[c] > 0
          BY ONLY <2>1, <2>2 DEF Consistent
        <5> QED BY ONLY <5>1, <5>2, <5>3
      <4> QED BY ONLY <4>1, <4>2, <2>1
    <3>2. CASE c \notin S
      <4>1. result'[c] = result[c] /\ state'[c] = state[c] /\ rows'[c] = rows[c]
        <5>1. result'[c] = result[c]
          BY ONLY <3>2, <1>4, <2>2
        <5>2. rows'[c] = rows[c]
          BY ONLY <3>2, <1>5, <2>2
        <5>3. state'[c] = state[c]
          BY ONLY <3>2, <1>6, <2>2
        <5> QED BY ONLY <5>1, <5>2, <5>3
      <4> QED BY ONLY <4>1, <2>1, <2>2 DEF Consistent
    <3> QED BY ONLY <3>1, <3>2
  <2> QED BY ONLY <2>1, <2>2 DEF Consistent
<1>10. \A c \in Chosen : result'[c] # "none"
  BY <1>2, <1>4 DEF Unfinished
<1>11. Placed' /\ Reservation' /\ Advancement'
  BY <1>1, <1>10 DEF Placed, Reservation, Advancement, LoopPhase, Final, Guarded, Chosen
<1> QED BY <1>8, <1>9, <1>11

LEMMA FreezeKeeps == ASSUME IInv, Freeze PROVE IInv'
<1>1. TypeOK'
  BY RunChecks, SameRegistry, SelectionIsSelected, SyntheticChecks
  DEF Freeze, Complete, Goto, ledger, Reported, IInv, TypeOK, Placed, Reservation, Phase,
      Guarded, Final, LoopPhase, Chosen, ExitCode
<1>2. Placed'
  BY RunChecks, SameRegistry, SelectionIsSelected, SyntheticChecks
  DEF Freeze, Complete, Goto, ledger, Reported, IInv, TypeOK, Placed, Phase, Guarded, Final,
      LoopPhase, Chosen, ExitCode
<1>3. Consistent'
  BY RunChecks, SameRegistry, SelectionIsSelected, SyntheticChecks
  DEF Freeze, Complete, Goto, ledger, Reported, IInv, TypeOK, Placed, Consistent, Reservation,
      Advancement, Phase, Guarded, Final, LoopPhase, Chosen, ExitCode
<1>4. Reservation'
  BY RunChecks, SameRegistry, SelectionIsSelected, SyntheticChecks
  DEF Freeze, Complete, Goto, ledger, Reported, IInv, TypeOK, Placed, Consistent, Reservation,
      Advancement, Phase, Guarded, Final, LoopPhase, Chosen, ExitCode
<1>5. Advancement'
  BY RunChecks, SameRegistry, SelectionIsSelected, SyntheticChecks
  DEF Freeze, Complete, Goto, ledger, Reported, IInv, TypeOK, Placed, Consistent, Reservation,
      Advancement, Phase, Guarded, Final, LoopPhase, Chosen, ExitCode
<1> QED BY <1>1, <1>2, <1>3, <1>4, <1>5 DEF IInv

LEMMA ReportPendingKeeps == ASSUME IInv, ReportPending PROVE IInv'
BY RunChecks, SameRegistry, SelectionIsSelected, SyntheticChecks
DEF ReportPending, RowsWith, States, Goto, ending, IInv, TypeOK, Placed, Consistent,
    Reservation, Advancement, Phase, Guarded, Final, LoopPhase, Terminal, Failing, Chosen

LEMMA WriteSucceedsKeeps == ASSUME IInv, WriteSucceeds PROVE IInv'
BY RunChecks, SameRegistry, SelectionIsSelected, SyntheticChecks
DEF WriteSucceeds, Snapshot, Goto, ledger, IInv, TypeOK, Placed, Consistent, Reservation,
    Advancement, Phase, Guarded, Final, LoopPhase, Chosen

LEMMA WriteFailsKeeps == ASSUME IInv, WriteFails PROVE IInv'
<1>1. TypeOK'
  BY RunChecks, SameRegistry, SelectionIsSelected, SyntheticChecks
  DEF WriteFails, States, Goto, IInv, TypeOK, Placed, Reservation, Phase, Guarded, Final,
      LoopPhase, Terminal, Failing, Chosen
<1>2. Placed'
  BY RunChecks, SameRegistry, SelectionIsSelected, SyntheticChecks
  DEF WriteFails, States, Goto, IInv, TypeOK, Placed, Phase, Guarded, Final, LoopPhase,
      Terminal, Failing, Chosen
<1>3. Consistent'
  BY RunChecks, SameRegistry, SelectionIsSelected, SyntheticChecks
  DEF WriteFails, States, Goto, IInv, TypeOK, Placed, Consistent, Reservation, Advancement,
      Phase, Guarded, Final, LoopPhase, Terminal, Failing, Chosen
<1>4. Reservation'
  BY RunChecks, SameRegistry, SelectionIsSelected, SyntheticChecks
  DEF WriteFails, States, Goto, IInv, TypeOK, Placed, Consistent, Reservation, Advancement,
      Phase, Guarded, Final, LoopPhase, Terminal, Failing, Chosen
<1>5. Advancement'
  BY RunChecks, SameRegistry, SelectionIsSelected, SyntheticChecks
  DEF WriteFails, States, Goto, IInv, TypeOK, Placed, Consistent, Reservation, Advancement,
      Phase, Guarded, Final, LoopPhase, Terminal, Failing, Chosen
<1> QED BY <1>1, <1>2, <1>3, <1>4, <1>5 DEF IInv

LEMMA ReportShownKeeps == ASSUME IInv, ReportShown PROVE IInv'
BY RunChecks, SameRegistry, SelectionIsSelected, SyntheticChecks
DEF ReportShown, Shown, Goto, ledger, ending, IInv, TypeOK, Placed, Consistent, Reservation,
    Advancement, Phase, Guarded, Final, LoopPhase, Chosen

LEMMA EmitKeeps == ASSUME IInv, Emit PROVE IInv'
BY RunChecks, SameRegistry, SelectionIsSelected, SyntheticChecks
DEF Emit, Goto, ledger, ending, IInv, TypeOK, Placed, Consistent, Reservation, Advancement,
    Phase, Guarded, Final, LoopPhase, Chosen

LEMMA InterruptOutsideKeeps == ASSUME IInv, InterruptOutside PROVE IInv'
BY RunChecks, SameRegistry, SelectionIsSelected, SyntheticChecks
DEF InterruptOutside, Unguarded, Raised, Goto, ledger, IInv, TypeOK, Placed, Consistent,
    Reservation, Advancement, Phase, Guarded, Final, LoopPhase, Chosen

LEMMA FaultOutsideKeeps == ASSUME IInv, FaultOutside PROVE IInv'
BY RunChecks, SameRegistry, SelectionIsSelected, SyntheticChecks
DEF FaultOutside, Unguarded, Raised, Goto, ledger, IInv, TypeOK, Placed, Consistent,
    Reservation, Advancement, Phase, Guarded, Final, LoopPhase, Chosen

LEMMA StutterKeeps == ASSUME IInv, UNCHANGED vars PROVE IInv'
<1>1. Chosen' = Chosen
  BY DEF vars, Chosen
<1>2. Invalid' <=> Invalid
  BY SameRegistry DEF vars
<1> QED BY <1>1, <1>2 DEF vars, ledger, ending, IInv, TypeOK, Placed, Consistent, Reservation, Advancement

LEMMA NextKeeps == ASSUME IInv, [Next]_vars PROVE IInv'
<1>1. CASE Next
  BY <1>1,
     SelectKeeps, PlanKeeps, ReserveRowKeeps, ReserveStateKeeps, ReservedKeeps,
     CollectEnvironmentKeeps, RegistryInvalidKeeps, SettleKeeps, StartKeeps,
     FinishKeeps, PublishKeeps, ProgressKeeps, LoopEndsKeeps, DeadlinePassesKeeps,
     InterruptKeeps, FaultKeeps, InterruptedKeeps, FaultedKeeps, FreezeKeeps,
     ReportPendingKeeps, WriteSucceedsKeeps, WriteFailsKeeps, ReportShownKeeps,
     EmitKeeps, InterruptOutsideKeeps, FaultOutsideKeeps
  DEF Next, Step
<1>2. CASE UNCHANGED vars
  BY <1>2, StutterKeeps
<1> QED BY <1>1, <1>2

LEMMA Invariance == Spec => []IInv
<1>1. Init => IInv
  BY InitEstablishes
<1>2. IInv /\ [Next]_vars => IInv'
  BY NextKeeps
<1> QED BY <1>1, <1>2, PTL DEF Spec

(* The variables of the supervisor have their types in every run.           *)
THEOREM TypeCorrect == Spec => []TypeOK
<1>1. IInv => TypeOK
  BY DEF IInv
<1> QED BY <1>1, Invariance, PTL

LEMMA EveryResultHolds == IInv => EveryCheckReported
<1> SUFFICES ASSUME IInv, phase \in Final PROVE Complete /\ Chosen \subseteq Reported
  BY DEF EveryCheckReported
<1>1. Chosen \subseteq Check /\ \A c \in Chosen : result[c] # "none"
  BY RunChecks DEF IInv, TypeOK, Advancement
<1>2. Complete
  BY <1>1 DEF IInv, Consistent, Complete, Reported
<1>3. Chosen \subseteq Reported
  BY <1>1 DEF IInv, Consistent, Reported
<1> QED BY <1>2, <1>3

(* However the run ends, the snapshot can be frozen and has a result for    *)
(* every selected check.                                                    *)
THEOREM EveryResult == Spec => []EveryCheckReported
BY EveryResultHolds, Invariance, PTL

-----------------------------------------------------------------------------
(* One row per check, unless an exception hits Ledger.reserve between its   *)
(* two assignments.                                                         *)

LEMMA RowsWithRowed ==
  ASSUME Rowed, phase # "reserving", NEW S \in SUBSET Check, phase' # "reserving",
         rows' = RowsWith(S), \A c \in S : state'[c] # "NONE",
         \A c \in Check \ S : state'[c] = state[c]
  PROVE  Rowed'
BY DEF Rowed, RowsWith

LEMMA RowedKept ==
  ASSUME IInv, Rowed, "reserving" \notin InterruptAt \cup FaultAt, [Next]_vars
  PROVE  Rowed'
<1> USE RunChecks, SameRegistry, SyntheticChecks DEF IInv, Goto, ledger, ending
<1>1. CASE ReserveRow
  BY <1>1
  DEF ReserveRow, Rowed, TypeOK, Placed, Reservation
<1>2. CASE ReserveState
  BY <1>2 DEF ReserveState, Rowed, TypeOK, Placed, Reservation
<1>3. CASE Start
  BY <1>3 DEF Start, Looping, Rowed, TypeOK, Reservation, LoopPhase
<1>12. CASE Publish
  <2>1. specs[cursor] \in Chosen /\ specs[cursor] \in Check
    BY <1>12 DEF Publish, Placed, TypeOK
  <2>2. state[specs[cursor]] # "NONE"
    BY <1>12 DEF Publish, Placed, Reservation, LoopPhase, TypeOK
  <2>3. result[specs[cursor]] # "NONE"
    <3>1. result[specs[cursor]] \in Terminal \cup {"none"}
      BY <2>1 DEF TypeOK
    <3> QED BY <3>1 DEF Terminal, Failing
  <2> QED BY <1>12, <2>1, <2>2, <2>3 DEF Publish, Rowed, TypeOK
<1>4. CASE Interrupted
  <2>1. Unfinished \subseteq Check
    BY DEF Unfinished, TypeOK
  <2>2. \A c \in Unfinished : state'[c] # "NONE"
    BY <1>4, <2>1 DEF Interrupted, States, Closed
  <2> QED BY <1>4, <2>1, <2>2, RowsWithRowed DEF Interrupted, States
<1>5. CASE Faulted
  <2> DEFINE S == Unfinished \cup {Infrastructure}
  <2>1. S \subseteq Check /\ rows' = RowsWith(S) /\ phase # "reserving" /\ phase' # "reserving"
    BY <1>5 DEF Faulted, Unfinished, TypeOK
  <2>2. \A c \in S : state'[c] # "NONE"
    BY <1>5, <2>1 DEF Faulted, States, Closed
  <2>3. \A c \in Check \ S : state'[c] = state[c]
    BY <1>5 DEF Faulted, States
  <2> HIDE DEF S
  <2> QED BY ONLY <2>1, <2>2, <2>3, Rowed, RowsWithRowed
<1>6. CASE ReportPending
  <2>1. \A c \in Check : state'[c] = (IF c = ReportWrite THEN "PASS" ELSE state[c])
    BY <1>6 DEF ReportPending, States, TypeOK
  <2>2. rows' = RowsWith({ReportWrite}) /\ phase = "report" /\ phase' = "write"
    BY <1>6 DEF ReportPending
  <2>3. {ReportWrite} \subseteq Check /\ \A c \in {ReportWrite} : state'[c] # "NONE"
    BY <2>1
  <2>4. \A c \in Check \ {ReportWrite} : state'[c] = state[c]
    BY <2>1
  <2> QED BY ONLY <2>2, <2>3, <2>4, Rowed, RowsWithRowed
<1>7. CASE WriteFails
  BY <1>7 DEF WriteFails, States, Rowed, Consistent, Reservation, TypeOK
<1>8. CASE Interrupt \/ Fault
  BY <1>8 DEF Interrupt, Fault, Rowed
<1>9. CASE Select \/ Plan \/ Reserved \/ CollectEnvironment \/ RegistryInvalid \/ Settle \/ Finish
           \/ Progress \/ LoopEnds \/ DeadlinePasses
  BY <1>9 DEF Select, Plan, Reserved, CollectEnvironment, RegistryInvalid, Settle, Finish, Commit,
     Looping, Progress, LoopEnds, DeadlinePasses, Rowed
<1>10. CASE Freeze \/ WriteSucceeds \/ ReportShown \/ Emit \/ InterruptOutside \/ FaultOutside
  BY <1>10 DEF Freeze, WriteSucceeds, ReportShown, Emit, InterruptOutside, FaultOutside, Raised,
     Unguarded, Rowed
<1>11. CASE UNCHANGED vars
  BY <1>11 DEF vars, Rowed
<1> QED BY <1>1, <1>2, <1>3, <1>4, <1>5, <1>6, <1>7, <1>8, <1>9, <1>10, <1>11, <1>12 DEF Next, Step

(* Provided no exception hits Ledger.reserve between appending an ID and    *)
(* setting its state, no check is reported twice.                           *)
THEOREM OneRow ==
  ASSUME "reserving" \notin InterruptAt \cup FaultAt
  PROVE  Spec => []OneRowPerCheck
<1>1. Init => Rowed
  BY DEF Init, Rowed
<1>2. IInv /\ Rowed /\ [Next]_vars => Rowed'
  BY RowedKept
<1>3. Rowed => OneRowPerCheck
  BY DEF Rowed, OneRowPerCheck
<1> QED BY <1>1, <1>2, <1>3, Invariance, PTL DEF Spec

-----------------------------------------------------------------------------
(* Checks run on good ground.                                               *)

Ground(c) ==
  \A p \in Prereq[c] : result[p] = "PASS" \/ (result[p] = "WARN" /\ c \notin SkipOnWarn)

(* A result in the ledger is final, but for the one of the report write.    *)
LEMMA ResultsStand ==
  ASSUME IInv, [Next]_vars
  PROVE  \A c \in Selection : result[c] # "none" => result'[c] = result[c]
<1> SUFFICES ASSUME NEW c \in Selection, result[c] # "none" PROVE result'[c] = result[c]
  OBVIOUS
<1> USE RunChecks, SameRegistry, SyntheticChecks DEF IInv, TypeOK
<1>0. c \in Check /\ c # Infrastructure /\ c # ReportWrite
  BY DEF Check
<1>1. CASE RegistryInvalid
  BY <1>1, <1>0 DEF RegistryInvalid, Commit
<1>6. CASE Settle \/ Finish
  <2>1. \A d \in Check : d # specs[cursor] => result'[d] = result[d]
    <3>1. CASE Settle
      BY <3>1 DEF Settle, Commit
    <3>2. CASE Finish
      BY <3>2 DEF Finish, Commit
    <3> QED BY <1>6, <3>1, <3>2
  <2>2. phase \in {"next", "running"} /\ cursor \in 1..Len(specs)
    BY <1>6 DEF Settle, Finish, Looping, Placed
  <2>3. result[specs[cursor]] = "none"
    BY <2>2 DEF Advancement
  <2> QED BY <2>1, <2>3, <1>0
<1>2. CASE Interrupted
  BY <1>2, <1>0 DEF Interrupted, Closed, Unfinished
<1>3. CASE Faulted
  BY <1>3, <1>0 DEF Faulted, Closed, Unfinished
<1>4. CASE ReportPending \/ WriteFails
  BY <1>4, <1>0 DEF ReportPending, WriteFails
<1>5. CASE \/ Select \/ Plan \/ ReserveRow \/ ReserveState \/ Reserved \/ CollectEnvironment
           \/ Start \/ Publish \/ Progress \/ LoopEnds \/ DeadlinePasses \/ Interrupt \/ Fault
           \/ Freeze \/ WriteSucceeds \/ ReportShown \/ Emit \/ InterruptOutside \/ FaultOutside
           \/ UNCHANGED vars
  BY <1>5 DEF Select, Plan, ReserveRow, ReserveState, Reserved, CollectEnvironment, Start, Publish,
     Progress, LoopEnds, DeadlinePasses, Interrupt, Fault, Freeze, WriteSucceeds, ReportShown, Emit,
     InterruptOutside, FaultOutside, Raised, ledger, vars
<1> QED BY <1>1, <1>2, <1>3, <1>4, <1>5, <1>6 DEF Next, Step

LEMMA GroundStands ==
  ASSUME IInv, [Next]_vars, NEW c \in Selection, Ground(c)
  PROVE  Ground(c)'
<1>1. Prereq[c] \subseteq Selection
  BY ParameterAssumption
<1> QED BY <1>1, ResultsStand DEF Ground

(* Only Start lets a check run, and only with good prerequisites.           *)
LEMMA StartedOnGround ==
  ASSUME IInv, Start
  PROVE  specs[cursor] \in Selection /\ Ground(specs[cursor])
<1>1. cursor \in 1..Len(specs) /\ specs = selected
  BY RunChecks DEF Start, Looping, IInv, TypeOK, Placed, Guarded
<1>2. specs[cursor] \in Selection
  BY <1>1, SelectionIsSelected DEF IInv, TypeOK
<1>3. Prereq[specs[cursor]] \subseteq Check
  BY <1>2, ParameterAssumption DEF Check
<1>4. \A p \in Prereq[specs[cursor]] :
        /\ result[p] \in Terminal \cup {"none"}
        /\ result[p] \notin Failing \cup {"none", "SKIP"}
        /\ ~(result[p] = "WARN" /\ specs[cursor] \in SkipOnWarn)
  BY <1>3 DEF Start, Disposition, IInv, TypeOK
<1>5. Ground(specs[cursor])
  BY <1>4 DEF Ground, Terminal
<1> QED BY <1>2, <1>5

(* What a check may have become without running.                            *)
Idle == {"none", "SKIP", "BLOCKED"}

LEMMA GoodGroundKept ==
  ASSUME IInv, RanOnGoodGround, [Next]_vars
  PROVE  RanOnGoodGround'
<1> SUFFICES ASSUME NEW c \in Selection, ~Invalid,
                    state'[c] = "RUNNING" \/ result'[c] \notin Idle
             PROVE  Ground(c)'
  <2>1. selected' = selected
    BY DEF Next, Step, Select, Plan, ReserveRow, ReserveState, Reserved, CollectEnvironment,
       RegistryInvalid, Settle, Start, Finish, Publish, Progress, LoopEnds, DeadlinePasses,
       Interrupt, Fault, Interrupted, Faulted, Freeze, ReportPending, WriteSucceeds, WriteFails,
       ReportShown, Emit, InterruptOutside, FaultOutside, Raised, Commit, Goto, vars
  <2> QED BY <2>1, SameRegistry DEF RanOnGoodGround, Idle, Ground
<1>0. c \in Check /\ c # Infrastructure /\ c # ReportWrite /\ c # Registry
  BY SyntheticChecks DEF Check
<1>1. state[c] = "RUNNING" \/ result[c] \notin Idle => Ground(c)
  BY DEF RanOnGoodGround, Idle, Ground
<1>2. CASE state[c] = "RUNNING" \/ result[c] \notin Idle
  BY <1>1, <1>2, GroundStands
<1>3. CASE ~(state[c] = "RUNNING" \/ result[c] \notin Idle)
  <2> USE RunChecks DEF IInv, TypeOK
  <2>1. CASE Start
    <3>1. c = specs[cursor]
      BY <2>1, <1>3, <1>0 DEF Start
    <3> QED BY <3>1, <2>1, StartedOnGround, GroundStands
  <2>2. CASE Settle
    BY <2>2, <1>3, <1>0, OutcomesAreStatuses DEF Settle, Commit, Looping, Idle
  <2>3. CASE RegistryInvalid
    BY <2>3, <1>3, <1>0 DEF RegistryInvalid
  <2>4. CASE Finish
    BY <2>4, <1>3, <1>0 DEF Finish, Commit, Advancement
  <2>5. CASE Publish
    BY <2>5, <1>3, <1>0 DEF Publish, Idle, ledger
  <2>6. CASE Interrupted
    BY <2>6, <1>3, <1>0 DEF Interrupted, Closed, Unfinished, States, Idle
  <2>7. CASE Faulted
    BY <2>7, <1>3, <1>0 DEF Faulted, Closed, Unfinished, States, Idle
  <2>8. CASE ReportPending \/ WriteFails
    BY <2>8, <1>3, <1>0 DEF ReportPending, WriteFails, States, Idle
  <2>9. CASE ReserveState
    BY <2>9, <1>3, <1>0 DEF ReserveState, Placed
  <2>10. CASE \/ Select \/ Plan \/ ReserveRow \/ Reserved \/ CollectEnvironment
              \/ Progress \/ LoopEnds \/ DeadlinePasses \/ Interrupt \/ Fault
              \/ Freeze \/ WriteSucceeds \/ ReportShown \/ Emit \/ InterruptOutside \/ FaultOutside
              \/ UNCHANGED vars
    BY <2>10, <1>3 DEF Select, Plan, ReserveRow, Reserved, CollectEnvironment, Progress, LoopEnds,
       DeadlinePasses, Interrupt, Fault, Freeze, WriteSucceeds, ReportShown, Emit,
       InterruptOutside, FaultOutside, Raised, ledger, vars
  <2> QED BY <2>1, <2>2, <2>3, <2>4, <2>5, <2>6, <2>7, <2>8, <2>9, <2>10 DEF Next, Step
<1> QED BY <1>2, <1>3

(* No check runs, or has a result of its own, without the good result of    *)
(* each of its prerequisites.                                               *)
THEOREM GoodGround == Spec => []RanOnGoodGround
<1>1. Init => RanOnGoodGround
  BY DEF Init, RanOnGoodGround, Check
<1>2. IInv /\ RanOnGoodGround /\ [Next]_vars => RanOnGoodGround'
  BY GoodGroundKept
<1> QED BY <1>1, <1>2, Invariance, PTL DEF Spec

-----------------------------------------------------------------------------
(* The contract.                                                            *)

(* How a step changes the results of the chosen checks.                     *)
LEMMA VerdictsStand ==
  ASSUME IInv, [Next]_vars, Chosen' = Chosen, NEW c \in Chosen
  PROVE  result'[c] = result[c] \/ (result[c] = "none" /\ result'[c] \in Terminal)
<1> USE RunChecks, SameRegistry, SyntheticChecks DEF IInv, TypeOK
<1>0. c \in Check /\ c # Infrastructure /\ c # ReportWrite
  OBVIOUS
<1>1. IInv'
  BY NextKeeps
<1>2. result'[c] \in Terminal \cup {"none"}
  BY ONLY <1>0, <1>1 DEF IInv, TypeOK
<1>3. CASE result[c] = "none"
  BY <1>2, <1>3
<1>4. CASE result[c] # "none" /\ c \in Selection
  BY <1>4, ResultsStand
<1>5. CASE result[c] # "none" /\ c = Registry
  <2>1. CASE RegistryInvalid \/ Settle \/ Finish
    <3>1. specs = <<Registry>>
      BY <1>5, SelectionIsSelected DEF Chosen
    <3>2. phase \in {"next", "running"} /\ cursor \in 1..Len(specs)
      BY <2>1 DEF RegistryInvalid, Settle, Finish, Looping, Placed
    <3>3. result[specs[cursor]] = "none" /\ specs[cursor] = Registry
      BY <3>1, <3>2 DEF Advancement
    <3> QED BY <3>3, <1>5
  <2>2. CASE Interrupted
    BY <2>2, <1>0, <1>5 DEF Interrupted, Closed, Unfinished
  <2>3. CASE Faulted
    BY <2>3, <1>0, <1>5 DEF Faulted, Closed, Unfinished
  <2>4. CASE ReportPending \/ WriteFails
    BY <2>4, <1>0 DEF ReportPending, WriteFails
  <2>5. CASE \/ Select \/ Plan \/ ReserveRow \/ ReserveState \/ Reserved \/ CollectEnvironment
             \/ Start \/ Publish \/ Progress \/ LoopEnds \/ DeadlinePasses \/ Interrupt \/ Fault
             \/ Freeze \/ WriteSucceeds \/ ReportShown \/ Emit \/ InterruptOutside \/ FaultOutside
             \/ UNCHANGED vars
    BY <2>5 DEF Select, Plan, ReserveRow, ReserveState, Reserved, CollectEnvironment, Start, Publish,
       Progress, LoopEnds, DeadlinePasses, Interrupt, Fault, Freeze, WriteSucceeds, ReportShown, Emit,
       InterruptOutside, FaultOutside, Raised, ledger, vars
  <2> QED BY <2>1, <2>2, <2>3, <2>4, <2>5 DEF Next, Step
<1> QED BY <1>3, <1>4, <1>5 DEF Check, Synthetic

LEMMA InitContract == Init => Contract!Init
<1> SUFFICES ASSUME Init PROVE Contract!Init
  OBVIOUS
<1>1. Chosen = {} /\ phase # "done"
  BY DEF Init, Chosen
<1> QED BY <1>1 DEF Contract!Init, Verdict

LEMMA StepContract ==
  ASSUME IInv, [Next]_vars
  PROVE  [Contract!Next]_<<Verdict, phase = "done">>
<1> USE RunChecks, SameRegistry DEF IInv, TypeOK
<1>1. CASE Select \/ Plan
  <2>1. \A c \in Check : result[c] = "none" /\ result'[c] = "none"
    BY <1>1 DEF Select, Plan, Reservation, ledger
  <2>2. Chosen' \subseteq Check
    <3>1. TypeOK'
      BY NextKeeps
    <3>2. specs' \in {<<>>, selected, <<Registry>>}
      BY <3>1, <1>1 DEF Select, Plan, Goto
    <3>3. \A i \in 1..Len(specs') : specs'[i] \in Check
      <4>1. CASE specs' = <<>>
        BY <4>1
      <4>2. CASE specs' = selected
        BY <4>2, SelectionIsSelected DEF Check
      <4>3. CASE specs' = <<Registry>>
        BY <4>3, SyntheticChecks
      <4> QED BY <3>2, <4>1, <4>2, <4>3
    <3> QED BY <3>3 DEF Chosen
  <2>3. (phase = "done") = FALSE /\ (phase' = "done") = FALSE
    BY <1>1 DEF Select, Plan, Goto
  <2>4. Contract!Choose
    BY <2>1, <2>2, <2>3 DEF Contract!Choose, Contract!Chosen, Verdict
  <2> QED BY <2>4 DEF Contract!Next
<1>2. CASE Emit
  <2>1. Chosen' = Chosen /\ result' = result /\ phase = "emit" /\ phase' = "done"
    BY <1>2 DEF Emit, Chosen, Goto, ledger
  <2>2. \A c \in Chosen : result[c] # "none"
    BY <2>1 DEF Advancement, Final
  <2>3. Verdict' = Verdict
    BY <2>1 DEF Verdict
  <2>4. Contract!Publish
    BY <2>1, <2>2, <2>3 DEF Contract!Publish, Contract!Chosen, Verdict
  <2> QED BY <2>4 DEF Contract!Next
<1>3. CASE UNCHANGED vars
  <2>1. Chosen' = Chosen /\ result' = result /\ phase' = phase
    BY <1>3 DEF vars, ledger, Chosen
  <2> QED BY <2>1 DEF Verdict
<1>4. CASE Next /\ ~(Select \/ Plan \/ Emit)
  <2>1. specs' = specs
    BY <1>4 DEF Next, Step, Select, Plan, ReserveRow, ReserveState, Reserved, CollectEnvironment,
       RegistryInvalid, Settle, Start, Finish, Publish, Progress, LoopEnds, DeadlinePasses,
       Interrupt, Fault, Interrupted, Faulted, Freeze, ReportPending, WriteSucceeds, WriteFails,
       ReportShown, Emit, InterruptOutside, FaultOutside, Raised, Commit
  <2>2. phase # "done" /\ phase' # "done"
    BY <1>4 DEF Next, Step, Select, Plan, ReserveRow, ReserveState, Reserved, CollectEnvironment,
       RegistryInvalid, Settle, Start, Finish, Publish, Progress, LoopEnds, DeadlinePasses, Goto,
       Interrupt, Fault, Interrupted, Faulted, Freeze, ReportPending, WriteSucceeds, WriteFails,
       ReportShown, InterruptOutside, FaultOutside, Raised, Commit, Looping, Guarded, Unguarded
  <2>3. Chosen' = Chosen
    BY <2>1 DEF Chosen
  <2>4. \A c \in Chosen : result'[c] = result[c] \/ (result[c] = "none" /\ result'[c] \in Terminal)
    BY <2>3, VerdictsStand
  <2>5. Contract!Decide
    BY <2>2, <2>3, <2>4 DEF Contract!Decide, Contract!Chosen, Verdict
  <2> QED BY <2>5 DEF Contract!Next
<1> QED BY <1>1, <1>2, <1>3, <1>4

(* The supervisor implements its contract: a verdict is never changed and   *)
(* the results are published only when every chosen check has one.          *)
THEOREM ContractKept == Spec => KeepsContract
<1>1. Init => Contract!Init
  BY InitContract
<1>2. IInv /\ [Next]_vars => [Contract!Next]_<<Verdict, phase = "done">>
  BY StepContract
<1> QED BY <1>1, <1>2, Invariance, PTL DEF Spec, KeepsContract, Contract!Spec

-----------------------------------------------------------------------------
(* The outputs.                                                             *)

(* Why the run ends as it does.                                             *)
Forcing ==
  /\ phase \in Guarded => forced \in {0, 1}
  /\ phase = "interrupted" => forced = 130
  /\ phase = "faulted" => forced = 3
  /\ phase \in {"publish", "progress"} /\ Invalid => result[Registry] = "ERROR"
  /\ phase = "next" /\ Invalid /\ cursor > 1 => forced = 1
  /\ forced = 1 => result[Registry] = "ERROR"
  /\ phase \in Final /\ forced = 3 => result[Infrastructure] = "ERROR"
  /\ phase \in Final /\ forced = 0 => ~Invalid /\ specs = selected

(* Which checks can have a result.                                          *)
Origin ==
  \A c \in Check : result[c] # "none" =>
    \/ c \in Chosen
    \/ c = Infrastructure /\ phase \in Final \cup {"raised"} /\ forced = 3
    \/ c = ReportWrite /\ phase \in {"write", "shown", "emit", "done", "raised"}

(* What has been streamed.                                                  *)
Streamed ==
  /\ \A c \in Check : shown[c] \in {"none", result[c]}
  /\ phase \in {"write", "shown"} => shown[ReportWrite] = "none"
  /\ Streaming /\ phase \in LoopPhase =>
       \A i \in 1..Len(specs) : i < cursor => shown[specs[i]] # "none"
  /\ Streaming /\ phase \in Final /\ forced = 0 => \A c \in Chosen : shown[c] # "none"
  /\ Streaming /\ phase \in {"emit", "done"} /\ rows[ReportWrite] > 0 =>
       shown[ReportWrite] # "none"

Bad == {c \in Reported \cap Required :
          result[c] \in Failing \/ (FailOnWarn /\ result[c] = "WARN")}

(* What the report file and the exit code rest on.                          *)
Ended ==
  /\ phase \notin {"shown", "emit", "done", "raised"} => disk = {}
  /\ phase \in {"shown", "emit", "done"} => disk \subseteq {Snapshot}
  /\ phase \in {"report", "write", "shown", "emit", "done"} =>
       /\ forced # 0 => exit = forced
       /\ forced = 0 => exit \in {0, 1} /\ (exit = 0 <=> Bad = {})

Truth == Forcing /\ Origin /\ Streamed /\ Ended

LEMMA FixedRun ==
  ASSUME [Next]_vars
  PROVE  /\ selected' = selected /\ (Invalid' <=> Invalid)
         /\ Select \/ Plan \/ (specs' = specs /\ Chosen' = Chosen)
<1>1. selected' = selected
  BY DEF Next, Step, Select, Plan, ReserveRow, ReserveState, Reserved, CollectEnvironment,
     RegistryInvalid, Settle, Start, Finish, Publish, Progress, LoopEnds, DeadlinePasses,
     Interrupt, Fault, Interrupted, Faulted, Freeze, ReportPending, WriteSucceeds, WriteFails,
     ReportShown, Emit, InterruptOutside, FaultOutside, Raised, Commit, Goto, vars
<1>2. Select \/ Plan \/ specs' = specs
  BY DEF Next, Step, ReserveRow, ReserveState, Reserved, CollectEnvironment,
     RegistryInvalid, Settle, Start, Finish, Publish, Progress, LoopEnds, DeadlinePasses,
     Interrupt, Fault, Interrupted, Faulted, Freeze, ReportPending, WriteSucceeds, WriteFails,
     ReportShown, Emit, InterruptOutside, FaultOutside, Raised, Commit, vars
<1> QED BY <1>1, <1>2, SameRegistry DEF Chosen

(* A commit of the loop decides a chosen check that had no result.          *)
LEMMA CommitFacts ==
  ASSUME IInv, RegistryInvalid \/ Settle \/ Finish
  PROVE  /\ specs[cursor] \in Chosen /\ specs[cursor] \in Check
         /\ cursor \in 1..Len(specs)
         /\ result[specs[cursor]] = "none"
         /\ \A c \in Check : c # specs[cursor] => result'[c] = result[c]
         /\ phase \in {"next", "running"} /\ phase' = "publish"
         /\ UNCHANGED <<specs, cursor, rows, state, shown, late, forced, ending>>
         /\ Invalid => specs[cursor] = Registry /\ result'[Registry] = "ERROR"
         /\ ~Invalid => specs[cursor] \in Selection
<1> USE RunChecks, SyntheticChecks DEF IInv, TypeOK
<1>1. /\ phase \in {"next", "running"} /\ phase' = "publish"
      /\ UNCHANGED <<specs, cursor, rows, state, shown, late, forced, ending>>
      /\ cursor \in 1..Len(specs)
  BY DEF RegistryInvalid, Settle, Finish, Commit, Looping, Goto, Placed
<1>2. specs[cursor] \in Chosen /\ specs[cursor] \in Check
  BY <1>1
<1>3. result[specs[cursor]] = "none"
  BY <1>1 DEF Advancement
<1>4. specs = IF Invalid THEN <<Registry>> ELSE selected
  BY <1>1 DEF Placed, Guarded
<1>5. Invalid => specs[cursor] = Registry
  BY <1>1, <1>4
<1>6. ~Invalid => specs[cursor] \in Selection
  BY <1>1, <1>4, SelectionIsSelected
<1>7. Invalid => RegistryInvalid
  BY DEF Settle, Finish, Advancement
<1>8. \A c \in Check : c # specs[cursor] => result'[c] = result[c]
  <2>1. CASE RegistryInvalid
    BY <2>1, <1>5 DEF RegistryInvalid, Commit
  <2>2. CASE Settle
    BY <2>2 DEF Settle, Commit
  <2>3. CASE Finish
    BY <2>3 DEF Finish, Commit
  <2> QED BY <2>1, <2>2, <2>3
<1>9. Invalid => result'[Registry] = "ERROR"
  BY <1>7 DEF RegistryInvalid, Commit
<1> QED BY <1>1, <1>2, <1>3, <1>5, <1>6, <1>8, <1>9

(* Any result is final, but for the one of the report write.                *)
LEMMA Standing ==
  ASSUME IInv, Origin, [Next]_vars, NEW c \in Check, result[c] # "none"
  PROVE  result'[c] = result[c] \/ (c = ReportWrite /\ WriteFails)
<1> USE SyntheticChecks DEF IInv, TypeOK
<1>1. phase \notin {"select", "plan", "reserve", "reserving", "environment"}
  BY DEF Reservation
<1>2. CASE c \in Selection
  BY <1>2, ResultsStand
<1>3. CASE c = Registry
  <2>1. c \in Chosen
    BY <1>3 DEF Origin
  <2>2. Chosen' = Chosen
    BY <1>1, FixedRun DEF Select, Plan
  <2> QED BY <2>1, <2>2, VerdictsStand
<1>4. CASE c \in {Infrastructure, ReportWrite}
  <2>1. c \notin Chosen
    BY <1>4, RunChecks
  <2>2. phase \in Final \cup {"raised"}
    BY <2>1 DEF Origin, Final
  <2>3. phase = "report" => c # ReportWrite
    BY <2>1 DEF Origin
  <2>4. CASE ReportPending
    BY <1>4, <2>3, <2>4 DEF ReportPending
  <2>5. CASE WriteFails
    BY <1>4, <2>5 DEF WriteFails
  <2>6. CASE ~ReportPending /\ ~WriteFails
    BY <2>2, <2>6
    DEF Next, Step, Select, Plan, ReserveRow, ReserveState, Reserved, CollectEnvironment,
       RegistryInvalid, Settle, Start, Finish, Publish, Progress, LoopEnds, DeadlinePasses,
       Interrupt, Fault, Interrupted, Faulted, Freeze, WriteSucceeds, Looping, Guarded, Final,
       ReportShown, Emit, InterruptOutside, FaultOutside, Raised, ledger, vars
  <2> QED BY <2>4, <2>5, <2>6
<1> QED BY <1>2, <1>3, <1>4 DEF Check, Synthetic

LEMMA OriginKept ==
  ASSUME IInv, Origin, Forcing, [Next]_vars
  PROVE  Origin'
<1> USE SyntheticChecks, FixedRun DEF IInv, TypeOK
<1>1. CASE Select \/ Plan
  BY <1>1 DEF Select, Plan, Reservation, ledger, Origin
<1>2. CASE RegistryInvalid \/ Settle \/ Finish
  <2>1. Chosen' = Chosen
    BY <1>2 DEF RegistryInvalid, Settle, Finish, Commit, Chosen
  <2> QED BY <1>2, <2>1, CommitFacts DEF Origin, Final
<1>3. CASE Interrupted
  <2>1. \A c \in Check : result[c] # "none" => c \in Chosen
    BY <1>3 DEF Interrupted, Origin, Final
  <2>2. \A c \in Check : result'[c] # "none" => c \in Chosen
    BY <1>3, <2>1 DEF Interrupted, Closed, Unfinished
  <2>3. Chosen' = Chosen
    BY <1>3 DEF Interrupted, Chosen
  <2> QED BY <2>2, <2>3 DEF Origin
<1>4. CASE Faulted
  <2>1. \A c \in Check : result[c] # "none" => c \in Chosen
    BY <1>4 DEF Faulted, Origin, Final
  <2>2. \A c \in Check : result'[c] # "none" => c \in Chosen \/ c = Infrastructure
    BY <1>4, <2>1 DEF Faulted, Closed, Unfinished
  <2>3. Chosen' = Chosen /\ forced' = 3 /\ phase' = "freeze"
    BY <1>4 DEF Faulted, Chosen, Forcing, Goto
  <2> QED BY <2>2, <2>3 DEF Origin, Final
<1>5. CASE ReportPending
  <2>1. Chosen' = Chosen /\ phase = "report" /\ phase' = "write" /\ forced' = forced
        /\ result' = [result EXCEPT ![ReportWrite] = "PASS"]
    BY <1>5 DEF ReportPending, Goto, Chosen
  <2> QED BY <2>1 DEF Origin, Final
<1>6. CASE WriteFails
  <2>1. Chosen' = Chosen /\ phase = "write" /\ phase' = "shown" /\ forced' = forced
        /\ result' = [result EXCEPT ![ReportWrite] = "ERROR"]
    BY <1>6 DEF WriteFails, Goto, Chosen
  <2> QED BY <2>1 DEF Origin, Final
<1>7. CASE Freeze \/ WriteSucceeds \/ ReportShown \/ Emit \/ InterruptOutside \/ FaultOutside
  <2>1. Chosen' = Chosen /\ UNCHANGED <<forced, result>>
    BY <1>7 DEF Freeze, WriteSucceeds, ReportShown, Emit, InterruptOutside, FaultOutside, Raised,
      Chosen, ledger
  <2> QED BY <1>7, <2>1 DEF Freeze, WriteSucceeds, ReportShown, Emit, InterruptOutside,
       FaultOutside, Raised, Unguarded, Goto, Origin, Final
<1>8. CASE \/ ReserveRow \/ ReserveState \/ Reserved \/ CollectEnvironment
           \/ Start \/ Publish \/ Progress \/ LoopEnds \/ DeadlinePasses \/ Interrupt \/ Fault
  <2>1. Chosen' = Chosen /\ UNCHANGED result
    BY <1>8 DEF ReserveRow, ReserveState, Reserved, CollectEnvironment, Start, Publish, Progress,
      LoopEnds, DeadlinePasses, Interrupt, Fault, Chosen, ledger
  <2>2. phase \in Guarded
    BY <1>8 DEF ReserveRow, ReserveState, Reserved, CollectEnvironment, Start, Publish, Progress,
      LoopEnds, DeadlinePasses, Interrupt, Fault, Looping, Guarded
  <2>3. \A c \in Check : result[c] # "none" => c \in Chosen
    BY <2>2 DEF Origin, Final, Guarded
  <2> QED BY <2>1, <2>3 DEF Origin
<1>9. CASE UNCHANGED vars
  BY <1>9 DEF vars, ledger, Origin, Chosen
<1> QED BY <1>1, <1>2, <1>3, <1>4, <1>5, <1>6, <1>7, <1>8, <1>9 DEF Next, Step

LEMMA ForcingKept ==
  ASSUME IInv, Origin, Forcing, [Next]_vars
  PROVE  Forcing'
<1> USE SyntheticChecks, FixedRun DEF IInv, TypeOK
<1>0. result[Registry] = "ERROR" => result'[Registry] = "ERROR"
  BY Standing
<1>1. CASE Select \/ Plan \/ ReserveRow \/ ReserveState \/ Reserved \/ CollectEnvironment
  BY <1>1, <1>0 DEF Select, Plan, ReserveRow, ReserveState, Reserved, CollectEnvironment, Goto,
    Forcing, Guarded, Final, Placed
<1>2. CASE RegistryInvalid \/ Settle \/ Finish
  BY <1>2, <1>0, CommitFacts DEF Forcing, Guarded, Final
<1>3. CASE Start \/ Publish \/ DeadlinePasses
  BY <1>3, <1>0 DEF Start, Publish, DeadlinePasses, Looping, Goto, Forcing, Guarded, Final
<1>4. CASE Progress
  BY <1>4, <1>0 DEF Progress, Goto, Forcing, Guarded, Final
<1>5. CASE LoopEnds
  <2>1. specs = IF Invalid THEN <<Registry>> ELSE selected
    BY <1>5 DEF LoopEnds, Placed, Guarded
  <2>2. Invalid => cursor > 1
    BY <1>5, <2>1 DEF LoopEnds
  <2> QED BY <1>5, <1>0, <2>1, <2>2 DEF LoopEnds, Goto, Forcing, Guarded, Final
<1>6. CASE Interrupt \/ Fault
  BY <1>6, <1>0 DEF Interrupt, Fault, Goto, Forcing, Guarded, Final
<1>7. CASE Interrupted
  BY <1>7 DEF Interrupted, Goto, Forcing, Guarded, Final
<1>8. CASE Faulted
  <2>1. result'[Infrastructure] = "ERROR"
    BY <1>8 DEF Faulted, Closed
  <2> QED BY <1>8, <2>1 DEF Faulted, Goto, Forcing, Guarded, Final
<1>9. CASE Freeze \/ ReportPending \/ WriteSucceeds \/ WriteFails \/ ReportShown \/ Emit
  <2>1. result'[Infrastructure] = result[Infrastructure]
    BY <1>9 DEF Freeze, ReportPending, WriteSucceeds, WriteFails, ReportShown, Emit, ledger
  <2>2. phase \in Final /\ phase' \in Final /\ forced' = forced /\ specs' = specs
    BY <1>9 DEF Freeze, ReportPending, WriteSucceeds, WriteFails, ReportShown, Emit, Goto, Final
  <2> QED BY <2>1, <2>2, <1>0 DEF Forcing, Guarded, Final
<1>10. CASE InterruptOutside \/ FaultOutside
  BY <1>10, <1>0 DEF InterruptOutside, FaultOutside, Raised, Goto, Forcing, Guarded, Final
<1>11. CASE UNCHANGED vars
  BY <1>11 DEF vars, ledger, Forcing
<1> QED BY <1>1, <1>2, <1>3, <1>4, <1>5, <1>6, <1>7, <1>8, <1>9, <1>10, <1>11 DEF Next, Step

(* Steps that show nothing.                                                 *)
LEMMA ShownStands ==
  ASSUME IInv, Origin, Streamed, [Next]_vars, shown' = shown
  PROVE  \A c \in Check : shown'[c] \in {"none", result'[c]}
<1> SUFFICES ASSUME NEW c \in Check, shown[c] # "none" PROVE shown[c] = result'[c]
  OBVIOUS
<1>1. shown[c] = result[c] /\ result[c] # "none"
  BY DEF Streamed
<1>2. CASE WriteFails /\ c = ReportWrite
  BY <1>2 DEF WriteFails, Streamed
<1>3. CASE ~(WriteFails /\ c = ReportWrite)
  BY <1>1, <1>3, Standing
<1> QED BY <1>2, <1>3

LEMMA StreamedKept ==
  ASSUME IInv, Origin, Forcing, Streamed, [Next]_vars
  PROVE  Streamed'
<1> USE SyntheticChecks DEF IInv, TypeOK
<1>1. CASE Select \/ Plan \/ ReserveRow \/ ReserveState \/ Reserved \/ CollectEnvironment
  <2>1. shown' = shown /\ phase' \notin Final
    BY <1>1 DEF Select, Plan, ReserveRow, ReserveState, Reserved, CollectEnvironment, Goto, Final
  <2>2. phase' \in LoopPhase => cursor' = 1
    BY <1>1 DEF Select, Plan, ReserveRow, ReserveState, Reserved, CollectEnvironment, Goto,
      LoopPhase, Placed
  <2> QED BY <2>1, <2>2, ShownStands DEF Streamed, Final
<1>2. CASE RegistryInvalid \/ Settle \/ Finish
  BY <1>2, CommitFacts, ShownStands DEF Streamed, Final, LoopPhase
<1>3. CASE Start \/ Publish \/ DeadlinePasses
  <2>1. /\ shown' = shown /\ UNCHANGED <<specs, cursor>>
        /\ phase \in LoopPhase /\ phase' \in LoopPhase
    BY <1>3 DEF Start, Publish, DeadlinePasses, Looping, Goto, LoopPhase
  <2> QED BY <2>1, ShownStands DEF Streamed, Final, LoopPhase
<1>4. CASE Progress
  <2>1. /\ phase = "progress" /\ phase' = "next" /\ cursor' = cursor + 1
        /\ UNCHANGED <<specs, result>>
        /\ specs[cursor] \in Check /\ cursor \in 1..Len(specs)
        /\ shown' = IF Streaming THEN [shown EXCEPT ![specs[cursor]] = result[specs[cursor]]]
                    ELSE shown
    BY <1>4, RunChecks DEF Progress, Goto, Shown, Placed, ledger
  <2>2. result[specs[cursor]] # "none"
    BY <2>1 DEF Advancement
  <2>3. \A c \in Check : shown'[c] \in {"none", result'[c]}
    BY <2>1 DEF Streamed
  <2>4. Streaming => \A i \in 1..Len(specs) : i < cursor + 1 => shown'[specs[i]] # "none"
    <3> SUFFICES ASSUME Streaming, NEW i \in 1..Len(specs), i < cursor + 1
                 PROVE  shown'[specs[i]] # "none"
      OBVIOUS
    <3>1. i = cursor \/ i < cursor
      BY <2>1
    <3>2. specs[i] \in Check
      BY RunChecks
    <3>3. i < cursor => shown[specs[i]] # "none"
      BY <2>1 DEF Streamed, LoopPhase
    <3> QED BY <2>1, <2>2, <3>1, <3>2, <3>3
  <2> QED BY <2>1, <2>3, <2>4 DEF Streamed, Final
<1>5. CASE LoopEnds
  <2>1. /\ phase = "next" /\ phase' = "freeze" /\ cursor > Len(specs)
        /\ UNCHANGED <<specs, cursor, shown>>
    BY <1>5 DEF LoopEnds, Goto
  <2>2. Streaming => \A i \in 1..Len(specs) : shown[specs[i]] # "none"
    BY <2>1 DEF Streamed, LoopPhase
  <2>3. Streaming => \A c \in Chosen' : shown'[c] # "none"
    BY <2>1, <2>2 DEF Chosen
  <2> QED BY <2>1, <2>3, ShownStands DEF Streamed, LoopPhase
<1>6. CASE Interrupt \/ Fault
  BY <1>6, ShownStands DEF Interrupt, Fault, Goto, Streamed, Final, LoopPhase
<1>7. CASE Interrupted
  BY <1>7, ShownStands DEF Interrupted, Goto, Streamed, Final, LoopPhase, Forcing
<1>8. CASE Faulted
  <2>1. /\ phase = "faulted" /\ phase' = "freeze" /\ forced' = 3
        /\ result'[Infrastructure] = "ERROR"
        /\ shown' = IF Streaming THEN [shown EXCEPT ![Infrastructure] = "ERROR"] ELSE shown
    BY <1>8 DEF Faulted, Goto, Shown, Forcing, Closed
  <2>2. ASSUME NEW c \in Check PROVE shown'[c] \in {"none", result'[c]}
    <3>1. CASE shown'[c] = shown[c] /\ shown[c] # "none"
      <4>1. result[c] # "none" /\ shown[c] = result[c]
        BY <3>1 DEF Streamed
      <4>2. ~WriteFails
        BY <2>1 DEF WriteFails
      <4> QED BY <3>1, <4>1, <4>2, Standing
    <3> QED BY <2>1, <3>1
  <2> QED BY <2>1, <2>2 DEF Streamed, LoopPhase
<1>9. CASE Freeze
  <2>1. /\ phase = "freeze" /\ phase' \in {"report", "emit"} /\ UNCHANGED <<specs, rows, shown, forced>>
        /\ Chosen' = Chosen
    BY <1>9 DEF Freeze, Goto, ledger, Chosen
  <2>2. rows[ReportWrite] = 0
    <3>1. ReportWrite \notin Chosen /\ result[ReportWrite] = "none"
      BY <2>1, RunChecks DEF Origin
    <3>2. ~(rows[ReportWrite] > 0)
      BY <3>1 DEF Consistent
    <3> QED BY <3>2
  <2> QED BY <2>1, <2>2, ShownStands DEF Streamed, Final, LoopPhase
<1>10. CASE ReportPending
  <2>1. phase = "report" /\ phase' = "write" /\ UNCHANGED <<specs, shown, forced>> /\ Chosen' = Chosen
    BY <1>10 DEF ReportPending, Goto, Chosen
  <2>2. shown[ReportWrite] = "none"
    <3>1. result[ReportWrite] = "none"
      BY <2>1, RunChecks DEF Origin
    <3> QED BY <3>1 DEF Streamed
  <2> QED BY <2>1, <2>2, ShownStands DEF Streamed, Final, LoopPhase
<1>11. CASE WriteSucceeds \/ WriteFails
  <2>1. phase = "write" /\ phase' = "shown" /\ UNCHANGED <<specs, shown, forced>> /\ Chosen' = Chosen
    BY <1>11 DEF WriteSucceeds, WriteFails, Goto, Chosen
  <2> QED BY <2>1, ShownStands DEF Streamed, Final, LoopPhase
<1>12. CASE ReportShown
  <2>1. /\ phase = "shown" /\ phase' = "emit" /\ UNCHANGED <<specs, rows, result, forced>>
        /\ Chosen' = Chosen
        /\ shown' = IF Streaming THEN [shown EXCEPT ![ReportWrite] = result[ReportWrite]] ELSE shown
    BY <1>12 DEF ReportShown, Goto, Shown, Chosen, ledger
  <2>2. rows[ReportWrite] > 0 => result[ReportWrite] # "none"
    BY RunChecks DEF Consistent
  <2>3. Chosen \subseteq Check /\ ReportWrite \notin Chosen
    BY RunChecks
  <2> QED BY <2>1, <2>2, <2>3 DEF Streamed, Final, LoopPhase
<1>13. CASE Emit
  <2>1. phase = "emit" /\ phase' = "done" /\ UNCHANGED <<specs, rows, shown, forced>> /\ Chosen' = Chosen
    BY <1>13 DEF Emit, Goto, Chosen, ledger
  <2> QED BY <2>1, ShownStands DEF Streamed, Final, LoopPhase
<1>14. CASE InterruptOutside \/ FaultOutside
  BY <1>14, ShownStands DEF InterruptOutside, FaultOutside, Raised, Goto, Streamed, Final, LoopPhase
<1>15. CASE UNCHANGED vars
  BY <1>15 DEF vars, ledger, Streamed, Chosen
<1> QED BY <1>1, <1>2, <1>3, <1>4, <1>5, <1>6, <1>7, <1>8, <1>9, <1>10, <1>11, <1>12, <1>13, <1>14,
  <1>15 DEF Next, Step

LEMMA SameBad ==
  ASSUME UNCHANGED <<rows, result>>
  PROVE  Bad' = Bad
BY DEF Bad, Reported

LEMMA EndedKept ==
  ASSUME IInv, Origin, Forcing, Ended, [Next]_vars
  PROVE  Ended'
<1> USE SyntheticChecks DEF IInv, TypeOK
<1> DEFINE Before == {"shown", "emit", "done", "raised", "report", "write"}
<1>1. CASE \/ Select \/ Plan \/ ReserveRow \/ ReserveState \/ Reserved \/ CollectEnvironment
           \/ RegistryInvalid \/ Settle \/ Finish \/ Start \/ Publish \/ Progress \/ LoopEnds
           \/ DeadlinePasses \/ Interrupt \/ Fault \/ Interrupted \/ Faulted
  <2>1. phase \notin Before /\ phase' \notin Before /\ disk' = disk
    BY <1>1 DEF Select, Plan, ReserveRow, ReserveState, Reserved, CollectEnvironment,
      RegistryInvalid, Settle, Finish, Commit, Start, Publish, Progress, LoopEnds, DeadlinePasses,
      Interrupt, Fault, Interrupted, Faulted, Looping, Guarded, Goto, ending
  <2> QED BY <2>1 DEF Ended
<1>2. CASE Freeze
  <2>1. /\ phase = "freeze" /\ phase' \in {"report", "emit"} /\ UNCHANGED <<rows, result, forced, disk>>
        /\ exit' = IF forced # 0 THEN forced ELSE ExitCode
    BY <1>2 DEF Freeze, Goto, ledger
  <2>2. disk' = {}
    BY <2>1 DEF Ended
  <2>3. Bad' = Bad
    BY <2>1, SameBad
  <2>4. ExitCode \in {0, 1} /\ (ExitCode = 0 <=> Bad = {})
    BY DEF ExitCode, Bad
  <2> QED BY <2>1, <2>2, <2>3, <2>4 DEF Ended
<1>3. CASE ReportPending
  <2>1. /\ phase = "report" /\ phase' = "write" /\ UNCHANGED <<forced, exit, disk>>
        /\ result' = [result EXCEPT ![ReportWrite] = "PASS"]
        /\ \A c \in Check : c # ReportWrite => rows'[c] = rows[c]
    BY <1>3 DEF ReportPending, Goto, ending, RowsWith
  <2>2. ReportWrite \notin Reported
    <3>1. ReportWrite \notin Chosen /\ result[ReportWrite] = "none"
      BY <2>1, RunChecks DEF Origin
    <3> QED BY <3>1 DEF Consistent, Reported
  <2>3. "PASS" \notin Failing /\ "PASS" # "WARN"
    BY DEF Failing
  <2>4. Bad' = Bad
    BY <2>1, <2>2, <2>3 DEF Bad, Reported
  <2> QED BY <2>1, <2>4 DEF Ended
<1>4. CASE WriteSucceeds
  <2>1. /\ phase = "write" /\ phase' = "shown" /\ UNCHANGED <<rows, result, forced, exit>>
        /\ disk' = {Snapshot}
    BY <1>4 DEF WriteSucceeds, Goto, ledger
  <2>2. Snapshot' = Snapshot /\ Bad' = Bad
    BY <2>1, SameBad DEF Snapshot
  <2> QED BY <2>1, <2>2 DEF Ended
<1>5. CASE WriteFails
  <2>1. /\ phase = "write" /\ phase' = "shown" /\ UNCHANGED <<rows, forced, disk>>
        /\ result'[ReportWrite] = "ERROR"
        /\ exit' = IF forced = 0 THEN 1 ELSE forced
    BY <1>5 DEF WriteFails, Goto
  <2>2. disk' = {}
    BY <2>1 DEF Ended
  <2>3. ReportWrite \in Bad'
    BY <2>1, ParameterAssumption DEF Bad, Reported, Reservation, Failing, Synthetic
  <2> QED BY <2>1, <2>2, <2>3 DEF Ended
<1>6. CASE ReportShown \/ Emit
  <2>1. /\ phase \in {"shown", "emit"} /\ phase' \in {"emit", "done"}
        /\ UNCHANGED <<rows, result, forced, exit, disk>>
    BY <1>6 DEF ReportShown, Emit, Goto, ledger, ending
  <2>2. Snapshot' = Snapshot /\ Bad' = Bad
    BY <2>1, SameBad DEF Snapshot
  <2> QED BY <2>1, <2>2 DEF Ended
<1>7. CASE InterruptOutside \/ FaultOutside
  BY <1>7 DEF InterruptOutside, FaultOutside, Raised, Goto, Ended
<1>8. CASE UNCHANGED vars
  <2>1. Snapshot' = Snapshot /\ Bad' = Bad
    BY <1>8, SameBad DEF vars, ledger, ending, Snapshot
  <2> QED BY <1>8, <2>1 DEF vars, ending, Ended
<1> QED BY <1>1, <1>2, <1>3, <1>4, <1>5, <1>6, <1>7, <1>8 DEF Next, Step

LEMMA InitTruth == Init => Truth
BY DEF Init, Truth, Forcing, Origin, Streamed, Ended, Guarded, Final, LoopPhase, Check

LEMMA TruthAgrees == IInv /\ Truth => OutputsAgree
<1> SUFFICES ASSUME IInv, Truth PROVE OutputsAgree
  OBVIOUS
<1> USE SyntheticChecks DEF IInv, TypeOK, Truth
<1>1. CASE phase \in {"emit", "done"}
  <2>1. Complete /\ Chosen \subseteq Reported
    BY <1>1, EveryResultHolds DEF EveryCheckReported, Final
  <2>2. /\ forced # 0 => exit = forced
        /\ forced = 0 => exit \in {0, 1} /\ (exit = 0 <=> Bad = {})
    BY <1>1 DEF Ended
  <2>3. exit = 0 => Bad = {} /\ \A i \in DOMAIN selected : selected[i] \in Reported
    <3> SUFFICES ASSUME exit = 0 PROVE \A i \in DOMAIN selected : selected[i] \in Reported
      BY <2>2
    <3>1. specs = selected
      BY <1>1, <2>2 DEF Forcing, Final
    <3>2. DOMAIN selected = 1..Len(selected)
      BY SelectionIsSelected
    <3> QED BY <2>1, <3>1, <3>2 DEF Chosen
  <2>4. exit = 1 => Bad # {}
    <3>1. CASE forced = 0
      BY <2>2, <3>1
    <3>2. CASE forced = 1
      <4>1. result[Registry] = "ERROR" /\ Registry \in Required
        BY <3>2, ParameterAssumption DEF Forcing, Synthetic
      <4>2. Registry \in Reported
        BY <4>1 DEF Consistent, Reported
      <4> QED BY <4>1, <4>2 DEF Bad, Failing
    <3> QED BY <2>2, <3>1, <3>2
  <2>5. exit = 3 => result[Infrastructure] = "ERROR"
    BY <1>1, <2>2 DEF Forcing, Final
  <2>6. exit = 130 => forced = 130
    BY <2>2
  <2>7. ExitCodeTellsTheTruth
    BY <2>3, <2>4, <2>5, <2>6 DEF ExitCodeTellsTheTruth, Bad
  <2>8. FileAgrees
    BY <1>1 DEF FileAgrees, Ended
  <2>9. phase = "done" /\ Streaming /\ forced = 0 => \A c \in Reported : shown[c] # "none"
    <3> SUFFICES ASSUME phase = "done", Streaming, forced = 0, NEW c \in Reported
                 PROVE  shown[c] # "none"
      OBVIOUS
    <3>1. c \in Check /\ rows[c] > 0 /\ result[c] # "none"
      BY <2>1 DEF Reported, Complete
    <3>2. c \in Chosen \/ c = ReportWrite
      BY <3>1 DEF Origin
    <3> QED BY <3>1, <3>2 DEF Streamed, Final
  <2>10. StreamAgrees
    BY <2>9 DEF StreamAgrees, Streamed
  <2> QED BY <2>7, <2>8, <2>10 DEF OutputsAgree
<1>2. CASE phase \notin {"emit", "done"}
  BY <1>2 DEF OutputsAgree, ExitCodeTellsTheTruth, FileAgrees, StreamAgrees
<1> QED BY <1>1, <1>2

LEMMA TruthInvariance == Spec => []Truth
<1>1. IInv /\ Truth /\ [Next]_vars => Truth'
  BY OriginKept, ForcingKept, StreamedKept, EndedKept DEF Truth
<1> QED BY <1>1, InitTruth, Invariance, PTL DEF Spec

(* The exit code, the report file and the stream say what the final output  *)
(* says, whatever ended the run and whether or not the report was written.  *)
THEOREM OneTruth == Spec => []OutputsAgree
BY TruthAgrees, TruthInvariance, Invariance, PTL

-----------------------------------------------------------------------------
(* Failures stay isolated.                                                  *)

LEMMA BlockedKept ==
  ASSUME IInv, Origin, Forcing, Forcing', BlockedForAReason, [Next]_vars
  PROVE  BlockedForAReason'
<1> USE SyntheticChecks DEF IInv, TypeOK
<1> DEFINE Reason(c) == \/ late \/ forced \in {3, 130}
                        \/ \E p \in Prereq[c] : result[p] \in Failing \/ ~Precedes(p, c)
<1> SUFFICES ASSUME NEW c \in Selection, result'[c] = "BLOCKED" PROVE Reason(c)'
  BY DEF BlockedForAReason
<1>0. c \in Check /\ c # Registry /\ c # Infrastructure /\ c # ReportWrite
  BY DEF Check
<1>1. Prereq[c] \subseteq Selection
  BY ParameterAssumption
<1>2. \A p : Precedes(p, c)' <=> Precedes(p, c)
  BY FixedRun DEF Precedes
<1>3. \A p \in Prereq[c] : result[p] \in Failing => result'[p] \in Failing
  <2>1. "none" \notin Failing
    BY DEF Failing
  <2> QED BY <1>1, <2>1, ResultsStand
<1>4. late => late'
  BY DEF Next, Step, Select, Plan, ReserveRow, ReserveState, Reserved, CollectEnvironment,
     RegistryInvalid, Settle, Start, Finish, Publish, Progress, LoopEnds, DeadlinePasses,
     Interrupt, Fault, Interrupted, Faulted, Freeze, ReportPending, WriteSucceeds, WriteFails,
     ReportShown, Emit, InterruptOutside, FaultOutside, Raised, Commit, vars
<1>5. forced \in {3, 130} => forced' \in {3, 130}
  <2>1. forced \in {3, 130} => phase \notin Guarded
    BY DEF Forcing
  <2> QED BY <2>1
     DEF Next, Step, Select, Plan, ReserveRow, ReserveState, Reserved, CollectEnvironment,
     RegistryInvalid, Settle, Start, Finish, Publish, Progress, LoopEnds, DeadlinePasses,
     Interrupt, Fault, Interrupted, Faulted, Freeze, ReportPending, WriteSucceeds, WriteFails,
     ReportShown, Emit, InterruptOutside, FaultOutside, Raised, Commit, vars, Guarded, Looping
<1>6. Reason(c) => Reason(c)'
  BY <1>2, <1>3, <1>4, <1>5
<1>7. CASE result[c] = "BLOCKED"
  BY <1>6, <1>7 DEF BlockedForAReason
<1>8. CASE result[c] # "BLOCKED"
  <2>0. result'[c] # result[c]
    BY <1>8
  <2>1. CASE Settle
    <3>1. c = specs[cursor] /\ Disposition(c) = "BLOCKED" /\ phase = "next" /\ cursor \in 1..Len(specs)
      BY <1>0, <1>8, <2>1, CommitFacts DEF Settle, Commit, Looping
    <3>2. specs = selected /\ ~Invalid
      BY <2>1, <3>1 DEF Settle, Placed, Guarded
    <3>3. ASSUME NEW p \in Prereq[c], result[p] = "none" PROVE ~Precedes(p, c)
      <4> SUFFICES ASSUME NEW i \in 1..Len(selected), NEW j \in 1..Len(selected),
                          i < j, selected[i] = p, selected[j] = c
                   PROVE  FALSE
        BY DEF Precedes
      <4>1. j = cursor
        BY <3>1, <3>2, Distinct
      <4> QED BY <3>1, <3>2, <3>3, <4>1 DEF Advancement
    <3>4. (\E p \in Prereq[c] : result[p] \in Failing \cup {"none"}) \/ late
      BY <3>1 DEF Disposition
    <3> QED BY <1>6, <3>3, <3>4
  <2>2. CASE RegistryInvalid
    BY <1>0, <2>0, <2>2 DEF RegistryInvalid, Commit
  <2>3. CASE Finish
    <3>1. \A o \in Outcome(specs[cursor]) : Normalized(specs[cursor], o) # "BLOCKED"
      BY DEF Outcome, Normalized
    <3>2. PICK o \in Outcome(specs[cursor]) :
            result' = [result EXCEPT ![specs[cursor]] = Normalized(specs[cursor], o)]
      BY <2>3 DEF Finish, Commit
    <3> QED BY <1>0, <1>8, <3>1, <3>2
  <2>4. CASE Interrupted \/ Faulted
    <3>1. forced' \in {3, 130}
      BY <2>4 DEF Interrupted, Faulted, Forcing
    <3> QED BY <3>1
  <2>5. CASE ReportPending \/ WriteFails
    BY <1>0, <2>0, <2>5 DEF ReportPending, WriteFails
  <2>6. CASE \/ Select \/ Plan \/ ReserveRow \/ ReserveState \/ Reserved \/ CollectEnvironment
             \/ Start \/ Publish \/ Progress \/ LoopEnds \/ DeadlinePasses \/ Interrupt \/ Fault
             \/ Freeze \/ WriteSucceeds \/ ReportShown \/ Emit \/ InterruptOutside \/ FaultOutside
             \/ UNCHANGED vars
    BY <2>0, <2>6 DEF Select, Plan, ReserveRow, ReserveState, Reserved, CollectEnvironment, Start,
      Publish, Progress, LoopEnds, DeadlinePasses, Interrupt, Fault, Freeze, WriteSucceeds,
      ReportShown, Emit, InterruptOutside, FaultOutside, Raised, ledger, vars
  <2> QED BY <2>1, <2>2, <2>3, <2>4, <2>5, <2>6 DEF Next, Step
<1> QED BY <1>7, <1>8

(* A check is BLOCKED only when the run ended early, or a prerequisite of   *)
(* its own failed or does not come before it.                               *)
THEOREM OnlyBlockedForAReason == Spec => []BlockedForAReason
<1>1. Init => BlockedForAReason
  BY DEF Init, BlockedForAReason, Check
<1>2. IInv /\ Truth /\ Truth' /\ BlockedForAReason /\ [Next]_vars => BlockedForAReason'
  BY BlockedKept DEF Truth
<1> QED BY <1>1, <1>2, TruthInvariance, Invariance, PTL DEF Spec
================================================================================
