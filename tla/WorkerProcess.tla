----------------------------- MODULE WorkerProcess -----------------------------
(***************************************************************************)
(* One call of run_check_process: the transport is acquired, a worker is   *)
(* spawned, contained, let go and listened to until it ends or its         *)
(* deadline passes; its tree is terminated, its answer read and everything *)
(* released.  The worker, whatever it forks and the operating system move  *)
(* on their own.  A Ctrl+C unwinds the context managers.                   *)
(***************************************************************************)
EXTENDS Naturals, FiniteSets

CONSTANTS Leader,         \* the worker
          Descendant,     \* processes it may fork
          Platforms,      \* values of os.name
          InterruptAt     \* phases in which Ctrl+C may arrive

ASSUME ParameterAssumption ==
  /\ Leader \notin Descendant
  /\ Platforms \subseteq {"posix", "nt"}

Process == {Leader} \cup Descendant

(* _terminate, by what it does next.                                        *)
Terminating == {"sigterm", "grace", "sigkill", "group", "reap",
                "job", "leader", "settle", "kill", "reaped"}

Closing == {"close", "cleanup", "returned", "raised"}

Phase == {"dir", "file", "spools", "spawn", "attach", "talk", "drain", "capture",
          "result", "leave"} \cup Terminating \cup Closing

(* How much there is of the worker's result frame: nothing, less than its   *)
(* prefix, by which it is told from other output, some of it, or all.       *)
Empty == 0
Scrap == 1
Torn == 2
Whole == 3

Ending == {"returned", "raised"}

VARIABLES
  platform,
  phase,       \* where the parent is
  \* what the parent holds
  dir,         \* the session directory exists
  mode,        \* result_mode
  spools,      \* the output spools are open
  seen,        \* how much of the frame was found in the stdout spool
  misread,     \* a read of the transport has failed
  job,         \* the tree's job object is attached
  terminated,  \* _WorkerTree._terminated
  why,         \* what the running or last terminate() is for
  unwinding,   \* a KeyboardInterrupt is being propagated
  verdict,     \* the result being returned
  complaints,  \* what clean-up has reported
  \* the worker's tree
  leader,      \* none, gate: waits for the GO frame, working, ended, reaped
  code,        \* how it ended
  live,        \* the descendants that are alive
  go,          \* the GO frame has been sent
  answer,      \* how much of its result frame is in the transport
  warned,      \* processes sent SIGTERM
  doomed       \* processes sent SIGKILL, or terminated by Windows

read == <<seen, misread>>
held == <<dir, mode, spools, read>>
owned == <<job, terminated, why>>
said == <<verdict, complaints>>
worker == <<leader, code, live, answer>>
signals == <<warned, doomed>>
vars == <<platform, phase, held, owned, unwinding, said, worker, go, signals>>

Verdict == {"none", "capture_unavailable", "spawn_failed", "isolation_unavailable",
            "worker_communication", "own", "TIMEOUT", "CRASH", "ERROR"}

Init ==
  /\ platform \in Platforms
  /\ phase = "dir"
  /\ dir = FALSE /\ mode = "stdout" /\ spools = FALSE
  /\ seen = Empty /\ misread = FALSE
  /\ job = FALSE /\ terminated = FALSE /\ why = "none"
  /\ unwinding = FALSE
  /\ verdict = "none" /\ complaints = {}
  /\ leader = "none" /\ code = "none" /\ live = {} /\ answer = Empty
  /\ go = FALSE
  /\ warned = {} /\ doomed = {}

Ended == leader \in {"ended", "reaped"}

Alive == live \cup (IF leader \in {"gate", "working"} THEN {Leader} ELSE {})

(* The process group exists as long as it has a member, and a leader nobody *)
(* has waited for is one.                                                   *)
GroupExists == live # {} \/ leader \in {"gate", "working", "ended"}

Goto(p) == phase' = p /\ UNCHANGED platform

-------------------------------------------------------------------------------
(* The worker and its descendants.                                          *)

World == UNCHANGED <<platform, phase, held, owned, unwinding, said, go, signals>>

(* _read_start_gate: no check runs before the GO frame.                     *)
PassesGate ==
  /\ leader = "gate" /\ go /\ Leader \notin doomed
  /\ leader' = "working"
  /\ UNCHANGED <<code, live, answer>>
  /\ World

(* The worker or a descendant forks.                                        *)
Forks ==
  /\ \E p \in Alive \ doomed : p = Leader => leader = "working"
  /\ \E d \in Descendant \ (live \cup doomed) : live' = live \cup {d}
  /\ UNCHANGED <<leader, code, answer>>
  /\ World

(* _append_frame_to_file or _write_stream_all, a piece at a time.           *)
Writes ==
  /\ leader = "working" /\ Leader \notin doomed
  /\ answer' \in (answer + 1)..Whole
  /\ UNCHANGED <<leader, code, live>>
  /\ World

(* The worker ends by itself: 0, 3 for a transport it cannot use, anything  *)
(* else for a crash; before the gate only by failing to start.              *)
Exits ==
  /\ leader \in {"gate", "working"} /\ Leader \notin doomed
  /\ code' \in (IF leader = "gate" THEN {"failed"} ELSE {"zero", "three", "failed"})
  /\ leader' = "ended"
  /\ UNCHANGED <<live, answer>>
  /\ World

(* A signal or TerminateProcess takes effect; it may take its time.         *)
IsKilled ==
  /\ leader \in {"gate", "working"} /\ Leader \in warned \cup doomed
  /\ leader' = "ended" /\ code' = "signal"
  /\ UNCHANGED <<live, answer>>
  /\ World

DescendantEnds ==
  /\ \E d \in live : live' = live \ {d}
  /\ UNCHANGED <<leader, code, answer>>
  /\ World

-------------------------------------------------------------------------------
(* Acquiring the transport and the worker.                                  *)

(* _make_session_directory: without one the transport is stdout.            *)
MakeDir ==
  /\ phase = "dir"
  /\ \/ dir' = TRUE /\ Goto("file")
     \/ dir' = FALSE /\ Goto("spools")
  /\ UNCHANGED <<mode, spools, read, owned, unwinding, said, worker, go, signals>>

MakeFile ==
  /\ phase = "file"
  /\ mode' \in {"file", "stdout"}
  /\ Goto("spools")
  /\ UNCHANGED <<dir, spools, read, owned, unwinding, said, worker, go, signals>>

(* The result is decided; the context managers close what they own.         *)
Decide(v) ==
  /\ verdict' = v
  /\ Goto("leave")

MakeSpools ==
  /\ phase = "spools"
  /\ spools' \in BOOLEAN
  /\ IF ~spools' /\ mode = "stdout" THEN Decide("capture_unavailable")
     ELSE Goto("spawn") /\ UNCHANGED verdict
  /\ UNCHANGED <<dir, mode, read, owned, unwinding, complaints, worker, go, signals>>

Spawn ==
  /\ phase = "spawn"
  /\ \/ /\ leader' = "gate"
        /\ Goto(IF platform = "nt" THEN "attach" ELSE "talk")
        /\ UNCHANGED verdict
     \/ Decide("spawn_failed") /\ UNCHANGED leader
  /\ UNCHANGED <<held, owned, unwinding, complaints, code, live, answer, go, signals>>

(* _WorkerTree.terminate, the first time: the flag is set and the job taken *)
(* before anything is killed.                                               *)
Terminate(reason) ==
  /\ ~terminated
  /\ terminated' = TRUE /\ why' = reason /\ job' = FALSE
  /\ Goto(IF platform = "posix" THEN "sigterm" ELSE IF job THEN "job" ELSE "leader")

Attach ==
  /\ phase = "attach"
  /\ job' = TRUE
  /\ Goto("talk")
  /\ UNCHANGED <<held, terminated, why, unwinding, said, worker, go, signals>>

(* JobAssignmentError.                                                      *)
AttachFails ==
  /\ phase = "attach"
  /\ Terminate("isolation_unavailable")
  /\ UNCHANGED <<held, unwinding, said, worker, go, signals>>

-------------------------------------------------------------------------------
(* communicate: the GO frame is sent and the worker waited for.             *)

SendsGo ==
  /\ phase = "talk" /\ ~go
  /\ go' = TRUE
  /\ UNCHANGED <<platform, phase, held, owned, unwinding, said, worker, signals>>

(* The worker has ended, before or after the frame; what it forked may live *)
(* on.                                                                      *)
Returned ==
  /\ phase = "talk" /\ leader = "ended"
  /\ leader' = "reaped"
  /\ Goto("capture")
  /\ UNCHANGED <<held, owned, unwinding, said, code, live, answer, go, signals>>

TimesOut ==
  /\ phase = "talk"
  /\ Terminate("TIMEOUT")
  /\ UNCHANGED <<held, unwinding, said, worker, go, signals>>

CommunicationFails ==
  /\ phase = "talk"
  /\ Terminate("worker_communication")
  /\ UNCHANGED <<held, unwinding, said, worker, go, signals>>

-------------------------------------------------------------------------------
(* _terminate.  Every wait ends when what it waits for has happened or when *)
(* its time is over.                                                        *)

Complains(c) == complaints' = complaints \cup {c}

(* Where a terminate() returns to.                                          *)
Resume ==
  CASE why = "returned" -> "result"
    [] why = "TIMEOUT" -> "drain"
    [] why \in {"isolation_unavailable", "worker_communication"} -> "result"
    [] why = "unwind" -> "close"

(* What a wait that is over, or given up, has made of the leader.           *)
Reaped == IF leader = "ended" THEN "reaped" ELSE leader

KillingOnly == UNCHANGED <<held, owned, unwinding, verdict, code, live, answer, go>>

(* killpg(SIGTERM); it may be refused.                                      *)
Sigterm ==
  /\ phase = "sigterm"
  /\ \/ warned' = Alive /\ UNCHANGED complaints
     \/ GroupExists /\ Complains("tree") /\ UNCHANGED warned
  /\ Goto("grace")
  /\ UNCHANGED <<leader, doomed>> /\ KillingOnly

(* The wait that does not kill: over when the worker has ended, or late.    *)
Grace ==
  /\ phase = "grace"
  /\ leader' = Reaped
  /\ Goto("sigkill")
  /\ UNCHANGED <<complaints, signals>> /\ KillingOnly

(* Mutant: the group is killed only while its leader is there.              *)
SigkillLeaderOnly ==
  /\ phase = "sigkill"
  /\ doomed' = IF leader = "reaped" THEN doomed ELSE Alive
  /\ Goto(IF leader = "reaped" THEN "reap" ELSE "group")
  /\ UNCHANGED <<leader, complaints, warned>> /\ KillingOnly

Sigkill ==
  /\ phase = "sigkill"
  /\ IF ~GroupExists THEN Goto("reap") /\ UNCHANGED <<doomed, complaints>>
     ELSE \/ doomed' = Alive /\ Goto("group") /\ UNCHANGED complaints
          \/ Complains("tree") /\ Goto("reap") /\ UNCHANGED doomed
  /\ UNCHANGED <<leader, warned>> /\ KillingOnly

(* _wait_for_group_exit.                                                    *)
GroupGone ==
  /\ phase = "group" /\ ~GroupExists
  /\ Goto("reap")
  /\ UNCHANGED <<leader, complaints, signals>> /\ KillingOnly

(* Mutant: the group is waited for as long as it takes.                     *)
GroupStaysForEver ==
  /\ phase = "group" /\ GroupExists
  /\ UNCHANGED vars

GroupStays ==
  /\ phase = "group" /\ GroupExists
  /\ Complains("tree")
  /\ Goto("reap")
  /\ UNCHANGED <<leader, signals>> /\ KillingOnly

(* Popen.wait raises: the failure is noted and nothing is killed any more.  *)
WaitFails ==
  /\ phase \in {"grace", "reap", "settle"}
  /\ Complains("tree")
  /\ Goto(IF phase = "grace" THEN "sigkill" ELSE Resume)
  /\ UNCHANGED <<leader, signals>> /\ KillingOnly

Reap ==
  /\ phase = "reap"
  /\ leader' = Reaped
  /\ Goto(Resume)
  /\ UNCHANGED <<complaints, signals>> /\ KillingOnly

(* _finish_job: the job is terminated, or its leader if that fails.         *)
TerminateJob ==
  /\ phase = "job"
  /\ \/ doomed' = doomed \cup Alive /\ Goto("settle") /\ UNCHANGED complaints
     \/ Complains("tree") /\ Goto("leader") /\ UNCHANGED doomed
  /\ UNCHANGED <<leader, warned>> /\ KillingOnly

(* Popen.terminate of the worker alone.                                     *)
TerminateLeader ==
  /\ phase = "leader"
  /\ \/ doomed' = doomed \cup (Alive \cap {Leader}) /\ UNCHANGED complaints
     \/ Complains("tree") /\ UNCHANGED doomed
  /\ Goto("settle")
  /\ UNCHANGED <<leader, warned>> /\ KillingOnly

(* The wait that kills when its time is over ...                            *)
Settle ==
  /\ phase = "settle"
  /\ \/ Ended /\ leader' = "reaped" /\ Goto(Resume)
     \/ ~Ended /\ Goto("kill") /\ UNCHANGED leader
  /\ UNCHANGED <<complaints, signals>> /\ KillingOnly

Kill ==
  /\ phase = "kill"
  /\ \/ doomed' = doomed \cup (Alive \cap {Leader}) /\ UNCHANGED complaints
     \/ Complains("tree") /\ UNCHANGED doomed
  /\ Goto("reaped")
  /\ UNCHANGED <<leader, warned>> /\ KillingOnly

(* ... and waits once more.                                                 *)
SettleAgain ==
  /\ phase = "reaped"
  /\ \/ Ended /\ leader' = "reaped" /\ UNCHANGED complaints
     \/ ~Ended /\ Complains("tree") /\ UNCHANGED leader
  /\ Goto(Resume)
  /\ UNCHANGED signals /\ KillingOnly

-------------------------------------------------------------------------------
(* The result.                                                              *)

(* Mutant: a whole answer still counts after the deadline.                  *)
DrainBelieving ==
  /\ phase = "drain"
  /\ leader' = Reaped
  /\ IF answer = Whole THEN Decide("own") ELSE Goto("capture") /\ UNCHANGED verdict
  /\ UNCHANGED <<held, owned, unwinding, complaints, code, live, answer, go, signals>>

(* The second communicate, for the output of a worker that timed out.       *)
Drain ==
  /\ phase = "drain"
  /\ leader' = Reaped
  /\ Goto("capture")
  /\ UNCHANGED <<held, owned, unwinding, said, code, live, answer, go, signals>>

(* _capture_stream: the frame is looked for in the stdout spool if that is  *)
(* the transport.  A read that fails is not reported: what has been read    *)
(* until then counts as all the output there is.                            *)
Captures ==
  \/ mode = "stdout" /\ seen' = answer /\ UNCHANGED misread
  \/ mode = "stdout" /\ seen' \in Empty..answer /\ misread' = TRUE
  \/ mode = "file" /\ UNCHANGED read

(* After the deadline the frame plays no part.  A worker that has ended has *)
(* its tree terminated, after the spool and before the file is read.        *)
Capture ==
  /\ phase = "capture"
  /\ Captures
  /\ IF why = "TIMEOUT" THEN Decide("TIMEOUT") /\ UNCHANGED owned
     ELSE Terminate("returned") /\ UNCHANGED verdict
  /\ UNCHANGED <<dir, mode, spools, unwinding, complaints, worker, go, signals>>

(* What the parent has read of the frame.                                   *)
Received == IF mode = "file" THEN answer ELSE seen

(* missing_result: nothing in the file, or nothing in the output that could *)
(* be told from other output.                                               *)
Missing == Received = Empty \/ (mode = "stdout" /\ Received = Scrap)

(* Mutant: without a frame the result is whatever ended the waiting.        *)
ClassifiedBare == IF Received = Whole /\ why = "returned" THEN "own" ELSE why

(* A whole frame is believed whatever the exit code; without one the exit   *)
(* code decides.                                                            *)
Classified ==
  IF why # "returned" THEN why
  ELSE IF Received = Whole THEN "own"
  ELSE IF Missing /\ code \notin {"zero", "three"} THEN "CRASH"
  ELSE "ERROR"

Conclude ==
  /\ phase = "result"
  /\ Decide(Classified)
  /\ UNCHANGED <<held, owned, unwinding, complaints, worker, go, signals>>

(* The result file cannot be read: that is reported, whatever the exit code.*)
ReadFails ==
  /\ phase = "result" /\ why = "returned" /\ mode = "file"
  /\ misread' = TRUE
  /\ Decide("ERROR")
  /\ UNCHANGED <<dir, mode, spools, seen, owned, unwinding, complaints, worker, go,
                 signals>>

-------------------------------------------------------------------------------
(* Leaving: _worker_tree terminates what has not been terminated, then the  *)
(* spools and the session are closed.                                       *)

Spawned == leader # "none"

Leave ==
  /\ phase = "leave"
  /\ IF Spawned /\ ~terminated THEN Terminate("unwind")
     ELSE Goto("close") /\ UNCHANGED owned
  /\ UNCHANGED <<held, unwinding, said, worker, go, signals>>

CloseSpools ==
  /\ phase = "close"
  /\ spools' = FALSE
  /\ Goto("cleanup")
  /\ UNCHANGED <<dir, mode, read, owned, unwinding, said, worker, go, signals>>

(* Mutant: the session is removed only on the way to a result.              *)
CleanupOnReturn ==
  /\ phase = "cleanup"
  /\ dir' = (dir /\ unwinding)
  /\ Goto(IF unwinding THEN "raised" ELSE "returned")
  /\ UNCHANGED <<mode, spools, read, owned, unwinding, said, worker, go, signals>>

(* _cleanup_session; what cannot be removed is reported.                    *)
Cleanup ==
  /\ phase = "cleanup"
  /\ \/ dir' = FALSE /\ UNCHANGED complaints
     \/ dir /\ UNCHANGED dir /\ Complains("transport")
  /\ Goto(IF unwinding THEN "raised" ELSE "returned")
  /\ UNCHANGED <<mode, spools, read, owned, unwinding, verdict, worker, go, signals>>

(* Ctrl+C: from _worker_tree's own clean-up on only the outer managers are  *)
(* left to run.  communicate gives the worker a last moment to end.         *)
Interrupt ==
  /\ phase \in InterruptAt \ Closing
  /\ unwinding' = TRUE
  /\ Goto(IF phase \in Terminating /\ why = "unwind" THEN "close" ELSE "leave")
  /\ leader' \in (IF phase = "talk" THEN {leader, Reaped} ELSE {leader})
  /\ UNCHANGED <<held, owned, said, code, live, answer, go, signals>>

-------------------------------------------------------------------------------

Parent ==
  \/ MakeDir \/ MakeFile \/ MakeSpools \/ Spawn \/ Attach \/ AttachFails
  \/ SendsGo \/ Returned \/ TimesOut \/ CommunicationFails
  \/ Sigterm \/ Grace \/ Sigkill \/ GroupGone \/ GroupStays \/ Reap \/ WaitFails
  \/ TerminateJob \/ TerminateLeader \/ Settle \/ Kill \/ SettleAgain
  \/ Drain \/ Capture \/ Conclude \/ ReadFails
  \/ Leave \/ CloseSpools \/ Cleanup

Environment ==
  \/ PassesGate \/ Forks \/ Writes \/ Exits \/ IsKilled \/ DescendantEnds
  \/ Interrupt

Next == Parent \/ Environment

Spec == Init /\ [][Next]_vars

(* Every wait of the parent has a timeout, so it always goes on; the worker *)
(* owes nothing.                                                            *)
FairSpec == Spec /\ WF_vars(Parent)

-------------------------------------------------------------------------------
(* Properties.                                                              *)

(* The variables have their types.                                          *)
TypeOK ==
  /\ platform \in Platforms /\ phase \in Phase
  /\ dir \in BOOLEAN /\ spools \in BOOLEAN /\ job \in BOOLEAN
  /\ terminated \in BOOLEAN /\ unwinding \in BOOLEAN /\ go \in BOOLEAN
  /\ mode \in {"file", "stdout"}
  /\ seen \in Empty..Whole /\ misread \in BOOLEAN
  /\ why \in {"none", "returned", "TIMEOUT", "isolation_unavailable",
              "worker_communication", "unwind"}
  /\ verdict \in Verdict
  /\ complaints \subseteq {"tree", "transport"}
  /\ leader \in {"none", "gate", "working", "ended", "reaped"}
  /\ code \in {"none", "zero", "three", "failed", "signal"}
  /\ live \subseteq Descendant
  /\ answer \in Empty..Whole
  /\ warned \subseteq Process /\ doomed \subseteq Process

(* When the call is over, however it ended, every process of the tree that  *)
(* is still there has been killed, or the failure to do so has been         *)
(* reported; the worker's answer, its crash, its deadline and a Ctrl+C all  *)
(* race with the termination.                                               *)
NothingLeftRunning ==
  phase \in Ending => Alive \subseteq doomed \/ "tree" \in complaints

(* ... and the spools and the session directory are gone.                   *)
NothingLeftBehind ==
  phase \in Ending => ~spools /\ (dir => "transport" \in complaints)

(* A result says what happened.  A whole answer of a worker that ended in   *)
(* time is its verdict unless the transport could not be read, and nothing  *)
(* else ever is.  A crash is the worker's own, never the effect of its      *)
(* termination, and hides no answer; on stdout it may hide less than the    *)
(* frame's prefix, and any answer when the spool could not be read.         *)
VerdictIsEarned ==
  phase = "returned" =>
    /\ verdict # "none"
    /\ verdict = "own" => answer = Whole /\ why = "returned"
    /\ why = "returned" /\ answer = Whole => verdict = "own" \/ misread
    /\ verdict = "CRASH" => /\ code = "failed" /\ Leader \notin doomed
                            /\ \/ answer = Empty
                               \/ mode = "stdout" /\ (answer = Scrap \/ misread)
    /\ verdict \in {"own", "CRASH", "ERROR"} => leader = "reaped"

(* The call comes to an end.                                                *)
Returns == <>(phase \in Ending)

================================================================================
